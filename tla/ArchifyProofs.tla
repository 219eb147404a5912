--------------------------- MODULE ArchifyProofs ---------------------------
(***************************************************************************)
(* The parts of Archify keep what they promise.  One section per part: the *)
(* inductive invariant (IInv in the part's module) step by step, then the  *)
(* theorems about the run's property.                                      *)
(***************************************************************************)
EXTENDS ArchifyParts, Sequences, SequenceTheorems, FiniteSetTheorems, TLAPS

(***************************************************************************)
(* VisualCheck                                                             *)
(***************************************************************************)

LEMMA VisualInit ==
  ASSUME V!Init
  PROVE  V!IInv
<1>1. 1 \in 1..Views /\ Captured \cap (1..0) = {} /\ 1..(1 - 1) = {}
  BY VisualAssumption
<1>2. /\ run = [step |-> "start", view |-> 1, seen |-> {}] /\ ended = "none" /\ profile = FALSE
      /\ cdp = [pending |-> FALSE, waiter |-> FALSE] /\ chrome = "none" /\ loaded = "none"
      /\ art = [now |-> 1, first |-> 0]
      /\ side \in [pictures : {{}, Captured}, sheet : BOOLEAN, receipt : {"none", "stale"}]
  BY DEF V!Init
<1>3. V!TypeInv
  BY <1>1, <1>2 DEF V!TypeInv, V!Steps, V!Awaiting
<1>4. V!BrowserInv /\ V!ProgressInv
  BY <1>2 DEF V!BrowserInv, V!ProgressInv, V!Awaiting
<1>5. V!ReceiptTrue /\ V!LeavesNothing
  BY <1>2 DEF V!ReceiptTrue, V!LeavesNothing
<1> QED
  BY <1>3, <1>4, <1>5 DEF V!IInv

LEMMA VisualStart ==
  ASSUME V!IInv, NEW found \in BOOLEAN, V!Start(found)
  PROVE  V!IInv'
<1>1. /\ run.step = "start" /\ run.view = 1 /\ run.seen = {} /\ ended = "none"
      /\ profile = FALSE /\ ~cdp.waiter /\ ~cdp.pending
      /\ run \in [step : V!Steps, view : 1..Views, seen : SUBSET (1..Views)]
      /\ cdp \in [pending : BOOLEAN, waiter : BOOLEAN] /\ art \in [now : Nat, first : Nat]
      /\ loaded \in {"none", "open", "kept", "lost", "crash"}
  BY DEF V!Start, V!IInv, V!TypeInv, V!BrowserInv, V!Awaiting
<1>2. art' \in [now : Nat, first : Nat] /\ loaded' = loaded
  BY <1>1 DEF V!Start
<1>3. Captured \cap (1..0) = {} /\ 1..(1 - 1) = {}
  OBVIOUS
<1>4. CASE found
  <2>1. /\ side' = [pictures |-> {}, sheet |-> FALSE, receipt |-> "none"]
        /\ run' = [run EXCEPT !.step = "attach"] /\ chrome' = "up" /\ profile' = TRUE
        /\ cdp' = [cdp EXCEPT !.pending = TRUE] /\ ended' = "none"
    BY <1>1, <1>4 DEF V!Start
  <2>2. /\ run' \in [step : V!Steps, view : 1..Views, seen : SUBSET (1..Views)]
        /\ run'.step = "attach" /\ run'.view = 1 /\ run'.seen = {}
    BY <1>1, <2>1 DEF V!Steps, V!Awaiting
  <2>3. cdp' \in [pending : BOOLEAN, waiter : BOOLEAN] /\ ~cdp'.waiter
    BY <1>1, <2>1
  <2>4. V!TypeInv'
    BY <1>1, <1>2, <2>1, <2>2, <2>3 DEF V!TypeInv
  <2>5. V!BrowserInv' /\ V!ProgressInv'
    BY <1>3, <2>1, <2>2, <2>3 DEF V!BrowserInv, V!ProgressInv, V!Awaiting
  <2>6. V!ReceiptTrue' /\ V!LeavesNothing'
    BY <2>1, <2>2 DEF V!ReceiptTrue, V!LeavesNothing
  <2> QED
    BY <2>4, <2>5, <2>6 DEF V!IInv
<1>5. CASE ~found
  <2>1. /\ side' = [pictures |-> {}, sheet |-> FALSE, receipt |-> "skipped"]
        /\ run' = [run EXCEPT !.step = "done"] /\ chrome' = "missing" /\ ended' = "answered"
        /\ profile' = profile /\ cdp' = cdp
    BY <1>1, <1>5 DEF V!Start
  <2>2. /\ run' \in [step : V!Steps, view : 1..Views, seen : SUBSET (1..Views)]
        /\ run'.step = "done"
    BY <1>1, <2>1 DEF V!Steps
  <2>3. V!TypeInv'
    BY <1>1, <1>2, <2>1, <2>2 DEF V!TypeInv
  <2>4. V!BrowserInv' /\ V!ProgressInv'
    BY <1>1, <2>1, <2>2 DEF V!BrowserInv, V!ProgressInv, V!Awaiting
  <2>5. V!ReceiptTrue' /\ V!LeavesNothing'
    BY <1>1, <2>1 DEF V!ReceiptTrue, V!LeavesNothing
  <2> QED
    BY <2>3, <2>4, <2>5 DEF V!IInv
<1> QED
  BY <1>4, <1>5

\* What every step starts from.
LEMMA VisualTyped ==
  ASSUME V!IInv
  PROVE  /\ run \in [step : V!Steps, view : 1..Views, seen : SUBSET (1..Views)]
         /\ cdp \in [pending : BOOLEAN, waiter : BOOLEAN] /\ art \in [now : Nat, first : Nat]
         /\ side \in [pictures : SUBSET Captured, sheet : BOOLEAN,
                      receipt : {"none", "stale", "skipped", "fail", "pass"}]
BY DEF V!IInv, V!TypeInv

\* A failure leaves its receipt and nothing else.
LEMMA VisualFailed ==
  ASSUME V!IInv, V!Failed
  PROVE  /\ side' = [pictures |-> {}, sheet |-> FALSE, receipt |-> "fail"]
         /\ run' \in [step : V!Steps, view : 1..Views, seen : SUBSET (1..Views)]
         /\ run'.step = "closing"
         /\ side' \in [pictures : SUBSET Captured, sheet : BOOLEAN,
                       receipt : {"none", "stale", "skipped", "fail", "pass"}]
BY VisualTyped DEF V!Failed, V!Steps

LEMMA VisualSend ==
  ASSUME V!IInv, V!Send
  PROVE  V!IInv'
<1>1. V!TypeInv'
  BY DEF V!Send, V!IInv, V!TypeInv
<1>2. V!BrowserInv'
  BY DEF V!Send, V!IInv, V!BrowserInv, V!Awaiting
<1>3. V!ProgressInv'
  BY DEF V!Send, V!IInv, V!ProgressInv
<1>4. V!ReceiptTrue'
  BY DEF V!Send, V!IInv, V!ReceiptTrue
<1>5. V!LeavesNothing'
  BY DEF V!Send, V!IInv, V!LeavesNothing
<1> QED
  BY <1>1, <1>2, <1>3, <1>4, <1>5 DEF V!IInv

LEMMA VisualAnswered ==
  ASSUME V!IInv, V!Answered
  PROVE  V!IInv'
<1>1. V!TypeInv'
  <2>1. V!Following(run.step, run.view) \in V!Steps
    BY DEF V!Following, V!Steps, V!Awaiting
  <2>2. run' \in [step : V!Steps, view : 1..Views, seen : SUBSET (1..Views)]
    BY <2>1, VisualTyped DEF V!Answered
  <2>3. side' \in [pictures : SUBSET Captured, sheet : BOOLEAN,
                  receipt : {"none", "stale", "skipped", "fail", "pass"}]
    BY VisualTyped DEF V!Answered, V!IInv, V!ProgressInv
  <2> QED
    BY <2>2, <2>3, VisualTyped DEF V!Answered, V!IInv, V!TypeInv
<1>2. V!BrowserInv'
  BY DEF V!Answered, V!Following, V!IInv, V!BrowserInv, V!Awaiting
<1>3. V!ProgressInv'
  BY VisualTyped DEF V!Answered, V!Following, V!IInv, V!BrowserInv, V!ProgressInv, V!Awaiting
<1>4. V!ReceiptTrue'
  BY DEF V!Answered, V!Following, V!IInv, V!BrowserInv, V!ReceiptTrue
<1>5. V!LeavesNothing'
  BY DEF V!Answered, V!IInv, V!LeavesNothing
<1> QED
  BY <1>1, <1>2, <1>3, <1>4, <1>5 DEF V!IInv

LEMMA VisualLoadEvent ==
  ASSUME V!IInv, V!LoadEvent
  PROVE  V!IInv'
<1>1. V!TypeInv'
  BY DEF V!LoadEvent, V!IInv, V!TypeInv
<1>2. V!BrowserInv'
  BY DEF V!LoadEvent, V!IInv, V!BrowserInv
<1>3. V!ProgressInv'
  BY DEF V!LoadEvent, V!IInv, V!ProgressInv
<1>4. V!ReceiptTrue'
  BY DEF V!LoadEvent, V!IInv, V!ReceiptTrue
<1>5. V!LeavesNothing'
  BY DEF V!LoadEvent, V!IInv, V!LeavesNothing
<1> QED
  BY <1>1, <1>2, <1>3, <1>4, <1>5 DEF V!IInv

LEMMA VisualAwaitLoad ==
  ASSUME V!IInv, V!AwaitLoad
  PROVE  V!IInv'
<1>1. V!TypeInv'
  BY DEF V!AwaitLoad, V!IInv, V!TypeInv, V!Steps, V!Awaiting
<1>2. V!BrowserInv'
  BY DEF V!AwaitLoad, V!IInv, V!BrowserInv, V!Awaiting
<1>3. V!ProgressInv'
  BY DEF V!AwaitLoad, V!IInv, V!ProgressInv
<1>4. V!ReceiptTrue'
  BY DEF V!AwaitLoad, V!IInv, V!ReceiptTrue
<1>5. V!LeavesNothing'
  BY DEF V!AwaitLoad, V!IInv, V!LeavesNothing
<1> QED
  BY <1>1, <1>2, <1>3, <1>4, <1>5 DEF V!IInv

LEMMA VisualRejected ==
  ASSUME V!IInv, V!Rejected
  PROVE  V!IInv'
<1>1. V!TypeInv'
  BY VisualTyped, VisualFailed DEF V!Rejected, V!IInv, V!TypeInv, V!Steps, V!Awaiting, V!Spend
<1>2. V!BrowserInv'
  BY VisualFailed DEF V!Rejected, V!IInv, V!BrowserInv, V!Awaiting
<1>3. V!ProgressInv'
  BY VisualFailed DEF V!Rejected, V!ProgressInv, V!Awaiting
<1>4. V!ReceiptTrue'
  BY VisualFailed DEF V!Rejected, V!ReceiptTrue
<1>5. V!LeavesNothing'
  BY DEF V!Rejected, V!IInv, V!LeavesNothing
<1> QED
  BY <1>1, <1>2, <1>3, <1>4, <1>5 DEF V!IInv

LEMMA VisualLoadTimeout ==
  ASSUME V!IInv, V!LoadTimeout
  PROVE  V!IInv'
<1>1. V!TypeInv'
  BY VisualTyped, VisualFailed DEF V!LoadTimeout, V!IInv, V!TypeInv, V!Awaiting, V!Spend
<1>2. V!BrowserInv'
  BY VisualFailed DEF V!LoadTimeout, V!IInv, V!BrowserInv, V!Awaiting
<1>3. V!ProgressInv'
  BY VisualFailed DEF V!LoadTimeout, V!IInv, V!ProgressInv, V!Awaiting
<1>4. V!ReceiptTrue'
  BY VisualFailed DEF V!LoadTimeout, V!IInv, V!ReceiptTrue
<1>5. V!LeavesNothing'
  BY DEF V!LoadTimeout, V!IInv, V!LeavesNothing
<1> QED
  BY <1>1, <1>2, <1>3, <1>4, <1>5 DEF V!IInv

LEMMA VisualChromeDies ==
  ASSUME V!IInv, V!ChromeDies
  PROVE  V!IInv'
<1>1. V!TypeInv'
  BY VisualFailed DEF V!ChromeDies, V!Unawaited, V!IInv, V!TypeInv
<1>2. V!BrowserInv'
  BY VisualFailed DEF V!ChromeDies, V!IInv, V!BrowserInv, V!Awaiting
<1>3. V!ProgressInv'
  BY VisualFailed DEF V!ChromeDies, V!IInv, V!ProgressInv, V!Awaiting
<1>4. V!ReceiptTrue'
  BY VisualFailed DEF V!ChromeDies, V!IInv, V!ReceiptTrue
<1>5. V!LeavesNothing'
  BY DEF V!ChromeDies, V!IInv, V!LeavesNothing
<1> QED
  BY <1>1, <1>2, <1>3, <1>4, <1>5 DEF V!IInv

LEMMA VisualSendFails ==
  ASSUME V!IInv, V!SendFails
  PROVE  V!IInv'
<1>1. V!TypeInv'
  BY VisualFailed DEF V!SendFails, V!IInv, V!TypeInv
<1>2. V!BrowserInv'
  BY VisualFailed DEF V!SendFails, V!IInv, V!BrowserInv
<1>3. V!ProgressInv'
  BY VisualFailed DEF V!SendFails, V!ProgressInv, V!Awaiting
<1>4. V!ReceiptTrue'
  BY VisualFailed DEF V!SendFails, V!ReceiptTrue
<1>5. V!LeavesNothing'
  BY DEF V!SendFails, V!IInv, V!LeavesNothing
<1> QED
  BY <1>1, <1>2, <1>3, <1>4, <1>5 DEF V!IInv

LEMMA VisualObserved ==
  ASSUME V!IInv, V!Observed
  PROVE  V!IInv'
<1> DEFINE seen == run.seen \cup {run.view}
<1>1. /\ run.step = "observed" /\ run.view \in 1..Views /\ ended = "none" /\ ~cdp.pending
      /\ UNCHANGED <<chrome, cdp, art, profile, ended>>
      /\ run.seen = 1..(run.view - 1) /\ ~side.sheet
      /\ side.pictures = Captured \cap (1..run.view)
      /\ loaded' \in {"none", "open", "kept", "lost", "crash"}
      /\ chrome' \in {"none", "up", "ending", "gone", "missing"} /\ profile' \in BOOLEAN
  BY DEF V!Observed, V!IInv, V!TypeInv, V!BrowserInv, V!ProgressInv, V!Awaiting
<1>2. seen = 1..run.view /\ seen \in SUBSET (1..Views)
  BY <1>1, VisualAssumption
<1> HIDE DEF seen
<1>3. CASE run.view < Views
  <2>1. run' = [step |-> "size", view |-> run.view + 1, seen |-> seen] /\ side' = side
    BY <1>3 DEF V!Observed, seen
  <2>2. run.view + 1 \in 1..Views /\ (run.view + 1) - 1 = run.view
    BY <1>1, <1>3, VisualAssumption
  <2>3. V!TypeInv'
    BY <1>1, <1>2, <2>1, <2>2, VisualTyped DEF V!TypeInv, V!Steps, V!Awaiting
  <2>4. V!BrowserInv' /\ V!ReceiptTrue' /\ V!LeavesNothing'
    BY <1>1, <2>1 DEF V!BrowserInv, V!Awaiting, V!ReceiptTrue, V!LeavesNothing
  <2>5. V!ProgressInv'
    BY <1>1, <1>2, <2>1, <2>2 DEF V!ProgressInv, V!Awaiting
  <2> QED
    BY <2>3, <2>4, <2>5 DEF V!IInv
<1>4. CASE run.view >= Views
  <2>1. run.view = Views /\ ~(run.view < Views)
    BY <1>1, <1>4, VisualAssumption
  <2>2. CASE art.now # art.first
    <3>1. V!Failed
      BY <2>1, <2>2 DEF V!Observed
    <3>2. V!TypeInv'
      BY <1>1, <3>1, VisualTyped, VisualFailed DEF V!TypeInv
    <3>3. V!BrowserInv' /\ V!ProgressInv' /\ V!ReceiptTrue' /\ V!LeavesNothing'
      BY <1>1, <3>1, VisualFailed
        DEF V!BrowserInv, V!Awaiting, V!ProgressInv, V!ReceiptTrue, V!LeavesNothing
    <3> QED
      BY <3>2, <3>3 DEF V!IInv
  <2>3. CASE art.now = art.first
    <3>1. PICK ok \in {"pass", "fail"} :
             /\ side' = [side EXCEPT !.sheet = TRUE, !.receipt = ok]
             /\ run' = [run EXCEPT !.step = "closing", !.seen = seen]
      BY <2>1, <2>3 DEF V!Observed, seen
    <3>2. /\ run' \in [step : V!Steps, view : 1..Views, seen : SUBSET (1..Views)]
          /\ run'.step = "closing" /\ run'.seen = 1..Views
      BY <1>2, <2>1, <3>1, VisualTyped DEF V!Steps
    <3>3. /\ side' \in [pictures : SUBSET Captured, sheet : BOOLEAN,
                        receipt : {"none", "stale", "skipped", "fail", "pass"}]
          /\ side'.sheet /\ side'.receipt = ok /\ side'.pictures = Captured
      BY <1>1, <2>1, <3>1, VisualTyped, VisualAssumption
    <3>4. V!TypeInv'
      BY <1>1, <3>2, <3>3, VisualTyped DEF V!TypeInv
    <3>5. V!BrowserInv' /\ V!ProgressInv' /\ V!ReceiptTrue' /\ V!LeavesNothing'
      BY <1>1, <3>2, <3>3
        DEF V!BrowserInv, V!Awaiting, V!ProgressInv, V!ReceiptTrue, V!LeavesNothing
    <3> QED
      BY <3>4, <3>5 DEF V!IInv
  <2> QED
    BY <2>2, <2>3
<1> QED
  BY <1>1, <1>3, <1>4, VisualAssumption

LEMMA VisualClose ==
  ASSUME V!IInv, V!Close
  PROVE  V!IInv'
<1>1. V!TypeInv'
  BY DEF V!Close, V!IInv, V!TypeInv, V!Steps
<1>2. V!BrowserInv'
  BY DEF V!Close, V!IInv, V!BrowserInv
<1>3. V!ProgressInv'
  BY DEF V!Close, V!ProgressInv, V!Awaiting
<1>4. V!ReceiptTrue'
  BY DEF V!Close, V!IInv, V!ReceiptTrue
<1>5. V!LeavesNothing'
  BY DEF V!Close, V!IInv, V!LeavesNothing
<1> QED
  BY <1>1, <1>2, <1>3, <1>4, <1>5 DEF V!IInv

LEMMA VisualDone ==
  ASSUME V!IInv, V!Done
  PROVE  V!IInv'
<1>1. V!TypeInv'
  BY DEF V!Done, V!IInv, V!TypeInv, V!Steps
<1>2. V!BrowserInv'
  BY DEF V!Done, V!IInv, V!BrowserInv, V!Awaiting
<1>3. V!ProgressInv'
  BY DEF V!Done, V!ProgressInv, V!Awaiting
<1>4. V!ReceiptTrue'
  BY DEF V!Done, V!IInv, V!ReceiptTrue
<1>5. V!LeavesNothing'
  BY DEF V!Done, V!IInv, V!BrowserInv, V!LeavesNothing, V!Awaiting
<1> QED
  BY <1>1, <1>2, <1>3, <1>4, <1>5 DEF V!IInv

LEMMA VisualCrash ==
  ASSUME V!IInv, V!Crash
  PROVE  V!IInv'
<1>1. V!TypeInv'
  BY DEF V!Crash, V!IInv, V!TypeInv, V!Steps
<1>2. V!BrowserInv'
  BY DEF V!Crash, V!BrowserInv, V!Alive
<1>3. V!ProgressInv'
  BY DEF V!Crash, V!ProgressInv, V!Awaiting
<1>4. V!ReceiptTrue'
  BY DEF V!Crash, V!ReceiptTrue
<1>5. V!LeavesNothing'
  BY DEF V!Crash, V!LeavesNothing
<1> QED
  BY <1>1, <1>2, <1>3, <1>4, <1>5 DEF V!IInv

LEMMA VisualEdit ==
  ASSUME V!IInv, V!Edit
  PROVE  V!IInv'
<1>1. V!TypeInv'
  BY DEF V!Edit, V!IInv, V!TypeInv
<1>2. V!BrowserInv'
  BY DEF V!Edit, V!IInv, V!BrowserInv
<1>3. V!ProgressInv'
  BY DEF V!Edit, V!IInv, V!ProgressInv
<1>4. V!ReceiptTrue'
  BY DEF V!Edit, V!IInv, V!ReceiptTrue
<1>5. V!LeavesNothing'
  BY DEF V!Edit, V!IInv, V!LeavesNothing
<1> QED
  BY <1>1, <1>2, <1>3, <1>4, <1>5 DEF V!IInv

LEMMA VisualStep ==
  ASSUME V!IInv, V!Next
  PROVE  V!IInv'
BY VisualStart, VisualSend, VisualAnswered, VisualLoadEvent, VisualAwaitLoad, VisualRejected,
   VisualLoadTimeout, VisualChromeDies, VisualSendFails, VisualObserved, VisualClose,
   VisualDone, VisualCrash, VisualEdit
  DEF V!Next

LEMMA VisualStutter ==
  ASSUME V!IInv, UNCHANGED OfVisual
  PROVE  V!IInv'
BY DEF OfVisual, V!IInv, V!TypeInv, V!BrowserInv, V!ProgressInv, V!ReceiptTrue, V!LeavesNothing,
       V!Alive

\* The receipt left behind is of this run and has every view and picture behind it, and
\* an answered call leaves no Chrome and no profile, for every number of views and
\* pictures and whatever goes wrong (bin/visual-check.mjs, 141-804).
THEOREM VisualHolds == PartSpec => [](part = "visual" => V!VisualFaithful)
<1> DEFINE I == part = "visual" => V!IInv
<1>1. PartInit => I
  BY VisualInit DEF PartInit
<1>2. I /\ [PartNext]_partVars => I'
  <2>1. CASE part = "visual" /\ PartNext
    BY <2>1, VisualStep DEF PartNext
  <2>2. CASE part # "visual" /\ PartNext
    BY <2>2 DEF PartNext
  <2>3. CASE UNCHANGED partVars
    BY <2>3, VisualStutter DEF partVars
  <2> QED
    BY <2>1, <2>2, <2>3
<1>3. I => (part = "visual" => V!VisualFaithful)
  BY DEF V!VisualFaithful, V!IInv
<1> QED
  BY <1>1, <1>2, <1>3, PTL DEF PartSpec

(***************************************************************************)
(* Preview                                                                 *)
(***************************************************************************)

LEMMA PreviewInit ==
  ASSUME P!Init
  PROVE  P!IInv
<1>1. PICK s \in Sources :
         /\ file = [src |-> s, out |-> "none", touched |-> FALSE]
         /\ sight = [queued |-> s, epoch |-> 1, good |-> "none", pending |-> FALSE]
  BY DEF P!Init
<1>2. /\ timer = "now" /\ child = [runs |-> FALSE, hash |-> "none", epoch |-> 0, killed |-> FALSE]
      /\ state = [status |-> "checking", of |-> "none", revision |-> 0, last |-> "none"]
      /\ buffer = "none" /\ frame = [revision |-> 0, art |-> "none"]
      /\ stop = [is |-> FALSE, done |-> FALSE, server |-> TRUE, drain |-> "none",
                 staging |-> TRUE, seen |-> "none"]
  BY DEF P!Init, P!NoChild
<1>3. "none" \in P!Artifacts
  BY DEF P!Artifacts
<1>4. P!TypeInv
  BY <1>1, <1>2, <1>3
    DEF P!TypeInv, P!Files, P!Sights, P!Timers, P!Builds, P!States, P!Frames, P!Stops, P!Outputs
<1>5. P!ChildInv /\ P!KeptInv /\ P!RestInv /\ P!OutInv /\ P!StopsCleanly
  BY <1>1, <1>2 DEF P!ChildInv, P!KeptInv, P!RestInv, P!OutInv, P!StopsCleanly
<1> QED
  BY <1>4, <1>5 DEF P!IInv

\* What every step starts from, and the records it makes.
LEMMA PreviewTyped ==
  ASSUME P!IInv
  PROVE  /\ file \in P!Files /\ sight \in P!Sights /\ timer \in P!Timers /\ child \in P!Builds
         /\ state \in P!States /\ frame \in P!Frames /\ stop \in P!Stops
         /\ buffer \in P!Artifacts /\ file.out \in P!Outputs
BY DEF P!IInv, P!TypeInv, P!Files

LEMMA BroadcastTyped ==
  ASSUME frame \in P!Frames, NEW new \in P!States, P!Publish(new)
  PROVE  state' \in P!States /\ frame' \in P!Frames
BY DEF P!Publish, P!States, P!Frames

LEMMA RequeueTyped ==
  ASSUME sight \in P!Sights, timer \in P!Timers, file \in P!Files,
         NEW stale, NEW superseded, P!Requeue(stale, superseded)
  PROVE  sight' \in P!Sights /\ timer' \in P!Timers
<1>1. CASE stale \/ superseded \/ sight.pending
  <2> DEFINE epoch == IF superseded /\ ~stale THEN sight.epoch + 1 ELSE sight.epoch
  <2>1. epoch \in Nat /\ sight.good \in Sources \cup {"none"} /\ file.src \in Sources
    BY DEF P!Sights, P!Files
  <2>2. sight' = [queued |-> file.src, epoch |-> epoch, good |-> sight.good, pending |-> FALSE]
    BY <1>1 DEF P!Requeue, P!Queue, P!Sights
  <2> HIDE DEF epoch
  <2>3. sight' \in P!Sights
    BY <2>1, <2>2 DEF P!Sights
  <2> QED
    BY <1>1, <2>3 DEF P!Requeue, P!Queue, P!Timers
<1>2. CASE ~(stale \/ superseded \/ sight.pending)
  BY <1>2 DEF P!Requeue
<1> QED
  BY <1>1, <1>2

LEMMA FinishTyped ==
  ASSUME NEW s \in P!Stops
  PROVE  P!finishStop(s) \in P!Stops
<1>1. CASE s.is /\ ~s.server
  <2>1. P!finishStop(s) = [is |-> s.is, done |-> TRUE, server |-> s.server, drain |-> "none",
                           staging |-> FALSE, seen |-> s.seen]
    BY <1>1 DEF P!finishStop, P!Stops
  <2> QED
    BY <2>1 DEF P!Stops
<1>2. CASE ~(s.is /\ ~s.server)
  BY <1>2 DEF P!finishStop
<1> QED
  BY <1>1, <1>2

LEMMA PreviewEdit ==
  ASSUME P!IInv, P!Edit
  PROVE  P!IInv'
<1>1. P!TypeInv'
  BY DEF P!Edit, P!Shown, P!IInv, P!TypeInv, P!Files
<1>2. P!ChildInv'
  BY DEF P!Edit, P!IInv, P!ChildInv
<1>3. P!KeptInv'
  BY DEF P!Edit, P!Shown, P!IInv, P!KeptInv
<1>4. P!RestInv'
  BY DEF P!Edit, P!Shown, P!IInv, P!RestInv
<1>5. P!OutInv'
  BY DEF P!Edit, P!Shown, P!IInv, P!OutInv
<1>6. P!StopsCleanly'
  BY DEF P!Edit, P!IInv, P!StopsCleanly
<1> QED
  BY <1>1, <1>2, <1>3, <1>4, <1>5, <1>6 DEF P!IInv

LEMMA PreviewTamper ==
  ASSUME P!IInv, P!Tamper
  PROVE  P!IInv'
<1>1. P!TypeInv'
  <2>1. file' = [src |-> file.src, out |-> "foreign", touched |-> TRUE]
    BY PreviewTyped DEF P!Tamper, P!Files
  <2>2. file' \in P!Files
    BY <2>1, PreviewTyped DEF P!Files, P!Outputs
  <2> QED
    BY <2>2, PreviewTyped DEF P!Tamper, P!Shown, P!TypeInv
<1>2. P!ChildInv'
  BY DEF P!Tamper, P!IInv, P!ChildInv
<1>3. P!KeptInv'
  BY DEF P!Tamper, P!Shown, P!IInv, P!KeptInv
<1>4. P!RestInv'
  BY DEF P!Tamper, P!Shown, P!IInv, P!RestInv
<1>5. P!OutInv'
  BY DEF P!Tamper, P!IInv, P!OutInv
<1>6. P!StopsCleanly'
  BY DEF P!Tamper, P!IInv, P!StopsCleanly
<1> QED
  BY <1>1, <1>2, <1>3, <1>4, <1>5, <1>6 DEF P!IInv

LEMMA PreviewObserveSource ==
  ASSUME P!IInv, P!observeSource
  PROVE  P!IInv'
<1>1. P!TypeInv'
  <2>1. sight' = [queued |-> file.src, epoch |-> sight.epoch + 1, good |-> sight.good,
                  pending |-> sight.pending]
    BY PreviewTyped DEF P!observeSource, P!Queue, P!Sights
  <2>2. sight' \in P!Sights
    BY <2>1, PreviewTyped DEF P!Sights, P!Files
  <2>3. timer' \in P!Timers
    BY DEF P!observeSource, P!Queue, P!Timers
  <2> QED
    BY <2>2, <2>3, PreviewTyped DEF P!observeSource, P!Shown, P!TypeInv
<1>2. P!ChildInv'
  BY PreviewTyped DEF P!observeSource, P!Queue, P!IInv, P!ChildInv, P!Sights, P!Builds
<1>3. P!KeptInv'
  BY DEF P!observeSource, P!Shown, P!Queue, P!IInv, P!KeptInv
<1>4. P!RestInv'
  BY DEF P!observeSource, P!Queue, P!RestInv
<1>5. P!OutInv'
  BY DEF P!observeSource, P!Shown, P!IInv, P!OutInv
<1>6. P!StopsCleanly'
  BY DEF P!observeSource, P!IInv, P!StopsCleanly
<1> QED
  BY <1>1, <1>2, <1>3, <1>4, <1>5, <1>6 DEF P!IInv

LEMMA PreviewLaunchFails ==
  ASSUME P!IInv, P!launchFails
  PROVE  P!IInv'
<1>1. P!TypeInv'
  <2>1. [state EXCEPT !.status = "needs-fix", !.of = file.src] \in P!States
    BY PreviewTyped DEF P!States, P!Files
  <2>2. state' \in P!States /\ frame' \in P!Frames
    BY <2>1, PreviewTyped, BroadcastTyped DEF P!launchFails
  <2> QED
    BY <2>2, PreviewTyped DEF P!launchFails, P!Timers, P!TypeInv
<1>2. P!ChildInv'
  BY DEF P!launchFails, P!IInv, P!ChildInv
<1>3. P!KeptInv'
  BY DEF P!launchFails, P!Publish, P!IInv, P!KeptInv
<1>4. P!RestInv'
  BY DEF P!launchFails, P!Publish, P!RestInv
<1>5. P!OutInv'
  BY DEF P!launchFails, P!IInv, P!OutInv
<1>6. P!StopsCleanly'
  BY DEF P!launchFails, P!IInv, P!StopsCleanly
<1> QED
  BY <1>1, <1>2, <1>3, <1>4, <1>5, <1>6 DEF P!IInv

LEMMA PreviewCommitFails ==
  ASSUME P!IInv, P!CommitFails
  PROVE  P!IInv'
<1>1. P!TypeInv'
  <2>1. [state EXCEPT !.status = "needs-fix", !.of = child.hash] \in P!States
    BY PreviewTyped DEF P!States, P!Builds
  <2>2. state' \in P!States /\ frame' \in P!Frames
    BY <2>1, PreviewTyped, BroadcastTyped DEF P!CommitFails
  <2>3. sight' \in P!Sights /\ timer' \in P!Timers
    BY PreviewTyped, RequeueTyped DEF P!CommitFails
  <2>4. stop' \in P!Stops /\ child' \in P!Builds
    BY PreviewTyped DEF P!CommitFails, P!NoChild, P!Stops, P!Builds
  <2> QED
    BY <2>2, <2>3, <2>4, PreviewTyped DEF P!CommitFails, P!TypeInv
<1>2. P!ChildInv'
  BY DEF P!CommitFails, P!NoChild, P!Requeue, P!IInv, P!ChildInv
<1>3. P!KeptInv'
  BY PreviewTyped
    DEF P!CommitFails, P!Publish, P!Requeue, P!Queue, P!IInv, P!KeptInv, P!Sights, P!States
<1>4. P!RestInv'
  BY DEF P!CommitFails, P!Publish, P!Requeue, P!IInv, P!ChildInv, P!RestInv
<1>5. P!OutInv'
  BY DEF P!CommitFails, P!IInv, P!OutInv
<1>6. P!StopsCleanly'
  BY DEF P!CommitFails, P!IInv, P!StopsCleanly
<1> QED
  BY <1>1, <1>2, <1>3, <1>4, <1>5, <1>6 DEF P!IInv

LEMMA PreviewLoad ==
  ASSUME P!IInv, P!Load
  PROVE  P!IInv'
<1>1. P!TypeInv'
  BY DEF P!Load, P!IInv, P!TypeInv, P!Frames
<1>2. P!ChildInv'
  BY DEF P!Load, P!IInv, P!ChildInv
<1>3. P!KeptInv'
  BY DEF P!Load, P!IInv, P!KeptInv
<1>4. P!RestInv'
  BY DEF P!Load, P!IInv, P!RestInv
<1>5. P!OutInv'
  BY DEF P!Load, P!IInv, P!OutInv
<1>6. P!StopsCleanly'
  BY DEF P!Load, P!IInv, P!StopsCleanly
<1> QED
  BY <1>1, <1>2, <1>3, <1>4, <1>5, <1>6 DEF P!IInv

LEMMA PreviewStop ==
  ASSUME P!IInv, NEW force \in BOOLEAN, P!Stop(force)
  PROVE  P!IInv'
<1>1. P!TypeInv'
  <2> DEFINE s == [stop EXCEPT !.is = TRUE, !.seen = IF stop.is THEN @ ELSE file.out]
  <2>1. s \in P!Stops
    <3> DEFINE seen == IF stop.is THEN stop.seen ELSE file.out
    <3>1. seen \in P!Outputs
      BY PreviewTyped DEF P!Stops
    <3>2. s = [stop EXCEPT !.is = TRUE, !.seen = seen]
      BY PreviewTyped DEF P!Stops
    <3> HIDE DEF seen, s
    <3>3. [stop EXCEPT !.is = TRUE, !.seen = seen] \in P!Stops
      BY <3>1, PreviewTyped DEF P!Stops
    <3> QED
      BY <3>2, <3>3
  <2>2. [s EXCEPT !.drain = "none"] \in P!Stops
        /\ [s EXCEPT !.drain = IF @ = "none" THEN "grace" ELSE @] \in P!Stops
    <3> HIDE DEF s
    <3> QED
      BY <2>1 DEF P!Stops
  <2>3. \/ stop' = [s EXCEPT !.drain = "none"]
        \/ stop' = [s EXCEPT !.drain = IF @ = "none" THEN "grace" ELSE @]
        \/ stop' = P!finishStop(s)
    BY DEF P!Stop
  <2> HIDE DEF s
  <2>4. stop' \in P!Stops
    BY <2>1, <2>2, <2>3, FinishTyped
  <2>5. child' \in P!Builds
    BY PreviewTyped DEF P!Stop, P!Builds
  <2> QED
    BY <2>4, <2>5, PreviewTyped DEF P!Stop, P!Shown, P!Timers, P!TypeInv
<1>2. P!ChildInv'
  BY DEF P!Stop, P!finishStop, P!IInv, P!ChildInv
<1>3. P!KeptInv'
  BY DEF P!Stop, P!Shown, P!IInv, P!KeptInv
<1>4. P!RestInv'
  BY DEF P!Stop, P!finishStop, P!RestInv
<1>5. P!OutInv'
  BY DEF P!Stop, P!finishStop, P!Shown, P!IInv, P!OutInv
<1>6. P!StopsCleanly'
  BY DEF P!Stop, P!finishStop, P!IInv, P!StopsCleanly
<1> QED
  BY <1>1, <1>2, <1>3, <1>4, <1>5, <1>6 DEF P!IInv

LEMMA PreviewGraceOver ==
  ASSUME P!IInv, P!GraceOver
  PROVE  P!IInv'
<1>1. P!TypeInv'
  BY DEF P!GraceOver, P!Shown, P!IInv, P!TypeInv, P!Stops
<1>2. P!ChildInv'
  BY DEF P!GraceOver, P!IInv, P!ChildInv
<1>3. P!KeptInv'
  BY DEF P!GraceOver, P!Shown, P!IInv, P!KeptInv
<1>4. P!RestInv'
  BY DEF P!GraceOver, P!Shown, P!IInv, P!RestInv
<1>5. P!OutInv'
  BY DEF P!GraceOver, P!Shown, P!IInv, P!OutInv
<1>6. P!StopsCleanly'
  BY DEF P!GraceOver, P!IInv, P!StopsCleanly
<1> QED
  BY <1>1, <1>2, <1>3, <1>4, <1>5, <1>6 DEF P!IInv

LEMMA PreviewKillOver ==
  ASSUME P!IInv, P!KillOver
  PROVE  P!IInv'
<1>1. P!TypeInv'
  BY DEF P!KillOver, P!Shown, P!IInv, P!TypeInv, P!Builds, P!Stops
<1>2. P!ChildInv'
  BY DEF P!KillOver, P!IInv, P!ChildInv
<1>3. P!KeptInv'
  BY DEF P!KillOver, P!Shown, P!IInv, P!KeptInv
<1>4. P!RestInv'
  BY DEF P!KillOver, P!Shown, P!IInv, P!RestInv
<1>5. P!OutInv'
  BY DEF P!KillOver, P!Shown, P!IInv, P!OutInv
<1>6. P!StopsCleanly'
  BY DEF P!KillOver, P!IInv, P!StopsCleanly
<1> QED
  BY <1>1, <1>2, <1>3, <1>4, <1>5, <1>6 DEF P!IInv

LEMMA PreviewServerClosed ==
  ASSUME P!IInv, P!ServerClosed
  PROVE  P!IInv'
<1>1. P!TypeInv'
  <2>1. [stop EXCEPT !.server = FALSE] \in P!Stops
    BY PreviewTyped DEF P!Stops
  <2>2. stop' \in P!Stops
    BY <2>1, FinishTyped DEF P!ServerClosed
  <2> QED
    BY <2>2, PreviewTyped DEF P!ServerClosed, P!Shown, P!TypeInv
<1>2. P!ChildInv'
  BY DEF P!ServerClosed, P!finishStop, P!IInv, P!ChildInv
<1>3. P!KeptInv'
  BY DEF P!ServerClosed, P!Shown, P!IInv, P!KeptInv
<1>4. P!RestInv'
  BY DEF P!ServerClosed, P!finishStop, P!RestInv
<1>5. P!OutInv'
  BY DEF P!ServerClosed, P!finishStop, P!Shown, P!IInv, P!OutInv
<1>6. P!StopsCleanly'
  BY DEF P!ServerClosed, P!finishStop, P!IInv, P!StopsCleanly
<1> QED
  BY <1>1, <1>2, <1>3, <1>4, <1>5, <1>6 DEF P!IInv

LEMMA PreviewLaunch ==
  ASSUME P!IInv, P!launch
  PROVE  P!IInv'
<1>1. /\ timer # "none" /\ ~stop.is /\ file.src \in Sources
      /\ UNCHANGED <<file, buffer, stop, moves>>
  BY PreviewTyped DEF P!launch, P!Files
<1>2. P!OutInv' /\ P!StopsCleanly'
  <2>1. ~stop.done
    BY <1>1 DEF P!IInv, P!OutInv
  <2> QED
    BY <1>1, <2>1 DEF P!IInv, P!OutInv, P!StopsCleanly
<1>3. CASE file.src # sight.queued
  <2>1. /\ sight' = [sight EXCEPT !.queued = file.src] /\ timer' = "slow"
        /\ UNCHANGED <<child, state, frame>>
    BY <1>3 DEF P!launch, P!Queue
  <2>2. /\ sight' \in P!Sights /\ sight'.epoch = sight.epoch /\ sight'.good = sight.good
        /\ sight'.pending = sight.pending
    BY <1>1, <2>1, PreviewTyped DEF P!Sights
  <2>3. P!TypeInv'
    BY <1>1, <2>1, <2>2, PreviewTyped DEF P!TypeInv, P!Timers
  <2>4. P!ChildInv' /\ P!KeptInv' /\ P!RestInv'
    BY <1>1, <2>1, <2>2 DEF P!IInv, P!ChildInv, P!KeptInv, P!RestInv
  <2> QED
    BY <1>2, <2>3, <2>4 DEF P!IInv
<1>4. CASE file.src = sight.queued /\ file.src = sight.good
  <2>1. /\ IF state.status # "verified" /\ state.last # "none"
           THEN P!Publish([state EXCEPT !.status = "verified", !.of = file.src])
           ELSE UNCHANGED <<state, frame>>
        /\ timer' = "none" /\ UNCHANGED <<sight, child>>
    BY <1>4 DEF P!launch
  <2>2. /\ sight.good # "none" /\ state.last = Art[sight.good] /\ state.last # "none"
        /\ state.last = buffer /\ frame.revision = state.revision
        /\ frame.art \in {"loading", buffer}
    BY <1>1, <1>4, PreviewAssumption DEF P!IInv, P!KeptInv
  <2>3. /\ state' \in P!States /\ frame' \in P!Frames /\ state'.status = "verified"
        /\ state'.of = sight.good /\ state'.last = state.last /\ state'.revision = state.revision
        /\ frame' = frame
    <3>1. CASE state.status = "verified"
      BY <2>1, <3>1, PreviewTyped DEF P!IInv, P!KeptInv
    <3>2. CASE state.status # "verified"
      <4>1. P!Publish([state EXCEPT !.status = "verified", !.of = file.src])
        BY <2>1, <2>2, <3>2
      <4>2. [state EXCEPT !.status = "verified", !.of = file.src] \in P!States
        BY <1>1, PreviewTyped DEF P!States
      <4> QED
        BY <1>4, <2>2, <4>1, <4>2, PreviewTyped, BroadcastTyped DEF P!Publish, P!States
    <3> QED
      BY <3>1, <3>2
  <2>4. P!TypeInv'
    BY <1>1, <2>1, <2>3, PreviewTyped DEF P!TypeInv, P!Timers
  <2>5. P!ChildInv'
    BY <1>1, <2>1 DEF P!IInv, P!ChildInv
  <2>6. P!KeptInv' /\ P!RestInv'
    BY <1>1, <1>4, <2>1, <2>2, <2>3 DEF P!KeptInv, P!RestInv
  <2> QED
    BY <1>2, <2>4, <2>5, <2>6 DEF P!IInv
<1>5. CASE file.src = sight.queued /\ file.src # sight.good /\ child.runs
  <2>1. /\ sight' = [sight EXCEPT !.pending = TRUE] /\ timer' = "none"
        /\ UNCHANGED <<child, state, frame>>
    BY <1>5 DEF P!launch
  <2>2. /\ sight' \in P!Sights /\ sight'.epoch = sight.epoch /\ sight'.good = sight.good
        /\ sight'.queued = sight.queued
    BY <1>1, <2>1, PreviewTyped DEF P!Sights
  <2>3. P!TypeInv'
    BY <1>1, <2>1, <2>2, PreviewTyped DEF P!TypeInv, P!Timers
  <2>4. P!ChildInv' /\ P!KeptInv' /\ P!RestInv'
    BY <1>1, <1>5, <2>1, <2>2 DEF P!IInv, P!ChildInv, P!KeptInv, P!RestInv
  <2> QED
    BY <1>2, <2>3, <2>4 DEF P!IInv
<1>6. CASE file.src = sight.queued /\ file.src # sight.good /\ ~child.runs
  <2>1. /\ child' = [runs |-> TRUE, hash |-> file.src, epoch |-> sight.epoch, killed |-> FALSE]
        /\ P!Publish([state EXCEPT !.status = "checking"])
        /\ timer' = "none" /\ UNCHANGED sight
    BY <1>6 DEF P!launch, P!NoChild
  <2>2. /\ [state EXCEPT !.status = "checking"] \in P!States
        /\ child' \in P!Builds /\ sight.epoch \in Nat
    BY <1>1, <2>1, PreviewTyped DEF P!States, P!Builds, P!Sights
  <2>3. /\ state' \in P!States /\ state'.status = "checking" /\ state'.last = state.last
        /\ state'.revision = state.revision /\ frame' = frame
    BY <2>1, <2>2, PreviewTyped, BroadcastTyped DEF P!Publish, P!States
  <2>4. P!TypeInv'
    BY <1>1, <2>1, <2>2, <2>3, PreviewTyped DEF P!TypeInv, P!Timers
  <2>5. P!ChildInv'
    BY <1>1, <1>6, <2>1, <2>2 DEF P!IInv, P!ChildInv
  <2>6. P!KeptInv' /\ P!RestInv'
    BY <1>1, <2>1, <2>3 DEF P!IInv, P!KeptInv, P!RestInv
  <2> QED
    BY <1>2, <2>4, <2>5, <2>6 DEF P!IInv
<1> QED
  BY <1>3, <1>4, <1>5, <1>6

LEMMA PreviewClosed ==
  ASSUME P!IInv, NEW ok \in BOOLEAN, P!Closed(ok), ok => Art[child.hash] # "none"
  PROVE  P!IInv'
<1> DEFINE s == [stop EXCEPT !.drain = "none"]
<1>1. /\ child.runs /\ child' = [runs |-> FALSE, hash |-> "none", epoch |-> 0, killed |-> FALSE]
      /\ stop' = P!finishStop(s) /\ child.hash \in Sources /\ child.epoch <= sight.epoch
      /\ file.src \in Sources /\ child.epoch \in Nat /\ sight.epoch \in Nat
  BY PreviewTyped DEF P!Closed, P!NoChild, P!IInv, P!ChildInv, P!Files, P!Builds, P!Sights
<1>2. /\ stop' \in P!Stops /\ child' \in P!Builds /\ ~child'.runs /\ stop'.is = stop.is
      /\ stop'.seen = stop.seen /\ (stop'.done <=> stop.done \/ (stop.is /\ ~stop.server))
      /\ (~stop'.staging <=> ~stop.staging \/ (stop.is /\ ~stop.server))
      /\ stop'.server = stop.server
  <2>1. s \in P!Stops
    BY PreviewTyped DEF P!Stops
  <2>2. stop' \in P!Stops
    BY <1>1, <2>1, FinishTyped
  <2> QED
    BY <1>1, <2>2, PreviewTyped DEF P!finishStop, P!Stops, P!Builds
<1> HIDE DEF s
<1>3. P!StopsCleanly'
  <2>1. stop.is => file' = file
    BY DEF P!Closed
  <2> QED
    BY <1>2, <2>1, PreviewTyped DEF P!IInv, P!OutInv, P!StopsCleanly, P!Stops
<1>4. SUFFICES P!TypeInv' /\ P!ChildInv' /\ P!KeptInv' /\ P!RestInv' /\ P!OutInv'
  BY <1>3 DEF P!IInv
<1>5. CASE stop.is
  <2>1. UNCHANGED <<file, sight, timer, P!Shown>>
    BY <1>5 DEF P!Closed
  <2>2. P!TypeInv'
    BY <1>2, <2>1, PreviewTyped DEF P!TypeInv, P!Shown
  <2>3. P!ChildInv' /\ P!KeptInv' /\ P!RestInv' /\ P!OutInv'
    BY <1>2, <1>5, <2>1 DEF P!Shown, P!IInv, P!ChildInv, P!KeptInv, P!RestInv, P!OutInv
  <2> QED
    BY <2>2, <2>3
<1>6. CASE ~stop.is /\ child.epoch # sight.epoch
  <2>1. P!Requeue(TRUE, FALSE) /\ UNCHANGED <<file, P!Shown>>
    BY <1>6 DEF P!Closed
  <2>2. /\ sight' \in P!Sights /\ timer' = "now" /\ ~sight'.pending
        /\ sight'.good = sight.good
    BY <2>1, PreviewTyped, RequeueTyped DEF P!Requeue, P!Queue, P!Sights
  <2>3. P!TypeInv'
    BY <1>2, <2>1, <2>2, PreviewTyped DEF P!TypeInv, P!Shown, P!Timers
  <2>4. P!ChildInv' /\ P!KeptInv' /\ P!RestInv' /\ P!OutInv'
    BY <1>2, <2>1, <2>2 DEF P!Shown, P!IInv, P!ChildInv, P!KeptInv, P!RestInv, P!OutInv
  <2> QED
    BY <2>3, <2>4
<1>7. ASSUME ~stop.is, child.epoch = sight.epoch
      PROVE  child.hash = sight.queued /\ timer = "none" /\ ~sight.pending
  BY <1>1, <1>7 DEF P!IInv, P!ChildInv
<1>8. CASE ~stop.is /\ child.epoch = sight.epoch /\ ~ok
  <2>1. /\ P!Publish([state EXCEPT !.status = "needs-fix", !.of = child.hash])
        /\ sight' = sight /\ timer' = timer /\ UNCHANGED <<file, buffer>>
    BY <1>7, <1>8 DEF P!Closed, P!Requeue
  <2>2. [state EXCEPT !.status = "needs-fix", !.of = child.hash] \in P!States
    BY <1>1, PreviewTyped DEF P!States
  <2>3. /\ state' \in P!States /\ state'.status = "needs-fix" /\ state'.last = state.last
        /\ state'.revision = state.revision /\ state'.of = child.hash /\ frame' = frame
    BY <2>1, <2>2, PreviewTyped, BroadcastTyped DEF P!Publish, P!States
  <2>4. P!TypeInv'
    BY <1>2, <2>1, <2>3, PreviewTyped DEF P!TypeInv
  <2>5. P!ChildInv' /\ P!KeptInv' /\ P!RestInv' /\ P!OutInv'
    BY <1>2, <1>7, <1>8, <2>1, <2>3 DEF P!IInv, P!ChildInv, P!KeptInv, P!RestInv, P!OutInv
  <2> QED
    BY <2>4, <2>5
<1>9. CASE ~stop.is /\ child.epoch = sight.epoch /\ ok /\ file.src # child.hash
  <2>1. P!Requeue(FALSE, TRUE) /\ UNCHANGED <<file, P!Shown>>
    BY <1>9 DEF P!Closed
  <2>2. /\ sight' \in P!Sights /\ timer' = "now" /\ ~sight'.pending
        /\ sight'.good = sight.good
    BY <2>1, PreviewTyped, RequeueTyped DEF P!Requeue, P!Queue, P!Sights
  <2>3. P!TypeInv'
    BY <1>2, <2>1, <2>2, PreviewTyped DEF P!TypeInv, P!Shown, P!Timers
  <2>4. P!ChildInv' /\ P!KeptInv' /\ P!RestInv' /\ P!OutInv'
    BY <1>2, <2>1, <2>2 DEF P!Shown, P!IInv, P!ChildInv, P!KeptInv, P!RestInv, P!OutInv
  <2> QED
    BY <2>3, <2>4
<1>10. CASE ~stop.is /\ child.epoch = sight.epoch /\ ok /\ file.src = child.hash
  <2> DEFINE art1 == Art[child.hash]
             rev == state.revision + (IF state.last = art1 THEN 0 ELSE 1)
  <2>1. /\ file' = [file EXCEPT !.out = art1, !.touched = FALSE] /\ buffer' = art1
        /\ P!Publish([status |-> "verified", of |-> child.hash, last |-> art1, revision |-> rev])
        /\ sight' = [sight EXCEPT !.good = child.hash] /\ timer' = timer
    BY <1>7, <1>10 DEF P!Closed
  <2>2. art1 \in P!Artifacts /\ art1 # "none" /\ rev \in Nat
        /\ (rev = state.revision => art1 = state.last)
    BY <1>1, <1>10, PreviewTyped DEF P!Artifacts, P!States
  <2> HIDE DEF art1, rev
  <2>3. [status |-> "verified", of |-> child.hash, last |-> art1, revision |-> rev] \in P!States
    BY <1>1, <2>2 DEF P!States
  <2>4. /\ state' = [status |-> "verified", of |-> child.hash, last |-> art1, revision |-> rev]
        /\ state' \in P!States /\ frame' \in P!Frames
        /\ frame'.revision = rev /\ frame'.art \in {"loading", art1}
    BY <2>1, <2>2, <2>3, PreviewTyped, BroadcastTyped DEF P!Publish, P!Frames, P!IInv, P!KeptInv
  <2>5. /\ sight' \in P!Sights /\ sight'.good = child.hash /\ sight'.queued = sight.queued
        /\ ~sight'.pending /\ file' \in P!Files /\ file'.out = art1
    BY <1>1, <1>7, <1>10, <2>1, <2>2, PreviewTyped DEF P!Sights, P!Files, P!Outputs
  <2>6. P!TypeInv'
    BY <1>2, <2>1, <2>2, <2>4, <2>5, PreviewTyped DEF P!TypeInv
  <2>7. P!ChildInv' /\ P!KeptInv' /\ P!RestInv' /\ P!OutInv'
    <3>1. P!ChildInv'
      BY <1>2, <2>5 DEF P!ChildInv
    <3>2. P!KeptInv'
      BY <1>1, <2>1, <2>2, <2>4, <2>5, PreviewAssumption DEF P!KeptInv, art1
    <3>3. P!RestInv'
      BY <1>7, <1>10, <2>4, <2>5 DEF P!RestInv
    <3>4. P!OutInv'
      BY <1>2, <1>10, <2>1, <2>5 DEF P!IInv, P!OutInv
    <3> QED
      BY <3>1, <3>2, <3>3, <3>4
  <2> QED
    BY <2>6, <2>7
<1> QED
  BY <1>5, <1>6, <1>8, <1>9, <1>10

LEMMA PreviewStep ==
  ASSUME P!IInv, P!Next
  PROVE  P!IInv'
<1>1. ASSUME P!Delivered
      PROVE  P!IInv'
  <2>1. P!Closed(Art[child.hash] # "none" /\ ~child.killed)
    BY <1>1 DEF P!Delivered
  <2>2. PICK ok \in BOOLEAN : ok = (Art[child.hash] # "none" /\ ~child.killed)
    OBVIOUS
  <2> QED
    BY <2>1, <2>2, PreviewClosed
<1>2. ASSUME P!Crashed
      PROVE  P!IInv'
  BY <1>2, PreviewClosed DEF P!Crashed
<1> QED
  BY <1>1, <1>2, PreviewEdit, PreviewTamper, PreviewObserveSource, PreviewLaunch,
     PreviewLaunchFails, PreviewCommitFails, PreviewLoad, PreviewStop, PreviewGraceOver,
     PreviewKillOver, PreviewServerClosed
    DEF P!Next

LEMMA PreviewStutter ==
  ASSUME P!IInv, UNCHANGED OfPreview
  PROVE  P!IInv'
BY DEF OfPreview, P!IInv, P!TypeInv, P!ChildInv, P!KeptInv, P!RestInv, P!OutInv, P!StopsCleanly

\* With nothing under way the page says about the source as it is either that it is
\* verified, and shows its artifact, or that it failed; only verified artifacts are
\* shown; and after a stop nothing is published and no child is left behind: for every
\* source and renderer, however often it is edited, tampered with, stopped or failing
\* (bin/preview.mjs, 181-604).
THEOREM PreviewHolds == PartSpec => [](part = "preview" => P!PreviewFaithful)
<1> DEFINE I == part = "preview" => P!IInv
<1>1. PartInit => I
  BY PreviewInit DEF PartInit
<1>2. I /\ [PartNext]_partVars => I'
  <2>1. CASE part = "preview" /\ PartNext
    BY <2>1, PreviewStep DEF PartNext
  <2>2. CASE part # "preview" /\ PartNext
    BY <2>2 DEF PartNext
  <2>3. CASE UNCHANGED partVars
    BY <2>3, PreviewStutter DEF partVars
  <2> QED
    BY <2>1, <2>2, <2>3
<1>3. P!IInv => P!PreviewFaithful
  BY DEF P!IInv, P!ChildInv, P!KeptInv, P!RestInv, P!OutInv, P!PreviewFaithful, P!Settled,
         P!TellsTheSource, P!OnlyVerified
<1> QED
  BY <1>1, <1>2, <1>3, PTL DEF PartSpec

(***************************************************************************)
(* Publish                                                                 *)
(***************************************************************************)

\* The targets of each command.
LEMMA TargetsAre ==
  /\ command = "deliver" => Q!Mine = <<"html">> /\ Q!MyFiles = {"html"}
  /\ command = "compare" => Q!Mine = <<"html", "receipt">> /\ Q!MyFiles = {"html", "receipt"}
  /\ command = "migrate" => Q!Mine = <<"json">> /\ Q!MyFiles = {"json"}
<1>1. /\ command = "deliver" => Q!Mine = <<"html">>
      /\ command = "compare" => Q!Mine = <<"html", "receipt">>
      /\ command = "migrate" => Q!Mine = <<"json">>
  BY DEF Q!Mine, Q!Targets
<1>2. Q!Mine = <<"html">> => Q!MyFiles = {"html"}
  BY DEF Q!MyFiles
<1>3. Q!Mine = <<"html", "receipt">> => Q!MyFiles = {"html", "receipt"}
  <2> SUFFICES ASSUME Q!Mine = <<"html", "receipt">>
               PROVE  Q!MyFiles = {"html", "receipt"}
    OBVIOUS
  <2>1. DOMAIN Q!Mine = {1, 2} /\ Q!Mine[1] = "html" /\ Q!Mine[2] = "receipt"
    OBVIOUS
  <2> QED
    BY <2>1 DEF Q!MyFiles
<1>4. Q!Mine = <<"json">> => Q!MyFiles = {"json"}
  BY DEF Q!MyFiles
<1> QED
  BY <1>1, <1>2, <1>3, <1>4

LEMMA MyFilesTyped ==
  ASSUME command \in Q!Commands
  PROVE  Q!MyFiles \subseteq Q!Files
BY TargetsAre DEF Q!Commands, Q!Files

LEMMA PublishInit ==
  ASSUME Q!Init
  PROVE  Q!IInv
<1>1. /\ command \in Q!Commands /\ disk = before
      /\ source = [now |-> 1, read |-> 0, frozen |-> 0]
      /\ staging = "none" /\ backup = [f \in Q!Files |-> Q!Empty] /\ step = "read"
      /\ moved = [backedUp |-> <<>>, committed |-> <<>>, failed |-> FALSE] /\ recover = {}
      /\ result = "none"
  BY DEF Q!Init
<1>2. before \in [Q!Files -> Q!Kinds]
  BY DEF Q!Init, Q!Kinds
<1>3. disk \in [Q!Files -> Int]
  BY <1>1, <1>2 DEF Q!Kinds, Q!Absent, Q!Old, Q!Dir
<1>4. Q!TypeInv
  BY <1>1, <1>2, <1>3 DEF Q!TypeInv, Q!Reads, Q!Moves, Q!Steps
<1>5. Q!StepInv /\ Q!UntouchedInv /\ Q!MovingInv
  BY <1>1 DEF Q!StepInv, Q!UntouchedInv, Q!MovingInv, Q!Moving, Q!Frozen
<1>6. Q!AllOrNothing /\ Q!NothingLost /\ Q!FailureNamed
  BY <1>1 DEF Q!AllOrNothing, Q!NothingLost, Q!FailureNamed
<1> QED
  BY <1>4, <1>5, <1>6 DEF Q!IInv

\* A command that gives up before it has moved anything leaves all as it was.
LEMMA PublishRefused ==
  ASSUME Q!IInv, step # "end", ~Q!Moving, Q!Same, recover' = recover, source' \in Q!Reads,
         Q!Fail("refused")
  PROVE  Q!IInv'
<1>1. /\ step' = "end" /\ result' = "refused" /\ staging' \in {"none", "there", "gone", "kept"}
      /\ command' = command /\ before' = before /\ disk' = disk /\ backup' = backup
      /\ moved' = moved /\ disk = before
  BY DEF Q!Fail, Q!Same, Q!IInv, Q!TypeInv, Q!UntouchedInv
<1>2. Q!TypeInv'
  BY <1>1 DEF Q!IInv, Q!TypeInv, Q!Steps
<1>3. Q!StepInv' /\ Q!UntouchedInv' /\ Q!MovingInv'
  BY <1>1 DEF Q!StepInv, Q!UntouchedInv, Q!MovingInv, Q!Moving, Q!Frozen
<1>4. Q!AllOrNothing' /\ Q!NothingLost' /\ Q!FailureNamed'
  BY <1>1 DEF Q!AllOrNothing, Q!NothingLost, Q!FailureNamed
<1> QED
  BY <1>2, <1>3, <1>4 DEF Q!IInv

\* A stage that is reached has moved nothing either.
LEMMA PublishReached ==
  ASSUME Q!IInv, step # "end", ~Q!Moving, Q!Same, recover' = recover, source' \in Q!Reads,
         step' \in Q!Steps \ {"end"}, ~Q!Moving', result' = result,
         staging' = staging \/ staging' = "there",
         step' \in Q!Frozen => source'.frozen = source'.read,
         command = "compare" /\ step' \in {"freeze", "validate", "receipt", "preflight"} =>
            staging' = "there"
  PROVE  Q!IInv'
<1>1. /\ command' = command /\ before' = before /\ disk' = disk /\ backup' = backup
      /\ moved' = moved /\ disk = before /\ result = "none" /\ recover = {}
      /\ moved.backedUp = <<>> /\ moved.committed = <<>> /\ ~moved.failed
      /\ \A f \in Q!Files : backup[f] = Q!Empty
  BY DEF Q!Same, Q!IInv, Q!StepInv, Q!UntouchedInv
<1>2. Q!TypeInv'
  BY <1>1 DEF Q!IInv, Q!TypeInv
<1>3. Q!StepInv' /\ Q!UntouchedInv' /\ Q!MovingInv'
  BY <1>1 DEF Q!StepInv, Q!UntouchedInv, Q!MovingInv
<1>4. Q!AllOrNothing' /\ Q!NothingLost' /\ Q!FailureNamed'
  BY <1>1 DEF Q!AllOrNothing, Q!NothingLost, Q!FailureNamed
<1> QED
  BY <1>2, <1>3, <1>4 DEF Q!IInv

\* A stage either passes or gives up.
LEMMA PublishStage ==
  ASSUME Q!IInv, NEW c, NEW from, NEW to, Q!Stage(c, from, to), source' \in Q!Reads,
         step # "end", ~Q!Moving, to \in Q!Steps \ {"end"},
         to \in Q!Frozen => source'.frozen = source'.read,
         c # "compare" \/ to \notin {"backup", "commit", "remove", "restore"},
         c = "compare" /\ to \in {"freeze", "validate", "receipt", "preflight"} =>
            staging = "there"
  PROVE  Q!IInv'
<1>1. command = c /\ Q!Same /\ recover' = recover /\ command' = command
  BY DEF Q!Stage, Q!At, Q!Same
<1>2. CASE Q!Reached(to)
  <2>1. step' = to /\ result' = result /\ staging' = staging /\ ~Q!Moving'
    BY <1>1, <1>2 DEF Q!Reached, Q!Moving
  <2> QED
    BY <1>1, <2>1, PublishReached
<1>3. CASE Q!Fail("refused")
  BY <1>1, <1>3, PublishRefused
<1> QED
  BY <1>2, <1>3 DEF Q!Stage

LEMMA PublishDeliverRead ==
  ASSUME Q!IInv, Q!DeliverRead
  PROVE  Q!IInv'
<1>1. /\ Q!Stage("deliver", "read", "stage") /\ source' = [source EXCEPT !.read = source.now]
      /\ command = "deliver" /\ step = "read"
  BY DEF Q!DeliverRead, Q!Stage, Q!At
<1>2. source' \in Q!Reads /\ ("stage" \in Q!Frozen => source'.frozen = source'.read)
  BY <1>1 DEF Q!IInv, Q!TypeInv, Q!StepInv, Q!Reads, Q!Frozen
<1>3. ~Q!Moving /\ "stage" \in Q!Steps \ {"end"}
      /\ ("deliver" = "compare" /\ "stage" \in {"freeze", "validate", "receipt", "preflight"} =>
            staging = "there")
  BY <1>1 DEF Q!Moving, Q!Steps, Q!Frozen, Q!IInv, Q!StepInv
<1> QED
  BY <1>1, <1>2, <1>3, PublishStage

LEMMA PublishDeliverFreeze ==
  ASSUME Q!IInv, Q!DeliverFreeze
  PROVE  Q!IInv'
<1>1. /\ Q!Stage("deliver", "freeze", "render") /\ source' = [source EXCEPT !.frozen = source.read]
      /\ command = "deliver" /\ step = "freeze"
  BY DEF Q!DeliverFreeze, Q!Stage, Q!At
<1>2. source' \in Q!Reads /\ ("render" \in Q!Frozen => source'.frozen = source'.read)
  BY <1>1 DEF Q!IInv, Q!TypeInv, Q!StepInv, Q!Reads, Q!Frozen
<1>3. ~Q!Moving /\ "render" \in Q!Steps \ {"end"}
      /\ ("deliver" = "compare" /\ "render" \in {"freeze", "validate", "receipt", "preflight"} =>
            staging = "there")
  BY <1>1 DEF Q!Moving, Q!Steps, Q!Frozen, Q!IInv, Q!StepInv
<1> QED
  BY <1>1, <1>2, <1>3, PublishStage

LEMMA PublishDeliverRender ==
  ASSUME Q!IInv, Q!DeliverRender
  PROVE  Q!IInv'
<1>1. /\ Q!Stage("deliver", "render", "receipt") /\ source' = source
      /\ command = "deliver" /\ step = "render"
  BY DEF Q!DeliverRender, Q!Stage, Q!At
<1>2. source' \in Q!Reads /\ ("receipt" \in Q!Frozen => source'.frozen = source'.read)
  BY <1>1 DEF Q!IInv, Q!TypeInv, Q!StepInv, Q!Reads, Q!Frozen
<1>3. ~Q!Moving /\ "receipt" \in Q!Steps \ {"end"}
      /\ ("deliver" = "compare" /\ "receipt" \in {"freeze", "validate", "receipt", "preflight"} =>
            staging = "there")
  BY <1>1 DEF Q!Moving, Q!Steps, Q!Frozen, Q!IInv, Q!StepInv
<1> QED
  BY <1>1, <1>2, <1>3, PublishStage

LEMMA PublishDeliverReceipt ==
  ASSUME Q!IInv, Q!DeliverReceipt
  PROVE  Q!IInv'
<1>1. /\ Q!Stage("deliver", "receipt", "commit") /\ source' = source
      /\ command = "deliver" /\ step = "receipt"
  BY DEF Q!DeliverReceipt, Q!Stage, Q!At
<1>2. source' \in Q!Reads /\ ("commit" \in Q!Frozen => source'.frozen = source'.read)
  BY <1>1 DEF Q!IInv, Q!TypeInv, Q!StepInv, Q!Reads, Q!Frozen
<1>3. ~Q!Moving /\ "commit" \in Q!Steps \ {"end"}
      /\ ("deliver" = "compare" /\ "commit" \in {"freeze", "validate", "receipt", "preflight"} =>
            staging = "there")
  BY <1>1 DEF Q!Moving, Q!Steps, Q!Frozen, Q!IInv, Q!StepInv
<1> QED
  BY <1>1, <1>2, <1>3, PublishStage

LEMMA PublishCompareRead ==
  ASSUME Q!IInv, Q!CompareRead
  PROVE  Q!IInv'
<1>1. /\ Q!Stage("compare", "read", "stage") /\ source' = [source EXCEPT !.read = source.now]
      /\ command = "compare" /\ step = "read"
  BY DEF Q!CompareRead, Q!Stage, Q!At
<1>2. source' \in Q!Reads /\ ("stage" \in Q!Frozen => source'.frozen = source'.read)
  BY <1>1 DEF Q!IInv, Q!TypeInv, Q!StepInv, Q!Reads, Q!Frozen
<1>3. ~Q!Moving /\ "stage" \in Q!Steps \ {"end"}
      /\ ("compare" = "compare" /\ "stage" \in {"freeze", "validate", "receipt", "preflight"} =>
            staging = "there")
  BY <1>1 DEF Q!Moving, Q!Steps, Q!Frozen, Q!IInv, Q!StepInv
<1> QED
  BY <1>1, <1>2, <1>3, PublishStage

LEMMA PublishCompareFreeze ==
  ASSUME Q!IInv, Q!CompareFreeze
  PROVE  Q!IInv'
<1>1. /\ Q!Stage("compare", "freeze", "validate") /\ source' = [source EXCEPT !.frozen = source.read]
      /\ command = "compare" /\ step = "freeze"
  BY DEF Q!CompareFreeze, Q!Stage, Q!At
<1>2. source' \in Q!Reads /\ ("validate" \in Q!Frozen => source'.frozen = source'.read)
  BY <1>1 DEF Q!IInv, Q!TypeInv, Q!StepInv, Q!Reads, Q!Frozen
<1>3. ~Q!Moving /\ "validate" \in Q!Steps \ {"end"}
      /\ ("compare" = "compare" /\ "validate" \in {"freeze", "validate", "receipt", "preflight"} =>
            staging = "there")
  BY <1>1 DEF Q!Moving, Q!Steps, Q!Frozen, Q!IInv, Q!StepInv
<1> QED
  BY <1>1, <1>2, <1>3, PublishStage

LEMMA PublishCompareValidate ==
  ASSUME Q!IInv, Q!CompareValidate
  PROVE  Q!IInv'
<1>1. /\ Q!Stage("compare", "validate", "receipt") /\ source' = source
      /\ command = "compare" /\ step = "validate"
  BY DEF Q!CompareValidate, Q!Stage, Q!At
<1>2. source' \in Q!Reads /\ ("receipt" \in Q!Frozen => source'.frozen = source'.read)
  BY <1>1 DEF Q!IInv, Q!TypeInv, Q!StepInv, Q!Reads, Q!Frozen
<1>3. ~Q!Moving /\ "receipt" \in Q!Steps \ {"end"}
      /\ ("compare" = "compare" /\ "receipt" \in {"freeze", "validate", "receipt", "preflight"} =>
            staging = "there")
  BY <1>1 DEF Q!Moving, Q!Steps, Q!Frozen, Q!IInv, Q!StepInv
<1> QED
  BY <1>1, <1>2, <1>3, PublishStage

LEMMA PublishCompareReceipt ==
  ASSUME Q!IInv, Q!CompareReceipt
  PROVE  Q!IInv'
<1>1. /\ Q!Stage("compare", "receipt", "preflight") /\ source' = source
      /\ command = "compare" /\ step = "receipt"
  BY DEF Q!CompareReceipt, Q!Stage, Q!At
<1>2. source' \in Q!Reads /\ ("preflight" \in Q!Frozen => source'.frozen = source'.read)
  BY <1>1 DEF Q!IInv, Q!TypeInv, Q!StepInv, Q!Reads, Q!Frozen
<1>3. ~Q!Moving /\ "preflight" \in Q!Steps \ {"end"}
      /\ ("compare" = "compare" /\ "preflight" \in {"freeze", "validate", "receipt", "preflight"} =>
            staging = "there")
  BY <1>1 DEF Q!Moving, Q!Steps, Q!Frozen, Q!IInv, Q!StepInv
<1> QED
  BY <1>1, <1>2, <1>3, PublishStage

LEMMA PublishMigrateVerify ==
  ASSUME Q!IInv, Q!MigrateVerify
  PROVE  Q!IInv'
<1>1. /\ Q!Stage("migrate", "verify", "compare") /\ source' = source
      /\ command = "migrate" /\ step = "verify"
  BY DEF Q!MigrateVerify, Q!Stage, Q!At
<1>2. source' \in Q!Reads /\ ("compare" \in Q!Frozen => source'.frozen = source'.read)
  BY <1>1 DEF Q!IInv, Q!TypeInv, Q!StepInv, Q!Reads, Q!Frozen
<1>3. ~Q!Moving /\ "compare" \in Q!Steps \ {"end"}
      /\ ("migrate" = "compare" /\ "compare" \in {"freeze", "validate", "receipt", "preflight"} =>
            staging = "there")
  BY <1>1 DEF Q!Moving, Q!Steps, Q!Frozen, Q!IInv, Q!StepInv
<1> QED
  BY <1>1, <1>2, <1>3, PublishStage

LEMMA PublishDeliverStage ==
  ASSUME Q!IInv, Q!DeliverStage
  PROVE  Q!IInv'
<1>1. /\ command = "deliver" /\ step = "stage" /\ Q!Same /\ source' = source /\ recover' = recover
      /\ command' = command /\ ~Q!Moving /\ source' \in Q!Reads
  BY DEF Q!DeliverStage, Q!At, Q!Same, Q!Moving, Q!IInv, Q!TypeInv
<1>2. CASE step' = "freeze" /\ staging' = "there" /\ UNCHANGED <<result, moves>>
  <2>1. step' \in Q!Steps \ {"end"} /\ step' \notin Q!Frozen /\ ~Q!Moving'
    BY <1>1, <1>2 DEF Q!Steps, Q!Frozen, Q!Moving
  <2> QED
    BY <1>1, <1>2, <2>1, PublishReached
<1>3. CASE Q!Fail("refused")
  BY <1>1, <1>3, PublishRefused
<1> QED
  BY <1>2, <1>3 DEF Q!DeliverStage

LEMMA PublishCompareStage ==
  ASSUME Q!IInv, Q!CompareStage
  PROVE  Q!IInv'
<1>1. /\ command = "compare" /\ step = "stage" /\ Q!Same /\ source' = source /\ recover' = recover
      /\ command' = command /\ ~Q!Moving /\ source' \in Q!Reads
  BY DEF Q!CompareStage, Q!At, Q!Same, Q!Moving, Q!IInv, Q!TypeInv
<1>2. CASE step' = "freeze" /\ staging' = "there" /\ UNCHANGED <<result, moves>>
  <2>1. step' \in Q!Steps \ {"end"} /\ step' \notin Q!Frozen /\ ~Q!Moving'
    BY <1>1, <1>2 DEF Q!Steps, Q!Frozen, Q!Moving
  <2> QED
    BY <1>1, <1>2, <2>1, PublishReached
<1>3. CASE Q!Fail("refused")
  BY <1>1, <1>3, PublishRefused
<1> QED
  BY <1>2, <1>3 DEF Q!CompareStage

LEMMA PublishMigrateRead ==
  ASSUME Q!IInv, Q!MigrateRead
  PROVE  Q!IInv'
<1>1. /\ command = "migrate" /\ step = "read" /\ Q!Same /\ recover' = recover
      /\ command' = command /\ ~Q!Moving /\ source' = [source EXCEPT !.read = source.now]
  BY DEF Q!MigrateRead, Q!At, Q!Same, Q!Moving
<1>2. source' \in Q!Reads
  BY <1>1 DEF Q!IInv, Q!TypeInv, Q!Reads
<1>3. CASE Q!Reached("stage")
  <2>1. /\ step' = "stage" /\ result' = result /\ staging' = staging /\ ~Q!Moving'
        /\ step' \in Q!Steps \ {"end"} /\ step' \notin Q!Frozen
    BY <1>1, <1>3 DEF Q!Reached, Q!Steps, Q!Frozen, Q!Moving
  <2> QED
    BY <1>1, <1>2, <2>1, PublishReached
<1>4. CASE Q!Fail("refused")
  BY <1>1, <1>2, <1>4, PublishRefused
<1> QED
  BY <1>3, <1>4 DEF Q!MigrateRead

LEMMA PublishMigrateStage ==
  ASSUME Q!IInv, Q!MigrateStage
  PROVE  Q!IInv'
<1>1. /\ command = "migrate" /\ step = "stage" /\ Q!Same /\ recover' = recover
      /\ command' = command /\ ~Q!Moving /\ source \in Q!Reads
  BY DEF Q!MigrateStage, Q!At, Q!Same, Q!Moving, Q!IInv, Q!TypeInv
<1>2. CASE /\ step' = "verify" /\ staging' = "there" /\ UNCHANGED <<result, moves>>
           /\ source' = [source EXCEPT !.frozen = source.read]
  <2>1. source' \in Q!Reads /\ source'.frozen = source'.read
    BY <1>1, <1>2 DEF Q!Reads
  <2>2. step' \in Q!Steps \ {"end"} /\ ~Q!Moving'
    BY <1>1, <1>2 DEF Q!Steps, Q!Frozen, Q!Moving
  <2> QED
    BY <1>1, <1>2, <2>1, <2>2, PublishReached
<1>3. CASE Q!Fail("refused") /\ source' = source
  BY <1>1, <1>3, PublishRefused
<1> QED
  BY <1>2, <1>3 DEF Q!MigrateStage

\* One rename, of what was frozen: the whole of a delivery and of a migration.
LEMMA PublishRenamed ==
  ASSUME Q!IInv, step # "end", ~Q!Moving, NEW f \in Q!Files, Q!MyFiles = {f},
         source.frozen = source.read, disk' = [disk EXCEPT ![f] = source.frozen],
         UNCHANGED <<command, before, backup, moved, source, recover>>,
         step' = "end", result' = "ok", staging' = "gone"
  PROVE  Q!IInv'
<1>1. source.frozen \in Int
  <2>1. source.frozen \in Nat
    BY DEF Q!IInv, Q!TypeInv, Q!Reads
  <2> QED
    BY <2>1
<1>2. Q!TypeInv'
  BY <1>1 DEF Q!IInv, Q!TypeInv, Q!Steps
<1>3. Q!StepInv' /\ Q!UntouchedInv' /\ Q!MovingInv'
  BY DEF Q!StepInv, Q!UntouchedInv, Q!MovingInv, Q!Moving, Q!Frozen
<1>4. Q!AllOrNothing'
  <2>1. Q!MyFiles' = Q!MyFiles
    BY DEF Q!MyFiles, Q!Mine
  <2>2. disk'[f] = source'.read
    BY DEF Q!IInv, Q!TypeInv
  <2> QED
    BY <2>1, <2>2 DEF Q!AllOrNothing
<1>5. Q!NothingLost' /\ Q!FailureNamed'
  BY DEF Q!NothingLost, Q!FailureNamed
<1> QED
  BY <1>2, <1>3, <1>4, <1>5 DEF Q!IInv

LEMMA PublishDeliverCommit ==
  ASSUME Q!IInv, Q!DeliverCommit
  PROVE  Q!IInv'
<1>1. /\ command = "deliver" /\ step = "commit" /\ ~Q!Moving /\ source.frozen = source.read
      /\ UNCHANGED <<command, before, backup, moved, source, recover>> /\ source \in Q!Reads
  BY DEF Q!DeliverCommit, Q!At, Q!Moving, Q!IInv, Q!TypeInv, Q!StepInv, Q!Frozen
<1>2. CASE /\ disk' = [disk EXCEPT !.html = source.frozen]
           /\ step' = "end" /\ result' = "ok" /\ staging' = "gone"
  BY <1>1, <1>2, PublishRenamed, TargetsAre DEF Q!Files
<1>3. CASE UNCHANGED disk /\ Q!Fail("refused")
  BY <1>1, <1>3, PublishRefused DEF Q!Same
<1> QED
  BY <1>2, <1>3 DEF Q!DeliverCommit

LEMMA PublishMigrateCommit ==
  ASSUME Q!IInv, Q!MigrateCommit
  PROVE  Q!IInv'
<1>1. /\ command = "migrate" /\ step = "compare" /\ ~Q!Moving /\ source.frozen = source.read
      /\ UNCHANGED <<command, before, backup, moved, source, recover>> /\ source \in Q!Reads
  BY DEF Q!MigrateCommit, Q!At, Q!Moving, Q!IInv, Q!TypeInv, Q!StepInv, Q!Frozen
<1>2. CASE /\ disk' = [disk EXCEPT !.json = source.frozen]
           /\ step' = "end" /\ result' = "ok" /\ staging' = "gone"
  BY <1>1, <1>2, PublishRenamed, TargetsAre DEF Q!Files
<1>3. CASE UNCHANGED disk /\ Q!Fail("refused")
  BY <1>1, <1>3, PublishRefused DEF Q!Same
<1> QED
  BY <1>2, <1>3 DEF Q!MigrateCommit

\* What the sequences of the pair hold.
LEMMA InSeqOf ==
  ASSUME NEW f
  PROVE  /\ ~Q!InSeq(f, <<>>)
         /\ Q!InSeq(f, <<"html">>) <=> f = "html"
         /\ Q!InSeq(f, <<"receipt">>) <=> f = "receipt"
         /\ Q!InSeq(f, Q!Pair) <=> f \in {"html", "receipt"}
<1>1. /\ ~Q!InSeq(f, <<>>)
      /\ Q!InSeq(f, <<"html">>) <=> f = "html"
      /\ Q!InSeq(f, <<"receipt">>) <=> f = "receipt"
  BY DEF Q!InSeq
<1>2. DOMAIN Q!Pair = {1, 2} /\ Q!Pair[1] = "html" /\ Q!Pair[2] = "receipt"
  BY DEF Q!Pair
<1> QED
  BY <1>1, <1>2 DEF Q!InSeq

\* While the pair is moved the promises say nothing but that no target is lost.
LEMMA MovingWhole ==
  ASSUME Q!TypeInv', Q!StepInv', Q!MovingInv', Q!Moving'
  PROVE  Q!IInv'
<1>1. Q!UntouchedInv' /\ result' = "none" /\ Q!MyFiles' = {"html", "receipt"}
  <2>1. Q!MyFiles' = {"html", "receipt"}
    <3>1. command' = "compare"
      BY DEF Q!Moving
    <3>2. Q!Mine' = <<"html", "receipt">>
      BY <3>1 DEF Q!Mine, Q!Targets
    <3>3. DOMAIN Q!Mine' = {1, 2} /\ Q!Mine'[1] = "html" /\ Q!Mine'[2] = "receipt"
      BY <3>2
    <3> QED
      BY <3>3 DEF Q!MyFiles
  <2> QED
    BY <2>1 DEF Q!UntouchedInv, Q!StepInv, Q!Moving
<1>2. Q!NothingLost'
  BY <1>1 DEF Q!NothingLost, Q!MovingInv, Q!TargetInv, Q!TypeInv, Q!Files
<1> QED
  BY <1>1, <1>2 DEF Q!IInv, Q!AllOrNothing, Q!FailureNamed

LEMMA PublishPreflight ==
  ASSUME Q!IInv, Q!Preflight
  PROVE  Q!IInv'
<1>1. /\ command = "compare" /\ step = "preflight" /\ Q!Same /\ source' = source
      /\ recover' = recover /\ command' = command /\ ~Q!Moving /\ source' \in Q!Reads
  BY DEF Q!Preflight, Q!At, Q!Same, Q!Moving, Q!IInv, Q!TypeInv
<1>2. CASE \E i \in DOMAIN Q!Mine : disk[Q!Mine[i]] = Q!Dir
  BY <1>1, <1>2, PublishRefused DEF Q!Preflight
<1>3. CASE ~\E i \in DOMAIN Q!Mine : disk[Q!Mine[i]] = Q!Dir
  <2>1. step' = "backup" /\ result' = result /\ staging' = staging /\ Q!Moving'
    BY <1>1, <1>3 DEF Q!Preflight, Q!Reached, Q!Moving
  <2>2. DOMAIN Q!Mine = {1, 2} /\ Q!Mine[1] = "html" /\ Q!Mine[2] = "receipt"
    BY <1>1, TargetsAre
  <2>3. /\ before' = before /\ disk' = before /\ backup' = backup /\ recover' = {}
        /\ moved' = moved /\ moved.backedUp = <<>> /\ moved.committed = <<>> /\ ~moved.failed
        /\ before["html"] # Q!Dir /\ before["receipt"] # Q!Dir
        /\ backup["html"] = Q!Empty /\ backup["receipt"] = Q!Empty /\ staging = "there"
    BY <1>1, <1>3, <2>2 DEF Q!Same, Q!IInv, Q!UntouchedInv, Q!StepInv, Q!Files
  <2>4. Q!TypeInv' /\ Q!StepInv'
    BY <1>1, <2>1 DEF Q!IInv, Q!TypeInv, Q!StepInv, Q!Steps, Q!Frozen, Q!Same
  <2>5. ASSUME NEW f \in {"html", "receipt"}
        PROVE  Q!TargetInv(f)'
    BY <2>1, <2>3, InSeqOf DEF Q!TargetInv, Q!Empty, Q!Old
  <2>6. Q!MovingInv'
    <3>1. moved'.committed # Q!Pair /\ moved'.backedUp # <<"receipt">>
      BY <2>3 DEF Q!Pair
    <3> QED
      BY <2>1, <2>3, <2>5, <3>1 DEF Q!MovingInv
  <2> QED
    BY <2>1, <2>4, <2>6, MovingWhole
<1> QED
  BY <1>2, <1>3

\* What a step of the moving starts from.
LEMMA MovingParts ==
  ASSUME Q!IInv, Q!Moving
  PROVE  /\ command = "compare" /\ Q!Mine = <<"html", "receipt">> /\ result = "none"
         /\ staging = "there" /\ source.frozen = source.read /\ source \in Q!Reads
         /\ \A f \in {"html", "receipt"} : /\ Q!TargetInv(f) /\ before[f] \in {Q!Absent, Q!Old}
                                           /\ backup[f] \in {Q!Empty, Q!Old} /\ disk[f] \in Int
         /\ moved \in Q!Moves /\ moved.failed \in BOOLEAN
         /\ (~moved.failed => recover = {}) /\ disk["json"] = before["json"]
<1>1. /\ command = "compare" /\ Q!Mine = <<"html", "receipt">> /\ result = "none"
      /\ staging = "there" /\ source.frozen = source.read /\ source \in Q!Reads
      /\ moved \in Q!Moves /\ (~moved.failed => recover = {}) /\ disk["json"] = before["json"]
  BY TargetsAre DEF Q!Moving, Q!IInv, Q!MovingInv, Q!StepInv, Q!Frozen, Q!TypeInv
<1>2. ASSUME NEW f \in {"html", "receipt"}
      PROVE  /\ Q!TargetInv(f) /\ before[f] \in {Q!Absent, Q!Old}
             /\ backup[f] \in {Q!Empty, Q!Old} /\ disk[f] \in Int
  <2>1. Q!TargetInv(f) /\ f \in Q!Files
    BY DEF Q!IInv, Q!MovingInv, Q!Files
  <2> QED
    BY <2>1 DEF Q!IInv, Q!TypeInv, Q!TargetInv, Q!Kinds
<1>3. moved.failed \in BOOLEAN
  BY <1>1 DEF Q!Moves
<1> QED
  BY <1>1, <1>2, <1>3

\* A step that fails begins the rollback.
LEMMA RollbackBegins ==
  ASSUME Q!IInv, Q!Moving, step \in {"backup", "commit"}, Q!Reached("remove"),
         UNCHANGED <<command, before, disk, source, backup, moved, recover>>
  PROVE  Q!IInv'
<1>1. step' = "remove" /\ result' = result /\ staging' = staging /\ Q!Moving'
  BY DEF Q!Reached, Q!Moving
<1>2. Q!TypeInv' /\ Q!StepInv'
  BY <1>1, MovingParts DEF Q!IInv, Q!TypeInv, Q!StepInv, Q!Steps, Q!Frozen
<1>3. Q!MovingInv'
  BY <1>1 DEF Q!IInv, Q!MovingInv, Q!TargetInv
<1> QED
  BY <1>1, <1>2, <1>3, MovingWhole

\* The sequences of the pair, longer and shorter by one.
LEMMA PairIsSeq ==
  /\ Q!Pair \in Seq({"html", "receipt"}) /\ Len(Q!Pair) = 2
  /\ Q!Pair[1] = "html" /\ Q!Pair[2] = "receipt"
<1>1. Len(Q!Pair) = 2 /\ Q!Pair[1] = "html" /\ Q!Pair[2] = "receipt"
  BY DEF Q!Pair
<1>2. Q!Pair \in Seq({"html", "receipt"})
  BY DEF Q!Pair
<1> QED
  BY <1>1, <1>2

LEMMA OneIsSeq ==
  ASSUME NEW S, NEW f \in S
  PROVE  <<f>> \in Seq(S) /\ Len(<<f>>) = 1 /\ <<f>>[1] = f
OBVIOUS

LEMMA TwoIsSeq ==
  ASSUME NEW S, NEW a \in S, NEW b \in S
  PROVE  LET t == Append(<<a>>, b)
         IN  t \in Seq(S) /\ Len(t) = 2 /\ t[1] = a /\ t[2] = b
<1> DEFINE s == <<a>>
<1>1. s \in Seq(S) /\ Len(s) = 1 /\ s[1] = a
  BY OneIsSeq
<1> HIDE DEF s
<1> DEFINE t == Append(s, b)
<1>2. /\ t \in Seq(S) /\ Len(t) = Len(s) + 1
      /\ \A i \in 1..Len(s) : t[i] = s[i]
      /\ t[Len(s) + 1] = b
  <2>1. s \in Seq(S) /\ b \in S
    BY <1>1
  <2>2. Append(s, b) \in Seq(S) /\ Len(Append(s, b)) = Len(s) + 1
    BY ONLY <2>1
  <2>3. \A i \in 1..Len(s) : Append(s, b)[i] = s[i]
    BY ONLY <2>1
  <2>4. Append(s, b)[Len(s) + 1] = b
    BY ONLY <2>1
  <2> QED
    BY <2>2, <2>3, <2>4
<1> HIDE DEF t
<1>3. t \in Seq(S) /\ Len(t) = 2 /\ t[1] = a /\ t[2] = b
  <2>1. 1 \in 1..Len(s) /\ Len(s) + 1 = 2
    BY <1>1
  <2> QED
    BY <1>1, <1>2, <2>1
<1> QED
  BY <1>3 DEF s, t

LEMMA PairGrows ==
  /\ \A f \in {"html", "receipt"} : Append(<<>>, f) = <<f>>
  /\ Append(<<"html">>, "receipt") = Q!Pair
<1> DEFINE S == {"html", "receipt"}
<1>1. ASSUME NEW f \in S
      PROVE  Append(<<>>, f) = <<f>>
  <2>1. <<>> \in Seq(S) /\ Len(<<>>) = 0
    OBVIOUS
  <2> HIDE DEF S
  <2>2. Append(<<>>, f) \in Seq(S) /\ Len(Append(<<>>, f)) = 1 /\ Append(<<>>, f)[1] = f
    BY <2>1
  <2> QED
    BY <2>2, OneIsSeq, SeqEqual
<1>2. Append(<<"html">>, "receipt") = Q!Pair
  <2> DEFINE t == Append(<<"html">>, "receipt")
  <2>1. /\ t \in Seq(S) /\ Len(t) = 2 /\ t[1] = "html" /\ t[2] = "receipt"
    BY TwoIsSeq
  <2> HIDE DEF t
  <2>2. \A i \in 1..Len(t) : t[i] = Q!Pair[i]
    BY <2>1, PairIsSeq
  <2> QED
    BY <2>1, <2>2, PairIsSeq, SeqEqual
<1> QED
  BY <1>1, <1>2

LEMMA PairShrinks ==
  /\ SubSeq(Q!Pair, 1, 1) = <<"html">>
  /\ \A f \in {"html", "receipt"} : SubSeq(<<f>>, 1, 0) = <<>>
<1> DEFINE t == SubSeq(Q!Pair, 1, 1)
<1>1. /\ t \in Seq({"html", "receipt"}) /\ Len(t) = 1 /\ t[1] = "html"
  BY PairIsSeq
<1>2. t = <<"html">>
  <2> HIDE DEF t
  <2>1. \A i \in 1..Len(t) : t[i] = <<"html">>[i]
    BY <1>1
  <2> QED
    BY <1>1, <2>1, OneIsSeq, SeqEqual
<1>3. \A f \in {"html", "receipt"} : SubSeq(<<f>>, 1, 0) = <<>>
  BY SubSeqEmpty
<1> QED
  BY <1>2, <1>3

LEMMA PublishBackup ==
  ASSUME Q!IInv, Q!Backup
  PROVE  Q!IInv'
<1> DEFINE left == {i \in DOMAIN Q!Mine : disk[Q!Mine[i]] # Q!Absent}
<1>1. /\ Q!Moving /\ step = "backup" /\ UNCHANGED <<command, before, source, recover>>
      /\ moved.committed = <<>> /\ recover = {}
      /\ moved.backedUp = <<"receipt">> => disk["html"] = Q!Absent
  BY DEF Q!Backup, Q!At, Q!Moving, Q!IInv, Q!MovingInv
<1>2. DOMAIN Q!Mine = {1, 2} /\ Q!Mine[1] = "html" /\ Q!Mine[2] = "receipt"
  BY <1>1, MovingParts
<1>3. CASE left = {}
  <2>1. Q!Reached("commit") /\ UNCHANGED <<disk, backup, moved, moves>>
    BY <1>3 DEF Q!Backup
  <2>2. step' = "commit" /\ result' = result /\ staging' = staging /\ Q!Moving'
    BY <1>1, <2>1 DEF Q!Reached, Q!Moving
  <2>3. disk["html"] = Q!Absent /\ disk["receipt"] = Q!Absent
    BY <1>2, <1>3
  <2>4. Q!TypeInv' /\ Q!StepInv'
    BY <1>1, <2>1, <2>2, MovingParts DEF Q!IInv, Q!TypeInv, Q!StepInv, Q!Steps, Q!Frozen
  <2>5. ASSUME NEW f \in {"html", "receipt"}
        PROVE  Q!TargetInv(f)'
    BY <1>1, <2>1, <2>2, <2>3, MovingParts, InSeqOf DEF Q!TargetInv, Q!Absent, Q!Old
  <2>6. Q!MovingInv'
    <3>1. moved'.committed = <<>> /\ <<>> # Q!Pair /\ recover' = {}
      BY <1>1, <2>1 DEF Q!Pair
    <3>2. disk'["json"] = before'["json"]
      BY <1>1, <2>1, MovingParts
    <3> QED
      BY <1>1, <2>2, <2>5, <3>1, <3>2, MovingParts DEF Q!MovingInv
  <2> QED
    BY <2>2, <2>4, <2>6, MovingWhole
<1>4. CASE left # {} /\ step' = "remove"
  <2>1. Q!Reached("remove") /\ UNCHANGED <<disk, backup, moved>>
    BY <1>1, <1>4 DEF Q!Backup
  <2> QED
    BY <1>1, <2>1, RollbackBegins
<1>5. CASE left # {} /\ step' # "remove"
  <2> DEFINE f == Q!Mine[CHOOSE i \in left : \A j \in left : i <= j]
  <2>1. /\ disk' = [disk EXCEPT ![f] = Q!Absent] /\ backup' = [backup EXCEPT ![f] = disk[f]]
        /\ moved' = [moved EXCEPT !.backedUp = Append(@, f)]
        /\ UNCHANGED <<step, result, staging>>
    BY <1>5 DEF Q!Backup, Q!Reached
  <2>2. /\ f \in {"html", "receipt"} /\ disk[f] # Q!Absent
        /\ disk["html"] # Q!Absent => f = "html"
    <3> DEFINE k == CHOOSE i \in left : \A j \in left : i <= j
    <3>1. left \subseteq {1, 2}
      BY <1>2
    <3>2. \E i \in left : \A j \in left : i <= j
      BY <1>5, <3>1
    <3>3. k \in left /\ \A j \in left : k <= j
      BY <3>2
    <3> HIDE DEF k
    <3>4. f = Q!Mine[k]
      BY DEF k
    <3> QED
      BY <1>2, <3>1, <3>3, <3>4
  <2> HIDE DEF f, left
  <2>3. /\ disk[f] = Q!Old /\ before[f] = Q!Old /\ backup[f] = Q!Empty /\ ~Q!InSeq(f, moved.backedUp)
        /\ f \in Q!Files
    BY <1>1, <2>2, MovingParts DEF Q!TargetInv, Q!Files, Q!Absent, Q!Old, Q!Empty
  <2>4. /\ disk'[f] = Q!Absent /\ backup'[f] = Q!Old
        /\ \A g \in {"html", "receipt"} \ {f} : disk'[g] = disk[g] /\ backup'[g] = backup[g]
        /\ disk'["json"] = disk["json"]
        /\ disk' \in [Q!Files -> Int] /\ backup' \in [Q!Files -> {Q!Empty, Q!Old}]
    <3>1. disk \in [Q!Files -> Int] /\ backup \in [Q!Files -> {Q!Empty, Q!Old}]
      BY DEF Q!IInv, Q!TypeInv
    <3>2. Q!Absent \in Int /\ {"html", "receipt"} \subseteq Q!Files
      BY DEF Q!Files, Q!Absent
    <3>3. backup' = [backup EXCEPT ![f] = Q!Old]
      BY <2>1, <2>3
    <3>4. disk'["json"] = disk["json"]
      <4>1. "json" \in Q!Files /\ f # "json"
        BY <2>2 DEF Q!Files
      <4> QED
        BY <2>1, <3>1, <4>1
    <3> QED
      BY <2>1, <2>3, <3>1, <3>2, <3>3, <3>4
  <2>5. /\ \/ moved.backedUp = <<>> /\ moved'.backedUp = <<f>>
           \/ moved.backedUp = <<"html">> /\ f = "receipt" /\ moved'.backedUp = Q!Pair
        /\ moved'.committed = <<>> /\ moved'.failed = moved.failed
    <3>1. moved.backedUp \in {<<>>, <<"html">>, <<"receipt">>, Q!Pair} /\ moved \in Q!Moves
      BY <1>1, MovingParts DEF Q!Moves
    <3>2. moved.backedUp = <<>> \/ (moved.backedUp = <<"html">> /\ f = "receipt")
      BY <1>1, <2>2, <2>3, <3>1, InSeqOf
    <3>3. /\ moved'.backedUp = Append(moved.backedUp, f) /\ moved'.committed = <<>>
          /\ moved'.failed = moved.failed
      BY <1>1, <2>1, <3>1 DEF Q!Moves
    <3> QED
      BY <2>2, <3>2, <3>3, PairGrows
  <2>6. moved' \in Q!Moves
    <3>1. /\ moved' = [backedUp |-> moved'.backedUp, committed |-> moved'.committed,
                       failed |-> moved.failed]
          /\ moved.failed \in BOOLEAN
      BY <1>1, <2>1, MovingParts DEF Q!Moves
    <3>2. moved'.backedUp \in {<<>>, <<"html">>, <<"receipt">>, Q!Pair}
      BY <2>2, <2>5
    <3> QED
      BY <2>5, <3>1, <3>2 DEF Q!Moves
  <2>7. Q!TypeInv' /\ Q!StepInv' /\ Q!Moving'
    BY <1>1, <2>1, <2>4, <2>6 DEF Q!IInv, Q!TypeInv, Q!StepInv, Q!Moving
  <2>8. ASSUME NEW g \in {"html", "receipt"}
        PROVE  Q!TargetInv(g)'
    <3>1. Q!InSeq(g, moved'.backedUp) <=> Q!InSeq(g, moved.backedUp) \/ g = f
      BY <2>2, <2>5, InSeqOf
    <3>2. Q!TargetInv(g) /\ ~Q!InSeq(g, moved'.committed)
      BY <1>1, <2>5, MovingParts, InSeqOf
    <3>3. CASE g = f
      BY <1>1, <2>1, <2>3, <2>4, <3>1, <3>2, <3>3 DEF Q!TargetInv, Q!Old, Q!Dir, Q!Empty
    <3>4. CASE g # f
      BY <1>1, <2>1, <2>4, <3>1, <3>2, <3>4 DEF Q!TargetInv
    <3> QED
      BY <3>3, <3>4
  <2>9. Q!MovingInv'
    <3>1. moved'.backedUp = <<"receipt">> => disk'["html"] = Q!Absent
      BY <2>2, <2>4, <2>5 DEF Q!Pair
    <3>2. <<>> # Q!Pair
      BY DEF Q!Pair
    <3>3. disk'["json"] = before'["json"]
      BY <1>1, <2>4, MovingParts
    <3> QED
      BY <1>1, <2>1, <2>5, <2>8, <3>1, <3>2, <3>3, MovingParts DEF Q!MovingInv
  <2> QED
    BY <2>7, <2>9, MovingWhole
<1> QED
  BY <1>3, <1>4, <1>5

LEMMA PublishCommit ==
  ASSUME Q!IInv, Q!Commit
  PROVE  Q!IInv'
<1> DEFINE f == Q!Mine[Len(moved.committed) + 1]
           next == [moved EXCEPT !.committed = Append(@, f)]
<1>1. /\ Q!Moving /\ step = "commit" /\ command = "compare" /\ recover = {}
      /\ UNCHANGED <<command, before, source, backup, recover>>
      /\ moved.committed # Q!Pair /\ moved \in Q!Moves
      /\ Q!Mine[1] = "html" /\ Q!Mine[2] = "receipt" /\ Len(Q!Mine) = 2
      /\ source.frozen = source.read /\ source.frozen \in Int
  <2>1. Q!Mine = <<"html", "receipt">> /\ source.frozen \in Nat /\ Q!Moving
    BY MovingParts DEF Q!Commit, Q!At, Q!Moving, Q!Reads
  <2>2. source.frozen \in Int
    BY <2>1
  <2> QED
    BY <2>1, <2>2, MovingParts DEF Q!Commit, Q!At, Q!Moving, Q!IInv, Q!MovingInv
<1>2. \/ moved.committed = <<>> /\ f = "html" /\ next.committed = <<"html">>
      \/ moved.committed = <<"html">> /\ f = "receipt" /\ next.committed = Q!Pair
  <2>1. moved.committed \in {<<>>, <<"html">>}
    BY <1>1 DEF Q!Moves
  <2>2. next.committed = Append(moved.committed, f)
    BY <1>1 DEF Q!Moves
  <2>3. CASE moved.committed = <<>>
    <3>1. f = "html"
      BY <1>1, <2>3
    <3> HIDE DEF f
    <3> QED
      BY <2>2, <2>3, <3>1, PairGrows
  <2>4. CASE moved.committed = <<"html">>
    <3>1. f = "receipt"
      BY <1>1, <2>4
    <3> HIDE DEF f
    <3> QED
      BY <2>2, <2>4, <3>1, PairGrows
  <2> QED
    BY <2>1, <2>3, <2>4
<1>3. next.backedUp = moved.backedUp /\ next.failed = moved.failed /\ next \in Q!Moves
  <2>1. /\ next = [backedUp |-> moved.backedUp, committed |-> next.committed,
                   failed |-> moved.failed]
        /\ moved.failed \in BOOLEAN
    <3>1. /\ moved = [backedUp |-> moved.backedUp, committed |-> moved.committed,
                      failed |-> moved.failed]
          /\ moved.failed \in BOOLEAN
      BY <1>1 DEF Q!Moves
    <3> HIDE DEF f
    <3> QED
      BY <3>1
  <2>2. moved.backedUp \in {<<>>, <<"html">>, <<"receipt">>, Q!Pair}
    BY <1>1 DEF Q!Moves
  <2> HIDE DEF next, f
  <2>3. next.committed \in {<<>>, <<"html">>, Q!Pair}
    BY <1>2
  <2> QED
    BY <2>1, <2>2, <2>3 DEF Q!Moves
<1>4. \/ /\ disk' = [disk EXCEPT ![f] = source.frozen] /\ moved' = next
         /\ IF Len(next.committed) = Len(Q!Mine)
            THEN step' = "end" /\ result' = "ok" /\ staging' = "gone"
            ELSE UNCHANGED <<step, result, staging>>
      \/ Q!Reached("remove") /\ UNCHANGED <<disk, moved>>
  BY DEF Q!Commit
<1> HIDE DEF f, next
<1>5. CASE Q!Reached("remove") /\ UNCHANGED <<disk, moved>>
  BY <1>1, <1>5, RollbackBegins
<1>6. CASE /\ disk' = [disk EXCEPT ![f] = source.frozen] /\ moved' = next
           /\ IF Len(next.committed) = Len(Q!Mine)
              THEN step' = "end" /\ result' = "ok" /\ staging' = "gone"
              ELSE UNCHANGED <<step, result, staging>>
  <2>1. /\ disk' \in [Q!Files -> Int] /\ disk'[f] = source.frozen
        /\ \A g \in {"html", "receipt"} \ {f} : disk'[g] = disk[g]
        /\ disk'["json"] = disk["json"]
    BY <1>1, <1>2, <1>6 DEF Q!IInv, Q!TypeInv, Q!Files
  <2>2. CASE moved.committed = <<>>
    <3>1. f = "html" /\ next.committed = <<"html">>
      BY <1>2, <2>2
    <3>2. Len(next.committed) # Len(Q!Mine)
      BY <1>1, <3>1
    <3>3. UNCHANGED <<step, result, staging>> /\ Q!Moving'
      BY <1>1, <1>6, <3>2 DEF Q!Moving
    <3>4. Q!TypeInv' /\ Q!StepInv'
      BY <1>1, <1>3, <1>6, <2>1, <3>3 DEF Q!IInv, Q!TypeInv, Q!StepInv
    <3>5. ASSUME NEW g \in {"html", "receipt"}
          PROVE  Q!TargetInv(g)'
      <4>1. Q!InSeq(g, moved'.committed) <=> g = "html"
        BY <1>6, <3>1, InSeqOf
      <4>2. /\ moved'.backedUp = moved.backedUp /\ moved'.failed = moved.failed
            /\ (g = "html" => disk'[g] = source.frozen)
            /\ (g # "html" => disk'[g] = disk[g])
        BY <1>3, <1>6, <2>1, <3>1
      <4>3. Q!TargetInv(g) /\ before[g] \in {Q!Absent, Q!Old}
        BY <1>1, MovingParts
      <4>4. Q!InSeq(g, moved.committed) => Q!InSeq(g, moved'.committed)
        BY <2>2, <4>1, InSeqOf
      <4> QED
        BY <1>1, <3>3, <4>1, <4>2, <4>3, <4>4 DEF Q!TargetInv, Q!Empty, Q!Old
    <3>6. Q!MovingInv'
      <4>1. moved'.committed # Q!Pair
        BY <1>6, <3>1, InSeqOf
      <4>2. disk'["json"] = before'["json"]
        BY <1>1, <2>1, MovingParts
      <4> QED
        BY <1>1, <3>3, <3>5, <4>1, <4>2, MovingParts DEF Q!MovingInv
    <3> QED
      BY <3>3, <3>4, <3>6, MovingWhole
  <2>3. CASE moved.committed = <<"html">>
    <3>1. f = "receipt" /\ next.committed = Q!Pair
      BY <1>2, <2>3, InSeqOf
    <3>2. step' = "end" /\ result' = "ok" /\ staging' = "gone"
      BY <1>1, <1>6, <3>1, PairIsSeq
    <3>3. disk'["html"] = source'.read /\ disk'["receipt"] = source'.read
      <4>1. Q!TargetInv("html") /\ Q!InSeq("html", moved.committed)
        BY <1>1, <2>3, MovingParts, InSeqOf
      <4>2. disk["html"] = source.frozen
        BY <1>1, <4>1 DEF Q!TargetInv
      <4> QED
        BY <1>1, <2>1, <3>1, <4>2
    <3>4. Q!TypeInv'
      BY <1>1, <1>3, <1>6, <2>1, <3>2 DEF Q!IInv, Q!TypeInv, Q!Steps
    <3>5. Q!StepInv' /\ Q!UntouchedInv' /\ Q!MovingInv'
      BY <3>2 DEF Q!StepInv, Q!UntouchedInv, Q!MovingInv, Q!Moving, Q!Frozen
    <3>6. Q!MyFiles' = {"html", "receipt"}
      <4>1. Q!MyFiles' = Q!MyFiles
        BY <1>1 DEF Q!MyFiles, Q!Mine
      <4> QED
        BY <1>1, <4>1, TargetsAre
    <3>7. Q!AllOrNothing' /\ Q!NothingLost' /\ Q!FailureNamed'
      BY <3>2, <3>3, <3>6 DEF Q!AllOrNothing, Q!NothingLost, Q!FailureNamed
    <3> QED
      BY <3>4, <3>5, <3>7 DEF Q!IInv
  <2> QED
    BY <1>2, <2>2, <2>3
<1> QED
  BY <1>4, <1>5, <1>6

LEMMA PublishRollbackRemove ==
  ASSUME Q!IInv, Q!RollbackRemove
  PROVE  Q!IInv'
<1>1. /\ Q!Moving /\ step = "remove" /\ recover = {} /\ moved.committed # Q!Pair
      /\ UNCHANGED <<command, before, source, backup, recover>> /\ moved \in Q!Moves
  <2>1. Q!Moving /\ step = "remove"
    BY DEF Q!RollbackRemove, Q!At, Q!Moving
  <2> QED
    BY <2>1, MovingParts DEF Q!RollbackRemove, Q!IInv, Q!MovingInv
<1>2. CASE moved.committed = <<>>
  <2>1. Q!Reached("restore") /\ UNCHANGED <<disk, moved>>
    BY <1>2 DEF Q!RollbackRemove
  <2>2. step' = "restore" /\ result' = result /\ staging' = staging /\ Q!Moving'
    BY <1>1, <2>1 DEF Q!Reached, Q!Moving
  <2>3. Q!TypeInv' /\ Q!StepInv'
    BY <1>1, <2>1, <2>2, MovingParts DEF Q!IInv, Q!TypeInv, Q!StepInv, Q!Steps, Q!Frozen
  <2>4. Q!MovingInv'
    BY <1>1, <1>2, <2>1, <2>2 DEF Q!IInv, Q!MovingInv, Q!TargetInv
  <2> QED
    BY <2>2, <2>3, <2>4, MovingWhole
<1>3. CASE moved.committed = <<"html">>
  <2>1. Len(moved.committed) = 1 /\ moved.committed[1] = "html" /\ moved.committed # <<>>
    BY <1>3
  <2> DEFINE less == [moved EXCEPT !.committed = SubSeq(@, 1, 0)]
  <2>2. /\ \/ disk' = [disk EXCEPT !["html"] = Q!Absent] /\ moved' = less
           \/ moved' = [less EXCEPT !.failed = TRUE] /\ disk' = disk
        /\ UNCHANGED <<step, result, staging>>
    BY <2>1 DEF Q!RollbackRemove
  <2>3. /\ moved'.committed = <<>> /\ moved'.backedUp = moved.backedUp /\ moved' \in Q!Moves
        /\ moved'.failed \/ (~moved.failed /\ disk' = [disk EXCEPT !["html"] = Q!Absent])
    <3>1. SubSeq(moved.committed, 1, 0) = <<>>
      BY <1>3, PairShrinks
    <3>2. /\ less = [backedUp |-> moved.backedUp, committed |-> <<>>, failed |-> moved.failed]
          /\ moved.failed \in BOOLEAN /\ moved.backedUp \in {<<>>, <<"html">>, <<"receipt">>, Q!Pair}
      BY <1>1, <3>1 DEF Q!Moves
    <3> HIDE DEF less
    <3> DEFINE lost == [backedUp |-> moved.backedUp, committed |-> <<>>, failed |-> TRUE]
    <3>3. \/ moved' = less /\ disk' = [disk EXCEPT !["html"] = Q!Absent]
          \/ moved' = lost
      BY <2>2, <3>2
    <3>4. /\ less \in Q!Moves /\ less.committed = <<>> /\ less.backedUp = moved.backedUp
          /\ less.failed = moved.failed
      BY <3>2 DEF Q!Moves
    <3>5. /\ lost \in Q!Moves /\ lost.committed = <<>> /\ lost.backedUp = moved.backedUp
          /\ lost.failed
      BY <3>2 DEF Q!Moves
    <3> HIDE DEF lost
    <3> QED
      BY <3>2, <3>3, <3>4, <3>5
  <2> HIDE DEF less
  <2>4. /\ disk' \in [Q!Files -> Int] /\ disk'["receipt"] = disk["receipt"]
        /\ disk'["json"] = disk["json"]
    <3>1. disk \in [Q!Files -> Int]
      BY DEF Q!IInv, Q!TypeInv
    <3>2. Q!Absent \in Int
      BY DEF Q!Absent
    <3> QED
      BY <2>2, <3>1, <3>2 DEF Q!Files
  <2>5. Q!TypeInv' /\ Q!StepInv' /\ Q!Moving'
    BY <1>1, <2>2, <2>3, <2>4 DEF Q!IInv, Q!TypeInv, Q!StepInv, Q!Moving
  <2>6. ASSUME NEW g \in {"html", "receipt"}
        PROVE  Q!TargetInv(g)'
    <3>1. Q!TargetInv(g) /\ before[g] \in {Q!Absent, Q!Old} /\ ~Q!InSeq(g, moved'.committed)
      BY <1>1, <2>3, MovingParts, InSeqOf
    <3>2. Q!InSeq(g, moved.committed) <=> g = "html"
      BY <1>3, InSeqOf
    <3>3. \/ disk'[g] = disk[g] /\ (g = "html" => moved'.failed)
          \/ g = "html" /\ disk'[g] = Q!Absent
      <4>1. disk \in [Q!Files -> Int] /\ "html" \in Q!Files
        BY DEF Q!IInv, Q!TypeInv, Q!Files
      <4> QED
        BY <2>2, <2>3, <2>4, <4>1
    <3>4. moved'.backedUp = moved.backedUp /\ (~moved'.failed => ~moved.failed)
      BY <2>3
    <3> QED
      BY <1>1, <2>2, <3>1, <3>2, <3>3, <3>4 DEF Q!TargetInv, Q!Absent, Q!Old, Q!Empty
  <2>7. Q!MovingInv'
    <3>1. <<>> # Q!Pair
      BY DEF Q!Pair
    <3>2. disk'["json"] = before'["json"]
      BY <1>1, <2>4, MovingParts
    <3> QED
      BY <1>1, <2>2, <2>3, <2>6, <3>1, <3>2, MovingParts DEF Q!MovingInv
  <2> QED
    BY <2>5, <2>7, MovingWhole
<1> QED
  BY <1>1, <1>2, <1>3 DEF Q!Moves

\* The end of a rollback: who has a backup left is named for recovery.
LEMMA RollbackEnds ==
  ASSUME Q!IInv, Q!Moving, step = "restore", moved.backedUp = <<>>,
         moved.committed = <<>>, Q!Fail(IF moved.failed THEN "rollback failed" ELSE "restored"),
         UNCHANGED <<command, before, source, disk, backup, moved, recover>>
  PROVE  Q!IInv'
<1>1. /\ step' = "end" /\ staging' = (IF recover = {} THEN "gone" ELSE "kept")
      /\ result' = (IF moved.failed THEN "rollback failed" ELSE "restored")
  BY MovingParts DEF Q!Fail
<1>2. Q!TypeInv'
  BY <1>1 DEF Q!IInv, Q!TypeInv, Q!Steps
<1>3. Q!StepInv' /\ Q!UntouchedInv' /\ Q!MovingInv'
  BY <1>1 DEF Q!StepInv, Q!UntouchedInv, Q!MovingInv, Q!Moving, Q!Frozen
<1>4. Q!MyFiles' = {"html", "receipt"}
  <2>1. Q!MyFiles' = Q!MyFiles
    BY DEF Q!MyFiles, Q!Mine
  <2> QED
    BY <2>1, MovingParts, TargetsAre
<1>5. ASSUME NEW f \in {"html", "receipt"}
      PROVE  /\ before[f] = Q!Old => disk[f] = Q!Old \/ (backup[f] = Q!Old /\ f \in recover)
             /\ before[f] \in {Q!Absent, Q!Old} /\ (~moved.failed => disk[f] = before[f])
  <2>1. ~Q!InSeq(f, moved.backedUp) /\ ~Q!InSeq(f, moved.committed)
    BY InSeqOf
  <2>2. /\ Q!TargetInv(f) /\ before[f] \in {Q!Absent, Q!Old} /\ backup[f] \in {Q!Empty, Q!Old}
        /\ ~moved.failed => recover = {}
    BY MovingParts
  <2> QED
    BY <2>1, <2>2 DEF Q!TargetInv
<1>6. Q!AllOrNothing'
  <2>1. ~moved.failed => disk = before
    <3>1. disk \in [Q!Files -> Int] /\ before \in [Q!Files -> Q!Kinds]
      BY DEF Q!IInv, Q!TypeInv
    <3>2. ~moved.failed => \A f \in Q!Files : disk[f] = before[f]
      BY <1>5, MovingParts DEF Q!Files
    <3> QED
      BY <3>1, <3>2
  <2> QED
    BY <1>1, <2>1 DEF Q!AllOrNothing
<1>7. Q!NothingLost' /\ Q!FailureNamed'
  BY <1>1, <1>4, <1>5 DEF Q!NothingLost, Q!FailureNamed
<1> QED
  BY <1>2, <1>3, <1>6, <1>7 DEF Q!IInv

LEMMA PublishRollbackRestore ==
  ASSUME Q!IInv, Q!RollbackRestore
  PROVE  Q!IInv'
<1>1. /\ Q!Moving /\ step = "restore" /\ moved.committed = <<>>
      /\ UNCHANGED <<command, before, source>> /\ moved \in Q!Moves /\ recover \subseteq Q!Files
  <2>1. Q!Moving /\ step = "restore"
    BY DEF Q!RollbackRestore, Q!At, Q!Moving
  <2> QED
    BY <2>1, MovingParts DEF Q!RollbackRestore, Q!IInv, Q!TypeInv, Q!MovingInv
<1>2. CASE moved.backedUp = <<>>
  <2>1. /\ UNCHANGED <<disk, backup, moved, recover>>
        /\ Q!Fail(IF moved.failed THEN "rollback failed" ELSE "restored")
    BY <1>2 DEF Q!RollbackRestore
  <2> QED
    BY <1>1, <1>2, <2>1, RollbackEnds
<1>3. CASE moved.backedUp # <<>>
  <2> DEFINE n == Len(moved.backedUp)
             f == moved.backedUp[n]
             rest == SubSeq(moved.backedUp, 1, n - 1)
  <2>1. /\ f \in {"html", "receipt"} /\ rest \in {<<>>, <<"html">>} /\ ~Q!InSeq(f, rest)
        /\ \A g : Q!InSeq(g, moved.backedUp) <=> g = f \/ Q!InSeq(g, rest)
    <3>1. moved.backedUp \in {<<"html">>, <<"receipt">>, Q!Pair}
      BY <1>1, <1>3 DEF Q!Moves
    <3>2. ASSUME NEW h \in {"html", "receipt"}, moved.backedUp = <<h>>
          PROVE  f = h /\ rest = <<>>
      <4>1. n = 1 /\ n - 1 = 0
        BY <3>2
      <4>2. rest = SubSeq(<<h>>, 1, 0)
        BY <3>2, <4>1
      <4> QED
        BY <3>2, <4>1, <4>2, PairShrinks
    <3>3. ASSUME moved.backedUp = Q!Pair
          PROVE  f = "receipt" /\ rest = <<"html">>
      <4>1. n = 2 /\ n - 1 = 1
        BY <3>3, PairIsSeq
      <4> QED
        BY <3>3, <4>1, PairIsSeq, PairShrinks
    <3> HIDE DEF f, rest, n
    <3> QED
      BY <3>1, <3>2, <3>3, InSeqOf
  <2> DEFINE less == [moved EXCEPT !.backedUp = rest]
  <2>2. /\ \/ /\ disk' = [disk EXCEPT ![f] = backup[f]] /\ moved' = less
              /\ backup' = [backup EXCEPT ![f] = Q!Empty] /\ recover' = recover
           \/ /\ recover' = recover \cup {f} /\ backup' = backup
              /\ moved' = [less EXCEPT !.failed = TRUE]
              /\ disk' \in {disk, [disk EXCEPT ![f] = Q!Absent]}
        /\ UNCHANGED <<step, result, staging>>
    BY <1>3 DEF Q!RollbackRestore
  <2> HIDE DEF f, rest, n
  <2>3. /\ moved'.committed = <<>> /\ moved'.backedUp = rest /\ moved' \in Q!Moves
        /\ moved'.failed \/ (~moved.failed /\ recover' = recover)
    <3>1. /\ less = [backedUp |-> rest, committed |-> <<>>, failed |-> moved.failed]
          /\ moved.failed \in BOOLEAN
      BY <1>1 DEF Q!Moves
    <3> HIDE DEF less
    <3> DEFINE lost == [backedUp |-> rest, committed |-> <<>>, failed |-> TRUE]
    <3>2. (moved' = less /\ recover' = recover) \/ moved' = lost
      BY <2>2, <3>1
    <3>3. /\ less \in Q!Moves /\ less.committed = <<>> /\ less.backedUp = rest
          /\ less.failed = moved.failed
      BY <2>1, <3>1 DEF Q!Moves
    <3>4. lost \in Q!Moves /\ lost.committed = <<>> /\ lost.backedUp = rest /\ lost.failed
      BY <2>1 DEF Q!Moves
    <3> HIDE DEF lost
    <3> QED
      BY <3>1, <3>2, <3>3, <3>4
  <2> HIDE DEF less
  <2>4. f \in Q!Files /\ backup[f] = Q!Old /\ before[f] = Q!Old
    <3>1. Q!InSeq(f, moved.backedUp) /\ Q!TargetInv(f)
      BY <1>1, <2>1, MovingParts
    <3> QED
      BY <2>1, <3>1 DEF Q!TargetInv, Q!Files
  <2>5. /\ disk'["json"] = disk["json"] /\ disk' \in [Q!Files -> Int] /\ backup' \in [Q!Files -> {Q!Empty, Q!Old}]
        /\ \A g \in {"html", "receipt"} \ {f} : disk'[g] = disk[g] /\ backup'[g] = backup[g]
        /\ \/ disk'[f] = Q!Old /\ backup'[f] = Q!Empty /\ recover' = recover
           \/ recover' = recover \cup {f} /\ backup'[f] = Q!Old
    <3>1. disk \in [Q!Files -> Int] /\ backup \in [Q!Files -> {Q!Empty, Q!Old}]
      BY DEF Q!IInv, Q!TypeInv
    <3>2. Q!Absent \in Int /\ Q!Old \in Int
      BY DEF Q!Absent, Q!Old
    <3>3. {"html", "receipt"} \subseteq Q!Files
      BY DEF Q!Files
    <3>4. disk'["json"] = disk["json"]
      <4>1. "json" \in Q!Files /\ f # "json"
        BY <2>1 DEF Q!Files
      <4> QED
        BY <2>2, <3>1, <4>1
    <3> QED
      BY <2>2, <2>4, <3>1, <3>2, <3>3, <3>4
  <2>6. Q!TypeInv' /\ Q!StepInv' /\ Q!Moving'
    BY <1>1, <2>2, <2>3, <2>4, <2>5 DEF Q!IInv, Q!TypeInv, Q!StepInv, Q!Moving
  <2>7. ASSUME NEW g \in {"html", "receipt"}
        PROVE  Q!TargetInv(g)'
    <3>1. Q!TargetInv(g) /\ ~Q!InSeq(g, moved'.committed) /\ step' = "restore" /\ before' = before
      BY <1>1, <2>2, <2>3, MovingParts, InSeqOf
    <3>2. /\ Q!InSeq(g, moved'.backedUp) => Q!InSeq(g, moved.backedUp)
          /\ ~moved'.failed => ~moved.failed
      BY <2>1, <2>3
    <3>3. CASE g = f
      <4>1. ~Q!InSeq(g, moved'.backedUp)
        BY <2>1, <2>3, <3>3
      <4> QED
        BY <2>4, <2>5, <3>1, <3>3, <4>1 DEF Q!TargetInv, Q!Old, Q!Dir, Q!Empty, Q!Absent
    <3>4. CASE g # f
      <4>1. /\ disk'[g] = disk[g] /\ backup'[g] = backup[g] /\ recover \subseteq recover'
            /\ Q!InSeq(g, moved'.backedUp) <=> Q!InSeq(g, moved.backedUp)
            /\ ~Q!InSeq(g, moved.committed)
        BY <1>1, <2>1, <2>3, <2>5, <3>4, InSeqOf
      <4> QED
        BY <3>1, <3>2, <4>1 DEF Q!TargetInv
    <3> QED
      BY <3>3, <3>4
  <2>8. Q!MovingInv'
    <3>1. <<>> # Q!Pair
      BY DEF Q!Pair
    <3>2. disk'["json"] = before'["json"] /\ (~moved'.failed => recover' = {})
      BY <1>1, <2>3, <2>5, MovingParts
    <3> QED
      BY <1>1, <2>2, <2>3, <2>7, <3>1, <3>2, MovingParts DEF Q!MovingInv
  <2> QED
    BY <2>6, <2>8, MovingWhole
<1> QED
  BY <1>2, <1>3

LEMMA PublishEdit ==
  ASSUME Q!IInv, Q!Edit
  PROVE  Q!IInv'
<1>1. /\ source' = [source EXCEPT !.now = @ + 1]
      /\ UNCHANGED <<command, before, disk, staging, backup, step, moved, recover, result>>
  BY DEF Q!Edit
<1>2. source' \in Q!Reads /\ source'.read = source.read /\ source'.frozen = source.frozen
  <2>1. source \in Q!Reads
    BY DEF Q!IInv, Q!TypeInv
  <2>2. source' = [now |-> source.now + 1, read |-> source.read, frozen |-> source.frozen]
    BY <1>1, <2>1 DEF Q!Reads
  <2> QED
    BY <2>1, <2>2 DEF Q!Reads
<1> QED
  BY <1>1, <1>2
    DEF Q!IInv, Q!TypeInv, Q!StepInv, Q!UntouchedInv, Q!MovingInv, Q!Moving, Q!TargetInv,
        Q!AllOrNothing, Q!NothingLost, Q!FailureNamed, Q!MyFiles, Q!Mine

\* A command that is killed leaves what it moved in a staging directory that is there.
LEMMA PublishKill ==
  ASSUME Q!IInv, Q!Kill
  PROVE  Q!IInv'
<1>1. /\ step' = "end" /\ result' = "killed" /\ result = "none"
      /\ UNCHANGED <<command, before, disk, source, staging, backup, moved, recover>>
  BY DEF Q!Kill, Q!IInv, Q!StepInv
<1>2. Q!TypeInv'
  BY <1>1 DEF Q!IInv, Q!TypeInv, Q!Steps
<1>3. Q!StepInv' /\ Q!UntouchedInv' /\ Q!MovingInv'
  BY <1>1 DEF Q!StepInv, Q!UntouchedInv, Q!MovingInv, Q!Moving, Q!Frozen
<1>4. Q!AllOrNothing' /\ Q!FailureNamed'
  BY <1>1 DEF Q!AllOrNothing, Q!FailureNamed
<1>5. Q!NothingLost'
  BY <1>1 DEF Q!IInv, Q!NothingLost, Q!MyFiles, Q!Mine
<1> QED
  BY <1>2, <1>3, <1>4, <1>5 DEF Q!IInv

LEMMA PublishStep ==
  ASSUME Q!IInv, Q!Next
  PROVE  Q!IInv'
BY PublishDeliverRead, PublishDeliverStage, PublishDeliverFreeze, PublishDeliverRender,
   PublishDeliverReceipt, PublishDeliverCommit, PublishCompareRead, PublishCompareStage,
   PublishCompareFreeze, PublishCompareValidate, PublishCompareReceipt, PublishPreflight,
   PublishBackup, PublishCommit, PublishRollbackRemove, PublishRollbackRestore,
   PublishMigrateRead, PublishMigrateStage, PublishMigrateVerify, PublishMigrateCommit,
   PublishEdit, PublishKill
  DEF Q!Next

LEMMA PublishStutter ==
  ASSUME Q!IInv, UNCHANGED OfPublish
  PROVE  Q!IInv'
BY DEF OfPublish, Q!IInv, Q!TypeInv, Q!StepInv, Q!UntouchedInv, Q!MovingInv, Q!Moving,
       Q!TargetInv, Q!AllOrNothing, Q!NothingLost, Q!FailureNamed, Q!MyFiles, Q!Mine

\* A success puts in place all of what was read, a refusal or a rollback leaves every
\* target as it was, nothing that was there is lost even when the process is killed, and
\* a rollback that failed names what it could not restore: for every target before the
\* command and any number of failures and edits (bin/archify.mjs, 356-433, 859-1230,
\* 1713-1934).
THEOREM PublishHolds == PartSpec => [](part = "publish" => Q!PublishFaithful)
<1> DEFINE I == part = "publish" => Q!IInv
<1>1. PartInit => I
  BY PublishInit DEF PartInit
<1>2. I /\ [PartNext]_partVars => I'
  <2>1. CASE part = "publish" /\ PartNext
    BY <2>1, PublishStep DEF PartNext
  <2>2. CASE part # "publish" /\ PartNext
    BY <2>2 DEF PartNext
  <2>3. CASE UNCHANGED partVars
    BY <2>3, PublishStutter DEF partVars
  <2> QED
    BY <2>1, <2>2, <2>3
<1>3. I => (part = "publish" => Q!PublishFaithful)
  BY DEF Q!IInv, Q!PublishFaithful
<1> QED
  BY <1>1, <1>2, <1>3, PTL DEF PartSpec

(***************************************************************************)
(* Ownership                                                               *)
(***************************************************************************)

\* The parts count as this module does.
LEMMA OwnershipCounts ==
  ASSUME NEW S
  PROVE  W!Cardinality(S) = Cardinality(S)
BY DEF W!Cardinality, Cardinality, W!IsFiniteSet, IsFiniteSet

\* Of the boundaries of one kind that hold an id, there is exactly one or not.
LEMMA OneRegion ==
  ASSUME NEW M, M \subseteq DOMAIN W!boundaries, IsFiniteSet(DOMAIN W!boundaries)
  PROVE  /\ IsFiniteSet(M)
         /\ M # {} /\ ~(Cardinality(M) > 1) => Cardinality(M) = 1
         /\ Cardinality(M) = 1 => \E r \in DOMAIN W!boundaries : M = {r}
<1>1. IsFiniteSet(M)
  BY FS_Subset
<1>2. Cardinality(M) \in Nat /\ (Cardinality(M) = 0 <=> M = {})
  BY <1>1, FS_CardinalityType, FS_EmptySet
<1>3. Cardinality(M) = 1 => \E r : M = {r}
  BY <1>1, FS_Singleton
<1> QED
  BY <1>1, <1>2, <1>3

\* The diagnostics are those of the components, the boundaries and the connections.
LEMMA NoDiagnostics ==
  ASSUME W!deploymentOwnershipDiagnostics = {}
  PROVE  /\ \A id \in DOMAIN W!components : W!componentDiagnostics(id) = {}
         /\ \A b \in DOMAIN W!boundaries : W!boundaryDiagnostics(b) = {}
         /\ \A i \in DOMAIN W!connections : W!connectionDiagnostics(i) = {}
<1> DEFINE OfParts == UNION {W!componentDiagnostics(id) : id \in DOMAIN W!components}
           OfFrames == UNION {W!boundaryDiagnostics(b) : b \in DOMAIN W!boundaries}
           OfLinks == UNION {W!connectionDiagnostics(i) : i \in DOMAIN W!connections}
<1>1. W!deploymentOwnershipDiagnostics = W!kindDiagnostics \cup OfParts \cup OfFrames \cup OfLinks
  BY Zenon DEF W!deploymentOwnershipDiagnostics
<1>2. OfParts = {} /\ OfFrames = {} /\ OfLinks = {}
  <2> HIDE DEF OfParts, OfFrames, OfLinks
  <2> QED
    BY <1>1
<1>3. \A id \in DOMAIN W!components : W!componentDiagnostics(id) = {}
  BY <1>2
<1>4. \A b \in DOMAIN W!boundaries : W!boundaryDiagnostics(b) = {}
  BY <1>2
<1>5. \A i \in DOMAIN W!connections : W!connectionDiagnostics(i) = {}
  BY <1>2
<1> QED
  BY <1>3, <1>4, <1>5

\* An internal component that draws no diagnostic is owned and in one region.
LEMMA ComponentOwned ==
  ASSUME IsFiniteSet(DOMAIN W!boundaries), NEW id \in W!internal, W!componentDiagnostics(id) = {}
  PROVE  /\ W!components[id].tag # ""
         /\ Cardinality(W!membership(id, "region")) = 1
         /\ W!components[id].type = "database" => W!membership(id, "security-group") # {}
<1> DEFINE M == W!membership(id, "region")
           c == W!components[id]
           G == W!membership(id, "security-group")
<1>1. /\ c.tag # "" /\ M # {} /\ ~(Cardinality(M) > 1)
      /\ ~(c.type = "database" /\ G = {})
  <2>1. c.type # "external"
    BY DEF W!internal
  <2>2. c.tag = "" => <<"owner-missing", id>> \in W!componentDiagnostics(id)
    BY <2>1, Zenon DEF W!componentDiagnostics
  <2>3. M = {} => <<"region-scope", id>> \in W!componentDiagnostics(id)
    BY <2>1, Zenon DEF W!componentDiagnostics
  <2>4. Cardinality(M) > 1 => <<"region-ambiguous", id>> \in W!componentDiagnostics(id)
    <3>1. W!Cardinality(M) = Cardinality(M)
      BY OwnershipCounts
    <3> QED
      BY <2>1, <3>1, Zenon DEF W!componentDiagnostics
  <2>5. c.type = "database" /\ G = {} => <<"private-state", id>> \in W!componentDiagnostics(id)
    BY <2>1, Zenon DEF W!componentDiagnostics
  <2> QED
    BY <2>2, <2>3, <2>4, <2>5, Zenon
<1>2. M \subseteq DOMAIN W!boundaries
  BY DEF W!membership
<1>3. Cardinality(M) = 1
  BY <1>1, <1>2, OneRegion, Zenon
<1> QED
  BY <1>1, <1>3, Zenon

\* All that a private boundary holds lies in one region.
LEMMA OneRegionInside ==
  ASSUME IsFiniteSet(DOMAIN W!boundaries), NEW g \in DOMAIN W!boundaries, W!consistent(g),
         NEW id \in W!boundaries[g].wraps, NEW other \in W!boundaries[g].wraps
  PROVE  W!membership(other, "region") = W!membership(id, "region")
<1> DEFINE F(i) == W!membership(i, "region")
           S == UNION {F(i) : i \in W!boundaries[g].wraps}
<1>1. Cardinality(S) = 1 /\ Cardinality(F(id)) = 1 /\ Cardinality(F(other)) = 1
  <2>1. Cardinality(S) = 1
    BY OwnershipCounts DEF W!consistent
  <2>2. \A i \in W!boundaries[g].wraps : Cardinality(F(i)) = 1
    BY OwnershipCounts DEF W!consistent
  <2> QED
    BY <2>1, <2>2
<1>2. \A i : F(i) \subseteq DOMAIN W!boundaries
  BY DEF W!membership
<1> HIDE DEF F
<1>3. S \subseteq DOMAIN W!boundaries
  BY <1>2
<1>4. F(id) \subseteq S /\ F(other) \subseteq S
  OBVIOUS
<1> HIDE DEF S
<1>5. PICK s : S = {s}
  BY <1>1, <1>3, OneRegion
<1>6. PICK a : F(id) = {a}
  BY <1>1, <1>2, OneRegion
<1>7. PICK b : F(other) = {b}
  BY <1>1, <1>2, OneRegion
<1>8. F(id) = F(other)
  BY <1>4, <1>5, <1>6, <1>7
<1> QED
  BY <1>8 DEF F

\* Nothing found by the profile: owners and places are as the profile wants them.
LEMMA DocumentOwned ==
  ASSUME W!IInv
  PROVE  W!OwnedAndPlaced
<1> SUFFICES ASSUME W!deployed
             PROVE  /\ \A id \in W!internal : W!components[id].tag # ""
                                               /\ \E r \in DOMAIN W!boundaries : W!regionOf(id) = {r}
                    /\ \A id \in W!internal : W!components[id].type = "database" =>
                          \E g \in W!membership(id, "security-group") :
                             \A other \in W!boundaries[g].wraps : W!regionOf(other) = W!regionOf(id)
  BY Zenon DEF W!OwnedAndPlaced
<1>1. IsFiniteSet(DOMAIN W!boundaries)
  BY DocumentAssumption DEF W!IInv, W!boundaries
<1>2. W!deploymentOwnershipDiagnostics = {}
  BY DEF W!IInv, W!AskedInv
<1>3. \A id \in DOMAIN W!components : W!componentDiagnostics(id) = {}
  BY <1>2, NoDiagnostics
<1>4. \A g \in DOMAIN W!boundaries : W!boundaryDiagnostics(g) = {}
  BY <1>2, NoDiagnostics
<1>5. ASSUME NEW id \in W!internal
      PROVE  /\ W!components[id].tag # ""
             /\ \E r \in DOMAIN W!boundaries : W!regionOf(id) = {r}
             /\ W!components[id].type = "database" => W!membership(id, "security-group") # {}
  <2>1. id \in DOMAIN W!components
    BY DEF W!internal
  <2>2. /\ W!components[id].tag # "" /\ Cardinality(W!membership(id, "region")) = 1
        /\ W!components[id].type = "database" => W!membership(id, "security-group") # {}
    BY <1>1, <1>3, <2>1, ComponentOwned, Zenon
  <2>3. W!membership(id, "region") \subseteq DOMAIN W!boundaries
    BY DEF W!membership
  <2>4. \E r \in DOMAIN W!boundaries : W!membership(id, "region") = {r}
    BY <1>1, <2>2, <2>3, OneRegion, Zenon
  <2> QED
    BY <2>2, <2>4, Zenon DEF W!regionOf
<1>6. ASSUME NEW id \in W!internal, W!components[id].type = "database"
      PROVE  \E g \in W!membership(id, "security-group") :
                \A other \in W!boundaries[g].wraps : W!regionOf(other) = W!regionOf(id)
  <2>1. PICK g \in W!membership(id, "security-group") : TRUE
    BY <1>5, <1>6, Zenon
  <2>2. /\ g \in DOMAIN W!boundaries /\ W!boundaries[g].kind = "security-group"
        /\ id \in W!boundaries[g].wraps
    BY <2>1 DEF W!membership
  <2>3. W!consistent(g)
    <3>1. W!boundaryDiagnostics(g) = {}
      BY <1>4, <2>2
    <3> QED
      BY <2>2, <3>1, Zenon DEF W!boundaryDiagnostics
  <2> QED
    BY <1>1, <2>1, <2>2, <2>3, OneRegionInside, Zenon DEF W!regionOf
<1> QED
  BY <1>5, <1>6, Zenon

\* Nothing found by the profile: every arrow from one region to another says so.
LEMMA CrossingsNamed ==
  ASSUME W!IInv
  PROVE  W!NamedCrossings
<1> SUFFICES ASSUME W!deployed, NEW i \in DOMAIN W!connections, W!connections[i].label = "",
                    NEW kind \in W!kinds
             PROVE  W!membership(W!connections[i].from, kind) = W!membership(W!connections[i].to, kind)
  BY Zenon DEF W!NamedCrossings
<1>1. W!connectionDiagnostics(i) = {}
  BY NoDiagnostics DEF W!IInv, W!AskedInv
<1>2. W!crossed(W!connections[i]) = {}
  BY <1>1, Zenon DEF W!connectionDiagnostics
<1> DEFINE a == W!connections[i].from
           b == W!connections[i].to
<1>3. \A g \in DOMAIN W!boundaries : W!boundaries[g].kind = kind
         => (a \in W!boundaries[g].wraps <=> b \in W!boundaries[g].wraps)
  BY <1>2, Zenon DEF W!crossed
<1> HIDE DEF a, b
<1>4. W!membership(a, kind) = W!membership(b, kind)
  BY <1>3, Zenon DEF W!membership
<1> QED
  BY <1>4 DEF a, b

\* Nothing found by the first two questions: every link has its end.
LEMMA LinksLead ==
  ASSUME W!IInv
  PROVE  W!LinksResolve
<1> SUFFICES ASSUME x2 = "accepted"
             PROVE  W!LinksResolve
  BY DEF W!LinksResolve
<1>1. W!viewProblems = {} /\ W!relationshipProblems = {}
  BY DEF W!IInv, W!AskedInv
<1>2. \A i, j \in DOMAIN W!views : W!views[i].id = W!views[j].id => i = j
  <2>1. (\E i, j \in DOMAIN W!views : i # j /\ W!views[i].id = W!views[j].id)
           => "duplicate view" \in W!viewProblems
    BY Zenon DEF W!viewProblems
  <2> QED
    BY <1>1, <2>1, Zenon
<1>3. ASSUME NEW i \in DOMAIN W!views, NEW f \in DOMAIN W!views[i].focus
      PROVE  W!views[i].focus[f] \in DOMAIN W!components
  <2>1. W!views[i].focus[f] \notin DOMAIN W!components => "unknown focus" \in W!viewProblems
    BY Zenon DEF W!viewProblems
  <2> QED
    BY <1>1, <2>1, Zenon
<1>4. \A i, j \in DOMAIN W!connections :
         W!connections[i].id # "" /\ W!connections[i].id = W!connections[j].id => i = j
  BY <1>1, Zenon DEF W!relationshipProblems
<1>5. ASSUME NEW i \in DOMAIN W!views
      PROVE  Cardinality({j \in DOMAIN W!views : W!views[j].id = W!views[i].id}) = 1
  <2>1. {j \in DOMAIN W!views : W!views[j].id = W!views[i].id} = {i}
    BY <1>2, Zenon
  <2> QED
    BY <2>1, FS_Singleton
<1>6. ASSUME NEW i \in DOMAIN W!connections, W!connections[i].id # ""
      PROVE  Cardinality({j \in DOMAIN W!connections : W!connections[j].id = W!connections[i].id}) = 1
  <2>1. {j \in DOMAIN W!connections : W!connections[j].id = W!connections[i].id} = {i}
    BY <1>4, <1>6, Zenon
  <2>2. Cardinality({i}) = 1
    BY FS_Singleton
  <2> QED
    BY <2>1, <2>2, Zenon
<1>7. ASSUME NEW i \in DOMAIN W!views
      PROVE  {W!views[i].focus[f] : f \in DOMAIN W!views[i].focus} \subseteq DOMAIN W!components
  BY <1>3, Zenon
<1>8. /\ \A i \in DOMAIN W!views :
            Cardinality({j \in DOMAIN W!views : W!views[j].id = W!views[i].id}) = 1
      /\ \A i \in DOMAIN W!views :
            {W!views[i].focus[f] : f \in DOMAIN W!views[i].focus} \subseteq DOMAIN W!components
      /\ \A i \in DOMAIN W!connections : W!connections[i].id # "" =>
            Cardinality({j \in DOMAIN W!connections : W!connections[j].id = W!connections[i].id}) = 1
  BY <1>5, <1>6, <1>7, Zenon
<1> QED
  BY <1>8, OwnershipCounts, Zenon DEF W!LinksResolve

\* A document not yet asked about.
LEMMA OwnershipInit ==
  ASSUME W!Init
  PROVE  W!IInv
<1>1. x1 \in Documents /\ x2 = "views" /\ x3 = {}
  BY DEF W!Init
<1>2. x2 # "ids" /\ x2 # "profile" /\ x2 # "accepted" /\ x2 # "refused"
  BY <1>1
<1> QED
  BY <1>1, <1>2, Zenon DEF W!IInv, W!AskedInv, W!RefusedWithReason, W!deployed

\* The answers are those of the document.
LEMMA OwnershipSame ==
  ASSUME x1' = x1
  PROVE  /\ W!viewProblems' = W!viewProblems /\ W!relationshipProblems' = W!relationshipProblems
         /\ W!deploymentOwnershipDiagnostics' = W!deploymentOwnershipDiagnostics
<1>1. /\ W!views' = W!views /\ W!connections' = W!connections
      /\ W!components' = W!components /\ W!boundaries' = W!boundaries
  BY DEF W!views, W!connections, W!components, W!boundaries
<1>2. W!viewProblems' = W!viewProblems
  BY <1>1 DEF W!viewProblems
<1>3. W!relationshipProblems' = W!relationshipProblems
  BY <1>1, Zenon DEF W!relationshipProblems
<1>4. \A id, kind : W!membership(id, kind)' = W!membership(id, kind)
  BY <1>1 DEF W!membership
<1>5. W!kindDiagnostics' = W!kindDiagnostics
  BY <1>1 DEF W!kindDiagnostics, W!kinds
<1>6. \A id : W!componentDiagnostics(id)' = W!componentDiagnostics(id)
  BY <1>1, <1>4, Zenon DEF W!componentDiagnostics
<1>7. \A b : W!consistent(b)' = W!consistent(b)
  BY <1>1, <1>4 DEF W!consistent
<1>8. \A b : W!boundaryDiagnostics(b)' = W!boundaryDiagnostics(b)
  BY <1>1, <1>7 DEF W!boundaryDiagnostics
<1>9. \A c : W!crossed(c)' = W!crossed(c)
  BY <1>1 DEF W!crossed, W!kinds
<1>10. \A i : W!connectionDiagnostics(i)' = W!connectionDiagnostics(i)
  BY <1>1, <1>9, Zenon DEF W!connectionDiagnostics
<1>11. W!deploymentOwnershipDiagnostics' = W!deploymentOwnershipDiagnostics
  BY <1>1, <1>5, <1>6, <1>8, <1>10 DEF W!deploymentOwnershipDiagnostics
<1> QED
  BY <1>2, <1>3, <1>11

\* An answer stands: the document is not changed while it is judged.
LEMMA OwnershipStep ==
  ASSUME W!IInv, W!Next
  PROVE  W!IInv'
<1>1. x1' = x1
  BY DEF W!Next, W!validateGuidedViews, W!validateRelationshipIds,
         W!validateEngineeringProfile, W!Ask
<1>2. /\ W!viewProblems' = W!viewProblems /\ W!relationshipProblems' = W!relationshipProblems
      /\ W!deploymentOwnershipDiagnostics' = W!deploymentOwnershipDiagnostics
  BY <1>1, OwnershipSame
<1> DEFINE a == W!viewProblems
           b == W!relationshipProblems
           d == W!deploymentOwnershipDiagnostics
           deployment == x1.profile = "deployment-ownership"
           found == IF deployment THEN d ELSE {}
<1>3. /\ x1 \in Documents
      /\ x2 \in {"ids", "profile", "accepted"} => a = {}
      /\ x2 \in {"profile", "accepted"} => b = {}
  BY DEF W!IInv, W!AskedInv
<1>4. \/ x2 = "views" /\ x3' = a /\ x2' = (IF a = {} THEN "ids" ELSE "refused")
      \/ x2 = "ids" /\ x3' = b /\ x2' = (IF b = {} THEN "profile" ELSE "refused")
      \/ x2 = "profile" /\ x3' = found /\ x2' = (IF found = {} THEN "accepted" ELSE "refused")
  BY Zenon DEF W!Next, W!validateGuidedViews, W!validateRelationshipIds,
               W!validateEngineeringProfile, W!Ask
<1> HIDE DEF a, b, d
<1>5. /\ x2' \in {"ids", "profile", "accepted"} => a = {}
      /\ x2' \in {"profile", "accepted"} => b = {}
      /\ x2' = "accepted" /\ deployment => d = {}
      /\ (x2' = "refused") <=> (x3' # {})
  BY <1>3, <1>4
<1>6. W!AskedInv'
  BY <1>1, <1>2, <1>5, Zenon DEF W!AskedInv, W!deployed, a, b, d
<1> QED
  BY <1>1, <1>3, <1>5, <1>6 DEF W!IInv, W!RefusedWithReason

\* The frame of the part.
LEMMA OwnershipStutter ==
  ASSUME W!IInv, UNCHANGED <<x1, x2, x3>>
  PROVE  W!IInv'
BY OwnershipSame, Zenon DEF W!IInv, W!AskedInv, W!RefusedWithReason, W!deployed

\* In an accepted deployment every internal component has an owner and one region, what
\* keeps private state lies in one region with all that shares its boundary, no crossing
\* goes unnamed, and every link to a view or a relationship leads to one: for any set of
\* documents (cli.mjs, engineering-profiles.mjs).
THEOREM OwnershipHolds == PartSpec => [](part = "ownership" => W!OwnershipFaithful)
<1> DEFINE I == part = "ownership" => W!IInv
<1>1. PartInit => I
  BY OwnershipInit DEF PartInit
<1>2. I /\ [PartNext]_partVars => I'
  <2>1. CASE part = "ownership" /\ PartNext
    BY <2>1, OwnershipStep DEF PartNext
  <2>2. CASE part # "ownership" /\ PartNext
    BY <2>2 DEF PartNext
  <2>3. CASE UNCHANGED partVars
    BY <2>3, OwnershipStutter DEF partVars, slots
  <2> QED
    BY <2>1, <2>2, <2>3
<1>3. I => (part = "ownership" => W!OwnershipFaithful)
  BY DocumentOwned, CrossingsNamed, LinksLead DEF W!OwnershipFaithful, W!IInv
<1> QED
  BY <1>1, <1>2, <1>3, PTL DEF PartSpec

(***************************************************************************)
(* Evidence                                                                *)
(***************************************************************************)

\* The module counts as the library does.
LEMMA EvidenceCounts ==
  ASSUME NEW S
  PROVE  E!Cardinality(S) = Cardinality(S)
BY DEF E!Cardinality, Cardinality, E!IsFiniteSet, IsFiniteSet

\* A line begins at the start and behind each line end but the one that ends the text.
LEMMA LinesCounted ==
  ASSUME NEW Z, NEW text \in Seq(Z)
  PROVE  E!sourceLineCount(text) = Cardinality(E!startsOf(text))
<1> DEFINE n == Len(text)
           B == {i \in DOMAIN text : E!endsLine(text, i)}
           Inner == B \ {n}
           S == E!startsOf(text)
           ends == text[n] \in {"CR", "LF"}
<1>1. n \in Nat /\ DOMAIN text = 1 .. n
  OBVIOUS
<1>2. CASE text = <<>>
  <2>1. S = {}
    BY <1>2 DEF E!startsOf
  <2>2. E!sourceLineCount(text) = 0
    BY <1>2 DEF E!sourceLineCount
  <2> QED
    BY <2>1, <2>2, FS_EmptySet
<1>3. CASE text # <<>>
  <2>1. n >= 1 /\ n \in DOMAIN text
    BY <1>1, <1>3
  <2>2. n \in B <=> ends
    BY <1>1, <2>1 DEF E!endsLine
  <2>3. S = {1} \cup {i \in 2 .. n : E!endsLine(text, i - 1)}
    BY <1>1, <2>1 DEF E!startsOf
  <2>4. B \subseteq 1 .. n /\ Inner = {i \in 1 .. n - 1 : E!endsLine(text, i)}
    BY <1>1, <2>1
  <2>5. E!sourceLineCount(text) = Cardinality(B) + 1 - (IF ends THEN 1 ELSE 0)
    BY <1>3, EvidenceCounts DEF E!sourceLineCount
  <2> DEFINE f == [i \in Inner |-> i + 1]
             After == {i \in 2 .. n : E!endsLine(text, i - 1)}
  <2>6. f \in Bijection(Inner, After)
    <3>1. f \in Injection(Inner, After)
      BY <1>1, <2>1, <2>4 DEF Injection, IsInjective
    <3>2. ASSUME NEW j \in After
          PROVE  \E i \in Inner : f[i] = j
      <4>1. j - 1 \in Inner /\ f[j - 1] = j
        BY <1>1, <2>1, <2>4
      <4> QED
        BY <4>1
    <3>3. f \in Surjection(Inner, After)
      BY <3>1, <3>2 DEF Surjection, Injection, IsInjective
    <3> QED
      BY <3>1, <3>3 DEF Bijection
  <2>7. IsFiniteSet(B) /\ IsFiniteSet(Inner)
    <3>1. IsFiniteSet(1 .. n)
      BY <1>1, FS_Interval
    <3>2. B \in SUBSET (1 .. n) /\ Inner \in SUBSET (1 .. n)
      BY <2>4
    <3> HIDE DEF B, Inner
    <3> QED
      BY <3>1, <3>2, FS_Subset
  <2> HIDE DEF f
  <2>8. IsFiniteSet(After) /\ Cardinality(After) = Cardinality(Inner)
    BY <2>6, <2>7, FS_Bijection DEF ExistsBijection
  <2>9. Cardinality(Inner) = IF n \in B THEN Cardinality(B) - 1 ELSE Cardinality(B)
    BY <2>7, FS_RemoveElement
  <2>10. 1 \notin After /\ S = After \cup {1}
    BY <2>3
  <2> HIDE DEF After, S, B, Inner
  <2>11. Cardinality(S) = Cardinality(After) + 1
    BY <2>8, <2>10, FS_AddElement
  <2>12. Cardinality(B) \in Nat
    BY <2>7, FS_CardinalityType
  <2> QED
    BY <2>2, <2>5, <2>8, <2>9, <2>11, <2>12 DEF S
<1> QED
  BY <1>2, <1>3

\* Two addresses with one identity name the same repository.
LEMMA SameName ==
  ASSUME NEW u \in Spellings, NEW o \in Spellings, E!identity(u) = E!identity(o)
  PROVE  /\ u.host = o.host /\ u.name = o.name
         /\ E!provider(u) # "github" => u.upper = o.upper
         /\ E!provider(u) = "none" => /\ E!protocol(u) = E!protocol(o) /\ E!port(u) = E!port(o)
                                      /\ u.dotgit = o.dotgit
                                      /\ (u.form = "scp" /\ ~u.lead) = (o.form = "scp" /\ ~o.lead)
<1> DEFINE Forge(l) == E!provider(l)
           K(l) == IF Forge(l) # "none" THEN "repository"
                   ELSE IF l.form = "scp" /\ ~l.lead THEN "relative" ELSE "absolute"
<1>1. /\ u.host = o.host /\ u.name = o.name /\ E!endpoint(u) = E!endpoint(o) /\ K(u) = K(o)
      /\ (u.upper /\ Forge(u) # "github") = (o.upper /\ Forge(o) # "github")
      /\ (u.dotgit /\ Forge(u) = "none") = (o.dotgit /\ Forge(o) = "none")
  BY DEF E!identity
<1>2. Forge(u) = Forge(o)
  BY <1>1 DEF E!provider
<1>3. u.upper \in BOOLEAN /\ o.upper \in BOOLEAN /\ u.dotgit \in BOOLEAN /\ o.dotgit \in BOOLEAN
  BY DEF Spellings
<1>4. Forge(u) # "github" => u.upper = o.upper
  BY <1>1, <1>2, <1>3
<1>5. ASSUME Forge(u) = "none"
      PROVE  /\ E!protocol(u) = E!protocol(o) /\ E!port(u) = E!port(o) /\ u.dotgit = o.dotgit
             /\ (u.form = "scp" /\ ~u.lead) = (o.form = "scp" /\ ~o.lead)
  <2>1. E!endpoint(u) = <<E!protocol(u), E!port(u)>> /\ E!endpoint(o) = <<E!protocol(o), E!port(o)>>
    BY <1>2, <1>5 DEF E!endpoint
  <2>2. E!protocol(u) = E!protocol(o) /\ E!port(u) = E!port(o)
    <3>1. \A a, b, c, d : <<a, b>> = <<c, d>> => a = c /\ b = d
      OBVIOUS
    <3>2. <<E!protocol(u), E!port(u)>> = <<E!protocol(o), E!port(o)>>
      BY <1>1, <2>1, Zenon
    <3> QED
      BY <3>1, <3>2
  <2>3. u.dotgit = o.dotgit
    BY <1>1, <1>2, <1>3, <1>5
  <2>4. (u.form = "scp" /\ ~u.lead) <=> (o.form = "scp" /\ ~o.lead)
    BY <1>1, <1>2, <1>5
  <2> QED
    BY <2>2, <2>3, <2>4
<1> QED
  BY <1>1, <1>4, <1>5

\* The address as it is shown, for any way to write that there is no user.
Written(l, none) ==
    [l EXCEPT !.user = IF E!protocol(l) = "ssh" THEN "git" ELSE none,
              !.port = IF l.port \in {0, E!standardPort[E!protocol(l)]} THEN 0 ELSE l.port,
              !.dotgit = l.dotgit /\ E!provider(l) = "none"]

\* An address written out again names the same place and holds no user but git.
LEMMA ShownAddress ==
  ASSUME NEW l \in Spellings, NEW none,
         NEW u, u = Written(l, none)
  PROVE  /\ E!identity(u) = E!identity(l)
         /\ u.user \in {none, "git"} /\ u.form = l.form
         /\ u.user = "git" \/ l.form # "ssh"
         /\ u.user = none \/ l.form \notin {"https", "http"}
<1>1. /\ u.form = l.form /\ u.host = l.host /\ u.lead = l.lead /\ u.name = l.name /\ u.upper = l.upper
      /\ u.user = (IF E!protocol(l) = "ssh" THEN "git" ELSE none)
      /\ u.port = (IF l.port \in {0, E!standardPort[E!protocol(l)]} THEN 0 ELSE l.port)
      /\ u.dotgit = (l.dotgit /\ E!provider(l) = "none")
  BY DEF Spellings, Written
<1>2. l.form \in {"https", "http", "ssh", "scp"} /\ l.dotgit \in BOOLEAN
  BY DEF Spellings
<1>3. E!protocol(u) = E!protocol(l) /\ E!provider(u) = E!provider(l)
  BY <1>1 DEF E!protocol, E!provider
<1>4. E!port(u) = E!port(l)
  BY <1>1, <1>3 DEF E!port
<1>5. E!endpoint(u) = E!endpoint(l)
  BY <1>3, <1>4 DEF E!endpoint
<1>6. E!identity(u) = E!identity(l)
  BY <1>1, <1>2, <1>3, <1>5 DEF E!identity
<1>7. /\ u.user = "git" \/ l.form # "ssh"
      /\ u.user = none \/ l.form \notin {"https", "http"}
  BY <1>1, <1>2 DEF E!protocol
<1> QED
  BY <1>1, <1>6, <1>7

\* So the page links to the declared repository.
LEMMA AddressHeld ==
  ASSUME E!IInv
  PROVE  E!AddressKept
<1> DEFINE l == x1.repository.url
<1> SUFFICES ASSUME x1.repository # E!NoRepository
             PROVE  /\ E!parsable(E!canonicalUrl(l), TRUE)
                    /\ E!identity(E!canonicalUrl(l)) = E!identity(l)
                    /\ E!canonicalUrl(l).user \in {"", "git"}
  BY Zenon DEF E!AddressKept
<1>1. l \in Spellings
  BY ClaimAssumption DEF E!IInv, E!PlaceInv
<1> HIDE DEF l
<1>2. PICK u : u = E!canonicalUrl(l)
  OBVIOUS
<1>3. /\ E!identity(u) = E!identity(l)
      /\ u.user \in {"", "git"} /\ u.form = l.form
      /\ u.user = "git" \/ l.form # "ssh"
      /\ u.user = "" \/ l.form \notin {"https", "http"}
  <2>1. u = Written(l, "")
    BY <1>2, Zenon DEF E!canonicalUrl, Written
  <2> QED
    BY <1>1, <2>1, ShownAddress, Zenon
<1>4. E!parsable(u, TRUE)
  BY <1>3, Zenon DEF E!parsable
<1> QED
  BY <1>2, <1>3, <1>4, Zenon

\* The code of a repository that is refused is none of the ends of a run.
LEMMA RepositoryCodes ==
  /\ E!repositoryFailure # "running" /\ E!repositoryFailure # "verified"
  /\ E!repositoryFailure # "line-out-of-range"
BY DEF E!repositoryFailure

\* A repository that is accepted was declared, is the checkout's and has the revision.
LEMMA RepositoryFound ==
  ASSUME E!repositoryFailure = "none"
  PROVE  /\ x1.repository # E!NoRepository
         /\ E!identity(x2.origin) = E!identity(x1.repository.url)
         /\ x1.repository.revision \in DOMAIN x2.commits
BY DEF E!repositoryFailure

\* Nor is the code of a reference that is refused.
LEMMA SourceCodes ==
  ASSUME NEW s
  PROVE  E!sourceFailure(s) # "running" /\ E!sourceFailure(s) # "verified"
BY DEF E!sourceFailure

\* A reference that is accepted has its file and its lines.
LEMMA SourceFound ==
  ASSUME NEW s \in References, E!sourceFailure(s) = "none"
  PROVE  /\ E!verifiedSourcePath(s.path) /\ E!blob(s.path) # E!Missing
         /\ s.endLine # 0 => s.line \in 1 .. s.endLine
         /\ s.line # 0 => ~((IF s.endLine = 0 THEN s.line ELSE s.endLine) > E!sourceLineCount(E!blob(s.path)))
BY DEF E!sourceFailure, References

\* What is read is a text.
LEMMA BlobIsText ==
  ASSUME x2 \in Checkouts, x1.repository.revision \in DOMAIN x2.commits, NEW p
  PROVE  \E Z : E!blob(p) \in Seq(Z)
<1>1. E!Missing \in Seq({"missing"})
  BY DEF E!Missing
<1>2. CASE p \in DOMAIN x2.commits[x1.repository.revision]
  BY <1>2, CheckoutAssumption DEF E!blob
<1>3. CASE p \notin DOMAIN x2.commits[x1.repository.revision]
  <2>1. E!blob(p) = E!Missing
    BY <1>3, Zenon DEF E!blob
  <2> QED
    BY <1>1, <2>1, Zenon
<1> QED
  BY <1>2, <1>3

\* So every reference of a verified document is there.
LEMMA SourcesThere ==
  ASSUME E!IInv
  PROVE  E!ReferencesExist
<1> SUFFICES ASSUME x4 = "verified", NEW i \in DOMAIN x1.sources
             PROVE  LET s == x1.sources[i] IN
                    /\ s.path \in DOMAIN x2.commits[x1.repository.revision]
                    /\ \A j \in DOMAIN s.path : s.path[j] \notin {"", ".", ".."}
                    /\ s.line # 0 => E!Cardinality(E!startsOf(E!blob(s.path)))
                                        >= (IF s.endLine = 0 THEN s.line ELSE s.endLine)
                    /\ s.endLine # 0 => s.line \in 1 .. s.endLine
  BY Zenon DEF E!ReferencesExist
<1> DEFINE s == x1.sources[i]
           text == E!blob(s.path)
<1>1. /\ x1 \in Claims /\ x2 \in Checkouts /\ x3 = Len(x1.sources) + 1
      /\ x1.sources \in Seq(References)
  BY ClaimAssumption DEF E!IInv, E!PlaceInv
<1>2. s \in References /\ i \in 1 .. x3 - 1 /\ x3 # 0
  BY <1>1
<1>3. E!sourceFailure(s) = "none" /\ E!repositoryFailure = "none"
  BY <1>2 DEF E!IInv, E!VerifiedInv
<1> HIDE DEF s
<1>4. /\ E!verifiedSourcePath(s.path) /\ text # E!Missing
      /\ s.endLine # 0 => s.line \in 1 .. s.endLine
      /\ s.line # 0 => ~((IF s.endLine = 0 THEN s.line ELSE s.endLine) > E!sourceLineCount(text))
  BY <1>2, <1>3, SourceFound
<1>5. s.path \in DOMAIN x2.commits[x1.repository.revision]
  BY <1>4 DEF E!blob
<1>6. \A j \in DOMAIN s.path : s.path[j] \notin {"", ".", ".."}
  BY <1>4, Zenon DEF E!verifiedSourcePath
<1>7. PICK Z : text \in Seq(Z)
  BY <1>1, <1>3, RepositoryFound, BlobIsText
<1>8. E!Cardinality(E!startsOf(text)) = E!sourceLineCount(text) /\ E!sourceLineCount(text) \in Nat
  <2>1. E!startsOf(text) \subseteq 1 .. Len(text) /\ Len(text) \in Nat
    BY <1>7 DEF E!startsOf
  <2>2. Cardinality(E!startsOf(text)) \in Nat
    <3>1. IsFiniteSet(1 .. Len(text))
      BY <2>1, FS_Interval
    <3>2. IsFiniteSet(E!startsOf(text))
      BY <2>1, <3>1, FS_Subset
    <3> QED
      BY <3>2, FS_CardinalityType
  <2> QED
    BY <1>7, <2>2, LinesCounted, EvidenceCounts
<1>9. s.line # 0 => E!Cardinality(E!startsOf(text)) >= (IF s.endLine = 0 THEN s.line ELSE s.endLine)
  <2>1. s.line \in Nat /\ s.endLine \in Nat
    BY <1>2 DEF References
  <2> QED
    BY <1>4, <1>8, <2>1
<1> QED
  BY <1>4, <1>5, <1>6, <1>9, Zenon DEF s

\* So a reference refused for its lines has none of them.
LEMMA RightAccepted ==
  ASSUME E!IInv
  PROVE  E!NoFalseRefusal
<1> SUFFICES ASSUME x4 = "line-out-of-range"
             PROVE  LET s == x1.sources[x3 - 1] IN
                    E!Cardinality(E!startsOf(E!blob(s.path))) < (IF s.endLine = 0 THEN s.line ELSE s.endLine)
  BY DEF E!NoFalseRefusal
<1> DEFINE s == x1.sources[x3 - 1]
           text == E!blob(s.path)
<1>1. E!sourceFailure(s) = "line-out-of-range" /\ E!repositoryFailure = "none" /\ x2 \in Checkouts
  BY DEF E!IInv, E!PlaceInv, E!RefusedInv, E!VerifiedInv
<1>2. (IF s.endLine = 0 THEN s.line ELSE s.endLine) > E!sourceLineCount(text)
  BY <1>1 DEF E!sourceFailure
<1>3. PICK Z : text \in Seq(Z)
  BY <1>1, RepositoryFound, BlobIsText
<1>4. E!Cardinality(E!startsOf(text)) = E!sourceLineCount(text)
  BY <1>3, LinesCounted, EvidenceCounts
<1> QED
  BY <1>2, <1>4

\* So the references are looked up in the repository that was declared.
LEMMA OneRepository ==
  ASSUME E!IInv
  PROVE  E!SameRepository
<1> SUFFICES ASSUME x4 = "verified"
             PROVE  E!SameRepository
  BY DEF E!SameRepository
<1>1. x1 \in Claims /\ x2 \in Checkouts /\ x1.sources \in Seq(References) /\ x3 = Len(x1.sources) + 1
  BY ClaimAssumption DEF E!IInv, E!PlaceInv
<1>2. E!repositoryFailure = "none"
  BY <1>1 DEF E!IInv, E!VerifiedInv
<1>3. E!identity(x2.origin) = E!identity(x1.repository.url) /\ x1.repository # E!NoRepository
  BY <1>2, RepositoryFound
<1>4. x2.origin \in Spellings /\ x1.repository.url \in Spellings
  BY <1>1, <1>3, ClaimAssumption, CheckoutAssumption
<1> QED
  BY <1>3, <1>4, SameName, Zenon DEF E!SameRepository

\* A claim not yet looked at.
LEMMA EvidenceInit ==
  ASSUME E!Init
  PROVE  E!IInv
<1>1. x1 \in Claims /\ x2 \in Checkouts /\ x3 = 0 /\ x4 = "running" /\ Len(x1.sources) \in Nat
  BY ClaimAssumption DEF E!Init
<1> QED
  BY <1>1 DEF E!IInv, E!PlaceInv, E!VerifiedInv, E!RefusedInv

\* The declaration and the checkout stay what they were.
LEMMA EvidenceSame ==
  ASSUME x1' = x1, x2' = x2
  PROVE  /\ E!repositoryFailure' = E!repositoryFailure
         /\ \A i : E!sourceFailure(x1.sources[i])' = E!sourceFailure(x1.sources[i])
<1>1. E!repositoryFailure' = E!repositoryFailure
  BY DEF E!repositoryFailure
<1>2. \A p : E!blob(p)' = E!blob(p)
  BY DEF E!blob
<1>3. \A s : E!sourceFailure(s)' = E!sourceFailure(s)
  BY <1>2 DEF E!sourceFailure
<1> QED
  BY <1>1, <1>3

\* One question after another, each answered from the checkout as it is.
LEMMA EvidenceStep ==
  ASSUME E!IInv, E!Next
  PROVE  E!IInv'
<1>1. x1' = x1 /\ x2' = x2
  BY DEF E!Next, E!NoEvidence, E!CheckRepository, E!CheckSource, E!Conclude
<1>2. /\ E!repositoryFailure' = E!repositoryFailure
      /\ \A i : E!sourceFailure(x1.sources[i])' = E!sourceFailure(x1.sources[i])
  BY <1>1, EvidenceSame
<1> DEFINE n == Len(x1.sources)
           R == E!repositoryFailure
           F(i) == E!sourceFailure(x1.sources[i])
<1>3. /\ x1 \in Claims /\ x2 \in Checkouts /\ x3 \in 0 .. n + 1 /\ n \in Nat
      /\ DOMAIN x1.sources = 1 .. n
      /\ x3 = 0 => x4 \in {"running", "none"}
      /\ x4 \in {"running", "verified", "line-out-of-range"} /\ x3 # 0 => R = "none"
      /\ x4 \in {"running", "verified"} => \A i \in 1 .. x3 - 1 : F(i) = "none"
  BY ClaimAssumption DEF E!IInv, E!PlaceInv, E!VerifiedInv
<1>4. R # "running" /\ R # "verified" /\ R # "line-out-of-range"
  BY RepositoryCodes
<1>5. \A i : F(i) # "running" /\ F(i) # "verified"
  BY SourceCodes
<1>6. \/ x3 = 0 /\ x4' = "none" /\ x3' = x3
      \/ x3 = 0 /\ x4 = "running" /\ x4' = (IF R = "none" THEN "running" ELSE R) /\ x3' = 1
      \/ /\ x4 = "running" /\ x3 \in 1 .. n /\ x3' = x3 + 1
         /\ x4' = IF F(x3) = "none" THEN x4 ELSE F(x3)
      \/ x4 = "running" /\ x3 > n /\ x4' \in {"source-required", "verified"} /\ x3' = x3
  BY <1>3 DEF E!Next, E!NoEvidence, E!CheckRepository, E!CheckSource, E!Conclude
<1> HIDE DEF R, F
<1>7. E!PlaceInv'
  <2>1. /\ x3' \in 0 .. n + 1
        /\ x3' = 0 => x4' \in {"running", "none"}
        /\ x4' = "verified" => x3' = n + 1
    BY <1>3, <1>4, <1>5, <1>6
  <2> QED
    BY <1>1, <1>3, <2>1 DEF E!PlaceInv
<1>8. E!VerifiedInv'
  <2>1. /\ x4' \in {"running", "verified", "line-out-of-range"} /\ x3' # 0 => R = "none"
        /\ x4' \in {"running", "verified"} => \A i \in 1 .. x3' - 1 : F(i) = "none"
    BY <1>3, <1>4, <1>5, <1>6
  <2> QED
    BY <1>1, <1>2, <2>1 DEF E!VerifiedInv, R, F
<1>9. E!RefusedInv'
  <2>1. x4' = "line-out-of-range" => x3' > 1 /\ F(x3' - 1) = "line-out-of-range"
    BY <1>3, <1>4, <1>5, <1>6
  <2> QED
    BY <1>1, <1>2, <2>1 DEF E!RefusedInv, F
<1> QED
  BY <1>7, <1>8, <1>9 DEF E!IInv

\* The frame of the part.
LEMMA EvidenceStutter ==
  ASSUME E!IInv, UNCHANGED <<x1, x2, x3, x4, x5>>
  PROVE  E!IInv'
<1>1. /\ E!repositoryFailure' = E!repositoryFailure
      /\ \A i : E!sourceFailure(x1.sources[i])' = E!sourceFailure(x1.sources[i])
  BY EvidenceSame
<1> QED
  BY <1>1 DEF E!IInv, E!PlaceInv, E!VerifiedInv, E!RefusedInv

\* Verified evidence is there: each reference names a file of the repository that was
\* declared, at its revision, and lines this file has as a reader counts them; none is
\* refused for a line that is there, and the address shown is the one declared: for any
\* claims and checkouts (repository-evidence.mjs, repository-location.mjs).
THEOREM EvidenceHolds == PartSpec => [](part = "evidence" => E!EvidenceFaithful)
<1> DEFINE I == part = "evidence" => E!IInv
<1>1. PartInit => I
  BY EvidenceInit DEF PartInit
<1>2. I /\ [PartNext]_partVars => I'
  <2>1. CASE part = "evidence" /\ PartNext
    BY <2>1, EvidenceStep DEF PartNext
  <2>2. CASE part # "evidence" /\ PartNext
    BY <2>2 DEF PartNext
  <2>3. CASE UNCHANGED partVars
    BY <2>3, EvidenceStutter DEF partVars, slots
  <2> QED
    BY <2>1, <2>2, <2>3
<1>3. I => (part = "evidence" => E!EvidenceFaithful)
  BY SourcesThere, RightAccepted, OneRepository, AddressHeld DEF E!EvidenceFaithful
<1> QED
  BY <1>1, <1>2, <1>3, PTL DEF PartSpec

(***************************************************************************)
(* Commands                                                                *)
(***************************************************************************)
\* A command line not yet read.
LEMMA CommandsInit ==
  ASSUME C!Init
  PROVE  C!IInv
BY DEF C!Init, C!IInv, C!StepInv, C!OneReport, C!NothingLeft

\* What an ended run says is not more than one thing.
LEMMA OneWord ==
  ASSUME NEW w
  PROVE  /\ Append(<<>>, w) = <<w>> /\ Len(<<w>>) = 1 /\ C!ToSet(<<w>>) = {w}
         /\ <<w>> # <<>>
BY DEF C!ToSet

\* And one that says nothing.
LEMMA NoWord ==
  Len(<<>>) = 0 /\ C!ToSet(<<>>) = {}
BY DEF C!ToSet

\* One word is known by what it says.
LEMMA Singles ==
  \A v, w : /\ <<v>> = <<w>> => v = w
            /\ <<>> # <<v>>
OBVIOUS

\* What an ended run reports: nothing, or one word that its exit status agrees with.
LEMMA EndReports ==
  ASSUME NEW w \in {"none", "ok", "failed", "layout"},
         x1' = x1, x2' = "end", x4' = IF w = "none" THEN <<>> ELSE <<w>>,
         C!command = "validate" /\ C!json(x1) => w # "none",
         x6' = 0 => w # "failed" /\ x5' = {},
         w = "ok" => x6' = 0,
         w = "failed" => x6' # 0 /\ x5' # {},
         x6' # 0 /\ C!isMachine /\ C!accepts(x1) => x5' # {}
  PROVE  C!OneReport'
<1>1. Len(x4') <= 1 /\ (w # "none" => Len(x4') = 1)
  BY OneWord, NoWord
<1>2. C!ToSet(x4') = IF w = "none" THEN {} ELSE {w}
  BY OneWord, NoWord
<1>3. \A v : x4' = <<v>> => w = v
  BY Singles
<1>4. C!command' = C!command /\ C!isMachine' = C!isMachine
  BY DEF C!isMachine, C!command
<1>5. C!json(x1)' = C!json(x1) /\ C!accepts(x1)' = C!accepts(x1)
  OBVIOUS
<1> QED
  BY <1>1, <1>2, <1>3, <1>4 DEF C!OneReport

\* A refused line: one report or none.
LEMMA CommandsRefuse ==
  ASSUME C!IInv, C!Refuse
  PROVE  C!IInv'
<1>1. /\ x1' = x1 /\ x2' = "end" /\ x3' = "none" /\ ~C!accepts(x1)
      /\ x6' \in {1, 2}
      /\ \/ x4' = <<"failed">> /\ x5' = {"cli"}
         \/ x4' = <<>> /\ x5' = {} /\ ~(C!command = "validate" /\ C!json(x1))
  BY DEF C!Refuse, C!Same, C!IInv, C!StepInv
<1>2. C!StepInv' /\ C!NothingLeft'
  BY <1>1 DEF C!StepInv, C!NothingLeft
<1>3. CASE x4' = <<"failed">> /\ x5' = {"cli"}
  <2>1. C!OneReport'
    BY <1>1, <1>3, EndReports, "failed" \in {"none", "ok", "failed", "layout"}
  <2> QED
    BY <1>2, <2>1 DEF C!IInv
<1>4. CASE x4' = <<>> /\ x5' = {} /\ ~(C!command = "validate" /\ C!json(x1))
  <2>1. C!OneReport'
    BY <1>1, <1>4, EndReports, "none" \in {"none", "ok", "failed", "layout"}
  <2> QED
    BY <1>2, <2>1 DEF C!IInv
<1> QED
  BY <1>1, <1>3, <1>4

\* A line that is accepted for another part.
LEMMA CommandsHandOver ==
  ASSUME C!IInv, C!HandOver
  PROVE  C!IInv'
<1>1. /\ x1' = x1 /\ x2' = "end" /\ x3' = "none" /\ x6' = 0 /\ x4' = <<>> /\ x5' = {}
      /\ C!command \notin {"validate", "inspect"}
  BY DEF C!HandOver, C!Same, C!IInv, C!StepInv
<1>2. C!StepInv' /\ C!NothingLeft'
  BY <1>1 DEF C!StepInv, C!NothingLeft
<1>3. C!OneReport'
  BY <1>1, NoWord DEF C!OneReport, C!isMachine, C!command
<1> QED
  BY <1>2, <1>3 DEF C!IInv

\* A command that runs the renderer or the checker.
LEMMA CommandsBegin ==
  ASSUME C!IInv, C!Begin
  PROVE  C!IInv'
<1>1. /\ x1' = x1 /\ x4' = <<>> /\ x5' = {} /\ x6' = -1
      /\ C!command \in {"render", "check", "validate", "inspect"}
      /\ x2' = (IF C!command = "check" THEN "check" ELSE "render")
      /\ x3' = "there" => C!command = "validate" /\ ~C!layout(x1)
  BY DEF C!Begin, C!Same, C!IInv, C!StepInv
<1>2. C!StepInv'
  BY <1>1 DEF C!StepInv, C!isMachine, C!command
<1>3. C!OneReport' /\ C!NothingLeft'
  BY <1>1 DEF C!OneReport, C!NothingLeft
<1> QED
  BY <1>2, <1>3 DEF C!IInv

\* The renderer has ended.
LEMMA CommandsRendered ==
  ASSUME C!IInv, NEW end \in C!Ends, C!Rendered(end)
  PROVE  C!IInv'
<1> DEFINE why == C!rendererFailure(end)
           said == IF C!json(x1) THEN <<"failed">> ELSE <<>>
<1>1. why # {}
  BY DEF C!rendererFailure
<1>2. /\ x1' = x1 /\ x3' = x3 /\ x4 = <<>> /\ x5 = {} /\ x6 = -1
      /\ x3 = "there" => C!command = "validate" /\ ~C!layout(x1)
  BY DEF C!Rendered, C!Same, C!IInv, C!StepInv
<1>3. C!status(end) \in {0, 1} /\ (C!status(end) = 0 <=> end = "well")
  BY DEF C!status
<1>4. C!failed(why) => x5' = why /\ x4' = said
  BY <1>2, OneWord DEF C!failed
<1>5. CASE C!command = "render" /\ x2' = "end" /\ x6' = C!status(end) /\ x4' = <<>> /\ x5' = {}
  <2>1. C!StepInv' /\ C!NothingLeft'
    BY <1>2, <1>5 DEF C!StepInv, C!NothingLeft
  <2>2. C!OneReport'
    BY <1>2, <1>5, NoWord DEF C!OneReport, C!isMachine, C!command
  <2> QED
    BY <2>1, <2>2 DEF C!IInv
<1>6. CASE /\ C!isMachine /\ C!layout(x1) /\ x2' = "end" /\ x6' = C!status(end)
           /\ \/ end = "well" /\ x4' = <<"layout">> /\ x5' = {}
              \/ end = "reported" /\ x4' = <<"layout">> /\ x5' = {"renderer"}
              \/ end # "well" /\ x5' = why /\ x4' = said
  <2>1. C!StepInv' /\ C!NothingLeft'
    BY <1>2, <1>6 DEF C!StepInv, C!NothingLeft
  <2> DEFINE w == IF x4' = <<"layout">> THEN "layout" ELSE IF x4' = <<>> THEN "none" ELSE "failed"
  <2>2. /\ w \in {"none", "ok", "failed", "layout"}
        /\ x4' = IF w = "none" THEN <<>> ELSE <<w>>
        /\ w = "failed" => end # "well" /\ x5' = why
    BY <1>6, Singles
  <2>3. C!command = "validate" /\ C!json(x1) => w # "none"
    BY <1>6, Singles
  <2> HIDE DEF w
  <2>4. C!OneReport'
    BY <1>1, <1>2, <1>3, <1>6, <2>2, <2>3, EndReports
  <2> QED
    BY <2>1, <2>4 DEF C!IInv
<1>7. CASE /\ C!isMachine /\ ~C!layout(x1)
           /\ \/ x2' = "check" /\ x4' = x4 /\ x5' = x5 /\ x6' = x6
              \/ end # "well" /\ x2' = "report" /\ x5' = why /\ x4' = said /\ x6' = C!status(end)
  <2>1. C!StepInv'
    BY <1>1, <1>2, <1>3, <1>7 DEF C!StepInv, C!isMachine, C!command
  <2>2. C!OneReport' /\ C!NothingLeft'
    BY <1>7 DEF C!OneReport, C!NothingLeft
  <2> QED
    BY <2>1, <2>2 DEF C!IInv
<1> HIDE DEF why, said
<1> QED
  BY <1>2, <1>4, <1>5, <1>6, <1>7, OneWord DEF C!Rendered, why

\* The checker has ended.
LEMMA CommandsChecked ==
  ASSUME C!IInv, NEW end \in C!Ends, C!Checked(end)
  PROVE  C!IInv'
<1>1. /\ x1' = x1 /\ x3' = x3 /\ x4 = <<>> /\ x5 = {} /\ x2 = "check"
      /\ x3 = "there" => C!command = "validate" /\ ~C!layout(x1)
      /\ C!isMachine => ~C!layout(x1)
  BY DEF C!Checked, C!Same, C!IInv, C!StepInv
<1>2. C!status(end) \in {0, 1} /\ (C!status(end) = 0 <=> end = "well")
  BY DEF C!status
<1>3. \A issues, checks : C!checkerDiagnostics(issues, checks) # {}
  BY DEF C!checkerDiagnostics
<1>4. CASE C!command = "check" /\ x2' = "end" /\ x6' = C!status(end) /\ x4' = <<>> /\ x5' = {}
  <2>1. C!StepInv' /\ C!NothingLeft'
    BY <1>1, <1>4 DEF C!StepInv, C!NothingLeft
  <2>2. C!OneReport'
    BY <1>1, <1>4, NoWord DEF C!OneReport, C!isMachine, C!command
  <2> QED
    BY <2>1, <2>2 DEF C!IInv
<1>5. CASE /\ C!isMachine /\ x2' = "report"
           /\ \/ x6' = 0 /\ x5' = {} /\ x4' = IF C!json(x1) THEN <<"ok">> ELSE <<>>
              \/ x6' = 1 /\ x5' # {} /\ x4' = IF C!json(x1) THEN <<"failed">> ELSE <<>>
  <2>1. C!StepInv'
    BY <1>1, <1>5 DEF C!StepInv, C!isMachine, C!command
  <2>2. C!OneReport' /\ C!NothingLeft'
    BY <1>5 DEF C!OneReport, C!NothingLeft
  <2> QED
    BY <2>1, <2>2 DEF C!IInv
<1>6. CASE /\ C!isMachine /\ end = "well" /\ x2' = "report" /\ x6' = 0 /\ x5' = x5
           /\ x4' = IF C!json(x1) THEN Append(x4, "ok") ELSE x4
  BY <1>1, <1>5, <1>6, OneWord
<1>7. CASE /\ C!isMachine /\ end # "well" /\ x2' = "report" /\ x6' = C!status(end)
           /\ \E issues, checks : C!failed(C!checkerDiagnostics(issues, checks))
  <2>1. x5' # {} /\ x4' = IF C!json(x1) THEN <<"failed">> ELSE <<>>
    BY <1>1, <1>3, <1>7, OneWord DEF C!failed
  <2> QED
    BY <1>2, <1>5, <1>7, <2>1
<1>8. \/ C!command = "check" /\ x2' = "end" /\ x6' = C!status(end) /\ x4' = x4 /\ x5' = x5
      \/ /\ C!isMachine /\ end = "well" /\ x2' = "report" /\ x6' = 0 /\ x5' = x5
         /\ x4' = IF C!json(x1) THEN Append(x4, "ok") ELSE x4
      \/ /\ C!isMachine /\ end # "well" /\ x2' = "report" /\ x6' = C!status(end)
         /\ \E issues, checks : C!failed(C!checkerDiagnostics(issues, checks))
  BY Zenon DEF C!Checked
<1> QED
  BY <1>1, <1>4, <1>6, <1>7, <1>8

\* The temporary directory is removed, the report stays.
LEMMA CommandsClean ==
  ASSUME C!IInv, C!Clean
  PROVE  C!IInv'
<1>1. /\ x1' = x1 /\ x2' = "end" /\ x3' = "gone" /\ x4' = x4 /\ x5' = x5 /\ x6' = x6
      /\ x4 = (IF C!json(x1) THEN <<IF x6 = 0 THEN "ok" ELSE "failed">> ELSE <<>>)
      /\ x5 = {} <=> x6 = 0
  BY DEF C!Clean, C!Same, C!IInv, C!StepInv
<1>2. C!StepInv' /\ C!NothingLeft'
  BY <1>1 DEF C!StepInv, C!NothingLeft
<1>3. C!OneReport'
  BY <1>1, OneWord, NoWord DEF C!OneReport, C!isMachine, C!command
<1> QED
  BY <1>2, <1>3 DEF C!IInv

\* Every step of a command.
LEMMA CommandsStep ==
  ASSUME C!IInv, C!Next
  PROVE  C!IInv'
BY CommandsRefuse, CommandsHandOver, CommandsBegin, CommandsRendered, CommandsChecked,
   CommandsClean DEF C!Next

\* The frame of the part.
LEMMA CommandsStutter ==
  ASSUME C!IInv, UNCHANGED <<x1, x2, x3, x4, x5, x6>>
  PROVE  C!IInv'
BY DEF C!IInv, C!StepInv, C!OneReport, C!NothingLeft, C!isMachine, C!command

\* A command whose output is read by a program prints one document at most, `validate'
\* with JSON exactly one; the exit status says what it says, a failure names a reason, and
\* the temporary directory does not outlive the run: for any set of command lines
\* (bin/archify.mjs, commandRender, commandCheck, commandValidate).
THEOREM ReportsHold == PartSpec => [](part = "commands" => C!ReportsFaithful)
<1> DEFINE I == part = "commands" => C!IInv
<1>1. PartInit => I
  BY CommandsInit DEF PartInit
<1>2. I /\ [PartNext]_partVars => I'
  <2>1. CASE part = "commands" /\ PartNext
    BY <2>1, CommandsStep DEF PartNext
  <2>2. CASE part # "commands" /\ PartNext
    BY <2>2 DEF PartNext
  <2>3. CASE UNCHANGED partVars
    BY <2>3, CommandsStutter DEF partVars, slots
  <2> QED
    BY <2>1, <2>2, <2>3
<1>3. I => (part = "commands" => C!ReportsFaithful)
  BY DEF C!ReportsFaithful, C!IInv
<1> QED
  BY <1>1, <1>2, <1>3, PTL DEF PartSpec

(***************************************************************************)
(* Delta                                                                   *)
(***************************************************************************)
\* The module of a comparison counts as the library does.
LEMMA DeltaCounts ==
  \A S : D!Cardinality(S) = Cardinality(S)
BY DEF D!Cardinality, Cardinality, D!IsFiniteSet, IsFiniteSet

\* In a finite set whose members are in different places, the numbers of those before a
\* member are the numbers below the size of the set, each once.
LEMMA RanksAreNumbers ==
  ASSUME NEW S, IsFiniteSet(S),
         \A r \in S : D!place(r) \in Int,
         \A r, q \in S : D!place(r) = D!place(q) => r = q
  PROVE  /\ \A i \in 1 .. Cardinality(S) : \E r \in S : Cardinality(D!before(r, S)) = i - 1
         /\ \A r \in S : Cardinality(D!before(r, S)) + 1 \in 1 .. Cardinality(S)
         /\ \A r, q \in S : Cardinality(D!before(r, S)) = Cardinality(D!before(q, S)) => r = q
<1> DEFINE n == Cardinality(S)
           e(r) == D!before(r, S)
           g == [r \in S |-> Cardinality(e(r)) + 1]
           T == {g[r] : r \in S}
<1>1. n \in Nat
  BY FS_CardinalityType
<1>2. \A r \in S : e(r) \in SUBSET S /\ e(r) # S
  BY DEF D!before
<1>3. \A r, q \in S : D!place(q) < D!place(r) => e(q) \in SUBSET e(r) /\ e(q) # e(r)
  BY DEF D!before
<1> HIDE DEF e
<1>4. \A r \in S : IsFiniteSet(e(r)) /\ Cardinality(e(r)) \in Nat /\ Cardinality(e(r)) < n
  <2> SUFFICES ASSUME NEW r \in S
               PROVE  IsFiniteSet(e(r)) /\ Cardinality(e(r)) \in Nat /\ Cardinality(e(r)) < n
    OBVIOUS
  <2>1. IsFiniteSet(e(r)) /\ Cardinality(e(r)) <= n /\ Cardinality(e(r)) # n
    BY <1>2, FS_Subset
  <2>2. Cardinality(e(r)) \in Nat
    BY <2>1, FS_CardinalityType
  <2> QED
    BY <1>1, <2>1, <2>2
<1>5. \A r, q \in S : D!place(q) < D!place(r) => Cardinality(e(q)) < Cardinality(e(r))
  <2> SUFFICES ASSUME NEW r \in S, NEW q \in S, D!place(q) < D!place(r)
               PROVE  Cardinality(e(q)) < Cardinality(e(r))
    OBVIOUS
  <2>1. Cardinality(e(q)) <= Cardinality(e(r)) /\ Cardinality(e(q)) # Cardinality(e(r))
    BY <1>3, <1>4, FS_Subset
  <2> QED
    BY <1>4, <2>1
<1>6. \A r, q \in S : Cardinality(e(r)) = Cardinality(e(q)) => r = q
  <2> SUFFICES ASSUME NEW r \in S, NEW q \in S, Cardinality(e(r)) = Cardinality(e(q))
               PROVE  r = q
    OBVIOUS
  <2>1. ~(D!place(q) < D!place(r)) /\ ~(D!place(r) < D!place(q))
    BY <1>4, <1>5
  <2> QED
    BY <2>1
<1>7. T \in SUBSET (1 .. n)
  BY <1>1, <1>4
<1>8. \A r, q \in S : g[r] = g[q] => r = q
  BY <1>4, <1>6
<1>9. T = 1 .. n
  <2>1. g \in [S -> T]
    OBVIOUS
  <2>2. g \in Surjection(S, T)
    BY <2>1 DEF Surjection
  <2>3. g \in Injection(S, T)
    BY <2>1, <1>8 DEF Injection, IsInjective
  <2> HIDE DEF g, T
  <2>4. Cardinality(T) = n
    BY <2>2, <2>3, FS_Surjection
  <2>5. IsFiniteSet(1 .. n) /\ Cardinality(1 .. n) = n
    BY <1>1, FS_Interval
  <2> QED
    BY <1>7, <2>4, <2>5, FS_Subset
<1>10. \A i \in 1 .. n : \E r \in S : Cardinality(e(r)) = i - 1
  <2> SUFFICES ASSUME NEW i \in 1 .. n
               PROVE  \E r \in S : Cardinality(e(r)) = i - 1
    OBVIOUS
  <2>1. PICK r \in S : i = Cardinality(e(r)) + 1
    BY <1>9
  <2> QED
    BY <1>4, <2>1
<1>11. \A r \in S : Cardinality(e(r)) + 1 \in 1 .. n
  BY <1>1, <1>4
<1> QED
  BY <1>6, <1>10, <1>11 DEF e

\* The statuses there are.
LEMMA StatusIs ==
  ASSUME NEW id \in D!Ids, NEW classes
  PROVE  D!statusFor(classes, D!kindOf[id])
           \in {"changed", "evidence-changed", "moved", "rerouted", "geometry-changed", "same"}
<1>1. D!kindOf[id] \in {"component", "connection", "boundary"}
  BY DEF D!Ids, D!kindOf
<1> QED
  BY <1>1 DEF D!statusFor

\* The row of an id.
LEMMA RowIs ==
  ASSUME NEW base, NEW head, NEW id \in D!Ids
  PROVE  LET r == D!rowOf(base, head, id)
             fields == D!fieldChanges(base[id], head[id], D!kindOf[id]) IN
         /\ r.id = id
         /\ base[id] = D!Absent => r.status = "added"
         /\ base[id] # D!Absent /\ head[id] = D!Absent => r.status = "removed"
         /\ base[id] # D!Absent /\ head[id] # D!Absent =>
              /\ r.status = D!statusFor(fields.classifications, D!kindOf[id])
              /\ r.changedFields = fields.changedFields
BY DEF D!rowOf

\* A row has its place.
LEMMA PlaceIs ==
  ASSUME NEW base, NEW head
  PROVE  LET S == D!changes(base, head) IN
         /\ \A r \in S : D!place(r) \in Int
         /\ \A r, q \in S : D!place(r) = D!place(q) => r = q
<1> DEFINE S == D!changes(base, head)
           status == {D!statusOrder[i] : i \in 1 .. 7}
           k(r) == D!rank(r.status, D!statusOrder)
           l(r) == D!rank(r.id, D!idOrder)
<1>1. \A r \in S : \E id \in D!Ids : r = D!rowOf(base, head, id) /\ r.status # "same"
  BY DEF D!changes, D!differs
<1>2. \A r \in S : r.id \in D!Ids /\ r = D!rowOf(base, head, r.id) /\ r.status \in status
  <2> SUFFICES ASSUME NEW r \in S
               PROVE  r.id \in D!Ids /\ r = D!rowOf(base, head, r.id) /\ r.status \in status
    OBVIOUS
  <2>1. PICK id \in D!Ids : r = D!rowOf(base, head, id) /\ r.status # "same"
    BY <1>1
  <2>2. r.id = id
    BY <2>1, RowIs
  <2>3. r.status \in {"added", "removed", "changed", "evidence-changed", "moved", "rerouted",
                      "geometry-changed"}
    BY <2>1, RowIs, StatusIs
  <2>4. status = {"added", "removed", "changed", "evidence-changed", "moved", "rerouted",
                  "geometry-changed"}
    BY DEF D!statusOrder
  <2> QED
    BY <2>1, <2>2, <2>3, <2>4
<1>3. \A r \in S : k(r) \in 1 .. 7
  <2>1. Len(D!statusOrder) = 7
    BY DEF D!statusOrder
  <2> QED
    BY <1>2, <2>1 DEF D!rank
<1>4. \A r \in S : l(r) \in 1 .. 4 /\ D!idOrder[l(r)] = r.id
  <2>1. Len(D!idOrder) = 4 /\ \A id \in D!Ids : \E i \in 1 .. 4 : D!idOrder[i] = id
    BY DEF D!idOrder, D!Ids
  <2> QED
    BY <1>2, <2>1 DEF D!rank
<1>5. \A r \in S : D!place(r) = 10 * k(r) + l(r)
  BY DEF D!place
<1> HIDE DEF k, l, S, status
<1>6. \A r \in S : D!place(r) \in Int
  BY <1>3, <1>4, <1>5
<1>7. \A r, q \in S : D!place(r) = D!place(q) => r = q
  <2> SUFFICES ASSUME NEW r \in S, NEW q \in S, D!place(r) = D!place(q)
               PROVE  r = q
    OBVIOUS
  <2>1. l(r) = l(q)
    <3>1. 10 * k(r) + l(r) = 10 * k(q) + l(q)
      BY <1>5
    <3>2. k(r) \in Int /\ k(q) \in Int /\ l(r) \in 1 .. 4 /\ l(q) \in 1 .. 4
      BY <1>3, <1>4
    <3> QED
      BY <3>1, <3>2
  <2> QED
    BY <1>2, <1>4, <2>1
<1> QED
  BY <1>6, <1>7 DEF S

\* There are as many rows as changes, and each change has its row.
LEMMA RowsAreChanges ==
  ASSUME NEW base, NEW head
  PROVE  LET s == D!architectureDeltaChangeRows(base, head)
             S == D!changes(base, head) IN
         /\ IsFiniteSet(S)
         /\ Len(s) = Cardinality(S)
         /\ Cardinality(S) = 0 => s = <<>>
         /\ D!ToSet(s) = S
<1> DEFINE s == D!architectureDeltaChangeRows(base, head)
           S == D!changes(base, head)
           n == Cardinality(S)
           some == {id \in D!Ids : D!differs(base, head, id)}
           g == [id \in some |-> D!rowOf(base, head, id)]
           at(i) == CHOOSE r \in S : Cardinality(D!before(r, S)) = i - 1
<1>1. IsFiniteSet(D!Ids)
  <2>1. {"a", "s"} = {"a"} \cup {"s"} /\ {"e", "b"} = {"e"} \cup {"b"}
    OBVIOUS
  <2>2. \A v : IsFiniteSet({v})
    BY FS_Singleton
  <2>3. IsFiniteSet({"a"} \cup {"s"}) /\ IsFiniteSet({"e"} \cup {"b"})
    BY <2>2, FS_AddElement
  <2>4. IsFiniteSet({"a", "s"} \cup {"e", "b"})
    BY <2>1, <2>3, FS_Union
  <2>5. D!Ids = {"a", "s"} \cup {"e", "b"}
    BY DEF D!Ids
  <2> QED
    BY <2>4, <2>5
<1>2. IsFiniteSet(some)
  BY <1>1, FS_Subset
<1>3. IsFiniteSet(S)
  <2>1. g \in Surjection(some, S)
    BY DEF Surjection, D!changes
  <2> HIDE DEF g, S, some
  <2> QED
    BY <1>2, <2>1, FS_Surjection
<1>4. n \in Nat
  BY <1>3, FS_CardinalityType
<1>5. s = [i \in 1 .. n |-> at(i)]
  BY DeltaCounts DEF D!architectureDeltaChangeRows
<1>6. /\ \A r \in S : D!place(r) \in Int
      /\ \A r, q \in S : D!place(r) = D!place(q) => r = q
  BY PlaceIs
<1> HIDE DEF S
<1>7. /\ \A i \in 1 .. n : \E r \in S : Cardinality(D!before(r, S)) = i - 1
      /\ \A r \in S : Cardinality(D!before(r, S)) + 1 \in 1 .. n
      /\ \A r, q \in S : Cardinality(D!before(r, S)) = Cardinality(D!before(q, S)) => r = q
  BY <1>3, <1>6, RanksAreNumbers
<1>8. \A i \in 1 .. n : at(i) \in S /\ Cardinality(D!before(at(i), S)) = i - 1
  BY <1>7
<1>9. \A r \in S : \E i \in 1 .. n : at(i) = r
  <2> SUFFICES ASSUME NEW r \in S
               PROVE  \E i \in 1 .. n : at(i) = r
    OBVIOUS
  <2> DEFINE i == Cardinality(D!before(r, S)) + 1
  <2>1. i \in 1 .. n
    BY <1>7
  <2>2. Cardinality(D!before(r, S)) \in Int
    BY <2>1, FS_CardinalityType, <1>3, FS_Subset DEF D!before
  <2>3. Cardinality(D!before(at(i), S)) = Cardinality(D!before(r, S))
    BY <1>8, <2>1, <2>2
  <2>4. at(i) = r
    BY <1>7, <1>8, <2>1, <2>3
  <2> QED
    BY <2>1, <2>4
<1> HIDE DEF at, n, s
<1>10. Len(s) = n /\ (n = 0 => s = <<>>)
  BY <1>4, <1>5
<1>11. D!ToSet(s) = S
  BY <1>5, <1>8, <1>9 DEF D!ToSet
<1> QED
  BY <1>3, <1>10, <1>11 DEF s, n, S

\* A comparison has a number of rows.
LEMMA RowsCounted ==
  Len(D!rows) \in Nat /\ (D!rows # <<>> => Len(D!rows) > 0)
<1> DEFINE S == D!changes(x1.base, x1.head)
<1>1. /\ IsFiniteSet(S) /\ Len(D!rows) = Cardinality(S)
      /\ Cardinality(S) = 0 => D!rows = <<>>
  BY RowsAreChanges DEF D!rows
<1>2. Cardinality(S) \in Nat
  BY <1>1, FS_CardinalityType
<1> HIDE DEF S
<1> QED
  BY <1>1, <1>2

\* What has not changed in any field is the same.
LEMMA UnlistedAreSame ==
  ASSUME NEW kind \in DOMAIN D!groups, NEW old, NEW new,
         NEW s \in {"changed", "evidence-changed", "moved", "rerouted", "geometry-changed", "same"},
         s = D!statusFor(D!fieldChanges(old, new, kind).classifications, kind)
  PROVE  /\ s = "same" => \A f \in D!fieldsOf(kind) : old[f] = new[f]
         /\ \A f \in D!fieldsOf(kind) \ D!fieldChanges(old, new, kind).changedFields :
               old[f] = new[f]
<1> DEFINE changed(c) == {f \in D!groups[kind][c] : old[f] # new[f]}
           classes == {c \in DOMAIN D!groups[kind] : changed(c) # {}}
<1>1. /\ D!fieldChanges(old, new, kind).classifications = classes
      /\ D!fieldChanges(old, new, kind).changedFields = UNION {changed(c) : c \in classes}
  BY DEF D!fieldChanges
<1>2. \A f \in D!fieldsOf(kind) : \E c \in DOMAIN D!groups[kind] : f \in D!groups[kind][c]
  BY DEF D!fieldsOf
<1>3. classes = {} => \A f \in D!fieldsOf(kind) : old[f] = new[f]
  BY <1>2
<1>4. DOMAIN D!groups[kind] \subseteq {"topology", "semantic", "scope", "evidence", "geometry"}
  BY DEF D!groups
<1>5. s = "same" => classes = {}
  <2>1. kind \in {"component", "connection", "boundary"}
    BY DEF D!groups
  <2>2. classes \subseteq {"topology", "semantic", "scope", "evidence", "geometry"}
    BY <1>4
  <2>3. s = D!statusFor(classes, kind)
    BY <1>1
  <2> HIDE DEF classes
  <2> QED
    BY <2>1, <2>2, <2>3 DEF D!statusFor
<1>6. \A f \in D!fieldsOf(kind) \ UNION {changed(c) : c \in classes} : old[f] = new[f]
  BY <1>2
<1> QED
  BY <1>1, <1>3, <1>5, <1>6

\* The list of changes is complete.
LEMMA RowsComplete ==
  ASSUME x1 \in Pairs
  PROVE  D!RowsRebuildHead
<1> DEFINE b == x1.base
           h == x1.head
           S == D!changes(b, h)
           listed(id) == {r \in S : r.id = id}
<1>1. D!ToSet(D!rows) = S
  BY RowsAreChanges DEF D!rows
<1> SUFFICES ASSUME NEW id \in D!Ids
             PROVE  h[id] = IF listed(id) = {} THEN b[id]
                            ELSE LET r == CHOOSE r \in listed(id) : TRUE IN
                                 CASE r.status = "removed" -> D!Absent
                                   [] r.status = "added" -> h[id]
                                   [] OTHER -> [f \in DOMAIN b[id] |->
                                        IF f \in r.changedFields THEN h[id][f] ELSE b[id][f]]
  BY <1>1 DEF D!RowsRebuildHead
<1> DEFINE kind == D!kindOf[id]
           row == D!rowOf(b, h, id)
           F == D!fieldsOf(kind)
<1>2. kind \in DOMAIN D!groups
  BY DEF D!Ids, D!kindOf, D!groups
<1>3. /\ b[id] = D!Absent \/ b[id] \in [F -> Int]
      /\ h[id] = D!Absent \/ h[id] \in [F -> Int]
  BY PairAssumption
<1>4. \A r \in S : r.id \in D!Ids /\ r = D!rowOf(b, h, r.id) /\ D!differs(b, h, r.id)
  BY RowIs DEF D!changes
<1>5. D!differs(b, h, id) => listed(id) = {row}
  <2>1. row.id = id
    BY RowIs
  <2>2. D!differs(b, h, id) => row \in S
    BY DEF D!changes
  <2> QED
    BY <1>4, <2>1, <2>2
<1>6. ~D!differs(b, h, id) => listed(id) = {}
  BY <1>4
<1>7. b[id] # D!Absent /\ h[id] # D!Absent =>
        /\ row.status \notin {"added", "removed"}
        /\ row.status = "same" => \A f \in F : b[id][f] = h[id][f]
        /\ \A f \in F \ row.changedFields : b[id][f] = h[id][f]
  BY <1>2, RowIs, StatusIs, UnlistedAreSame
<1>8. /\ b[id] = D!Absent => row.status = "added"
      /\ b[id] # D!Absent /\ h[id] = D!Absent => row.status = "removed"
  BY RowIs
<1> HIDE DEF b, h, row, F, kind, listed
<1>9. CASE ~D!differs(b, h, id)
  <2>1. b[id] = h[id]
    BY <1>3, <1>7, <1>8, <1>9 DEF D!differs, row
  <2> QED
    BY <1>6, <1>9, <2>1
<1>10. CASE D!differs(b, h, id)
  <2>1. (CHOOSE r \in listed(id) : TRUE) = row /\ listed(id) # {}
    BY <1>5, <1>10
  <2>2. b[id] # D!Absent /\ h[id] # D!Absent =>
          h[id] = [f \in DOMAIN b[id] |-> IF f \in row.changedFields THEN h[id][f] ELSE b[id][f]]
    BY <1>3, <1>7
  <2>3. b[id] # D!Absent \/ h[id] # D!Absent
    BY <1>10 DEF D!differs
  <2> QED
    BY <1>7, <1>8, <2>1, <2>2, <2>3
<1> QED
  BY <1>9, <1>10

\* What is stopped has no timer.
LEMMA StoppedIs ==
  ASSUME D!PlayInv
  PROVE  /\ D!stopped(x5) = [on |-> FALSE, token |-> x5.token + 1, timers |-> {}, handle |-> <<>>]
         /\ x5.token + 1 \in Nat
<1>1. x5.timers \ {x5.handle} = {}
  BY DEF D!PlayInv
<1>2. x5.token + 1 \in Nat
  BY DEF D!PlayInv
<1> QED
  BY <1>1, <1>2 DEF D!stopped

\* The page as it opens.
LEMMA DeltaInit ==
  ASSUME D!Init
  PROVE  D!IInv
<1>1. /\ x2 = "delta" /\ x3 = -1 /\ x4 = {}
      /\ x5 = [on |-> FALSE, token |-> 0, timers |-> {}, handle |-> <<>>]
  BY DEF D!Init
<1>2. D!PlayInv
  BY <1>1 DEF D!PlayInv
<1>3. D!Cardinality({}) = 0
  BY FS_EmptySet DEF D!Cardinality, Cardinality, D!IsFiniteSet, IsFiniteSet
<1>4. D!PlayerSound
  BY <1>1, <1>3, RowsCounted DEF D!PlayerSound, D!last
<1> QED
  BY <1>2, <1>4 DEF D!IInv

\* A stopped review shows a row or none.
LEMMA DeltaStopped ==
  ASSUME D!IInv, x1' = x1, x5' = D!stopped(x5), x3' \in -1 .. D!last,
         x4' = IF x3' = -1 THEN {} ELSE {x3'}
  PROVE  D!IInv'
<1>1. x5' = [on |-> FALSE, token |-> x5.token + 1, timers |-> {}, handle |-> <<>>]
      /\ x5.token + 1 \in Nat
  BY StoppedIs DEF D!IInv
<1>2. D!PlayInv'
  BY <1>1 DEF D!PlayInv
<1>3. D!Cardinality({}) = 0
  BY FS_EmptySet DEF D!Cardinality, Cardinality, D!IsFiniteSet, IsFiniteSet
<1>4. D!last' = D!last
  BY DEF D!last, D!rows
<1>5. D!PlayerSound'
  BY <1>1, <1>3, <1>4 DEF D!PlayerSound
<1> QED
  BY <1>2, <1>5 DEF D!IInv

\* From a row that is shown, a playback goes on or stops.
LEMMA DeltaPlays ==
  ASSUME x1' = x1, NEW p, NEW at \in Nat, at <= D!last, D!Select(at),
         p \in [on : {TRUE}, token : Nat, timers : {{}}, handle : {<<>>} \cup (Nat \X Int)],
         x5' = D!schedulePlayback(p, at)
  PROVE  D!IInv'
<1>1. D!last \in Int /\ D!last' = D!last
  BY RowsCounted DEF D!last, D!rows
<1>2. x2' = "delta" /\ x3' = at /\ x4' = {at}
  BY DEF D!Select
<1>3. /\ D!Cardinality({}) = 0
      /\ \A t : D!Cardinality({t}) = 1
  BY FS_EmptySet, FS_Singleton DEF D!Cardinality, Cardinality, D!IsFiniteSet, IsFiniteSet
<1>4. CASE at >= D!last
  <2>1. x5' = [on |-> FALSE, token |-> p.token + 1, timers |-> {}, handle |-> <<>>]
    BY <1>4 DEF D!schedulePlayback, D!stopped
  <2>2. D!PlayInv'
    BY <2>1 DEF D!PlayInv
  <2>3. D!PlayerSound'
    BY <1>1, <1>2, <1>3, <2>1 DEF D!PlayerSound
  <2> QED
    BY <2>2, <2>3 DEF D!IInv
<1>5. CASE ~(at >= D!last)
  <2> DEFINE shot == <<p.token, at>>
  <2>1. x5' = [on |-> TRUE, token |-> p.token, timers |-> {shot}, handle |-> shot]
    BY <1>5 DEF D!schedulePlayback
  <2>2. D!PlayInv'
    BY <1>2, <2>1 DEF D!PlayInv
  <2> HIDE DEF shot
  <2>3. D!Cardinality(x5'.timers) = 1 /\ x5'.on
    <3>1. x5'.timers = {shot} /\ x5'.on
      BY <2>1
    <3>2. D!Cardinality({shot}) = 1
      BY <1>3
    <3> QED
      BY <3>1, <3>2
  <2>4. at \in 0 .. (D!last - 1) /\ at # -1 /\ at \in -1 .. D!last
    BY <1>1, <1>5
  <2>5. D!PlayerSound'
    BY <1>1, <1>2, <2>3, <2>4 DEF D!PlayerSound
  <2> QED
    BY <2>2, <2>5 DEF D!IInv
<1> QED
  BY <1>4, <1>5

\* Review or Pause is pressed.
LEMMA DeltaStartReview ==
  ASSUME D!IInv, NEW reduced \in BOOLEAN, D!startReview(reduced)
  PROVE  D!IInv'
<1> DEFINE p == D!stopped(x5)
           on == [on |-> TRUE, token |-> p.token + 1, timers |-> p.timers, handle |-> p.handle]
<1>1. /\ x1' = x1 /\ D!rows # <<>> /\ D!last \in Nat
  BY RowsCounted DEF D!startReview, D!last
<1>2. CASE x5.on /\ x5' = p /\ UNCHANGED <<x2, x3, x4>>
  BY <1>1, <1>2, DeltaStopped DEF D!IInv, D!PlayerSound
<1>3. CASE D!Select(0) /\ x5' = p
  <2>1. x3' = 0 /\ x4' = {0}
    BY <1>3 DEF D!Select
  <2> QED
    BY <1>1, <1>3, <2>1, DeltaStopped
<1>4. CASE D!Select(0) /\ x5' = D!schedulePlayback(on, 0)
  <2>1. p = [on |-> FALSE, token |-> x5.token + 1, timers |-> {}, handle |-> <<>>]
        /\ x5.token + 1 \in Nat
    BY StoppedIs DEF D!IInv
  <2> HIDE DEF p
  <2>2. on = [on |-> TRUE, token |-> (x5.token + 1) + 1, timers |-> {}, handle |-> <<>>]
    BY <2>1
  <2>3. on \in [on : {TRUE}, token : Nat, timers : {{}}, handle : {<<>>} \cup (Nat \X Int)]
    BY <2>1, <2>2
  <2> HIDE DEF on
  <2>4. 0 \in Nat /\ 0 <= D!last
    BY <1>1
  <2> QED
    BY <1>1, <1>4, <2>3, <2>4, DeltaPlays
<1> QED
  BY <1>2, <1>3, <1>4 DEF D!startReview

\* The timer goes off: there is one, and it is the playback's.
LEMMA DeltaTick ==
  ASSUME D!IInv, NEW shot \in x5.timers, D!Tick(shot)
  PROVE  D!IInv'
<1> DEFINE p == [x5 EXCEPT !.timers = @ \ {shot}]
<1>1. /\ x5.on /\ x5.timers = {shot} /\ shot = <<x5.token, x3>> /\ x5.token \in Nat
      /\ x3 \in 0 .. (D!last - 1)
  BY DEF D!IInv, D!PlayInv, D!PlayerSound
<1>2. x1' = x1 /\ D!Select(x3 + 1) /\ x5' = D!schedulePlayback(p, x3 + 1)
  BY <1>1 DEF D!Tick
<1>3. p \in [on : {TRUE}, token : Nat, timers : {{}}, handle : {<<>>} \cup (Nat \X Int)]
  BY <1>1 DEF D!IInv, D!PlayInv
<1>4. D!last \in Int
  BY RowsCounted DEF D!last
<1> HIDE DEF p
<1>5. x3 + 1 \in Nat /\ x3 + 1 <= D!last
  BY <1>1, <1>4
<1> QED
  BY <1>2, <1>3, <1>5, DeltaPlays

\* A row is picked.
LEMMA DeltaPick ==
  ASSUME D!IInv, NEW i, D!Pick(i)
  PROVE  D!IInv'
<1>1. i \in 0 .. D!last /\ x1' = x1 /\ x5' = D!stopped(x5) /\ x3' = i /\ x4' = {i}
  BY DEF D!Pick, D!Select
<1>2. D!last \in Int
  BY RowsCounted DEF D!last
<1> QED
  BY <1>1, <1>2, DeltaStopped

\* Overview, a tab, or an interruption.
LEMMA DeltaRest ==
  ASSUME D!IInv, D!overview \/ (\E id \in {"base", "delta", "head"} : D!Tab(id)) \/ D!Interrupted
  PROVE  D!IInv'
<1>1. D!last \in Int /\ D!last >= -1
  BY RowsCounted DEF D!last
<1>2. /\ x1' = x1 /\ x5' = D!stopped(x5)
      /\ (x3' = -1 /\ x4' = {}) \/ (x3' = x3 /\ x4' = x4)
  BY DEF D!overview, D!Tab, D!Interrupted
<1>3. x3 \in -1 .. D!last /\ x4 = IF x3 = -1 THEN {} ELSE {x3}
  BY DEF D!IInv, D!PlayerSound
<1> QED
  BY <1>1, <1>2, <1>3, DeltaStopped

\* Every step of the page.
LEMMA DeltaStep ==
  ASSUME D!IInv, D!Next
  PROVE  D!IInv'
BY DeltaStartReview, DeltaTick, DeltaPick, DeltaRest DEF D!Next, D!Step

\* The frame of the part.
LEMMA DeltaStutter ==
  ASSUME D!IInv, UNCHANGED <<x1, x2, x3, x4, x5>>
  PROVE  D!IInv'
BY DEF D!IInv, D!PlayInv, D!PlayerSound, D!last, D!rows

\* Two snapshots stay the ones the page was built from.
LEMMA DeltaPair ==
  ASSUME D!Next
  PROVE  x1' = x1
BY DEF D!Next, D!Step, D!Tick, D!startReview, D!Pick, D!overview, D!Tab, D!Interrupted

\* What a reader is shown of a comparison is all that changed, one change at a time: the
\* listed changes turn the baseline into the current snapshot; a review that plays has one
\* timer, for the change shown, plays over the drawing and never past the last change, and
\* what is lit is the change shown: for any pair of snapshots and any number of presses
\* (architecture-delta.mjs, compareEntities and the script of the page).
THEOREM ReviewHolds == PartSpec => [](part = "delta" => D!ReviewFaithful)
<1> DEFINE I == part = "delta" => x1 \in Pairs /\ D!IInv
<1>1. PartInit => I
  <2>1. D!Init => x1 \in Pairs
    BY DEF D!Init
  <2> QED
    BY <2>1, DeltaInit DEF PartInit
<1>2. I /\ [PartNext]_partVars => I'
  <2>1. CASE part = "delta" /\ PartNext
    BY <2>1, DeltaStep, DeltaPair DEF PartNext
  <2>2. CASE part # "delta" /\ PartNext
    BY <2>2 DEF PartNext
  <2>3. CASE UNCHANGED partVars
    BY <2>3, DeltaStutter DEF partVars, slots
  <2> QED
    BY <2>1, <2>2, <2>3
<1>3. I => (part = "delta" => D!ReviewFaithful)
  BY RowsComplete DEF D!IInv, D!ReviewFaithful
<1> QED
  BY <1>1, <1>2, <1>3, PTL DEF PartSpec

\* What Archify says of files and documents is true, whichever of its parts runs.
THEOREM PartsHold == PartSpec => []PartsFaithful
<1>1. /\ part = "preview" => P!PreviewFaithful
      /\ part = "publish" => Q!PublishFaithful
      /\ part = "visual" => V!VisualFaithful
      /\ part = "ownership" => W!OwnershipFaithful
      /\ part = "evidence" => E!EvidenceFaithful
      /\ part = "commands" => C!ReportsFaithful
      /\ part = "delta" => D!ReviewFaithful
      => PartsFaithful
  BY DEF PartsFaithful
<1> QED
  BY <1>1, PreviewHolds, PublishHolds, VisualHolds, OwnershipHolds, EvidenceHolds, ReportsHold,
     ReviewHolds, PTL
=============================================================================
