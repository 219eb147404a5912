---------------------------- MODULE VisualCheck ----------------------------
(***************************************************************************)
(* `archify visual-check' (archify/bin/visual-check.mjs): Chrome behind a  *)
(* pair of pipes, one promise per command and per awaited event, and the   *)
(* captures and the receipt left beside the artifact.                      *)
(***************************************************************************)
EXTENDS Integers

CONSTANTS Views,     \* how many viewports and themes are inspected
          Captured,  \* those of which a picture is taken
          MaxMoves   \* what goes wrong, edits of the artifact

VARIABLES
    chrome,   \* "none", "up", "ending" (signalled), "gone"; "missing" when there is none
    cdp,      \* [pending, waiter]: commands awaiting an answer; the awaited load event
    run,      \* [step, view, seen]: where the inspection stands, the views observed
    loaded,   \* the promise of the load event: "none", "open", "kept", "lost", "crash"
    art,      \* [now, first]: the artifact's bytes, as they are and as they were read
    side,     \* the sidecars: [pictures, sheet, receipt]
    profile,  \* the temporary profile directory is there
    ended,    \* "none", "answered", "crashed": what the caller gets
    moves

vars == <<chrome, cdp, run, loaded, art, side, profile, ended, moves>>
Spend == moves < MaxMoves /\ moves' = moves + 1

\* A promise rejected with nobody to take it ends the process once the callbacks that
\* are due have run: no further event is served.
Alive == loaded # "crash"

\* An inspection's commands in their order; navigating also awaits the load event.
Following(step, view) ==
    CASE step = "attach" -> "size" [] step = "size" -> "navigate" [] step = "navigate" -> "load"
      [] step = "settle" -> "measure" [] step = "measure" /\ view \in Captured -> "capture"
      [] OTHER -> "observed"

Init ==
    /\ chrome = "none" /\ cdp = [pending |-> FALSE, waiter |-> FALSE]
    /\ run = [step |-> "start", view |-> 1, seen |-> {}]
    /\ loaded = "none" /\ art = [now |-> 1, first |-> 0]
    \* what an earlier run may have left
    /\ side \in [pictures : {{}, Captured}, sheet : BOOLEAN, receipt : {"none", "stale"}]
    /\ profile = FALSE /\ ended = "none" /\ moves = 0

\* cleanupCaptureSidecars, then the receipt.
Failed == /\ side' = [pictures |-> {}, sheet |-> FALSE, receipt |-> "fail"]
          /\ run' = [run EXCEPT !.step = "closing"]

-----------------------------------------------------------------------------
\* runVisualCheck up to the browser's constructor.
Start(found) ==
    /\ run.step = "start" /\ art' = [art EXCEPT !.first = art.now]
    /\ IF found
       THEN /\ side' = [pictures |-> {}, sheet |-> FALSE, receipt |-> "none"]
            /\ run' = [run EXCEPT !.step = "attach"] /\ chrome' = "up" /\ profile' = TRUE
            /\ cdp' = [cdp EXCEPT !.pending = TRUE] /\ UNCHANGED ended
       ELSE /\ side' = [pictures |-> {}, sheet |-> FALSE, receipt |-> "skipped"]
            /\ run' = [run EXCEPT !.step = "done"] /\ chrome' = "missing" /\ ended' = "answered"
            /\ UNCHANGED <<profile, cdp>>
    /\ UNCHANGED <<loaded, moves>>

\* send: a command is out until its answer, its error or its timeout.
Send ==
    /\ run.step \in {"size", "navigate", "settle", "measure", "capture"} /\ ~cdp.pending
    /\ chrome = "up"
    /\ cdp' = [pending |-> TRUE, waiter |-> cdp.waiter \/ run.step = "navigate"]
    /\ loaded' = IF run.step = "navigate" THEN "open" ELSE loaded
    /\ UNCHANGED <<chrome, run, art, side, profile, ended, moves>>

\* consume: the answer resolves its own command; a capture is written at once.
Answered ==
    /\ Alive /\ cdp.pending /\ chrome = "up"
    /\ cdp' = [cdp EXCEPT !.pending = FALSE]
    /\ run' = [run EXCEPT !.step = Following(run.step, run.view)]
    /\ side' = IF run.step = "capture" THEN [side EXCEPT !.pictures = @ \cup {run.view}] ELSE side
    /\ UNCHANGED <<chrome, loaded, art, profile, ended, moves>>

\* The load event; it may come before the answer to the navigation.
LoadEvent ==
    /\ Alive /\ cdp.waiter /\ chrome = "up"
    /\ cdp' = [cdp EXCEPT !.waiter = FALSE] /\ loaded' = "kept"
    /\ UNCHANGED <<chrome, run, art, side, profile, ended, moves>>

AwaitLoad ==
    /\ run.step = "load" /\ loaded = "kept"
    /\ run' = [run EXCEPT !.step = "settle"]
    /\ UNCHANGED <<chrome, cdp, loaded, art, side, profile, ended, moves>>

\* A rejected command, or metrics that are incomplete, end the inspection; the catch
\* of runVisualCheck follows at once.
Rejected ==
    /\ Alive /\ Spend /\ cdp.pending /\ Failed /\ cdp' = [cdp EXCEPT !.pending = FALSE]
    /\ UNCHANGED <<chrome, loaded, art, profile, ended>>

\* The load event does not come in time.  Its timer was set before that of the
\* navigation, so a navigation that hangs is given up here first.
LoadTimeout ==
    /\ Alive /\ Spend /\ cdp.waiter /\ cdp' = [cdp EXCEPT !.waiter = FALSE]
    /\ IF run.step = "load"
       THEN Failed /\ loaded' = "lost"
       ELSE loaded' = "crash" /\ UNCHANGED <<run, side>>
    /\ UNCHANGED <<chrome, art, profile, ended>>

\* failAll, when Chrome closes or a pipe breaks: the command is rejected first.  A
\* promise nobody awaits yet is rejected with nobody to take it.
Unawaited == IF cdp.waiter /\ run.step # "load" THEN "crash"
             ELSE IF cdp.waiter THEN "lost" ELSE loaded
ChromeDies ==
    /\ Alive /\ Spend /\ chrome = "up" /\ chrome' = "gone"
    /\ cdp' = [pending |-> FALSE, waiter |-> FALSE] /\ loaded' = Unawaited
    /\ IF cdp.pending \/ run.step = "load" THEN Failed ELSE UNCHANGED <<run, side>>
    /\ UNCHANGED <<art, profile, ended>>

\* A command to a Chrome that is gone fails when it is written.
SendFails ==
    /\ run.step \in {"size", "navigate", "settle", "measure", "capture"} /\ ~cdp.pending
    /\ chrome = "gone" /\ Failed
    /\ loaded' = IF run.step = "navigate" THEN "crash" ELSE loaded
    /\ UNCHANGED <<chrome, cdp, art, profile, ended, moves>>

\* A view is done; after the last one the artifact must be the one that was read.
Observed ==
    /\ run.step = "observed"
    /\ LET seen == run.seen \cup {run.view} IN
       IF run.view < Views
       THEN /\ run' = [step |-> "size", view |-> run.view + 1, seen |-> seen]
            /\ loaded' = "none" /\ UNCHANGED side
       ELSE /\ IF art.now # art.first THEN Failed
               ELSE \E ok \in {"pass", "fail"} :
                        /\ side' = [side EXCEPT !.sheet = TRUE, !.receipt = ok]
                        /\ run' = [run EXCEPT !.step = "closing", !.seen = seen]
            /\ UNCHANGED loaded
    /\ UNCHANGED <<chrome, cdp, art, profile, ended, moves>>

\* close: what is pending is rejected and Chrome is told to end ...
Close ==
    /\ run.step = "closing"
    /\ run' = [run EXCEPT !.step = "closed"]
    /\ cdp' = [pending |-> FALSE, waiter |-> FALSE]
    /\ loaded' = IF cdp.waiter THEN "crash" ELSE loaded
    /\ chrome' = IF chrome = "up" THEN "ending" ELSE chrome
    /\ UNCHANGED <<art, side, profile, ended, moves>>

\* ... it exits or is killed, the profile goes, and the receipt is printed.
Done ==
    /\ run.step = "closed" /\ Alive
    /\ chrome' = "gone" /\ profile' = FALSE /\ ended' = "answered"
    /\ run' = [run EXCEPT !.step = "done"]
    /\ UNCHANGED <<cdp, loaded, art, side, moves>>

\* The end of the process: the catch and the start of close have run when they were due.
Crash ==
    /\ ~Alive /\ ended = "none" /\ run.step # "closing"
    /\ ended' = "crashed" /\ run' = [run EXCEPT !.step = "done"]
    /\ UNCHANGED <<chrome, cdp, loaded, art, side, profile, moves>>

Edit == /\ Spend /\ Alive /\ run.step # "done" /\ art' = [art EXCEPT !.now = @ + 1]
        /\ UNCHANGED <<chrome, cdp, run, loaded, side, profile, ended>>

Next == \/ (\E f \in BOOLEAN : Start(f)) \/ Send \/ Answered \/ LoadEvent \/ AwaitLoad \/ Rejected
        \/ LoadTimeout \/ ChromeDies \/ SendFails \/ Observed \/ Close \/ Done \/ Crash \/ Edit

-----------------------------------------------------------------------------
\* Properties

\* The receipt left behind is this run's; a verdict has every view and every picture
\* behind it, taken of the artifact that was read; a failure leaves no picture.
ReceiptTrue ==
    run.step \in {"closing", "closed"} \/ ended = "answered" =>
        /\ side.receipt \notin {"none", "stale"}
        /\ side.sheet => run.seen = 1..Views /\ side.pictures = Captured
        /\ ~side.sheet => side.pictures = {} /\ side.receipt \in {"fail", "skipped"}

\* An answered call leaves no command waiting, no Chrome running and no profile.
LeavesNothing ==
    ended = "answered" => ~cdp.pending /\ ~cdp.waiter /\ chrome \in {"gone", "missing"} /\ ~profile

VisualFaithful == ReceiptTrue /\ LeavesNothing

-----------------------------------------------------------------------------
\* The inductive invariant behind VisualFaithful

Awaiting == {"attach", "size", "navigate", "settle", "measure", "capture"}
Steps == Awaiting \cup {"start", "load", "observed", "closing", "closed", "done"}

TypeInv ==
    /\ chrome \in {"none", "up", "ending", "gone", "missing"}
    /\ cdp \in [pending : BOOLEAN, waiter : BOOLEAN]
    /\ run \in [step : Steps, view : 1..Views, seen : SUBSET (1..Views)]
    /\ loaded \in {"none", "open", "kept", "lost", "crash"}
    /\ art \in [now : Nat, first : Nat]
    /\ side \in [pictures : SUBSET Captured, sheet : BOOLEAN,
                 receipt : {"none", "stale", "skipped", "fail", "pass"}]
    /\ profile \in BOOLEAN /\ ended \in {"none", "answered", "crashed"}

\* Before the inspection there is no browser; commands are out only while one is awaited.
BrowserInv ==
    /\ run.step = "start" => /\ ~cdp.waiter /\ ~profile
                             /\ run.view = 1 /\ run.seen = {} /\ ended = "none"
    /\ cdp.pending => run.step \in Awaiting \/ ended = "crashed"
    /\ run.step = "closed" => ~cdp.waiter
    /\ ended # "none" => run.step = "done"
    /\ ended = "crashed" => ~Alive

\* During it the views before the present one are seen and their pictures taken.
ProgressInv ==
    /\ run.step \in Awaiting \cup {"load", "observed"} => run.seen = 1..(run.view - 1) /\ ~side.sheet
    /\ run.step \in Awaiting \cup {"load"} => side.pictures = Captured \cap (1..(run.view - 1))
    /\ run.step = "observed" => side.pictures = Captured \cap (1..run.view)
    /\ run.step = "capture" => run.view \in Captured

IInv == TypeInv /\ BrowserInv /\ ProgressInv /\ ReceiptTrue /\ LeavesNothing
=============================================================================
