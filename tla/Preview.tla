------------------------------ MODULE Preview ------------------------------
(***************************************************************************)
(* `archify preview' (archify/bin/preview.mjs): a source file that is      *)
(* edited at will, a child that delivers one candidate per generation, and *)
(* the verified artifact the page and the output file show.  Callbacks run *)
(* to their end; edits, the child's exit, timers and signals come between. *)
(***************************************************************************)
EXTENDS Integers

CONSTANTS Sources,   \* contents of the source file; "gone" when it cannot be read
          Art,       \* what each renders to; "none" when it does not validate
          MaxMoves   \* edits, faults, tamperings and stops

VARIABLES
    file,    \* [src, out, touched]: the source, the output file, the latter changed by others
    sight,   \* [queued, epoch, good, pending]: queuedHash, sourceEpoch, lastGoodSourceHash, pendingBuild
    timer,   \* the debounce timer: "none", "slow", "now"
    child,   \* the delivery in progress
    state,   \* what the page is sent; `of' is the source it speaks about
    buffer,  \* artifactBuffer
    frame,   \* the page: the revision it saw last, what its iframe shows
    stop,    \* the shutdown
    moves

vars == <<file, sight, timer, child, state, buffer, frame, stop, moves>>
Spend == moves < MaxMoves /\ moves' = moves + 1

NoChild == [runs |-> FALSE, hash |-> "none", epoch |-> 0, killed |-> FALSE]
Shown == <<state, buffer, frame>>

\* broadcast: the page loads the artifact of a revision it has not seen.
Publish(new) ==
    /\ state' = new
    /\ frame' = IF new.status = "verified" /\ new.revision # frame.revision
                THEN [revision |-> new.revision, art |-> "loading"] ELSE frame

\* queueStableBuild
Queue(s, hash, delay) == sight' = [s EXCEPT !.queued = hash] /\ timer' = delay

Init ==
    /\ \E s \in Sources :
          /\ file = [src |-> s, out |-> "none", touched |-> FALSE]
          /\ sight = [queued |-> s, epoch |-> 1, good |-> "none", pending |-> FALSE]
    /\ timer = "now" /\ child = NoChild
    /\ state = [status |-> "checking", of |-> "none", revision |-> 0, last |-> "none"]
    /\ buffer = "none" /\ frame = [revision |-> 0, art |-> "none"]
    /\ stop = [is |-> FALSE, done |-> FALSE, server |-> TRUE, drain |-> "none", staging |-> TRUE,
               seen |-> "none"]
    /\ moves = 0

-----------------------------------------------------------------------------
\* The file's author, and anything else that writes to the output.
Edit == /\ Spend
        /\ \E s \in Sources \ {file.src} : file' = [file EXCEPT !.src = s]
        /\ UNCHANGED <<sight, timer, child, Shown, stop>>

Tamper == /\ Spend /\ file.out # "none"
          /\ file' = [file EXCEPT !.out = "foreign", !.touched = TRUE]
          /\ UNCHANGED <<sight, timer, child, Shown, stop>>

\* observeSource, by the watcher or the poll.
observeSource ==
    /\ ~stop.is /\ file.src # sight.queued
    /\ Queue([sight EXCEPT !.epoch = @ + 1], file.src, "slow")
    /\ UNCHANGED <<file, child, Shown, stop, moves>>

\* launch: the source must be what was queued; then one build at a time.
launch ==
    /\ timer # "none" /\ ~stop.is
    /\ LET hash == file.src IN
       CASE hash # sight.queued ->
                Queue(sight, hash, "slow") /\ UNCHANGED <<child, state, frame>>
         [] hash = sight.queued /\ hash = sight.good ->
                /\ IF state.status # "verified" /\ state.last # "none"
                   THEN Publish([state EXCEPT !.status = "verified", !.of = hash])
                   ELSE UNCHANGED <<state, frame>>
                /\ timer' = "none" /\ UNCHANGED <<sight, child>>
         [] hash = sight.queued /\ hash # sight.good /\ child.runs ->
                /\ sight' = [sight EXCEPT !.pending = TRUE]
                /\ timer' = "none" /\ UNCHANGED <<child, state, frame>>
         [] OTHER ->
                /\ child' = [NoChild EXCEPT !.runs = TRUE, !.hash = hash, !.epoch = sight.epoch]
                /\ Publish([state EXCEPT !.status = "checking"])
                /\ timer' = "none" /\ UNCHANGED sight
    /\ UNCHANGED <<file, buffer, stop, moves>>

\* beginBuild when the snapshot cannot be written: the generation fails at once.
launchFails ==
    /\ Spend /\ timer # "none" /\ ~stop.is /\ ~child.runs
    /\ file.src = sight.queued /\ file.src # sight.good /\ file.src # "gone"
    /\ timer' = "none"
    /\ Publish([state EXCEPT !.status = "needs-fix", !.of = file.src])
    /\ UNCHANGED <<file, sight, child, buffer, stop>>

\* The child's close: afterwards a stale or superseded generation is built again.
Requeue(stale, superseded) ==
    IF stale \/ superseded \/ sight.pending
    THEN Queue([sight EXCEPT !.pending = FALSE,
                             !.epoch = IF superseded /\ ~stale THEN @ + 1 ELSE @], file.src, "now")
    ELSE UNCHANGED <<sight, timer>>

finishStop(s) == IF s.is /\ ~s.server THEN [s EXCEPT !.done = TRUE, !.staging = FALSE,
                                                      !.drain = "none"] ELSE s

Closed(ok) ==
    LET stale == child.epoch # sight.epoch
        art == Art[child.hash]
    IN  /\ child.runs /\ child' = NoChild
        /\ stop' = finishStop([stop EXCEPT !.drain = "none"])
        /\ IF stop.is THEN UNCHANGED <<file, sight, timer, Shown>>
           ELSE CASE stale -> Requeue(TRUE, FALSE) /\ UNCHANGED <<file, Shown>>
                  [] ~stale /\ ~ok ->
                        /\ Publish([state EXCEPT !.status = "needs-fix", !.of = child.hash])
                        /\ Requeue(FALSE, FALSE) /\ UNCHANGED <<file, buffer>>
                  [] ~stale /\ ok /\ file.src # child.hash ->
                        Requeue(FALSE, TRUE) /\ UNCHANGED <<file, Shown>>
                  [] OTHER ->
                        \* commitCandidate; the file is written unless it holds these bytes
                        /\ file' = [file EXCEPT !.out = art, !.touched = FALSE]
                        /\ buffer' = art
                        /\ LET same == state.last = art
                           IN  Publish([status |-> "verified", of |-> child.hash, last |-> art,
                                        revision |-> state.revision + (IF same THEN 0 ELSE 1)])
                        /\ IF sight.pending
                           THEN Queue([sight EXCEPT !.good = child.hash, !.pending = FALSE],
                                      file.src, "now")
                           ELSE sight' = [sight EXCEPT !.good = child.hash] /\ UNCHANGED timer

\* The delivery passes exactly when its snapshot renders and passes the checks.
Delivered == Closed(Art[child.hash] # "none" /\ ~child.killed) /\ UNCHANGED moves
Crashed == Spend /\ Closed(FALSE)

\* commitCandidate when the rename fails, or the path is not safe any more.
CommitFails ==
    /\ Spend /\ child.runs /\ ~stop.is /\ child.epoch = sight.epoch /\ file.src = child.hash
    /\ Art[child.hash] # "none" /\ child' = NoChild
    /\ stop' = [stop EXCEPT !.drain = "none"]
    /\ Publish([state EXCEPT !.status = "needs-fix", !.of = child.hash])
    /\ Requeue(FALSE, FALSE) /\ UNCHANGED <<file, buffer>>

\* The iframe asks for /artifact.html.
Load == /\ frame.art = "loading" /\ frame' = [frame EXCEPT !.art = buffer]
        /\ UNCHANGED <<file, sight, timer, child, state, buffer, stop, moves>>

\* stop(): the child is given time, then signalled; a forced stop kills it.
Stop(force) ==
    /\ Spend /\ ~stop.done
    /\ timer' = "none"
    /\ child' = [child EXCEPT !.killed = @ \/ (force /\ child.runs)]
    /\ stop' = LET s == [stop EXCEPT !.is = TRUE, !.seen = IF stop.is THEN @ ELSE file.out]
               IN  CASE child.runs /\ force -> [s EXCEPT !.drain = "none"]
                     [] child.runs /\ ~force -> [s EXCEPT !.drain = IF @ = "none" THEN "grace" ELSE @]
                     [] OTHER -> finishStop(s)
    /\ UNCHANGED <<file, sight, Shown>>

GraceOver == /\ stop.drain = "grace" /\ stop' = [stop EXCEPT !.drain = "kill"]
             /\ UNCHANGED <<file, sight, timer, child, Shown, moves>>
KillOver == /\ stop.drain = "kill" /\ stop' = [stop EXCEPT !.drain = "none"]
            /\ child' = [child EXCEPT !.killed = TRUE]
            /\ UNCHANGED <<file, sight, timer, Shown, moves>>

\* The server's last connection closes.
ServerClosed ==
    /\ stop.is /\ stop.server
    /\ stop' = IF child.runs THEN [stop EXCEPT !.server = FALSE]
               ELSE finishStop([stop EXCEPT !.server = FALSE])
    /\ UNCHANGED <<file, sight, timer, child, Shown, moves>>

Next == \/ Edit \/ Tamper \/ observeSource \/ launch \/ launchFails \/ Delivered \/ Crashed
        \/ CommitFails \/ Load \/ (\E f \in BOOLEAN : Stop(f)) \/ GraceOver \/ KillOver
        \/ ServerClosed

-----------------------------------------------------------------------------
\* Properties

\* With no build, timer or unseen edit left, what the page says is about the source as
\* it is: verified with its own artifact, or the failure of this very content.
Settled == ~stop.is /\ ~child.runs /\ timer = "none" /\ file.src = sight.queued
TellsTheSource ==
    Settled => /\ state.of = file.src /\ state.status \in {"verified", "needs-fix"}
               /\ state.status = "verified" => state.last = Art[file.src] /\ buffer = state.last

\* Only verified artifacts are shown, and the output file is the one served unless
\* someone else wrote to it.
OnlyVerified ==
    /\ state.status = "verified" => state.last # "none"
    /\ ~file.touched => file.out = buffer
    /\ frame.art \notin {"loading", buffer} => frame.revision < state.revision

\* Once stopping, nothing is published; the child is waited for with a timer set or a
\* kill sent; and the staging directory goes last.
StopsCleanly ==
    /\ stop.is /\ ~file.touched => file.out = stop.seen
    /\ stop.is /\ child.runs /\ ~child.killed => stop.drain # "none"
    /\ ~stop.staging <=> stop.done
    /\ stop.done => ~child.runs /\ ~stop.server

PreviewFaithful == TellsTheSource /\ OnlyVerified /\ StopsCleanly

-----------------------------------------------------------------------------
\* The inductive invariant behind PreviewFaithful

Artifacts == {Art[s] : s \in Sources} \cup {"none"}
Outputs == Artifacts \cup {"foreign"}

Files == [src : Sources, out : Outputs, touched : BOOLEAN]
Sights == [queued : Sources, epoch : Nat, good : Sources \cup {"none"}, pending : BOOLEAN]
Timers == {"none", "slow", "now"}
Builds == [runs : BOOLEAN, hash : Sources \cup {"none"}, epoch : Nat, killed : BOOLEAN]
States == [status : {"checking", "verified", "needs-fix"}, of : Sources \cup {"none"},
           revision : Nat, last : Artifacts]
Frames == [revision : Nat, art : Artifacts \cup {"loading"}]
Stops == [is : BOOLEAN, done : BOOLEAN, server : BOOLEAN, staging : BOOLEAN,
          drain : {"none", "grace", "kill"}, seen : Outputs]

TypeInv == /\ file \in Files /\ sight \in Sights /\ timer \in Timers /\ child \in Builds
           /\ state \in States /\ buffer \in Artifacts /\ frame \in Frames /\ stop \in Stops

\* A build of this generation is of what is queued, with no other one due.
ChildInv ==
    /\ child.runs => child.hash \in Sources /\ child.epoch <= sight.epoch
    /\ child.runs /\ child.epoch = sight.epoch => child.hash = sight.queued /\ timer = "none"
    /\ sight.pending /\ ~stop.is => child.runs /\ child.epoch # sight.epoch

\* What is kept is the last artifact that was verified, and it is of the good source.
KeptInv ==
    /\ state.last = buffer
    /\ sight.good # "none" => state.last = Art[sight.good] /\ state.last # "none"
    /\ state.status = "verified" => state.of = sight.good /\ sight.good # "none"
    /\ frame.revision = state.revision /\ frame.art \in {"loading", buffer}

\* With nothing under way the page speaks about what is queued.
RestInv ==
    ~stop.is /\ ~child.runs /\ timer = "none" =>
        state.of = sight.queued /\ state.status \in {"verified", "needs-fix"}

\* The output is the artifact that is kept, also while stopping.
OutInv ==
    /\ ~file.touched => file.out = buffer
    /\ stop.done => stop.is

IInv == TypeInv /\ ChildInv /\ KeptInv /\ RestInv /\ OutInv /\ StopsCleanly
=============================================================================
