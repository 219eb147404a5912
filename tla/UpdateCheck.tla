----------------------------- MODULE UpdateCheck -----------------------------
(***************************************************************************)
(* The update check of the bundled diagram skill                           *)
(* (archify/scripts/check-update.mjs): processes that share a cache        *)
(* directory and nothing else.  A call reserves a generation, holds the    *)
(* directory `active-claim' while its lease lasts, fences the generations  *)
(* below its own and commits a new state as a directory of its own.  Every *)
(* file-system call that another process can see is one step.              *)
(***************************************************************************)
EXTENDS Integers, FiniteSets

CONSTANTS Procs,      \* processes; each makes one call
          MaxGen,     \* generations ever reserved
          MaxTries,   \* attempts to promote a claim (8)
          MaxDigests, \* digests the bounded state file can hold
          MaxTime,    \* check intervals that pass
          MaxMoves    \* crashes, expired leases, releases published

ASSUME UpdateAssumption ==
    MaxGen \in Nat /\ MaxTries \in Nat /\ MaxDigests \in Nat /\ MaxTime \in Nat /\ MaxMoves \in Nat

Gens == 1..MaxGen
NoGen == 0
Digests == 0..MaxMoves + 1     \* releases; 0 is the one installed

VARIABLES
    op,       \* per generation: the directory's name, its owner file, its lease, its state
    active,   \* the generation whose claim is `active-claim'
    retired,  \* the generations whose claim was put away
    proc,     \* the calls
    release,  \* the newest release the manifest names
    clock,
    told,     \* history: digests some call announced
    heard,    \* history: digests whose acknowledgement was confirmed
    moves

vars == <<op, active, retired, proc, release, clock, told, heard, moves>>
files == <<op, active, retired>>
history == <<told, heard>>
world == <<release, clock, moves>>
Spend == moves < MaxMoves /\ moves' = moves + 1

-----------------------------------------------------------------------------
\* States of the cache

emptyState == [candidate |-> 0, next |-> 0, offered |-> {}, acked |-> {}]

\* encodeRecoverableState: the file is bounded, also after acknowledging anything in it.
Fits(s) == Cardinality(s.offered) + Cardinality(s.acked) <= MaxDigests

\* normalizeState: a candidate newer than the installed version was offered or acknowledged.
Readable(s) == Fits(s) /\ (s.candidate > 0 => s.candidate \in s.offered \cup s.acked)

stateAfterAcknowledgement(s, d) ==
    [s EXCEPT !.offered = @ \ {d}, !.acked = @ \cup {d}]

\* The next check is put off: the lengths of the delays are not told apart.
stateAfterFailedCheck(s, now) == [s EXCEPT !.next = now + 1]

\* A mutant: the candidate is stored though its digest does not fit.
stateAfterCheck_full(s, d, now) ==
    [s EXCEPT !.candidate = d, !.next = now + 1, !.offered = IF d > 0 THEN @ \cup {d} ELSE @]

\* A check that got a manifest.  Without room for one more digest the candidate is
\* withdrawn and the check counts as failed.
stateAfterCheck(s, d, now) ==
    LET offer == d > 0 /\ d \notin s.acked
        next == [s EXCEPT !.candidate = d, !.next = now + 1,
                          !.offered = IF offer THEN @ \cup {d} ELSE @]
    IN  IF Fits(next) THEN next ELSE [stateAfterFailedCheck(s, now) EXCEPT !.candidate = 0]

\* A mutant: announced though it was acknowledged.
resultForCandidate_again(s) == IF s.candidate > 0 THEN "notified" ELSE "silent"

\* resultForCandidate: announced until it is acknowledged.
resultForCandidate(s) ==
    IF s.candidate > 0 /\ s.candidate \notin s.acked THEN "notified" ELSE "silent"

Fresh(s, now) == s.next > now

\* readState: the highest committed generation that can be read.
CommittedGens == {g \in Gens : op[g].is = "committed" /\ Readable(op[g].state)}
readState == IF CommittedGens = {} THEN emptyState
             ELSE op[CHOOSE g \in CommittedGens : \A h \in CommittedGens : h <= g].state

-----------------------------------------------------------------------------
\* The directory

\* operationIsActive: its lease runs.
Active(g) == op[g].is = "pending" /\ op[g].fresh

\* inspectActiveClaim: busy while the operation that holds it is pending and active.
ClaimState == CASE active = NoGen -> "absent"
                [] active # NoGen /\ Active(active) -> "busy"
                [] OTHER -> "releasable"

ownsClaim(p) == active = proc[p].gen /\ Active(active)
Superseded(g) == \E h \in Gens : h > g /\ op[h].is # "free"

Idle == [pc |-> "start", call |-> "none", d |-> 0, gen |-> NoGen, seen |-> NoGen, tries |-> 0,
         got |-> 0, new |-> emptyState, low |-> {}, now |-> 0, result |-> "none", before |-> {}]

At(p, pc) == proc[p].pc = pc
Goto(p, pc) == proc' = [proc EXCEPT ![p].pc = pc]

\* A call that ends keeps only what it answered.
Answer(p, r, d) ==
    /\ proc' = [proc EXCEPT ![p] = [Idle EXCEPT !.pc = "done", !.result = r, !.d = d,
                                                !.before = proc[p].before]]
    /\ told' = IF r = "notified" THEN told \cup {d} ELSE told
    /\ heard' = IF r = "acknowledged" THEN heard \cup {d} ELSE heard

AnswerFrom(p, s) == Answer(p, resultForCandidate(s), s.candidate)

\* A check that lost the claim to another call answers from the cache, if what is
\* cached was offered; an acknowledgement tries again until its time is up.
Lose(p) ==
    IF proc[p].call = "check"
    THEN LET s == readState
         IN  IF s.candidate \in s.offered THEN AnswerFrom(p, s) ELSE Answer(p, "busy", 0)
    ELSE \/ Answer(p, "busy", 0)
         \/ /\ proc' = [proc EXCEPT ![p] = [Idle EXCEPT !.pc = "acquire", !.call = "ack",
                                            !.d = proc[p].d, !.before = proc[p].before]]
            /\ UNCHANGED history

Cut(p) == IF proc[p].call = "check" THEN Answer(p, "busy", 0) ELSE Lose(p)

\* transitionOperation: a rename; the directory may have been fenced.
Renamed(g, kind) == IF op[g].is = "pending" THEN [op EXCEPT ![g].is = kind] ELSE op

Init ==
    /\ op = [g \in Gens |-> [is |-> "free", owner |-> FALSE, fresh |-> TRUE, state |-> emptyState]]
    /\ active = NoGen /\ retired = {}
    /\ proc = [p \in Procs |-> Idle]
    /\ release = 1 /\ clock = 0 /\ told = {} /\ heard = {} /\ moves = 0

-----------------------------------------------------------------------------
\* Calls

\* checkForUpdate: a state that is fresh enough answers at once.
Check(p) ==
    /\ At(p, "start")
    /\ LET begun == [Idle EXCEPT !.call = "check", !.now = clock, !.before = heard]
       IN  IF Fresh(readState, clock)
           THEN /\ proc' = [proc EXCEPT ![p] = [begun EXCEPT !.pc = "done",
                                !.result = resultForCandidate(readState), !.d = readState.candidate]]
                /\ told' = IF resultForCandidate(readState) = "notified"
                           THEN told \cup {readState.candidate} ELSE told
           ELSE proc' = [proc EXCEPT ![p] = [begun EXCEPT !.pc = "acquire"]] /\ UNCHANGED told
    /\ UNCHANGED <<files, heard, world>>

\* acknowledgeUpdate of something that was announced, or of anything.
Acknowledge(p, d) ==
    /\ At(p, "start") /\ d > 0
    /\ proc' = [proc EXCEPT ![p] = [Idle EXCEPT !.pc = "acquire", !.call = "ack", !.d = d,
                                                !.before = heard]]
    /\ UNCHANGED <<files, history, world>>

\* acquireOperation: not while a claim is held or an operation is pending.
Acquire(p) ==
    /\ At(p, "acquire")
    /\ IF ClaimState = "busy" THEN Lose(p) ELSE Goto(p, "pendings") /\ UNCHANGED history
    /\ UNCHANGED <<files, world>>

NonePending(p) ==
    /\ At(p, "pendings")
    /\ IF \E g \in Gens : Active(g) THEN Lose(p) ELSE Goto(p, "reserve") /\ UNCHANGED history
    /\ UNCHANGED <<files, world>>

\* reserveOperation: the lowest generation nobody has; making its directory decides.
Reserve(p) ==
    /\ At(p, "reserve")
    /\ \E g \in Gens :
          /\ op[g].is = "free" /\ \A h \in 1..(g - 1) : op[h].is # "free"
          /\ op' = [op EXCEPT ![g].is = "reserved"]
          /\ proc' = [proc EXCEPT ![p].gen = g, ![p].pc = "pending"]
    /\ UNCHANGED <<active, retired, history, world>>

MakePending(p) ==
    /\ At(p, "pending")
    /\ op' = [op EXCEPT ![proc[p].gen].is = "pending", ![proc[p].gen].fresh = TRUE]
    /\ Goto(p, "owner")
    /\ UNCHANGED <<active, retired, history, world>>

\* The owner file; a directory that was fenced meanwhile cannot take it.
WriteOwner(p) ==
    /\ At(p, "owner")
    /\ LET g == proc[p].gen IN
       IF op[g].is = "pending"
       THEN op' = [op EXCEPT ![g].owner = TRUE, ![g].fresh = TRUE] /\ Goto(p, "superseded")
            /\ UNCHANGED history
       ELSE UNCHANGED op /\ Lose(p)
    /\ UNCHANGED <<active, retired, world>>

\* Someone came later: the older one gives up.
GiveWay(p) ==
    /\ At(p, "superseded")
    /\ IF Superseded(proc[p].gen) \/ proc[p].tries >= MaxTries
       THEN Goto(p, "lost") ELSE Goto(p, "inspect")
    /\ UNCHANGED <<files, history, world>>

\* cancelOperation, then the call is lost; a check that came as far as its commit
\* does not look at the cache again.
Cancel(p) ==
    /\ At(p, "lost") \/ At(p, "cut")
    /\ op' = Renamed(proc[p].gen, "cancelled")
    /\ IF At(p, "cut") THEN Cut(p) ELSE Lose(p)
    /\ UNCHANGED <<active, retired, world>>

\* A mutant: a claim that is held is taken from an older operation.
Inspect_busy(p) ==
    /\ At(p, "inspect")
    /\ proc' = [proc EXCEPT ![p].seen = active,
                            ![p].pc = CASE ClaimState = "absent" -> "promote"
                                        [] active # NoGen /\ active < proc[p].gen -> "retire"
                                        [] OTHER -> "lost"]
    /\ UNCHANGED <<files, history, world>>

\* promoteOperationClaim: one look at the claim.
Inspect(p) ==
    /\ At(p, "inspect")
    /\ proc' = [proc EXCEPT ![p].seen = active,
                            ![p].pc = CASE ClaimState = "absent" -> "promote"
                                        [] ClaimState = "releasable" /\ active < proc[p].gen -> "retire"
                                        [] OTHER -> "lost"]
    /\ UNCHANGED <<files, history, world>>

\* retireActiveClaim: the claim that was seen is still the one there.  Another one
\* in its place ends the call with its operation left pending.
Retire(p) ==
    /\ At(p, "retire")
    /\ CASE active = proc[p].seen -> Goto(p, "moveaway") /\ UNCHANGED history
         [] active = NoGen -> proc' = [proc EXCEPT ![p].pc = "superseded", ![p].tries = @ + 1]
                              /\ UNCHANGED history
         [] OTHER -> Answer(p, "unavailable", 0)
    /\ UNCHANGED <<files, world>>

\* A mutant: one place for all claims put away.
MoveAway_shared(p) ==
    /\ At(p, "moveaway")
    /\ IF active = NoGen
       THEN /\ proc' = [proc EXCEPT ![p].pc = "superseded", ![p].tries = @ + 1]
            /\ UNCHANGED <<active, retired>>
       ELSE /\ active' = NoGen /\ retired' = retired \cup {proc[p].seen}
            /\ Goto(p, "gone")
    /\ UNCHANGED <<op, history, world>>

\* The rename of whatever is there now, into a directory named after the claim that
\* was seen: it fails where that one was put away already.
MoveAway(p) ==
    /\ At(p, "moveaway")
    /\ IF active = NoGen \/ proc[p].seen \in retired
       THEN /\ proc' = [proc EXCEPT ![p].pc = "superseded", ![p].tries = @ + 1]
            /\ UNCHANGED <<active, retired>>
       ELSE /\ active' = NoGen /\ retired' = retired \cup {proc[p].seen}
            /\ Goto(p, "gone")
    /\ UNCHANGED <<op, history, world>>

\* After the rename the name must be free: a claim promoted meanwhile ends the call.
Gone(p) ==
    /\ At(p, "gone")
    /\ IF active = NoGen
       THEN proc' = [proc EXCEPT ![p].pc = "superseded", ![p].tries = @ + 1] /\ UNCHANGED history
       ELSE Answer(p, "unavailable", 0)
    /\ UNCHANGED <<files, world>>

\* The prepared claim is renamed to `active-claim'; then the own lease is looked at.
Promote(p) ==
    /\ At(p, "promote")
    /\ IF active = NoGen
       THEN active' = proc[p].gen /\ Goto(p, "promoted")
       ELSE UNCHANGED active
            /\ proc' = [proc EXCEPT ![p].pc = "superseded", ![p].tries = @ + 1]
    /\ UNCHANGED <<op, retired, history, world>>

Promoted(p) ==
    /\ At(p, "promoted")
    /\ Goto(p, CASE ~Active(proc[p].gen) -> "lost"
                 [] proc[p].call = "check" -> "reread"
                 [] OTHER -> "owns1")
    /\ UNCHANGED <<files, history, world>>

\* A check that finds the cache fresh by now answers from it.
Reread(p) ==
    /\ At(p, "reread")
    /\ IF Fresh(readState, proc[p].now)
       THEN op' = Renamed(proc[p].gen, "cancelled") /\ AnswerFrom(p, readState)
       ELSE UNCHANGED <<op, history>> /\ Goto(p, "owns")
    /\ UNCHANGED <<active, retired, world>>

\* The claim is still held: before the request, and before and after the fence.
Owns(p) ==
    /\ \E from \in {"owns", "owns1", "owns2"} :
          /\ At(p, from)
          /\ Goto(p, IF ~ownsClaim(p) THEN IF from = "owns" THEN "lost" ELSE "cut"
                      ELSE CASE from = "owns" -> "fetch" [] from = "owns1" -> "list"
                             [] OTHER -> "mutate")
    /\ UNCHANGED <<files, history, world>>

\* fetchCandidate: the manifest, or nothing.
Fetch(p) ==
    /\ At(p, "fetch")
    /\ \E got \in {NoGen, release} :
          proc' = [proc EXCEPT ![p].got = got, ![p].pc = "owns1"]
    /\ UNCHANGED <<files, history, world>>

\* fenceLowerOperations: the pending ones below, listed once and renamed one by one.
List(p) ==
    /\ At(p, "list")
    /\ LET low == {g \in 1..(proc[p].gen - 1) : op[g].is = "pending"}
       IN  proc' = [proc EXCEPT ![p].low = low, ![p].pc = IF low = {} THEN "owns2" ELSE "fence"]
    /\ UNCHANGED <<files, history, world>>

\* A mutant: the operations below keep their directories.
Fence_none(p) ==
    /\ At(p, "fence")
    /\ proc' = [proc EXCEPT ![p].low = {}, ![p].pc = "owns2"]
    /\ UNCHANGED <<files, history, world>>

Fence(p) ==
    /\ At(p, "fence")
    /\ LET g == CHOOSE x \in proc[p].low : \A y \in proc[p].low : x <= y
       IN  /\ op' = Renamed(g, "fenced")
           /\ proc' = [proc EXCEPT ![p].low = @ \ {g},
                                   ![p].pc = IF proc[p].low = {g} THEN "owns2" ELSE "fence"]
    /\ UNCHANGED <<active, retired, history, world>>

\* commitOperation reads the state behind the fence and works out the next one.
Mutate(p) ==
    /\ At(p, "mutate")
    /\ LET s == readState
           d == proc[p].d
           write(n) == proc' = [proc EXCEPT ![p].new = n, ![p].pc = "commit"]
                       /\ UNCHANGED <<op, history>>
       IN  CASE proc[p].call = "ack" /\ d \notin s.offered \cup s.acked ->
                    op' = Renamed(proc[p].gen, "cancelled") /\ Answer(p, "unknown", 0)
             [] proc[p].call = "ack" /\ d \in s.offered \cup s.acked ->
                    write(stateAfterAcknowledgement(s, d))
             [] proc[p].call = "check" /\ proc[p].got = 0 ->
                    write(stateAfterFailedCheck(s, proc[p].now))
             [] OTHER -> write(stateAfterCheck(s, proc[p].got, proc[p].now))
    /\ UNCHANGED <<active, retired, world>>

\* The state file and the rename to committed: neither works once it is fenced.
Commit(p) ==
    /\ At(p, "commit")
    /\ LET g == proc[p].gen
           n == proc[p].new
       IN  IF op[g].is = "pending"
           THEN /\ op' = [op EXCEPT ![g].is = "committed", ![g].state = n]
                /\ CASE proc[p].call = "ack" -> Answer(p, "acknowledged", proc[p].d)
                     [] proc[p].call = "check" /\ (proc[p].got = 0 \/ n.candidate = 0) ->
                            Answer(p, "silent", 0)
                     [] OTHER -> AnswerFrom(p, n)
           ELSE UNCHANGED op /\ Cut(p)
    /\ UNCHANGED <<active, retired, world>>

-----------------------------------------------------------------------------
\* The surroundings

\* Thirty seconds without a commit: the process may be dead, or slow.
ExpireLease(g) ==
    /\ Spend /\ Active(g)
    /\ op' = [op EXCEPT ![g].fresh = FALSE]
    /\ UNCHANGED <<active, retired, proc, history, release, clock>>

Crash(p) ==
    /\ Spend /\ proc[p].pc \notin {"start", "done", "dead"}
    /\ proc' = [proc EXCEPT ![p] = [Idle EXCEPT !.pc = "dead"]]
    /\ UNCHANGED <<files, history, release, clock>>

Publish ==
    /\ Spend /\ release' = release + 1
    /\ UNCHANGED <<files, proc, history, clock>>

Tick ==
    /\ clock < MaxTime /\ clock' = clock + 1
    /\ UNCHANGED <<files, proc, history, release, moves>>

\* The next call, by a process that ended its last one.
Again(p) ==
    /\ At(p, "done") /\ \E g \in Gens : op[g].is = "free"
    /\ proc' = [proc EXCEPT ![p] = Idle]
    /\ UNCHANGED <<files, history, world>>

Step(p) ==
    \/ Check(p) \/ (\E d \in Digests : Acknowledge(p, d))
    \/ Acquire(p) \/ NonePending(p) \/ Reserve(p) \/ MakePending(p) \/ WriteOwner(p)
    \/ GiveWay(p) \/ Cancel(p) \/ Inspect(p) \/ Retire(p) \/ MoveAway(p) \/ Gone(p)
    \/ Promote(p) \/ Promoted(p) \/ Reread(p) \/ Owns(p) \/ Fetch(p)
    \/ List(p) \/ Fence(p) \/ Mutate(p) \/ Commit(p)
    \/ Crash(p) \/ Again(p)

Next == (\E p \in Procs : Step(p)) \/ (\E g \in Gens : ExpireLease(g)) \/ Publish \/ Tick

Spec == Init /\ [][Next]_vars

-----------------------------------------------------------------------------
\* Properties

States == [candidate : Digests, next : 0..MaxTime + 1, offered : SUBSET Digests,
           acked : SUBSET Digests]

\* Every committed state can be read back: no commit sends the cache back to an
\* older one (commitOperation's encodeRecoverableState against normalizeState).
TypeOK ==
    /\ \A g \in Gens : op[g].state \in States
    /\ active \in Gens \cup {NoGen} /\ retired \subseteq Gens
    /\ \A g \in Gens : op[g].is = "committed" => Readable(op[g].state)

\* What was announced can be acknowledged, and what was acknowledged stays so, in
\* whatever order processes lose leases, crash and commit (commitOperation).
NothingLost ==
    /\ told \subseteq readState.offered \cup readState.acked
    /\ heard \subseteq readState.acked

\* A call begun after an acknowledgement was confirmed never announces the same
\* release again (resultForCandidate over every path that answers).
NoNagging == \A p \in Procs : proc[p].result = "notified" => proc[p].d \notin proc[p].before

\* Two processes that both hold a running lease never ask the release server at the
\* same time (operationOwnsActiveClaim before fetchCandidate).
SingleFlight ==
    \A p, q \in Procs : p # q /\ At(p, "fetch") /\ At(q, "fetch") =>
                            ~(Active(proc[p].gen) /\ Active(proc[q].gen))

\* No process puts away the claim of an operation whose lease runs, not even one that
\* looked at an older claim before (retireActiveClaim's directory per claim).
LiveClaimKept == [][active # NoGen /\ active' # active => ~Active(active)]_vars

-----------------------------------------------------------------------------
\* The inductive invariant

Kinds == {"free", "reserved", "pending", "committed", "cancelled", "fenced"}

\* A call has a generation from `pending' on; past `superseded' nobody had come later.
Past == {"inspect", "retire", "moveaway", "gone", "promote", "promoted", "reread", "owns",
         "owns1", "owns2", "fetch", "list", "fence", "mutate", "commit"}
Held == Past \cup {"pending", "owner", "superseded", "lost", "cut"}
Fenced == {"fence", "owns2", "mutate", "commit"}
PCs == Held \cup {"start", "acquire", "pendings", "reserve", "done", "dead"}

Calls == [pc : PCs, call : {"none", "check", "ack"}, d : Digests, gen : Gens \cup {NoGen},
          seen : Gens \cup {NoGen}, tries : Nat, got : Digests, new : States, low : SUBSET Gens,
          now : 0..MaxTime,
          result : {"none", "notified", "silent", "busy", "acknowledged", "unknown", "unavailable"},
          before : SUBSET Digests]

Ops == [Gens -> [is : Kinds, owner : BOOLEAN, fresh : BOOLEAN, state : States]]

Typed ==
    /\ op \in Ops
    /\ active \in Gens \cup {NoGen} /\ retired \in SUBSET Gens
    /\ proc \in [Procs -> Calls]
    /\ moves \in 0..MaxMoves /\ release \in 1..(moves + 1) /\ clock \in 0..MaxTime
    /\ told \in SUBSET Digests /\ heard \in SUBSET Digests
    /\ \A g \in Gens : Readable(op[g].state)
    /\ \A p \in Procs : Readable(proc[p].new)

\* Whose generation, whose claim: what was seen releasable stays so, and is put away once.
Holds(p) ==
    /\ proc[p].pc \in Held => proc[p].gen # NoGen
    /\ proc[p].gen # NoGen => op[proc[p].gen].is # "free"
    /\ proc[p].pc = "pending" => op[proc[p].gen].is = "reserved"
    /\ proc[p].pc \in {"pending", "owner"} => proc[p].gen \notin retired \cup {active}
    /\ proc[p].pc \in {"retire", "moveaway"} =>
           /\ proc[p].seen # NoGen /\ ~Active(proc[p].seen)
           /\ active = proc[p].seen \/ proc[p].seen \in retired
    /\ proc[p].pc = "fetch" /\ Active(proc[p].gen) => active = proc[p].gen
Alone(p, q) == p # q /\ proc[p].gen # NoGen => proc[p].gen # proc[q].gen
Claimed == \A g \in Gens : g \in retired \cup {active} => op[g].is # "free"

\* Which calls may still commit: what comes after a fence comes after a commit of a
\* lower generation, and nothing is committed above one that may.
Open(p) == op[proc[p].gen].is = "pending"
Listed(p, q) ==
    proc[p].pc \in Fenced /\ proc[q].pc \in Past /\ Open(q) /\ proc[q].gen < proc[p].gen
        => proc[q].gen \in proc[p].low
Emptied(p) == proc[p].pc \in Fenced => (proc[p].low = {} <=> proc[p].pc # "fence")
Highest(p) == proc[p].pc \in Past /\ Open(p) =>
                  \A g \in Gens : g > proc[p].gen => op[g].is # "committed"

\* States only grow.
Within(s, t) == s.offered \cup s.acked \subseteq t.offered \cup t.acked /\ s.acked \subseteq t.acked
Grows(p) ==
    /\ proc[p].pc = "commit" /\ Open(p) => Within(readState, proc[p].new)
    /\ proc[p].pc = "commit" /\ proc[p].call = "ack" => proc[p].d \in proc[p].new.acked
    /\ proc[p].before \subseteq heard

IInv ==
    /\ Typed /\ Claimed
    /\ \A p \in Procs : Holds(p) /\ Emptied(p) /\ Highest(p) /\ Grows(p)
    /\ \A p, q \in Procs : Alone(p, q) /\ Listed(p, q)
    /\ NothingLost /\ NoNagging

=============================================================================
