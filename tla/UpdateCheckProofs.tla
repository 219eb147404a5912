------------------------- MODULE UpdateCheckProofs -------------------------
(***************************************************************************)
(* For every set of processes and every bound: UpdateCheck keeps its       *)
(* inductive invariant, and so TypeOK, NothingLost, NoNagging,             *)
(* SingleFlight; and no step takes the claim of an operation whose lease   *)
(* runs (LiveClaimKept).                                                   *)
(***************************************************************************)
EXTENDS UpdateCheck, TLAPS, FiniteSetTheorems, WellFoundedInduction

USE UpdateAssumption

-----------------------------------------------------------------------------
(* Generations and states of the cache. *)

LEMMA MinExists ==
  ASSUME NEW T \in SUBSET Nat, T # {}
  PROVE  \E x \in T : \A y \in T : x <= y
<1>1. PICK x \in T : \A y \in T : <<y, x>> \notin OpToRel(<, Nat)
  <2> HIDE DEF OpToRel
  <2> QED BY NatLessThanWellFounded, WFMin
<1>2. \A y \in T : x <= y
  <2> SUFFICES ASSUME NEW y \in T PROVE x <= y
    OBVIOUS
  <2>1. ~(y < x)
    BY <1>1 DEF OpToRel
  <2> QED BY <2>1
<1> QED BY <1>2

LEMMA MaxExists ==
  ASSUME NEW T \in SUBSET Gens, T # {}
  PROVE  \E x \in T : \A y \in T : y <= x
<1> DEFINE D == {MaxGen - g : g \in T}
<1>1. D \in SUBSET Nat /\ D # {}
  BY DEF Gens
<1>2. PICK x \in D : \A y \in D : x <= y
  BY <1>1, MinExists
<1>3. PICK g \in T : x = MaxGen - g
  BY <1>2
<1>4. \A h \in T : h <= g
  <2> SUFFICES ASSUME NEW h \in T PROVE h <= g
    OBVIOUS
  <2>1. MaxGen - g <= MaxGen - h
    BY <1>2, <1>3
  <2> QED BY <2>1 DEF Gens
<1> QED BY <1>4

LEMMA DigestsFinite ==
  ASSUME NEW S \in SUBSET Digests
  PROVE  IsFiniteSet(S) /\ Cardinality(S) \in Nat
<1>1. IsFiniteSet(Digests)
  BY FS_Interval DEF Digests
<1> QED BY <1>1, FS_Subset, FS_CardinalityType

LEMMA EmptyState == emptyState \in States /\ Readable(emptyState)
<1>1. emptyState \in States
  BY DEF emptyState, States, Digests
<1>2. Fits(emptyState)
  BY FS_EmptySet DEF Fits, emptyState
<1> QED BY <1>1, <1>2 DEF Readable, emptyState

LEMMA AcknowledgementFits ==
  ASSUME NEW s \in States, Readable(s), NEW d \in Digests, d \in s.offered \cup s.acked
  PROVE  /\ stateAfterAcknowledgement(s, d) \in States
         /\ Readable(stateAfterAcknowledgement(s, d))
         /\ Within(s, stateAfterAcknowledgement(s, d))
         /\ d \in stateAfterAcknowledgement(s, d).acked
<1> DEFINE t == stateAfterAcknowledgement(s, d)
<1>1. /\ t \in States /\ t.candidate = s.candidate
      /\ t.offered = s.offered \ {d} /\ t.acked = s.acked \cup {d}
  BY DEF States, stateAfterAcknowledgement
<1>2. /\ IsFiniteSet(s.offered) /\ IsFiniteSet(s.acked)
      /\ Cardinality(s.offered) \in Nat /\ Cardinality(s.acked) \in Nat
  BY DigestsFinite DEF States
<1> HIDE DEF t
<1>3. /\ Cardinality(t.offered) = IF d \in s.offered THEN Cardinality(s.offered) - 1
                                                     ELSE Cardinality(s.offered)
      /\ Cardinality(t.acked) = IF d \in s.acked THEN Cardinality(s.acked)
                                                 ELSE Cardinality(s.acked) + 1
  <2>1. Cardinality(s.offered \ {d}) = IF d \in s.offered THEN Cardinality(s.offered) - 1
                                                           ELSE Cardinality(s.offered)
    BY <1>2, FS_RemoveElement
  <2>2. Cardinality(s.acked \cup {d}) = IF d \in s.acked THEN Cardinality(s.acked)
                                                         ELSE Cardinality(s.acked) + 1
    BY <1>2, FS_AddElement
  <2> QED BY <1>1, <2>1, <2>2
<1>4. Fits(t)
  BY <1>2, <1>3 DEF Readable, Fits
<1>5. t.offered \cup t.acked = s.offered \cup s.acked
  BY <1>1
<1> QED BY <1>1, <1>4, <1>5 DEF Readable, Within, t

LEMMA FailedCheckFits ==
  ASSUME NEW s \in States, Readable(s), NEW now \in 0..MaxTime
  PROVE  /\ stateAfterFailedCheck(s, now) \in States
         /\ Readable(stateAfterFailedCheck(s, now))
         /\ Within(s, stateAfterFailedCheck(s, now))
BY DEF States, stateAfterFailedCheck, Readable, Fits, Within

LEMMA CheckFits ==
  ASSUME NEW s \in States, Readable(s), NEW d \in Digests, NEW now \in 0..MaxTime
  PROVE  /\ stateAfterCheck(s, d, now) \in States
         /\ Readable(stateAfterCheck(s, d, now))
         /\ Within(s, stateAfterCheck(s, d, now))
<1> DEFINE offer == d > 0 /\ d \notin s.acked
           next == [s EXCEPT !.candidate = d, !.next = now + 1,
                             !.offered = IF offer THEN @ \cup {d} ELSE @]
           back == [stateAfterFailedCheck(s, now) EXCEPT !.candidate = 0]
<1> DEFINE all == IF offer THEN s.offered \cup {d} ELSE s.offered
<1>1. /\ next \in States /\ next.candidate = d /\ next.acked = s.acked
      /\ next.offered = all
  <2>1. all \in SUBSET Digests /\ now + 1 \in 0..(MaxTime + 1)
    BY DEF States
  <2>2. next = [s EXCEPT !.candidate = d, !.next = now + 1, !.offered = all]
    BY DEF States
  <2> HIDE DEF all
  <2> QED BY <2>1, <2>2 DEF States
<1>2. CASE Fits(next)
  <2>1. stateAfterCheck(s, d, now) = next
    BY <1>2 DEF stateAfterCheck
  <2>2. Readable(next) /\ Within(s, next)
    BY <1>1, <1>2 DEF Readable, Within
  <2> QED BY <1>1, <2>1, <2>2
<1>3. CASE ~Fits(next)
  <2>1. stateAfterCheck(s, d, now) = back
    BY <1>3 DEF stateAfterCheck
  <2>2. /\ back \in States /\ back.candidate = 0
        /\ back.offered = s.offered /\ back.acked = s.acked
    <3>1. 0 \in Digests /\ now + 1 \in 0..(MaxTime + 1)
      BY DEF Digests
    <3>2. back = [s EXCEPT !.next = now + 1, !.candidate = 0]
      BY DEF stateAfterFailedCheck
    <3> QED BY <3>1, <3>2 DEF States
  <2>3. Readable(back) /\ Within(s, back)
    BY <2>2 DEF Readable, Within, Fits
  <2> QED BY <2>1, <2>2, <2>3
<1> QED BY <1>2, <1>3

\* What a call reads is the state of the highest committed generation.
LEMMA ReadIs ==
  ASSUME Typed
  PROVE  /\ readState \in States /\ Readable(readState)
         /\ \A g \in CommittedGens : (\A h \in CommittedGens : h <= g) => readState = op[g].state
<1>1. CommittedGens \in SUBSET Gens
  BY DEF CommittedGens
<1>2. CASE CommittedGens = {}
  BY <1>2, EmptyState DEF readState
<1>3. CASE CommittedGens # {}
  <2> DEFINE top == CHOOSE g \in CommittedGens : \A h \in CommittedGens : h <= g
  <2>1. top \in CommittedGens /\ \A h \in CommittedGens : h <= top
    BY <1>1, <1>3, MaxExists
  <2>2. readState = op[top].state
    BY <1>3 DEF readState
  <2> HIDE DEF top
  <2>3. \A g \in CommittedGens : (\A h \in CommittedGens : h <= g) => g = top
    BY <1>1, <2>1 DEF Gens
  <2>4. op[top].state \in States /\ Readable(op[top].state)
    BY <1>1, <2>1 DEF Typed, Ops
  <2> QED BY <2>2, <2>3, <2>4
<1> QED BY <1>2, <1>3

-----------------------------------------------------------------------------
(* Steps that leave the claim alone. *)

Timely == moves' \in 0..MaxMoves /\ release' \in 1..(moves' + 1) /\ clock' \in 0..MaxTime

\* A step of p that commits nothing, and gives a running lease to no operation but
\* its own, before that one has a claim.
Steady(p) ==
    /\ op' \in Ops /\ active' = active /\ retired' = retired
    /\ \A g \in Gens :
          /\ op'[g].state = op[g].state
          /\ op'[g].is = "committed" <=> op[g].is = "committed"
          /\ op'[g].is = "free" => op[g].is = "free"
          /\ op[g].is = "reserved" => op'[g].is = "reserved" \/ g = proc[p].gen
          /\ op'[g].is = "pending" => op[g].is = "pending" \/ g = proc[p].gen
          /\ Active(g)' => Active(g) \/ (g = proc[p].gen /\ g \notin retired \cup {active})
    /\ proc' \in [Procs -> Calls] /\ \A q \in Procs \ {p} : proc'[q] = proc[q]
    /\ Readable(proc'[p].new)
    /\ Timely

LEMMA SteadyReads ==
  ASSUME NEW p \in Procs, Steady(p)
  PROVE  readState' = readState
<1>1. CommittedGens' = CommittedGens
  BY DEF Steady, CommittedGens, Readable, Fits
<1>2. CASE CommittedGens = {}
  BY <1>1, <1>2 DEF readState
<1>3. CASE CommittedGens # {}
  <2> DEFINE top == CHOOSE g \in CommittedGens : \A h \in CommittedGens : h <= g
  <2>1. top \in Gens
    <3>1. CommittedGens \in SUBSET Gens
      BY DEF CommittedGens
    <3> QED BY <1>3, <3>1, MaxExists
  <2>2. readState = op[top].state /\ readState' = op'[top].state
    BY <1>1, <1>3 DEF readState
  <2> HIDE DEF top
  <2> QED BY <2>1, <2>2 DEF Steady
<1> QED BY <1>2, <1>3

LEMMA SteadyKeeps ==
  ASSUME IInv, NEW p \in Procs, Steady(p),
         told' \in SUBSET Digests, heard' \in SUBSET Digests, heard \subseteq heard'
  PROVE  /\ Typed' /\ Claimed' /\ readState' = readState
         /\ \A q \in Procs \ {p} : Holds(q)' /\ Emptied(q)' /\ Highest(q)' /\ Grows(q)'
         /\ \A q, r \in Procs \ {p} : Alone(q, r)' /\ Listed(q, r)'
<1> USE DEF IInv
<1>1. Typed'
  <2>1. \A g \in Gens : Readable(op'[g].state)
    BY DEF Typed, Steady
  <2>2. \A q \in Procs : Readable(proc'[q].new)
    BY DEF Typed, Steady
  <2> QED BY <2>1, <2>2 DEF Typed, Steady, Timely, Readable, Fits
<1>2. Claimed'
  BY DEF Claimed, Steady
<1>3. readState' = readState
  BY SteadyReads
<1>4. ASSUME NEW q \in Procs \ {p}
      PROVE  Holds(q)' /\ Emptied(q)' /\ Highest(q)' /\ Grows(q)'
  <2>1. /\ proc'[q] = proc[q] /\ proc[q] \in Calls /\ proc[q].gen \in Gens \cup {NoGen}
        /\ proc[q].seen \in Gens \cup {NoGen}
        /\ proc[q].gen # NoGen => proc[q].gen # proc[p].gen
    BY DEF Typed, Steady, Calls, Alone
  <2>2. Open(q)' => Open(q) \/ proc[q].gen = NoGen
    BY <2>1 DEF Steady, Open
  <2>3. Holds(q)'
    <3>1. Holds(q)
      OBVIOUS
    <3>2. proc[q].pc \in {"retire", "moveaway"} => proc[q].seen # NoGen /\ ~Active(proc[q].seen)'
      BY <2>1, <3>1 DEF Steady, Holds
    <3>3. proc[q].pc = "fetch" /\ Active(proc[q].gen)' => active' = proc[q].gen
      BY <2>1, <3>1 DEF Steady, Holds, Held, Past
    <3>4. proc[q].gen # NoGen => op'[proc[q].gen].is # "free"
      BY <2>1, <3>1 DEF Steady, Holds
    <3>5. proc[q].pc = "pending" => op'[proc[q].gen].is = "reserved"
      BY <2>1, <3>1 DEF Steady, Holds, Held
    <3>6. proc'[q].gen = proc[q].gen /\ proc'[q].seen = proc[q].seen /\ proc'[q].pc = proc[q].pc
      BY <2>1
    <3>7. active' = active /\ retired' = retired
      BY DEF Steady
    <3> QED BY <3>1, <3>2, <3>3, <3>4, <3>5, <3>6, <3>7 DEF Holds, Active
  <2>4. Emptied(q)'
    BY <2>1 DEF Emptied
  <2>5. proc[q].pc \in Past => proc[q].gen # NoGen
    BY DEF Holds, Held
  <2>6. Highest(q)'
    BY <2>1, <2>2, <2>5 DEF Highest, Steady
  <2>7. Grows(q)'
    BY <1>3, <2>1, <2>2, <2>5 DEF Grows, Past, Within
  <2> QED BY <2>3, <2>4, <2>6, <2>7
<1>5. ASSUME NEW q \in Procs \ {p}, NEW r \in Procs \ {p}
      PROVE  Alone(q, r)' /\ Listed(q, r)'
  <2>1. /\ proc'[q] = proc[q] /\ proc'[r] = proc[r] /\ proc[r].gen \in Gens \cup {NoGen}
        /\ proc[r].gen # NoGen => proc[r].gen # proc[p].gen
    BY DEF Typed, Steady, Calls, Alone
  <2>2. proc[r].pc \in Past => proc[r].gen # NoGen
    BY DEF Holds, Held
  <2>3. Open(r)' /\ proc[r].pc \in Past => Open(r)
    BY <2>1, <2>2 DEF Steady, Open
  <2> QED BY <2>1, <2>3 DEF Alone, Listed
<1> QED BY <1>1, <1>2, <1>3, <1>4, <1>5

\* A steady step keeps the invariant, when it keeps what is said of its process.
LEMMA StepKeeps ==
  ASSUME IInv, NEW p \in Procs, Steady(p),
         told' \in SUBSET Digests, heard' \in SUBSET Digests, heard \subseteq heard',
         Holds(p)', Emptied(p)', Highest(p)', Grows(p)',
         \A q \in Procs \ {p} : Alone(p, q)' /\ Alone(q, p)' /\ Listed(p, q)' /\ Listed(q, p)',
         told' \subseteq readState.offered \cup readState.acked, heard' \subseteq readState.acked,
         proc'[p].result = "notified" => proc'[p].d \notin proc'[p].before
  PROVE  IInv'
<1>1. /\ Typed' /\ Claimed' /\ readState' = readState
      /\ \A q \in Procs \ {p} : Holds(q)' /\ Emptied(q)' /\ Highest(q)' /\ Grows(q)'
      /\ \A q, r \in Procs \ {p} : Alone(q, r)' /\ Listed(q, r)'
  BY SteadyKeeps
<1>2. \A q \in Procs : Holds(q)' /\ Emptied(q)' /\ Highest(q)' /\ Grows(q)'
  BY <1>1
<1>3. Alone(p, p)' /\ Listed(p, p)'
  <2>1. proc'[p].gen \in Int
    BY <1>1 DEF Typed, Calls, Gens, NoGen
  <2> QED BY <2>1 DEF Alone, Listed
<1>4. \A q, r \in Procs : Alone(q, r)' /\ Listed(q, r)'
  BY <1>1, <1>3
<1>5. NothingLost'
  BY <1>1 DEF NothingLost
<1>6. NoNagging'
  BY DEF IInv, NoNagging, Steady
<1> QED BY <1>1, <1>2, <1>4, <1>5, <1>6 DEF IInv

\* A call that ends, or begins again, has no generation.
LEMMA EndKeeps ==
  ASSUME IInv, NEW p \in Procs, Steady(p),
         told' \in SUBSET Digests, heard' \in SUBSET Digests, heard \subseteq heard',
         proc'[p].gen = NoGen, proc'[p].pc \notin Held, proc'[p].before \subseteq heard',
         told' \subseteq readState.offered \cup readState.acked, heard' \subseteq readState.acked,
         proc'[p].result = "notified" => proc'[p].d \notin proc'[p].before
  PROVE  IInv'
<1>1. Holds(p)' /\ Emptied(p)' /\ Highest(p)' /\ Grows(p)'
  BY DEF Holds, Emptied, Highest, Grows, Held, Past, Fenced
<1>2. ASSUME NEW q \in Procs \ {p}
      PROVE  Alone(p, q)' /\ Alone(q, p)' /\ Listed(p, q)' /\ Listed(q, p)'
  <2>1. Alone(p, q)' /\ Alone(q, p)'
    BY DEF Alone
  <2>2. Listed(p, q)' /\ Listed(q, p)'
    BY DEF Listed, Held, Past, Fenced
  <2> QED BY <2>1, <2>2
<1> QED BY <1>1, <1>2, StepKeeps

\* A call that goes on keeps its generation; nobody had come later when it began to
\* compete for the claim.
LEMMA GoKeeps ==
  ASSUME IInv, NEW p \in Procs, Steady(p), UNCHANGED history,
         proc'[p].gen = proc[p].gen, proc'[p].before = proc[p].before,
         proc'[p].result = proc[p].result, proc'[p].d = proc[p].d,
         proc'[p].pc \in Past =>
             \/ proc[p].pc \in Past /\ (Open(p)' => Open(p))
             \/ proc[p].pc = "superseded" /\ ~Superseded(proc[p].gen),
         Holds(p)', Emptied(p)', Grows(p)',
         \A q \in Procs \ {p} : Listed(p, q)'
  PROVE  IInv'
<1> USE DEF IInv
<1>1. /\ proc[p].gen \in Gens \cup {NoGen}
      /\ proc[p].pc \in Held => proc[p].gen \in Gens
      /\ \A q \in Procs \ {p} : proc'[q] = proc[q] /\ proc[q].gen \in Gens \cup {NoGen}
  BY DEF Typed, Calls, Holds, Steady
<1>2. Highest(p)'
  <2>1. CASE proc[p].pc \in Past /\ (Open(p)' => Open(p))
    BY <2>1 DEF Highest, Steady
  <2>2. CASE proc[p].pc = "superseded" /\ ~Superseded(proc[p].gen)
    BY <2>2 DEF Highest, Steady, Superseded
  <2> QED BY <2>1, <2>2 DEF Highest
<1>3. ASSUME NEW q \in Procs \ {p}
      PROVE  Alone(p, q)' /\ Alone(q, p)' /\ Listed(p, q)' /\ Listed(q, p)'
  <2>1. Alone(p, q)' /\ Alone(q, p)'
    BY <1>1 DEF Alone
  <2>2. Listed(q, p)'
    <3>1. CASE proc[p].pc \in Past /\ (Open(p)' => Open(p))
      BY <1>1, <3>1 DEF Listed
    <3>2. CASE proc[p].pc = "superseded" /\ ~Superseded(proc[p].gen)
      <4>1. proc[q].pc \in Fenced => proc[q].gen \in Gens /\ op[proc[q].gen].is # "free"
        BY <1>1 DEF Holds, Held, Past, Fenced
      <4> QED BY <1>1, <3>2, <4>1 DEF Listed, Superseded
    <3> QED BY <3>1, <3>2 DEF Listed
  <2> QED BY <2>1, <2>2
<1>4. told' \in SUBSET Digests /\ heard' \in SUBSET Digests /\ heard \subseteq heard'
  BY DEF Typed, history
<1>5. told' \subseteq readState.offered \cup readState.acked /\ heard' \subseteq readState.acked
  BY DEF NothingLost, history
<1>6. proc'[p].result = "notified" => proc'[p].d \notin proc'[p].before
  BY DEF NoNagging
<1> QED BY <1>2, <1>3, <1>4, <1>5, <1>6, StepKeeps

\* What a step may do to the files on the way: nothing, or give up an operation.
Quiet == /\ \/ op' = op
            \/ \E g \in Gens, kind \in {"cancelled", "fenced"} : op' = Renamed(g, kind)
         /\ UNCHANGED <<active, retired>> /\ Timely

LEMMA QuietSteady ==
  ASSUME Typed, NEW p \in Procs, Quiet, NEW c \in Calls, Readable(c.new),
         proc' = [proc EXCEPT ![p] = c]
  PROVE  Steady(p) /\ proc'[p] = c
<1>1. proc' \in [Procs -> Calls] /\ proc'[p] = c /\ \A q \in Procs \ {p} : proc'[q] = proc[q]
  BY DEF Typed
<1>2. CASE op' = op
  BY <1>1, <1>2 DEF Steady, Quiet, Typed, Active
<1>3. ASSUME NEW h \in Gens, NEW kind \in {"cancelled", "fenced"}, op' = Renamed(h, kind)
      PROVE  Steady(p)
  <2>1. CASE op[h].is = "pending"
    <3>1. op' = [op EXCEPT ![h].is = kind]
      BY <1>3, <2>1 DEF Renamed
    <3>2. op' \in Ops
      BY <3>1 DEF Typed, Ops, Kinds
    <3>3. \A g \in Gens : /\ op'[g].state = op[g].state /\ op'[g].fresh = op[g].fresh
                          /\ op'[g].is = IF g = h THEN kind ELSE op[g].is
      BY <3>1 DEF Typed, Ops
    <3> QED BY <1>1, <2>1, <3>2, <3>3 DEF Steady, Quiet, Active
  <2>2. CASE op[h].is # "pending"
    <3>1. op' = op
      BY <1>3, <2>2 DEF Renamed
    <3> QED BY <1>1, <3>1 DEF Steady, Quiet, Typed, Active
  <2> QED BY <2>1, <2>2
<1> QED BY <1>1, <1>2, <1>3 DEF Quiet

LEMMA IdleTyped == Idle \in Calls /\ Readable(Idle.new) /\ Idle.new = emptyState
<1>1. Idle.new = emptyState /\ Readable(emptyState) /\ emptyState \in States
  BY EmptyState DEF Idle
<1>2. Idle \in Calls
  BY <1>1 DEF Idle, Calls, PCs, Digests, Gens, NoGen
<1> QED BY <1>1, <1>2

Results == {"none", "notified", "silent", "busy", "acknowledged", "unknown", "unavailable"}

\* An answer announces only what the cache offers.
LEMMA AnswerKeeps ==
  ASSUME IInv, NEW p \in Procs, Quiet, NEW r \in Results \ {"acknowledged"}, NEW d \in Digests,
         Answer(p, r, d),
         r = "notified" => d \in readState.offered \ readState.acked
  PROVE  IInv'
<1> DEFINE c == [Idle EXCEPT !.pc = "done", !.result = r, !.d = d, !.before = proc[p].before]
<1>1. proc[p] \in Calls /\ proc[p].before \subseteq heard /\ heard \in SUBSET Digests
  BY DEF IInv, Typed, Grows
<1>2. /\ c.pc = "done" /\ c.gen = NoGen /\ c.result = r /\ c.d = d
      /\ c.before = proc[p].before /\ c.new = emptyState
  BY IdleTyped DEF Idle
<1>3. c \in Calls
  <2>1. proc[p].before \in SUBSET Digests
    BY <1>1
  <2> QED BY <2>1, IdleTyped DEF Calls, Results, PCs
<1>4. proc' = [proc EXCEPT ![p] = c]
  BY DEF Answer
<1> HIDE DEF c
<1>5. Steady(p) /\ proc'[p] = c
  BY <1>2, <1>3, <1>4, EmptyState, QuietSteady DEF IInv
<1>6. /\ heard' = heard
      /\ told' = IF r = "notified" THEN told \cup {d} ELSE told
  BY DEF Answer
<1>7. /\ told' \subseteq readState.offered \cup readState.acked /\ heard' \subseteq readState.acked
      /\ told' \in SUBSET Digests
  BY <1>6 DEF IInv, NothingLost, Typed
<1>8. r = "notified" => d \notin proc[p].before
  BY <1>1 DEF IInv, NothingLost
<1> QED BY <1>1, <1>2, <1>5, <1>6, <1>7, <1>8, EndKeeps DEF Held, Past

LEMMA AnswerFromKeeps ==
  ASSUME IInv, NEW p \in Procs, Quiet, AnswerFrom(p, readState)
  PROVE  IInv'
<1>1. readState \in States /\ Readable(readState)
  BY ReadIs DEF IInv
<1> DEFINE r == resultForCandidate(readState)
<1>2. /\ r \in Results \ {"acknowledged"} /\ readState.candidate \in Digests
      /\ r = "notified" => readState.candidate \in readState.offered \ readState.acked
  BY <1>1 DEF resultForCandidate, Results, States, Readable
<1> HIDE DEF r
<1>3. Answer(p, r, readState.candidate)
  BY DEF AnswerFrom, r
<1> QED BY <1>2, <1>3, AnswerKeeps

LEMMA PlainKeeps ==
  ASSUME IInv, NEW p \in Procs, Quiet,
         NEW r \in {"silent", "busy", "unknown", "unavailable"}, Answer(p, r, 0)
  PROVE  IInv'
<1>1. 0 \in Digests
  BY DEF Digests
<1> QED BY <1>1, AnswerKeeps DEF Results

LEMMA LoseKeeps ==
  ASSUME IInv, NEW p \in Procs, Quiet, Lose(p)
  PROVE  IInv'
<1>1. CASE AnswerFrom(p, readState)
  BY <1>1, AnswerFromKeeps
<1>2. CASE Answer(p, "busy", 0)
  BY <1>2, PlainKeeps
<1>3. CASE /\ proc' = [proc EXCEPT ![p] = [Idle EXCEPT !.pc = "acquire", !.call = "ack",
                                           !.d = proc[p].d, !.before = proc[p].before]]
           /\ UNCHANGED history
  <2> DEFINE c == [Idle EXCEPT !.pc = "acquire", !.call = "ack", !.d = proc[p].d,
                               !.before = proc[p].before]
  <2>1. proc[p] \in Calls /\ proc[p].before \subseteq heard
    BY DEF IInv, Typed, Grows
  <2>2. c \in Calls
    BY <2>1, IdleTyped DEF Calls, PCs
  <2>3. /\ c.pc = "acquire" /\ c.gen = NoGen /\ c.result = "none"
        /\ c.before = proc[p].before /\ c.new = emptyState
    BY IdleTyped DEF Idle
  <2>4. proc' = [proc EXCEPT ![p] = c]
    BY <1>3
  <2> HIDE DEF c
  <2>5. Steady(p) /\ proc'[p] = c
    BY <2>2, <2>3, <2>4, EmptyState, QuietSteady DEF IInv
  <2>6. told' = told /\ heard' = heard
    BY <1>3 DEF history
  <2> QED BY <2>1, <2>3, <2>5, <2>6, EndKeeps DEF Held, Past, IInv, Typed, NothingLost
<1> QED BY <1>1, <1>2, <1>3 DEF Lose

LEMMA CutKeeps ==
  ASSUME IInv, NEW p \in Procs, Quiet, Cut(p)
  PROVE  IInv'
BY PlainKeeps, LoseKeeps DEF Cut

-----------------------------------------------------------------------------
(* Calls that begin, answer at once or stop. *)

LEMMA InPlace == Typed /\ UNCHANGED world => Timely
BY DEF Typed, world, Timely

LEMMA QuietFiles ==
  ASSUME Typed, UNCHANGED <<active, retired, world>>,
         op' = op \/ \E g \in Gens, kind \in {"cancelled", "fenced"} : op' = Renamed(g, kind)
  PROVE  Quiet
BY InPlace DEF Quiet

LEMMA CheckKeeps == ASSUME IInv, NEW p \in Procs, Check(p) PROVE IInv'
<1> DEFINE r == resultForCandidate(readState)
           begun == [Idle EXCEPT !.call = "check", !.now = clock, !.before = heard]
           c == IF Fresh(readState, clock)
                THEN [begun EXCEPT !.pc = "done", !.result = r, !.d = readState.candidate]
                ELSE [begun EXCEPT !.pc = "acquire"]
<1>1. Quiet
  BY QuietFiles DEF Check, files, world, IInv
<1>2. readState \in States /\ Readable(readState)
  BY ReadIs DEF IInv
<1>3. /\ r \in Results /\ readState.candidate \in Digests
      /\ r = "notified" => readState.candidate \in readState.offered \ readState.acked
  BY <1>2 DEF resultForCandidate, Results, States, Readable
<1> HIDE DEF r
<1>4. clock \in 0..MaxTime /\ heard \in SUBSET Digests /\ told \in SUBSET Digests
  BY DEF IInv, Typed
<1>5. /\ c.pc \in {"done", "acquire"} /\ c.gen = NoGen /\ c.before = heard /\ c.new = emptyState
      /\ c.result = "notified" => r = "notified" /\ c.d = readState.candidate
  BY IdleTyped DEF Idle
<1>6. c \in Calls
  <2>1. begun \in Calls
    BY <1>4, IdleTyped DEF Calls
  <2> QED BY <1>3, <2>1 DEF Calls, PCs, Results
<1>7. /\ proc' = [proc EXCEPT ![p] = c] /\ heard' = heard
      /\ told' \in {told, told \cup {readState.candidate}}
      /\ told' # told => r = "notified"
  BY DEF Check, r
<1> HIDE DEF c
<1>8. Steady(p) /\ proc'[p] = c
  BY <1>1, <1>5, <1>6, <1>7, EmptyState, QuietSteady DEF IInv
<1>9. /\ told' \in SUBSET Digests
      /\ told' \subseteq readState.offered \cup readState.acked /\ heard' \subseteq readState.acked
  BY <1>3, <1>4, <1>7 DEF IInv, NothingLost
<1> QED BY <1>3, <1>4, <1>5, <1>7, <1>8, <1>9, EndKeeps DEF Held, Past

\* A call that has no generation and answers nothing.
LEMMA BlankKeeps ==
  ASSUME IInv, NEW p \in Procs, Timely, UNCHANGED <<files, history>>,
         NEW c \in Calls, proc' = [proc EXCEPT ![p] = c],
         c.pc \notin Held, c.gen = NoGen, c.new = emptyState, c.result = "none",
         c.before \subseteq heard
  PROVE  IInv'
<1>1. Quiet
  BY DEF Quiet, files
<1>2. Steady(p) /\ proc'[p] = c
  BY <1>1, EmptyState, QuietSteady DEF IInv
<1> QED BY <1>2, EndKeeps DEF IInv, Typed, NothingLost, history

LEMMA AcknowledgeKeeps ==
  ASSUME IInv, NEW p \in Procs, NEW d \in Digests, Acknowledge(p, d) PROVE IInv'
<1> DEFINE c == [Idle EXCEPT !.pc = "acquire", !.call = "ack", !.d = d, !.before = heard]
<1>1. heard \in SUBSET Digests /\ Timely
  BY InPlace DEF IInv, Typed, Acknowledge
<1>2. /\ c.pc = "acquire" /\ c.gen = NoGen /\ c.result = "none" /\ c.before = heard
      /\ c.new = emptyState
  BY IdleTyped DEF Idle
<1>3. c \in Calls
  BY <1>1, IdleTyped DEF Calls, PCs
<1>4. proc' = [proc EXCEPT ![p] = c] /\ UNCHANGED <<files, history>>
  BY DEF Acknowledge
<1> HIDE DEF c
<1> QED BY <1>1, <1>2, <1>3, <1>4, BlankKeeps DEF Held, Past

LEMMA CrashKeeps == ASSUME IInv, NEW p \in Procs, Crash(p) PROVE IInv'
<1> DEFINE c == [Idle EXCEPT !.pc = "dead"]
<1>1. Timely
  BY DEF IInv, Typed, Crash, Spend, Timely
<1>2. /\ c.pc = "dead" /\ c.gen = NoGen /\ c.result = "none" /\ c.before = {}
      /\ c.new = emptyState
  BY IdleTyped DEF Idle
<1>3. c \in Calls
  BY IdleTyped DEF Calls, PCs
<1>4. proc' = [proc EXCEPT ![p] = c] /\ UNCHANGED <<files, history>>
  BY DEF Crash
<1> HIDE DEF c
<1> QED BY <1>1, <1>2, <1>3, <1>4, BlankKeeps DEF Held, Past

LEMMA AgainKeeps == ASSUME IInv, NEW p \in Procs, Again(p) PROVE IInv'
<1>1. Timely
  BY InPlace DEF IInv, Again
<1>2. Idle.pc = "start" /\ Idle.gen = NoGen /\ Idle.result = "none" /\ Idle.before = {}
  BY DEF Idle
<1>3. proc' = [proc EXCEPT ![p] = Idle] /\ UNCHANGED <<files, history>>
  BY DEF Again
<1> QED BY <1>1, <1>2, <1>3, IdleTyped, BlankKeeps DEF Held, Past

-----------------------------------------------------------------------------
(* Calls that look at the directory and go on. *)

\* A step that changes no file: what it looked at bears out where it goes.
LEMMA LookKeeps ==
  ASSUME IInv, NEW p \in Procs, UNCHANGED <<files, history, world>>,
         NEW c \in Calls, proc' = [proc EXCEPT ![p] = c],
         c.gen = proc[p].gen, c.low = proc[p].low, c.new = proc[p].new,
         c.before = proc[p].before, c.result = proc[p].result, c.d = proc[p].d,
         c.pc \in Held => proc[p].pc \in Held,
         c.pc \in Past => \/ proc[p].pc \in Past
                          \/ proc[p].pc = "superseded" /\ ~Superseded(proc[p].gen),
         c.pc \in Fenced => proc[p].pc \in Fenced \ {"fence"} /\ c.pc # "fence",
         c.pc \notin {"pending", "owner", "commit"},
         c.pc \in {"retire", "moveaway"} => /\ c.seen # NoGen /\ ~Active(c.seen)
                                            /\ active = c.seen \/ c.seen \in retired,
         c.pc = "fetch" /\ Active(c.gen) => active = c.gen
  PROVE  IInv'
<1>1. Quiet
  BY QuietFiles DEF IInv, files
<1>2. Steady(p) /\ proc'[p] = c
  BY <1>1, QuietSteady DEF IInv, Typed
<1>3. /\ op' = op /\ active' = active /\ retired' = retired
      /\ \A q \in Procs \ {p} : proc'[q] = proc[q]
  BY <1>2 DEF files, Steady
<1>4. Holds(p)'
  BY <1>2, <1>3 DEF IInv, Holds, Active
<1>5. Emptied(p)'
  BY <1>2 DEF IInv, Emptied
<1>6. Grows(p)'
  BY <1>2 DEF IInv, Grows, history
<1>7. \A q \in Procs \ {p} : Listed(p, q)'
  BY <1>2, <1>3 DEF IInv, Listed, Open
<1>8. proc'[p].pc \in Past =>
         \/ proc[p].pc \in Past /\ (Open(p)' => Open(p))
         \/ proc[p].pc = "superseded" /\ ~Superseded(proc[p].gen)
  BY <1>2, <1>3 DEF Open
<1> QED BY <1>2, <1>4, <1>5, <1>6, <1>7, <1>8, GoKeeps

LEMMA GotoKeeps ==
  ASSUME IInv, NEW p \in Procs, UNCHANGED <<files, history, world>>, NEW pc \in PCs, Goto(p, pc),
         pc \in Held => proc[p].pc \in Held,
         pc \in Past => \/ proc[p].pc \in Past
                        \/ proc[p].pc = "superseded" /\ ~Superseded(proc[p].gen),
         pc \in Fenced => proc[p].pc \in Fenced \ {"fence"} /\ pc # "fence",
         pc \notin {"pending", "owner", "commit", "retire"},
         pc = "moveaway" => proc[p].pc = "retire",
         pc = "fetch" => active = proc[p].gen
  PROVE  IInv'
<1> DEFINE c == [proc[p] EXCEPT !.pc = pc]
<1>1. /\ c \in Calls /\ c.pc = pc /\ c.seen = proc[p].seen
      /\ c.gen = proc[p].gen /\ c.low = proc[p].low /\ c.new = proc[p].new
      /\ c.before = proc[p].before /\ c.result = proc[p].result /\ c.d = proc[p].d
  BY DEF IInv, Typed, Calls
<1>2. proc' = [proc EXCEPT ![p] = c]
  BY DEF Goto
<1>3. pc = "moveaway" => /\ proc[p].seen # NoGen /\ ~Active(proc[p].seen)
                         /\ active = proc[p].seen \/ proc[p].seen \in retired
  BY DEF IInv, Holds
<1> HIDE DEF c
<1> QED BY <1>1, <1>2, <1>3, LookKeeps

\* Back to `superseded', with one more attempt.
LEMMA RetryKeeps ==
  ASSUME IInv, NEW p \in Procs, UNCHANGED <<files, history, world>>, proc[p].pc \in Held,
         proc' = [proc EXCEPT ![p].pc = "superseded", ![p].tries = @ + 1]
  PROVE  IInv'
<1> DEFINE c == [proc[p] EXCEPT !.pc = "superseded", !.tries = @ + 1]
<1>1. /\ c \in Calls /\ c.pc = "superseded"
      /\ c.gen = proc[p].gen /\ c.low = proc[p].low /\ c.new = proc[p].new
      /\ c.before = proc[p].before /\ c.result = proc[p].result /\ c.d = proc[p].d
  BY DEF IInv, Typed, Calls, PCs, Held
<1>2. proc' = [proc EXCEPT ![p] = c]
  OBVIOUS
<1> HIDE DEF c
<1> QED BY <1>1, <1>2, LookKeeps DEF Past, Fenced

LEMMA AcquireKeeps == ASSUME IInv, NEW p \in Procs, Acquire(p) PROVE IInv'
<1>1. CASE Lose(p)
  BY <1>1, LoseKeeps, QuietFiles DEF Acquire, files, IInv
<1>2. CASE Goto(p, "pendings") /\ UNCHANGED history
  BY <1>2, GotoKeeps DEF Acquire, PCs, Held, Past, Fenced
<1> QED BY <1>1, <1>2 DEF Acquire

LEMMA NonePendingKeeps == ASSUME IInv, NEW p \in Procs, NonePending(p) PROVE IInv'
<1>1. CASE Lose(p)
  BY <1>1, LoseKeeps, QuietFiles DEF NonePending, files, IInv
<1>2. CASE Goto(p, "reserve") /\ UNCHANGED history
  BY <1>2, GotoKeeps DEF NonePending, PCs, Held, Past, Fenced
<1> QED BY <1>1, <1>2 DEF NonePending

LEMMA GiveWayKeeps == ASSUME IInv, NEW p \in Procs, GiveWay(p) PROVE IInv'
<1>1. proc[p].pc = "superseded" /\ UNCHANGED <<files, history, world>>
  BY DEF GiveWay, At
<1>2. CASE Goto(p, "lost")
  BY <1>1, <1>2, GotoKeeps DEF PCs, Held, Past, Fenced
<1>3. CASE ~Superseded(proc[p].gen) /\ Goto(p, "inspect")
  BY <1>1, <1>3, GotoKeeps DEF PCs, Held, Past, Fenced
<1> QED BY <1>2, <1>3 DEF GiveWay

LEMMA InspectKeeps == ASSUME IInv, NEW p \in Procs, Inspect(p) PROVE IInv'
<1> DEFINE pc == CASE ClaimState = "absent" -> "promote"
                   [] ClaimState = "releasable" /\ active < proc[p].gen -> "retire"
                   [] OTHER -> "lost"
           c == [proc[p] EXCEPT !.seen = active, !.pc = pc]
<1>1. proc[p].pc = "inspect" /\ UNCHANGED <<files, history, world>>
  BY DEF Inspect, At
<1>2. /\ pc \in {"promote", "retire", "lost"}
      /\ pc = "retire" => active # NoGen /\ ~Active(active)
  BY DEF ClaimState
<1>3. proc' = [proc EXCEPT ![p] = c]
  BY DEF Inspect
<1> HIDE DEF pc
<1>4. /\ c \in Calls /\ c.pc = pc /\ c.seen = active
      /\ c.gen = proc[p].gen /\ c.low = proc[p].low /\ c.new = proc[p].new
      /\ c.before = proc[p].before /\ c.result = proc[p].result /\ c.d = proc[p].d
  <2>1. pc \in PCs /\ active \in Gens \cup {NoGen} /\ proc[p] \in Calls
    BY <1>2 DEF IInv, Typed, PCs, Held, Past
  <2> QED BY <2>1 DEF Calls
<1> HIDE DEF c
<1> QED BY <1>1, <1>2, <1>3, <1>4, LookKeeps DEF Held, Past, Fenced

LEMMA RetireKeeps == ASSUME IInv, NEW p \in Procs, Retire(p) PROVE IInv'
<1>1. proc[p].pc = "retire" /\ UNCHANGED <<files, world>>
  BY DEF Retire, At
<1>2. CASE Goto(p, "moveaway") /\ UNCHANGED history
  BY <1>1, <1>2, GotoKeeps DEF PCs, Held, Past, Fenced
<1>3. CASE proc' = [proc EXCEPT ![p].pc = "superseded", ![p].tries = @ + 1] /\ UNCHANGED history
  BY <1>1, <1>3, RetryKeeps DEF Held, Past
<1>4. CASE Answer(p, "unavailable", 0)
  BY <1>1, <1>4, PlainKeeps, QuietFiles DEF files, IInv
<1> QED BY <1>2, <1>3, <1>4 DEF Retire

LEMMA GoneKeeps == ASSUME IInv, NEW p \in Procs, Gone(p) PROVE IInv'
<1>1. proc[p].pc = "gone" /\ UNCHANGED <<files, world>>
  BY DEF Gone, At
<1>2. CASE proc' = [proc EXCEPT ![p].pc = "superseded", ![p].tries = @ + 1] /\ UNCHANGED history
  BY <1>1, <1>2, RetryKeeps DEF Held, Past
<1>3. CASE Answer(p, "unavailable", 0)
  BY <1>1, <1>3, PlainKeeps, QuietFiles DEF files, IInv
<1> QED BY <1>2, <1>3 DEF Gone

LEMMA PromotedKeeps == ASSUME IInv, NEW p \in Procs, Promoted(p) PROVE IInv'
<1>1. proc[p].pc = "promoted" /\ UNCHANGED <<files, history, world>>
  BY DEF Promoted, At
<1>2. \E pc \in {"lost", "reread", "owns1"} : Goto(p, pc)
  BY DEF Promoted
<1> QED BY <1>1, <1>2, GotoKeeps DEF PCs, Held, Past, Fenced

LEMMA OwnsKeeps == ASSUME IInv, NEW p \in Procs, Owns(p) PROVE IInv'
<1>1. proc[p].pc \in {"owns", "owns1", "owns2"} /\ UNCHANGED <<files, history, world>>
  BY DEF Owns, At
<1>2. CASE proc[p].pc = "owns"
  <2>1. Goto(p, "lost") \/ (active = proc[p].gen /\ Goto(p, "fetch"))
    BY <1>2 DEF Owns, At, ownsClaim
  <2> QED BY <1>1, <1>2, <2>1, GotoKeeps DEF PCs, Held, Past, Fenced
<1>3. CASE proc[p].pc = "owns1"
  <2>1. Goto(p, "cut") \/ Goto(p, "list")
    BY <1>3 DEF Owns, At
  <2> QED BY <1>1, <1>3, <2>1, GotoKeeps DEF PCs, Held, Past, Fenced
<1>4. CASE proc[p].pc = "owns2"
  <2>1. Goto(p, "cut") \/ Goto(p, "mutate")
    BY <1>4 DEF Owns, At
  <2> QED BY <1>1, <1>4, <2>1, GotoKeeps DEF PCs, Held, Past, Fenced
<1> QED BY <1>1, <1>2, <1>3, <1>4

LEMMA FetchKeeps == ASSUME IInv, NEW p \in Procs, Fetch(p) PROVE IInv'
<1>1. proc[p].pc = "fetch" /\ UNCHANGED <<files, history, world>>
  BY DEF Fetch, At
<1>2. PICK got \in {NoGen, release} :
         proc' = [proc EXCEPT ![p].got = got, ![p].pc = "owns1"]
  BY DEF Fetch
<1> DEFINE c == [proc[p] EXCEPT !.got = got, !.pc = "owns1"]
<1>3. got \in Digests
  BY DEF IInv, Typed, Digests, NoGen
<1>4. /\ c \in Calls /\ c.pc = "owns1"
      /\ c.gen = proc[p].gen /\ c.low = proc[p].low /\ c.new = proc[p].new
      /\ c.before = proc[p].before /\ c.result = proc[p].result /\ c.d = proc[p].d
  <2>1. "owns1" \in PCs /\ proc[p] \in Calls
    BY DEF IInv, Typed, PCs, Held, Past
  <2> QED BY <1>3, <2>1 DEF Calls
<1>5. proc' = [proc EXCEPT ![p] = c]
  BY <1>2
<1> HIDE DEF c
<1> QED BY <1>1, <1>4, <1>5, LookKeeps DEF Held, Past, Fenced

-----------------------------------------------------------------------------
(* Operations made, given up and fenced. *)

LEMMA CancelKeeps == ASSUME IInv, NEW p \in Procs, Cancel(p) PROVE IInv'
<1>1. proc[p].gen \in Gens
  BY DEF Cancel, At, IInv, Typed, Calls, Holds, Held
<1>2. Quiet
  BY <1>1, QuietFiles DEF Cancel, IInv
<1>3. Lose(p) \/ Cut(p)
  BY DEF Cancel
<1> QED BY <1>2, <1>3, LoseKeeps, CutKeeps

LEMMA RereadKeeps == ASSUME IInv, NEW p \in Procs, Reread(p) PROVE IInv'
<1>1. proc[p].pc = "reread" /\ proc[p].gen \in Gens
  BY DEF Reread, At, IInv, Typed, Calls, Holds, Held, Past
<1>2. CASE op' = Renamed(proc[p].gen, "cancelled") /\ AnswerFrom(p, readState)
  BY <1>1, <1>2, QuietFiles, AnswerFromKeeps DEF Reread, IInv
<1>3. CASE UNCHANGED <<op, history>> /\ Goto(p, "owns")
  BY <1>1, <1>3, GotoKeeps DEF Reread, files, PCs, Held, Past, Fenced
<1> QED BY <1>2, <1>3 DEF Reread

LEMMA ReserveKeeps == ASSUME IInv, NEW p \in Procs, Reserve(p) PROVE IInv'
<1>1. PICK g \in Gens : /\ op[g].is = "free"
                        /\ op' = [op EXCEPT ![g].is = "reserved"]
                        /\ proc' = [proc EXCEPT ![p].gen = g, ![p].pc = "pending"]
  BY DEF Reserve
<1> DEFINE c == [proc[p] EXCEPT !.gen = g, !.pc = "pending"]
<1>2. /\ c \in Calls /\ c.pc = "pending" /\ c.gen = g /\ c.new = proc[p].new
      /\ c.before = proc[p].before /\ c.result = proc[p].result /\ c.d = proc[p].d
  <2>1. "pending" \in PCs /\ proc[p] \in Calls
    BY DEF IInv, Typed, PCs, Held
  <2> QED BY <2>1 DEF Calls
<1>3. proc' = [proc EXCEPT ![p] = c]
  BY <1>1
<1> HIDE DEF c
<1>4. /\ proc' \in [Procs -> Calls] /\ proc'[p] = c
      /\ \A q \in Procs \ {p} : proc'[q] = proc[q]
  BY <1>2, <1>3 DEF IInv, Typed
<1>5. /\ op' \in Ops
      /\ \A h \in Gens : /\ op'[h].state = op[h].state /\ op'[h].fresh = op[h].fresh
                         /\ op'[h].is = IF h = g THEN "reserved" ELSE op[h].is
  BY <1>1 DEF IInv, Typed, Ops, Kinds
<1>6. UNCHANGED <<active, retired, history, world>>
  BY DEF Reserve
<1>7. Steady(p)
  BY <1>1, <1>2, <1>4, <1>5, <1>6, InPlace DEF IInv, Typed, Steady, Active
<1>8. Holds(p)'
  <2>1. g \notin retired \cup {active} /\ g # NoGen
    BY <1>1 DEF IInv, Claimed, Gens, NoGen
  <2> QED BY <1>2, <1>4, <1>5, <1>6, <2>1 DEF Holds
<1>9. Emptied(p)' /\ Highest(p)' /\ Grows(p)'
  BY <1>2, <1>4, <1>6 DEF IInv, Emptied, Highest, Grows, Fenced, Past, history
<1>10. ASSUME NEW q \in Procs \ {p}
       PROVE  Alone(p, q)' /\ Alone(q, p)' /\ Listed(p, q)' /\ Listed(q, p)'
  <2>1. proc[q].gen # g
    BY <1>1 DEF IInv, Holds, Gens, NoGen
  <2> QED BY <1>2, <1>4, <2>1 DEF Alone, Listed, Past, Fenced
<1>11. /\ told' \in SUBSET Digests /\ heard' \in SUBSET Digests /\ heard \subseteq heard'
       /\ told' \subseteq readState.offered \cup readState.acked /\ heard' \subseteq readState.acked
       /\ proc'[p].result = "notified" => proc'[p].d \notin proc'[p].before
  BY <1>2, <1>4, <1>6 DEF IInv, Typed, NothingLost, NoNagging, history
<1> QED BY <1>7, <1>8, <1>9, <1>10, <1>11, StepKeeps

\* The own operation, before it has a claim, becomes pending with a new lease.
LEMMA OwnKeeps ==
  ASSUME IInv, NEW p \in Procs, proc[p].pc \in {"pending", "owner"},
         NEW pc \in {"owner", "superseded"}, Goto(p, pc),
         UNCHANGED <<active, retired, history, world>>,
         op' \in Ops,
         \A h \in Gens : /\ op'[h].state = op[h].state
                         /\ h # proc[p].gen => op'[h] = op[h],
         op[proc[p].gen].is \in {"reserved", "pending"},
         op'[proc[p].gen].is = "pending"
  PROVE  IInv'
<1> DEFINE c == [proc[p] EXCEPT !.pc = pc]
           g == proc[p].gen
<1>1. g \in Gens /\ g \notin retired \cup {active} /\ proc[p] \in Calls
  BY DEF IInv, Typed, Calls, Holds, Held
<1>2. /\ c \in Calls /\ c.pc = pc /\ c.gen = g /\ c.new = proc[p].new
      /\ c.before = proc[p].before /\ c.result = proc[p].result /\ c.d = proc[p].d
  <2>1. pc \in PCs
    BY DEF PCs, Held
  <2> QED BY <1>1, <2>1 DEF Calls
<1>3. proc' = [proc EXCEPT ![p] = c]
  BY DEF Goto
<1> HIDE DEF c
<1>4. /\ proc' \in [Procs -> Calls] /\ proc'[p] = c
      /\ \A q \in Procs \ {p} : proc'[q] = proc[q]
  BY <1>2, <1>3 DEF IInv, Typed
<1>5. Steady(p)
  BY <1>1, <1>2, <1>4, InPlace DEF IInv, Typed, Steady, Active
<1>6. Holds(p)'
  BY <1>1, <1>2, <1>4 DEF Holds, Gens, NoGen
<1>7. Emptied(p)' /\ Grows(p)' /\ \A q \in Procs \ {p} : Listed(p, q)'
  BY <1>2, <1>4 DEF IInv, Emptied, Grows, Listed, Fenced, history
<1>8. proc'[p].pc \notin Past
  BY <1>2, <1>4 DEF Past
<1> QED BY <1>2, <1>4, <1>5, <1>6, <1>7, <1>8, GoKeeps

LEMMA MakePendingKeeps == ASSUME IInv, NEW p \in Procs, MakePending(p) PROVE IInv'
<1> DEFINE g == proc[p].gen
<1>1. proc[p].pc = "pending" /\ g \in Gens /\ op[g].is = "reserved"
  BY DEF MakePending, At, IInv, Typed, Calls, Holds, Held
<1>2. op' = [op EXCEPT ![g].is = "pending", ![g].fresh = TRUE]
  BY DEF MakePending
<1>3. /\ op' \in Ops /\ op'[g].is = "pending"
      /\ \A h \in Gens : op'[h].state = op[h].state /\ (h # g => op'[h] = op[h])
  BY <1>1, <1>2 DEF IInv, Typed, Ops, Kinds
<1> QED BY <1>1, <1>3, OwnKeeps DEF MakePending

LEMMA WriteOwnerKeeps == ASSUME IInv, NEW p \in Procs, WriteOwner(p) PROVE IInv'
<1> DEFINE g == proc[p].gen
<1>1. proc[p].pc = "owner" /\ g \in Gens /\ UNCHANGED <<active, retired, world>>
  BY DEF WriteOwner, At, IInv, Typed, Calls, Holds, Held
<1>2. CASE op[g].is = "pending"
  <2>1. /\ op' = [op EXCEPT ![g].owner = TRUE, ![g].fresh = TRUE]
        /\ Goto(p, "superseded") /\ UNCHANGED history
    BY <1>2 DEF WriteOwner
  <2>2. /\ op' \in Ops /\ op'[g].is = "pending"
        /\ \A h \in Gens : op'[h].state = op[h].state /\ (h # g => op'[h] = op[h])
    BY <1>1, <1>2, <2>1 DEF IInv, Typed, Ops
  <2> QED BY <1>1, <1>2, <2>1, <2>2, OwnKeeps
<1>3. CASE op[g].is # "pending"
  BY <1>1, <1>3, LoseKeeps, QuietFiles DEF WriteOwner, IInv
<1> QED BY <1>2, <1>3

LEMMA ListKeeps == ASSUME IInv, NEW p \in Procs, List(p) PROVE IInv'
<1> DEFINE low == {g \in 1..(proc[p].gen - 1) : op[g].is = "pending"}
           pc == IF low = {} THEN "owns2" ELSE "fence"
           c == [proc[p] EXCEPT !.low = low, !.pc = pc]
<1>1. /\ proc[p].pc = "list" /\ UNCHANGED <<files, history, world>>
      /\ proc[p].gen \in Gens /\ proc[p] \in Calls
  BY DEF List, At, IInv, Typed, Calls, Holds, Held, Past
<1>2. low \in SUBSET Gens
  BY <1>1 DEF Gens
<1>3. /\ c \in Calls /\ c.pc = pc /\ c.low = low /\ c.gen = proc[p].gen /\ c.new = proc[p].new
      /\ c.before = proc[p].before /\ c.result = proc[p].result /\ c.d = proc[p].d
  <2>1. pc \in PCs
    BY DEF PCs, Held, Past
  <2> HIDE DEF pc, low
  <2> QED BY <1>1, <1>2, <2>1 DEF Calls
<1>4. proc' = [proc EXCEPT ![p] = c]
  BY DEF List
<1> HIDE DEF c
<1>5. Quiet
  BY <1>1, QuietFiles DEF files, IInv
<1>6. Steady(p) /\ proc'[p] = c
  BY <1>3, <1>4, <1>5, QuietSteady DEF IInv, Typed
<1>7. op' = op /\ \A q \in Procs \ {p} : proc'[q] = proc[q]
  BY <1>1, <1>6 DEF files, Steady
<1>8. Holds(p)' /\ Emptied(p)' /\ Grows(p)'
  BY <1>1, <1>3, <1>6, <1>7 DEF IInv, Holds, Emptied, Grows, Held, Past, Fenced, Active, files, history
<1>9. ASSUME NEW q \in Procs \ {p} PROVE Listed(p, q)'
  <2>1. proc[q].pc \in Past => proc[q].gen \in Gens
    BY DEF IInv, Typed, Calls, Holds, Held
  <2>2. \A g \in Gens : g < proc[p].gen /\ op[g].is = "pending" => g \in low
    BY <1>1 DEF Gens
  <2> HIDE DEF low, pc
  <2> QED BY <1>3, <1>6, <1>7, <2>1, <2>2 DEF Listed, Open
<1>10. proc'[p].pc \in Past => proc[p].pc \in Past /\ (Open(p)' => Open(p))
  BY <1>1, <1>3, <1>6, <1>7 DEF Past, Open
<1> QED BY <1>1, <1>3, <1>6, <1>8, <1>9, <1>10, GoKeeps

LEMMA FenceKeeps == ASSUME IInv, NEW p \in Procs, Fence(p) PROVE IInv'
<1> DEFINE g == CHOOSE x \in proc[p].low : \A y \in proc[p].low : x <= y
           low == proc[p].low \ {g}
           pc == IF proc[p].low = {g} THEN "owns2" ELSE "fence"
           c == [proc[p] EXCEPT !.low = low, !.pc = pc]
<1>1. /\ proc[p].pc = "fence" /\ UNCHANGED <<active, retired, history, world>>
      /\ proc[p].gen \in Gens /\ proc[p] \in Calls
  BY DEF Fence, At, IInv, Typed, Calls, Holds, Held, Past
<1>2. g \in proc[p].low /\ g \in Gens
  <2>1. proc[p].low # {} /\ proc[p].low \in SUBSET Gens
    BY <1>1 DEF IInv, Emptied, Fenced, Calls
  <2>2. \E x \in proc[p].low : \A y \in proc[p].low : x <= y
    BY <2>1, MinExists DEF Gens
  <2> QED BY <2>1, <2>2
<1>3. op' = Renamed(g, "fenced") /\ proc' = [proc EXCEPT ![p] = c]
  BY DEF Fence
<1> HIDE DEF g
<1>4. /\ c \in Calls /\ c.pc = pc /\ c.low = low /\ c.gen = proc[p].gen /\ c.new = proc[p].new
      /\ c.before = proc[p].before /\ c.result = proc[p].result /\ c.d = proc[p].d
  <2>1. pc \in PCs /\ low \in SUBSET Gens
    BY <1>1 DEF PCs, Held, Past, Calls
  <2> HIDE DEF pc, low
  <2> QED BY <1>1, <2>1 DEF Calls
<1> HIDE DEF c
<1>5. Quiet
  BY <1>1, <1>2, <1>3, QuietFiles DEF IInv
<1>6. Steady(p) /\ proc'[p] = c
  BY <1>3, <1>4, <1>5, QuietSteady DEF IInv, Typed
<1>7. \A q \in Procs \ {p} : proc'[q] = proc[q]
  BY <1>6 DEF Steady
<1>8. /\ op'[g].is # "pending"
      /\ \A h \in Gens : op'[h].is = "pending" => op[h].is = "pending"
      /\ proc[p].gen # NoGen /\ op'[proc[p].gen].is # "free"
  <2>1. op[proc[p].gen].is # "free"
    BY <1>1 DEF IInv, Holds, Gens, NoGen
  <2> QED BY <1>1, <1>2, <1>3, <2>1 DEF IInv, Typed, Ops, Renamed, Gens, NoGen
<1>9. Holds(p)' /\ Emptied(p)' /\ Grows(p)'
  <2>1. Holds(p)'
    BY <1>1, <1>4, <1>6, <1>8 DEF Holds
  <2>2. Emptied(p)'
    BY <1>2, <1>4, <1>6 DEF Emptied
  <2>3. Grows(p)'
    BY <1>1, <1>4, <1>6 DEF IInv, Grows, history
  <2> QED BY <2>1, <2>2, <2>3
<1>10. ASSUME NEW q \in Procs \ {p} PROVE Listed(p, q)'
  <2>1. proc[q].pc \in Past => proc[q].gen \in Gens
    BY DEF IInv, Typed, Calls, Holds, Held
  <2>2. Listed(p, q)
    BY DEF IInv
  <2> QED BY <1>1, <1>4, <1>6, <1>7, <1>8, <2>1, <2>2 DEF Listed, Open, Fenced
<1>11. proc'[p].pc \in Past => proc[p].pc \in Past /\ (Open(p)' => Open(p))
  BY <1>1, <1>4, <1>6, <1>8 DEF Past, Open
<1> QED BY <1>1, <1>4, <1>6, <1>9, <1>10, <1>11, GoKeeps

\* The state a call is about to commit.
LEMMA WriteKeeps ==
  ASSUME IInv, NEW p \in Procs, proc[p].pc = "mutate", UNCHANGED <<files, history, world>>,
         NEW n \in States, Readable(n), Within(readState, n),
         proc[p].call = "ack" => proc[p].d \in n.acked,
         proc' = [proc EXCEPT ![p].new = n, ![p].pc = "commit"]
  PROVE  IInv'
<1> DEFINE c == [proc[p] EXCEPT !.new = n, !.pc = "commit"]
<1>1. proc[p] \in Calls
  BY DEF IInv, Typed
<1>2. /\ c \in Calls /\ c.pc = "commit" /\ c.low = proc[p].low /\ c.gen = proc[p].gen
      /\ c.new = n /\ c.call = proc[p].call
      /\ c.before = proc[p].before /\ c.result = proc[p].result /\ c.d = proc[p].d
  <2>1. "commit" \in PCs
    BY DEF PCs, Held, Past
  <2> QED BY <1>1, <2>1 DEF Calls
<1>3. proc' = [proc EXCEPT ![p] = c]
  OBVIOUS
<1> HIDE DEF c
<1>4. Quiet
  BY QuietFiles DEF files, IInv
<1>5. Steady(p) /\ proc'[p] = c
  BY <1>2, <1>3, <1>4, QuietSteady DEF IInv
<1>6. op' = op /\ \A q \in Procs \ {p} : proc'[q] = proc[q]
  BY <1>5 DEF files, Steady
<1>7. readState' = readState
  BY <1>5, SteadyReads
<1>8. Holds(p)'
  BY <1>2, <1>5, <1>6 DEF IInv, Holds, Held, Past
<1>9. Emptied(p)'
  BY <1>2, <1>5 DEF IInv, Emptied, Fenced
<1>10. Grows(p)'
  BY <1>2, <1>5, <1>7 DEF IInv, Grows, history, Within
<1>11. \A q \in Procs \ {p} : Listed(p, q)'
  BY <1>2, <1>5, <1>6 DEF IInv, Listed, Open, Fenced
<1>12. proc'[p].pc \in Past => proc[p].pc \in Past /\ (Open(p)' => Open(p))
  BY <1>2, <1>5, <1>6 DEF Past, Open
<1> QED BY <1>2, <1>5, <1>8, <1>9, <1>10, <1>11, <1>12, GoKeeps

LEMMA MutateKeeps == ASSUME IInv, NEW p \in Procs, Mutate(p) PROVE IInv'
<1> DEFINE s == readState
           d == proc[p].d
           write(n) == proc' = [proc EXCEPT ![p].new = n, ![p].pc = "commit"]
                       /\ UNCHANGED <<op, history>>
<1>1. /\ proc[p].pc = "mutate" /\ proc[p].gen \in Gens /\ UNCHANGED <<active, retired, world>>
      /\ d \in Digests /\ proc[p].got \in Digests /\ proc[p].now \in 0..MaxTime
  BY DEF Mutate, At, IInv, Typed, Calls, Holds, Held, Past
<1>2. s \in States /\ Readable(s)
  BY ReadIs DEF IInv
<1>3. CASE op' = Renamed(proc[p].gen, "cancelled") /\ Answer(p, "unknown", 0)
  BY <1>1, <1>3, QuietFiles, PlainKeeps DEF IInv
<1>4. CASE d \in s.offered \cup s.acked /\ write(stateAfterAcknowledgement(s, d))
  BY <1>1, <1>2, <1>4, AcknowledgementFits, WriteKeeps DEF files
<1>5. CASE proc[p].call # "ack" /\ write(stateAfterFailedCheck(s, proc[p].now))
  BY <1>1, <1>2, <1>5, FailedCheckFits, WriteKeeps DEF files
<1>6. CASE proc[p].call # "ack" /\ write(stateAfterCheck(s, proc[p].got, proc[p].now))
  BY <1>1, <1>2, <1>6, CheckFits, WriteKeeps DEF files
<1>7. \/ op' = Renamed(proc[p].gen, "cancelled") /\ Answer(p, "unknown", 0)
      \/ d \in s.offered \cup s.acked /\ write(stateAfterAcknowledgement(s, d))
      \/ proc[p].call # "ack" /\ write(stateAfterFailedCheck(s, proc[p].now))
      \/ proc[p].call # "ack" /\ write(stateAfterCheck(s, proc[p].got, proc[p].now))
  <2>1. CASE proc[p].call = "ack"
    BY <2>1 DEF Mutate
  <2>2. CASE proc[p].call # "ack"
    BY <2>2 DEF Mutate
  <2> QED BY <2>1, <2>2
<1> QED BY <1>3, <1>4, <1>5, <1>6, <1>7

-----------------------------------------------------------------------------
(* The claim changes hands. *)

LEMMA ClaimKeeps ==
  ASSUME IInv, NEW p \in Procs, UNCHANGED <<op, history, world>>,
         proc[p].pc \in {"moveaway", "promote"}, NEW pc \in {"gone", "promoted"}, Goto(p, pc),
         active' \in Gens \cup {NoGen}, retired' \in SUBSET Gens,
         \A g \in retired' \cup {active'} : g \in retired \cup {NoGen, active, proc[p].gen},
         \A q \in Procs \ {p} : Holds(q)'
  PROVE  IInv'
<1> DEFINE c == [proc[p] EXCEPT !.pc = pc]
<1>1. proc[p] \in Calls /\ proc[p].gen \in Gens /\ op[proc[p].gen].is # "free"
  BY DEF IInv, Typed, Calls, Holds, Held, Past, Gens, NoGen
<1>2. /\ c \in Calls /\ c.pc = pc /\ c.low = proc[p].low /\ c.gen = proc[p].gen
      /\ c.new = proc[p].new /\ c.call = proc[p].call
      /\ c.before = proc[p].before /\ c.result = proc[p].result /\ c.d = proc[p].d
  <2>1. pc \in PCs
    BY DEF PCs, Held, Past
  <2> QED BY <1>1, <2>1 DEF Calls
<1>3. proc' = [proc EXCEPT ![p] = c]
  BY DEF Goto
<1> HIDE DEF c
<1>4. /\ proc' \in [Procs -> Calls] /\ proc'[p] = c
      /\ \A q \in Procs \ {p} : proc'[q] = proc[q]
  BY <1>2, <1>3 DEF IInv, Typed
<1>5. Typed'
  <2>1. \A g \in Gens : Readable(op'[g].state)
    BY DEF IInv, Typed
  <2>2. \A q \in Procs : Readable(proc'[q].new)
    BY <1>2, <1>4 DEF IInv, Typed
  <2> QED BY <1>4, <2>1, <2>2 DEF IInv, Typed, history, world, Readable, Fits
<1>6. Claimed'
  BY <1>1 DEF IInv, Claimed, Gens, NoGen
<1>7. readState' = readState
  BY DEF readState, CommittedGens, Readable, Fits
<1>8. NothingLost'
  BY <1>7 DEF IInv, NothingLost, history
<1>9. NoNagging'
  BY <1>2, <1>4 DEF IInv, NoNagging
<1>10. Holds(p)'
  BY <1>1, <1>2, <1>4 DEF Holds, Gens, NoGen
<1>11. ASSUME NEW q \in Procs PROVE Emptied(q)' /\ Highest(q)' /\ Grows(q)'
  <2>1. CASE q = p
    BY <1>2, <1>4, <2>1 DEF IInv, Emptied, Highest, Grows, Open, Fenced, Past, history
  <2>2. CASE q # p
    BY <1>4, <1>7, <2>2 DEF IInv, Emptied, Highest, Grows, Open, history, Within
  <2> QED BY <2>1, <2>2
<1>12. ASSUME NEW q \in Procs, NEW r \in Procs PROVE Alone(q, r)' /\ Listed(q, r)'
  <2>1. /\ proc'[q].gen = proc[q].gen /\ proc'[r].gen = proc[r].gen /\ proc'[q].low = proc[q].low
        /\ proc'[q].pc \in Fenced => proc[q].pc \in Fenced
        /\ proc'[r].pc \in Past => proc[r].pc \in Past
    BY <1>2, <1>4 DEF Fenced, Past
  <2> QED BY <2>1 DEF IInv, Alone, Listed, Open
<1> QED BY <1>5, <1>6, <1>8, <1>9, <1>10, <1>11, <1>12 DEF IInv

\* What is put away is what was seen, and its lease had run out.
LEMMA MoveAwayKeeps ==
  ASSUME IInv, NEW p \in Procs, MoveAway(p)
  PROVE  IInv' /\ (active' # active => ~Active(active))
<1>1. /\ proc[p].pc = "moveaway" /\ UNCHANGED <<op, history, world>>
      /\ proc[p].seen \in Gens /\ proc[p].gen \in Gens /\ ~Active(proc[p].seen)
      /\ active = proc[p].seen \/ proc[p].seen \in retired
  BY DEF MoveAway, At, IInv, Typed, Calls, Holds, Held, Past
<1>2. CASE active = NoGen \/ proc[p].seen \in retired
  <2>1. /\ proc' = [proc EXCEPT ![p].pc = "superseded", ![p].tries = @ + 1]
        /\ UNCHANGED <<active, retired>>
    BY <1>2 DEF MoveAway
  <2> QED BY <1>1, <2>1, RetryKeeps DEF files, Held, Past
<1>3. CASE ~(active = NoGen \/ proc[p].seen \in retired)
  <2>1. /\ active = proc[p].seen /\ active' = NoGen /\ retired' = retired \cup {active}
        /\ Goto(p, "gone")
    BY <1>1, <1>3 DEF MoveAway
  <2>2. ASSUME NEW q \in Procs \ {p} PROVE Holds(q)'
    <3>1. proc'[q] = proc[q] /\ Holds(q)
      BY <2>1 DEF IInv, Typed, Goto
    <3> QED BY <1>1, <2>1, <3>1 DEF Holds, Held, Past, Active
  <2>3. retired' \in SUBSET Gens /\ active' \in Gens \cup {NoGen}
    BY <1>1, <2>1 DEF IInv, Typed
  <2> QED BY <1>1, <2>1, <2>2, <2>3, ClaimKeeps
<1> QED BY <1>2, <1>3

LEMMA PromoteKeeps ==
  ASSUME IInv, NEW p \in Procs, Promote(p)
  PROVE  IInv' /\ (active' # active => active = NoGen)
<1>1. /\ proc[p].pc = "promote" /\ UNCHANGED <<op, retired, history, world>>
      /\ proc[p].gen \in Gens
  BY DEF Promote, At, IInv, Typed, Calls, Holds, Held, Past
<1>2. CASE active = NoGen
  <2>1. active' = proc[p].gen /\ Goto(p, "promoted")
    BY <1>2 DEF Promote
  <2>2. ASSUME NEW q \in Procs \ {p} PROVE Holds(q)'
    <3>1. /\ proc'[q] = proc[q] /\ Holds(q)
          /\ proc[q].gen # NoGen => proc[q].gen # proc[p].gen
      BY <2>1 DEF IInv, Typed, Goto, Alone
    <3> QED BY <1>1, <1>2, <2>1, <3>1 DEF Holds, Held, Past, Active
  <2>3. retired' \in SUBSET Gens /\ active' \in Gens \cup {NoGen}
    BY <1>1, <2>1 DEF IInv, Typed
  <2> QED BY <1>1, <1>2, <2>1, <2>2, <2>3, ClaimKeeps
<1>3. CASE active # NoGen
  <2>1. /\ UNCHANGED active
        /\ proc' = [proc EXCEPT ![p].pc = "superseded", ![p].tries = @ + 1]
    BY <1>3 DEF Promote
  <2> QED BY <1>1, <2>1, RetryKeeps DEF files, Held, Past
<1> QED BY <1>2, <1>3

-----------------------------------------------------------------------------
(* A commit. *)

LEMMA TopIs ==
  ASSUME NEW T \in SUBSET Gens, NEW g \in T, \A h \in T : h <= g
  PROVE  (CHOOSE x \in T : \A h \in T : h <= x) = g
<1> DEFINE top == CHOOSE x \in T : \A h \in T : h <= x
<1>1. top \in T /\ \A h \in T : h <= top
  OBVIOUS
<1> HIDE DEF top
<1>2. top = g
  BY <1>1 DEF Gens
<1> QED BY <1>2 DEF top

\* Nobody else may commit any more, and what is committed becomes what is read.
LEMMA CommittedKeeps ==
  ASSUME IInv, NEW p \in Procs, proc[p].pc = "commit", Open(p),
         op' = [op EXCEPT ![proc[p].gen].is = "committed", ![proc[p].gen].state = proc[p].new],
         UNCHANGED <<active, retired, world>>,
         NEW r \in Results, NEW d \in Digests, Answer(p, r, d),
         r = "acknowledged" => d \in proc[p].new.acked,
         r = "notified" => d \in proc[p].new.offered \ proc[p].new.acked
  PROVE  IInv'
<1> DEFINE g == proc[p].gen
           n == proc[p].new
           c == [Idle EXCEPT !.pc = "done", !.result = r, !.d = d, !.before = proc[p].before]
<1>1. /\ g \in Gens /\ n \in States /\ Readable(n) /\ Within(readState, n)
      /\ proc[p].before \subseteq heard /\ heard \in SUBSET Digests /\ told \in SUBSET Digests
  BY DEF IInv, Typed, Calls, Holds, Held, Past, Grows
<1>2. /\ c.pc = "done" /\ c.gen = NoGen /\ c.result = r /\ c.d = d /\ c.low = {}
      /\ c.before = proc[p].before /\ c.new = emptyState
  BY IdleTyped DEF Idle
<1>3. c \in Calls
  <2>1. proc[p].before \in SUBSET Digests
    BY <1>1
  <2> QED BY <2>1, IdleTyped DEF Calls, Results, PCs
<1>4. proc' = [proc EXCEPT ![p] = c]
  BY DEF Answer
<1> HIDE DEF c
<1>5. /\ proc' \in [Procs -> Calls] /\ proc'[p] = c
      /\ \A q \in Procs \ {p} : proc'[q] = proc[q]
  BY <1>3, <1>4 DEF IInv, Typed
<1>6. /\ op' \in Ops /\ op'[g].is = "committed" /\ op'[g].state = n
      /\ \A h \in Gens \ {g} : op'[h] = op[h]
      /\ \A h \in Gens : op'[h].fresh = op[h].fresh
  BY <1>1 DEF IInv, Typed, Ops, Kinds
<1>7. /\ told' = IF r = "notified" THEN told \cup {d} ELSE told
      /\ heard' = IF r = "acknowledged" THEN heard \cup {d} ELSE heard
  BY DEF Answer
<1>8. readState' = n
  <2>1. CommittedGens' = CommittedGens \cup {g}
    <3>1. \A h \in Gens : h \in CommittedGens' <=> h \in CommittedGens \/ h = g
      BY <1>1, <1>6 DEF CommittedGens, Readable, Fits
    <3>2. CommittedGens' \in SUBSET Gens /\ CommittedGens \in SUBSET Gens
      BY DEF CommittedGens
    <3> QED BY <1>1, <3>1, <3>2
  <2>2. \A h \in CommittedGens : h <= g
    BY <1>1 DEF IInv, Highest, Past, CommittedGens, Gens
  <2>3. CommittedGens' \in SUBSET Gens /\ g \in CommittedGens' /\ \A h \in CommittedGens' : h <= g
    <3>1. CommittedGens \in SUBSET Gens
      BY DEF CommittedGens
    <3>2. g <= g
      BY <1>1 DEF Gens
    <3> QED BY <1>1, <2>1, <2>2, <3>1, <3>2
  <2>4. (CHOOSE x \in CommittedGens' : \A h \in CommittedGens' : h <= x) = g
    BY <2>3, TopIs
  <2> QED BY <1>6, <2>3, <2>4 DEF readState
<1>9. Typed'
  <2>1. \A h \in Gens : Readable(op'[h].state)
    BY <1>1, <1>6 DEF IInv, Typed
  <2>2. \A q \in Procs : Readable(proc'[q].new)
    BY <1>2, <1>5, EmptyState DEF IInv, Typed
  <2>3. told' \in SUBSET Digests /\ heard' \in SUBSET Digests
    BY <1>1, <1>7
  <2> QED BY <1>5, <1>6, <2>1, <2>2, <2>3 DEF IInv, Typed, world, Readable, Fits
<1>10. Claimed'
  BY <1>6 DEF IInv, Claimed
\* Every other call that came as far is fenced already, or below.
<1>11. ASSUME NEW q \in Procs \ {p}
       PROVE  /\ proc[q].gen \in Gens \cup {NoGen} /\ proc[q].gen # g
              /\ proc[q].pc \in Held => proc[q].gen \in Gens
              /\ proc[q].pc \in Past /\ Open(q) => proc[q].gen > g
              /\ proc[q].pc = "commit" => ~Open(q)
  <2>1. /\ proc[q].gen \in Gens \cup {NoGen} /\ (proc[q].pc \in Held => proc[q].gen \in Gens)
        /\ proc[q].gen # g
    BY <1>1 DEF IInv, Typed, Calls, Holds, Alone, Gens, NoGen
  <2>2. proc[q].pc \in Past /\ Open(q) => proc[q].gen > g
    <3>1. proc[p].low = {}
      BY DEF IInv, Emptied, Fenced
    <3>2. Listed(p, q)
      BY DEF IInv
    <3> QED BY <1>1, <2>1, <3>1, <3>2 DEF Listed, Fenced, Held, Gens
  <2>3. proc[q].pc = "commit" /\ Open(q) => ~(g < proc[q].gen)
    <3>1. proc[q].pc = "commit" => proc[q].low = {}
      BY DEF IInv, Emptied, Fenced
    <3>2. Listed(q, p)
      BY DEF IInv
    <3> QED BY <3>1, <3>2 DEF Listed, Fenced, Past
  <2> QED BY <1>1, <2>1, <2>2, <2>3 DEF Past, Held, Gens
<1>12. ASSUME NEW q \in Procs \ {p}
       PROVE  Holds(q)' /\ Emptied(q)' /\ Highest(q)' /\ Grows(q)'
  <2>1. /\ proc'[q] = proc[q] /\ proc[q].gen # g /\ proc[q].gen \in Gens \cup {NoGen}
        /\ proc[q] \in Calls
        /\ proc[q].pc \in Held => proc[q].gen \in Gens /\ op'[proc[q].gen] = op[proc[q].gen]
    BY <1>5, <1>6, <1>11 DEF IInv, Typed
  <2>2. Holds(q)'
    <3>1. Holds(q) /\ active' = active /\ retired' = retired
      BY DEF IInv
    <3>2. \A h \in Gens : op'[h].is = "pending" /\ op'[h].fresh => Active(h)
      BY <1>6 DEF Active
    <3>3. proc[q].seen \in Gens \cup {NoGen}
      BY <2>1 DEF Calls
    <3>4. proc[q].gen # NoGen => op'[proc[q].gen] = op[proc[q].gen]
      BY <1>6, <2>1
    <3>5. proc[q].pc \in {"retire", "moveaway"} => proc[q].seen # NoGen /\ ~Active(proc[q].seen)'
      BY <2>1, <3>1, <3>2, <3>3 DEF Holds, Active
    <3>6. proc[q].pc = "fetch" /\ Active(proc[q].gen)' => active = proc[q].gen
      BY <2>1, <3>1, <3>4 DEF Holds, Held, Past, Active
    <3>7. /\ proc[q].gen # NoGen => op'[proc[q].gen].is # "free"
          /\ proc[q].pc = "pending" => op'[proc[q].gen].is = "reserved"
      BY <2>1, <3>1, <3>4 DEF Holds, Held
    <3>8. proc'[q].gen = proc[q].gen /\ proc'[q].seen = proc[q].seen /\ proc'[q].pc = proc[q].pc
      BY <2>1
    <3> QED BY <3>1, <3>5, <3>6, <3>7, <3>8 DEF Holds, Active
  <2>3. Emptied(q)'
    BY <2>1 DEF IInv, Emptied
  <2>4. Highest(q)'
    <3>1. proc[q].pc \in Past /\ Open(q)' => Open(q) /\ proc[q].gen > g
      BY <1>11, <2>1 DEF Open, Held
    <3>2. ASSUME proc[q].pc \in Past, Open(q)', NEW h \in Gens, h > proc[q].gen
          PROVE  op'[h].is # "committed"
      <4>1. Open(q) /\ proc[q].gen > g /\ proc[q].gen \in Gens
        BY <2>1, <3>1, <3>2 DEF Held
      <4>2. h # g
        BY <1>1, <3>2, <4>1 DEF Gens
      <4>3. op[h].is # "committed"
        BY <3>2, <4>1 DEF IInv, Highest
      <4> QED BY <1>6, <4>2, <4>3
    <3> QED BY <2>1, <3>2 DEF Highest
  <2>5. Grows(q)'
    <3>1. proc[q].pc = "commit" => ~Open(q)'
      BY <1>11, <2>1 DEF Open, Held, Past
    <3> QED BY <1>7, <2>1, <3>1 DEF IInv, Grows
  <2> QED BY <2>2, <2>3, <2>4, <2>5
<1>13. Holds(p)' /\ Emptied(p)' /\ Highest(p)' /\ Grows(p)'
  BY <1>1, <1>2, <1>5, <1>7 DEF Holds, Emptied, Highest, Grows, Held, Past, Fenced
<1>14. ASSUME NEW q \in Procs, NEW s \in Procs PROVE Alone(q, s)' /\ Listed(q, s)'
  <2>1. CASE q = p \/ s = p
    BY <1>2, <1>5, <2>1 DEF Alone, Listed, Past, Fenced
  <2>2. CASE q # p /\ s # p
    <3>1. proc'[q] = proc[q] /\ proc'[s] = proc[s]
      BY <1>5, <2>2
    <3>2. proc[s].pc \in Past /\ Open(s)' => Open(s)
      BY <1>6, <1>11, <2>2, <3>1 DEF Open, Held
    <3> QED BY <3>1, <3>2 DEF IInv, Alone, Listed
  <2> QED BY <2>1, <2>2
<1>15. NothingLost'
  BY <1>1, <1>7, <1>8 DEF IInv, NothingLost, Within
<1>16. NoNagging'
  <2>1. r = "notified" => d \notin proc[p].before
    BY <1>1 DEF IInv, NothingLost, Within
  <2> QED BY <1>2, <1>5, <2>1 DEF IInv, NoNagging
<1>17. \A q \in Procs : Holds(q)' /\ Emptied(q)' /\ Highest(q)' /\ Grows(q)'
  BY <1>12, <1>13
<1> QED BY <1>9, <1>10, <1>14, <1>15, <1>16, <1>17 DEF IInv

LEMMA CommitKeeps == ASSUME IInv, NEW p \in Procs, Commit(p) PROVE IInv'
<1> DEFINE g == proc[p].gen
           n == proc[p].new
<1>1. /\ proc[p].pc = "commit" /\ UNCHANGED <<active, retired, world>>
      /\ n \in States /\ Readable(n) /\ proc[p].d \in Digests
      /\ proc[p].call = "ack" => proc[p].d \in n.acked
  BY DEF Commit, At, IInv, Typed, Calls, Grows
<1>2. CASE op[g].is = "pending"
  <2>1. op' = [op EXCEPT ![g].is = "committed", ![g].state = n] /\ Open(p)
    BY <1>2 DEF Commit, Open
  <2>2. CASE proc[p].call = "ack"
    <3>1. Answer(p, "acknowledged", proc[p].d)
      BY <1>2, <2>2 DEF Commit
    <3> QED BY <1>1, <2>1, <2>2, <3>1, CommittedKeeps DEF Results
  <2>3. CASE Answer(p, "silent", 0)
    <3>1. 0 \in Digests
      BY DEF Digests
    <3> QED BY <1>1, <2>1, <2>3, <3>1, CommittedKeeps DEF Results
  <2>4. CASE AnswerFrom(p, n)
    <3> DEFINE r == resultForCandidate(n)
    <3>1. /\ r \in {"notified", "silent"} /\ n.candidate \in Digests
          /\ r = "notified" => n.candidate \in n.offered \ n.acked
      BY <1>1 DEF resultForCandidate, States, Readable
    <3>2. Answer(p, r, n.candidate)
      BY <2>4 DEF AnswerFrom
    <3> HIDE DEF r
    <3> QED BY <1>1, <2>1, <3>1, <3>2, CommittedKeeps DEF Results
  <2>5. proc[p].call = "ack" \/ Answer(p, "silent", 0) \/ AnswerFrom(p, n)
    <3>1. CASE proc[p].call # "ack"
      BY <1>2, <3>1 DEF Commit
    <3> QED BY <3>1
  <2> QED BY <2>2, <2>3, <2>4, <2>5
<1>3. CASE op[g].is # "pending"
  BY <1>1, <1>3, CutKeeps, QuietFiles DEF Commit, IInv
<1> QED BY <1>2, <1>3

-----------------------------------------------------------------------------
(* The surroundings, and all steps. *)

\* Leases run out; time and releases go on.
LEMMA WorldKeeps ==
  ASSUME IInv, Timely, op' \in Ops, UNCHANGED <<active, retired, proc, history>>,
         \A g \in Gens : /\ op'[g].is = op[g].is /\ op'[g].state = op[g].state
                         /\ op'[g].fresh => op[g].fresh
  PROVE  IInv'
<1>1. Typed'
  <2>1. \A g \in Gens : Readable(op'[g].state)
    BY DEF IInv, Typed
  <2> QED BY <2>1 DEF IInv, Typed, Timely, history, Readable, Fits
<1>2. Claimed'
  BY DEF IInv, Claimed
<1>3. readState' = readState
  <2>1. CommittedGens' = CommittedGens
    BY DEF CommittedGens, Readable, Fits
  <2>2. CASE CommittedGens = {}
    BY <2>1, <2>2 DEF readState
  <2>3. CASE CommittedGens # {}
    <3> DEFINE top == CHOOSE g \in CommittedGens : \A h \in CommittedGens : h <= g
    <3>1. CommittedGens \in SUBSET Gens
      BY DEF CommittedGens
    <3>2. top \in Gens
      BY <2>3, <3>1, MaxExists
    <3>3. readState = op[top].state /\ readState' = op'[top].state
      BY <2>1, <2>3 DEF readState
    <3> HIDE DEF top
    <3> QED BY <3>2, <3>3
  <2> QED BY <2>2, <2>3
<1>4. ASSUME NEW q \in Procs PROVE Holds(q)' /\ Emptied(q)' /\ Highest(q)' /\ Grows(q)'
  <2>1. /\ proc[q].gen \in Gens \cup {NoGen} /\ proc[q].seen \in Gens \cup {NoGen}
        /\ proc[q].pc \in Held => proc[q].gen \in Gens
    BY DEF IInv, Typed, Calls, Holds
  <2>2. Holds(q)'
    BY <2>1 DEF IInv, Holds, Held, Past, Active
  <2>3. Emptied(q)'
    BY DEF IInv, Emptied
  <2>4. Open(q)' /\ proc[q].pc \in Past => Open(q)
    BY <2>1 DEF Open, Held
  <2>5. Highest(q)' /\ Grows(q)'
    BY <1>3, <2>4 DEF IInv, Highest, Grows, Past, history, Within
  <2> QED BY <2>2, <2>3, <2>5
<1>5. ASSUME NEW q \in Procs, NEW r \in Procs PROVE Alone(q, r)' /\ Listed(q, r)'
  <2>1. Open(r)' /\ proc[r].pc \in Past => Open(r)
    BY DEF IInv, Typed, Calls, Holds, Open, Held
  <2> QED BY <2>1 DEF IInv, Alone, Listed
<1>6. NothingLost' /\ NoNagging'
  BY <1>3 DEF IInv, NothingLost, NoNagging, history
<1> QED BY <1>1, <1>2, <1>4, <1>5, <1>6 DEF IInv

LEMMA ExpireLeaseKeeps == ASSUME IInv, NEW g \in Gens, ExpireLease(g) PROVE IInv'
<1>1. Timely
  BY DEF IInv, Typed, ExpireLease, Spend, Timely
<1>2. /\ op' \in Ops
      /\ \A h \in Gens : /\ op'[h].is = op[h].is /\ op'[h].state = op[h].state
                         /\ op'[h].fresh => op[h].fresh
  BY DEF IInv, Typed, ExpireLease, Ops
<1> QED BY <1>1, <1>2, WorldKeeps DEF ExpireLease

LEMMA PublishKeeps == ASSUME IInv, Publish PROVE IInv'
<1>1. Timely
  BY DEF IInv, Typed, Publish, Spend, Timely
<1> QED BY <1>1, WorldKeeps DEF Publish, files, IInv, Typed

LEMMA TickKeeps == ASSUME IInv, Tick PROVE IInv'
<1>1. Timely
  BY DEF IInv, Typed, Tick, Timely
<1> QED BY <1>1, WorldKeeps DEF Tick, files, IInv, Typed

LEMMA StutterKeeps == ASSUME IInv, UNCHANGED vars PROVE IInv'
<1>1. Timely
  BY InPlace DEF IInv, vars, world
<1> QED BY <1>1, WorldKeeps DEF vars, history, IInv, Typed

\* A step keeps the invariant, and takes a claim only when its lease has run out.
LEMMA ProcKeeps ==
  ASSUME IInv, NEW p \in Procs, Step(p)
  PROVE  IInv' /\ (active # NoGen /\ active' # active => ~Active(active))
<1>1. CASE Check(p)
  BY <1>1, CheckKeeps DEF Check, files
<1>2. CASE \E d \in Digests : Acknowledge(p, d)
  BY <1>2, AcknowledgeKeeps DEF Acknowledge, files
<1>3. CASE Acquire(p)
  BY <1>3, AcquireKeeps DEF Acquire, files
<1>4. CASE NonePending(p)
  BY <1>4, NonePendingKeeps DEF NonePending, files
<1>5. CASE Reserve(p)
  BY <1>5, ReserveKeeps DEF Reserve
<1>6. CASE MakePending(p)
  BY <1>6, MakePendingKeeps DEF MakePending
<1>7. CASE WriteOwner(p)
  BY <1>7, WriteOwnerKeeps DEF WriteOwner
<1>8. CASE GiveWay(p)
  BY <1>8, GiveWayKeeps DEF GiveWay, files
<1>9. CASE Cancel(p)
  BY <1>9, CancelKeeps DEF Cancel
<1>10. CASE Inspect(p)
  BY <1>10, InspectKeeps DEF Inspect, files
<1>11. CASE Retire(p)
  BY <1>11, RetireKeeps DEF Retire, files
<1>12. CASE MoveAway(p)
  BY <1>12, MoveAwayKeeps
<1>13. CASE Gone(p)
  BY <1>13, GoneKeeps DEF Gone, files
<1>14. CASE Promote(p)
  BY <1>14, PromoteKeeps
<1>15. CASE Promoted(p)
  BY <1>15, PromotedKeeps DEF Promoted, files
<1>16. CASE Reread(p)
  BY <1>16, RereadKeeps DEF Reread
<1>17. CASE Owns(p)
  BY <1>17, OwnsKeeps DEF Owns, files
<1>18. CASE Fetch(p)
  BY <1>18, FetchKeeps DEF Fetch, files
<1>19. CASE List(p)
  BY <1>19, ListKeeps DEF List, files
<1>20. CASE Fence(p)
  BY <1>20, FenceKeeps DEF Fence
<1>21. CASE Mutate(p)
  BY <1>21, MutateKeeps DEF Mutate
<1>22. CASE Commit(p)
  BY <1>22, CommitKeeps DEF Commit
<1>23. CASE Crash(p)
  BY <1>23, CrashKeeps DEF Crash, files
<1>24. CASE Again(p)
  BY <1>24, AgainKeeps DEF Again, files
<1> QED
  BY <1>1, <1>2, <1>3, <1>4, <1>5, <1>6, <1>7, <1>8, <1>9, <1>10, <1>11, <1>12, <1>13, <1>14,
     <1>15, <1>16, <1>17, <1>18, <1>19, <1>20, <1>21, <1>22, <1>23, <1>24 DEF Step

LEMMA NextKeeps ==
  ASSUME IInv, [Next]_vars
  PROVE  IInv' /\ (active # NoGen /\ active' # active => ~Active(active))
<1>1. CASE \E p \in Procs : Step(p)
  BY <1>1, ProcKeeps
<1>2. CASE \E g \in Gens : ExpireLease(g)
  BY <1>2, ExpireLeaseKeeps DEF ExpireLease
<1>3. CASE Publish
  BY <1>3, PublishKeeps DEF Publish, files
<1>4. CASE Tick
  BY <1>4, TickKeeps DEF Tick, files
<1>5. CASE UNCHANGED vars
  BY <1>5, StutterKeeps DEF vars
<1> QED BY <1>1, <1>2, <1>3, <1>4, <1>5 DEF Next

LEMMA InitIInv == Init => IInv
<1> SUFFICES ASSUME Init PROVE IInv
  OBVIOUS
<1>1. op \in Ops
  BY EmptyState DEF Init, Ops, Kinds
<1>2. Idle.pc = "start" /\ Idle.gen = NoGen /\ Idle.result = "none" /\ Idle.before = {}
  BY DEF Idle
<1>3. \A q \in Procs : proc[q] = Idle
  BY DEF Init
<1>4. Typed
  BY <1>1, <1>3, EmptyState, IdleTyped DEF Init, Typed
<1>5. Claimed
  BY DEF Init, Claimed, Gens, NoGen
<1>6. \A q \in Procs : Holds(q) /\ Emptied(q) /\ Highest(q) /\ Grows(q)
  BY <1>2, <1>3 DEF Holds, Emptied, Highest, Grows, Held, Past, Fenced
<1>7. \A q, r \in Procs : Alone(q, r) /\ Listed(q, r)
  BY <1>2, <1>3 DEF Alone, Listed, Fenced
<1>8. NothingLost /\ NoNagging
  BY <1>2, <1>3 DEF Init, NothingLost, NoNagging
<1> QED BY <1>4, <1>5, <1>6, <1>7, <1>8 DEF IInv

\* What the invariant gives: a running lease at a fetch is the lease of the claim.
LEMMA IInvImplies == IInv => TypeOK /\ NothingLost /\ NoNagging /\ SingleFlight
<1> SUFFICES ASSUME IInv PROVE TypeOK /\ SingleFlight
  BY DEF IInv
<1>1. TypeOK
  BY DEF IInv, Typed, TypeOK, Ops
<1>2. SingleFlight
  <2> SUFFICES ASSUME NEW p \in Procs, NEW q \in Procs, p # q, At(p, "fetch"), At(q, "fetch"),
                      Active(proc[p].gen), Active(proc[q].gen)
               PROVE  FALSE
    BY DEF SingleFlight
  <2>1. active = proc[p].gen /\ active = proc[q].gen /\ proc[p].gen # NoGen
    BY DEF IInv, Holds, At, Held, Past
  <2> QED BY <2>1 DEF IInv, Alone
<1> QED BY <1>1, <1>2

-----------------------------------------------------------------------------
(* Theorems. *)

LEMMA Inductive == Spec => []IInv
<1>1. Init => IInv
  BY InitIInv
<1>2. IInv /\ [Next]_vars => IInv'
  BY NextKeeps
<1> QED BY <1>1, <1>2, PTL DEF Spec

\* Every state that is committed can be read back (commitOperation, normalizeState).
THEOREM CommitsReadable == Spec => []TypeOK
<1>1. IInv => TypeOK
  BY IInvImplies
<1> QED BY <1>1, Inductive, PTL

\* No announcement and no confirmed acknowledgement is ever lost (fenceLowerOperations
\* before commitOperation, whoever stalls, crashes or wakes up in between).
THEOREM AcknowledgementsLast == Spec => []NothingLost
<1>1. IInv => NothingLost
  BY IInvImplies
<1> QED BY <1>1, Inductive, PTL

\* A call begun after an acknowledgement was confirmed never announces that release
\* (resultForCandidate).
THEOREM NeverNags == Spec => []NoNagging
<1>1. IInv => NoNagging
  BY IInvImplies
<1> QED BY <1>1, Inductive, PTL

\* Two running leases never fetch at the same time (operationOwnsActiveClaim).
THEOREM OneFlight == Spec => []SingleFlight
<1>1. IInv => SingleFlight
  BY IInvImplies
<1> QED BY <1>1, Inductive, PTL

\* No step takes the claim of an operation whose lease runs (retireActiveClaim).
THEOREM ClaimsLast == Spec => LiveClaimKept
<1>1. IInv /\ [Next]_vars => [active # NoGen /\ active' # active => ~Active(active)]_vars
  BY NextKeeps
<1> QED BY <1>1, Inductive, PTL DEF Spec, LiveClaimKept

=============================================================================
