------------------------- MODULE CompletionsProofs -------------------------
(***************************************************************************)
(* For every set of ids, routes and processes, every capacity and every    *)
(* bound: Completions keeps its inductive invariant, and so ExactlyOnce,   *)
(* ArrivalOrder, NoResurrection and NotLost.                               *)
(***************************************************************************)
EXTENDS Completions, TLAPS

USE CompletionsAssumption

-----------------------------------------------------------------------------
(* Sequences. *)

LEMMA AppendHolds ==
  ASSUME NEW S, NEW s \in Seq(S), NEW e \in S, NEW x
  PROVE  InSeq(x, Append(s, e)) <=> InSeq(x, s) \/ x = e
<1>1. Len(Append(s, e)) = Len(s) + 1 /\ Len(s) \in Nat
  OBVIOUS
<1>2. \A i \in 1 .. Len(s) : Append(s, e)[i] = s[i]
  OBVIOUS
<1>3. Append(s, e)[Len(s) + 1] = e
  OBVIOUS
<1> QED BY <1>1, <1>2, <1>3 DEF InSeq

LEMMA TailHolds ==
  ASSUME NEW S, NEW s \in Seq(S), s # <<>>, NEW x
  PROVE  /\ InSeq(x, Tail(s)) => InSeq(x, s)
         /\ InSeq(x, s) => x = Head(s) \/ InSeq(x, Tail(s))
<1>1. Len(s) \in Nat \ {0} /\ Len(Tail(s)) = Len(s) - 1 /\ Head(s) = s[1]
  OBVIOUS
<1>2. \A i \in 1 .. Len(s) - 1 : Tail(s)[i] = s[i + 1]
  OBVIOUS
<1>3. ASSUME NEW i \in 1 .. Len(s), i # 1
      PROVE  i - 1 \in 1 .. Len(s) - 1 /\ Tail(s)[i - 1] = s[i]
  BY <1>1, <1>2, <1>3
<1>4. ASSUME NEW i \in 1 .. Len(s) - 1
      PROVE  i + 1 \in 1 .. Len(s) /\ Tail(s)[i] = s[i + 1]
  BY <1>1, <1>2
<1> QED BY <1>1, <1>3, <1>4 DEF InSeq

-----------------------------------------------------------------------------
(* What a step leaves alone. *)

\* Routes are bound to more ids, never to other ones.
RoutesGrow == \A a \in Ids : routes[a] # None => routes'[a] = routes[a]
\* A process that was started stays the process it was.
ProcsGrow == \A p \in Procs : proc[p] # "none" => proc'[p] # "none" /\ key'[p] = key[p]

LEMMA PendingFrame ==
  ASSUME TypeOK, PendingInv, RoutesGrow, ProcsGrow, UNCHANGED <<pending, delivered>>
  PROVE  PendingInv'
<1> SUFFICES ASSUME NEW r \in Routes, NEW i \in 1 .. Len(pending[r])
             PROVE  /\ key'[pending[r][i]] # None /\ proc'[pending[r][i]] # "none"
                    /\ routes'[key'[pending[r][i]]] = r
                    /\ pending[r][i] \notin delivered
                    /\ \A j \in 1 .. Len(pending[r]) : pending[r][i] = pending[r][j] => i = j
  BY DEF PendingInv
<1>1. pending[r][i] \in Procs
  BY DEF TypeOK
<1> QED BY <1>1 DEF PendingInv, RoutesGrow, ProcsGrow, TypeOK

LEMMA HeadFrame ==
  ASSUME TypeOK, HeadInv, ProcsGrow, UNCHANGED <<pending, delivered, resumed, head, route, pc>>,
         \A r \in Routes : aliases[r] \subseteq aliases'[r] /\ (tip[r] # None => tip'[r] # None)
  PROVE  HeadInv'
BY DEF HeadInv, ProcsGrow, TypeOK, InSeq

LEMMA KeyFrame ==
  ASSUME TypeOK, KeyInv, ProcsGrow, UNCHANGED <<queue, event>>,
         \A p \in Procs : proc'[p] # "none" => key'[p] # None
  PROVE  KeyInv'
<1>1. \A i \in 1 .. Len(queue) : queue[i] \in Procs
  BY DEF TypeOK
<1> QED BY <1>1 DEF KeyInv, ProcsGrow, TypeOK

LEMMA ResumedFrame ==
  ASSUME ResumedInv, ExactlyOnce, UNCHANGED <<resumed, delivered, pc, head>>
  PROVE  ResumedInv' /\ ExactlyOnce'
BY DEF ResumedInv, ExactlyOnce

LEMMA InitIInv == Init => IInv
<1> SUFFICES ASSUME Init PROVE IInv
  OBVIOUS
<1>1. TypeOK
  BY DEF Init, TypeOK
<1>2. RouteInv /\ KeyInv /\ HeadInv
  BY DEF Init, RouteInv, KeyInv, HeadInv
<1>3. \A r \in Routes : Len(pending[r]) = 0 /\ Len(resumed[r]) = 0
  BY DEF Init
<1>4. PendingInv /\ ResumedInv /\ ExactlyOnce
  BY <1>3 DEF PendingInv, ResumedInv, ExactlyOnce
<1> QED BY <1>1, <1>2, <1>4 DEF IInv

-----------------------------------------------------------------------------
(* Admission.  The route is the id's own, or a fresh one. *)

LEMMA AdmitFacts ==
  ASSUME TypeOK, RouteInv, NEW i \in Ids, NEW r \in Routes, Admit(i, r),
         \/ routes[i] = r
         \/ routes[i] = None /\ aliases[r] = {},
         minted' \in SUBSET Ids, minted \subseteq minted', i \in minted'
  PROVE  /\ RoutesGrow /\ RouteInv'
         /\ \A q \in Routes : aliases[q] \subseteq aliases'[q] /\ (tip[q] # None => tip'[q] # None)
         /\ turn' \in [Ids -> {"none", "running", "unwinding"}]
         /\ home' \in [Ids -> Ids \cup {None}] /\ shed' \in [Ids -> Nat]
         /\ routes' \in [Ids -> Routes \cup {None}]
         /\ tip' \in [Routes -> Ids \cup {None}] /\ aliases' \in [Routes -> SUBSET Ids]
         /\ forgotten' \in SUBSET Ids
<1> DEFINE als == aliases[r] \cup {i}
<1>0. /\ routes' = [a \in Ids |-> IF a \in als THEN r ELSE routes[a]]
      /\ tip' = [tip EXCEPT ![r] = i] /\ aliases' = [aliases EXCEPT ![r] = als]
      /\ turn' = [turn EXCEPT ![i] = "running"] /\ home' = [home EXCEPT ![i] = i]
      /\ forgotten' = forgotten \ als
  BY DEF Admit
<1>1. \A a \in als : routes[a] = None \/ routes[a] = r
  BY DEF RouteInv
<1>2. RoutesGrow
  BY <1>0, <1>1 DEF RoutesGrow
<1>3. als \in SUBSET Ids
  BY DEF TypeOK
<1>4. /\ turn' \in [Ids -> {"none", "running", "unwinding"}]
      /\ home' \in [Ids -> Ids \cup {None}]
      /\ routes' \in [Ids -> Routes \cup {None}]
      /\ tip' \in [Routes -> Ids \cup {None}] /\ aliases' \in [Routes -> SUBSET Ids]
      /\ forgotten' \in SUBSET Ids
  BY <1>0, <1>3 DEF TypeOK
<1>5. shed' \in [Ids -> Nat]
  BY DEF TypeOK, Admit
<1>6. \A q \in Routes : /\ aliases'[q] = IF q = r THEN als ELSE aliases[q]
                        /\ tip'[q] = IF q = r THEN i ELSE tip[q]
  BY <1>0 DEF TypeOK
<1>7. \A a \in Ids : /\ routes'[a] = IF a \in als THEN r ELSE routes[a]
                     /\ home'[a] = IF a = i THEN i ELSE home[a]
                     /\ turn'[a] = IF a = i THEN "running" ELSE turn[a]
  BY <1>0 DEF TypeOK
<1>8. RouteInv'
  <2>1. \A q \in Routes : aliases'[q] \subseteq minted'
    BY <1>6 DEF RouteInv
  <2>2. ASSUME NEW a \in Ids, routes'[a] # None
        PROVE  /\ a \in aliases'[routes'[a]] /\ tip'[routes'[a]] \in aliases'[routes'[a]]
               /\ \A b \in aliases'[routes'[a]] : routes'[b] = routes'[a]
    <3>1. CASE a \in als
      BY <3>1, <1>3, <1>6, <1>7
    <3>2. CASE a \notin als
      <4>1. routes'[a] = routes[a] /\ routes[a] \in Routes
        BY <3>2, <1>7, <2>2 DEF TypeOK
      <4>2. routes[a] # r
        BY <3>2, <4>1, <1>1 DEF RouteInv, TypeOK
      <4>3. \A b \in aliases[routes[a]] : b \in Ids /\ routes[b] = routes[a]
        BY <4>1 DEF RouteInv, TypeOK
      <4>4. \A b \in aliases[routes[a]] : b \notin als
        BY <4>1, <4>2, <4>3, <1>1
      <4>5. aliases'[routes[a]] = aliases[routes[a]] /\ tip'[routes[a]] = tip[routes[a]]
        BY <4>1, <4>2, <1>6
      <4>6. a \in aliases[routes[a]] /\ tip[routes[a]] \in aliases[routes[a]]
        BY <4>1 DEF RouteInv
      <4> QED BY <4>1, <4>3, <4>4, <4>5, <4>6, <1>7
    <3> QED BY <3>1, <3>2
  <2>3. \A a \in Ids : turn'[a] # "none" => home'[a] # None
    BY <1>7 DEF RouteInv
  <2> QED BY <2>1, <2>2, <2>3 DEF RouteInv
<1> QED BY <1>2, <1>4, <1>5, <1>6, <1>8
LEMMA UserStartStep ==
  ASSUME IInv, NEW i \in Ids, UserStart(i)
  PROVE  IInv'
<1>1. PICK r \in Routes :
         /\ IF routes[i] = None THEN aliases[r] = {} ELSE r = routes[i]
         /\ Admit(i, r)
  BY DEF UserStart
<1>2. /\ minted' = minted \cup {i} /\ starts' = starts + 1
      /\ UNCHANGED <<procVars, bookVars, threadVars, repeats, faults>>
  BY DEF UserStart
<1>3. /\ RoutesGrow /\ RouteInv'
      /\ \A q \in Routes : aliases[q] \subseteq aliases'[q] /\ (tip[q] # None => tip'[q] # None)
      /\ turn' \in [Ids -> {"none", "running", "unwinding"}]
      /\ home' \in [Ids -> Ids \cup {None}] /\ shed' \in [Ids -> Nat]
      /\ routes' \in [Ids -> Routes \cup {None}]
      /\ tip' \in [Routes -> Ids \cup {None}] /\ aliases' \in [Routes -> SUBSET Ids]
      /\ forgotten' \in SUBSET Ids
  BY <1>1, <1>2, AdmitFacts DEF IInv, TypeOK
<1>4. ProcsGrow
  BY <1>2 DEF ProcsGrow, procVars
<1>5. TypeOK'
  BY <1>2, <1>3 DEF IInv, TypeOK, procVars, bookVars, threadVars
<1>6. PendingInv' /\ HeadInv' /\ KeyInv'
  BY <1>2, <1>3, <1>4, PendingFrame, HeadFrame, KeyFrame
     DEF IInv, procVars, bookVars, threadVars, KeyInv
<1>7. ResumedInv' /\ ExactlyOnce'
  BY <1>2, ResumedFrame DEF IInv, bookVars, threadVars
<1> QED BY <1>3, <1>5, <1>6, <1>7 DEF IInv

LEMMA RotateStep ==
  ASSUME IInv, NEW i \in Ids, NEW n \in Ids, Rotate(i, n)
  PROVE  IInv'
<1> DEFINE r == routes[i]
<1>0. /\ turn[i] = "running" /\ r \in Routes /\ n \notin minted
      /\ minted' = minted \cup {n}
      /\ turn' = [turn EXCEPT ![i] = "none", ![n] = "running"]
      /\ home' = [home EXCEPT ![i] = None, ![n] = home[i]]
      /\ tip' = [tip EXCEPT ![r] = n]
      /\ aliases' = [aliases EXCEPT ![r] = @ \cup {i, n}]
      /\ routes' = [routes EXCEPT ![n] = r]
      /\ forgotten' = forgotten \ {n}
      /\ UNCHANGED <<shed, procVars, bookVars, threadVars, boundVars>>
  BY DEF Rotate, IInv, TypeOK
<1>1. routes[n] = None /\ i # n /\ i \in aliases[r]
  BY <1>0 DEF IInv, RouteInv, TypeOK
<1>2. RoutesGrow
  BY <1>0, <1>1 DEF RoutesGrow, IInv, TypeOK
<1>3. ProcsGrow
  BY <1>0 DEF ProcsGrow, procVars
<1>4. \A q \in Routes : /\ aliases'[q] = IF q = r THEN aliases[r] \cup {n} ELSE aliases[q]
                        /\ tip'[q] = IF q = r THEN n ELSE tip[q]
  <2>1. aliases[r] \cup {i, n} = aliases[r] \cup {n}
    BY <1>1
  <2>2. aliases' = [aliases EXCEPT ![r] = aliases[r] \cup {n}]
    BY <1>0, <2>1
  <2>3. aliases \in [Routes -> SUBSET Ids] /\ tip \in [Routes -> Ids \cup {None}]
    BY DEF IInv, TypeOK
  <2>4. \A q \in Routes : aliases'[q] = IF q = r THEN aliases[r] \cup {n} ELSE aliases[q]
    BY <2>2, <2>3
  <2>5. \A q \in Routes : tip'[q] = IF q = r THEN n ELSE tip[q]
    BY <1>0, <2>3
  <2> QED BY <2>4, <2>5
<1>5. \A a \in Ids : routes'[a] = IF a = n THEN r ELSE routes[a]
  BY <1>0 DEF IInv, TypeOK
<1>6. RouteInv'
  <2>1. \A q \in Routes : aliases'[q] \subseteq minted'
    BY <1>0, <1>4 DEF IInv, RouteInv
  <2>2. ASSUME NEW a \in Ids, routes'[a] # None
        PROVE  /\ a \in aliases'[routes'[a]] /\ tip'[routes'[a]] \in aliases'[routes'[a]]
               /\ \A b \in aliases'[routes'[a]] : routes'[b] = routes'[a]
    <3>1. CASE routes'[a] = r
      <4>1. a = n \/ routes[a] = r
        BY <3>1, <1>5
      <4>2. a \in aliases[r] \cup {n} /\ \A b \in aliases[r] : routes[b] = r /\ b \in Ids
        BY <4>1, <1>0, <1>1 DEF IInv, RouteInv, TypeOK
      <4> QED BY <3>1, <4>2, <1>0, <1>4, <1>5
    <3>2. CASE routes'[a] # r
      <4>1. a # n /\ routes'[a] = routes[a] /\ routes[a] \in Routes
        BY <3>2, <2>2, <1>5 DEF IInv, TypeOK
      <4>2. /\ a \in aliases[routes[a]] /\ tip[routes[a]] \in aliases[routes[a]]
            /\ \A b \in aliases[routes[a]] : routes[b] = routes[a] /\ b \in Ids /\ b # n
        BY <4>1, <1>0 DEF IInv, RouteInv, TypeOK
      <4> QED BY <3>2, <4>1, <4>2, <1>4, <1>5
    <3> QED BY <3>1, <3>2
  <2>3. \A a \in Ids : turn'[a] # "none" => home'[a] # None
    BY <1>0, <1>1 DEF IInv, RouteInv, TypeOK
  <2> QED BY <2>1, <2>2, <2>3 DEF RouteInv
<1>7. TypeOK'
  <2>1. /\ turn' \in [Ids -> {"none", "running", "unwinding"}]
        /\ home' \in [Ids -> Ids \cup {None}]
        /\ tip' \in [Routes -> Ids \cup {None}]
        /\ aliases' \in [Routes -> SUBSET Ids]
        /\ routes' \in [Ids -> Routes \cup {None}]
        /\ minted' \in SUBSET Ids /\ forgotten' \in SUBSET Ids
    BY <1>0 DEF IInv, TypeOK
  <2> QED BY <1>0, <2>1 DEF IInv, TypeOK, procVars, bookVars, threadVars, boundVars
<1>8. PendingInv' /\ KeyInv'
  BY <1>0, <1>2, <1>3, PendingFrame, KeyFrame DEF IInv, KeyInv, procVars, bookVars, threadVars
<1>9. HeadInv'
  <2>1. \A q \in Routes : aliases[q] \subseteq aliases'[q] /\ (tip[q] # None => tip'[q] # None)
    BY <1>4
  <2> QED BY <1>0, <1>3, <2>1, HeadFrame DEF IInv, bookVars, threadVars
<1>10. ResumedInv' /\ ExactlyOnce'
  BY <1>0, ResumedFrame DEF IInv, bookVars, threadVars
<1> QED BY <1>6, <1>7, <1>8, <1>9, <1>10 DEF IInv

\* The end and the unwinding of a turn.
LEMMA TurnEndStep ==
  ASSUME IInv, NEW i \in Ids, Finish(i) \/ Settle(i)
  PROVE  IInv'
<1>1. UNCHANGED <<minted, routeVars, procVars, bookVars, threadVars, boundVars>>
  BY DEF Finish, Settle
<1>2. /\ turn' \in [Ids -> {"none", "running", "unwinding"}]
      /\ home' \in [Ids -> Ids \cup {None}]
      /\ \A a \in Ids : turn'[a] # "none" => home'[a] # None
  <2>1. CASE UNCHANGED <<turn, home>>
    BY <2>1 DEF IInv, TypeOK, RouteInv
  <2>2. CASE turn[i] = "running" /\ turn' = [turn EXCEPT ![i] = "unwinding"] /\ UNCHANGED home
    BY <2>2 DEF IInv, TypeOK, RouteInv
  <2>3. CASE turn' = [turn EXCEPT ![i] = "none"] /\ home' = [home EXCEPT ![i] = None]
    BY <2>3 DEF IInv, TypeOK, RouteInv
  <2> QED BY <2>1, <2>2, <2>3 DEF Finish, Settle
<1>3. shed' \in [Ids -> Nat]
  BY DEF Finish, Settle, IInv, TypeOK
<1>4. TypeOK'
  BY <1>1, <1>2, <1>3 DEF IInv, TypeOK, routeVars, procVars, bookVars, threadVars, boundVars
<1>5. RoutesGrow /\ ProcsGrow
  BY <1>1 DEF RoutesGrow, ProcsGrow, routeVars, procVars
<1>6. RouteInv'
  BY <1>1, <1>2 DEF IInv, RouteInv, routeVars
<1>7. PendingInv' /\ HeadInv' /\ KeyInv'
  BY <1>1, <1>5, PendingFrame, HeadFrame, KeyFrame
     DEF IInv, KeyInv, routeVars, procVars, bookVars, threadVars
<1>8. ResumedInv' /\ ExactlyOnce'
  BY <1>1, ResumedFrame DEF IInv, bookVars, threadVars
<1> QED BY <1>4, <1>6, <1>7, <1>8 DEF IInv

(* Deleting a conversation unbinds all of it, and nothing of another one. *)
LEMMA FamilyFacts ==
  ASSUME TypeOK, RouteInv, NEW i \in Ids, NEW a \in Ids, a \notin Family(i), routes[a] # None
  PROVE  /\ routes[a] # routes[i]
         /\ \A b \in aliases[routes[a]] : b \notin Family(i)
<1>1. routes[a] \in Routes
  BY DEF TypeOK
<1>2. a # i /\ (routes[i] # None => a \notin aliases[routes[i]])
  BY DEF Family
<1>3. routes[a] # routes[i]
  BY <1>1, <1>2 DEF RouteInv
<1>4. \A b \in aliases[routes[a]] : b \in Ids /\ routes[b] = routes[a]
  BY <1>1 DEF RouteInv, TypeOK
<1>5. \A b \in Family(i) : b = i \/ routes[b] = routes[i]
  BY DEF Family, RouteInv
<1> QED BY <1>3, <1>4, <1>5

LEMMA ForgetStep ==
  ASSUME IInv, NEW i \in Ids, forget_sessions(i)
  PROVE  IInv'
<1>0. /\ pending' = [r \in Routes |-> IF r = routes[i] THEN <<>> ELSE pending[r]]
      /\ routes' = [a \in Ids |-> IF a \in Family(i) THEN None ELSE routes[a]]
      /\ forgotten' = forgotten \cup Family(i)
      /\ UNCHANGED <<tip, aliases, delivered, filed, resumed, turnVars, procVars,
                     threadVars, boundVars>>
  BY DEF forget_sessions
<1>1. Family(i) \in SUBSET Ids
  BY DEF Family, IInv, TypeOK
<1>2. TypeOK'
  <2>1. pending' \in [Routes -> Seq(Procs)] /\ routes' \in [Ids -> Routes \cup {None}]
        /\ forgotten' \in SUBSET Ids
    BY <1>0, <1>1 DEF IInv, TypeOK
  <2> QED BY <1>0, <2>1 DEF IInv, TypeOK, turnVars, procVars, threadVars, boundVars
<1>3. RouteInv'
  <2>1. ASSUME NEW a \in Ids, routes'[a] # None
        PROVE  /\ a \in aliases[routes'[a]] /\ tip[routes'[a]] \in aliases[routes'[a]]
               /\ \A b \in aliases[routes'[a]] : routes'[b] = routes'[a]
    <3>1. a \notin Family(i) /\ routes'[a] = routes[a]
      BY <1>0, <2>1
    <3>2. /\ routes[a] \in Routes /\ aliases[routes[a]] \subseteq Ids
          /\ \A b \in aliases[routes[a]] : b \notin Family(i)
      BY <3>1, <2>1, FamilyFacts DEF IInv, TypeOK
    <3>3. \A b \in aliases[routes[a]] : routes'[b] = routes[b]
      BY <1>0, <3>2
    <3> QED BY <3>1, <3>3, <2>1 DEF IInv, RouteInv
  <2> QED BY <1>0, <2>1 DEF IInv, RouteInv, turnVars
<1>4. PendingInv'
  <2> SUFFICES ASSUME NEW r \in Routes, NEW k \in 1 .. Len(pending'[r])
               PROVE  /\ key[pending'[r][k]] # None /\ proc[pending'[r][k]] # "none"
                      /\ routes'[key[pending'[r][k]]] = r
                      /\ pending'[r][k] \notin delivered
                      /\ \A j \in 1 .. Len(pending'[r]) : pending'[r][k] = pending'[r][j] => k = j
    BY <1>0 DEF PendingInv, procVars
  <2>1. r # routes[i] /\ pending'[r] = pending[r]
    BY <1>0
  <2>2. pending[r][k] \in Procs /\ key[pending[r][k]] \in Ids /\ routes[key[pending[r][k]]] = r
    BY <2>1 DEF IInv, PendingInv, TypeOK
  <2>3. key[pending[r][k]] \notin Family(i)
    BY <2>1, <2>2 DEF Family, IInv, RouteInv
  <2> QED BY <1>0, <2>1, <2>2, <2>3 DEF IInv, PendingInv
<1>5. HeadInv'
  <2>1. \A r \in Routes : pending'[r] = pending[r] \/ pending'[r] = <<>>
    BY <1>0
  <2> QED BY <1>0, <2>1 DEF IInv, HeadInv, InSeq, procVars, threadVars
<1>6. KeyInv' /\ ResumedInv' /\ ExactlyOnce'
  BY <1>0 DEF IInv, KeyInv, ResumedInv, ExactlyOnce, procVars, threadVars
<1> QED BY <1>2, <1>3, <1>4, <1>5, <1>6 DEF IInv

-----------------------------------------------------------------------------
(* The registry. *)

LEMMA SpawnStep ==
  ASSUME IInv, NEW p \in Procs, NEW i \in Ids, Spawn(p, i)
  PROVE  IInv'
<1>0. /\ proc[p] = "none" /\ turn[i] = "running"
      /\ proc' = [proc EXCEPT ![p] = "running"] /\ key' = [key EXCEPT ![p] = home[i]]
      /\ UNCHANGED <<consumed, queue, turnVars, routeVars, bookVars, threadVars, boundVars>>
  BY DEF Spawn
<1>1. home[i] \in Ids
  BY <1>0 DEF IInv, RouteInv, TypeOK
<1>2. /\ proc' \in [Procs -> {"none", "running", "exited"}]
      /\ key' \in [Procs -> Ids \cup {None}]
      /\ ProcsGrow
      /\ \A q \in Procs : proc'[q] # "none" => key'[q] # None
  BY <1>0, <1>1 DEF IInv, TypeOK, ProcsGrow, KeyInv
<1>3. TypeOK'
  BY <1>0, <1>2 DEF IInv, TypeOK, turnVars, routeVars, bookVars, threadVars, boundVars
<1>4. RoutesGrow /\ RouteInv'
  BY <1>0 DEF IInv, RoutesGrow, RouteInv, routeVars, turnVars
<1>5. PendingInv' /\ HeadInv' /\ KeyInv'
  BY <1>0, <1>2, <1>4, PendingFrame, HeadFrame, KeyFrame
     DEF IInv, routeVars, bookVars, threadVars
<1>6. ResumedInv' /\ ExactlyOnce'
  BY <1>0, ResumedFrame DEF IInv, bookVars, threadVars
<1> QED BY <1>3, <1>4, <1>5, <1>6 DEF IInv

LEMMA ReportStep ==
  ASSUME IInv, NEW p \in Procs, Exit(p) \/ Repeat(p)
  PROVE  IInv'
<1>0. /\ proc[p] # "none" /\ queue' = Append(queue, p)
      /\ proc' = [proc EXCEPT ![p] = "exited"]
      /\ UNCHANGED <<key, consumed, turnVars, routeVars, bookVars, threadVars, starts, faults>>
  BY DEF Exit, Repeat, boundVars, IInv, TypeOK
<1>1. repeats' \in Nat
  BY DEF Exit, Repeat, boundVars, IInv, TypeOK
<1>2. queue' \in Seq(Procs) /\ proc' \in [Procs -> {"none", "running", "exited"}]
  BY <1>0 DEF IInv, TypeOK
<1>3. TypeOK'
  BY <1>0, <1>1, <1>2 DEF IInv, TypeOK, turnVars, routeVars, bookVars, threadVars
<1>4. ProcsGrow /\ RoutesGrow /\ RouteInv'
  BY <1>0 DEF IInv, TypeOK, ProcsGrow, RoutesGrow, RouteInv, routeVars, turnVars
<1>5. KeyInv'
  <2>1. \A q \in Procs : proc'[q] # "none" <=> proc[q] # "none"
    BY <1>0 DEF IInv, TypeOK
  <2>2. ASSUME NEW k \in 1 .. Len(queue')
        PROVE  queue'[k] = p \/ \E m \in 1 .. Len(queue) : queue'[k] = queue[m]
    BY <1>0, AppendHolds DEF IInv, TypeOK
  <2>3. \A k \in 1 .. Len(queue) : queue[k] \in Procs
    BY DEF IInv, TypeOK
  <2> QED BY <1>0, <2>1, <2>2, <2>3 DEF IInv, TypeOK, KeyInv, threadVars
<1>6. PendingInv' /\ HeadInv'
  BY <1>0, <1>4, PendingFrame, HeadFrame DEF IInv, routeVars, bookVars, threadVars
<1>7. ResumedInv' /\ ExactlyOnce'
  BY <1>0, ResumedFrame DEF IInv, bookVars, threadVars
<1> QED BY <1>3, <1>4, <1>5, <1>6, <1>7 DEF IInv

LEMMA ConsumeStep ==
  ASSUME IInv, NEW p \in Procs, NEW i \in Ids, Consume(p, i)
  PROVE  IInv'
<1>0. /\ consumed' = consumed \cup {p}
      /\ UNCHANGED <<proc, key, queue, turnVars, routeVars, bookVars, threadVars, boundVars>>
  BY DEF Consume
<1>1. TypeOK'
  BY <1>0 DEF IInv, TypeOK, turnVars, routeVars, bookVars, threadVars, boundVars
<1>2. RouteInv' /\ KeyInv' /\ PendingInv' /\ HeadInv' /\ ResumedInv' /\ ExactlyOnce'
  BY <1>0 DEF IInv, RouteInv, KeyInv, PendingInv, HeadInv, InSeq, ResumedInv, ExactlyOnce,
              turnVars, routeVars, bookVars, threadVars
<1> QED BY <1>1, <1>2 DEF IInv

-----------------------------------------------------------------------------
(* The dispatcher thread. *)

\* A step that leaves the books alone and injects nothing.
LEMMA BooksFrame ==
  ASSUME IInv, UNCHANGED <<world, bookVars>>, TypeOK', KeyInv', pc # "pop", pc' # "pop",
         head' = None \/ UNCHANGED <<head, route>>
  PROVE  IInv'
<1>1. RouteInv' /\ RoutesGrow /\ ProcsGrow
  BY DEF IInv, RouteInv, RoutesGrow, ProcsGrow, world, turnVars, routeVars
<1>2. PendingInv'
  BY <1>1, PendingFrame DEF IInv, bookVars
<1>3. HeadInv'
  BY DEF IInv, HeadInv, InSeq, bookVars, world, routeVars
<1>4. ResumedInv' /\ ExactlyOnce'
  BY DEF IInv, ResumedInv, ExactlyOnce, bookVars
<1> QED BY <1>1, <1>2, <1>3, <1>4 DEF IInv

LEMMA GetStep ==
  ASSUME IInv, Get
  PROVE  IInv'
<1>0. /\ pc = "poll" /\ pc' \in {"vet", "scan"} /\ event = None /\ head = None /\ route = None
      /\ aim = None /\ UNCHANGED <<world, bookVars, todo, route, head, aim, boundVars>>
  BY DEF Get, IInv, TypeOK
<1>1. CASE queue # <<>> /\ event' = Head(queue) /\ queue' = Tail(queue) /\ pc' = "vet"
  <2>1. /\ queue' \in Seq(Procs) /\ event' \in Procs
        /\ event' = queue[1] /\ 1 \in 1 .. Len(queue)
        /\ \A k \in 1 .. Len(queue') : k + 1 \in 1 .. Len(queue) /\ queue'[k] = queue[k + 1]
    BY <1>1 DEF IInv, TypeOK
  <2>2. TypeOK'
    BY <1>0, <1>1, <2>1 DEF IInv, TypeOK, world, turnVars, routeVars, bookVars, boundVars
  <2>3. KeyInv'
    BY <1>0, <2>1 DEF IInv, KeyInv, world
  <2> QED BY <1>0, <1>1, <2>2, <2>3, BooksFrame
<1>2. CASE pc' = "scan" /\ UNCHANGED <<event, queue>>
  <2>1. TypeOK'
    BY <1>0, <1>2 DEF IInv, TypeOK, world, turnVars, routeVars, bookVars, boundVars
  <2>2. KeyInv'
    BY <1>0, <1>2 DEF IInv, KeyInv, world
  <2> QED BY <1>0, <1>2, <2>1, <2>2, BooksFrame
<1> QED BY <1>1, <1>2 DEF Get

LEMMA VetStep ==
  ASSUME IInv, Vet
  PROVE  IInv'
<1>0. /\ pc = "vet" /\ head = None /\ route = None
      /\ UNCHANGED <<world, queue, bookVars, todo, route, head, aim, boundVars>>
      /\ \/ pc' = "scan" /\ event' = None
         \/ pc' = "file" /\ UNCHANGED event
  BY DEF Vet, IInv, TypeOK
<1>1. TypeOK'
  BY <1>0 DEF IInv, TypeOK, world, turnVars, routeVars, bookVars, boundVars
<1>2. KeyInv'
  BY <1>0 DEF IInv, KeyInv, world
<1> QED BY <1>0, <1>1, <1>2, BooksFrame

LEMMA FileStep ==
  ASSUME IInv, File
  PROVE  IInv'
<1> DEFINE r == routes[key[event]]
<1>0. /\ pc = "file" /\ head = None /\ route = None /\ event \in Procs
      /\ pc' = "scan" /\ event' = None
      /\ UNCHANGED <<world, queue, delivered, resumed, todo, route, head, aim, boundVars>>
  BY DEF File, IInv, TypeOK
<1>1. proc[event] # "none" /\ key[event] \in Ids
  BY <1>0 DEF IInv, KeyInv, TypeOK
<1>2. KeyInv'
  BY <1>0 DEF IInv, KeyInv, world
<1>3. CASE UNCHANGED <<pending, filed>>
  <2>1. TypeOK'
    BY <1>0, <1>3 DEF IInv, TypeOK, world, turnVars, routeVars, boundVars
  <2> QED BY <1>0, <1>2, <1>3, <2>1, BooksFrame DEF bookVars
<1>4. CASE /\ Fileable(event, r)
           /\ pending' = [pending EXCEPT ![r] = Append(@, event)]
           /\ filed' = [filed EXCEPT ![r] = Append(@, event)]
  <2>1. /\ r \in Routes /\ ~InSeq(event, pending[r]) /\ event \notin delivered
        /\ pending[r] \in Seq(Procs)
    BY <1>1, <1>4 DEF Fileable, IInv, TypeOK
  <2>2. pending' \in [Routes -> Seq(Procs)] /\ filed' \in [Routes -> Seq(Procs)]
    BY <1>0, <1>4, <2>1 DEF IInv, TypeOK
  <2>3. TypeOK'
    BY <1>0, <2>2 DEF IInv, TypeOK, world, turnVars, routeVars, boundVars
  <2>4. PendingInv'
    <3> SUFFICES ASSUME NEW q \in Routes, NEW i \in 1 .. Len(pending'[q])
                 PROVE  /\ key[pending'[q][i]] # None /\ proc[pending'[q][i]] # "none"
                        /\ routes[key[pending'[q][i]]] = q
                        /\ pending'[q][i] \notin delivered
                        /\ \A j \in 1 .. Len(pending'[q]) :
                             pending'[q][i] = pending'[q][j] => i = j
      BY <1>0 DEF PendingInv, world, routeVars
    <3>1. CASE q # r
      BY <3>1, <1>4 DEF IInv, PendingInv, TypeOK
    <3>2. CASE q = r
      <4>1. /\ Len(pending'[q]) = Len(pending[q]) + 1 /\ Len(pending[q]) \in Nat
            /\ \A j \in 1 .. Len(pending[q]) : pending'[q][j] = pending[q][j]
            /\ pending'[q][Len(pending[q]) + 1] = event
        BY <3>2, <1>4, <2>1, <1>0 DEF IInv, TypeOK
      <4>2. \A j \in 1 .. Len(pending[q]) : pending[q][j] # event
        BY <3>2, <2>1 DEF InSeq
      <4>3. CASE i \in 1 .. Len(pending[q])
        <5>1. /\ key[pending[q][i]] # None /\ proc[pending[q][i]] # "none"
              /\ routes[key[pending[q][i]]] = q /\ pending[q][i] \notin delivered
              /\ \A j \in 1 .. Len(pending[q]) : pending[q][i] = pending[q][j] => i = j
          BY <4>3 DEF IInv, PendingInv
        <5>2. pending'[q][i] = pending[q][i] /\ pending[q][i] # event
          BY <4>1, <4>2, <4>3
        <5>3. \A j \in 1 .. Len(pending'[q]) :
                j \in 1 .. Len(pending[q]) \/ j = Len(pending[q]) + 1
          BY <4>1
        <5> QED BY <4>1, <5>1, <5>2, <5>3
      <4>4. CASE i = Len(pending[q]) + 1
        <5>1. pending'[q][i] = event /\ routes[key[event]] = q
          BY <3>2, <4>1, <4>4
        <5>2. key[event] # None
          BY <1>1
        <5>3. \A j \in 1 .. Len(pending'[q]) : pending'[q][j] = event => j = i
          BY <4>1, <4>2, <4>4
        <5> QED BY <5>1, <5>2, <5>3, <1>1, <2>1
      <4> QED BY <4>1, <4>3, <4>4
    <3> QED BY <3>1, <3>2
  <2>5. RouteInv' /\ HeadInv' /\ ResumedInv' /\ ExactlyOnce'
    BY <1>0 DEF IInv, RouteInv, HeadInv, ResumedInv, ExactlyOnce, world, turnVars, routeVars
  <2> QED BY <1>2, <2>3, <2>4, <2>5 DEF IInv
<1> QED BY <1>3, <1>4 DEF File

LEMMA ScanStep ==
  ASSUME IInv, Scan
  PROVE  IInv'
<1>0. /\ pc = "scan" /\ event = None /\ head' = None /\ route' = None /\ aim' = None
      /\ pc' \in {"poll", "look"} /\ todo' \in SUBSET Routes
      /\ UNCHANGED <<world, queue, bookVars, event, boundVars>>
  BY DEF Scan, NextRoute, IInv, TypeOK
<1>1. TypeOK'
  BY <1>0 DEF IInv, TypeOK, world, turnVars, routeVars, bookVars, boundVars
<1>2. KeyInv'
  BY <1>0 DEF IInv, KeyInv, world
<1> QED BY <1>0, <1>1, <1>2, BooksFrame

LEMMA LookStep ==
  ASSUME IInv, NEW r \in Routes, Look(r)
  PROVE  IInv'
<1>0. /\ pc = "look" /\ event = None /\ todo' = todo \ {r}
      /\ UNCHANGED <<world, queue, bookVars, event, boundVars>>
  BY DEF Look, IInv, TypeOK
<1>1. KeyInv'
  BY <1>0 DEF IInv, KeyInv, world
<1>2. CASE ~Ready(r)
  <2>1. head' = None /\ route' = None /\ aim' = None /\ pc' \in {"poll", "look"}
    BY <1>2 DEF Look, NextRoute
  <2>2. TypeOK'
    BY <1>0, <2>1 DEF IInv, TypeOK, world, turnVars, routeVars, bookVars, boundVars
  <2> QED BY <1>0, <1>1, <2>1, <2>2, BooksFrame
<1>3. CASE Ready(r)
  <2>1. pc' = "ask" /\ route' = r /\ head' = Head(pending[r]) /\ aim' = aim /\ pending[r] # <<>>
    BY <1>3 DEF Look, Ready
  <2>2. head' = pending[r][1] /\ 1 \in 1 .. Len(pending[r]) /\ head' \in Procs
    BY <2>1 DEF IInv, TypeOK
  <2>3. TypeOK'
    BY <1>0, <2>1, <2>2 DEF IInv, TypeOK, world, turnVars, routeVars, bookVars, boundVars
  <2>4. /\ key[head'] \in Ids /\ proc[head'] # "none" /\ routes[key[head']] = r
        /\ head' \notin delivered
    <3>1. pending[r][1] = head' /\ head' \in Procs /\ 1 \in 1 .. Len(pending[r])
      BY <2>2
    <3>2. /\ key[pending[r][1]] # None /\ proc[pending[r][1]] # "none"
          /\ routes[key[pending[r][1]]] = r /\ pending[r][1] \notin delivered
      BY <3>1 DEF IInv, PendingInv
    <3>3. key[head'] \in Ids \cup {None}
      BY <3>1 DEF IInv, TypeOK
    <3> QED BY <3>1, <3>2, <3>3
  <2>5. key[head'] \in aliases[r] /\ tip[r] \in Ids
    BY <2>4 DEF IInv, RouteInv, TypeOK
  <2>6. \A q \in Routes : InSeq(head', pending[q]) => q = r
    BY <2>4 DEF IInv, PendingInv, InSeq
  <2>7. HeadInv'
    BY <1>0, <2>1, <2>4, <2>5, <2>6 DEF HeadInv, InSeq, world, routeVars, bookVars
  <2>8. RouteInv' /\ RoutesGrow /\ ProcsGrow
    BY <1>0 DEF IInv, RouteInv, RoutesGrow, ProcsGrow, world, turnVars, routeVars
  <2>9. PendingInv'
    BY <1>0, <2>8, PendingFrame DEF IInv, bookVars
  <2>10. ResumedInv' /\ ExactlyOnce'
    BY <1>0 DEF IInv, ResumedInv, ExactlyOnce, bookVars
  <2> QED BY <1>1, <2>3, <2>7, <2>8, <2>9, <2>10 DEF IInv
<1> QED BY <1>2, <1>3

(* What popping the event in hand leaves waiting. *)
LEMMA PopHeadFacts ==
  ASSUME TypeOK, PendingInv, HeadInv, pc \in {"ask", "start", "call", "pop"}, PopHead
  PROVE  /\ pending' \in [Routes -> Seq(Procs)]
         /\ \A q \in Routes : \A i \in 1 .. Len(pending'[q]) :
              /\ pending'[q][i] # head
              /\ \E m \in 1 .. Len(pending[q]) : pending'[q][i] = pending[q][m]
              /\ \A j \in 1 .. Len(pending'[q]) : pending'[q][i] = pending'[q][j] => i = j
         /\ \A q \in Routes, p \in Procs :
              InSeq(p, pending[q]) /\ ~InSeq(p, pending'[q]) => p = head
<1>0. head \in Procs /\ route \in Routes
  BY DEF TypeOK
<1>1. \A q \in Routes : InSeq(head, pending[q]) => q = route /\ Head(pending[q]) = head
  BY <1>0 DEF HeadInv
<1>2. CASE pending[route] # <<>> /\ Head(pending[route]) = head
  <2>1. pending' = [pending EXCEPT ![route] = Tail(@)]
    BY <1>2 DEF PopHead
  <2>2. pending[route] \in Seq(Procs)
    BY <1>0 DEF TypeOK
  <2>3. /\ Len(Tail(pending[route])) = Len(pending[route]) - 1
        /\ Len(pending[route]) \in Nat \ {0}
        /\ pending[route][1] = head
        /\ \A i \in 1 .. Len(pending[route]) - 1 : Tail(pending[route])[i] = pending[route][i + 1]
    BY <1>2, <2>2
  <2>4. pending' \in [Routes -> Seq(Procs)] /\ pending'[route] = Tail(pending[route])
    BY <1>0, <1>2, <2>1, <2>2 DEF TypeOK
  <2>5. \A q \in Routes : q # route => pending'[q] = pending[q]
    BY <2>1 DEF TypeOK
  <2>6. ASSUME NEW i \in 1 .. Len(pending'[route])
        PROVE  /\ pending'[route][i] # head
               /\ i + 1 \in 1 .. Len(pending[route]) /\ pending'[route][i] = pending[route][i + 1]
               /\ \A j \in 1 .. Len(pending'[route]) :
                    pending'[route][i] = pending'[route][j] => i = j
    <3>1. i + 1 \in 1 .. Len(pending[route]) /\ pending'[route][i] = pending[route][i + 1]
      BY <2>3, <2>4
    <3>2. \A j \in 1 .. Len(pending[route]) :
            pending[route][i + 1] = pending[route][j] => i + 1 = j
      BY <3>1, <1>0 DEF PendingInv
    <3>3. pending[route][i + 1] # pending[route][1]
      BY <3>1, <3>2, <2>3
    <3>4. \A j \in 1 .. Len(pending'[route]) :
            j + 1 \in 1 .. Len(pending[route]) /\ pending'[route][j] = pending[route][j + 1]
      BY <2>3, <2>4
    <3> QED BY <3>1, <3>2, <3>3, <3>4, <2>3
  <2>7. \A q \in Routes : q # route => \A i \in 1 .. Len(pending[q]) : pending[q][i] # head
    BY <1>1 DEF InSeq
  <2>8. \A q \in Routes : \A i \in 1 .. Len(pending'[q]) :
          /\ pending'[q][i] # head
          /\ \E m \in 1 .. Len(pending[q]) : pending'[q][i] = pending[q][m]
          /\ \A j \in 1 .. Len(pending'[q]) : pending'[q][i] = pending'[q][j] => i = j
    <3> TAKE q \in Routes
    <3>1. CASE q = route
      BY <3>1, <2>6
    <3>2. CASE q # route
      BY <3>2, <2>5, <2>7 DEF PendingInv
    <3> QED BY <3>1, <3>2
  <2>9. \A q \in Routes, p \in Procs :
          InSeq(p, pending[q]) /\ ~InSeq(p, pending'[q]) => p = head
    BY <1>2, <2>2, <2>4, <2>5, TailHolds
  <2> QED BY <2>4, <2>8, <2>9
<1>3. CASE ~(pending[route] # <<>> /\ Head(pending[route]) = head)
  <2>1. pending' = pending
    BY <1>3 DEF PopHead
  <2>2. \A q \in Routes : ~InSeq(head, pending[q])
    <3> SUFFICES ASSUME NEW q \in Routes, InSeq(head, pending[q]) PROVE FALSE
      OBVIOUS
    <3>1. q = route /\ Head(pending[route]) = head
      BY <1>1
    <3>2. pending[route] # <<>>
      BY <3>1 DEF InSeq
    <3> QED BY <1>3, <3>1, <3>2
  <2> QED BY <2>1, <2>2 DEF PendingInv, InSeq, TypeOK
<1> QED BY <1>2, <1>3

LEMMA PoppedPending ==
  ASSUME PendingInv, UNCHANGED <<proc, key, routes>>, delivered' \subseteq delivered \cup {head},
         \A q \in Routes : \A i \in 1 .. Len(pending'[q]) :
              /\ pending'[q][i] # head
              /\ \E m \in 1 .. Len(pending[q]) : pending'[q][i] = pending[q][m]
              /\ \A j \in 1 .. Len(pending'[q]) : pending'[q][i] = pending'[q][j] => i = j
  PROVE  PendingInv'
<1> SUFFICES ASSUME NEW q \in Routes, NEW i \in 1 .. Len(pending'[q])
             PROVE  /\ key[pending'[q][i]] # None /\ proc[pending'[q][i]] # "none"
                    /\ routes[key[pending'[q][i]]] = q
                    /\ pending'[q][i] \notin delivered'
                    /\ \A j \in 1 .. Len(pending'[q]) : pending'[q][i] = pending'[q][j] => i = j
  BY DEF PendingInv
<1>1. PICK m \in 1 .. Len(pending[q]) : pending'[q][i] = pending[q][m]
  OBVIOUS
<1>2. /\ key[pending[q][m]] # None /\ proc[pending[q][m]] # "none"
      /\ routes[key[pending[q][m]]] = q /\ pending[q][m] \notin delivered
  BY DEF PendingInv
<1> QED BY <1>1, <1>2

\* A step that gives the event in hand back, or moves on with it to be asked.
LEMMA AskStep ==
  ASSUME IInv, Ask
  PROVE  IInv'
<1>0. /\ pc = "ask" /\ event = None /\ head \in Procs /\ route \in Routes
      /\ UNCHANGED <<world, queue, delivered, filed, resumed, event, todo, boundVars>>
  BY DEF Ask, IInv, TypeOK
<1>1. KeyInv'
  BY <1>0 DEF IInv, KeyInv, world
<1>2. CASE pc' = "start" /\ UNCHANGED <<pending, route, head, aim>>
  <2>1. TypeOK'
    BY <1>0, <1>2 DEF IInv, TypeOK, world, turnVars, routeVars, boundVars
  <2> QED BY <1>0, <1>1, <1>2, <2>1, BooksFrame DEF bookVars
<1>3. CASE PopHead /\ NextRoute(todo)
  <2>1. head' = None /\ route' = None /\ aim' = None /\ pc' \in {"poll", "look"}
    BY <1>3 DEF NextRoute
  <2>2. /\ pending' \in [Routes -> Seq(Procs)]
        /\ \A q \in Routes : \A i \in 1 .. Len(pending'[q]) :
              /\ pending'[q][i] # head
              /\ \E m \in 1 .. Len(pending[q]) : pending'[q][i] = pending[q][m]
              /\ \A j \in 1 .. Len(pending'[q]) : pending'[q][i] = pending'[q][j] => i = j
    BY <1>0, <1>3, PopHeadFacts DEF IInv
  <2>3. TypeOK'
    BY <1>0, <2>1, <2>2 DEF IInv, TypeOK, world, turnVars, routeVars, boundVars
  <2>4. PendingInv'
    BY <1>0, <2>2, PoppedPending DEF IInv, world, routeVars
  <2>5. RouteInv' /\ HeadInv'
    BY <1>0, <2>1 DEF IInv, RouteInv, HeadInv, world, turnVars, routeVars
  <2>6. ResumedInv' /\ ExactlyOnce'
    BY <1>0 DEF IInv, ResumedInv, ExactlyOnce
  <2> QED BY <1>1, <2>3, <2>4, <2>5, <2>6 DEF IInv
<1> QED BY <1>2, <1>3 DEF Ask

LEMMA CallStep ==
  ASSUME IInv, Call
  PROVE  IInv'
<1>0. /\ pc = "start" /\ pc' = "call" /\ event = None /\ aim' \in Ids
      /\ UNCHANGED <<world, queue, bookVars, event, todo, route, head, boundVars>>
  BY DEF Call, IInv, HeadInv, TypeOK
<1>1. TypeOK'
  BY <1>0 DEF IInv, TypeOK, world, turnVars, routeVars, bookVars, boundVars
<1>2. KeyInv'
  BY <1>0 DEF IInv, KeyInv, world
<1> QED BY <1>0, <1>1, <1>2, BooksFrame

LEMMA GivenBackStep ==
  ASSUME IInv, FormatFails \/ Refuse
  PROVE  IInv'
<1>0. /\ pc \in {"start", "call"} /\ event = None
      /\ head' = None /\ route' = None /\ aim' = None /\ pc' \in {"poll", "look"}
      /\ UNCHANGED <<world, queue, bookVars, event, todo, starts, repeats>>
  BY DEF FormatFails, Refuse, NextRoute, boundVars, IInv, TypeOK
<1>1. faults' \in Nat
  BY DEF FormatFails, Refuse, boundVars, IInv, TypeOK
<1>2. TypeOK'
  BY <1>0, <1>1 DEF IInv, TypeOK, world, turnVars, routeVars, bookVars
<1>3. KeyInv'
  BY <1>0 DEF IInv, KeyInv, world
<1> QED BY <1>0, <1>2, <1>3, BooksFrame

\* The event in hand was never injected before.
LEMMA ResumeStep ==
  ASSUME IInv, Resume
  PROVE  IInv'
<1>0. /\ pc = "call" /\ pc' = "pop" /\ event = None /\ head \in Procs /\ route \in Routes
      /\ ~Gone /\ Admit(aim, route) /\ aim \in Ids /\ aim' = None
      /\ resumed' = [resumed EXCEPT ![route] = Append(@, head)]
      /\ UNCHANGED <<minted, procVars, pending, delivered, filed, event, todo,
                     route, head, boundVars>>
  BY DEF Resume, IInv, TypeOK
<1> DEFINE t == aim
<1>1. t \in Ids /\ routes[t] = route /\ t \in minted
  <2>1. t \in Ids /\ routes[t] = route
    BY <1>0 DEF Gone, IInv, HeadInv, TypeOK
  <2> QED BY <2>1, <1>0 DEF IInv, RouteInv
<1>2. /\ RoutesGrow /\ RouteInv'
      /\ \A q \in Routes : aliases[q] \subseteq aliases'[q] /\ (tip[q] # None => tip'[q] # None)
      /\ turn' \in [Ids -> {"none", "running", "unwinding"}]
      /\ home' \in [Ids -> Ids \cup {None}] /\ shed' \in [Ids -> Nat]
      /\ routes' \in [Ids -> Routes \cup {None}]
      /\ tip' \in [Routes -> Ids \cup {None}] /\ aliases' \in [Routes -> SUBSET Ids]
      /\ forgotten' \in SUBSET Ids
  <2>1. minted' \in SUBSET Ids /\ minted \subseteq minted' /\ t \in minted'
    BY <1>0, <1>1 DEF IInv, TypeOK
  <2> QED BY <1>0, <1>1, <2>1, AdmitFacts DEF IInv
<1>3. ProcsGrow
  BY <1>0 DEF ProcsGrow, procVars
<1>4. resumed[route] \in Seq(Procs)
  BY <1>0 DEF IInv, TypeOK
<1>5. /\ resumed' \in [Routes -> Seq(Procs)]
      /\ \A q \in Routes : q # route => resumed'[q] = resumed[q]
      /\ resumed'[route] = Append(resumed[route], head)
  BY <1>0, <1>4 DEF IInv, TypeOK
<1>6. TypeOK'
  BY <1>0, <1>2, <1>5 DEF IInv, TypeOK, procVars, boundVars
<1>7. PendingInv' /\ KeyInv'
  BY <1>0, <1>2, <1>3, PendingFrame, KeyFrame DEF IInv, KeyInv, procVars
<1>8. /\ Len(resumed'[route]) = Len(resumed[route]) + 1 /\ Len(resumed[route]) \in Nat
      /\ \A n \in 1 .. Len(resumed[route]) : resumed'[route][n] = resumed[route][n]
      /\ resumed'[route][Len(resumed[route]) + 1] = head
  BY <1>4, <1>5
<1>9. HeadInv'
  <2>1. InSeq(head, resumed'[route])
    BY <1>8 DEF InSeq
  <2>2. /\ key[head] # None /\ proc[head] # "none" /\ key[head] \in aliases[route]
        /\ tip[route] # None /\ head \notin delivered
        /\ \A q \in Routes : InSeq(head, pending[q]) => q = route /\ Head(pending[q]) = head
    BY <1>0 DEF IInv, HeadInv
  <2>3. key[head] \in aliases'[route] /\ tip'[route] # None
    BY <1>0, <1>2, <2>2
  <2> QED BY <1>0, <2>1, <2>2, <2>3 DEF HeadInv, InSeq, procVars
<1>10. \A q \in Routes : \A n \in 1 .. Len(resumed[q]) :
         resumed[q][n] \in delivered /\ resumed[q][n] # head
  BY <1>0 DEF IInv, ResumedInv, HeadInv
<1>11. \A q \in Routes : \A n \in 1 .. Len(resumed'[q]) :
         \/ n \in 1 .. Len(resumed[q]) /\ resumed'[q][n] = resumed[q][n]
         \/ q = route /\ n = Len(resumed[route]) + 1 /\ resumed'[q][n] = head
  <2> TAKE q \in Routes
  <2>1. CASE q = route
    BY <2>1, <1>8
  <2>2. CASE q # route
    BY <2>2, <1>5
  <2> QED BY <2>1, <2>2
<1>12. ResumedInv'
  BY <1>0, <1>10, <1>11 DEF ResumedInv
<1>13. ExactlyOnce'
  <2> SUFFICES ASSUME NEW q \in Routes, NEW s \in Routes,
                      NEW m \in 1 .. Len(resumed'[q]), NEW n \in 1 .. Len(resumed'[s]),
                      resumed'[q][m] = resumed'[s][n]
               PROVE  q = s /\ m = n
    BY DEF ExactlyOnce
  <2>1. CASE m \in 1 .. Len(resumed[q]) /\ resumed'[q][m] = resumed[q][m]
    <3>1. resumed[q][m] # head
      BY <2>1, <1>10
    <3>2. n \in 1 .. Len(resumed[s]) /\ resumed'[s][n] = resumed[s][n]
      BY <2>1, <3>1, <1>11
    <3>3. resumed[q][m] = resumed[s][n]
      BY <2>1, <3>2
    <3>4. \A u, v \in Routes : \A a \in 1 .. Len(resumed[u]), b \in 1 .. Len(resumed[v]) :
            resumed[u][a] = resumed[v][b] => u = v /\ a = b
      BY DEF IInv, ExactlyOnce
    <3> QED BY <2>1, <3>2, <3>3, <3>4
  <2>2. CASE q = route /\ m = Len(resumed[route]) + 1 /\ resumed'[q][m] = head
    <3>1. ~(n \in 1 .. Len(resumed[s]) /\ resumed'[s][n] = resumed[s][n])
      BY <2>2, <1>10
    <3> QED BY <2>2, <3>1, <1>11
  <2> QED BY <2>1, <2>2, <1>11
<1> QED BY <1>2, <1>6, <1>7, <1>9, <1>12, <1>13 DEF IInv

LEMMA PopStep ==
  ASSUME IInv, Pop
  PROVE  IInv'
<1>0. /\ pc = "pop" /\ event = None /\ head \in Procs /\ route \in Routes
      /\ PopHead /\ delivered' = delivered \cup {head}
      /\ head' = None /\ route' = None /\ aim' = None /\ pc' \in {"poll", "look"}
      /\ UNCHANGED <<world, queue, filed, resumed, event, todo, boundVars>>
  BY DEF Pop, NextRoute, IInv, TypeOK
<1>1. /\ pending' \in [Routes -> Seq(Procs)]
      /\ \A q \in Routes : \A i \in 1 .. Len(pending'[q]) :
            /\ pending'[q][i] # head
            /\ \E m \in 1 .. Len(pending[q]) : pending'[q][i] = pending[q][m]
            /\ \A j \in 1 .. Len(pending'[q]) : pending'[q][i] = pending'[q][j] => i = j
  BY <1>0, PopHeadFacts DEF IInv
<1>2. TypeOK'
  BY <1>0, <1>1 DEF IInv, TypeOK, world, turnVars, routeVars, boundVars
<1>3. PendingInv'
  BY <1>0, <1>1, PoppedPending DEF IInv, world, routeVars
<1>4. RouteInv' /\ HeadInv' /\ KeyInv'
  BY <1>0 DEF IInv, RouteInv, HeadInv, KeyInv, world, turnVars, routeVars
<1>5. ResumedInv' /\ ExactlyOnce'
  BY <1>0 DEF IInv, ResumedInv, ExactlyOnce
<1> QED BY <1>2, <1>3, <1>4, <1>5 DEF IInv

-----------------------------------------------------------------------------
LEMMA NextIInv == IInv /\ [Next]_vars => IInv'
<1> SUFFICES ASSUME IInv, [Next]_vars PROVE IInv'
  OBVIOUS
<1>1. CASE UNCHANGED vars
  <2>1. UNCHANGED <<minted, turn, home, shed, routes, tip, aliases, forgotten, proc, key, consumed,
                    queue, pending, delivered, filed, resumed, pc, event, todo, route, head,
                    aim, starts, repeats, faults>>
    BY <1>1 DEF vars, turnVars, routeVars, procVars, bookVars, threadVars, boundVars
  <2>2. TypeOK'
    BY <2>1 DEF IInv, TypeOK
  <2>3. RouteInv' /\ KeyInv' /\ PendingInv' /\ HeadInv' /\ ResumedInv' /\ ExactlyOnce'
    BY <2>1 DEF IInv, RouteInv, KeyInv, PendingInv, HeadInv, InSeq, ResumedInv, ExactlyOnce
  <2> QED BY <2>2, <2>3 DEF IInv
<1>2. CASE Conversation
  BY <1>2, UserStartStep, TurnEndStep, ForgetStep, RotateStep DEF Conversation
<1>3. CASE Registry
  BY <1>3, SpawnStep, ReportStep, ConsumeStep DEF Registry
<1>4. CASE Dispatch
  BY <1>4, GetStep, VetStep, FileStep, ScanStep, LookStep, AskStep, CallStep, ResumeStep,
     GivenBackStep, PopStep DEF Dispatch
<1> QED BY <1>1, <1>2, <1>3, <1>4 DEF Next

(* The manager's books, the dispatcher's hands and the history agree in every
   reachable state. *)
THEOREM Invariant == SafeSpec => []IInv
<1>1. Init => IInv
  BY InitIInv
<1>2. IInv /\ [Next]_vars => IInv'
  BY NextIInv
<1> QED BY <1>1, <1>2, PTL DEF SafeSpec

(* Type correctness. *)
THEOREM TypeCorrect == SafeSpec => []TypeOK
<1>1. IInv => TypeOK
  BY DEF IInv
<1> QED BY <1>1, Invariant, PTL

(* A process resumes its conversation at most once (_queue_completion and
   _dispatch_pending_completions). *)
THEOREM ExactlyOnceHolds == SafeSpec => []ExactlyOnce
<1>1. IInv => ExactlyOnce
  BY DEF IInv
<1> QED BY <1>1, Invariant, PTL

(* Only start(internal=True) injects, and only into the process's own
   conversation while it exists. *)
THEOREM NoResurrectionHolds == SafeSpec => NoResurrection
<1>1. ASSUME IInv, [Next]_vars, NEW r \in Routes, resumed'[r] # resumed[r]
      PROVE  routes[key[head]] = r
  <2>1. Resume
    BY <1>1 DEF vars, turnVars, routeVars, procVars, bookVars, threadVars, boundVars, world,
                Next, Conversation, Registry, Dispatch, UserStart, Finish, Settle,
                forget_sessions, Rotate, Exit, Repeat, Spawn, Consume, Get, Vet, File, Scan,
                Look, Ask, Call, Refuse, FormatFails, Pop
  <2>2. /\ pc = "call" /\ aim \in Ids /\ head \in Procs /\ route \in Routes /\ ~Gone
        /\ resumed' = [resumed EXCEPT ![route] = Append(@, head)]
    BY <1>1, <2>1 DEF Resume, IInv, TypeOK
  <2>3. r = route
    BY <1>1, <2>2 DEF IInv, TypeOK
  <2>4. key[head] \in aliases[route] /\ routes[aim] = route
    BY <1>1, <2>2 DEF IInv, HeadInv, Gone, TypeOK
  <2> QED BY <1>1, <2>2, <2>3, <2>4 DEF IInv, RouteInv
<1>2. IInv /\ [Next]_vars => [\A r \in Routes : resumed'[r] # resumed[r] => routes[key[head]] = r]_vars
  BY <1>1
<1> QED BY <1>2, Invariant, PTL DEF SafeSpec, NoResurrection

(* An event stops waiting only when it is injected, read by the agent, or its
   conversation is deleted. *)
THEOREM NotLostHolds == SafeSpec => NotLost
<1> DEFINE Accounted(r, p) == InSeq(p, resumed[r]) \/ p \in consumed \/ routes'[key[p]] # r
<1>1. ASSUME IInv, [Next]_vars, NEW r \in Routes, NEW p \in Procs,
             InSeq(p, pending[r]), ~InSeq(p, pending'[r])
      PROVE  Accounted(r, p)
  <2>0. pending'[r] # pending[r]
    BY <1>1 DEF InSeq
  <2>1. \/ \E i \in Ids : forget_sessions(i)
        \/ File \/ Ask \/ Pop
    BY <1>1, <2>0 DEF vars, turnVars, routeVars, procVars, bookVars, threadVars, boundVars, world,
                Next, Conversation, Registry, Dispatch, UserStart, Finish, Settle,
                Rotate, Exit, Repeat, Spawn, Consume, Get, Vet, Scan,
                Look, Call, Resume, Refuse, FormatFails
  <2>2. CASE \E i \in Ids : forget_sessions(i)
    <3>1. PICK i \in Ids : forget_sessions(i)
      BY <2>2
    <3>2. /\ pending' = [q \in Routes |-> IF q = routes[i] THEN <<>> ELSE pending[q]]
          /\ routes' = [a \in Ids |-> IF a \in Family(i) THEN None ELSE routes[a]]
      BY <3>1 DEF forget_sessions
    <3>3. r = routes[i]
      BY <2>0, <3>2
    <3>4. routes[key[p]] = r /\ key[p] \in Ids
      BY <1>1 DEF IInv, PendingInv, InSeq, TypeOK
    <3>5. key[p] \in Family(i)
      <4>1. key[p] \in aliases[r]
        BY <1>1, <3>4 DEF IInv, RouteInv
      <4> QED BY <3>3, <4>1 DEF Family
    <3> QED BY <3>2, <3>4, <3>5
  <2>3. CASE File
    <3> DEFINE q == routes[key[event]]
    <3>1. \/ UNCHANGED pending
          \/ pending' = [pending EXCEPT ![q] = Append(@, event)]
      BY <2>3 DEF File
    <3>2. pending' = [pending EXCEPT ![q] = Append(@, event)] /\ r = q
      <4>1. pending' = [pending EXCEPT ![q] = Append(@, event)]
        BY <2>0, <3>1
      <4>2. pending \in [Routes -> Seq(Procs)]
        BY <1>1 DEF IInv, TypeOK
      <4> HIDE DEF q
      <4> QED BY <2>0, <4>1, <4>2
    <3>3. event \in Procs /\ pending[r] \in Seq(Procs)
      BY <1>1, <2>3 DEF File, IInv, TypeOK
    <3>4. pending'[r] = Append(pending[r], event)
      BY <1>1, <3>2 DEF IInv, TypeOK
    <3> QED BY <1>1, <3>3, <3>4, AppendHolds
  <2>4. CASE Ask
    <3>1. head \in consumed /\ PopHead /\ pc = "ask"
      BY <2>0, <2>4 DEF Ask
    <3>2. p = head
      BY <1>1, <3>1, PopHeadFacts DEF IInv
    <3> QED BY <3>1, <3>2
  <2>5. CASE Pop
    <3>1. PopHead /\ pc = "pop"
      BY <2>5 DEF Pop
    <3>2. p = head /\ head \in Procs
      BY <1>1, <3>1, PopHeadFacts DEF IInv
    <3>3. InSeq(p, resumed[route]) /\ r = route
      BY <1>1, <3>1, <3>2 DEF IInv, HeadInv, TypeOK
    <3> QED BY <3>3
  <2> QED BY <2>1, <2>2, <2>3, <2>4, <2>5
<1>2. IInv /\ [Next]_vars =>
        [\A r \in Routes, p \in Procs :
           InSeq(p, pending[r]) /\ ~InSeq(p, pending'[r])
           => InSeq(p, resumed[r]) \/ p \in consumed \/ routes'[key[p]] # r]_vars
  BY <1>1
<1> QED BY <1>2, Invariant, PTL DEF SafeSpec, NotLost
-----------------------------------------------------------------------------
(* The order of injection. *)

LEMMA BeforeAppend ==
  ASSUME NEW P, NEW s \in Seq(P), NEW e \in P, NEW x
  PROVE  /\ \A y : Before(x, y, s) => Before(x, y, Append(s, e))
         /\ InSeq(x, s) => Before(x, e, Append(s, e))
<1>1. /\ Len(s) \in Nat /\ Len(Append(s, e)) = Len(s) + 1
      /\ \A i \in 1 .. Len(s) : Append(s, e)[i] = s[i]
      /\ Append(s, e)[Len(s) + 1] = e
  OBVIOUS
<1>2. \A i \in 1 .. Len(s) : i \in 1 .. Len(s) + 1 /\ i < Len(s) + 1
  BY <1>1
<1>3. Len(s) + 1 \in 1 .. Len(s) + 1
  BY <1>1
<1> QED BY <1>1, <1>2, <1>3 DEF Before, InSeq

LEMMA OrderFrame ==
  ASSUME WaitingOrder, ArrivalOrder, UNCHANGED <<pending, filed, resumed>>
  PROVE  WaitingOrder' /\ ArrivalOrder'
BY DEF WaitingOrder, ArrivalOrder, Before, InSeq

LEMMA HandFrame ==
  ASSUME HandInv, UNCHANGED <<pending, pc, route, head, routes, tip>>
  PROVE  HandInv'
BY DEF HandInv

(* Waiting events leave from the front, or all at once. *)
LEMMA OrderShrinks ==
  ASSUME TypeOK, WaitingOrder, ArrivalOrder, UNCHANGED <<filed, resumed>>,
         \A q \in Routes : \/ pending'[q] = pending[q]
                           \/ pending'[q] = <<>>
                           \/ pending[q] # <<>> /\ pending'[q] = Tail(pending[q])
  PROVE  WaitingOrder' /\ ArrivalOrder'
<1>1. ASSUME NEW q \in Routes
      PROVE  \E d \in {0, 1} : \A n \in 1 .. Len(pending'[q]) :
               n + d \in 1 .. Len(pending[q]) /\ pending'[q][n] = pending[q][n + d]
  <2>1. pending[q] \in Seq(Procs)
    BY DEF TypeOK
  <2>2. CASE pending'[q] = pending[q]
    <3>1. \A n \in 1 .. Len(pending'[q]) :
            n + 0 \in 1 .. Len(pending[q]) /\ pending'[q][n] = pending[q][n + 0]
      BY <2>2
    <3> QED BY <3>1
  <2>3. CASE pending'[q] = <<>>
    BY <2>3
  <2>4. CASE pending[q] # <<>> /\ pending'[q] = Tail(pending[q])
    <3>1. /\ Len(pending[q]) \in Nat \ {0} /\ Len(pending'[q]) = Len(pending[q]) - 1
          /\ \A n \in 1 .. Len(pending[q]) - 1 : pending'[q][n] = pending[q][n + 1]
      BY <2>1, <2>4
    <3>2. \A n \in 1 .. Len(pending'[q]) :
            n + 1 \in 1 .. Len(pending[q]) /\ pending'[q][n] = pending[q][n + 1]
      BY <3>1
    <3> QED BY <3>2
  <2> QED BY <2>2, <2>3, <2>4
<1>3. ASSUME NEW q \in Routes
      PROVE  /\ \A n \in 1 .. Len(pending'[q]) : InSeq(pending'[q][n], filed[q])
             /\ \A m, n \in 1 .. Len(pending'[q]) :
                  m < n => Before(pending'[q][m], pending'[q][n], filed[q])
             /\ \A m \in 1 .. Len(resumed[q]), n \in 1 .. Len(pending'[q]) :
                  resumed[q][m] # pending'[q][n] => Before(resumed[q][m], pending'[q][n], filed[q])
  <2>1. PICK d \in {0, 1} : \A n \in 1 .. Len(pending'[q]) :
               n + d \in 1 .. Len(pending[q]) /\ pending'[q][n] = pending[q][n + d]
    BY <1>1
  <2>2. ASSUME NEW m \in 1 .. Len(pending'[q]), NEW n \in 1 .. Len(pending'[q]), m < n
        PROVE  Before(pending'[q][m], pending'[q][n], filed[q])
    <3>1. /\ m + d \in 1 .. Len(pending[q]) /\ n + d \in 1 .. Len(pending[q])
          /\ pending'[q][m] = pending[q][m + d] /\ pending'[q][n] = pending[q][n + d]
      BY <2>1
    <3>2. m + d < n + d
      <4>1. m \in Int /\ n \in Int /\ d \in Int
        OBVIOUS
      <4> QED BY <2>2, <4>1
    <3>3. Before(pending[q][m + d], pending[q][n + d], filed[q])
      BY <3>1, <3>2 DEF WaitingOrder
    <3> QED BY <3>1, <3>3
  <2>3. /\ \A n \in 1 .. Len(pending[q]) : InSeq(pending[q][n], filed[q])
        /\ \A m \in 1 .. Len(resumed[q]), n \in 1 .. Len(pending[q]) :
             resumed[q][m] # pending[q][n] => Before(resumed[q][m], pending[q][n], filed[q])
    BY DEF WaitingOrder
  <2> QED BY <2>1, <2>2, <2>3
<1>4. WaitingOrder'
  BY <1>3 DEF WaitingOrder, Before, InSeq
<1>5. ArrivalOrder'
  <2>1. filed' = filed /\ resumed' = resumed
    OBVIOUS
  <2> QED BY <2>1 DEF ArrivalOrder
<1> QED BY <1>4, <1>5

LEMMA PopHeadShrinks ==
  ASSUME TypeOK, PopHead
  PROVE  \A q \in Routes : \/ pending'[q] = pending[q]
                           \/ pending[q] # <<>> /\ pending'[q] = Tail(pending[q])
<1> SUFFICES ASSUME NEW q \in Routes
             PROVE  \/ pending'[q] = pending[q]
                    \/ pending[q] # <<>> /\ pending'[q] = Tail(pending[q])
  OBVIOUS
<1>1. CASE pending' = pending
  BY <1>1
<1>2. CASE pending[route] # <<>> /\ pending' = [pending EXCEPT ![route] = Tail(@)]
  BY <1>2 DEF TypeOK
<1> QED BY <1>1, <1>2 DEF PopHead

(* A user's message makes the id the tip of its route, or of a fresh one. *)
LEMMA UserStartOrder ==
  ASSUME IInv, OInv, NEW i \in Ids, UserStart(i)
  PROVE  OInv'
<1>1. PICK r \in Routes :
         /\ IF routes[i] = None THEN aliases[r] = {} ELSE r = routes[i]
         /\ Admit(i, r)
  BY DEF UserStart
<1>2. UNCHANGED <<pending, filed, resumed, pc, route, head>>
  BY DEF UserStart, bookVars, threadVars
<1>3. HandInv'
  <2> SUFFICES ASSUME pc \in {"ask", "start", "call"}, routes'[tip'[route]] = route
               PROVE  pending[route] # <<>> /\ Head(pending[route]) = head
    BY <1>2 DEF HandInv
  <2>1. route \in Routes /\ head # None /\ route # None
    BY DEF IInv, TypeOK
  <2>2. aliases[route] # {} /\ tip[route] \in Ids
    BY <2>1 DEF IInv, HeadInv, TypeOK
  <2>3. /\ \A a \in Ids : routes'[a] = IF a \in aliases[r] \cup {i} THEN r ELSE routes[a]
        /\ \A q \in Routes : tip'[q] = IF q = r THEN i ELSE tip[q]
    BY <1>1 DEF Admit, IInv, TypeOK
  <2>4. routes[tip[route]] = route
    <3>1. CASE r = route
      <4>1. routes[i] = route
        BY <1>1, <2>2, <3>1
      <4> QED BY <2>1, <4>1 DEF IInv, RouteInv
    <3>2. CASE r # route
      BY <2>1, <2>2, <2>3, <3>2
    <3> QED BY <3>1, <3>2
  <2> QED BY <2>4 DEF OInv, HandInv
<1> QED BY <1>2, <1>3, OrderFrame DEF OInv

LEMMA RotateOrder ==
  ASSUME IInv, OInv, NEW i \in Ids, NEW n \in Ids, Rotate(i, n)
  PROVE  OInv'
<1>1. /\ routes[i] \in Routes /\ n \notin minted
      /\ tip' = [tip EXCEPT ![routes[i]] = n]
      /\ routes' = [routes EXCEPT ![n] = routes[i]]
      /\ UNCHANGED <<pending, filed, resumed, pc, route, head>>
  BY DEF Rotate, bookVars, threadVars, IInv, TypeOK
<1>2. HandInv'
  <2> SUFFICES ASSUME pc \in {"ask", "start", "call"}, routes'[tip'[route]] = route
               PROVE  pending[route] # <<>> /\ Head(pending[route]) = head
    BY <1>1 DEF HandInv
  <2>1. route \in Routes /\ route # None /\ tip[route] \in Ids
    BY DEF IInv, HeadInv, TypeOK
  <2>2. routes[tip[route]] = route
    <3>1. CASE routes[i] = route
      BY <2>1, <3>1 DEF IInv, RouteInv
    <3>2. CASE routes[i] # route
      <4>1. tip'[route] = tip[route]
        BY <1>1, <2>1, <3>2 DEF IInv, TypeOK
      <4>2. routes'[tip[route]] = IF tip[route] = n THEN routes[i] ELSE routes[tip[route]]
        BY <1>1, <2>1 DEF IInv, TypeOK
      <4> QED BY <3>2, <4>1, <4>2
    <3> QED BY <3>1, <3>2
  <2> QED BY <2>2 DEF OInv, HandInv
<1> QED BY <1>1, <1>2, OrderFrame DEF OInv

(* A deleted conversation loses its events and its tip together. *)
LEMMA ForgetOrder ==
  ASSUME IInv, OInv, NEW i \in Ids, forget_sessions(i)
  PROVE  OInv'
<1>1. /\ pending' = [r \in Routes |-> IF r = routes[i] THEN <<>> ELSE pending[r]]
      /\ routes' = [a \in Ids |-> IF a \in Family(i) THEN None ELSE routes[a]]
      /\ UNCHANGED <<tip, filed, resumed, pc, route, head>>
  BY DEF forget_sessions, threadVars
<1>2. \A q \in Routes : pending'[q] = pending[q] \/ pending'[q] = <<>>
  BY <1>1
<1>3. HandInv'
  <2> SUFFICES ASSUME pc \in {"ask", "start", "call"}, routes'[tip[route]] = route
               PROVE  pending'[route] # <<>> /\ Head(pending'[route]) = head
    BY <1>1 DEF HandInv
  <2>1. route \in Routes /\ tip[route] \in Ids /\ route # None
    BY DEF IInv, HeadInv, TypeOK
  <2>2. routes[tip[route]] = route /\ tip[route] \notin Family(i)
    BY <1>1, <2>1
  <2>3. route # routes[i]
    BY <2>1, <2>2 DEF IInv, RouteInv, Family
  <2> QED BY <1>1, <2>1, <2>2, <2>3 DEF OInv, HandInv
<1> QED BY <1>1, <1>2, <1>3, OrderShrinks DEF IInv, OInv

(* A new event is queued behind all that was ever queued. *)
LEMMA FileOrder ==
  ASSUME IInv, OInv, File
  PROVE  OInv'
<1> DEFINE r == routes[key[event]]
<1>0. pc' = "scan" /\ UNCHANGED resumed
  BY DEF File
<1>1. HandInv'
  BY <1>0 DEF HandInv
<1>2. CASE ~Fileable(event, r)
  BY <1>0, <1>1, <1>2, OrderFrame DEF File, OInv
<1>3. CASE Fileable(event, r)
  <2>0. event \in Procs /\ r \in Routes
    BY <1>3 DEF File, Fileable, IInv, KeyInv, TypeOK
  <2>1. /\ pending' = [pending EXCEPT ![r] = Append(@, event)]
        /\ filed' = [filed EXCEPT ![r] = Append(@, event)]
    BY <1>3 DEF File
  <2> HIDE DEF r
  <2>2. PICK q \in Routes : q = r
    BY <2>0
  <2>3. /\ pending[q] \in Seq(Procs) /\ filed[q] \in Seq(Procs)
        /\ pending'[q] = Append(pending[q], event) /\ filed'[q] = Append(filed[q], event)
        /\ \A o \in Routes : o # q => pending'[o] = pending[o] /\ filed'[o] = filed[o]
    BY <2>1, <2>2 DEF IInv, TypeOK
  <2> DEFINE w == Len(pending[q])
  <2>4. /\ w \in Nat /\ Len(pending'[q]) = w + 1
        /\ \A j \in 1 .. w : pending'[q][j] = pending[q][j]
        /\ pending'[q][w + 1] = event
    BY <2>3
  <2>5. /\ \A x, y : Before(x, y, filed[q]) => Before(x, y, filed'[q])
        /\ \A x : InSeq(x, filed[q]) => InSeq(x, filed'[q]) /\ Before(x, event, filed'[q])
        /\ InSeq(event, filed'[q])
    <3>1. event \in Procs /\ filed[q] \in Seq(Procs) /\ filed'[q] = Append(filed[q], event)
      BY <2>0, <2>3
    <3>2. \A x : /\ \A y : Before(x, y, filed[q]) => Before(x, y, filed'[q])
                 /\ InSeq(x, filed[q]) => Before(x, event, filed'[q])
      BY <3>1, BeforeAppend
    <3>3. \A x : InSeq(x, filed'[q]) <=> InSeq(x, filed[q]) \/ x = event
      BY <3>1, AppendHolds
    <3> QED BY <3>2, <3>3
  <2>6. /\ \A n \in 1 .. w : InSeq(pending[q][n], filed[q])
        /\ \A m \in 1 .. Len(resumed[q]) : InSeq(resumed[q][m], filed[q])
        /\ \A m, n \in 1 .. w : m < n => Before(pending[q][m], pending[q][n], filed[q])
        /\ \A m \in 1 .. Len(resumed[q]), n \in 1 .. w :
              resumed[q][m] # pending[q][n] => Before(resumed[q][m], pending[q][n], filed[q])
    BY DEF OInv, WaitingOrder
  <2> HIDE DEF w
  <2>7. \A n \in 1 .. w + 1 : \/ n = w + 1 /\ pending'[q][n] = event
                              \/ n \in 1 .. w /\ pending'[q][n] = pending[q][n]
    BY <2>4
  <2>8. /\ \A n \in 1 .. w + 1 : InSeq(pending'[q][n], filed'[q])
        /\ \A m \in 1 .. Len(resumed[q]) : InSeq(resumed[q][m], filed'[q])
    BY <2>5, <2>6, <2>7
  <2>9. ASSUME NEW m \in 1 .. w + 1, NEW n \in 1 .. w + 1, m < n
        PROVE  Before(pending'[q][m], pending'[q][n], filed'[q])
    <3>1. m \in 1 .. w /\ pending'[q][m] = pending[q][m]
      BY <2>4, <2>9
    <3>2. CASE n \in 1 .. w
      BY <2>4, <2>5, <2>6, <2>9, <3>1, <3>2
    <3>3. CASE n = w + 1
      BY <2>4, <2>5, <2>6, <3>1, <3>3
    <3> QED BY <3>2, <3>3, <2>4
  <2>10. \A m \in 1 .. Len(resumed[q]), n \in 1 .. w + 1 :
           resumed[q][m] # pending'[q][n] => Before(resumed[q][m], pending'[q][n], filed'[q])
    BY <2>5, <2>6, <2>7
  <2>11. WaitingOrder'
    <3> SUFFICES ASSUME NEW o \in Routes
                 PROVE  /\ \A n \in 1 .. Len(pending'[o]) : InSeq(pending'[o][n], filed'[o])
                        /\ \A m \in 1 .. Len(resumed[o]) : InSeq(resumed[o][m], filed'[o])
                        /\ \A m, n \in 1 .. Len(pending'[o]) :
                             m < n => Before(pending'[o][m], pending'[o][n], filed'[o])
                        /\ \A m \in 1 .. Len(resumed[o]), n \in 1 .. Len(pending'[o]) :
                             resumed[o][m] # pending'[o][n]
                             => Before(resumed[o][m], pending'[o][n], filed'[o])
      BY <1>0 DEF WaitingOrder
    <3>1. CASE o = q
      BY <2>4, <2>8, <2>9, <2>10, <3>1
    <3>2. CASE o # q
      <4>1. pending'[o] = pending[o] /\ filed'[o] = filed[o]
        BY <2>3, <3>2
      <4> QED BY <4>1 DEF OInv, WaitingOrder
    <3> QED BY <3>1, <3>2
  <2>12. ArrivalOrder'
    <3>1. \A o \in Routes : \A x, y : Before(x, y, filed[o]) => Before(x, y, filed'[o])
      BY <2>3, <2>5
    <3> QED BY <1>0, <3>1 DEF OInv, ArrivalOrder
  <2> QED BY <1>1, <2>11, <2>12 DEF OInv
<1> QED BY <1>2, <1>3

LEMMA LookOrder ==
  ASSUME IInv, OInv, NEW r \in Routes, Look(r)
  PROVE  OInv'
<1>1. UNCHANGED <<pending, filed, resumed, routes, tip>>
  BY DEF Look, bookVars, world, routeVars
<1>2. HandInv'
  BY <1>1 DEF Look, Ready, NextRoute, HandInv
<1> QED BY <1>1, <1>2, OrderFrame DEF OInv

LEMMA AskOrder ==
  ASSUME IInv, OInv, Ask
  PROVE  OInv'
<1>1. pc = "ask" /\ UNCHANGED <<filed, resumed, routes, tip>>
  BY DEF Ask, world, routeVars
<1>2. CASE pc' = "start" /\ UNCHANGED <<pending, route, head>>
  BY <1>1, <1>2, OrderFrame DEF OInv, HandInv
<1>3. CASE PopHead /\ NextRoute(todo)
  <2>1. HandInv'
    BY <1>3 DEF NextRoute, HandInv
  <2> QED BY <1>1, <1>3, <2>1, OrderShrinks, PopHeadShrinks DEF OInv, IInv
<1> QED BY <1>2, <1>3 DEF Ask

LEMMA CallOrder ==
  ASSUME IInv, OInv, Call
  PROVE  OInv'
<1>1. pc = "start" /\ UNCHANGED <<pending, filed, resumed, routes, tip, route, head>>
  BY DEF Call, world, routeVars, bookVars
<1>2. HandInv'
  BY <1>1 DEF OInv, HandInv
<1> QED BY <1>1, <1>2, OrderFrame DEF OInv

(* The event in hand is the first of those that wait: all that was injected
   before it was queued before it. *)
LEMMA ResumeOrder ==
  ASSUME IInv, OInv, Resume
  PROVE  OInv'
<1>0. /\ pc = "call" /\ aim \in Ids /\ pc' = "pop" /\ head \in Procs /\ route \in Routes /\ ~Gone
      /\ resumed' = [resumed EXCEPT ![route] = Append(@, head)]
      /\ UNCHANGED <<pending, filed, head>>
  BY DEF Resume, IInv, TypeOK
<1>1. HandInv'
  BY <1>0 DEF HandInv
<1>2. pending[route] # <<>> /\ Head(pending[route]) = head
  <2>1. routes[aim] = route /\ route # None
    BY <1>0 DEF Gone, IInv, TypeOK
  <2>2. tip[route] \in Ids
    BY <1>0 DEF IInv, HeadInv, TypeOK
  <2>3. routes[tip[route]] = route
    BY <1>0, <2>1, <2>2 DEF IInv, RouteInv
  <2> QED BY <1>0, <2>3 DEF OInv, HandInv
<1>3. /\ Len(pending[route]) \in Nat /\ 1 \in 1 .. Len(pending[route])
      /\ pending[route][1] = head
  BY <1>0, <1>2 DEF IInv, TypeOK
<1> DEFINE k == Len(resumed[route])
<1>4. /\ resumed[route] \in Seq(Procs) /\ resumed'[route] = Append(resumed[route], head)
      /\ \A q \in Routes : q # route => resumed'[q] = resumed[q]
  BY <1>0 DEF IInv, TypeOK
<1>5. /\ k \in Nat /\ Len(resumed'[route]) = k + 1
      /\ \A m \in 1 .. k : resumed'[route][m] = resumed[route][m]
      /\ resumed'[route][k + 1] = head
  BY <1>4
<1> HIDE DEF k
<1>6. \A m \in 1 .. k : resumed[route][m] # head
  BY <1>0 DEF IInv, ResumedInv, HeadInv, k
<1>7. \A m \in 1 .. k : Before(resumed[route][m], head, filed[route])
  BY <1>0, <1>3, <1>6 DEF OInv, WaitingOrder, k
<1>8. InSeq(head, filed[route])
  BY <1>0, <1>3 DEF OInv, WaitingOrder
<1>9. \A n \in 1 .. Len(pending[route]) :
        head # pending[route][n] => Before(head, pending[route][n], filed[route])
  BY <1>0, <1>3 DEF OInv, WaitingOrder
<1>10. \A m \in 1 .. k + 1 :
         \/ m \in 1 .. k /\ resumed'[route][m] = resumed[route][m]
         \/ m = k + 1 /\ resumed'[route][m] = head
  BY <1>5
<1>11. ASSUME NEW q \in Routes
       PROVE  /\ \A m \in 1 .. Len(resumed'[q]) : InSeq(resumed'[q][m], filed[q])
              /\ \A m \in 1 .. Len(resumed'[q]), n \in 1 .. Len(pending[q]) :
                   resumed'[q][m] # pending[q][n] => Before(resumed'[q][m], pending[q][n], filed[q])
              /\ \A m, n \in 1 .. Len(resumed'[q]) :
                   m < n => Before(resumed'[q][m], resumed'[q][n], filed[q])
  <2>1. CASE q # route
    BY <1>4, <2>1 DEF OInv, WaitingOrder, ArrivalOrder
  <2>2. CASE q = route
    <3>1. \A m \in 1 .. k + 1 : InSeq(resumed'[route][m], filed[route])
      BY <1>0, <1>8, <1>10 DEF OInv, WaitingOrder, k
    <3>2. \A m \in 1 .. k + 1, n \in 1 .. Len(pending[route]) :
            resumed'[route][m] # pending[route][n]
            => Before(resumed'[route][m], pending[route][n], filed[route])
      BY <1>0, <1>9, <1>10 DEF OInv, WaitingOrder, k
    <3>3. ASSUME NEW m \in 1 .. k + 1, NEW n \in 1 .. k + 1, m < n
          PROVE  Before(resumed'[route][m], resumed'[route][n], filed[route])
      <4>1. m \in 1 .. k /\ resumed'[route][m] = resumed[route][m]
        BY <1>5, <3>3
      <4>2. CASE n \in 1 .. k
        <5>1. Before(resumed[route][m], resumed[route][n], filed[route])
          BY <1>0, <3>3, <4>1, <4>2 DEF OInv, ArrivalOrder, Before, k
        <5> QED BY <1>5, <4>1, <4>2, <5>1
      <4>3. CASE n = k + 1
        BY <1>5, <1>7, <4>1, <4>3
      <4> QED BY <1>5, <4>2, <4>3
    <3> QED BY <1>5, <2>2, <3>1, <3>2, <3>3
  <2> QED BY <2>1, <2>2
<1>12. WaitingOrder'
  BY <1>0, <1>11 DEF OInv, WaitingOrder
<1>13. ArrivalOrder'
  BY <1>0, <1>11 DEF ArrivalOrder
<1> QED BY <1>1, <1>12, <1>13 DEF OInv

LEMMA PopOrder ==
  ASSUME IInv, OInv, Pop
  PROVE  OInv'
<1>1. UNCHANGED <<filed, resumed>> /\ PopHead
  BY DEF Pop
<1>2. HandInv'
  BY DEF Pop, NextRoute, HandInv
<1> QED BY <1>1, <1>2, OrderShrinks, PopHeadShrinks DEF OInv, IInv

\* The steps that neither queue, inject nor drop an event.
LEMMA OtherOrder ==
  ASSUME IInv, OInv,
         \/ \E i \in Ids : Finish(i) \/ Settle(i)
         \/ Registry
         \/ Get \/ Vet \/ Scan \/ Refuse \/ FormatFails
         \/ UNCHANGED vars
  PROVE  OInv'
<1>1. UNCHANGED <<pending, filed, resumed, routes, tip>>
  BY DEF Finish, Settle, Registry, Exit, Repeat, Spawn, Consume, Get, Vet, Scan, Refuse,
         FormatFails, vars, turnVars, routeVars, procVars, bookVars, threadVars, world
<1>2. \/ UNCHANGED <<pc, route, head>>
      \/ pc' \notin {"ask", "start", "call"}
  BY DEF Finish, Settle, Registry, Exit, Repeat, Spawn, Consume, Get, Vet, Scan, Refuse,
         FormatFails, NextRoute, vars, threadVars
<1>3. HandInv'
  BY <1>1, <1>2, HandFrame DEF OInv, HandInv
<1> QED BY <1>1, <1>3, OrderFrame DEF OInv

LEMMA NextOInv == IInv /\ OInv /\ [Next]_vars => OInv'
<1> SUFFICES ASSUME IInv, OInv, [Next]_vars PROVE OInv'
  OBVIOUS
<1>1. CASE Conversation
  BY <1>1, UserStartOrder, RotateOrder, ForgetOrder, OtherOrder DEF Conversation
<1>2. CASE Dispatch
  BY <1>2, FileOrder, LookOrder, AskOrder, CallOrder, ResumeOrder, PopOrder, OtherOrder DEF Dispatch
<1> QED BY <1>1, <1>2, OtherOrder DEF Next

(* The dispatcher injects the events of a conversation in the order in which
   _queue_completion queued them, whatever is refused, retried or read by the
   agent in between (_dispatch_pending_completions). *)
THEOREM ArrivalOrderHolds == SafeSpec => []ArrivalOrder
<1>1. Init => OInv
  <2> SUFFICES ASSUME Init PROVE OInv
    OBVIOUS
  <2>1. \A r \in Routes : Len(pending[r]) = 0 /\ Len(resumed[r]) = 0
    BY DEF Init
  <2>2. pc = "poll"
    BY DEF Init
  <2> QED BY <2>1, <2>2 DEF OInv, WaitingOrder, HandInv, ArrivalOrder
<1>2. IInv /\ OInv /\ [Next]_vars => OInv'
  BY NextOInv
<1>3. OInv => ArrivalOrder
  BY DEF OInv
<1> QED BY <1>1, <1>2, <1>3, Invariant, PTL DEF SafeSpec
=============================================================================
