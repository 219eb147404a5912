-------------------------- MODULE ApprovalsProofs --------------------------
(***************************************************************************)
(* For every set of ids, turns, requests and views: Approvals keeps its    *)
(* inductive invariant, and so TypeOK, Releasable, NoOrphans, PollFinds.   *)
(***************************************************************************)
EXTENDS Approvals, TLAPS

USE ApprovalsAssumption

-----------------------------------------------------------------------------
(* Sequences. *)

LEMMA AppendKeeps ==
  ASSUME NEW S, NEW s \in Seq(S), NEW x \in S, Distinct(s), ~InSeq(x, s)
  PROVE  /\ Append(s, x) \in Seq(S)
         /\ Distinct(Append(s, x))
         /\ \A y : InSeq(y, Append(s, x)) <=> InSeq(y, s) \/ y = x
<1>1. Len(s) \in Nat /\ Append(s, x) \in Seq(S) /\ Len(Append(s, x)) = Len(s) + 1
  OBVIOUS
<1>2. /\ \A m \in 1 .. Len(s) : Append(s, x)[m] = s[m]
      /\ Append(s, x)[Len(s) + 1] = x
  OBVIOUS
<1>3. \A y : InSeq(y, Append(s, x)) <=> InSeq(y, s) \/ y = x
  BY <1>1, <1>2 DEF InSeq
<1>4. Distinct(Append(s, x))
  BY <1>1, <1>2 DEF InSeq, Distinct
<1> QED BY <1>1, <1>3, <1>4

LEMMA TailKeeps ==
  ASSUME NEW S, NEW s \in Seq(S), Distinct(s), s # <<>>
  PROVE  /\ Head(s) \in S /\ InSeq(Head(s), s)
         /\ Tail(s) \in Seq(S)
         /\ Distinct(Tail(s))
         /\ \A y : InSeq(y, Tail(s)) <=> InSeq(y, s) /\ y # Head(s)
<1>1. /\ Len(s) \in Nat \ {0} /\ Head(s) = s[1] /\ Head(s) \in S
      /\ Tail(s) \in Seq(S) /\ Len(Tail(s)) = Len(s) - 1
  OBVIOUS
<1>2. \A m \in 1 .. Len(s) - 1 : Tail(s)[m] = s[m + 1]
  OBVIOUS
<1>3. Distinct(Tail(s))
  <2> SUFFICES ASSUME NEW m \in 1 .. Len(s) - 1, NEW n \in 1 .. Len(s) - 1,
                      Tail(s)[m] = Tail(s)[n]
               PROVE  m = n
    BY <1>1 DEF Distinct
  <2>1. s[m + 1] = s[n + 1]
    BY <1>2
  <2>2. m + 1 \in 1 .. Len(s) /\ n + 1 \in 1 .. Len(s)
    BY <1>1
  <2> QED BY <2>1, <2>2 DEF Distinct
<1>4. ASSUME NEW y, InSeq(y, Tail(s)) PROVE InSeq(y, s) /\ y # Head(s)
  <2>1. PICK m \in 1 .. Len(s) - 1 : Tail(s)[m] = y
    BY <1>1, <1>4 DEF InSeq
  <2>2. m + 1 \in 1 .. Len(s) /\ 1 \in 1 .. Len(s) /\ m + 1 # 1 /\ s[m + 1] = y
    BY <1>1, <1>2, <2>1
  <2> QED BY <1>1, <2>2 DEF InSeq, Distinct
<1>5. ASSUME NEW y, InSeq(y, s), y # Head(s) PROVE InSeq(y, Tail(s))
  <2>1. PICK m \in 1 .. Len(s) : s[m] = y
    BY <1>5 DEF InSeq
  <2>2. m - 1 \in 1 .. Len(s) - 1 /\ m = (m - 1) + 1
    BY <1>1, <1>5, <2>1
  <2>3. Tail(s)[m - 1] = y
    BY <1>2, <2>1, <2>2
  <2> QED BY <1>1, <2>2, <2>3 DEF InSeq
<1>6. InSeq(Head(s), s)
  BY <1>1 DEF InSeq
<1> QED BY <1>1, <1>3, <1>4, <1>5, <1>6

LEMMA WithoutKeeps ==
  ASSUME NEW S, NEW s \in Seq(S), NEW x, Distinct(s), InSeq(x, s)
  PROVE  /\ Without(s, x) \in Seq(S)
         /\ Distinct(Without(s, x))
         /\ \A y : InSeq(y, Without(s, x)) <=> InSeq(y, s) /\ y # x
<1> DEFINE n == CHOOSE n \in 1 .. Len(s) : s[n] = x
           w == Without(s, x)
<1>1. n \in 1 .. Len(s) /\ s[n] = x
  BY DEF InSeq
<1> HIDE DEF n
<1>2. w = [m \in 1 .. Len(s) - 1 |-> s[IF m < n THEN m ELSE m + 1]]
  BY DEF Without, n
<1>3. Len(s) \in Nat \ {0} /\ \A m \in 1 .. Len(s) : s[m] \in S
  BY <1>1
<1>4. \A m \in 1 .. Len(s) - 1 : (IF m < n THEN m ELSE m + 1) \in 1 .. Len(s)
  BY <1>1, <1>3
<1>5. w \in [1 .. Len(s) - 1 -> S]
  BY <1>2, <1>3, <1>4
<1>6. w \in Seq(S) /\ Len(w) = Len(s) - 1
  BY <1>3, <1>5
<1> HIDE DEF w
<1>7. ASSUME NEW a \in 1 .. Len(s) - 1, NEW b \in 1 .. Len(s) - 1, w[a] = w[b]
      PROVE  a = b
  <2>1. (IF a < n THEN a ELSE a + 1) = (IF b < n THEN b ELSE b + 1)
    BY <1>2, <1>4, <1>7 DEF Distinct
  <2> QED BY <1>1, <1>3, <2>1
<1>8. ASSUME NEW y, InSeq(y, w) PROVE InSeq(y, s) /\ y # x
  <2>1. PICK m \in 1 .. Len(s) - 1 : w[m] = y
    BY <1>6, <1>8 DEF InSeq
  <2> DEFINE k == IF m < n THEN m ELSE m + 1
  <2>2. k \in 1 .. Len(s) /\ k # n /\ s[k] = y
    BY <1>1, <1>2, <1>4, <2>1
  <2> HIDE DEF k
  <2> QED BY <1>1, <2>2 DEF InSeq, Distinct
<1>9. ASSUME NEW y, InSeq(y, s), y # x PROVE InSeq(y, w)
  <2>1. PICK k \in 1 .. Len(s) : s[k] = y
    BY <1>9 DEF InSeq
  <2>2. k # n
    BY <1>1, <1>9, <2>1
  <2> DEFINE m == IF k < n THEN k ELSE k - 1
  <2>3. m \in 1 .. Len(s) - 1 /\ (IF m < n THEN m ELSE m + 1) = k
    BY <1>1, <1>3, <2>2
  <2>4. w[m] = s[IF m < n THEN m ELSE m + 1]
    BY <1>2, <2>3
  <2> QED BY <1>6, <2>1, <2>3, <2>4 DEF InSeq
<1>10. Distinct(w)
  BY <1>6, <1>7 DEF Distinct
<1> QED BY <1>6, <1>8, <1>9, <1>10 DEF w

-----------------------------------------------------------------------------
(* What the invariant gives. *)

LEMMA IInvImplies == IInv => Releasable /\ NoOrphans /\ PollFinds
<1> SUFFICES ASSUME IInv, NEW q \in Requests
             PROVE  /\ Blocked(q) => /\ InSeq(q, queue[_approval_key(asker[q])])
                                     /\ stage[asker[q]] \in {"armed", "ended"}
                    /\ Blocked(q) /\ Running(asker[q])
                         => InSeq(q, queue[approval_key_for(sid[asker[q]])])
                    /\ \A i \in Ids : InSeq(q, queue[i]) => Blocked(q)
  BY DEF Releasable, NoOrphans, PollFinds
<1>1. \A i \in Ids : InSeq(q, queue[i]) => Blocked(q)
  BY DEF IInv, GateInv, Only
<1>2. ASSUME Blocked(q)
      PROVE  /\ asker[q] \in Turns /\ _approval_key(asker[q]) = key[asker[q]]
             /\ InSeq(q, queue[_approval_key(asker[q])])
             /\ stage[asker[q]] \in {"armed", "ended"}
  BY <1>2 DEF IInv, TypeOK, GateInv, Keyed, Waits, Blocked, _approval_key
<1>3. ASSUME Blocked(q), Running(asker[q])
      PROVE  approval_key_for(sid[asker[q]]) = _approval_key(asker[q])
  BY <1>2, <1>3 DEF IInv, TypeOK, TurnInv, approval_key_for, RunningAt
<1> QED BY <1>1, <1>2, <1>3

LEMMA InitIInv == Init => IInv
<1> SUFFICES ASSUME Init PROVE IInv
  OBVIOUS
<1>1. TypeOK
  BY DEF Init, TypeOK
<1>2. TurnInv
  BY DEF Init, TurnInv, Running
<1>3. \A i \in Ids : Len(queue[i]) = 0
  BY DEF Init
<1>4. GateInv
  BY <1>3 DEF Init, GateInv, Keyed, Waits, Only, Blocked, Distinct, InSeq
<1>5. \A t \in Turns : Len(log[t]) = 0
  BY DEF Init
<1>6. ViewInv
  BY <1>5 DEF Init, ViewInv, Asked
<1> QED BY <1>1, <1>2, <1>4, <1>6 DEF IInv

-----------------------------------------------------------------------------
(* What each part of a step keeps. *)

LEMMA GateFrame ==
  ASSUME GateInv, TypeOK, UNCHANGED <<queue, asker, verdict>>,
         \A t \in Turns : key[t] # None => key'[t] = key[t],
         \A t \in Turns : stage[t] \in {"armed", "ended"} => stage'[t] \in {"armed", "ended"}
  PROVE  GateInv'
<1>1. \A q \in Requests : asker[q] # None => asker[q] \in Turns
  BY DEF TypeOK
<1>2. Keyed' /\ Waits' /\ Only'
  BY <1>1 DEF GateInv, Keyed, Waits, Only, Blocked
<1> QED BY <1>2 DEF GateInv

LEMMA ViewFrame ==
  ASSUME ViewInv, TypeOK, UNCHANGED <<log, viewVars>>,
         \A q \in Requests : asker[q] # None => asker'[q] # None,
         \A t \in Turns : stage[t] # "new" => stage'[t] # "new"
  PROVE  ViewInv'
<1>1. \A t \in Turns : \A n \in 1 .. Len(log[t]) : log[t][n] \in Requests
  BY DEF TypeOK
<1> QED BY <1>1 DEF ViewInv, TypeOK, viewVars, Asked

\* One request x leaves the queue of k, its tool released.
LEMMA GateResolve ==
  ASSUME GateInv, TypeOK, NEW k \in Ids, NEW x \in Requests, NEW s \in Seq(Requests),
         InSeq(x, queue[k]), Distinct(s),
         \A y : InSeq(y, s) <=> InSeq(y, queue[k]) /\ y # x,
         queue' = [queue EXCEPT ![k] = s], verdict'[x] # None,
         \A q \in Requests : q # x => verdict'[q] = verdict[q],
         UNCHANGED <<asker, key, stage>>
  PROVE  GateInv'
<1>1. \A i \in Ids : queue'[i] = IF i = k THEN s ELSE queue[i]
  BY DEF TypeOK
<1>2. \A q \in Requests : Blocked(q)' <=> Blocked(q) /\ q # x
  BY DEF Blocked
<1>3. \A q \in Requests : Blocked(q) => key[asker[q]] \in Ids
  BY DEF GateInv, Keyed, TypeOK, Blocked
<1>4. Blocked(x) /\ key[asker[x]] = k
  BY DEF GateInv, Only
<1>5. Keyed'
  BY <1>4 DEF GateInv, Keyed, Blocked
<1>6. Waits'
  BY <1>1, <1>2, <1>3 DEF GateInv, Waits
<1>7. Only'
  <2> SUFFICES ASSUME NEW i \in Ids, NEW q \in Requests, InSeq(q, queue'[i])
               PROVE  Blocked(q)' /\ key[asker[q]] = i
    BY DEF Only
  <2>1. InSeq(q, queue[i])
    BY <1>1
  <2>2. Blocked(q) /\ key[asker[q]] = i
    BY <2>1 DEF GateInv, Only
  <2>3. q # x
    BY <1>1, <1>4, <2>2
  <2> QED BY <1>2, <2>2, <2>3
<1>8. \A i \in Ids : Distinct(queue'[i])
  BY <1>1 DEF GateInv
<1> QED BY <1>5, <1>6, <1>7, <1>8 DEF GateInv

\* Everything that waits under k is denied.
LEMMA GateDeny ==
  ASSUME GateInv, TypeOK, NEW k \in Ids, DenyAll(k), UNCHANGED <<asker, key>>,
         \A t \in Turns : stage[t] \in {"armed", "ended"} /\ stage'[t] # stage[t] => key[t] \in {k, None}
  PROVE  /\ GateInv'
         /\ queue' \in [Ids -> Seq(Requests)]
         /\ verdict' \in [Requests -> Requests \cup {None, "deny"}]
<1>1. \A i \in Ids : queue'[i] = IF i = k THEN <<>> ELSE queue[i]
  BY DEF TypeOK, DenyAll
<1>2. \A q \in Requests : verdict'[q] = IF InSeq(q, queue[k]) THEN "deny" ELSE verdict[q]
  BY DEF DenyAll
<1>3. \A q \in Requests : Blocked(q)' <=> Blocked(q) /\ ~InSeq(q, queue[k])
  BY <1>2 DEF Blocked
<1>4. \A q \in Requests : Blocked(q) => asker[q] \in Turns /\ key[asker[q]] \in Ids
  BY DEF GateInv, Keyed, TypeOK, Blocked
<1>5. \A q \in Requests : Blocked(q)' => key[asker[q]] # k
  BY <1>3 DEF GateInv, Waits
<1>6. Keyed'
  BY <1>2 DEF GateInv, Keyed, Only, Blocked
<1>7. Waits'
  BY <1>1, <1>3, <1>4, <1>5 DEF GateInv, Waits
<1>8. \A q : ~InSeq(q, <<>>)
  BY DEF InSeq
<1>9. Only'
  BY <1>1, <1>3, <1>8 DEF GateInv, Only
<1>10. \A i \in Ids : Distinct(queue'[i])
  BY <1>1 DEF GateInv, Distinct
<1>11. queue' \in [Ids -> Seq(Requests)]
  BY DEF DenyAll, TypeOK
<1>12. verdict' \in [Requests -> Requests \cup {None, "deny"}]
  BY DEF DenyAll, TypeOK
<1> QED BY <1>6, <1>7, <1>9, <1>10, <1>11, <1>12 DEF GateInv

-----------------------------------------------------------------------------
(* The steps: turns. *)

LEMMA StepStart ==
  ASSUME IInv, NEW t \in Turns, NEW i \in Ids, Start(t, i)
  PROVE  IInv'
<1>1. TypeOK'
  BY DEF IInv, TypeOK, Start, gateVars, viewVars
<1>2. TurnInv'
  <2> SUFFICES ASSUME NEW u \in Turns
               PROVE  /\ sid'[u] # None => sid'[u] \in minted'
                      /\ Running(u)' => live'[sid'[u]] = u
    BY DEF TurnInv
  <2>1. CASE u = t
    BY <2>1 DEF IInv, TypeOK, Start
  <2>2. CASE u # t
    <3>1. sid'[u] = sid[u] /\ stage'[u] = stage[u] /\ (Running(u) => sid[u] # i)
      BY <2>2 DEF IInv, TypeOK, TurnInv, Start, RunningAt
    <3> QED BY <3>1 DEF IInv, TypeOK, TurnInv, Start, Running
  <2> QED BY <2>1, <2>2
<1>3. GateInv'
  BY GateFrame DEF IInv, TypeOK, Start, gateVars
<1>4. ViewInv'
  BY ViewFrame DEF IInv, TypeOK, Start, gateVars
<1> QED BY <1>1, <1>2, <1>3, <1>4 DEF IInv

LEMMA StepInstall ==
  ASSUME IInv, NEW t \in Turns, _install_approval(t)
  PROVE  IInv'
<1>1. _approval_key(t) \in Ids
  BY DEF IInv, TypeOK, _install_approval, _approval_key
<1>2. TypeOK'
  BY <1>1 DEF IInv, TypeOK, _install_approval, viewVars
<1>3. TurnInv'
  BY DEF IInv, TypeOK, TurnInv, _install_approval, Running
<1>4. GateInv'
  BY GateFrame DEF IInv, TypeOK, _install_approval, _approval_key
<1>5. ViewInv'
  BY ViewFrame DEF IInv, TypeOK, _install_approval
<1> QED BY <1>2, <1>3, <1>4, <1>5 DEF IInv

LEMMA StepRotate ==
  ASSUME IInv, NEW t \in Turns, NEW n \in Ids, Rotate(t, n)
  PROVE  IInv'
<1>1. TypeOK'
  BY DEF IInv, TypeOK, Rotate, gateVars, viewVars
<1>2. TurnInv'
  <2> SUFFICES ASSUME NEW u \in Turns
               PROVE  /\ sid'[u] # None => sid'[u] \in minted'
                      /\ Running(u)' => live'[sid'[u]] = u
    BY DEF TurnInv
  <2>1. CASE u = t
    <3>1. sid[t] \in Ids /\ Running(t) /\ live[sid[t]] = t /\ sid'[t] = n
      BY DEF IInv, TypeOK, TurnInv, Rotate, Running
    <3> QED BY <2>1, <3>1 DEF IInv, TypeOK, Rotate
  <2>2. CASE u # t
    <3>1. sid'[u] = sid[u] /\ stage'[u] = stage[u] /\ sid[u] # n
      BY <2>2 DEF IInv, TypeOK, TurnInv, Rotate
    <3>2. Running(u) => sid[u] \in Ids /\ live[sid[u]] = u /\ sid[u] # sid[t]
      BY <2>2 DEF IInv, TypeOK, TurnInv, Rotate, Running
    <3> QED BY <3>1, <3>2 DEF IInv, TypeOK, TurnInv, Rotate, Running
  <2> QED BY <2>1, <2>2
<1>3. GateInv'
  BY GateFrame DEF IInv, TypeOK, Rotate, gateVars
<1>4. ViewInv'
  BY ViewFrame DEF IInv, TypeOK, Rotate, gateVars
<1> QED BY <1>1, <1>2, <1>3, <1>4 DEF IInv

LEMMA StepFinish ==
  ASSUME IInv, NEW t \in Turns, Finish(t)
  PROVE  IInv'
<1>1. TypeOK'
  BY DEF IInv, TypeOK, Finish, gateVars, viewVars, Running
<1>2. TurnInv'
  BY DEF IInv, TypeOK, TurnInv, Finish, Running
<1>3. GateInv'
  BY GateFrame DEF IInv, TypeOK, Finish, gateVars
<1>4. ViewInv'
  BY ViewFrame DEF IInv, TypeOK, Finish, gateVars
<1> QED BY <1>1, <1>2, <1>3, <1>4 DEF IInv

LEMMA StepReleaseQueue ==
  ASSUME IInv, NEW t \in Turns, ReleaseQueue(t)
  PROVE  IInv'
<1>1. _approval_key(t) \in Ids /\ key[t] \in {_approval_key(t), None}
  BY DEF IInv, TypeOK, ReleaseQueue, _approval_key
<1>2. /\ GateInv' /\ queue' \in [Ids -> Seq(Requests)]
      /\ verdict' \in [Requests -> Requests \cup {None, "deny"}]
  <2>1. \A u \in Turns : stage'[u] # stage[u] => u = t
    BY DEF IInv, TypeOK, ReleaseQueue
  <2> QED BY <1>1, <2>1, GateDeny DEF IInv, ReleaseQueue
<1>3. TypeOK'
  BY <1>2 DEF IInv, TypeOK, ReleaseQueue, viewVars
<1>4. TurnInv'
  BY DEF IInv, TypeOK, TurnInv, ReleaseQueue, Running
<1>5. ViewInv'
  BY ViewFrame DEF IInv, TypeOK, ReleaseQueue
<1> QED BY <1>2, <1>3, <1>4, <1>5 DEF IInv

LEMMA StepReleaseHook ==
  ASSUME IInv, NEW t \in Turns, ReleaseHook(t)
  PROVE  IInv'
<1>1. TypeOK'
  BY DEF IInv, TypeOK, ReleaseHook, viewVars
<1>2. TurnInv'
  BY DEF IInv, TypeOK, TurnInv, ReleaseHook, Running
<1>3. GateInv'
  BY GateFrame DEF IInv, TypeOK, ReleaseHook
<1>4. ViewInv'
  BY ViewFrame DEF IInv, TypeOK, ReleaseHook
<1> QED BY <1>1, <1>2, <1>3, <1>4 DEF IInv

LEMMA StepCancel ==
  ASSUME IInv, NEW t \in Turns, cancel(t)
  PROVE  IInv'
<1>1. _approval_key(t) \in Ids
  BY DEF IInv, TypeOK, cancel, Running, _approval_key
<1>2. /\ GateInv' /\ queue' \in [Ids -> Seq(Requests)]
      /\ verdict' \in [Requests -> Requests \cup {None, "deny"}]
  BY <1>1, GateDeny DEF IInv, cancel, turnVars
<1>3. TypeOK'
  BY <1>2 DEF IInv, TypeOK, cancel, turnVars, viewVars
<1>4. TurnInv'
  BY DEF IInv, TurnInv, cancel, turnVars, Running
<1>5. ViewInv'
  BY ViewFrame DEF IInv, cancel, turnVars
<1> QED BY <1>2, <1>3, <1>4, <1>5 DEF IInv

-----------------------------------------------------------------------------
(* The steps: requests. *)

LEMMA StepAsk ==
  ASSUME IInv, NEW t \in Turns, NEW q \in Requests, Ask(t, q)
  PROVE  IInv'
<1> DEFINE k == key[t]
<1>1. k \in Ids /\ queue[k] \in Seq(Requests)
  BY DEF IInv, TypeOK, Ask
<1>2. ~InSeq(q, queue[k]) /\ Distinct(queue[k])
  BY <1>1 DEF IInv, GateInv, Only, Blocked, Ask
<1>3. /\ Append(queue[k], q) \in Seq(Requests) /\ Distinct(Append(queue[k], q))
      /\ \A y : InSeq(y, Append(queue[k], q)) <=> InSeq(y, queue[k]) \/ y = q
  BY <1>1, <1>2, AppendKeeps
<1>4. \A i \in Ids : queue'[i] = IF i = k THEN Append(queue[k], q) ELSE queue[i]
  BY <1>1 DEF IInv, TypeOK, Ask
<1>5. /\ asker'[q] = t
      /\ \A r \in Requests : r # q => asker'[r] = asker[r]
      /\ UNCHANGED <<key, stage, verdict>>
  BY DEF IInv, TypeOK, Ask, turnVars
<1>6. TypeOK'
  <2>1. queue' \in [Ids -> Seq(Requests)]
    BY <1>1, <1>3 DEF IInv, TypeOK, Ask
  <2> QED BY <2>1 DEF IInv, TypeOK, Ask, turnVars, viewVars
<1>7. TurnInv'
  BY DEF IInv, TurnInv, Ask, turnVars, Running
<1>8. Keyed'
  BY <1>1, <1>5 DEF IInv, GateInv, Keyed
<1>9. Waits'
  <2> SUFFICES ASSUME NEW r \in Requests, Blocked(r)'
               PROVE  /\ InSeq(r, queue'[key[asker'[r]]])
                      /\ stage[asker'[r]] \in {"armed", "ended"}
    BY <1>5 DEF Waits
  <2>1. CASE r = q
    BY <1>1, <1>3, <1>4, <1>5, <2>1 DEF Ask
  <2>2. CASE r # q
    <3>1. /\ Blocked(r) /\ asker[r] \in Turns /\ key[asker[r]] \in Ids
          /\ InSeq(r, queue[key[asker[r]]]) /\ stage[asker[r]] \in {"armed", "ended"}
      BY <1>5, <2>2 DEF IInv, TypeOK, GateInv, Keyed, Waits, Blocked
    <3> QED BY <1>3, <1>4, <1>5, <2>2, <3>1
  <2> QED BY <2>1, <2>2
<1>10. Only'
  <2> SUFFICES ASSUME NEW i \in Ids, NEW r \in Requests, InSeq(r, queue'[i])
               PROVE  Blocked(r)' /\ key[asker'[r]] = i
    BY <1>5 DEF Only
  <2>1. CASE InSeq(r, queue[i])
    <3>1. Blocked(r) /\ key[asker[r]] = i /\ r # q
      BY <2>1 DEF IInv, GateInv, Only, Blocked, Ask
    <3> QED BY <1>5, <3>1 DEF Blocked
  <2>2. CASE ~InSeq(r, queue[i])
    <3>1. i = k /\ r = q
      BY <1>3, <1>4, <2>2
    <3>2. verdict[q] = None
      BY DEF IInv, GateInv, Keyed, Ask
    <3> QED BY <1>5, <3>1, <3>2 DEF Blocked, IInv, TypeOK
  <2> QED BY <2>1, <2>2
<1>11. \A i \in Ids : Distinct(queue'[i])
  BY <1>3, <1>4 DEF IInv, GateInv
<1>12. ViewInv'
  BY <1>5, ViewFrame DEF IInv, TypeOK, Ask, turnVars
<1> QED BY <1>6, <1>7, <1>8, <1>9, <1>10, <1>11, <1>12 DEF IInv, GateInv

LEMMA StepNotify ==
  ASSUME IInv, NEW q \in Requests, _notify_approval(q)
  PROVE  IInv'
<1> DEFINE k == key[asker[q]]
<1>1. asker[q] \in Turns /\ k \in Ids
  BY DEF IInv, TypeOK, GateInv, Keyed, _notify_approval
<1>2. UNCHANGED <<turnVars, hook, asker, viewVars>> /\ notified' \in SUBSET Requests
  BY DEF IInv, TypeOK, _notify_approval
<1>3. TurnInv'
  BY <1>2 DEF IInv, TurnInv, turnVars, Running
<1>4. CASE hook[k] # None /\ q \in Smart /\ InSeq(q, queue[k])
  <2> DEFINE s == Without(queue[k], q)
  <2>1. /\ queue' = [queue EXCEPT ![k] = s] /\ verdict' = [verdict EXCEPT ![q] = "deny"]
        /\ UNCHANGED log
    BY <1>4 DEF _notify_approval, _resolve_notified_approval
  <2>2. queue[k] \in Seq(Requests) /\ Distinct(queue[k])
    BY <1>1 DEF IInv, TypeOK, GateInv
  <2>3. /\ s \in Seq(Requests) /\ Distinct(s)
        /\ \A y : InSeq(y, s) <=> InSeq(y, queue[k]) /\ y # q
    BY <1>4, <2>2, WithoutKeeps
  <2> HIDE DEF s, k
  <2>4. TypeOK'
    BY <1>1, <1>2, <2>1, <2>3 DEF IInv, TypeOK, turnVars, viewVars
  <2>5. /\ verdict'[q] # None
        /\ \A r \in Requests : r # q => verdict'[r] = verdict[r]
    BY <2>1 DEF IInv, TypeOK
  <2>6. GateInv'
    BY <1>1, <1>2, <1>4, <2>1, <2>3, <2>5, GateResolve DEF IInv, turnVars
  <2>7. ViewInv'
    BY <1>2, <2>1, ViewFrame DEF IInv, turnVars
  <2> QED BY <1>3, <2>4, <2>6, <2>7 DEF IInv
<1>5. CASE ~(hook[k] # None /\ q \in Smart /\ InSeq(q, queue[k]))
  <2>1. /\ UNCHANGED <<queue, verdict>>
        /\ \/ UNCHANGED log
           \/ \E t \in Turns : log' = [log EXCEPT ![t] = Append(@, q)]
    BY <1>1, <1>5 DEF IInv, TypeOK, _notify_approval
  <2>2. \A t \in Turns : \/ log'[t] = log[t]
                         \/ log'[t] = Append(log[t], q)
    BY <2>1 DEF IInv, TypeOK
  <2>3. log' \in [Turns -> Seq(Requests)]
    <3>1. \A t \in Turns : Append(log[t], q) \in Seq(Requests)
      BY DEF IInv, TypeOK
    <3>2. ASSUME NEW t \in Turns, log' = [log EXCEPT ![t] = Append(log[t], q)]
          PROVE  log' \in [Turns -> Seq(Requests)]
      <4> DEFINE s == Append(log[t], q)
      <4>1. s \in Seq(Requests) /\ log' = [log EXCEPT ![t] = s]
        BY <3>1, <3>2
      <4> HIDE DEF s
      <4> QED BY <4>1 DEF IInv, TypeOK
    <3> QED BY <2>1, <3>2 DEF IInv, TypeOK
  <2>4. TypeOK'
    BY <1>2, <2>1, <2>3 DEF IInv, TypeOK, turnVars, viewVars
  <2>5. GateInv'
    BY <1>2, <2>1, GateFrame DEF IInv, turnVars
  <2>6. ASSUME NEW t \in Turns, NEW n \in 1 .. Len(log'[t]) PROVE asker[log'[t][n]] # None
    <3>1. log[t] \in Seq(Requests) /\ \A m \in 1 .. Len(log[t]) : asker[log[t][m]] # None
      BY DEF IInv, TypeOK, ViewInv
    <3>2. CASE log'[t] = log[t]
      BY <2>6, <3>1, <3>2
    <3>3. CASE log'[t] = Append(log[t], q)
      <4>1. n \in 1 .. Len(log[t]) + 1
        BY <2>6, <3>1, <3>3
      <4>2. CASE n \in 1 .. Len(log[t])
        BY <3>1, <3>3, <4>2
      <4>3. CASE n = Len(log[t]) + 1
        BY <1>1, <3>1, <3>3, <4>3
      <4> QED BY <3>1, <4>1, <4>2, <4>3
    <3> QED BY <2>2, <3>2, <3>3
  <2>7. ViewInv'
    BY <1>2, <2>6 DEF IInv, ViewInv, Asked, turnVars, viewVars
  <2> QED BY <1>3, <2>4, <2>5, <2>7 DEF IInv
<1> QED BY <1>4, <1>5

LEMMA StepExpire ==
  ASSUME IInv, NEW q \in Requests, Expire(q)
  PROVE  IInv'
<1> DEFINE k == key[asker[q]]
           s == Without(queue[k], q)
<1>1. k \in Ids /\ InSeq(q, queue[k])
  BY DEF IInv, TypeOK, GateInv, Keyed, Waits, Blocked, Expire
<1>2. queue[k] \in Seq(Requests) /\ Distinct(queue[k])
  BY <1>1 DEF IInv, TypeOK, GateInv
<1>3. /\ s \in Seq(Requests) /\ Distinct(s)
      /\ \A y : InSeq(y, s) <=> InSeq(y, queue[k]) /\ y # q
  BY <1>1, <1>2, WithoutKeeps
<1>4. /\ queue' = [queue EXCEPT ![k] = s] /\ verdict' = [verdict EXCEPT ![q] = "deny"]
      /\ UNCHANGED <<turnVars, log, hook, asker, notified, viewVars>>
  BY DEF Expire
<1> HIDE DEF s, k
<1>5. TypeOK'
  BY <1>1, <1>3, <1>4 DEF IInv, TypeOK, turnVars, viewVars
<1>6. TurnInv'
  BY <1>4 DEF IInv, TurnInv, turnVars, Running
<1>7. verdict'[q] # None /\ \A r \in Requests : r # q => verdict'[r] = verdict[r]
  BY <1>4 DEF IInv, TypeOK
<1>8. GateInv'
  BY <1>1, <1>3, <1>4, <1>7, GateResolve DEF IInv, turnVars
<1>9. ViewInv'
  BY <1>4, ViewFrame DEF IInv, turnVars
<1> QED BY <1>5, <1>6, <1>8, <1>9 DEF IInv

-----------------------------------------------------------------------------
(* The steps: views. *)

LEMMA StepAnswer ==
  ASSUME IInv, NEW v \in Views, _perm_answer(v)
  PROVE  IInv'
<1> DEFINE k == key[asker[answer[v]]]
           x == Head(queue[k])
<1>1. answer[v] \in Requests /\ k \in Ids
  BY DEF IInv, TypeOK, GateInv, ViewInv, Keyed, Asked, _perm_answer
<1>2. queue[k] \in Seq(Requests) /\ Distinct(queue[k])
  BY <1>1 DEF IInv, TypeOK, GateInv
<1>3. /\ UNCHANGED <<turnVars, log, hook, asker, notified, watch, at, pos, card, opens>>
      /\ answer' = [answer EXCEPT ![v] = None]
  BY DEF _perm_answer
<1>4. TurnInv' /\ ViewInv'
  BY <1>3 DEF IInv, TypeOK, TurnInv, ViewInv, Asked, turnVars, Running
<1>5. CASE queue[k] = <<>>
  <2>1. UNCHANGED <<queue, verdict>>
    BY <1>5 DEF _perm_answer
  <2>2. TypeOK'
    BY <1>3, <2>1 DEF IInv, TypeOK, turnVars
  <2>3. GateInv'
    BY <1>3, <2>1, GateFrame DEF IInv, turnVars
  <2> QED BY <1>4, <2>2, <2>3 DEF IInv
<1>6. CASE queue[k] # <<>>
  <2> DEFINE s == Tail(queue[k])
  <2>1. queue' = [queue EXCEPT ![k] = s] /\ verdict' = [verdict EXCEPT ![x] = answer[v]]
    BY <1>6 DEF _perm_answer
  <2>2. /\ x \in Requests /\ InSeq(x, queue[k]) /\ s \in Seq(Requests) /\ Distinct(s)
        /\ \A y : InSeq(y, s) <=> InSeq(y, queue[k]) /\ y # x
    BY <1>2, <1>6, TailKeeps
  <2> HIDE DEF s, x, k
  <2>3. TypeOK'
    BY <1>1, <1>3, <2>1, <2>2 DEF IInv, TypeOK, turnVars
  <2>4. verdict'[x] # None /\ \A r \in Requests : r # x => verdict'[r] = verdict[r]
    BY <1>1, <2>1, <2>2 DEF IInv, TypeOK
  <2>5. GateInv'
    BY <1>1, <1>3, <2>1, <2>2, <2>4, GateResolve DEF IInv, turnVars
  <2> QED BY <1>4, <2>3, <2>5 DEF IInv
<1> QED BY <1>5, <1>6

\* The other steps of a view leave turns and requests alone.
LEMMA ViewStep ==
  ASSUME IInv, UNCHANGED <<turnVars, log, gateVars>>,
         watch' \in [Views -> Turns \cup {None}], at' \in [Views -> Ids \cup {None}],
         pos' \in [Views -> Nat], opens' \in Nat,
         card' \in [Views -> Requests \cup {None}], answer' \in [Views -> Requests \cup {None}],
         \A v \in Views : /\ watch'[v] # None => at'[v] \in Ids /\ stage[watch'[v]] # "new"
                          /\ Asked(card'[v]) /\ Asked(answer'[v])
  PROVE  IInv'
<1>1. TypeOK'
  BY DEF IInv, TypeOK, turnVars, gateVars
<1>2. TurnInv'
  BY DEF IInv, TurnInv, turnVars, Running
<1>3. GateInv'
  BY GateFrame DEF IInv, turnVars, gateVars
<1>4. ViewInv'
  BY DEF IInv, ViewInv, Asked, turnVars, gateVars
<1> QED BY <1>1, <1>2, <1>3, <1>4 DEF IInv

LEMMA StepBrowse ==
  ASSUME IInv, NEW v \in Views,
         \/ apply(v) \/ endTurn(v) \/ Adopt(v) \/ pollApprovals(v) \/ answerApproval(v)
         \/ \E t \in Turns : openSession(v, t)
  PROVE  IInv'
<1>1. \A u \in Views : /\ watch[u] # None => at[u] \in Ids /\ stage[watch[u]] # "new"
                       /\ Asked(card[u]) /\ Asked(answer[u])
  BY DEF IInv, ViewInv
<1>2. CASE apply(v)
  <2> DEFINE t == watch[v]
             q == log[t][pos[v] + 1]
  <2>1. t \in Turns /\ pos[v] \in Nat /\ log[t] \in Seq(Requests) /\ pos[v] + 1 \in 1 .. Len(log[t])
    BY <1>2 DEF IInv, TypeOK, apply
  <2>2. q \in Requests /\ asker[q] # None
    BY <2>1 DEF IInv, ViewInv
  <2> HIDE DEF q
  <2>3. /\ UNCHANGED <<turnVars, log, gateVars, watch, at, answer, opens>>
        /\ pos' = [pos EXCEPT ![v] = pos[v] + 1]
        /\ card' = [card EXCEPT ![v] = IF @ = None THEN q ELSE @]
    BY <1>2 DEF apply, showApproval, q
  <2>4. /\ pos' \in [Views -> Nat] /\ card' \in [Views -> Requests \cup {None}]
        /\ \A u \in Views : Asked(card'[u])
    BY <1>1, <2>1, <2>2, <2>3 DEF IInv, TypeOK, Asked
  <2> QED BY <1>1, <2>3, <2>4, ViewStep DEF IInv, TypeOK
<1>3. CASE endTurn(v)
  <2>1. /\ UNCHANGED <<turnVars, log, gateVars, answer, opens>>
        /\ watch' = [watch EXCEPT ![v] = None] /\ card' = [card EXCEPT ![v] = None]
        /\ at' = [at EXCEPT ![v] = None] /\ pos' = [pos EXCEPT ![v] = 0]
    BY <1>3 DEF endTurn
  <2>2. \A u \in Views : /\ watch'[u] # None => at'[u] \in Ids /\ stage[watch'[u]] # "new"
                         /\ Asked(card'[u]) /\ Asked(answer'[u])
    BY <1>1, <2>1 DEF IInv, TypeOK, Asked
  <2> QED BY <2>1, <2>2, ViewStep DEF IInv, TypeOK
<1>4. CASE Adopt(v)
  <2>1. watch[v] \in Turns /\ sid[watch[v]] \in Ids
    BY <1>1, <1>4 DEF IInv, TypeOK, Adopt
  <2>2. /\ UNCHANGED <<turnVars, log, gateVars, watch, pos, card, answer, opens>>
        /\ at' = [at EXCEPT ![v] = sid[watch[v]]]
    BY <1>4 DEF Adopt
  <2>3. at' \in [Views -> Ids \cup {None}] /\ \A u \in Views : at'[u] = at[u] \/ at'[u] \in Ids
    BY <2>1, <2>2 DEF IInv, TypeOK
  <2> QED BY <1>1, <2>2, <2>3, ViewStep DEF IInv, TypeOK
<1>5. CASE pollApprovals(v)
  <2> DEFINE k == approval_key_for(at[v])
             q == Head(queue[k])
  <2>1. at[v] \in Ids
    BY <1>1, <1>5 DEF pollApprovals
  <2>2. k \in Ids
    BY <2>1 DEF IInv, TypeOK, approval_key_for, _approval_key, RunningAt, Running
  <2>3. queue[k] \in Seq(Requests) /\ Distinct(queue[k]) /\ queue[k] # <<>>
    BY <1>5, <2>2 DEF IInv, TypeOK, GateInv, pollApprovals
  <2>4. q \in Requests /\ InSeq(q, queue[k])
    BY <2>3, TailKeeps
  <2>5. asker[q] # None
    BY <2>2, <2>4 DEF IInv, GateInv, Only, Blocked
  <2> HIDE DEF q
  <2>6. /\ UNCHANGED <<turnVars, log, gateVars, watch, at, pos, answer, opens>>
        /\ card' = [card EXCEPT ![v] = IF @ = None THEN q ELSE @]
    BY <1>5 DEF pollApprovals, showApproval, q
  <2>7. card' \in [Views -> Requests \cup {None}] /\ \A u \in Views : Asked(card'[u])
    BY <1>1, <2>4, <2>5, <2>6 DEF IInv, TypeOK, Asked
  <2> QED BY <1>1, <2>6, <2>7, ViewStep DEF IInv, TypeOK
<1>6. CASE answerApproval(v)
  <2>1. /\ UNCHANGED <<turnVars, log, gateVars, watch, at, pos, opens>>
        /\ answer' = [answer EXCEPT ![v] = card[v]] /\ card' = [card EXCEPT ![v] = None]
    BY <1>6 DEF answerApproval
  <2>2. \A u \in Views : Asked(card'[u]) /\ Asked(answer'[u])
    BY <1>1, <2>1 DEF IInv, TypeOK, Asked
  <2> QED BY <1>1, <2>1, <2>2, ViewStep DEF IInv, TypeOK
<1>7. CASE \E t \in Turns : openSession(v, t)
  <2> PICK t \in Turns : openSession(v, t)
    BY <1>7
  <2>1. stage[t] # "new" /\ sid[t] \in Ids
    BY DEF IInv, TypeOK, openSession, Running
  <2>2. /\ UNCHANGED <<turnVars, log, gateVars, answer>>
        /\ watch' = [watch EXCEPT ![v] = t] /\ card' = [card EXCEPT ![v] = None]
        /\ at' = [at EXCEPT ![v] = sid[t]] /\ pos' = [pos EXCEPT ![v] = 0]
        /\ opens' = opens + 1
    BY DEF openSession
  <2>3. \A u \in Views : /\ watch'[u] # None => at'[u] \in Ids /\ stage[watch'[u]] # "new"
                         /\ Asked(card'[u]) /\ Asked(answer'[u])
    BY <1>1, <2>1, <2>2 DEF IInv, TypeOK, Asked
  <2> QED BY <2>1, <2>2, <2>3, ViewStep DEF IInv, TypeOK
<1> QED BY <1>2, <1>3, <1>4, <1>5, <1>6, <1>7

-----------------------------------------------------------------------------
(* The results. *)

LEMMA StepIInv == IInv /\ [Next]_vars => IInv'
<1> SUFFICES ASSUME IInv, [Next]_vars PROVE IInv'
  OBVIOUS
<1>1. CASE Work
  BY <1>1, StepInstall, StepFinish, StepReleaseQueue, StepReleaseHook, StepCancel,
     StepStart, StepRotate DEF Work
<1>2. CASE Gate
  BY <1>2, StepNotify, StepExpire, StepAsk DEF Gate
<1>3. CASE Browse
  BY <1>3, StepBrowse, StepAnswer DEF Browse
<1>4. CASE UNCHANGED vars
  BY <1>4, ViewStep DEF IInv, TypeOK, ViewInv, vars, viewVars
<1> QED BY <1>1, <1>2, <1>3, <1>4 DEF Next

(* The shape of the state is kept: no step answers under a key that no turn of
   the card's conversation pinned. *)
THEOREM ApprovalsTypes == Spec => []TypeOK
<1>1. IInv => TypeOK
  BY DEF IInv
<1> QED BY <1>1, InitIInv, StepIInv, PTL DEF Spec

(* No tool is parked where the teardown and the Stop of its own turn cannot
   reach it, through any number of rotations, answers, timeouts and smart
   denials (_install_approval, _approval_key, _release_approval, cancel). *)
THEOREM ApprovalsReleasable == Spec => []Releasable
<1> QED BY IInvImplies, InitIInv, StepIInv, PTL DEF Spec

(* No tool is parked once the turn it works for has settled
   (_release_approval). *)
THEOREM ApprovalsNoOrphans == Spec => []NoOrphans
<1> QED BY IInvImplies, InitIInv, StepIInv, PTL DEF Spec

(* The poll of a view at the turn's present id reads the queue in which the
   turn's requests wait (approval_key_for). *)
THEOREM ApprovalsPollFinds == Spec => []PollFinds
<1> QED BY IInvImplies, InitIInv, StepIInv, PTL DEF Spec
=============================================================================
