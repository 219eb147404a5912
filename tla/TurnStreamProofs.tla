-------------------------- MODULE TurnStreamProofs --------------------------
(***************************************************************************)
(* For every set of readers, every backlog and every length of run:       *)
(* TurnStream keeps its inductive invariant, hence ToldLast and HonestGap, *)
(* and implements TurnDelivery.                                            *)
(***************************************************************************)
EXTENDS TurnStream, TLAPS

(* What one reader's part of the invariant says, as one formula. *)
ReaderInv(r) ==
    /\ CursorInv(r) /\ PendingInv(r) /\ ToldInv(r)
    /\ GapInv(r) /\ GapCheckInv(r)

LEMMA InitIInv == Init => IInv
<1> SUFFICES ASSUME Init PROVE IInv
  OBVIOUS
<1>1. TypeOK
  BY BacklogAssumption DEF Init, TypeOK, PCs
<1>2. LogShape
  BY BoundsAssumption DEF Init, LogShape
<1>3. ASSUME NEW r \in Readers PROVE ReaderInv(r)
  <2>1. /\ seq = 0 /\ got[r] = 0 /\ cur[r] = 0 /\ pc[r] = "away"
        /\ told[r] = FALSE /\ gap[r] = FALSE
    BY DEF Init
  <2> QED
    BY <2>1 DEF ReaderInv, CursorInv, PendingInv, ToldInv, GapInv, GapCheckInv
<1> QED BY <1>1, <1>2, <1>3 DEF IInv, ReaderInv

(* The stream moves, the readers do not: the log only grows. *)
LEMMA StreamStep ==
  ASSUME IInv, emit \/ finish_emit \/ finish_close
  PROVE  IInv'
<1> USE BacklogAssumption, BoundsAssumption
<1>1. TypeOK'
  <2>1. /\ seq' \in Nat /\ dropped' \in Nat /\ endAt' \in Nat
        /\ dropped' <= seq' /\ seq' - dropped' <= Backlog /\ endAt' <= seq'
        /\ running' \in BOOLEAN
    <3> USE DEF IInv, TypeOK
    <3>1. CASE emit BY <3>1 DEF emit, Append1
    <3>2. CASE finish_emit BY <3>2 DEF finish_emit, Append1
    <3>3. CASE finish_close BY <3>3 DEF finish_close
    <3> QED BY <3>1, <3>2, <3>3
  <2>2. UNCHANGED readerVars /\ UNCHANGED boundVars
    BY DEF emit, finish_emit, finish_close
  <2> QED BY <2>1, <2>2 DEF IInv, TypeOK, readerVars, boundVars
<1>2. LogShape'
  BY DEF IInv, TypeOK, LogShape, emit, finish_emit, finish_close, Append1
<1>3. ASSUME NEW r \in Readers PROVE ReaderInv(r)'
  <2>1. /\ seq' >= seq /\ dropped' >= dropped
        /\ endAt # 0 => endAt' = endAt
        /\ ~running => ~running'
    BY DEF IInv, TypeOK, emit, finish_emit, finish_close, Append1
  <2>2. UNCHANGED readerVars
    BY DEF emit, finish_emit, finish_close
  <2>3. /\ seq \in Nat /\ seq' \in Nat /\ dropped \in Nat /\ dropped' \in Nat
        /\ cur[r] \in Nat /\ got[r] \in Nat
        /\ pending[r][1] \in Nat /\ pending[r][2] \in Nat
    BY <1>1 DEF IInv, TypeOK
  <2> QED
    BY <2>1, <2>2, <2>3 DEF IInv, readerVars, ReaderInv, CursorInv, PendingInv,
       ToldInv, GapInv, GapCheckInv
<1> QED BY <1>1, <1>2, <1>3 DEF IInv, ReaderInv

(* A reader's step leaves the stream and every other reader alone. *)
LEMMA OtherReaders ==
  ASSUME IInv, NEW r \in Readers, NEW q \in Readers, q # r,
         Serve(r) \/ Keepalive(r) \/ Cut(r) \/ Reload(r)
  PROVE  ReaderInv(q)'
<1>1. /\ UNCHANGED streamVars
      /\ pc'[q] = pc[q] /\ cur'[q] = cur[q] /\ pending'[q] = pending[q]
      /\ got'[q] = got[q] /\ told'[q] = told[q] /\ gap'[q] = gap[q]
      /\ base'[q] = base[q] /\ missed'[q] = missed[q]
  BY DEF IInv, TypeOK, Serve, Attach, GapCheck, Drain, Write, Check, Recheck, Wake,
         Keepalive, Cut, Reload, Goto
<1> QED
  BY <1>1 DEF IInv, streamVars, ReaderInv, CursorInv, PendingInv, ToldInv, GapInv,
     GapCheckInv

LEMMA ReaderTypes ==
  ASSUME IInv, NEW r \in Readers,
         Serve(r) \/ Keepalive(r) \/ Cut(r) \/ Reload(r)
  PROVE  TypeOK' /\ LogShape'
<1>1. UNCHANGED streamVars
  BY DEF Serve, Attach, GapCheck, Drain, Write, Check, Recheck, Wake, Keepalive, Cut, Reload
<1>2. LogShape'
  BY <1>1 DEF IInv, LogShape, streamVars
<1>3. TypeOK'
  <2> USE DEF IInv, TypeOK, PCs, Goto, streamVars, boundVars
  <2>1. CASE Attach(r)
    <3>1. \A id : resolve_cursor(0, id) \in Nat
      BY DEF resolve_cursor
    <3> QED BY <2>1, <3>1 DEF Attach
  <2>2. CASE GapCheck(r) BY <2>2 DEF GapCheck, gap_before
  <2>3. CASE Drain(r) BY <2>3 DEF Drain
  <2>4. CASE Write(r)
    <3>1. pending[r] \in Nat \X Nat /\ pending[r][1] \in Nat /\ pending[r][2] \in Nat
      OBVIOUS
    <3> QED BY <2>4, <3>1 DEF Write
  <2>5. CASE Check(r) BY <2>5 DEF Check
  <2>6. CASE Recheck(r) BY <2>6 DEF Recheck
  <2>7. CASE Wake(r) BY <2>7 DEF Wake
  <2>8. CASE Keepalive(r) BY <2>8 DEF Keepalive
  <2>9. CASE Cut(r) BY <2>9 DEF Cut
  <2>10. CASE Reload(r) BY <2>10 DEF Reload
  <2> QED BY <2>1, <2>2, <2>3, <2>4, <2>5, <2>6, <2>7, <2>8, <2>9, <2>10 DEF Serve
<1> QED BY <1>2, <1>3

(* The reader that moves. *)
LEMMA ThisReader ==
  ASSUME IInv, NEW r \in Readers,
         Serve(r) \/ Keepalive(r) \/ Cut(r) \/ Reload(r)
  PROVE  ReaderInv(r)'
<1> USE DEF IInv, ReaderInv, CursorInv, PendingInv, ToldInv, GapInv, GapCheckInv
<1> USE BacklogAssumption
<1>0. /\ seq \in Nat /\ dropped \in Nat /\ endAt \in Nat
      /\ dropped <= seq /\ seq - dropped <= Backlog /\ endAt <= seq
      /\ pc \in [Readers -> PCs] /\ cur \in [Readers -> Nat]
      /\ pending \in [Readers -> Nat \X Nat] /\ got \in [Readers -> Nat]
      /\ told \in [Readers -> BOOLEAN] /\ gap \in [Readers -> BOOLEAN]
      /\ base \in [Readers -> Nat] /\ missed \in [Readers -> BOOLEAN]
      /\ pending[r][1] \in Nat /\ pending[r][2] \in Nat
      /\ cur[r] \in Nat /\ got[r] \in Nat
  BY DEF TypeOK
<1>1. CASE Attach(r)
  <2>1. PICK id \in (IF got[r] = 0 THEN {NoId, ForeignId} ELSE {got[r]}) :
           /\ cur' = [cur EXCEPT ![r] = resolve_cursor(0, id)]
           /\ base' = [base EXCEPT ![r] = resolve_cursor(0, id)]
    BY <1>1 DEF Attach
  <2>2. resolve_cursor(0, id) = got[r]
    BY <1>0, <2>1, BoundsAssumption DEF resolve_cursor, NoId, ForeignId, LogShape
  <2> QED BY <1>0, <1>1, <2>1, <2>2 DEF Attach, Goto, streamVars
<1>2. CASE GapCheck(r)
  BY <1>0, <1>2 DEF GapCheck, gap_before, Goto, streamVars
<1>3. CASE Drain(r)
  <2>1. CASE after(r) = {}
    BY <1>0, <1>3, <2>1 DEF Drain, Goto, streamVars
  <2>2. CASE after(r) # {}
    <3>1. cur[r] < seq /\ dropped < seq
      BY <1>0, <2>2 DEF after
    <3> QED BY <1>0, <1>3, <2>2, <3>1 DEF Drain, Goto, streamVars
  <2> QED BY <2>1, <2>2
<1>4. CASE Write(r)
  <2>0. PICK n \in Nat : n = pending[r][1]
    BY <1>0
  <2>1. /\ cur[r] = got[r] /\ cur[r] < n /\ n <= pending[r][2] /\ pending[r][2] <= seq
        /\ n = cur[r] + 1 \/ n - 1 <= dropped
    BY <1>4, <2>0 DEF Write
  <2>2. /\ cur'[r] = n /\ got'[r] = n
        /\ pending'[r][1] = n + 1 /\ pending'[r][2] = pending[r][2]
        /\ told'[r] = (n = endAt) /\ missed'[r] = (missed[r] \/ n > cur[r] + 1)
        /\ pc'[r] = (IF n = endAt THEN "done" ELSE IF n = pending[r][2] THEN "drain" ELSE "write")
        /\ UNCHANGED streamVars /\ gap'[r] = gap[r] /\ base'[r] = base[r]
    BY <1>0, <1>4, <2>0 DEF Write, Goto
  <2>3. CursorInv(r)' /\ GapCheckInv(r)'
    BY <1>0, <2>0, <2>1, <2>2 DEF streamVars
  <2>4. PendingInv(r)'
    <3>1. pc'[r] = "write" => n # pending[r][2]
      BY <2>2
    <3>2. (pending[r][2] \in Nat /\ n + 1 <= pending[r][2]) \/ pc'[r] # "write"
      BY <1>0, <2>0, <2>1, <3>1
    <3> QED BY <1>0, <2>0, <2>1, <2>2, <3>2 DEF streamVars
  <2>5. ToldInv(r)'
    <3>1. cur[r] \in Nat /\ cur[r] < n
      BY <1>0, <2>1
    <3>2. n # 0
      BY <2>0, <3>1
    <3>3. CASE n = endAt
      <4>1. pc'[r] = "done" /\ endAt' = n /\ got'[r] = n
        BY <2>2, <3>3 DEF streamVars
      <4> QED BY <2>0, <3>2, <4>1
    <3>4. CASE n # endAt
      <4>1. told'[r] = FALSE
        BY <2>2, <3>4
      <4> QED BY <4>1
    <3> QED BY <3>3, <3>4
  <2>6. GapInv(r)'
    <3>1. ~gap[r] \/ missed[r] \/ n > cur[r] + 1
      BY <1>4, <2>0 DEF Write
    <3> QED BY <2>2, <3>1
  <2> QED BY <2>3, <2>4, <2>5, <2>6
<1>5. CASE Check(r)
  BY <1>0, <1>5 DEF Check, Goto, streamVars
<1>6. CASE Recheck(r)
  <2>1. CASE after(r) # {}
    BY <1>0, <1>6, <2>1 DEF Recheck, Goto, streamVars
  <2>2. CASE after(r) = {}
    <3>1. ~running /\ endAt # 0
      BY <1>0, <1>6 DEF Recheck, LogShape
    <3>2. dropped < seq
      BY <1>0, <3>1 DEF LogShape
    <3>3. seq <= cur[r]
      <4>1. seq \in (dropped + 1) .. seq
        BY <1>0, <3>2
      <4>2. ~(seq > cur[r])
        BY <2>2, <4>1 DEF after
      <4> QED BY <1>0, <4>2
    <3>4. /\ cur[r] = got[r] /\ pc[r] = "recheck" /\ pc'[r] = "done" /\ told'[r] = TRUE
          /\ UNCHANGED <<streamVars, cur, pending, got, gap, base, missed>>
      BY <1>0, <1>6, <2>2 DEF Recheck, Goto
    <3>5. endAt' # 0 /\ endAt' <= got'[r] /\ pc'[r] = "done"
      BY <1>0, <3>1, <3>3, <3>4 DEF streamVars
    <3>6. CursorInv(r)' /\ PendingInv(r)' /\ GapCheckInv(r)'
      BY <1>0, <3>4 DEF streamVars
    <3>7. GapInv(r)'
      BY <1>0, <3>4 DEF streamVars
    <3> QED BY <3>5, <3>6, <3>7
  <2> QED BY <2>1, <2>2
<1>7. CASE Wake(r)
  BY <1>0, <1>7 DEF Wake, Goto, streamVars
<1>8. CASE Keepalive(r)
  BY <1>0, <1>8 DEF Keepalive, Goto, streamVars
<1>9. CASE Cut(r)
  BY <1>0, <1>9 DEF Cut, Goto, streamVars
<1>10. CASE Reload(r)
  BY <1>0, <1>10 DEF Reload, Goto, streamVars
<1> QED
  BY <1>1, <1>2, <1>3, <1>4, <1>5, <1>6, <1>7, <1>8, <1>9, <1>10 DEF Serve

LEMMA NextIInv == IInv /\ [Next]_vars => IInv'
<1> SUFFICES ASSUME IInv, [Next]_vars PROVE IInv'
  OBVIOUS
<1>1. CASE emit \/ finish_emit \/ finish_close
  BY <1>1, StreamStep
<1>2. ASSUME NEW r \in Readers, Serve(r) \/ Keepalive(r) \/ Cut(r) \/ Reload(r)
      PROVE  IInv'
  <2>1. TypeOK' /\ LogShape'
    BY <1>2, ReaderTypes
  <2>2. \A q \in Readers : ReaderInv(q)'
    BY <1>2, OtherReaders, ThisReader
  <2> QED BY <2>1, <2>2 DEF IInv, ReaderInv
<1>3. CASE UNCHANGED vars
  BY <1>3 DEF vars, streamVars, readerVars, boundVars, IInv, TypeOK, LogShape,
     CursorInv, PendingInv, ToldInv, GapInv, GapCheckInv
<1> QED BY <1>1, <1>2, <1>3 DEF Next

(* The inductive invariant, type correctness included, holds of every reachable state. *)
THEOREM Invariant == Spec => []IInv
BY InitIInv, NextIInv, PTL DEF Spec, SafeSpec

(* Type correctness: in particular the log never outgrows its backlog. *)
THEOREM TypeCorrect == Spec => []TypeOK
<1>1. IInv => TypeOK
  BY DEF IInv
<1> QED BY <1>1, Invariant, PTL

(* No view is told the turn ended while part of the turn is still unread. *)
THEOREM ToldLastHolds == Spec => []ToldLast
<1>1. IInv => ToldLast
  BY DEF IInv, ToldInv, ToldLast
<1> QED BY <1>1, Invariant, PTL

(* A gap frame is never a false alarm. *)
THEOREM HonestGapHolds == Spec => []HonestGap
<1>1. IInv => HonestGap
  BY DEF IInv, GapInv, HonestGap
<1> QED BY <1>1, Invariant, PTL

-----------------------------------------------------------------------------
(* The refinement: each producer step publishes, Write delivers, the silent
   case of Recheck tells, Reload reloads, everything else is invisible. *)

LEMMA WriteDelivers ==
  ASSUME IInv, NEW r \in Readers, Write(r)
  PROVE  Delivery!Deliver(r)
<1>0. /\ pending[r] \in Nat \X Nat /\ cur[r] \in Nat /\ got[r] \in Nat
      /\ seq \in Nat /\ dropped \in Nat /\ Backlog \in Nat
  BY BacklogAssumption DEF IInv, TypeOK
<1>1. PICK n \in Nat : n = pending[r][1]
  BY <1>0
<1>2. /\ pc[r] = "write" /\ ~told[r] /\ cur[r] = got[r]
      /\ n > cur[r] /\ n <= seq
      /\ n = cur[r] + 1 \/ n - 1 <= dropped
  <2>1. pc[r] = "write" /\ CursorInv(r) /\ PendingInv(r) /\ ToldInv(r)
    BY DEF IInv, Write
  <2>2. pending[r][1] \in Nat /\ pending[r][2] \in Nat
    BY <1>0
  <2>3. ~told[r] /\ cur[r] = got[r]
    BY <2>1 DEF ToldInv, CursorInv
  <2> QED BY <1>0, <1>1, <2>1, <2>2, <2>3 DEF PendingInv
<1>3. n = got[r] + 1 \/ n - 1 <= seq - Backlog
  BY <1>0, <1>2 DEF IInv, LogShape
<1>4. n \in (got[r] + 1) .. seq
  BY <1>0, <1>2
<1>5. /\ got' = [got EXCEPT ![r] = n]
      /\ told' = [told EXCEPT ![r] = (n = endAt)]
      /\ UNCHANGED <<seq, endAt>>
  BY <1>1 DEF Write, streamVars
<1> QED BY <1>2, <1>3, <1>4, <1>5 DEF Delivery!Deliver, Delivery!Lost

LEMMA RecheckTells ==
  ASSUME IInv, NEW r \in Readers, Recheck(r)
  PROVE  Delivery!Tell(r) \/ UNCHANGED Delivery!vars
<1>1. CASE after(r) # {}
  BY <1>1 DEF Recheck, streamVars, Delivery!vars
<1>2. CASE after(r) = {}
  <2>1. ToldInv(r)'
    BY ThisReader DEF Serve, ReaderInv
  <2>2. told' = [told EXCEPT ![r] = TRUE] /\ UNCHANGED <<seq, endAt, got>>
    BY <1>2 DEF Recheck, streamVars
  <2>3. told'[r]
    BY <2>2 DEF IInv, TypeOK
  <2>4. endAt # 0 /\ endAt <= got[r]
    BY <2>1, <2>2, <2>3 DEF ToldInv
  <2>5. endAt \in Nat /\ got[r] \in Nat
    BY DEF IInv, TypeOK
  <2> QED BY <2>2, <2>4, <2>5 DEF Delivery!Tell
<1> QED BY <1>1, <1>2

LEMMA StepSimulation ==
  IInv /\ [Next]_vars => [Delivery!Next]_(Delivery!vars)
<1> SUFFICES ASSUME IInv, [Next]_vars
             PROVE  Delivery!Next \/ UNCHANGED Delivery!vars
  OBVIOUS
<1>1. CASE emit
  BY <1>1 DEF emit, Append1, readerVars, Delivery!Publish, Delivery!Next
<1>2. CASE finish_emit
  BY <1>2 DEF finish_emit, Append1, readerVars, Delivery!End, Delivery!Next
<1>3. CASE finish_close
  BY <1>3 DEF finish_close, readerVars, Delivery!vars
<1>4. ASSUME NEW r \in Readers, Serve(r) \/ Keepalive(r) \/ Cut(r) \/ Reload(r)
      PROVE  Delivery!Next \/ UNCHANGED Delivery!vars
  <2>1. CASE Write(r)
    BY <2>1, WriteDelivers DEF Delivery!Next
  <2>2. CASE Recheck(r)
    BY <2>2, RecheckTells DEF Delivery!Next
  <2>3. CASE Reload(r)
    BY <2>3 DEF Reload, streamVars, Delivery!Reload, Delivery!Next
  <2>4. CASE \/ Attach(r) \/ GapCheck(r) \/ Drain(r) \/ Check(r) \/ Wake(r)
             \/ Keepalive(r) \/ Cut(r)
    BY <2>4 DEF Attach, GapCheck, Drain, Check, Wake, Keepalive, Cut, streamVars,
       Delivery!vars
  <2> QED BY <1>4, <2>1, <2>2, <2>3, <2>4 DEF Serve
<1>5. CASE UNCHANGED vars
  BY <1>5 DEF vars, streamVars, readerVars, Delivery!vars
<1> QED BY <1>1, <1>2, <1>3, <1>4, <1>5 DEF Next

(* TurnStream implements TurnDelivery: every view is served the turn's events in
   order, none twice, and loses one only by falling a whole backlog behind. *)
THEOREM Implements == Spec => Delivers
<1>1. Init => Delivery!Init
  BY DEF Init, Delivery!Init
<1> QED BY <1>1, StepSimulation, Invariant, PTL DEF Spec, SafeSpec, Delivers, Delivery!Spec
=============================================================================
