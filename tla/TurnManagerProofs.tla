------------------------- MODULE TurnManagerProofs -------------------------
(***************************************************************************)
(* For every set of sessions, turns and endpoints, every limit and every   *)
(* `keep`, and whether or not clients name ids before the manager has      *)
(* heard of them: TurnManager keeps its inductive invariant, and so        *)
(* RunningIsLive, EndpointCapacity, RouteIntegrity and TombstonesAreIdle.  *)
(***************************************************************************)
EXTENDS TurnManager, TLAPS, FiniteSetTheorems

\* What EndpointCapacity counts.
Load(e) == {t \in Turns \ early : Running(t) /\ ep[t] = e}

LEMMA LoadIsFinite == \A e : IsFiniteSet(Load(e)) /\ Cardinality(Load(e)) \in Nat
  BY FS_Subset, FS_CardinalityType, ManagerAssumption DEF Load

(* The turns that run on an endpoint, early ones aside, are among those that *)
(* _live leads to.                                                           *)
LEMMA LoadIsLive ==
  ASSUME IInv, NEW e \in Endpoints
  PROVE  /\ Cardinality(Load(e)) <= Cardinality(LiveOn(e))
         /\ Cardinality(LiveOn(e)) \in Nat
<1> DEFINE f == [t \in Load(e) |-> sid[t]]
<1>1. IsFiniteSet(LiveOn(e))
  BY FS_Subset, ManagerAssumption DEF LiveOn
<1>2. ASSUME NEW t \in Load(e)
      PROVE  live[sid[t]] = t /\ sid[t] \in LiveOn(e)
  <2>1. t \in Turns \ early /\ Running(t) /\ ep[t] = e
    BY DEF Load
  <2>2. live[sid[t]] = t /\ sid[t] \in Sessions
    BY <2>1, ManagerAssumption DEF IInv, RunningIsLive, TypeOK, Running
  <2> QED BY <2>1, <2>2, ManagerAssumption DEF LiveOn, RunningAt
<1>3. f \in Injection(Load(e), LiveOn(e))
  BY <1>2 DEF Injection, IsInjective
<1> QED
  BY <1>1, <1>3, FS_Injection, FS_CardinalityType

(* A step after which no further turn runs keeps within the capacity. *)
LEMMA CapacityKept ==
  ASSUME EndpointCapacity, MaxConcurrent \in [Endpoints -> Nat], early' = early,
         \A t \in Turns : Running(t)' => Running(t) /\ ep'[t] = ep[t]
  PROVE  EndpointCapacity'
<1> SUFFICES ASSUME NEW e \in Endpoints
             PROVE  Cardinality(Load(e)') <= MaxConcurrent[e]
  BY DEF EndpointCapacity, Load
<1>1. Load(e)' \subseteq Load(e)
  BY DEF Load
<1>2. Cardinality(Load(e)') <= Cardinality(Load(e))
  BY <1>1, LoadIsFinite, FS_Subset
<1>3. Cardinality(Load(e)) <= MaxConcurrent[e]
  BY DEF EndpointCapacity, Load
<1>4. IsFiniteSet(Load(e)') /\ Cardinality(Load(e)') \in Nat
  BY <1>1, LoadIsFinite, FS_Subset, FS_CardinalityType
<1> QED BY <1>2, <1>3, <1>4, LoadIsFinite

LEMMA InitIInv == Init => IInv
<1> SUFFICES ASSUME Init PROVE IInv
  OBVIOUS
<1>1. TypeOK
  BY ManagerAssumption DEF Init, TypeOK, Stages
<1>2. \A t \in Turns : ~Running(t) /\ ~Moved(t) /\ stage[t] = "new"
  BY DEF Init, Running, Moved
<1>3. EndpointCapacity
  <2>1. \A e : {t \in Turns \ early : Running(t) /\ ep[t] = e} = {}
    BY <1>2
  <2> QED BY <2>1, FS_EmptySet, ManagerAssumption DEF EndpointCapacity
<1>4. FreshInv /\ LiveInv /\ RouteIntegrity
  BY ManagerAssumption DEF Init, FreshInv, LiveInv, RouteIntegrity
<1>5. MintedInv /\ MovedInv /\ QueuedInv /\ RunningIsLive /\ TombstonesAreIdle
  BY <1>2 DEF Init, MintedInv, MovedInv, QueuedInv, RunningIsLive, TombstonesAreIdle
<1> QED BY <1>1, <1>3, <1>4, <1>5 DEF IInv
(* Admission.  The route is the session's own, or a fresh one. *)
LEMMA AdmitStep ==
  ASSUME IInv, NEW t \in Turns, NEW s \in Sessions, NEW e \in Endpoints, NEW r \in Turns,
         Admit(t, s, e, r),
         minted' \in SUBSET Sessions, minted \subseteq minted', s \in minted',
         \/ routes[s] = r
         \/ routes[s] = None /\ r = t
  PROVE  IInv'
<1> DEFINE als == aliases[r] \cup {s}
<1>0. /\ stage[t] = "new" /\ None \notin Turns \cup Sessions \cup Endpoints
      /\ sid' = [sid EXCEPT ![t] = s] /\ home' = [home EXCEPT ![t] = s]
      /\ ep' = [ep EXCEPT ![t] = e] /\ stage' = [stage EXCEPT ![t] = "queued"]
      /\ live' = [live EXCEPT ![s] = t] /\ streams' = streams \cup {t}
      /\ tip' = [tip EXCEPT ![r] = s] /\ routeEp' = [routeEp EXCEPT ![r] = e]
      /\ aliases' = [aliases EXCEPT ![r] = als]
      /\ routes' = [a \in Sessions |-> IF a \in als THEN r ELSE routes[a]]
      /\ forgotten' = forgotten \ als
      /\ early' = IF UnannouncedId(s) THEN early \cup {t} ELSE early
      /\ UNCHANGED <<parent, rows, agentSid, failed, finishedAt, deleting>>
  BY ManagerAssumption DEF Admit, Bind
<1>1. TypeOK'
  <2>1. aliases[r] \in SUBSET Sessions
    BY DEF IInv, TypeOK
  <2>2. lastError' \in [Sessions -> Turns \cup {None}]
    BY DEF IInv, TypeOK, Admit
  <2>3. \A u \in Turns : u # t => stage'[u] = stage[u] /\ home'[u] = home[u]
                                  /\ sid'[u] = sid[u] /\ ep'[u] = ep[u]
    BY <1>0 DEF IInv, TypeOK
  <2>4. stage'[t] = "queued" /\ home'[t] = s /\ sid'[t] = s /\ ep'[t] = e
    BY <1>0 DEF IInv, TypeOK
  <2>5. \A u \in Turns :
          /\ stage'[u] # "new" => home'[u] # None /\ sid'[u] # None /\ ep'[u] # None
          /\ stage'[u] = "armed" => agentSid'[u] # None
          /\ finishedAt'[u] = 0 <=> stage'[u] \in {"new", "queued", "armed"}
    BY <1>0, <2>3, <2>4 DEF IInv, TypeOK
  <2>6. stage' \in [Turns -> Stages]
    BY <1>0 DEF IInv, TypeOK, Stages
  <2>7. /\ routes' \in [Sessions -> Turns \cup {None}]
        /\ aliases' \in [Turns -> SUBSET Sessions]
        /\ forgotten' \in SUBSET Sessions
    BY <1>0, <2>1 DEF IInv, TypeOK
  <2>8. /\ sid' \in [Turns -> Sessions \cup {None}]
        /\ home' \in [Turns -> Sessions \cup {None}]
        /\ ep' \in [Turns -> Endpoints \cup {None}]
        /\ live' \in [Sessions -> Turns \cup {None}]
        /\ streams' \in SUBSET Turns
        /\ tip' \in [Turns -> Sessions \cup {None}]
        /\ routeEp' \in [Turns -> Endpoints \cup {None}]
    BY <1>0 DEF IInv, TypeOK
  <2>9. /\ parent' \in [Sessions -> Sessions \cup {None}] /\ rows' \in SUBSET Sessions
        /\ agentSid' \in [Turns -> Sessions \cup {None}]
        /\ failed' \in [Turns -> BOOLEAN] /\ finishedAt' \in [Turns -> Nat]
        /\ deleting' \in SUBSET Sessions /\ early' \in SUBSET Turns
    BY <1>0 DEF IInv, TypeOK
  <2> QED BY <2>2, <2>5, <2>6, <2>7, <2>8, <2>9 DEF TypeOK
<1>2. \A u \in Turns : u # t =>
        /\ stage'[u] = stage[u] /\ sid'[u] = sid[u] /\ ep'[u] = ep[u] /\ home'[u] = home[u]
        /\ agentSid'[u] = agentSid[u]
  BY <1>0 DEF IInv, TypeOK
<1>3. stage'[t] = "queued" /\ sid'[t] = s /\ home'[t] = s /\ ep'[t] = e
  BY <1>0 DEF IInv, TypeOK
<1>4. \A x \in Sessions : live'[x] = IF x = s THEN t ELSE live[x]
  BY <1>0 DEF IInv, TypeOK
<1>5. \A x \in Turns : aliases'[x] = IF x = r THEN als ELSE aliases[x]
  BY <1>0 DEF IInv, TypeOK
<1>6. \A x \in Sessions : routes'[x] = IF x \in als THEN r ELSE routes[x]
  BY <1>0
<1>7. aliases[t] = {} /\ \A x \in Sessions : live[x] # t /\ routes[x] # t
  BY <1>0 DEF IInv, FreshInv
<1>e. /\ early \subseteq early' /\ early' \subseteq early \cup {t} /\ t \notin early
      /\ EarlyIds \subseteq EarlyIds'
      /\ \A u \in Turns : Moved(u) /\ agentSid[u] = s => t \in early' /\ s \in EarlyIds'
  <2>1. t \notin early /\ early \subseteq Turns
    BY <1>0 DEF IInv, FreshInv, TypeOK
  <2>2. early \subseteq early' /\ early' \subseteq early \cup {t}
    BY <1>0
  <2>3. EarlyIds \subseteq EarlyIds'
    BY <2>1, <2>2, <1>2 DEF EarlyIds
  <2>4. ASSUME NEW u \in Turns, Moved(u), agentSid[u] = s PROVE t \in early' /\ s \in EarlyIds'
    <3>1. t \in early'
      BY <2>4, <1>0 DEF UnannouncedId
    <3> QED BY <3>1, <1>3 DEF EarlyIds
  <2> QED BY <2>1, <2>2, <2>3, <2>4
<1>8. \A a \in aliases[r] \ EarlyIds : routes[a] = r
  BY <1>0, <1>7 DEF IInv, RouteIntegrity
<1>9. FreshInv'
  BY <1>e, <1>0, <1>2, <1>3, <1>4, <1>5, <1>6, <1>7 DEF IInv, TypeOK, FreshInv
<1>10. LiveInv'
  BY <1>0, <1>2, <1>3, <1>4 DEF IInv, TypeOK, LiveInv
<1>11. MintedInv'
  <2>1. \A x \in Turns : aliases'[x] \subseteq minted'
    BY <1>5 DEF IInv, MintedInv
  <2>2. rows' \subseteq minted'
    BY <1>0 DEF IInv, MintedInv
  <2>3. \A u \in Turns : stage'[u] # "new" => home'[u] \in minted' /\ sid'[u] \in minted'
    BY <1>2, <1>3 DEF IInv, MintedInv
  <2>4. \A u \in Turns : stage'[u] = "armed" => agentSid'[u] \in minted'
    BY <1>2, <1>3 DEF IInv, MintedInv
  <2> QED BY <2>1, <2>2, <2>3, <2>4 DEF MintedInv
<1>12. MovedInv'
  <2> SUFFICES ASSUME NEW u \in Turns, Moved(u)'
               PROVE  /\ \A v \in Turns \ {u} : Moved(v)' => agentSid'[v] # agentSid'[u]
                      /\ \A v \in Turns : stage'[v] # "new" /\ sid'[v] = agentSid'[u] =>
                           v \in early' /\ home'[v] = agentSid'[u]
                      /\ \A x \in Turns : agentSid'[u] \in aliases'[x] => agentSid'[u] \in EarlyIds'
    BY DEF MovedInv
  <2>1. \A v \in Turns : Moved(v)' => v # t /\ Moved(v) /\ agentSid'[v] = agentSid[v]
    BY <1>2, <1>3 DEF Moved
  <2>2. u # t /\ Moved(u) /\ agentSid'[u] = agentSid[u]
    BY <2>1
  <2>3. \A v \in Turns \ {u} : Moved(v)' => agentSid'[v] # agentSid'[u]
    BY <2>1, <2>2 DEF IInv, MovedInv
  <2>4. ASSUME NEW v \in Turns, stage'[v] # "new", sid'[v] = agentSid[u]
        PROVE  v \in early' /\ home'[v] = agentSid[u]
    <3>1. CASE v = t
      BY <3>1, <2>2, <2>4, <1>3, <1>e
    <3>2. CASE v # t
      BY <3>2, <2>2, <2>4, <1>2, <1>e DEF IInv, MovedInv
    <3> QED BY <3>1, <3>2
  <2>5. ASSUME NEW x \in Turns, agentSid[u] \in aliases'[x] PROVE agentSid[u] \in EarlyIds'
    <3>1. CASE agentSid[u] = s
      BY <3>1, <2>2, <1>e
    <3>2. CASE agentSid[u] # s
      BY <3>2, <2>2, <2>5, <1>5, <1>e DEF IInv, MovedInv
    <3> QED BY <3>1, <3>2
  <2> QED BY <2>2, <2>3, <2>4, <2>5
<1>13. QueuedInv'
  BY <1>2, <1>3 DEF IInv, QueuedInv
<1>14. RunningIsLive'
  <2> SUFFICES ASSUME NEW u \in Turns, u \notin early', Running(u)'
               PROVE  live'[sid'[u]] = u /\ u \in streams'
    BY DEF RunningIsLive
  <2>1. CASE u = t
    BY <2>1, <1>0, <1>3, <1>4
  <2>2. CASE u # t
    <3>1. Running(u) /\ sid'[u] = sid[u] /\ live[sid[u]] = u /\ u \in streams
      BY <2>2, <1>2, <1>e DEF IInv, RunningIsLive, Running
    <3>2. sid[u] \in Sessions
      BY <3>1 DEF IInv, TypeOK, Running
    <3>3. sid[u] # s
      BY <3>1, <1>0 DEF Admit, RunningAt
    <3> QED BY <3>1, <3>2, <3>3, <1>0, <1>4
  <2> QED BY <2>1, <2>2
<1>15. RouteIntegrity'
  <2> SUFFICES ASSUME NEW x \in Sessions, routes'[x] # None
               PROVE  /\ x \in aliases'[routes'[x]] /\ x \notin forgotten'
                      /\ tip'[routes'[x]] \in aliases'[routes'[x]]
                      /\ routeEp'[routes'[x]] # None
                      /\ \A a \in aliases'[routes'[x]] \ EarlyIds' : routes'[a] = routes'[x]
    BY DEF RouteIntegrity
  <2>0. als \subseteq Sessions
    BY DEF IInv, TypeOK
  <2>1. CASE x \in als
    <3>1. routes'[x] = r /\ aliases'[r] = als /\ tip'[r] = s /\ routeEp'[r] = e
      BY <2>1, <1>0, <1>5, <1>6 DEF IInv, TypeOK
    <3> QED BY <3>1, <2>0, <2>1, <1>0, <1>6
  <2>2. CASE x \notin als
    <3>1. routes'[x] = routes[x] /\ routes[x] \in Turns
      BY <2>2, <1>6 DEF IInv, TypeOK
    <3>2. /\ x \in aliases[routes[x]] /\ x \notin forgotten
          /\ tip[routes[x]] \in aliases[routes[x]]
          /\ routeEp[routes[x]] # None
          /\ \A a \in aliases[routes[x]] \ EarlyIds : routes[a] = routes[x]
      BY <3>1 DEF IInv, RouteIntegrity
    <3>3. routes[x] # r
      BY <2>2, <3>2
    <3>4. \A a \in aliases[routes[x]] \ EarlyIds : a \notin als
      BY <3>1, <3>2, <3>3, <1>8, <1>0
    <3>5. /\ aliases'[routes[x]] = aliases[routes[x]]
          /\ tip'[routes[x]] = tip[routes[x]]
          /\ routeEp'[routes[x]] = routeEp[routes[x]]
      BY <3>1, <3>3, <1>0 DEF IInv, TypeOK
    <3>6. \A a \in aliases[routes[x]] \ EarlyIds : a \in Sessions /\ routes'[a] = routes[a]
      BY <3>1, <3>4, <1>6 DEF IInv, TypeOK
    <3> QED BY <3>1, <3>2, <3>5, <3>6, <1>0, <1>e
  <2> QED BY <2>1, <2>2
<1>16. TombstonesAreIdle'
  <2> SUFFICES ASSUME NEW u \in Turns, u \notin early', Running(u)'
               PROVE  routes'[sid'[u]] # None
    BY <1>15, <1>1 DEF TombstonesAreIdle, RouteIntegrity, TypeOK, Running
  <2>1. CASE u = t
    BY <2>1, <1>0, <1>3, <1>6
  <2>2. CASE u # t
    <3>1. Running(u) /\ sid'[u] = sid[u] /\ sid[u] \in Sessions /\ routes[sid[u]] # None
      BY <2>2, <1>2, <1>e DEF IInv, TombstonesAreIdle, TypeOK, Running
    <3> QED BY <3>1, <1>0, <1>6
  <2> QED BY <2>1, <2>2
<1>17. EndpointCapacity'
  <2> SUFFICES ASSUME NEW d \in Endpoints
               PROVE  Cardinality(Load(d)') <= MaxConcurrent[d]
    BY DEF EndpointCapacity, Load
  <2>1. CASE d # e
    <3>1. Load(d)' \subseteq Load(d)
      BY <2>1, <1>2, <1>3, <1>e DEF Load, Running
    <3>2. Cardinality(Load(d)') <= Cardinality(Load(d)) /\ IsFiniteSet(Load(d)')
      BY <3>1, LoadIsFinite, FS_Subset
    <3>3. Cardinality(Load(d)) <= MaxConcurrent[d]
      BY DEF IInv, EndpointCapacity, Load
    <3> QED BY <3>2, <3>3, LoadIsFinite, FS_CardinalityType, ManagerAssumption
  <2>2. CASE d = e
    <3>1. Load(e)' \subseteq Load(e) \cup {t}
      BY <1>2, <1>e DEF Load, Running
    <3>2. Cardinality(Load(e)) < MaxConcurrent[e]
      BY LoadIsLive, LoadIsFinite, ManagerAssumption DEF Admit, HasCapacity
    <3>3. /\ IsFiniteSet(Load(e) \cup {t})
          /\ Cardinality(Load(e) \cup {t}) <= Cardinality(Load(e)) + 1
      <4>1. IsFiniteSet(Load(e))
        BY LoadIsFinite
      <4>2. IsFiniteSet(Load(e) \cup {t})
        BY <4>1, FS_AddElement
      <4>3. Cardinality(Load(e) \cup {t})
              = IF t \in Load(e) THEN Cardinality(Load(e)) ELSE Cardinality(Load(e)) + 1
        BY <4>1, FS_AddElement
      <4> QED BY <4>2, <4>3, LoadIsFinite
    <3>4. /\ Cardinality(Load(e)') <= Cardinality(Load(e) \cup {t})
          /\ Cardinality(Load(e)') \in Nat
      BY <3>1, <3>3, FS_Subset, FS_CardinalityType
    <3>5. Cardinality(Load(e) \cup {t}) \in Nat
      BY <3>3, FS_CardinalityType
    <3> QED BY <2>2, <3>2, <3>3, <3>4, <3>5, LoadIsFinite, ManagerAssumption
  <2> QED BY <2>1, <2>2
<1> QED
  BY <1>1, <1>9, <1>10, <1>11, <1>12, <1>13, <1>14, <1>15, <1>16, <1>17 DEF IInv
(* A turn winds down: nothing but its own record changes, and it does not *)
(* come to run again.                                                      *)
LEMMA WindDown ==
  ASSUME IInv, TypeOK', NEW t \in Turns, NEW st \in Stages \ {"new", "queued", "armed"},
         stage[t] # "new", st = "ended" => Running(t),
         stage' = [stage EXCEPT ![t] = st],
         UNCHANGED <<hermesVars, home, sid, ep, routeVars, streams, live, early>>
  PROVE  IInv'
<1>1. stage'[t] = st /\ \A u \in Turns : u # t => stage'[u] = stage[u]
  BY DEF IInv, TypeOK
<1>2. \A u \in Turns :
        /\ stage'[u] = "new" <=> stage[u] = "new"
        /\ stage'[u] = "armed" => stage[u] = "armed"
        /\ stage'[u] = "queued" => stage[u] = "queued"
        /\ Running(u)' => Running(u)
        /\ Moved(u)' => Moved(u)
  BY <1>1 DEF Running, Moved, hermesVars
<1>3. FreshInv' /\ MintedInv' /\ QueuedInv' /\ RouteIntegrity'
  BY <1>2 DEF IInv, FreshInv, MintedInv, QueuedInv, RouteIntegrity, EarlyIds, hermesVars, routeVars
<1>4. LiveInv'
  BY <1>2 DEF IInv, TypeOK, LiveInv, hermesVars
<1>5. MovedInv'
  BY <1>2 DEF IInv, MovedInv, EarlyIds, hermesVars, routeVars
<1>6. RunningIsLive' /\ TombstonesAreIdle'
  BY <1>2 DEF IInv, RunningIsLive, TombstonesAreIdle, EarlyIds, routeVars
<1>7. EndpointCapacity'
  BY <1>2, CapacityKept, ManagerAssumption DEF IInv
<1> QED BY <1>3, <1>4, <1>5, <1>6, <1>7 DEF IInv

LEMMA ClockPositive == Clock \in Nat /\ Clock # 0
<1>1. IsFiniteSet({u \in Turns : finishedAt[u] # 0})
  BY FS_Subset, ManagerAssumption
<1> QED BY <1>1, FS_CardinalityType DEF Clock

LEMMA FinishStep ==
  ASSUME IInv, NEW t \in Turns, FailEarly(t) \/ FinishRun(t)
  PROVE  IInv'
<1>1. PICK error \in BOOLEAN : Finish(t, error)
  BY DEF FailEarly, FinishRun
<1>2. stage[t] \in {"queued", "armed"}
  BY DEF FailEarly, FinishRun
<1>3. stage' = [stage EXCEPT ![t] = "ended"]
  BY <1>1 DEF Finish
<1>4. UNCHANGED <<hermesVars, home, sid, ep, routeVars, streams, live, early>>
  BY <1>1 DEF Finish, mapVars
<1>5. TypeOK'
  <2>1. stage' \in [Turns -> Stages] /\ finishedAt' \in [Turns -> Nat]
        /\ failed' \in [Turns -> BOOLEAN]
    BY <1>1, <1>3, ClockPositive DEF IInv, TypeOK, Stages, Finish
  <2>2. \A u \in Turns :
          /\ stage'[u] # "new" => home'[u] # None /\ sid'[u] # None /\ ep'[u] # None
          /\ stage'[u] = "armed" => agentSid'[u] # None
          /\ finishedAt'[u] = 0 <=> stage'[u] \in {"new", "queued", "armed"}
    BY <1>1, <1>2, <1>3, ClockPositive DEF IInv, TypeOK, Finish, hermesVars
  <2>3. lastError' = lastError /\ deleting' = deleting
    BY <1>1 DEF Finish, mapVars
  <2> QED BY <1>4, <2>1, <2>2, <2>3 DEF IInv, TypeOK, hermesVars, routeVars
<1> QED BY <1>2, <1>3, <1>4, <1>5, WindDown DEF Stages, Running

LEMMA UnwindStep ==
  ASSUME IInv, NEW t \in Turns, Close(t) \/ RecordError(t) \/ Settle(t)
  PROVE  IInv'
<1> DEFINE st == CASE stage[t] = "ended" /\ failed[t] -> "closed"
                   [] stage[t] = "unwinding" -> "settled"
                   [] OTHER -> "unwinding"
<1>1. /\ stage[t] \in {"ended", "closed", "unwinding"}
      /\ stage' = [stage EXCEPT ![t] = st]
      /\ UNCHANGED <<hermesVars, home, sid, ep, failed, finishedAt, routeVars, streams, live,
                     deleting, early>>
  <2>1. CASE Close(t) BY <2>1 DEF Close, mapVars
  <2>2. CASE RecordError(t) BY <2>2 DEF RecordError
  <2>3. CASE Settle(t) BY <2>3 DEF Settle, mapVars
  <2> QED BY <2>1, <2>2, <2>3
<1>2. st \in {"closed", "unwinding", "settled"}
  OBVIOUS
<1> HIDE DEF st
<1>3. TypeOK'
  <2>1. stage' \in [Turns -> Stages]
    BY <1>1, <1>2 DEF IInv, TypeOK, Stages
  <2>2. lastError' \in [Sessions -> Turns \cup {None}]
    BY DEF Close, RecordError, Settle, mapVars, IInv, TypeOK
  <2>3. \A u \in Turns :
          /\ stage'[u] # "new" => home'[u] # None /\ sid'[u] # None /\ ep'[u] # None
          /\ stage'[u] = "armed" => agentSid'[u] # None
          /\ finishedAt'[u] = 0 <=> stage'[u] \in {"new", "queued", "armed"}
    BY <1>1, <1>2 DEF IInv, TypeOK, hermesVars
  <2> QED BY <1>1, <2>1, <2>2, <2>3 DEF IInv, TypeOK, hermesVars, routeVars
<1> QED BY <1>1, <1>2, <1>3, WindDown DEF Stages

(* The worker takes the turn up. *)
LEMMA BeginStep ==
  ASSUME IInv, NEW t \in Turns, Begin(t)
  PROVE  IInv'
<1>1. /\ stage[t] = "queued" /\ home[t] = sid[t] /\ sid[t] \in Sessions
      /\ sid[t] \in minted /\ None \notin Turns
  BY ManagerAssumption DEF Begin, IInv, TypeOK, QueuedInv, MintedInv
<1>2. stage'[t] = "armed" /\ \A u \in Turns : u # t => stage'[u] = stage[u]
  BY DEF Begin, IInv, TypeOK
<1>3. agentSid'[t] = sid[t] /\ \A u \in Turns : u # t => agentSid'[u] = agentSid[u]
  BY <1>1 DEF Begin, IInv, TypeOK
<1>4. /\ UNCHANGED <<minted, parent, home, sid, ep, failed, finishedAt, routeVars, mapVars>>
      /\ UNCHANGED <<deleting, early>> /\ EarlyIds' = EarlyIds /\ rows' = rows \cup {home[t]}
  BY DEF Begin, EarlyIds
<1>5. \A u \in Turns : /\ Running(u)' <=> Running(u)
                       /\ stage'[u] = "new" <=> stage[u] = "new"
                       /\ Moved(u)' <=> Moved(u)
  BY <1>1, <1>2, <1>3, <1>4 DEF Running, Moved
<1>6. TypeOK'
  <2>1. /\ stage' \in [Turns -> Stages] /\ agentSid' \in [Turns -> Sessions \cup {None}]
        /\ rows' \in SUBSET Sessions
    BY <1>1 DEF Begin, IInv, TypeOK, Stages
  <2>2. \A u \in Turns :
          /\ stage'[u] # "new" => home'[u] # None /\ sid'[u] # None /\ ep'[u] # None
          /\ stage'[u] = "armed" => agentSid'[u] # None
          /\ finishedAt'[u] = 0 <=> stage'[u] \in {"new", "queued", "armed"}
    BY <1>1, <1>2, <1>3, <1>4, ManagerAssumption DEF IInv, TypeOK
  <2> QED BY <1>4, <2>1, <2>2 DEF IInv, TypeOK, routeVars, mapVars
<1>7. FreshInv' /\ RouteIntegrity' /\ LiveInv'
  BY <1>4, <1>5 DEF IInv, TypeOK, FreshInv, RouteIntegrity, LiveInv, routeVars, mapVars
<1>8. MintedInv'
  BY <1>1, <1>2, <1>3, <1>4 DEF IInv, MintedInv, routeVars
<1>9. MovedInv'
  <2>1. \A u \in Turns : Moved(u)' => u # t /\ Moved(u) /\ agentSid'[u] = agentSid[u]
    BY <1>1, <1>2, <1>3, <1>5 DEF Moved
  <2> QED BY <2>1, <1>4, <1>5 DEF IInv, MovedInv, routeVars
<1>10. QueuedInv' /\ RunningIsLive' /\ TombstonesAreIdle'
  BY <1>2, <1>4, <1>5 DEF IInv, QueuedInv, RunningIsLive, TombstonesAreIdle, routeVars, mapVars
<1>11. EndpointCapacity'
  BY <1>4, <1>5, CapacityKept, ManagerAssumption DEF IInv
<1> QED BY <1>6, <1>7, <1>8, <1>9, <1>10, <1>11 DEF IInv

(* hermes mints an id for a turn. *)
LEMMA RotateStep ==
  ASSUME IInv, NEW t \in Turns, NEW n \in Sessions, Rotate(t, n)
  PROVE  IInv'
<1>1. stage[t] = "armed" /\ n \notin minted /\ minted' = minted \cup {n}
  BY DEF Rotate
<1>2. agentSid'[t] = n /\ \A u \in Turns : u # t => agentSid'[u] = agentSid[u]
  BY DEF Rotate, IInv, TypeOK
<1>3. /\ UNCHANGED <<stage, home, sid, ep, failed, finishedAt, routeVars, mapVars>>
      /\ UNCHANGED <<deleting, early>> /\ EarlyIds' = EarlyIds /\ rows' = rows \cup {n}
  BY DEF Rotate, turnVars, EarlyIds
<1>4. TypeOK'
  <2>1. /\ minted' \in SUBSET Sessions /\ rows' \in SUBSET Sessions
        /\ parent' \in [Sessions -> Sessions \cup {None}]
        /\ agentSid' \in [Turns -> Sessions \cup {None}]
    BY DEF Rotate, IInv, TypeOK
  <2>2. \A u \in Turns : stage'[u] = "armed" => agentSid'[u] # None
    BY <1>2, <1>3, ManagerAssumption DEF IInv, TypeOK
  <2> QED BY <1>3, <2>1, <2>2 DEF IInv, TypeOK, routeVars, mapVars
<1>5. FreshInv' /\ RouteIntegrity' /\ LiveInv' /\ QueuedInv' /\ RunningIsLive'
      /\ TombstonesAreIdle' /\ EndpointCapacity'
  BY <1>1, <1>3 DEF IInv, FreshInv, RouteIntegrity, LiveInv, QueuedInv, RunningIsLive, Running,
     TombstonesAreIdle, EndpointCapacity, routeVars, mapVars
<1>6. MintedInv'
  BY <1>1, <1>2, <1>3 DEF IInv, MintedInv, routeVars
<1>7. MovedInv'
  <2> SUFFICES ASSUME NEW u \in Turns, Moved(u)'
               PROVE  /\ \A v \in Turns \ {u} : Moved(v)' => agentSid'[v] # agentSid'[u]
                      /\ \A v \in Turns : stage[v] # "new" /\ sid[v] = agentSid'[u] =>
                           v \in early /\ home[v] = agentSid'[u]
                      /\ \A x \in Turns : agentSid'[u] \in aliases[x] => agentSid'[u] \in EarlyIds
    BY <1>3 DEF MovedInv, routeVars
  <2>1. \A v \in Turns \ {t} : Moved(v)' =>
          Moved(v) /\ agentSid'[v] = agentSid[v] /\ agentSid[v] \in minted
    BY <1>2, <1>3 DEF Moved, IInv, MintedInv
  <2>2. CASE u = t
    <3>1. \A x \in Turns : n \notin aliases[x]
      BY <1>1 DEF IInv, MintedInv
    <3>2. \A v \in Turns : stage[v] # "new" => sid[v] # n
      BY <1>1 DEF IInv, MintedInv
    <3> QED BY <2>2, <3>1, <3>2, <2>1, <1>1, <1>2
  <2>3. CASE u # t
    <3>1. Moved(u) /\ agentSid'[u] = agentSid[u] /\ agentSid[u] # n
      BY <2>1, <2>3, <1>1
    <3>2. \A v \in Turns \ {u} : Moved(v)' => agentSid'[v] # agentSid'[u]
      BY <2>1, <2>3, <3>1, <1>2 DEF IInv, MovedInv
    <3> QED BY <3>1, <3>2 DEF IInv, MovedInv
  <2> QED BY <2>2, <2>3
<1> QED BY <1>4, <1>5, <1>6, <1>7 DEF IInv
(* The manager learns of a rotation.  The live entry moves if it is the     *)
(* turn's own, which it always is unless the turn is early.                 *)
LEMMA NoticeStep ==
  ASSUME IInv, NEW t \in Turns, Notice(t)
  PROVE  IInv'
<1> DEFINE old == sid[t]
           new == agentSid[t]
           r == routes[old]
<1>1. /\ stage[t] = "armed" /\ Running(t) /\ Moved(t) /\ old # new
      /\ old \in Sessions /\ new \in Sessions /\ None \notin Turns
      /\ r \in Turns \cup {None} /\ old \in minted /\ new \in minted
  BY ManagerAssumption DEF Notice, Moved, Running, IInv, TypeOK, MintedInv
<1>2. /\ t \notin early => live[old] = t /\ r # None
      /\ \A u \in Turns \ {t} : Moved(u) => agentSid[u] # new
      /\ \A u \in Turns : stage[u] # "new" /\ sid[u] = new => u \in early
      /\ \A x \in Turns : new \in aliases[x] => new \in EarlyIds
  BY <1>1 DEF IInv, RunningIsLive, TombstonesAreIdle, MovedInv
<1>3. /\ sid' = [sid EXCEPT ![t] = new]
      /\ live' = IF live[old] = t THEN [live EXCEPT ![old] = None, ![new] = t] ELSE live
      /\ UNCHANGED <<hermesVars, stage, home, ep, failed, finishedAt, streams, lastError,
                     deleting, early>>
      /\ EarlyIds' = EarlyIds
  BY DEF Notice, _rotated, EarlyIds
<1>4. \/ r = None /\ UNCHANGED routeVars
      \/ /\ r # None
         /\ tip' = [tip EXCEPT ![r] = new]
         /\ aliases' = [aliases EXCEPT ![r] = @ \cup {old, new}]
         /\ routes' = [routes EXCEPT ![new] = r]
         /\ forgotten' = forgotten \ {new} /\ routeEp' = routeEp
  BY DEF Notice, _rotated
<1> HIDE DEF old, new, r
<1>5. sid'[t] = new /\ \A u \in Turns : u # t => sid'[u] = sid[u]
  BY <1>3 DEF IInv, TypeOK
<1>6. \A x \in Sessions :
        live'[x] = IF live[old] # t THEN live[x]
                   ELSE IF x = new THEN t ELSE IF x = old THEN None ELSE live[x]
  BY <1>1, <1>3 DEF IInv, TypeOK
<1>7. \A x \in Turns : aliases'[x] = IF x = r THEN aliases[r] \cup {old, new} ELSE aliases[x]
  <2>1. CASE r = None
    BY <2>1, <1>1, <1>4 DEF routeVars
  <2>2. CASE r # None
    BY <2>2, <1>1, <1>4 DEF IInv, TypeOK
  <2> QED BY <2>1, <2>2
<1>8. \A x \in Sessions : routes'[x] = IF x = new /\ r # None THEN r ELSE routes[x]
  BY <1>1, <1>4 DEF IInv, TypeOK, routeVars
<1>9. r # None => /\ old \in aliases[r] /\ routeEp[r] # None /\ routes[old] = r
                  /\ \A a \in aliases[r] \ EarlyIds : routes[a] = r
  BY <1>1 DEF IInv, RouteIntegrity, r
<1>10. r # None => stage[r] # "new"
  BY <1>1 DEF IInv, FreshInv, r
<1>t. TypeOK'
  <2>1. /\ sid' \in [Turns -> Sessions \cup {None}]
        /\ live' \in [Sessions -> Turns \cup {None}]
    BY <1>1, <1>3 DEF IInv, TypeOK
  <2>2. /\ tip' \in [Turns -> Sessions \cup {None}]
        /\ routeEp' \in [Turns -> Endpoints \cup {None}]
        /\ aliases' \in [Turns -> SUBSET Sessions]
        /\ routes' \in [Sessions -> Turns \cup {None}]
        /\ forgotten' \in SUBSET Sessions
    BY <1>1, <1>4 DEF IInv, TypeOK, routeVars
  <2>3. \A u \in Turns : stage'[u] # "new" => sid'[u] # None
    BY <1>1, <1>3, <1>5, ManagerAssumption DEF IInv, TypeOK
  <2> QED BY <1>3, <2>1, <2>2, <2>3 DEF IInv, TypeOK, hermesVars
<1>11. FreshInv'
  <2> SUFFICES ASSUME NEW u \in Turns, stage[u] = "new"
               PROVE  /\ aliases'[u] = {} /\ u \notin streams' /\ u \notin early
                      /\ \A s \in Sessions : live'[s] # u /\ routes'[s] # u
    BY <1>3 DEF FreshInv
  <2>1. u # t /\ u # r /\ u # None
    BY <1>1, <1>10
  <2>2. /\ aliases[u] = {} /\ u \notin streams /\ u \notin early
        /\ \A s \in Sessions : live[s] # u /\ routes[s] # u
    BY DEF IInv, FreshInv
  <2>3. aliases'[u] = {} /\ u \notin streams'
    BY <2>1, <2>2, <1>3, <1>7
  <2>4. \A s \in Sessions : live'[s] # u /\ routes'[s] # u
    BY <2>1, <2>2, <1>6, <1>8
  <2> QED BY <2>2, <2>3, <2>4
<1>12. LiveInv'
  <2> SUFFICES ASSUME NEW x \in Sessions, live'[x] # None
               PROVE  stage'[live'[x]] # "new" /\ sid'[live'[x]] = x /\ x \in minted'
    BY DEF LiveInv
  <2>1. CASE x = new /\ live[old] = t
    BY <2>1, <1>1, <1>3, <1>5, <1>6 DEF hermesVars
  <2>2. CASE ~(x = new /\ live[old] = t)
    <3>1. live'[x] = live[x] /\ live[x] # None /\ (x = old => live[old] # t)
      BY <2>2, <1>6
    <3>2. live[x] \in Turns /\ stage[live[x]] # "new" /\ sid[live[x]] = x /\ x \in minted
      BY <3>1 DEF IInv, LiveInv, TypeOK
    <3>3. live[x] # t
      BY <3>1, <3>2 DEF old
    <3> QED BY <3>1, <3>2, <3>3, <1>3, <1>5 DEF hermesVars
  <2> QED BY <2>1, <2>2
<1>13. MintedInv'
  <2>1. \A x \in Turns : aliases'[x] \subseteq minted
    BY <1>1, <1>7 DEF IInv, MintedInv
  <2>2. \A u \in Turns : stage[u] # "new" => sid'[u] \in minted
    BY <1>1, <1>5 DEF IInv, MintedInv
  <2> QED BY <2>1, <2>2, <1>3 DEF IInv, MintedInv, hermesVars
<1>14. MovedInv'
  <2> SUFFICES ASSUME NEW u \in Turns, Moved(u)'
               PROVE  /\ \A v \in Turns \ {u} : Moved(v)' => agentSid[v] # agentSid[u]
                      /\ \A v \in Turns : stage[v] # "new" /\ sid'[v] = agentSid[u] =>
                           v \in early /\ home[v] = agentSid[u]
                      /\ \A x \in Turns : agentSid[u] \in aliases'[x] => agentSid[u] \in EarlyIds
    BY <1>3 DEF MovedInv, hermesVars
  <2>1. \A v \in Turns : Moved(v)' => v # t /\ Moved(v)
    BY <1>3, <1>5 DEF Moved, hermesVars, new
  <2>2. u # t /\ Moved(u) /\ agentSid[u] # new
    BY <2>1, <1>2
  <2>3. \A v \in Turns \ {u} : Moved(v)' => agentSid[v] # agentSid[u]
    BY <2>1, <2>2 DEF IInv, MovedInv
  <2>4. ASSUME NEW v \in Turns, stage[v] # "new", sid'[v] = agentSid[u]
        PROVE  v \in early /\ home[v] = agentSid[u]
    <3>1. v # t /\ sid[v] = agentSid[u]
      BY <2>2, <2>4, <1>5
    <3> QED BY <2>2, <2>4, <3>1 DEF IInv, MovedInv
  <2>5. ASSUME NEW x \in Turns, agentSid[u] \in aliases'[x] PROVE agentSid[u] \in EarlyIds
    <3>1. agentSid[u] \in aliases[x] \/ agentSid[u] = old
      BY <2>2, <2>5, <1>7
    <3>2. CASE agentSid[u] \in aliases[x]
      BY <3>2, <2>2 DEF IInv, MovedInv
    <3>3. CASE agentSid[u] = old
      <4>1. t \in early /\ home[t] = agentSid[u]
        BY <3>3, <2>2, <1>1 DEF IInv, MovedInv, old
      <4> QED BY <4>1 DEF EarlyIds
    <3> QED BY <3>1, <3>2, <3>3
  <2> QED BY <2>3, <2>4, <2>5
<1>15. QueuedInv'
  BY <1>1, <1>3, <1>5 DEF IInv, QueuedInv
<1>16. RunningIsLive'
  <2> SUFFICES ASSUME NEW u \in Turns, u \notin early, Running(u)
               PROVE  live'[sid'[u]] = u /\ u \in streams'
    BY <1>3 DEF RunningIsLive, Running
  <2>1. sid[u] \in Sessions /\ live[sid[u]] = u /\ u \in streams /\ stage[u] # "new"
    BY DEF IInv, TypeOK, Running, RunningIsLive
  <2>2. CASE u = t
    BY <2>1, <2>2, <1>1, <1>3, <1>5, <1>6 DEF old
  <2>3. CASE u # t
    <3>1. sid[u] # new /\ (sid[u] = old => live[old] # t)
      BY <2>1, <2>3, <1>2
    <3> QED BY <2>1, <2>3, <3>1, <1>3, <1>5, <1>6
  <2> QED BY <2>2, <2>3
<1>17. RouteIntegrity'
  <2>0. CASE r = None
    BY <2>0, <1>3, <1>4 DEF IInv, RouteIntegrity, routeVars
  <2>n. CASE r # None
    <3> SUFFICES ASSUME NEW x \in Sessions, routes'[x] # None
                 PROVE  /\ x \in aliases'[routes'[x]] /\ x \notin forgotten'
                        /\ tip'[routes'[x]] \in aliases'[routes'[x]]
                        /\ routeEp'[routes'[x]] # None
                        /\ \A a \in aliases'[routes'[x]] \ EarlyIds : routes'[a] = routes'[x]
      BY <1>3 DEF RouteIntegrity
    <3>0. r \in Turns /\ \A a \in aliases[r] : a \in Sessions
      BY <2>n, <1>1 DEF IInv, TypeOK
    <3>2. CASE routes'[x] = r
      <4>1. x \in aliases'[r] /\ x \notin forgotten'
        <5>1. CASE x = new BY <5>1, <2>n, <3>0, <1>4, <1>7
        <5>2. CASE x # new
          BY <5>2, <3>0, <3>2, <2>n, <1>4, <1>7, <1>8, ManagerAssumption DEF IInv, RouteIntegrity
        <5> QED BY <5>1, <5>2
      <4>2. tip'[r] = new /\ routeEp'[r] # None /\ new \in aliases'[r]
        BY <2>n, <3>0, <1>4, <1>7, <1>9 DEF IInv, TypeOK
      <4>3. \A a \in aliases'[r] \ EarlyIds : routes'[a] = r
        BY <2>n, <3>0, <1>1, <1>7, <1>8, <1>9
      <4> QED BY <3>2, <4>1, <4>2, <4>3
    <3>3. CASE routes'[x] # r
      <4>1. x # new /\ routes'[x] = routes[x] /\ routes[x] \in Turns
        BY <3>3, <2>n, <1>8 DEF IInv, TypeOK
      <4>2. /\ x \in aliases[routes[x]] /\ x \notin forgotten
            /\ tip[routes[x]] \in aliases[routes[x]]
            /\ routeEp[routes[x]] # None
            /\ \A a \in aliases[routes[x]] \ EarlyIds : routes[a] = routes[x]
        BY <4>1, <1>1 DEF IInv, RouteIntegrity
      <4>3. /\ aliases'[routes[x]] = aliases[routes[x]]
            /\ tip'[routes[x]] = tip[routes[x]]
            /\ routeEp' = routeEp /\ forgotten' \subseteq forgotten
        BY <3>3, <4>1, <2>n, <1>4, <1>7 DEF IInv, TypeOK
      <4>4. \A a \in aliases[routes[x]] \ EarlyIds : a \in Sessions /\ a # new
        BY <4>1, <1>2 DEF IInv, TypeOK
      <4> QED BY <4>1, <4>2, <4>3, <4>4, <1>8
    <3> QED BY <3>2, <3>3
  <2> QED BY <2>0, <2>n
<1>18. TombstonesAreIdle'
  <2> SUFFICES ASSUME NEW u \in Turns, u \notin early, Running(u)
               PROVE  routes'[sid'[u]] # None
    BY <1>17, <1>t, <1>3 DEF TombstonesAreIdle, RouteIntegrity, TypeOK, Running
  <2>1. CASE u = t
    BY <2>1, <1>1, <1>2, <1>5, <1>8
  <2>2. CASE u # t
    <3>1. sid[u] \in Sessions /\ routes[sid[u]] # None
      BY DEF IInv, TypeOK, Running, TombstonesAreIdle
    <3> QED BY <2>2, <3>1, <1>5, <1>8
  <2> QED BY <2>1, <2>2
<1>19. EndpointCapacity'
  BY <1>3, CapacityKept, ManagerAssumption DEF IInv, Running
<1> QED
  BY <1>t, <1>11, <1>12, <1>13, <1>14, <1>15, <1>16, <1>17, <1>18, <1>19 DEF IInv

(* The reaper only touches turns that do not run. *)
LEMMA ReapStep ==
  ASSUME IInv, forget_finished
  PROVE  IInv'
<1>1. \A t \in Oldest : t \in Turns /\ ~Running(t)
  BY DEF Oldest, Done, IInv, TypeOK
<1>2. /\ streams' = streams \ Oldest
      /\ \A s \in Sessions : live'[s] = live[s] \/ (live'[s] = None /\ live[s] \in Oldest)
      /\ live' \in [Sessions -> Turns \cup {None}]
      /\ UNCHANGED <<hermesVars, turnVars, routeVars, lastError, deleting, early>>
  BY DEF forget_finished, IInv, TypeOK
<1>3. TypeOK'
  BY <1>2 DEF IInv, TypeOK, hermesVars, turnVars, routeVars
<1>4. FreshInv' /\ LiveInv' /\ MintedInv' /\ QueuedInv' /\ RouteIntegrity' /\ TombstonesAreIdle'
      /\ EndpointCapacity'
  BY <1>2, ManagerAssumption DEF IInv, FreshInv, LiveInv, MintedInv, QueuedInv, RouteIntegrity,
     TombstonesAreIdle, EndpointCapacity, EarlyIds, Running, hermesVars, turnVars, routeVars
<1>5. MovedInv'
  BY <1>2 DEF IInv, MovedInv, Moved, EarlyIds, hermesVars, turnVars, routeVars
<1>6. RunningIsLive'
  <2> SUFFICES ASSUME NEW u \in Turns, u \notin early, Running(u)
               PROVE  live'[sid[u]] = u /\ u \in streams'
    BY <1>2 DEF RunningIsLive, Running, turnVars
  <2>1. sid[u] \in Sessions /\ live[sid[u]] = u /\ u \in streams
    BY DEF IInv, TypeOK, Running, RunningIsLive
  <2> QED BY <2>1, <1>1, <1>2
<1> QED BY <1>3, <1>4, <1>5, <1>6 DEF IInv

(* A conversation is retired. *)
LEMMA DeleteStep ==
  ASSUME IInv, NEW s \in Sessions, Delete(s)
  PROVE  IInv'
<1>1. PICK ids \in {Lineage(s), {s}} : forget_sessions(ids) /\ deleting' = ids
  BY DEF Delete
<1>2. ids \in SUBSET Sessions
  BY DEF Lineage
<1>3. UNCHANGED <<hermesVars, turnVars, mapVars, tip, routeEp, aliases, early>> /\ EarlyIds' = EarlyIds
  BY <1>1 DEF Delete, forget_sessions, EarlyIds, turnVars
<1> DEFINE F == Family(ids)
<1>4. F \in SUBSET Sessions
  BY <1>2, ManagerAssumption DEF Family, RoutesOf, IInv, TypeOK
<1>5. \A x \in Sessions : routes'[x] = IF x \in F THEN None ELSE routes[x]
  BY <1>1 DEF forget_sessions
<1>6. \A u \in Turns \ early : Running(u) => sid[u] \in Sessions /\ sid[u] \notin F
  <2> SUFFICES ASSUME NEW u \in Turns \ early, Running(u) PROVE sid[u] \in Sessions /\ sid[u] \notin F
    OBVIOUS
  <2>1. sid[u] \in Sessions /\ live[sid[u]] = u /\ u # None /\ Unsettled(u)
    BY ManagerAssumption DEF IInv, TypeOK, Running, RunningIsLive, Unsettled
  <2> QED BY <2>1, <1>1 DEF forget_sessions
(* The family is closed: it holds all the aliases of a route or none, as far *)
(* as no early turn was started under them.                                  *)
<1>7. ASSUME NEW x \in Sessions, routes[x] # None, x \notin F
      PROVE  \A a \in aliases[routes[x]] \ EarlyIds : a \notin F
  <2> SUFFICES ASSUME NEW a \in aliases[routes[x]] \ EarlyIds, a \in F PROVE FALSE
    OBVIOUS
  <2>1. routes[a] = routes[x] /\ x \in aliases[routes[x]] /\ a \in Sessions
    BY <1>7 DEF IInv, RouteIntegrity, TypeOK
  <2>2. CASE a \in ids
    <3>1. routes[x] \in RoutesOf(ids)
      BY <2>1, <2>2, <1>7 DEF RoutesOf
    <3> QED BY <3>1, <2>1, <1>7 DEF Family
  <2>3. CASE a \notin ids
    <3>1. PICK r \in RoutesOf(ids) : a \in aliases[r]
      BY <2>3 DEF Family
    <3>2. PICK z \in ids : routes[z] = r /\ r # None
      BY <3>1 DEF RoutesOf
    <3>3. routes[a] = r
      BY <3>1, <3>2, <1>2 DEF IInv, RouteIntegrity
    <3> QED BY <3>1, <3>3, <2>1, <1>7 DEF Family
  <2> QED BY <2>2, <2>3
<1>8. forgotten' = forgotten \cup F
  BY <1>1 DEF forget_sessions
<1> HIDE DEF F
<1>9. TypeOK'
  <2>1. routes' \in [Sessions -> Turns \cup {None}]
    BY <1>1 DEF forget_sessions, IInv, TypeOK
  <2> QED
    BY <2>1, <1>1, <1>2, <1>3, <1>4, <1>8 DEF IInv, TypeOK, hermesVars, turnVars, mapVars
<1>10. FreshInv' /\ LiveInv' /\ MintedInv' /\ QueuedInv' /\ RunningIsLive' /\ EndpointCapacity'
  BY <1>3, <1>5, ManagerAssumption DEF IInv, FreshInv, LiveInv, MintedInv, QueuedInv,
     RunningIsLive, EndpointCapacity, Running, hermesVars, turnVars, mapVars
<1>11. MovedInv'
  BY <1>3 DEF IInv, MovedInv, Moved, hermesVars, turnVars, mapVars
<1>12. RouteIntegrity'
  <2> SUFFICES ASSUME NEW x \in Sessions, routes'[x] # None
               PROVE  /\ x \in aliases[routes'[x]] /\ x \notin forgotten'
                      /\ tip[routes'[x]] \in aliases[routes'[x]]
                      /\ routeEp[routes'[x]] # None
                      /\ \A a \in aliases[routes'[x]] \ EarlyIds : routes'[a] = routes'[x]
    BY <1>3 DEF RouteIntegrity
  <2>1. x \notin F /\ routes'[x] = routes[x] /\ routes[x] \in Turns
    BY <1>5 DEF IInv, TypeOK
  <2>2. \A a \in aliases[routes[x]] \ EarlyIds : a \in Sessions /\ a \notin F /\ routes[a] = routes[x]
    BY <2>1, <1>7 DEF IInv, TypeOK, RouteIntegrity
  <2> QED BY <2>1, <2>2, <1>5, <1>8 DEF IInv, RouteIntegrity
<1>13. TombstonesAreIdle'
  <2> SUFFICES ASSUME NEW u \in Turns \ early, Running(u)
               PROVE  /\ routes'[sid[u]] # None
                      /\ (aliases[routes'[sid[u]]] \ EarlyIds) \cap forgotten' = {}
    BY <1>3 DEF TombstonesAreIdle, Running, turnVars
  <2>1. /\ sid[u] \in Sessions /\ sid[u] \notin F /\ routes[sid[u]] # None
        /\ (aliases[routes[sid[u]]] \ EarlyIds) \cap forgotten = {}
    BY <1>6 DEF IInv, TombstonesAreIdle
  <2> QED BY <2>1, <1>5, <1>7, <1>8
<1> QED BY <1>9, <1>10, <1>11, <1>12, <1>13 DEF IInv

LEMMA RowsStep ==
  ASSUME IInv, DeleteRows \/ DeleteFails
  PROVE  IInv'
<1>1. /\ UNCHANGED <<minted, agentSid, turnVars, routeVars, mapVars, early>>
      /\ rows' \subseteq rows /\ rows' \in SUBSET Sessions /\ parent' \in [Sessions -> Sessions \cup {None}]
      /\ deleting' \in SUBSET Sessions
  BY DEF DeleteRows, DeleteFails, hermesVars, IInv, TypeOK
<1>2. TypeOK'
  BY <1>1 DEF IInv, TypeOK, turnVars, routeVars, mapVars
<1> QED
  BY <1>1, <1>2 DEF IInv, FreshInv, LiveInv, MintedInv, MovedInv, Moved, QueuedInv,
     RunningIsLive, Running, EarlyIds, EndpointCapacity, RouteIntegrity, TombstonesAreIdle,
     turnVars, routeVars, mapVars

(* The ids a start may name are in use. *)
LEMMA StartStep ==
  ASSUME IInv, NEW t \in Turns, NEW s \in Sessions,
         \/ \E e \in Endpoints : StartNew(t, s, e) \/ StartUser(t, s, e)
         \/ \E r \in Turns : StartInternal(t, s, r)
  PROVE  IInv'
<1>0. minted \in SUBSET Sessions /\ routes[s] \in Turns \cup {None}
  BY DEF IInv, TypeOK
<1>1. ASSUME NEW e \in Endpoints, StartNew(t, s, e) PROVE IInv'
  <2>1. routes[s] = None
    BY <1>1 DEF StartNew, IInv, RouteIntegrity, MintedInv, TypeOK
  <2> QED BY <1>0, <1>1, <2>1, AdmitStep DEF StartNew
<1>2. ASSUME NEW e \in Endpoints, StartUser(t, s, e) PROVE IInv'
  <2>1. s \in minted
    BY <1>2 DEF StartUser, Known, IInv, MintedInv
  <2>2. CASE routes[s] = None
    BY <1>0, <1>2, <2>1, <2>2, AdmitStep DEF StartUser
  <2>3. CASE routes[s] # None
    BY <1>0, <1>2, <2>1, <2>3, AdmitStep DEF StartUser
  <2> QED BY <2>2, <2>3
<1>3. ASSUME NEW r \in Turns, StartInternal(t, s, r) PROVE IInv'
  <2>1. s \in aliases[r] /\ routeEp[r] \in Endpoints
    BY <1>3, ManagerAssumption DEF StartInternal, IInv, RouteIntegrity, TypeOK
  <2>2. s \in minted
    BY <2>1 DEF IInv, MintedInv
  <2> QED BY <1>0, <1>3, <2>1, <2>2, AdmitStep DEF StartInternal
<1> QED BY <1>1, <1>2, <1>3

-----------------------------------------------------------------------------
(* The inductive invariant holds of every behaviour. *)
THEOREM Invariant == Spec => []IInv
<1>1. IInv /\ [Next]_vars => IInv'
  <2> SUFFICES ASSUME IInv, [Next]_vars PROVE IInv'
    OBVIOUS
  <2>1. CASE Start
    BY <2>1, StartStep DEF Start
  <2>2. CASE Work
    <3>1. PICK t \in Turns :
            \/ Begin(t) \/ FailEarly(t) \/ Notice(t) \/ FinishRun(t) \/ Close(t)
            \/ RecordError(t) \/ Settle(t)
            \/ \E n \in Sessions : Rotate(t, n)
      BY <2>2 DEF Work
    <3> QED BY <3>1, BeginStep, FinishStep, NoticeStep, UnwindStep, RotateStep
  <2>3. CASE Retire
    BY <2>3, ReapStep, DeleteStep, RowsStep DEF Retire
  <2>4. CASE UNCHANGED vars
    <3>1. /\ UNCHANGED <<minted, agentSid, turnVars, routeVars, mapVars>>
          /\ UNCHANGED <<rows, parent, deleting, early>>
      BY <2>4 DEF vars, hermesVars
    <3>2. TypeOK'
      BY <3>1 DEF IInv, TypeOK, turnVars, routeVars, mapVars
    <3> QED
      BY <3>1, <3>2 DEF IInv, FreshInv, LiveInv, MintedInv, MovedInv, Moved, QueuedInv,
         RunningIsLive, Running, EarlyIds, EndpointCapacity, RouteIntegrity, TombstonesAreIdle,
         turnVars, routeVars, mapVars
  <2> QED BY <2>1, <2>2, <2>3, <2>4 DEF Next
<1> QED BY InitIInv, <1>1, PTL DEF Spec

(* The state keeps its shape, and a turn's record agrees with its stage. *)
THEOREM TypeCorrect == Spec => []TypeOK
<1>1. IInv => TypeOK
  BY DEF IInv
<1> QED BY Invariant, <1>1, PTL

(* Every running turn is found under the id its frames carry, unless it was *)
(* started under an id the manager had not heard of.                        *)
THEOREM RunningIsLiveHolds == Spec => []RunningIsLive
<1>1. IInv => RunningIsLive
  BY DEF IInv
<1> QED BY Invariant, <1>1, PTL

(* No endpoint runs more turns than it admits, beyond such early ones. *)
THEOREM EndpointCapacityHolds == Spec => []EndpointCapacity
<1>1. IInv => EndpointCapacity
  BY DEF IInv
<1> QED BY Invariant, <1>1, PTL

(* The route table and the routes agree, early turns or not. *)
THEOREM RouteIntegrityHolds == Spec => []RouteIntegrity
<1>1. IInv => RouteIntegrity
  BY DEF IInv
<1> QED BY Invariant, <1>1, PTL

(* No id of a replying conversation is tombstoned, early turns and their ids *)
(* excepted.                                                                 *)
THEOREM TombstonesAreIdleHolds == Spec => []TombstonesAreIdle
<1>1. IInv => TombstonesAreIdle
  BY DEF IInv
<1> QED BY Invariant, <1>1, PTL
=============================================================================
