---------------------------- MODULE TurnManager ----------------------------
(***************************************************************************)
(* Admission, tracking and retirement of turns: class TurnManager of       *)
(* webui/turns.py, with the callers that race it: the HTTP route that      *)
(* deletes a conversation and the reaper.                                  *)
(*                                                                         *)
(* A conversation is not one session id: hermes rotates the id while a     *)
(* turn runs (context compression), the manager learns of it at the turn's *)
(* next frame, and a route object ties the ids of one conversation         *)
(* together.  A route object is named here by the turn that created it.    *)
(*                                                                         *)
(* One turn walks through the stages                                       *)
(*    new -> queued -> armed -> ended -> closed -> unwinding -> settled    *)
(* where `running` is true up to and including "ended" (the terminal event *)
(* is out, the flag not yet lowered), and "closed" is only visited by a    *)
(* turn that failed.                                                       *)
(***************************************************************************)
EXTENDS Integers, FiniteSets

CONSTANTS Sessions,       \* session ids, the ones hermes will mint included
          Turns,          \* turns (stream ids)
          Endpoints,
          MaxConcurrent,  \* per endpoint, how many turns it admits
          Keep,           \* forget_finished's `keep`
          EarlyNames,     \* may a client name an id it saw in the store, before
                          \* the manager has been told of the rotation?
          None            \* no session, no turn, no route, no endpoint

ASSUME ManagerAssumption ==
    /\ IsFiniteSet(Sessions) /\ IsFiniteSet(Turns)
    /\ None \notin Turns \cup Sessions \cup Endpoints
    /\ MaxConcurrent \in [Endpoints -> Nat]
    /\ Keep \in Nat
    /\ EarlyNames \in BOOLEAN

VARIABLES
  \* hermes and the session store
  minted,      \* ids in use, made up for a new conversation or by a rotation
  parent,      \* per id, the row it continues (parent_session_id)
  rows,        \* ids that have a row in the store
  agentSid,    \* per turn, the id its agent is writing to
  \* the turns
  stage,
  home,        \* the session id the turn was started with
  sid,         \* stream.session_id: the id its frames carry
  ep,          \* stream.endpoint_key
  failed,      \* stream.error is set
  finishedAt,  \* when it finished, by a logical clock; 0 is None
  \* the manager
  streams,     \* _streams
  live,        \* _live
  routes,      \* _routes
  tip,         \* per route, session_id
  routeEp,     \* per route, endpoint
  aliases,     \* per route, aliases
  forgotten,   \* _forgotten_sessions
  lastError,   \* _last_error: the turn whose failure is kept for the session
  \* the delete request
  deleting,    \* ids retired, whose rows are about to be deleted
  \* a history variable: written by Admit, read by the properties alone
  early        \* turns started under an id that the agent of another running
               \* turn had moved to before any frame told the manager so

hermesVars == <<minted, parent, rows, agentSid>>
turnVars   == <<stage, home, sid, ep, failed, finishedAt>>
routeVars  == <<routes, tip, routeEp, aliases, forgotten>>
mapVars    == <<streams, live, lastError>>
vars == <<hermesVars, turnVars, routeVars, mapVars, deleting, early>>

Stages == {"new", "queued", "armed", "ended", "closed", "unwinding", "settled"}

\* stream.running
Running(t) == stage[t] \in {"queued", "armed", "ended"}
\* stream.running or not stream.turn_settled
Unsettled(t) == stage[t] \notin {"new", "settled"}

RunningAt(s) == live[s] # None /\ Running(live[s])

\* hermes has moved the turn's conversation and no frame has told the manager.
Moved(t) == stage[t] = "armed" /\ agentSid[t] # sid[t]

\* An id of such a turn, which the store shows and the manager does not know.
UnannouncedId(s) == \E u \in Turns : Moved(u) /\ agentSid[u] = s

\* The ids a client can send: the ones a start or a frame gave it, and with
\* EarlyNames the ones it reads from the store.
Known(s) == (\E r \in Turns : s \in aliases[r]) \/ (EarlyNames /\ s \in rows)

-----------------------------------------------------------------------------
Init ==
    /\ minted = {} /\ rows = {}
    /\ parent = [s \in Sessions |-> None]
    /\ agentSid = [t \in Turns |-> None]
    /\ stage = [t \in Turns |-> "new"]
    /\ home = [t \in Turns |-> None]
    /\ sid = [t \in Turns |-> None]
    /\ ep = [t \in Turns |-> None]
    /\ failed = [t \in Turns |-> FALSE]
    /\ finishedAt = [t \in Turns |-> 0]
    /\ streams = {}
    /\ live = [s \in Sessions |-> None]
    /\ routes = [s \in Sessions |-> None]
    /\ tip = [r \in Turns |-> None]
    /\ routeEp = [r \in Turns |-> None]
    /\ aliases = [r \in Turns |-> {}]
    /\ forgotten = {}
    /\ lastError = [s \in Sessions |-> None]
    /\ deleting = {}
    /\ early = {}

(* Starting. *)

LiveOn(e) == {s \in Sessions : RunningAt(s) /\ ep[live[s]] = e}

\* Mutant of HasCapacity: one turn too many.
HasCapacity_off_by_one(e) == Cardinality(LiveOn(e)) <= MaxConcurrent[e]

\* running_on(endpoint) < endpoint.max_concurrent
HasCapacity(e) == Cardinality(LiveOn(e)) < MaxConcurrent[e]

\* Mutant of Bind: the route is bound under the id it was started with only.
Bind_this_id_only(s, e, r) ==
    /\ tip' = [tip EXCEPT ![r] = s]
    /\ routeEp' = [routeEp EXCEPT ![r] = e]
    /\ aliases' = [aliases EXCEPT ![r] = @ \cup {s}]
    /\ routes' = [routes EXCEPT ![s] = r]
    /\ forgotten' = forgotten

\* Point route r at session s, and every alias of it at the route.
Bind(s, e, r) ==
    LET als == aliases[r] \cup {s} IN
    /\ tip' = [tip EXCEPT ![r] = s]
    /\ routeEp' = [routeEp EXCEPT ![r] = e]
    /\ aliases' = [aliases EXCEPT ![r] = als]
    /\ routes' = [a \in Sessions |-> IF a \in als THEN r ELSE routes[a]]
    /\ forgotten' = forgotten \ als

\* The rest of `start`, under the manager's lock: neither taken nor busy, the
\* stream is made and bound.
Admit(t, s, e, r) ==
    /\ stage[t] = "new"
    /\ ~RunningAt(s)
    /\ HasCapacity(e)
    /\ lastError' = [lastError EXCEPT ![s] = None]
    /\ streams' = streams \cup {t}
    /\ live' = [live EXCEPT ![s] = t]
    /\ stage' = [stage EXCEPT ![t] = "queued"]
    /\ home' = [home EXCEPT ![t] = s]
    /\ sid' = [sid EXCEPT ![t] = s]
    /\ ep' = [ep EXCEPT ![t] = e]
    /\ Bind(s, e, r)
    /\ early' = IF UnannouncedId(s) THEN early \cup {t} ELSE early
    /\ UNCHANGED <<parent, rows, agentSid, failed, finishedAt, deleting>>

\* POST /api/chat/start for a conversation that does not exist yet: the route
\* makes up its id.
StartNew(t, s, e) ==
    /\ s \notin minted
    /\ minted' = minted \cup {s}
    /\ Admit(t, s, e, t)

\* POST /api/chat/start for an existing one.
StartUser(t, s, e) ==
    /\ Known(s)
    /\ minted' = minted
    /\ Admit(t, s, e, IF routes[s] = None THEN t ELSE routes[s])

\* start(internal=True), for the completion dispatcher, which passes the
\* route's own session and endpoint.
StartInternal(t, s, r) ==
    /\ routes[s] = r /\ tip[r] = s
    /\ s \notin forgotten
    /\ minted' = minted
    /\ Admit(t, s, routeEp[r], r)

(* The turn's worker: _run_turn. *)

\* A worker takes the turn up: its agent is acquired, the stream follows it, and
\* hermes writes the session's row.
Begin(t) ==
    /\ stage[t] = "queued"
    /\ stage' = [stage EXCEPT ![t] = "armed"]
    /\ agentSid' = [agentSid EXCEPT ![t] = home[t]]
    /\ rows' = rows \cup {home[t]}
    /\ UNCHANGED <<minted, parent, home, sid, ep, failed, finishedAt,
                   routeVars, mapVars, deleting, early>>

\* hermes compresses the context and continues under a new id.
Rotate(t, n) ==
    /\ stage[t] = "armed"
    /\ n \notin minted
    /\ minted' = minted \cup {n}
    /\ rows' = rows \cup {n}
    /\ parent' = [parent EXCEPT ![n] = agentSid[t]]
    /\ agentSid' = [agentSid EXCEPT ![t] = n]
    /\ UNCHANGED <<turnVars, routeVars, mapVars, deleting, early>>

\* Mutant of _rotated: the live map stays where it was.
_rotated_without_live(t, old, new) ==
    /\ live' = live
    /\ IF routes[old] = None
         THEN UNCHANGED routeVars
         ELSE /\ tip' = [tip EXCEPT ![routes[old]] = new]
              /\ aliases' = [aliases EXCEPT ![routes[old]] = @ \cup {old, new}]
              /\ routes' = [routes EXCEPT ![new] = routes[old]]
              /\ forgotten' = forgotten \ {new}
              /\ UNCHANGED routeEp

\* The rotation hook: what the conversation is keyed by moves with it.
_rotated(t, old, new) ==
    /\ live' = IF live[old] = t THEN [live EXCEPT ![old] = None, ![new] = t] ELSE live
    /\ IF routes[old] = None
         THEN UNCHANGED routeVars
         ELSE /\ tip' = [tip EXCEPT ![routes[old]] = new]
              /\ aliases' = [aliases EXCEPT ![routes[old]] = @ \cup {old, new}]
              /\ routes' = [routes EXCEPT ![new] = routes[old]]
              /\ forgotten' = forgotten \ {new}
              /\ UNCHANGED routeEp

\* The first frame after a rotation carries the news.
Notice(t) ==
    /\ Moved(t)
    /\ sid' = [sid EXCEPT ![t] = agentSid[t]]
    /\ _rotated(t, sid[t], agentSid[t])
    /\ UNCHANGED <<hermesVars, stage, home, ep, failed, finishedAt, streams,
                   lastError, deleting, early>>

Clock == 1 + Cardinality({u \in Turns : finishedAt[u] # 0})

\* Mutant of Finish: the time is not taken.
Finish_untimed(t, error) ==
    /\ stage' = [stage EXCEPT ![t] = "ended"]
    /\ failed' = [failed EXCEPT ![t] = error]
    /\ UNCHANGED <<hermesVars, home, sid, ep, finishedAt, routeVars, mapVars, deleting, early>>

\* stream.finish up to the terminal event.
Finish(t, error) ==
    /\ stage' = [stage EXCEPT ![t] = "ended"]
    /\ failed' = [failed EXCEPT ![t] = error]
    /\ finishedAt' = [finishedAt EXCEPT ![t] = Clock]
    /\ UNCHANGED <<hermesVars, home, sid, ep, routeVars, mapVars, deleting, early>>

\* The agent could not be acquired.
FailEarly(t) == stage[t] = "queued" /\ Finish(t, TRUE)

\* The terminal event is a frame too: it is preceded by the news of a rotation.
FinishRun(t) ==
    /\ stage[t] = "armed" /\ ~Moved(t)
    /\ \E error \in BOOLEAN : Finish(t, error)

\* `running` is lowered.
Close(t) ==
    /\ stage[t] = "ended"
    /\ stage' = [stage EXCEPT ![t] = IF failed[t] THEN "closed" ELSE "unwinding"]
    /\ UNCHANGED <<hermesVars, home, sid, ep, failed, finishedAt, routeVars,
                   mapVars, deleting, early>>

\* The failure is kept for the conversation.
RecordError(t) ==
    /\ stage[t] = "closed"
    /\ stage' = [stage EXCEPT ![t] = "unwinding"]
    /\ lastError' = [lastError EXCEPT ![home[t]] = t]
    /\ UNCHANGED <<hermesVars, home, sid, ep, failed, finishedAt, routeVars,
                   streams, live, deleting, early>>

\* The `finally` clause is through.
Settle(t) ==
    /\ stage[t] = "unwinding"
    /\ stage' = [stage EXCEPT ![t] = "settled"]
    /\ UNCHANGED <<hermesVars, home, sid, ep, failed, finishedAt, routeVars,
                   mapVars, deleting, early>>

(* The reaper. *)

Done == {t \in streams : ~Running(t) /\ finishedAt[t] # 0}

\* done[: max(0, len(done) - keep)] of the list sorted by finished_at
Oldest == {t \in Done : Cardinality({u \in Done : finishedAt[u] > finishedAt[t]}) >= Keep}

forget_finished ==
    /\ Oldest # {}
    /\ streams' = streams \ Oldest
    /\ live' = [s \in Sessions |->
                  IF live[s] \in Oldest /\ sid[live[s]] = s THEN None ELSE live[s]]
    /\ UNCHANGED <<hermesVars, turnVars, routeVars, lastError, deleting, early>>

(* Deleting a conversation: POST /api/session/delete. *)

\* Every row of the conversation s belongs to: up to the root, then down.
Lineage(s) ==
    LET up[n \in Nat] ==
          IF n = 0 THEN {s} \cap rows
          ELSE up[n - 1] \cup {p \in rows : \E x \in up[n - 1] : parent[x] = p}
        ups == up[Cardinality(Sessions)]
        down[n \in Nat] ==
          IF n = 0 THEN {x \in ups : parent[x] = None}
          ELSE down[n - 1] \cup {x \in rows : parent[x] \in down[n - 1]}
    IN  {x \in Sessions : x = s \/ x \in down[Cardinality(Sessions)]}

RoutesOf(ids) == {routes[s] : s \in ids} \ {None}

\* Mutant of Family: only the ids the store knows.
Family_store_only(ids) == ids

\* The ids asked for and the aliases the manager knows them by.
Family(ids) == ids \cup UNION {aliases[r] : r \in RoutesOf(ids)}

\* forget_sessions, when it does not refuse: tombstone an idle conversation.
forget_sessions(ids) ==
    /\ \A s \in Family(ids) : live[s] # None => ~Unsettled(live[s])
    /\ routes' = [s \in Sessions |-> IF s \in Family(ids) THEN None ELSE routes[s]]
    /\ forgotten' = forgotten \cup Family(ids)
    /\ UNCHANGED <<tip, routeEp, aliases>>

\* The lineage read can fail: then the id alone is deleted.
Delete(s) ==
    /\ Known(s)
    /\ deleting = {}
    /\ \E ids \in {Lineage(s), {s}} : forget_sessions(ids) /\ deleting' = ids
    /\ UNCHANGED <<hermesVars, turnVars, mapVars, early>>

\* SessionDB.delete_sessions: the rows go and their children are orphaned.
DeleteRows ==
    /\ deleting # {}
    /\ rows' = rows \ deleting
    /\ parent' = [s \in Sessions |-> IF parent[s] \in deleting THEN None ELSE parent[s]]
    /\ deleting' = {}
    /\ UNCHANGED <<minted, agentSid, turnVars, routeVars, mapVars, early>>

DeleteFails ==
    /\ deleting # {}
    /\ deleting' = {}
    /\ UNCHANGED <<hermesVars, turnVars, routeVars, mapVars, early>>

-----------------------------------------------------------------------------
Start == \E t \in Turns, s \in Sessions :
    \/ \E e \in Endpoints : StartNew(t, s, e) \/ StartUser(t, s, e)
    \/ \E r \in Turns : StartInternal(t, s, r)

Work == \E t \in Turns :
    \/ Begin(t) \/ FailEarly(t) \/ Notice(t) \/ FinishRun(t) \/ Close(t)
    \/ RecordError(t) \/ Settle(t)
    \/ \E n \in Sessions : Rotate(t, n)

Retire == forget_finished \/ (\E s \in Sessions : Delete(s)) \/ DeleteRows \/ DeleteFails

Next == Start \/ Work \/ Retire

Spec == Init /\ [][Next]_vars

-----------------------------------------------------------------------------
(* Properties. *)

\* The shape of the state, and what a turn's stage says of its other parts: it
\* has an id, an endpoint and an agent once it has been admitted and taken up,
\* and a finishing time (which the reaper sorts by) exactly once it has ended.
TypeOK ==
    /\ minted \in SUBSET Sessions /\ rows \in SUBSET Sessions
    /\ parent \in [Sessions -> Sessions \cup {None}]
    /\ agentSid \in [Turns -> Sessions \cup {None}]
    /\ stage \in [Turns -> Stages]
    /\ home \in [Turns -> Sessions \cup {None}]
    /\ sid \in [Turns -> Sessions \cup {None}]
    /\ ep \in [Turns -> Endpoints \cup {None}]
    /\ failed \in [Turns -> BOOLEAN]
    /\ finishedAt \in [Turns -> Nat]
    /\ streams \in SUBSET Turns
    /\ live \in [Sessions -> Turns \cup {None}]
    /\ routes \in [Sessions -> Turns \cup {None}]
    /\ tip \in [Turns -> Sessions \cup {None}]
    /\ routeEp \in [Turns -> Endpoints \cup {None}]
    /\ aliases \in [Turns -> SUBSET Sessions]
    /\ forgotten \in SUBSET Sessions
    /\ lastError \in [Sessions -> Turns \cup {None}]
    /\ deleting \in SUBSET Sessions
    /\ early \in SUBSET Turns
    /\ \A t \in Turns :
         /\ stage[t] # "new" => home[t] # None /\ sid[t] # None /\ ep[t] # None
         /\ stage[t] = "armed" => agentSid[t] # None
         /\ finishedAt[t] = 0 <=> stage[t] \in {"new", "queued", "armed"}

\* A start that names an id before the manager has heard of it slips past `taken`
\* and past the count of the endpoint's turns, and the late news of the rotation
\* then takes its place in _live (run TurnManagerEarly).  The properties say what
\* that costs: the early turns themselves, and the ids they were started with.
EarlyIds == {home[t] : t \in early}

\* A running turn is found under the id its frames carry, and by its stream id:
\* whatever rotates, starts, is reaped or deleted around it, `taken`, `busy`,
\* the sidebar and Stop still see it.  Only an early turn can be lost.
RunningIsLive ==
    \A t \in Turns \ early : Running(t) => live[sid[t]] = t /\ t \in streams

\* An endpoint never runs more turns than it admits, however the ids of those
\* turns rotate: the count is taken over _live, not over the turns.  What it can
\* run beyond its limit is early turns, and nothing else.
EndpointCapacity ==
    \A e \in Endpoints :
        Cardinality({t \in Turns \ early : Running(t) /\ ep[t] = e}) <= MaxConcurrent[e]

\* The route table and the routes agree: an id that leads to a route is an alias
\* of it and not tombstoned, and so is every other alias of it (one that an early
\* turn was started with may lead to the route that turn made).  A background
\* completion that names any id the conversation ever had finds it, until the
\* whole conversation is deleted.
RouteIntegrity ==
    \A s \in Sessions : routes[s] # None =>
        /\ s \in aliases[routes[s]] /\ s \notin forgotten
        /\ tip[routes[s]] \in aliases[routes[s]]
        /\ routeEp[routes[s]] # None
        /\ \A a \in aliases[routes[s]] \ EarlyIds : routes[a] = routes[s]

\* No id of a conversation that is replying is tombstoned: a delete that names
\* an older id of it, or whose lineage read failed, is refused.  Not so for an
\* early turn, or an id that one was started with.
TombstonesAreIdle ==
    \A t \in Turns \ early : Running(t) =>
        /\ routes[sid[t]] # None
        /\ (aliases[routes[sid[t]]] \ EarlyIds) \cap forgotten = {}

(* The inductive invariant: what the properties above rest on. *)

\* A turn not yet started has left no trace in the manager.
FreshInv ==
    \A t \in Turns : stage[t] = "new" =>
        /\ aliases[t] = {} /\ t \notin streams /\ t \notin early
        /\ \A s \in Sessions : live[s] # t /\ routes[s] # t

\* _live is keyed by the id the turn's frames carry.
LiveInv ==
    \A s \in Sessions : live[s] # None =>
        stage[live[s]] # "new" /\ sid[live[s]] = s /\ s \in minted

\* Nothing the manager, a turn or the store knows of can be minted again.
MintedInv ==
    /\ rows \subseteq minted
    /\ \A r \in Turns : aliases[r] \subseteq minted
    /\ \A t \in Turns : stage[t] # "new" => home[t] \in minted /\ sid[t] \in minted
    /\ \A t \in Turns : stage[t] = "armed" => agentSid[t] \in minted

\* Until the news of a rotation is out, nobody uses the new id but its agent and
\* the turns started early under it, which have kept it.
MovedInv ==
    \A t \in Turns : Moved(t) =>
        /\ \A u \in Turns \ {t} : Moved(u) => agentSid[u] # agentSid[t]
        /\ \A u \in Turns : stage[u] # "new" /\ sid[u] = agentSid[t] =>
             u \in early /\ home[u] = agentSid[t]
        /\ \A r \in Turns : agentSid[t] \in aliases[r] => agentSid[t] \in EarlyIds

QueuedInv == \A t \in Turns : stage[t] = "queued" => home[t] = sid[t]

IInv ==
    /\ TypeOK /\ FreshInv /\ LiveInv /\ MintedInv /\ MovedInv /\ QueuedInv
    /\ RunningIsLive /\ EndpointCapacity /\ RouteIntegrity /\ TombstonesAreIdle

(* What comments say of the manager and the code does not keep. *)

\* "taken -- this CONVERSATION is already replying" (webui/turns.py:6): one
\* conversation never has two turns running.
OneReplyPerConversation ==
    \A t, u \in Turns :
        t # u /\ Running(t) /\ Running(u) => routes[sid[t]] # routes[sid[u]]

\* "The number a turn can never exceed" (webui/turns.py:157-159, of the sum of the
\* limits): no endpoint runs more turns than it admits, early ones included.
CapacityNeverExceeded ==
    \A e \in Endpoints : Cardinality({t \in Turns : Running(t) /\ ep[t] = e}) <= MaxConcurrent[e]
=============================================================================
