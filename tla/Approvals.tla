----------------------------- MODULE Approvals -----------------------------
(***************************************************************************)
(* Permission requests.  A tool that needs permission parks its turn on    *)
(* hermes' gateway queue, which is keyed by the conversation; the turn's   *)
(* hook puts a card on the turn's stream, a browser view shows it, and the *)
(* answer comes back on a request of its own (webui/turns.py,              *)
(* webui/app_routes.py, webui/static/app.js).  A smart denial, a timeout,  *)
(* Stop and the teardown of a finished turn resolve requests as well.      *)
(*                                                                         *)
(* The key a turn's requests wait under is the id the turn started with,   *)
(* which a rotation does not move.  Of the manager only _live is here;     *)
(* capacity, routes and deletion are TurnManager's.                        *)
(***************************************************************************)
EXTENDS Integers, Sequences

CONSTANTS Ids,       \* session ids, the ones hermes will mint included
          Turns,
          Requests,  \* permission requests
          Smart,     \* the ones hermes hands over as smart-denied
          Views,     \* browser views
          MaxOpens,  \* bound: how often a view opens a conversation
          None

ASSUME ApprovalsAssumption ==
    /\ None \notin Ids \cup Turns \cup Requests \cup {"deny"}
    /\ Smart \subseteq Requests
    /\ MaxOpens \in Nat

VARIABLES
  minted,    \* ids in use
  live,      \* _live
  stage,     \* per turn: new, queued, armed, ended, denied, settled
  sid,       \* stream.session_id
  key,       \* stream.approval_key
  log,       \* per turn, the approval events on its stream before `end`
  \* hermes' approval module
  hook,      \* per key, the turn whose hook is registered
  queue,     \* per key, the requests that wait
  asker,     \* per request, the turn whose tool made it
  notified,  \* requests whose hook call is over
  verdict,   \* per request, what unblocked its tool: "deny", or the card answered
  \* a browser view
  watch,     \* the turn whose stream is on screen
  at,        \* S.sessionId
  pos,       \* how many events of that stream it has applied
  card,      \* the docked card
  answer,    \* the card whose answer is in flight
  opens      \* conversations opened so far

turnVars  == <<minted, live, stage, sid, key>>
gateVars  == <<hook, queue, asker, notified, verdict>>
viewVars  == <<watch, at, pos, card, answer, opens>>
vars == <<turnVars, log, gateVars, viewVars>>

InSeq(x, s) == \E i \in 1 .. Len(s) : s[i] = x
\* The sequence without its element x.
Without(s, x) ==
    LET n == CHOOSE n \in 1 .. Len(s) : s[n] = x
    IN [m \in 1 .. Len(s) - 1 |-> s[IF m < n THEN m ELSE m + 1]]

Running(t) == stage[t] \in {"queued", "armed"}
RunningAt(i) == live[i] # None /\ Running(live[i])

\* A tool thread is parked on the request.
Blocked(q) == asker[q] # None /\ verdict[q] = None

Init ==
    /\ minted = {}
    /\ live = [i \in Ids |-> None]
    /\ stage = [t \in Turns |-> "new"]
    /\ sid = [t \in Turns |-> None]
    /\ key = [t \in Turns |-> None]
    /\ log = [t \in Turns |-> <<>>]
    /\ hook = [i \in Ids |-> None]
    /\ queue = [i \in Ids |-> <<>>]
    /\ asker = [q \in Requests |-> None]
    /\ notified = {}
    /\ verdict = [q \in Requests |-> None]
    /\ watch = [v \in Views |-> None]
    /\ at = [v \in Views |-> None]
    /\ pos = [v \in Views |-> 0]
    /\ card = [v \in Views |-> None]
    /\ answer = [v \in Views |-> None]
    /\ opens = 0

-----------------------------------------------------------------------------
(* Turns. *)

\* A turn is admitted under an id nobody is replying under.
Start(t, i) ==
    /\ stage[t] = "new" /\ ~RunningAt(i)
    /\ minted' = minted \cup {i}
    /\ live' = [live EXCEPT ![i] = t]
    /\ stage' = [stage EXCEPT ![t] = "queued"]
    /\ sid' = [sid EXCEPT ![t] = i]
    /\ UNCHANGED <<key, log, gateVars, viewVars>>

\* The key of a turn's requests: pinned once its hook is installed.
_approval_key(t) == IF key[t] # None THEN key[t] ELSE sid[t]

\* Mutant of _install_approval: the key is not pinned.
_install_approval_unpinned(t) ==
    /\ stage[t] = "queued"
    /\ stage' = [stage EXCEPT ![t] = "armed"]
    /\ hook' = [hook EXCEPT ![_approval_key(t)] = t]
    /\ UNCHANGED <<minted, live, sid, key, log, queue, asker, notified, verdict,
                   viewVars>>

_install_approval(t) ==
    /\ stage[t] = "queued"
    /\ stage' = [stage EXCEPT ![t] = "armed"]
    /\ key' = [key EXCEPT ![t] = _approval_key(t)]
    /\ hook' = [hook EXCEPT ![_approval_key(t)] = t]
    /\ UNCHANGED <<minted, live, sid, log, queue, asker, notified, verdict,
                   viewVars>>

\* hermes continues under a new id and the next frame tells the manager.
Rotate(t, n) ==
    /\ stage[t] = "armed" /\ n \notin minted
    /\ minted' = minted \cup {n}
    /\ sid' = [sid EXCEPT ![t] = n]
    /\ live' = IF live[sid[t]] = t
                 THEN [live EXCEPT ![sid[t]] = None, ![n] = t] ELSE live
    /\ UNCHANGED <<stage, key, log, gateVars, viewVars>>

\* The turn is over, its requests answered or not: a turn that raises leaves
\* its parallel tools where they are.
Finish(t) ==
    /\ Running(t)
    /\ stage' = [stage EXCEPT ![t] = "ended"]
    /\ UNCHANGED <<minted, live, sid, key, log, gateVars, viewVars>>

\* Mutant of DenyAll: only the head of the queue is denied.
DenyAll_head(k) ==
    /\ queue' = [queue EXCEPT ![k] = IF @ = <<>> THEN @ ELSE Tail(@)]
    /\ verdict' = [q \in Requests |->
                     IF queue[k] # <<>> /\ q = Head(queue[k]) THEN "deny" ELSE verdict[q]]

\* resolve_gateway_approval(k, "deny", resolve_all=True)
DenyAll(k) ==
    /\ queue' = [queue EXCEPT ![k] = <<>>]
    /\ verdict' = [q \in Requests |-> IF InSeq(q, queue[k]) THEN "deny" ELSE verdict[q]]

\* _release_approval, which denies what still waits under the key ...
ReleaseQueue(t) ==
    /\ stage[t] = "ended"
    /\ stage' = [stage EXCEPT ![t] = "denied"]
    /\ DenyAll(_approval_key(t))
    /\ UNCHANGED <<minted, live, sid, key, log, hook, asker, notified, viewVars>>

\* ... and then drops the hook registered under it.
ReleaseHook(t) ==
    /\ stage[t] = "denied"
    /\ stage' = [stage EXCEPT ![t] = "settled"]
    /\ hook' = [hook EXCEPT ![_approval_key(t)] = None]
    /\ UNCHANGED <<minted, live, sid, key, log, queue, asker, notified, verdict,
                   viewVars>>

\* Stop: whatever the conversation is parked on is denied.
cancel(t) ==
    /\ Running(t)
    /\ DenyAll(_approval_key(t))
    /\ UNCHANGED <<turnVars, log, hook, asker, notified, viewVars>>

-----------------------------------------------------------------------------
(* Requests. *)

\* A tool of the turn asks: hermes queues the request under the turn's key ...
Ask(t, q) ==
    /\ stage[t] = "armed" /\ asker[q] = None
    /\ asker' = [asker EXCEPT ![q] = t]
    /\ queue' = [queue EXCEPT ![key[t]] = Append(@, q)]
    /\ UNCHANGED <<turnVars, log, hook, notified, verdict, viewVars>>

\* Mutant of _resolve_notified_approval: the public resolver, which is FIFO.
_resolve_notified_approval_fifo(q, k) ==
    /\ queue' = [queue EXCEPT ![k] = Tail(@)]
    /\ verdict' = [verdict EXCEPT ![q] = "deny"]

\* The exact entry that was handed to the hook is denied.
_resolve_notified_approval(q, k) ==
    /\ queue' = [queue EXCEPT ![k] = Without(@, q)]
    /\ verdict' = [verdict EXCEPT ![q] = "deny"]

\* ... and calls the hook, if there is one: a smart denial is carried out on
\* the spot, unless its request has been resolved in the meantime, and anything
\* else becomes a card on the stream of the hook's turn.
_notify_approval(q) ==
    LET k == key[asker[q]] IN
    /\ asker[q] # None /\ q \notin notified
    /\ notified' = notified \cup {q}
    /\ IF hook[k] # None /\ q \in Smart /\ InSeq(q, queue[k])
         THEN _resolve_notified_approval(q, k) /\ UNCHANGED log
         ELSE /\ log' = IF hook[k] # None /\ Running(hook[k])
                          THEN [log EXCEPT ![hook[k]] = Append(@, q)] ELSE log
              /\ UNCHANGED <<queue, verdict>>
    /\ UNCHANGED <<turnVars, hook, asker, viewVars>>

\* Nobody has answered in time: hermes takes the request back, denied.
Expire(q) ==
    /\ Blocked(q) /\ q \in notified
    /\ queue' = [queue EXCEPT ![key[asker[q]]] = Without(@, q)]
    /\ verdict' = [verdict EXCEPT ![q] = "deny"]
    /\ UNCHANGED <<turnVars, log, hook, asker, notified, viewVars>>

-----------------------------------------------------------------------------
(* A browser view. *)

\* A conversation that is replying is opened, or reopened: the dock is emptied
\* and the turn's stream replayed from its first event.
openSession(v, t) ==
    /\ Running(t) /\ opens < MaxOpens
    /\ opens' = opens + 1
    /\ watch' = [watch EXCEPT ![v] = t]
    /\ at' = [at EXCEPT ![v] = sid[t]]
    /\ pos' = [pos EXCEPT ![v] = 0]
    /\ card' = [card EXCEPT ![v] = None]
    /\ UNCHANGED <<turnVars, log, gateVars, answer>>

\* A card is docked, unless one of the conversation is on screen already.
showApproval(v, q) == card' = [card EXCEPT ![v] = IF @ = None THEN q ELSE @]

\* The next approval event of the stream ...
apply(v) ==
    LET t == watch[v] IN
    /\ t # None /\ pos[v] < Len(log[t])
    /\ pos' = [pos EXCEPT ![v] = @ + 1]
    /\ showApproval(v, log[t][pos[v] + 1])
    /\ UNCHANGED <<turnVars, log, gateVars, watch, at, answer, opens>>

\* ... or its end, which empties the dock and stops the poll.
endTurn(v) ==
    LET t == watch[v] IN
    /\ t # None /\ ~Running(t) /\ pos[v] = Len(log[t])
    /\ watch' = [watch EXCEPT ![v] = None]
    /\ card' = [card EXCEPT ![v] = None]
    /\ at' = [at EXCEPT ![v] = None]
    /\ pos' = [pos EXCEPT ![v] = 0]
    /\ UNCHANGED <<turnVars, log, gateVars, answer, opens>>

\* Frames carry the conversation's current id, and the view adopts it.
Adopt(v) ==
    /\ watch[v] # None /\ at[v] # sid[watch[v]]
    /\ at' = [at EXCEPT ![v] = sid[watch[v]]]
    /\ UNCHANGED <<turnVars, log, gateVars, watch, pos, card, answer, opens>>

\* Mutant of approval_key_for: the id itself.
approval_key_for_id(i) == i

\* The key the requests of the conversation at id i wait under.
approval_key_for(i) == IF RunningAt(i) THEN _approval_key(live[i]) ELSE i

\* GET /api/approval/pending answers with the head of the queue, which the view
\* docks; an empty one changes nothing.
pollApprovals(v) ==
    LET waiting == queue[approval_key_for(at[v])] IN
    /\ watch[v] # None /\ waiting # <<>>
    /\ showApproval(v, Head(waiting))
    /\ UNCHANGED <<turnVars, log, gateVars, watch, at, pos, answer, opens>>

\* The reader presses a button of the card: the card goes, the answer is sent.
answerApproval(v) ==
    /\ card[v] # None /\ answer[v] = None
    /\ answer' = [answer EXCEPT ![v] = card[v]]
    /\ card' = [card EXCEPT ![v] = None]
    /\ UNCHANGED <<turnVars, log, gateVars, watch, at, pos, opens>>

\* POST /api/approval/answer names the key: the head of its queue is resolved.
\* Nothing pending is not an error.
_perm_answer(v) ==
    LET k == key[asker[answer[v]]] IN
    /\ answer[v] # None
    /\ answer' = [answer EXCEPT ![v] = None]
    /\ IF queue[k] = <<>>
         THEN UNCHANGED <<queue, verdict>>
         ELSE /\ queue' = [queue EXCEPT ![k] = Tail(@)]
              /\ verdict' = [verdict EXCEPT ![Head(queue[k])] = answer[v]]
    /\ UNCHANGED <<turnVars, log, hook, asker, notified, watch, at, pos, card,
                   opens>>

-----------------------------------------------------------------------------
Work == \E t \in Turns :
    \/ _install_approval(t) \/ Finish(t) \/ ReleaseQueue(t) \/ ReleaseHook(t) \/ cancel(t)
    \/ \E i \in Ids : Start(t, i) \/ Rotate(t, i)

Gate == \E q \in Requests :
    _notify_approval(q) \/ Expire(q) \/ (\E t \in Turns : Ask(t, q))

Browse == \E v \in Views :
    \/ apply(v) \/ endTurn(v) \/ Adopt(v) \/ pollApprovals(v)
    \/ answerApproval(v) \/ _perm_answer(v)
    \/ \E t \in Turns : openSession(v, t)

Next == Work \/ Gate \/ Browse

Spec == Init /\ [][Next]_vars

-----------------------------------------------------------------------------
(* Properties. *)

(* The shape of the state; a turn has an id from its start, and a key from the
   installation of its hook. *)
TypeOK ==
    /\ minted \in SUBSET Ids
    /\ live \in [Ids -> Turns \cup {None}]
    /\ stage \in [Turns -> {"new", "queued", "armed", "ended", "denied", "settled"}]
    /\ sid \in [Turns -> Ids \cup {None}]
    /\ key \in [Turns -> Ids \cup {None}]
    /\ log \in [Turns -> Seq(Requests)]
    /\ hook \in [Ids -> Turns \cup {None}]
    /\ queue \in [Ids -> Seq(Requests)]
    /\ asker \in [Requests -> Turns \cup {None}]
    /\ notified \in SUBSET Requests
    /\ verdict \in [Requests -> Requests \cup {None, "deny"}]
    /\ watch \in [Views -> Turns \cup {None}]
    /\ at \in [Views -> Ids \cup {None}]
    /\ pos \in [Views -> Nat]
    /\ card \in [Views -> Requests \cup {None}]
    /\ answer \in [Views -> Requests \cup {None}]
    /\ opens \in Nat
    /\ \A t \in Turns :
         /\ stage[t] # "new" => sid[t] # None
         /\ stage[t] = "armed" => key[t] # None

(* A request that blocks a tool waits in the queue that the teardown and
   the Stop of its own turn deny: however the conversation's id rotates, and
   whatever was answered, expired or smart-denied around it, no tool is parked
   where nothing can release it. *)
Releasable ==
    \A q \in Requests :
        /\ Blocked(q) => InSeq(q, queue[_approval_key(asker[q])])
        /\ \A i \in Ids : InSeq(q, queue[i]) => Blocked(q)

(* No request outlives its turn: one left unanswered by a turn that is over is
   denied before the turn counts as settled. *)
NoOrphans ==
    \A q \in Requests : Blocked(q) => stage[asker[q]] \in {"armed", "ended"}

(* A reader finds what the turn waits for: whatever the event that announced a
   request came to (evicted, or put on another turn's stream by a hook that a
   later turn replaced), the poll of a view at the turn's id of the moment reads
   the queue the request is in. *)
PollFinds ==
    \A q \in Requests :
        Blocked(q) /\ Running(asker[q])
            => InSeq(q, queue[approval_key_for(sid[asker[q]])])

(* The inductive invariant.  What a request waits under is the key its turn
   pinned; Waits and Only say that a queue holds exactly the requests that wait
   under its key, Distinct that none is in it twice, so that taking one out
   leaves none of it behind.  A turn that replies is the live one of its id,
   which is how the poll gets from the id to the key (ApprovalsProofs). *)

Distinct(s) == \A m, n \in 1 .. Len(s) : s[m] = s[n] => m = n

TurnInv ==
  \A t \in Turns :
    /\ sid[t] # None => sid[t] \in minted
    /\ Running(t) => live[sid[t]] = t

Keyed ==
  \A q \in Requests : IF asker[q] = None THEN verdict[q] = None ELSE key[asker[q]] # None

Waits ==
  \A q \in Requests :
    Blocked(q) => /\ InSeq(q, queue[key[asker[q]]])
                  /\ stage[asker[q]] \in {"armed", "ended"}

Only ==
  \A i \in Ids, q \in Requests :
    InSeq(q, queue[i]) => Blocked(q) /\ key[asker[q]] = i

GateInv == Keyed /\ Waits /\ Only /\ \A i \in Ids : Distinct(queue[i])

Asked(q) == q # None => asker[q] # None

ViewInv ==
  /\ \A t \in Turns : \A n \in 1 .. Len(log[t]) : asker[log[t][n]] # None
  /\ \A v \in Views :
       /\ watch[v] # None => at[v] \in Ids /\ stage[watch[v]] # "new"
       /\ Asked(card[v]) /\ Asked(answer[v])

IInv == TypeOK /\ TurnInv /\ GateInv /\ ViewInv
=============================================================================
