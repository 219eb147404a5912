---------------------------- MODULE Completions ----------------------------
(***************************************************************************)
(* Background completions: a process that a turn left running reports its  *)
(* exit, and the dispatcher thread of TurnManager (webui/turns.py,         *)
(* run_completion_dispatcher) resumes the conversation with a turn of its  *)
(* own, while users start turns, hermes rotates session ids and            *)
(* conversations are deleted.                                              *)
(*                                                                         *)
(* The manager is the one of TurnManager with what the dispatcher cannot   *)
(* tell apart left out: one endpoint, no store rows, turns without a       *)
(* name (per id, the stage of the turn _live holds), and a rotation that   *)
(* reaches the manager at once.                                            *)
(*                                                                         *)
(* A conversation's pending events and its pending_ids change together in  *)
(* every place of the code, so one sequence of processes stands for both.  *)
(***************************************************************************)
EXTENDS Integers, Sequences, FiniteSets

CONSTANTS Ids,         \* session ids, the ones hermes will mint included
          Routes,      \* route objects
          Procs,       \* background processes
          Slots,       \* max_concurrent of the endpoint
          MaxStarts,   \* bound: turns started by users
          MaxRepeats,  \* bound: events hermes reports a second time
          MaxFaults,   \* bound: times the formatter raises
          None

ASSUME CompletionsAssumption ==
    /\ None \notin Ids \cup Routes \cup Procs
    /\ Slots \in Nat \ {0}
    /\ MaxStarts \in Nat /\ MaxRepeats \in Nat /\ MaxFaults \in Nat

VARIABLES
  \* conversations
  minted,     \* ids in use
  turn,       \* per id, the stage of the turn _live holds for it
  home,       \* per id, the session id that turn was started with
  shed,       \* per id, unwinding turns that a later start displaced from _live
  routes,     \* _routes
  tip,        \* per route, session_id
  aliases,    \* per route, aliases
  forgotten,  \* _forgotten_sessions
  \* hermes' process registry
  proc,       \* "none", "running" or "exited"
  key,        \* per process, the session_key captured when it was started
  consumed,   \* the processes whose exit the agent has read for itself
  queue,      \* completion_queue
  \* what the manager keeps
  pending,    \* per route, the events not yet injected
  delivered,  \* _delivered_completions
  \* the dispatcher thread
  pc, event, todo, route, head,
  aim,        \* route.session_id as it was read, without the lock, for start
  \* history
  filed,      \* per route, every event that was ever queued on it
  resumed,    \* per route, the events that were injected
  starts, repeats, faults

turnVars  == <<minted, turn, home, shed>>
routeVars == <<routes, tip, aliases, forgotten>>
procVars  == <<proc, key, consumed, queue>>
bookVars  == <<pending, delivered, filed, resumed>>
threadVars == <<pc, event, todo, route, head, aim>>
boundVars == <<starts, repeats, faults>>
vars == <<turnVars, routeVars, procVars, bookVars, threadVars, boundVars>>

InSeq(x, s) == \E i \in 1 .. Len(s) : s[i] = x
Before(x, y, s) == \E i, j \in 1 .. Len(s) : i < j /\ s[i] = x /\ s[j] = y

Init ==
    /\ minted = {}
    /\ turn = [i \in Ids |-> "none"]
    /\ home = [i \in Ids |-> None]
    /\ shed = [i \in Ids |-> 0]
    /\ routes = [i \in Ids |-> None]
    /\ tip = [r \in Routes |-> None]
    /\ aliases = [r \in Routes |-> {}]
    /\ forgotten = {}
    /\ proc = [p \in Procs |-> "none"]
    /\ key = [p \in Procs |-> None]
    /\ consumed = {}
    /\ queue = <<>>
    /\ pending = [r \in Routes |-> <<>>]
    /\ delivered = {}
    /\ filed = [r \in Routes |-> <<>>]
    /\ resumed = [r \in Routes |-> <<>>]
    /\ pc = "poll" /\ event = None /\ todo = {} /\ route = None /\ head = None /\ aim = None
    /\ starts = 0 /\ repeats = 0 /\ faults = 0

-----------------------------------------------------------------------------
(* Conversations. *)

\* start, from the admission tests to the binding of route r: shared by users
\* and by the dispatcher.
Admit(i, r) ==
    /\ turn[i] # "running"
    /\ Cardinality({j \in Ids : turn[j] = "running"}) < Slots
    /\ turn' = [turn EXCEPT ![i] = "running"]
    /\ home' = [home EXCEPT ![i] = i]
    /\ shed' = [shed EXCEPT ![i] = IF turn[i] = "unwinding" THEN @ + 1 ELSE @]
    /\ tip' = [tip EXCEPT ![r] = i]
    /\ aliases' = [aliases EXCEPT ![r] = @ \cup {i}]
    /\ routes' = [a \in Ids |-> IF a \in aliases[r] \cup {i} THEN r ELSE routes[a]]
    /\ forgotten' = forgotten \ (aliases[r] \cup {i})

\* A user's message: to a new conversation, or to an id a tab still knows.
UserStart(i) ==
    /\ starts < MaxStarts
    /\ starts' = starts + 1
    /\ i \notin minted \/ \E r \in Routes : i \in aliases[r]
    /\ minted' = minted \cup {i}
    /\ \E r \in Routes :
         /\ IF routes[i] = None THEN aliases[r] = {} ELSE r = routes[i]
         /\ Admit(i, r)
    /\ UNCHANGED <<procVars, bookVars, threadVars, repeats, faults>>

\* hermes compresses the context; the turn, its route and the aliases follow.
Rotate(i, n) ==
    /\ turn[i] = "running" /\ routes[i] # None
    /\ n \notin minted
    /\ minted' = minted \cup {n}
    /\ turn' = [turn EXCEPT ![i] = "none", ![n] = "running"]
    /\ home' = [home EXCEPT ![i] = None, ![n] = home[i]]
    /\ tip' = [tip EXCEPT ![routes[i]] = n]
    /\ aliases' = [aliases EXCEPT ![routes[i]] = @ \cup {i, n}]
    /\ routes' = [routes EXCEPT ![n] = routes[i]]
    /\ forgotten' = forgotten \ {n}
    /\ UNCHANGED <<shed, procVars, bookVars, threadVars, boundVars>>

Finish(i) ==
    /\ turn[i] = "running"
    /\ turn' = [turn EXCEPT ![i] = "unwinding"]
    /\ UNCHANGED <<minted, home, shed, routeVars, procVars, bookVars, threadVars, boundVars>>

\* Mutant of Settle: the flag is not set for the turn _live holds.
Settle_shed_only(i) ==
    /\ shed[i] > 0
    /\ shed' = [shed EXCEPT ![i] = @ - 1]
    /\ UNCHANGED <<turn, home, minted, routeVars, procVars, bookVars, threadVars, boundVars>>

\* turn_settled, of the turn _live holds or of one it no longer does.
Settle(i) ==
    /\ \/ /\ turn[i] = "unwinding"
          /\ turn' = [turn EXCEPT ![i] = "none"]
          /\ home' = [home EXCEPT ![i] = None]
          /\ UNCHANGED shed
       \/ /\ shed[i] > 0
          /\ shed' = [shed EXCEPT ![i] = @ - 1]
          /\ UNCHANGED <<turn, home>>
    /\ UNCHANGED <<minted, routeVars, procVars, bookVars, threadVars, boundVars>>

Family(i) == {i} \cup (IF routes[i] = None THEN {} ELSE aliases[routes[i]])

\* The conversation is deleted: refused while its turn runs or unwinds.
forget_sessions(i) ==
    /\ i \in minted
    /\ \A a \in Family(i) : turn[a] = "none"
    /\ pending' = [r \in Routes |-> IF r = routes[i] THEN <<>> ELSE pending[r]]
    /\ routes' = [a \in Ids |-> IF a \in Family(i) THEN None ELSE routes[a]]
    /\ forgotten' = forgotten \cup Family(i)
    /\ UNCHANGED <<tip, aliases, delivered, filed, resumed, turnVars, procVars,
                   threadVars, boundVars>>

-----------------------------------------------------------------------------
(* Processes (hermes' registry, external). *)

\* The terminal tool of the turn at id i leaves process p in the background.
Spawn(p, i) ==
    /\ proc[p] = "none" /\ turn[i] = "running"
    /\ proc' = [proc EXCEPT ![p] = "running"]
    /\ key' = [key EXCEPT ![p] = home[i]]
    /\ UNCHANGED <<consumed, queue, turnVars, routeVars, bookVars, threadVars, boundVars>>

Exit(p) ==
    /\ proc[p] = "running"
    /\ proc' = [proc EXCEPT ![p] = "exited"]
    /\ queue' = Append(queue, p)
    /\ UNCHANGED <<key, consumed, turnVars, routeVars, bookVars, threadVars, boundVars>>

\* The same exit, reported again.
Repeat(p) ==
    /\ proc[p] = "exited" /\ repeats < MaxRepeats
    /\ repeats' = repeats + 1
    /\ queue' = Append(queue, p)
    /\ UNCHANGED <<proc, key, consumed, turnVars, routeVars, bookVars, threadVars, starts, faults>>

\* A turn of the conversation polls the process and sees it has exited.
Consume(p, i) ==
    /\ proc[p] = "exited" /\ p \notin consumed
    /\ turn[i] = "running" /\ routes[i] = routes[key[p]]
    /\ consumed' = consumed \cup {p}
    /\ UNCHANGED <<proc, key, queue, turnVars, routeVars, bookVars, threadVars, boundVars>>

-----------------------------------------------------------------------------
(* The dispatcher thread. *)

world == <<turnVars, routeVars, proc, key, consumed>>

\* completions.get(timeout): an event, or none in time.
Get ==
    /\ pc = "poll"
    /\ \/ /\ queue # <<>>
          /\ event' = Head(queue)
          /\ queue' = Tail(queue)
          /\ pc' = "vet"
       \/ /\ queue = <<>>
          /\ pc' = "scan"
          /\ UNCHANGED <<event, queue>>
    /\ UNCHANGED <<world, bookVars, todo, route, head, aim, boundVars>>

\* _queue_completion: the registry is asked before the manager's lock is taken.
Vet ==
    /\ pc = "vet"
    /\ IF event \in consumed
         THEN pc' = "scan" /\ event' = None
         ELSE pc' = "file" /\ UNCHANGED event
    /\ UNCHANGED <<world, queue, bookVars, todo, route, head, aim, boundVars>>

\* Mutant of Fileable: an event already injected is not recognised.
Fileable_again(p, r) == r # None /\ key[p] \notin forgotten /\ ~InSeq(p, pending[r])

\* There is a route for the event, and it is neither queued nor injected.
Fileable(p, r) ==
    /\ r # None /\ key[p] \notin forgotten
    /\ ~InSeq(p, pending[r]) /\ p \notin delivered

\* Mutant of File: the newest event goes first.
File_first ==
    /\ pc = "file"
    /\ LET r == routes[key[event]] IN
         IF Fileable(event, r)
           THEN /\ pending' = [pending EXCEPT ![r] = <<event>> \o @]
                /\ filed' = [filed EXCEPT ![r] = Append(@, event)]
           ELSE UNCHANGED <<pending, filed>>
    /\ pc' = "scan" /\ event' = None
    /\ UNCHANGED <<world, queue, delivered, resumed, todo, route, head, aim, boundVars>>

\* ... and under the lock the event is appended to its route, or dropped.
File ==
    /\ pc = "file"
    /\ LET r == routes[key[event]] IN
         IF Fileable(event, r)
           THEN /\ pending' = [pending EXCEPT ![r] = Append(@, event)]
                /\ filed' = [filed EXCEPT ![r] = Append(@, event)]
           ELSE UNCHANGED <<pending, filed>>
    /\ pc' = "scan" /\ event' = None
    /\ UNCHANGED <<world, queue, delivered, resumed, todo, route, head, aim, boundVars>>

\* Mutant of NextRoute: the event in hand is kept.
NextRoute_keeping(rest) ==
    /\ pc' = IF rest = {} THEN "poll" ELSE "look"
    /\ UNCHANGED <<route, head>> /\ aim' = None

\* Go on to the next route of the pass, or poll again.
NextRoute(rest) ==
    /\ pc' = IF rest = {} THEN "poll" ELSE "look"
    /\ route' = None /\ head' = None /\ aim' = None

\* _pending_routes: the routes in the table that have something waiting.
Scan ==
    /\ pc = "scan"
    /\ todo' = {r \in Routes : pending[r] # <<>> /\ \E i \in Ids : routes[i] = r}
    /\ NextRoute(todo')
    /\ UNCHANGED <<world, queue, bookVars, event, boundVars>>

\* Something to inject, a conversation that is still there, and its turn over
\* and settled.
Ready(r) ==
    /\ pending[r] # <<>> /\ routes[tip[r]] = r
    /\ turn[tip[r]] = "none"

Look(r) ==
    /\ pc = "look" /\ r \in todo
    /\ todo' = todo \ {r}
    /\ IF Ready(r)
         THEN pc' = "ask" /\ route' = r /\ head' = Head(pending[r]) /\ UNCHANGED aim
         ELSE NextRoute(todo')
    /\ UNCHANGED <<world, queue, bookVars, event, boundVars>>

\* if route.pending and route.pending[0] is event: popleft
PopHead ==
    pending' = IF pending[route] # <<>> /\ Head(pending[route]) = head
                 THEN [pending EXCEPT ![route] = Tail(@)] ELSE pending

\* Meanwhile the agent may have read it.
Ask ==
    /\ pc = "ask"
    /\ IF head \in consumed
         THEN PopHead /\ NextRoute(todo)
         ELSE pc' = "start" /\ UNCHANGED <<pending, route, head, aim>>
    /\ UNCHANGED <<world, queue, delivered, filed, resumed, event, todo, boundVars>>

\* format_process_notification raises: the event stays where it is.
FormatFails ==
    /\ pc = "start" /\ faults < MaxFaults
    /\ faults' = faults + 1
    /\ NextRoute(todo)
    /\ UNCHANGED <<world, queue, bookVars, event, todo, starts, repeats>>

\* The arguments of start are read without the lock: the conversation may rotate, or
\* be deleted, before start takes it.
Call ==
    /\ pc = "start"
    /\ aim' = tip[route] /\ pc' = "call"
    /\ UNCHANGED <<world, queue, bookVars, event, todo, route, head, boundVars>>

\* Mutant of Gone: only the tombstone is consulted.
Gone_tombstone_only == aim \in forgotten

\* start(internal=True) refuses a route that is no longer the id's own.
Gone == routes[aim] # route \/ aim \in forgotten

Resume ==
    /\ pc = "call" /\ ~Gone
    /\ Admit(aim, route)
    /\ resumed' = [resumed EXCEPT ![route] = Append(@, head)]
    /\ pc' = "pop" /\ aim' = None
    /\ UNCHANGED <<minted, procVars, pending, delivered, filed, event, todo,
                   route, head, boundVars>>

\* Mutant of Refuse: a refused event is given up.
Refuse_gives_up ==
    /\ pc = "call"
    /\ \/ Gone
       \/ turn[aim] = "running"
       \/ Cardinality({j \in Ids : turn[j] = "running"}) >= Slots
    /\ PopHead
    /\ NextRoute(todo)
    /\ UNCHANGED <<world, queue, delivered, filed, resumed, event, todo, boundVars>>

\* Gone, taken or busy.
Refuse ==
    /\ pc = "call"
    /\ \/ Gone
       \/ turn[aim] = "running"
       \/ Cardinality({j \in Ids : turn[j] = "running"}) >= Slots
    /\ NextRoute(todo)
    /\ UNCHANGED <<world, queue, bookVars, event, todo, boundVars>>

Pop ==
    /\ pc = "pop"
    /\ PopHead
    /\ delivered' = delivered \cup {head}
    /\ NextRoute(todo)
    /\ UNCHANGED <<world, queue, filed, resumed, event, todo, boundVars>>

-----------------------------------------------------------------------------
Conversation == \E i \in Ids :
    UserStart(i) \/ Finish(i) \/ Settle(i) \/ forget_sessions(i) \/ (\E n \in Ids : Rotate(i, n))

Registry == \E p \in Procs :
    Exit(p) \/ Repeat(p) \/ (\E i \in Ids : Spawn(p, i) \/ Consume(p, i))

Dispatch ==
    \/ Get \/ Vet \/ File \/ Scan \/ (\E r \in Routes : Look(r)) \/ Ask
    \/ FormatFails \/ Call \/ Resume \/ Refuse \/ Pop

Next == Conversation \/ Registry \/ Dispatch

\* The thread loops for as long as the server is up, and every turn ends and
\* unwinds.  Users, hermes' rotations and the processes owe nothing.
Fairness ==
    /\ WF_vars(Dispatch)
    /\ \A i \in Ids : WF_vars(Finish(i)) /\ WF_vars(Settle(i))

SafeSpec == Init /\ [][Next]_vars
Spec == SafeSpec /\ Fairness
-----------------------------------------------------------------------------
(* Properties. *)

(* The shape of the state; what the dispatcher has in hand at each label. *)
TypeOK ==
    /\ minted \in SUBSET Ids
    /\ turn \in [Ids -> {"none", "running", "unwinding"}]
    /\ home \in [Ids -> Ids \cup {None}]
    /\ shed \in [Ids -> Nat]
    /\ routes \in [Ids -> Routes \cup {None}]
    /\ tip \in [Routes -> Ids \cup {None}]
    /\ aliases \in [Routes -> SUBSET Ids]
    /\ forgotten \in SUBSET Ids
    /\ proc \in [Procs -> {"none", "running", "exited"}]
    /\ key \in [Procs -> Ids \cup {None}]
    /\ consumed \in SUBSET Procs
    /\ queue \in Seq(Procs)
    /\ pending \in [Routes -> Seq(Procs)]
    /\ delivered \in SUBSET Procs
    /\ pc \in {"poll", "vet", "file", "scan", "look", "ask", "start", "call", "pop"}
    /\ event \in Procs \cup {None}
    /\ todo \in SUBSET Routes
    /\ route \in Routes \cup {None}
    /\ head \in Procs \cup {None}
    /\ aim \in Ids \cup {None}
    /\ filed \in [Routes -> Seq(Procs)]
    /\ resumed \in [Routes -> Seq(Procs)]
    /\ starts \in Nat /\ repeats \in Nat /\ faults \in Nat
    /\ pc \in {"vet", "file"} <=> event # None
    /\ pc \in {"ask", "start", "call", "pop"} <=> head # None
    /\ pc \in {"ask", "start", "call", "pop"} <=> route # None
    /\ pc = "call" <=> aim # None

(* A process resumes its conversation once, however often its exit is reported,
   whether the conversation was deleted, recreated or rotated in between. *)
ExactlyOnce ==
    \A r, s \in Routes :
        \A m \in 1 .. Len(resumed[r]), n \in 1 .. Len(resumed[s]) :
            resumed[r][m] = resumed[s][n] => r = s /\ m = n

(* The events of one conversation are injected in the order in which they were
   queued, across refusals, faults and retries. *)
ArrivalOrder ==
    \A r \in Routes : \A m, n \in 1 .. Len(resumed[r]) :
        m < n => Before(resumed[r][m], resumed[r][n], filed[r])

(* An injection goes to the conversation that started the process, and never to
   one that was deleted after the dispatcher looked at it -- not even when a user
   has since brought its id back to life. *)
NoResurrection ==
    [][\A r \in Routes : resumed'[r] # resumed[r] => routes[key[head]] = r]_vars

(* An event stops waiting only because it was injected, the agent read it for
   itself, or its conversation is gone. *)
NotLost ==
    [][\A r \in Routes, p \in Procs :
         InSeq(p, pending[r]) /\ ~InSeq(p, pending'[r])
         => InSeq(p, resumed[r]) \/ p \in consumed \/ routes'[key[p]] # r]_vars

(* No event waits forever (Served): refused for a running turn, a full endpoint or an
   unsettled one, or left behind by a failing formatter, it is retried until
   it goes. *)
Waiting(p) == \E r \in Routes : InSeq(p, pending[r])
Served == \A p \in Procs : Waiting(p) ~> ~Waiting(p)

(* The inductive invariant behind the properties above (CompletionsProofs). *)

\* As in TurnManager: an id that leads to a route is one of its aliases, and
\* so does every other.
RouteInv ==
    /\ \A r \in Routes : aliases[r] \subseteq minted
    /\ \A i \in Ids : routes[i] # None =>
         /\ i \in aliases[routes[i]] /\ tip[routes[i]] \in aliases[routes[i]]
         /\ \A a \in aliases[routes[i]] : routes[a] = routes[i]
    /\ \A i \in Ids : turn[i] # "none" => home[i] # None

\* Whatever is reported is a process some turn started.
KeyInv ==
    /\ \A p \in Procs : proc[p] # "none" => key[p] # None
    /\ \A i \in 1 .. Len(queue) : proc[queue[i]] # "none"
    /\ event # None => proc[event] # "none"

\* What waits on a route belongs to it, waits once and was never injected,
\* the event the dispatcher has just injected apart.
PendingInv ==
    \A r \in Routes : \A i \in 1 .. Len(pending[r]) :
        /\ key[pending[r][i]] # None /\ proc[pending[r][i]] # "none"
        /\ routes[key[pending[r][i]]] = r
        /\ pending[r][i] \notin delivered
        /\ \A j \in 1 .. Len(pending[r]) : pending[r][i] = pending[r][j] => i = j

\* The event in hand is the first of its route, or not waiting at all.
HeadInv ==
    head # None =>
        /\ key[head] # None /\ proc[head] # "none"
        /\ key[head] \in aliases[route] /\ tip[route] # None
        /\ head \notin delivered
        /\ \A r \in Routes : InSeq(head, pending[r]) => r = route /\ Head(pending[r]) = head
        /\ pc = "pop" => InSeq(head, resumed[route])

ResumedInv ==
    \A r \in Routes : \A n \in 1 .. Len(resumed[r]) :
        resumed[r][n] \in delivered \/ (pc = "pop" /\ resumed[r][n] = head)

IInv == TypeOK /\ RouteInv /\ KeyInv /\ PendingInv /\ HeadInv /\ ResumedInv /\ ExactlyOnce
(* And behind ArrivalOrder. *)

\* What waits, waits in the order of its arrival, behind all that was injected,
\* the event the dispatcher has just injected apart.
WaitingOrder ==
    \A r \in Routes :
        /\ \A n \in 1 .. Len(pending[r]) : InSeq(pending[r][n], filed[r])
        /\ \A m \in 1 .. Len(resumed[r]) : InSeq(resumed[r][m], filed[r])
        /\ \A m, n \in 1 .. Len(pending[r]) :
              m < n => Before(pending[r][m], pending[r][n], filed[r])
        /\ \A m \in 1 .. Len(resumed[r]), n \in 1 .. Len(pending[r]) :
              resumed[r][m] # pending[r][n] => Before(resumed[r][m], pending[r][n], filed[r])

\* As long as its conversation is there, the event in hand is still waiting.
HandInv ==
    pc \in {"ask", "start", "call"} /\ routes[tip[route]] = route =>
        pending[route] # <<>> /\ Head(pending[route]) = head

OInv == WaitingOrder /\ HandInv /\ ArrivalOrder
=============================================================================
