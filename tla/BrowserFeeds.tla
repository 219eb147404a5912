----------------------------- MODULE BrowserFeeds -----------------------------
(***************************************************************************)
(* The browser tab of src/webui/static/app.js: which conversation is on    *)
(* screen, which turns it is subscribed to, and whose frames are painted.  *)
(*                                                                         *)
(* A turn is a server stream of two frames: something to paint, emitted    *)
(* when it starts, and the end.  The server side is reduced to what the    *)
(* tab can observe of it; the tab's callbacks are one action each, and     *)
(* every await of the code is a record in flight that a later action       *)
(* applies, after whatever happened in between.                            *)
(***************************************************************************)
EXTENDS Integers, Sequences, FiniteSets

CONSTANTS Ids,          \* session ids
          NoId,         \* "no conversation yet"
          Chain,        \* [Ids -> conversations]: ids of one compression chain
          Heir,         \* [Ids -> Ids \cup {NoId}]: the id a rotation continues under
          Known,        \* the ids that exist when the tab is opened
          MaxTurns,     \* turns the server ever starts
          MaxPosts,     \* sends in flight at once
          MaxMoves      \* what the reader does and what goes wrong: opens, new
                        \* conversations, sends, reloads, rotations, restarts,
                        \* logins, lost connections

ASSUME FeedsAssumption ==
    /\ NoId \notin Ids
    /\ Heir \in [Ids -> Ids \cup {NoId}]
    /\ \A i \in Ids : Heir[i] # NoId => Chain[Heir[i]] = Chain[i]
    /\ Known \subseteq Ids
    /\ MaxTurns \in Nat /\ MaxPosts \in Nat /\ MaxMoves \in Nat

Streams == 1..MaxTurns
NoStream == 0
Closed == -1            \* a stream the tab has no EventSource for
Frames == 2             \* something to paint, the end
Scopes == {"owner", "other"}   \* the subject the access cookie names

VARIABLES
    turn,      \* the server's turns: how far, under which ids, whether stored
    login,     \* whose cookie the browser sends
    S,         \* the tab's state object
    feed,      \* S.ess: per stream the frames its EventSource delivered, or Closed
    screen,    \* #messages: the turns some row of it belongs to
    control,   \* the session control channel: its id, whether it is registered, events
    lists,     \* /api/sessions answers on their way
    opens,     \* openSession calls between their awaits
    posts,     \* /api/chat/start requests
    probes,    \* status questions of es.onerror
    boot,      \* boot() before its first list: the URL's view and its prefetch
    moves,     \* spent of MaxMoves
    \* a history variable: written by Send and Reload, read by OwnScreen alone
    twice      \* the last generation of the view that sent a message, before it
               \* had an id, while another was unanswered

server == <<turn, login>>
asks == <<lists, opens, posts, probes, boot>>
vars == <<turn, login, S, feed, screen, control, lists, opens, posts,
          probes, boot, moves, twice>>

-----------------------------------------------------------------------------
\* The server, as far as the tab sees it

Running(s) == turn[s].st = "running"
RunningMap == [i \in Ids |->
    IF \E s \in Streams : Running(s) /\ turn[s].cur = i
    THEN CHOOSE s \in Streams : Running(s) /\ turn[s].cur = i ELSE NoStream]
Stored(id) == {s \in Streams : turn[s].st = "ended" /\ Chain[turn[s].cur] = Chain[id]}
Born == Known \cup {turn[s].cur : s \in {t \in Streams : turn[t].st # "unused"}}
Idle(id) == RunningMap[id] = NoStream
NextStream == IF \E s \in Streams : turn[s].st = "unused"
              THEN CHOOSE s \in Streams : turn[s].st = "unused"
              ELSE NoStream
\* The first frame is emitted before the turn is known to anyone.
Started(s, id) == [turn EXCEPT ![s] = [st |-> "running", cur |-> id, ids |-> <<id>>]]
Spend == moves < MaxMoves /\ moves' = moves + 1

NoGen == -1
NoStreaming == [i \in Ids |-> NoStream]
NoControl == [id |-> NoId, open |-> FALSE, queue |-> <<>>]
NoBoot == [on |-> FALSE, view |-> NoId, hist |-> {}, read |-> "no"]

\* What a freshly loaded page holds.
Blank(scope) ==
    [sid |-> NoId, focus |-> NoStream, gen |-> 0, fresh |-> FALSE,
     own |-> NoStream, switching |-> NoId, busy |-> FALSE,
     owns |-> FALSE, scope |-> scope, streaming |-> NoStreaming]

Init ==
    /\ turn = [s \in Streams |-> [st |-> "unused", cur |-> NoId, ids |-> <<>>]]
    /\ login = "owner"
    /\ S = [Blank("owner") EXCEPT !.fresh = TRUE]
    /\ feed = [s \in Streams |-> Closed]
    /\ screen = {}
    /\ control = NoControl
    /\ lists = {} /\ opens = {} /\ posts = {} /\ probes = {}
    /\ boot = NoBoot
    /\ moves = 0 /\ twice = NoGen

-----------------------------------------------------------------------------
\* Helpers of the tab

\* setBusy: whose turn is this?  The ids decide once the view has one.
setBusy(v, b) ==
    [v EXCEPT !.busy = b,
              !.owns = b /\ CASE v.sid # NoId -> v.streaming[v.sid] # NoStream
                              [] v.sid = NoId /\ v.fresh ->
                                     v.own # NoStream /\ v.own = v.focus
                              [] OTHER -> v.focus # NoStream]

\* attach: focus the stream; subscribe unless a feed is open, anew for a replay.
attach(v, s) == setBusy([v EXCEPT !.focus = s], TRUE)
attachFeed(f, s, replay) == IF replay \/ f[s] = Closed THEN [f EXCEPT ![s] = 0] ELSE f

closeEs(f, s) == [f EXCEPT ![s] = Closed]

\* watchSession: one control channel, re-registered when the id changes.
watchSession(c, id) == IF c.id = id THEN c ELSE [NoControl EXCEPT !.id = id]

-----------------------------------------------------------------------------
\* The server's own steps

\* A background completion starts a turn in an idle conversation and announces
\* it to the control channels registered under that id.
ServerTurn(id) ==
    /\ NextStream # NoStream /\ id \in Born /\ Idle(id)
    /\ Heir[id] = NoId \/ Heir[id] \notin Born        \* the newest id of its chain
    /\ turn' = Started(NextStream, id)
    /\ control' = IF control.open /\ control.id = id
                  THEN [control EXCEPT !.queue = Append(@, [s |-> NextStream, again |-> FALSE])]
                  ELSE control
    /\ UNCHANGED <<login, S, feed, screen, asks, moves, twice>>

\* Mutant of Rotate: the turn moves on from the last id of its chain.
Rotate_past(s) ==
    /\ turn[s].st = "running" /\ Spend
    /\ turn' = [turn EXCEPT ![s].cur = Heir[@]]
    /\ UNCHANGED <<login, S, feed, screen, control, asks, twice>>

\* Context compression: the turn goes on under the next id of its chain.
Rotate(s) ==
    /\ turn[s].st = "running"
    /\ Heir[turn[s].cur] # NoId /\ Spend
    /\ turn' = [turn EXCEPT ![s].cur = Heir[@]]
    /\ UNCHANGED <<login, S, feed, screen, control, asks, twice>>

\* The turn is stored, its end emitted and `running' lowered.
Finish(s) ==
    /\ turn[s].st = "running"
    /\ turn' = [turn EXCEPT ![s].st = "ended", ![s].ids = Append(@, turn[s].cur)]
    /\ UNCHANGED <<login, S, feed, screen, control, asks, moves, twice>>

\* A restart forgets every turn in flight and every registration.
Restart ==
    /\ \E s \in Streams : turn[s].st = "running"
    /\ Spend
    /\ turn' = [s \in Streams |-> IF turn[s].st = "running"
                                  THEN [turn[s] EXCEPT !.st = "gone"] ELSE turn[s]]
    /\ control' = [control EXCEPT !.open = FALSE, !.queue = <<>>]
    /\ UNCHANGED <<login, S, feed, screen, asks, twice>>

\* Another tab logs in as another subject, who owns nothing here: the shared
\* cookie changes (once).
Login ==
    /\ login = "owner" /\ Spend
    /\ login' = "other"
    /\ UNCHANGED <<turn, S, feed, screen, control, asks, twice>>

server_Next == \/ \E id \in Ids : ServerTurn(id)
               \/ \E s \in Streams : Rotate(s) \/ Finish(s)
               \/ Restart
               \/ Login

-----------------------------------------------------------------------------
\* A frame of a subscribed turn

\* Which view a frame belongs to: the ids decide; before the view has one, only
\* its own send's stream, or the focus stream of a recovered view.
Mine(v, s, id) == IF v.fresh /\ v.sid = NoId THEN v.own # NoStream /\ s = v.own
                  ELSE IF v.sid = NoId THEN s = v.focus
                  ELSE id = v.sid

\* A frame of the focus stream under a new id renames the view.
Adopt(v, s, id) == IF v.sid # NoId /\ id # v.sid /\ s = v.focus
                   THEN [v EXCEPT !.sid = id] ELSE v

\* The first own frame of a view without an id names it.
Name(v, id) == IF v.fresh /\ v.sid = NoId
               THEN [v EXCEPT !.sid = id, !.fresh = FALSE] ELSE v

\* endTurn's question: does the end concern what is on screen?
Shown(v, s, id) == IF v.sid # NoId THEN id = v.sid
                   ELSE IF v.fresh THEN s = v.own ELSE s = v.focus

apply(s) ==
    LET n == feed[s] + 1
        id == turn[s].ids[n]
        end == n = Frames
        adopted == Adopt(S, s, id)
        mine == Mine(adopted, s, id)
        v == IF mine THEN Name(adopted, id) ELSE adopted
        dropped == ~end /\ S.switching # NoId /\ id = S.switching
    IN  /\ feed[s] # Closed /\ turn[s].st # "gone" /\ n <= Len(turn[s].ids)
        /\ feed' = IF end THEN closeEs(feed, s) ELSE [feed EXCEPT ![s] = n]
        /\ S' = IF dropped THEN S ELSE IF end /\ Shown(v, s, id) THEN setBusy(v, FALSE) ELSE v
        /\ screen' = IF mine /\ ~end /\ ~dropped THEN screen \cup {s} ELSE screen
        /\ control' = IF dropped \/ adopted.sid = S.sid THEN control
                    ELSE watchSession(control, adopted.sid)
        /\ UNCHANGED <<server, lists, opens, posts, probes, boot, moves, twice>>

-----------------------------------------------------------------------------
\* The session control channel

\* The EventSource reaches the server: the registration and the snapshot of a
\* live turn are one step there.  Another subject's id is refused.
ControlOpen ==
    /\ control.id # NoId /\ ~control.open /\ login = "owner"
    /\ control' = [control EXCEPT !.open = TRUE,
         !.queue = IF RunningMap[control.id] = NoStream THEN <<>>
                   ELSE <<[s |-> RunningMap[control.id], again |-> TRUE]>>]
    /\ UNCHANGED <<server, S, feed, screen, asks, moves, twice>>

\* server_turn_started: record first, attach unless the view is being repainted.
Announced ==
    LET e == Head(control.queue)
        v == [S EXCEPT !.streaming[control.id] = e.s]
    IN  /\ control.queue # <<>>
        /\ control' = [control EXCEPT !.queue = Tail(@)]
        /\ IF S.sid # control.id \/ S.switching # NoId
              \/ (S.focus = e.s /\ feed[e.s] # Closed)
           THEN S' = v /\ UNCHANGED feed
           ELSE /\ S' = attach(v, e.s)
                /\ feed' = attachFeed(feed, e.s, e.again)
        /\ UNCHANGED <<server, screen, lists, opens, posts, probes, boot, moves, twice>>

-----------------------------------------------------------------------------
\* /api/sessions: any action and a timer ask for it, so an answer may be taken
\* at any time and applied at any later time.

ListAnswer ==
    /\ lists = {}
    /\ lists' = {[scope |-> login, rows |-> IF login = "owner" THEN Born ELSE {},
                  streaming |-> IF login = "owner" THEN RunningMap ELSE NoStreaming]}
    /\ UNCHANGED <<server, S, feed, screen, control, opens, posts, probes, boot, moves, twice>>

\* Mutant of Evicted: the view's generation is not advanced.
Evicted_same_view(v) == [Blank(v.scope) EXCEPT !.gen = v.gen, !.fresh = TRUE]

\* A list of another subject drops everything the page holds.
Evicted(v) == [Blank(v.scope) EXCEPT !.gen = v.gen + 1, !.fresh = TRUE]

\* Streams with an open feed survive a list that left the server before them.
Merged(l, v, f) ==
    [i \in Ids |-> IF v.streaming[i] # NoStream /\ f[v.streaming[i]] # Closed
                   THEN v.streaming[i] ELSE l.streaming[i]]


\* Mutant of loadSessions: only a view without a focus stream is attached.
loadSessions_unfocused(l) ==
    LET changed == S.scope # l.scope
        v0 == IF changed THEN Evicted(S) ELSE S
        f0 == IF changed THEN [s \in Streams |-> Closed] ELSE feed
        v1 == [v0 EXCEPT !.scope = l.scope, !.streaming = Merged(l, v0, f0)]
        resumed == IF v1.sid = NoId THEN NoStream ELSE v1.streaming[v1.sid]
        attaches == v1.switching = NoId /\ resumed # NoStream /\ v1.focus = NoStream
        v2 == IF attaches THEN attach(v1, resumed) ELSE v1
    IN  [view |-> setBusy(v2, v2.busy),
         feed |-> IF attaches THEN attachFeed(f0, resumed, FALSE) ELSE f0,
         screen |-> IF changed THEN {} ELSE screen,
         control |-> IF changed THEN NoControl ELSE control]

loadSessions(l) ==
    LET changed == S.scope # l.scope
        v0 == IF changed THEN Evicted(S) ELSE S
        f0 == IF changed THEN [s \in Streams |-> Closed] ELSE feed
        v1 == [v0 EXCEPT !.scope = l.scope, !.streaming = Merged(l, v0, f0)]
        resumed == IF v1.sid = NoId THEN NoStream ELSE v1.streaming[v1.sid]
        attaches == /\ v1.switching = NoId /\ resumed # NoStream
                    /\ resumed # v1.focus /\ f0[resumed] = Closed
        v2 == IF attaches THEN attach(v1, resumed) ELSE v1
    IN  [view |-> setBusy(v2, v2.busy),
         feed |-> IF attaches THEN attachFeed(f0, resumed, FALSE) ELSE f0,
         screen |-> IF changed THEN {} ELSE screen,
         control |-> IF changed THEN NoControl ELSE control]

ListApply(l) ==
    LET after == loadSessions(l) IN
    /\ l \in lists /\ ~boot.on
    /\ S' = after.view /\ feed' = after.feed /\ screen' = after.screen
    /\ control' = after.control
    /\ lists' = lists \ {l}
    /\ UNCHANGED <<server, opens, posts, probes, boot, moves, twice>>

-----------------------------------------------------------------------------
\* Opening a conversation: a click, then a status question, then its history

\* The synchronous part of openSession; `hist' is a prefetched answer or none.
Opening(v, id, pre, hist, read) ==
    [id |-> id, gen |-> v.gen + 1, live |-> v.streaming[id],
     step |-> IF v.streaming[id] # NoStream THEN "status" ELSE "history",
     dropped |-> FALSE, pre |-> pre, hist |-> hist, read |-> read]

\* Mutant of Opened: the focus stays on the turn of the view being left.
Opened_focused(v, id) ==
    setBusy([v EXCEPT !.gen = @ + 1, !.own = NoStream, !.fresh = FALSE,
                      !.sid = id, !.switching = id], v.busy)

Opened(v, id) ==
    setBusy([v EXCEPT !.gen = @ + 1, !.own = NoStream, !.fresh = FALSE,
                      !.focus = NoStream, !.sid = id, !.switching = id], v.busy)

OpenSession(id) ==
    /\ Spend
    /\ ~boot.on /\ S.scope = "owner" /\ id \in Born
    /\ S' = Opened(S, id)
    /\ opens' = opens \cup {Opening(S, id, FALSE, {}, "no")}
    /\ control' = watchSession(control, id)
    /\ screen' = {}
    /\ UNCHANGED <<server, feed, lists, posts, probes, boot, twice>>

\* The answer about the stream the map named; a stream that has stopped leaves
\* the map before the generation is looked at.
OpenStatus(o) ==
    LET running == Running(o.live) /\ login = "owner"
        v == IF running THEN S ELSE [S EXCEPT !.streaming[o.id] = NoStream]
        next == [o EXCEPT !.step = "history", !.dropped = ~running]
    IN  /\ o \in opens /\ o.step = "status"
        /\ S' = v
        /\ opens' = (opens \ {o}) \cup (IF o.gen = S.gen THEN {next} ELSE {})
        /\ UNCHANGED <<server, feed, screen, control, lists, posts, probes, boot, moves, twice>>

\* Mutant of OpenRead: every history is read before the status is known.
OpenRead_early(o) ==
    /\ o \in opens /\ o.read = "no"
    /\ opens' = (opens \ {o}) \cup
         {[o EXCEPT !.read = IF login = "owner" THEN "yes" ELSE "error",
                    !.hist = IF login = "owner" THEN Stored(o.id) ELSE {}]}
    /\ UNCHANGED <<server, S, feed, screen, control, lists, posts, probes, boot, moves, twice>>

\* The server reads the history, a prefetch's perhaps before the status is
\* known; another subject gets an error.  What a stale opening reads is of no
\* consequence, and is left out.
OpenRead(o) ==
    /\ o \in opens /\ (o.step = "history" \/ o.pre) /\ o.read = "no" /\ o.gen = S.gen
    /\ opens' = (opens \ {o}) \cup
         {[o EXCEPT !.read = IF login = "owner" THEN "yes" ELSE "error",
                    !.hist = IF login = "owner" THEN Stored(o.id) ELSE {}]}
    /\ UNCHANGED <<server, S, feed, screen, control, lists, posts, probes, boot, moves, twice>>

\* Mutant of OpenPaint: a history is painted whichever view asked for it.
OpenPaint_any(o) ==
    /\ o \in opens /\ o.step = "history" /\ o.read # "no"
    /\ opens' = opens \ {o}
    /\ screen' = screen \cup o.hist
    /\ S' = setBusy([S EXCEPT !.switching = NoId], FALSE)
    /\ UNCHANGED <<server, feed, control, lists, posts, probes, boot, moves, twice>>

\* The history arrives: a stale one is dropped, a live turn is replayed on top.
OpenPaint(o) ==
    LET live == CASE S.streaming[o.id] # NoStream -> S.streaming[o.id]
                  [] S.streaming[o.id] = NoStream /\ o.dropped -> NoStream
                  [] OTHER -> o.live
        v == [S EXCEPT !.switching = NoId]
    IN  /\ o \in opens /\ o.step = "history" /\ (o.read # "no" \/ o.gen # S.gen)
        /\ opens' = opens \ {o}
        /\ IF o.gen # S.gen THEN UNCHANGED <<S, feed, screen>>
           ELSE IF o.read = "error" \/ (o.hist = {} /\ live = NoStream)
           THEN S' = v /\ UNCHANGED <<feed, screen>>
           ELSE /\ screen' = screen \cup o.hist
                /\ S' = IF live = NoStream THEN setBusy(v, FALSE) ELSE attach(v, live)
                /\ feed' = IF live = NoStream THEN feed ELSE attachFeed(feed, live, TRUE)
        /\ UNCHANGED <<server, control, lists, posts, probes, boot, moves, twice>>

\* newSession: purely local.
NewSession ==
    /\ Spend /\ ~boot.on
    /\ S' = setBusy([S EXCEPT !.fresh = TRUE, !.gen = @ + 1, !.switching = NoId,
                              !.own = NoStream, !.sid = NoId, !.focus = NoStream], FALSE)
    /\ screen' = {}
    /\ control' = watchSession(control, NoId)
    /\ UNCHANGED <<server, feed, lists, opens, posts, probes, boot, twice>>

-----------------------------------------------------------------------------
\* Sending

Send ==
    /\ Spend /\ ~boot.on
    /\ ~S.owns /\ S.switching = NoId /\ Cardinality(posts) < MaxPosts
    /\ posts' = posts \cup {[n |-> CHOOSE k \in 1..MaxPosts : \A q \in posts : q.n # k,
                             gen |-> S.gen, scope |-> S.scope, id |-> IF S.fresh THEN NoId ELSE S.sid,
                             step |-> "asked", s |-> NoStream]}
    /\ twice' = IF S.sid = NoId /\ \E p \in posts : p.gen = S.gen THEN S.gen ELSE twice
    /\ UNCHANGED <<server, S, feed, screen, control, lists, opens, probes, boot>>

\* /api/chat/start: a new id for a new conversation, a refusal for one that replies.
Start(p) ==
    LET s == NextStream
        answered(step, id, st) == (posts \ {p}) \cup {[p EXCEPT !.step = step, !.id = id, !.s = st]}
    IN  /\ p \in posts /\ p.step = "asked"
        /\ IF login # "owner" \/ s = NoStream \/ (p.id # NoId /\ ~Idle(p.id))
           THEN posts' = answered("refused", p.id, NoStream) /\ UNCHANGED turn
           ELSE \E id \in IF p.id # NoId THEN {p.id}
                          ELSE {i \in Ids \ Born : \A j \in Ids : Heir[j] # i} :
                    turn' = Started(s, id) /\ posts' = answered("started", id, s)
        /\ UNCHANGED <<login, S, feed, screen, control, lists, opens, probes, boot, moves, twice>>

\* The connection drops, before or after the server has acted.
SendLost(p) ==
    /\ p \in posts /\ Spend
    /\ posts' = posts \ {p}
    /\ UNCHANGED <<server, S, feed, screen, control, lists, opens, probes, boot, twice>>

\* Mutant of SendAnswer: the turn is recorded under the conversation on screen.
SendAnswer_here(p) ==
    LET started == p.step = "started" /\ p.scope = S.scope
        here == IF S.sid # NoId THEN S.sid ELSE p.id
        recorded == [S EXCEPT !.streaming[here] = p.s]
        named == [recorded EXCEPT !.fresh = FALSE, !.own = p.s, !.sid = p.id]
    IN  /\ p \in posts /\ p.step # "asked"
        /\ posts' = posts \ {p}
        /\ IF started /\ p.gen = S.gen
           THEN /\ S' = attach(named, p.s)
                /\ feed' = attachFeed(feed, p.s, FALSE)
                /\ control' = watchSession(control, p.id)
           ELSE S' = (IF started THEN recorded ELSE S) /\ UNCHANGED <<feed, control>>
        /\ UNCHANGED <<server, screen, lists, opens, probes, boot, moves, twice>>

\* A page that has moved on only records the turn; a page of another subject
\* takes nothing from the answer.
SendAnswer(p) ==
    LET started == p.step = "started" /\ p.scope = S.scope
        recorded == [S EXCEPT !.streaming[p.id] = p.s]
        named == [recorded EXCEPT !.fresh = FALSE, !.own = p.s, !.sid = p.id]
    IN  /\ p \in posts /\ p.step # "asked"
        /\ posts' = posts \ {p}
        /\ IF started /\ p.gen = S.gen
           THEN /\ S' = attach(named, p.s)
                /\ feed' = attachFeed(feed, p.s, FALSE)
                /\ control' = watchSession(control, p.id)
           ELSE S' = (IF started THEN recorded ELSE S) /\ UNCHANGED <<feed, control>>
        /\ UNCHANGED <<server, screen, lists, opens, probes, boot, moves, twice>>

-----------------------------------------------------------------------------
\* A broken feed.  A background feed is closed; for the one on screen the
\* server is asked whether the turn still exists.

FeedError(s) ==
    /\ feed[s] # Closed
    /\ \/ turn[s].st = "gone" /\ UNCHANGED moves       \* a refused reconnect
       \/ turn[s].st # "gone" /\ Spend
    /\ feed' = IF s # S.focus THEN closeEs(feed, s) ELSE feed
    /\ probes' = IF s = S.focus /\ S.busy THEN probes \cup {s} ELSE probes
    /\ UNCHANGED <<server, S, screen, control, lists, opens, posts, boot, twice>>

\* The answer is applied to whatever is on screen when it arrives.
FeedProbe(s) ==
    LET known == turn[s].st # "gone" /\ login = "owner" IN
    /\ s \in probes
    /\ probes' = probes \ {s}
    /\ IF known THEN UNCHANGED <<S, feed>>
       ELSE feed' = closeEs(feed, s) /\ S' = setBusy(S, FALSE)
    /\ UNCHANGED <<server, screen, control, lists, opens, posts, boot, moves, twice>>

-----------------------------------------------------------------------------
\* A reload: the page is new, the URL still names the view

Reload ==
    /\ Spend
    /\ S' = Blank(S.scope)
    /\ feed' = [s \in Streams |-> Closed]
    /\ screen' = {} /\ control' = NoControl
    /\ lists' = {} /\ opens' = {} /\ posts' = {} /\ probes' = {}
    /\ boot' = [on |-> TRUE, view |-> S.sid, hist |-> {}, read |-> "no"]
    /\ twice' = NoGen
    /\ UNCHANGED server

\* The view's history is read while the list is still on its way.
BootRead ==
    /\ boot.on /\ boot.view # NoId /\ boot.read = "no"
    /\ boot' = [boot EXCEPT !.read = IF login = "owner" THEN "yes" ELSE "error",
                            !.hist = IF login = "owner" THEN Stored(boot.view) ELSE {}]
    /\ UNCHANGED <<server, S, feed, screen, control, lists, opens, posts, probes, moves, twice>>

\* The first list: reopen the URL's view if it is in it, unless the subject changed.
BootList(l) ==
    LET after == loadSessions(l)
        v == after.view
    IN  /\ l \in lists /\ boot.on /\ boot' = NoBoot
        /\ lists' = lists \ {l} /\ feed' = after.feed
        /\ CASE v.gen # S.gen ->
                  S' = v /\ screen' = after.screen /\ control' = after.control /\ UNCHANGED opens
             [] v.gen = S.gen /\ boot.view \in l.rows ->
                  /\ S' = Opened(v, boot.view)
                  /\ opens' = {Opening(v, boot.view, TRUE, boot.hist, boot.read)}
                  /\ control' = watchSession(after.control, boot.view)
                  /\ screen' = {}
             [] OTHER ->
                  /\ S' = [v EXCEPT !.fresh = TRUE]
                  /\ screen' = {} /\ control' = after.control /\ UNCHANGED opens
        /\ UNCHANGED <<server, posts, probes, moves, twice>>

-----------------------------------------------------------------------------
reader_Next ==
    \/ \E id \in Ids : OpenSession(id)
    \/ NewSession
    \/ Send
    \/ Reload

net_Next ==
    \/ \E s \in Streams : apply(s) \/ FeedError(s)
    \/ \E s \in probes : FeedProbe(s)
    \/ ControlOpen \/ Announced
    \/ ListAnswer
    \/ \E l \in lists : ListApply(l) \/ BootList(l)
    \/ \E o \in opens : OpenStatus(o) \/ OpenRead(o) \/ OpenPaint(o)
    \/ \E p \in posts : Start(p) \/ SendLost(p) \/ SendAnswer(p)
    \/ BootRead

Next == server_Next \/ reader_Next \/ net_Next

Spec == Init /\ [][Next]_vars

-----------------------------------------------------------------------------
\* Properties

Turn == [st : {"unused", "running", "ended", "gone"}, cur : Ids \cup {NoId}, ids : Seq(Ids)]

View == [sid : Ids \cup {NoId}, focus : Streams \cup {NoStream}, gen : Nat,
         fresh : BOOLEAN, own : Streams \cup {NoStream},
         switching : Ids \cup {NoId}, busy : BOOLEAN, owns : BOOLEAN,
         scope : Scopes, streaming : [Ids -> Streams \cup {NoStream}]]

Event == [s : Streams, again : BOOLEAN]

\* Every variable has the shape the code gives it; a turn that runs has an id.
TypeOK ==
    /\ turn \in [Streams -> Turn]
    /\ \A s \in Streams : turn[s].st # "unused" => turn[s].cur \in Ids
    /\ login \in Scopes
    /\ S \in View
    /\ feed \in [Streams -> {Closed} \cup 0..Frames]
    /\ screen \subseteq Streams /\ probes \subseteq Streams
    /\ control \in [id : Ids \cup {NoId}, open : BOOLEAN,
                    queue : Seq(Event)]
    /\ boot \in [on : BOOLEAN, view : Ids \cup {NoId}, hist : SUBSET Streams,
                 read : {"no", "yes", "error"}]
    /\ moves \in 0..MaxMoves

\* The focus stream is a turn of the conversation on screen: it is what the
\* stop button names to the server, and whose next id may rename the view.
FocusIsHome ==
    S.sid # NoId /\ S.focus # NoStream => Chain[turn[S.focus].cur] = Chain[S.sid]

\* No row on screen comes from a turn of another conversation, whatever feeds
\* stay open in the background and whatever answers arrive late: what "puts one
\* conversation's tokens into another's transcript" (app.js:1301-1303).  The
\* exception is a view without an id from which a second message goes out before
\* the first is answered (app.js:2179-2180 lets it): two conversations are made,
\* and the second answer gives the view, with the rows of the first, the id of
\* the other (app.js:2225, 2277).
OwnScreen == S.sid # NoId /\ S.gen # twice =>
    \A s \in screen : Chain[turn[s].cur] = Chain[S.sid]

\* Once a list of another subject has been applied, the page holds nothing of
\* the previous one: no row, no id, no live mark, no feed, whatever requests of
\* the previous subject are still answered.
ScopeClean == S.scope = "other" =>
    /\ screen = {} /\ S.sid = NoId
    /\ S.streaming = NoStreaming
    /\ \A s \in Streams : feed[s] = Closed

\* A conversation is marked live by a turn of its own, across rotations and
\* late answers: openSession replays that stream into its transcript.
MapIsHome == \A i \in Ids :
    S.streaming[i] # NoStream => Chain[turn[S.streaming[i]].cur] = Chain[i]

\* A turn the opening of a conversation takes off the map as finished is in the
\* history that opening is about to paint (openSession asks for the status
\* before it reads the history).
NeverMissing == \A o \in opens :
    o.gen = S.gen /\ ~o.pre /\ o.dropped /\ o.read = "yes" /\ turn[o.live].st = "ended"
        => o.live \in o.hist

\* The same for the opening that a reload performs with a prefetched history.
BootNeverMissing == \A o \in opens :
    o.gen = S.gen /\ o.dropped /\ o.read = "yes" /\ turn[o.live].st = "ended"
        => o.live \in o.hist

\* The list is the backstop of every lost push: once one is applied to a settled
\* view, a turn running in it is subscribed (the cookie being still its owner's).
Discovered == [][\A l \in lists \ lists' :
    LET s == IF S'.sid = NoId THEN NoStream ELSE S'.streaming[S'.sid]
    IN  s # NoStream /\ Running(s) /\ S'.switching = NoId /\ login = "owner" => feed'[s] # Closed]_vars

-----------------------------------------------------------------------------
\* The inductive invariant behind these properties (BrowserFeedsProofs)

\* Stream s is a turn of the conversation of id i, now and for good.
Home(s, i) == turn[s].st # "unused" /\ Chain[turn[s].cur] = Chain[i]
Over(s) == turn[s].st \in {"ended", "gone"}

\* Two frames at most, and each under an id of the turn's own conversation.
TurnInv == \A s \in Streams :
    /\ turn[s].st = "unused" => turn[s].ids = <<>>
    /\ turn[s].st \in {"running", "gone"} => Len(turn[s].ids) = 1
    /\ turn[s].st = "ended" => Len(turn[s].ids) = Frames
    /\ \A k \in 1..Len(turn[s].ids) : /\ turn[s].ids[k] \in Ids
                                      /\ Chain[turn[s].ids[k]] = Chain[turn[s].cur]

\* A view without an id has neither a focus stream nor rows.
ViewInv ==
    /\ S.sid = NoId => S.focus = NoStream /\ screen = {}
    /\ S.fresh => S.sid = NoId /\ S.own = NoStream
    /\ S.focus # NoStream => Home(S.focus, S.sid)
    /\ \A i \in Ids : S.streaming[i] # NoStream => Home(S.streaming[i], i)

\* The focus stream is subscribed for as long as there is something to come.
FocusFed == S.focus # NoStream =>
    feed[S.focus] # Closed \/ Over(S.focus) \/ login = "other"

ListInv ==
    /\ \A l \in lists :
         /\ l \in [scope : Scopes, rows : SUBSET Ids,
                   streaming : [Ids -> Streams \cup {NoStream}]]
         /\ \A i \in Ids : l.streaming[i] # NoStream => Home(l.streaming[i], i)
         /\ l.scope = "other" => login = "other" /\ l.rows = {} /\ l.streaming = NoStreaming
         /\ S.scope = "other" => l.scope = "other"
    /\ \A l, k \in lists : l = k

ControlInv ==
    /\ control.queue # <<>> => control.id # NoId
    /\ \A k \in 1..Len(control.queue) : Home(control.queue[k].s, control.id)

\* An opening of the current view is the only one, and has the view to itself.
OpenInv ==
    /\ \A o \in opens :
         /\ o \in [id : Ids, gen : Nat, live : Streams \cup {NoStream},
                   step : {"status", "history"}, dropped : BOOLEAN, pre : BOOLEAN,
                   hist : SUBSET Streams, read : {"no", "yes", "error"}]
         /\ o.gen <= S.gen
         /\ o.gen = S.gen => /\ S.sid = o.id /\ S.switching = o.id /\ S.focus = NoStream
                             /\ \A p \in posts : p.gen # S.gen
         /\ o.live # NoStream => Home(o.live, o.id)
         /\ \A s \in o.hist : Home(s, o.id)
         /\ o.step = "status" \/ o.dropped => o.live # NoStream
    /\ \A o, q \in opens : o.gen = q.gen => o = q

\* What an opening without a prefetch finds out about a stream it drops.
DropInv == \A o \in opens : ~o.pre =>
    /\ o.step = "status" => o.read = "no"
    /\ o.dropped => \/ login = "other" /\ o.read # "yes"
                    \/ /\ Over(o.live)
                       /\ o.read = "yes" /\ turn[o.live].st = "ended" => o.live \in o.hist

PostInv ==
    /\ IsFiniteSet(posts)
    /\ \A p \in posts :
         /\ p = [n |-> p.n, gen |-> p.gen, scope |-> p.scope, id |-> p.id,
                 step |-> p.step, s |-> p.s]
         /\ p.gen \in Nat /\ p.gen <= S.gen /\ p.scope \in Scopes
         /\ p.id \in Ids \cup {NoId} /\ p.s \in Streams \cup {NoStream}
         /\ p.step = "started" => p.id # NoId /\ p.s # NoStream /\ Home(p.s, p.id)
         /\ p.scope = "other" => login = "other" /\ p.step # "started"

BootInv ==
    /\ boot.hist # {} => boot.view # NoId
    /\ \A s \in boot.hist : Home(s, boot.view)
    /\ boot.on => /\ opens = {} /\ posts = {} /\ probes = {} /\ control = NoControl
                  /\ S = Blank(S.scope) /\ screen = {} /\ \A s \in Streams : feed[s] = Closed

\* Another subject's page is bare, and nothing on its way can change that.
ScopeInv == S.scope = "other" =>
    /\ login = "other" /\ control.id = NoId /\ S.sid = NoId /\ screen = {}
    /\ S.streaming = NoStreaming
    /\ \A s \in Streams : feed[s] = Closed

IInv == /\ TypeOK /\ TurnInv /\ ViewInv /\ FocusFed /\ ListInv /\ ControlInv /\ OpenInv
        /\ DropInv /\ PostInv /\ BootInv /\ ScopeInv

\* A view's send is to its own conversation, two from a view without an id aside.
SendInv == \A p \in posts :
    p.gen = S.gen /\ S.sid # NoId /\ S.gen # twice => p.id # NoId /\ Chain[p.id] = Chain[S.sid]
SoleSend == \A p, q \in posts :
    p.gen = S.gen /\ q.gen = S.gen /\ S.sid = NoId /\ S.gen # twice => p = q
RowInv == S.sid # NoId /\ S.gen # twice => \A s \in screen : Home(s, S.sid)
ScreenInv == SendInv /\ SoleSend /\ RowInv
=============================================================================
