----------------------------- MODULE Transcript -----------------------------
(***************************************************************************)
(* How src/webui/static/app.js draws the turn on screen: the optimistic    *)
(* echo of a prompt, answer segments painted one frame late, the activity  *)
(* row that goes above the answer, tool rows, the task card, the pending   *)
(* row, the replay from the first event after a conversation is reopened,  *)
(* and the loss of a turn whose stream the server no longer knows.  Texts  *)
(* are lengths; a row is a record with its own identity.                   *)
(***************************************************************************)
EXTENDS Integers, Sequences, FiniteSets

CONSTANTS ToolIds,    \* ids of tool calls
          MaxEvents,  \* events the server emits, over all turns
          MaxTurns,   \* turns the conversation has
          MaxMoves    \* sends, reopenings, asides and vanished streams

VARIABLES
    page,   \* #messages and the renderer's part of S
    turn,   \* the conversation's current turn and how far this tab has read it
    ask,    \* the send in flight
    moves   \* spent of MaxMoves

vars == <<page, turn, ask, moves>>

None == 0
NoSeg == [kind |-> "none", row |-> None, text |-> 0]
NoTools == [i \in ToolIds |-> None]

\* A fresh page: rows, the open segment, where tools, activity, first answer and
\* task card are, whether the next prompt was already drawn, whether a turn of
\* this conversation runs, whether a frame is due.
Blank == [rows |-> <<>>, seg |-> NoSeg, tools |-> NoTools, activity |-> None,
          turnTop |-> None, todo |-> None, skip |-> FALSE, owns |-> FALSE,
          raf |-> FALSE, next |-> 1]

ToolEvents == {[k |-> "tool", id |-> i, st |-> s] : i \in ToolIds, s \in {"running", "completed"}}
Events == {[k |-> e, id |-> None, st |-> ""] : e \in {"thought", "token", "blank", "todo", "note"}}
          \cup ToolEvents
UserEvent(n) == [k |-> "user", id |-> n, st |-> ""]
EndEvent == [k |-> "end", id |-> None, st |-> ""]

\* Of the turn: `gone', the server knows its stream no more; `late', that answer is
\* under way to a view left since it was asked for; `lost', the view has been told and
\* shows no other turn yet; `torn', a late answer closed another turn of this view.
Init == /\ page = Blank
        /\ turn = [n |-> 0, emitted |-> 0, live |-> FALSE, log |-> <<>>, pos |-> 0, attached |-> FALSE,
                   from |-> 1, spoilt |-> FALSE, gone |-> FALSE, late |-> FALSE, lost |-> FALSE,
                   torn |-> FALSE]
        /\ ask = [out |-> FALSE, moved |-> FALSE, crossed |-> FALSE, prompt |-> None]
        /\ moves = 0

-----------------------------------------------------------------------------
\* Rows

Row(id, kind, p) == [id |-> id, kind |-> kind, prompt |-> p, text |-> 0, painted |-> 0,
                     tools |-> [i \in ToolIds |-> ""]]
Has(v, id) == \E i \in DOMAIN v.rows : v.rows[i].id = id
At(v, id) == CHOOSE i \in DOMAIN v.rows : v.rows[i].id = id
WithRow(v, id, new(_)) == IF Has(v, id) THEN [v EXCEPT !.rows[At(v, id)] = new(@)] ELSE v
RemoveAt(s, i) == SubSeq(s, 1, i - 1) \o SubSeq(s, i + 1, Len(s))
InsertAt(s, i, e) == SubSeq(s, 1, i - 1) \o <<e>> \o SubSeq(s, i, Len(s))
Removed(v, i) == [v EXCEPT !.rows = RemoveAt(@, i)]
Without(v, id) == IF Has(v, id) THEN Removed(v, At(v, id)) ELSE v
Kind(v, k) == {i \in DOMAIN v.rows : v.rows[i].kind = k}
Final(S) == CHOOSE i \in S : \A j \in S : j <= i

addMsg(v, kind, p) == [v EXCEPT !.rows = Append(@, Row(v.next, kind, p)), !.next = @ + 1]

\* The row goes in front of this turn's first answer, if that is still there.
addAbove(v, kind) ==
    IF Has(v, v.turnTop)
    THEN [v EXCEPT !.rows = InsertAt(@, At(v, v.turnTop), Row(v.next, kind, None)), !.next = @ + 1]
    ELSE addMsg(v, kind, None)

\* A prompt is drawn unless it is already the last thing said.
addUserMsg(v, p) ==
    LET said == DOMAIN v.rows \ Kind(v, "pending")
        last == v.rows[Final(said)]
    IN  IF said # {} /\ last.kind = "user" /\ last.prompt = p THEN v ELSE addMsg(v, "user", p)

dropLastUser(v) ==
    IF Kind(v, "user") = {} THEN v ELSE Removed(v, Final(Kind(v, "user")))

showPending(v) == IF Kind(v, "pending") # {} THEN v ELSE addMsg(v, "pending", None)
clearPending(v) ==
    IF Kind(v, "pending") = {} THEN v ELSE Removed(v, CHOOSE i \in Kind(v, "pending") : TRUE)

-----------------------------------------------------------------------------
\* Segments

painted(v, id) == WithRow(v, id, LAMBDA r : [r EXCEPT !.painted = r.text])

\* Mutant of finalizeSeg: the frame that is still due is left to paint.
finalizeSeg_unflushed(v) ==
    LET closed == [v EXCEPT !.seg = NoSeg] IN
    IF v.seg.kind = "out" /\ v.seg.text = 0 THEN Without(closed, v.seg.row) ELSE closed

\* The open segment is painted and closed; an answer of blanks is taken away.
finalizeSeg(v) ==
    LET closed == [v EXCEPT !.seg = NoSeg] IN
    CASE v.seg.kind = "out" /\ v.seg.text = 0 -> Without(closed, v.seg.row)
      [] v.seg.kind = "out" /\ v.seg.text > 0 -> painted(closed, v.seg.row)
      [] OTHER -> closed

\* One row per turn for its thinking and tools, above the answer.
activityGroup(v) ==
    IF Has(v, v.activity) THEN v ELSE [addAbove(v, "activity") EXCEPT !.activity = v.next]

newThinkSeg(v) ==
    LET a == activityGroup(v)
    IN  [a EXCEPT !.seg = [kind |-> "think", row |-> a.activity, text |-> 0]]

newOutputSeg(v) ==
    LET c == clearPending(v)
    IN  [addMsg(c, "bot", None) EXCEPT
            !.turnTop = IF @ = None THEN c.next ELSE @,
            !.seg = [kind |-> "out", row |-> c.next, text |-> 0]]

appendThought(v) ==
    LET c == clearPending(v)
        s == IF c.seg.kind = "think" THEN c ELSE newThinkSeg(finalizeSeg(c))
        t == [s EXCEPT !.seg.text = @ + 1]
    IN  WithRow(t, t.seg.row, LAMBDA r : [r EXCEPT !.text = t.seg.text, !.painted = t.seg.text])

\* n is 0 for a token of blanks.
appendToken(v, n) ==
    LET s == IF v.seg.kind = "out" THEN v ELSE newOutputSeg(finalizeSeg(v))
        t == [s EXCEPT !.seg.text = @ + n, !.raf = TRUE]
    IN  WithRow(t, t.seg.row, LAMBDA r : [r EXCEPT !.text = t.seg.text])

toolRow(v, id, st) ==
    LET a == activityGroup(v)
        b == IF a.tools[id] = None THEN [a EXCEPT !.tools[id] = a.activity] ELSE a
        c == WithRow(b, b.tools[id], LAMBDA r : [r EXCEPT !.tools[id] = st])
    IN  IF st = "running" \/ v.owns THEN showPending(c) ELSE c

\* One task card, updated in place.
showTodos(v) == IF Has(v, v.todo) THEN v ELSE [addAbove(v, "todo") EXCEPT !.todo = v.next]

-----------------------------------------------------------------------------
\* One event of the stream

NewTurn(v) == [v EXCEPT !.activity = None, !.turnTop = None, !.tools = NoTools]

userEvent(v, p) ==
    LET w == NewTurn(finalizeSeg(v))
    IN  IF w.skip THEN [w EXCEPT !.skip = FALSE] ELSE addUserMsg(w, p)

endTurn(v) == [NewTurn(finalizeSeg(clearPending(v))) EXCEPT !.owns = FALSE]

\* The stream is not known to the server: the segment is closed and the reader told,
\* but the pending row and what the turn had under way stay.
loseTurn(v) == addMsg([finalizeSeg(v) EXCEPT !.owns = FALSE], "aside", None)

draw(v, e) == CASE e.k = "user" -> userEvent(v, e.id)
                [] e.k = "thought" -> appendThought(v)
                [] e.k = "token" -> appendToken(v, 1)
                [] e.k = "blank" -> appendToken(v, 0)
                [] e.k = "tool" -> toolRow(v, e.id, e.st)
                [] e.k = "todo" -> showTodos(v)
                [] e.k = "note" -> addMsg(finalizeSeg(v), "note", None)
                [] e.k = "end" -> endTurn(v)

-----------------------------------------------------------------------------
\* The turn on the server

Emit(e) ==
    /\ turn.live /\ turn.emitted < MaxEvents
    /\ turn.attached => turn.pos = Len(turn.log)
    /\ e \in Events \cup {EndEvent}
    /\ turn' = [turn EXCEPT !.log = Append(@, e), !.live = e # EndEvent, !.emitted = @ + 1]
    /\ UNCHANGED <<page, ask, moves>>

Deliver ==
    /\ turn.attached /\ turn.pos < Len(turn.log) /\ ~turn.gone
    /\ page' = draw(page, turn.log[turn.pos + 1])
    /\ turn' = [turn EXCEPT !.pos = @ + 1,
                            !.attached = turn.log[turn.pos + 1] # EndEvent]
    /\ UNCHANGED <<ask, moves>>

\* scheduleRender's frame.
Frame ==
    /\ page.raf
    /\ page' = LET v == [page EXCEPT !.raf = FALSE]
               IN  IF v.seg.kind = "out" THEN painted(v, v.seg.row) ELSE v
    /\ UNCHANGED <<turn, ask, moves>>

\* The server restarts, or a turn is over for so long that its stream is reaped,
\* while this tab still reads it: no more events, and no end.
Vanish ==
    /\ moves < MaxMoves /\ moves' = moves + 1
    /\ turn.attached /\ ~turn.gone
    /\ turn' = [turn EXCEPT !.live = FALSE, !.gone = TRUE]
    /\ UNCHANGED <<page, ask>>

\* es.onerror asks and learns that the stream is gone.  It may have asked twice.
StreamGone ==
    /\ turn.attached /\ turn.gone
    /\ page' = loseTurn(page)
    /\ \E again \in BOOLEAN :
          turn' = [turn EXCEPT !.attached = FALSE, !.spoilt = TRUE, !.lost = TRUE,
                               !.late = @ \/ again]
    /\ UNCHANGED <<ask, moves>>

\* An answer that comes when the view has moved on does to it what it would have done
\* to the view it was asked for.
LateNews ==
    /\ turn.late
    /\ page' = loseTurn(page)
    /\ turn' = [turn EXCEPT !.late = FALSE, !.torn = @ \/ turn.attached]
    /\ UNCHANGED <<ask, moves>>

\* `from' is the id of the first row the turn may draw in this view.
NextTurn(log, attached, from, spoilt) ==
    /\ ~turn.live /\ ~turn.attached /\ turn.n < MaxTurns /\ turn.emitted < MaxEvents
    /\ turn.pos = Len(turn.log) \/ turn.lost
    /\ turn' = [n |-> turn.n + 1, emitted |-> turn.emitted + 1, live |-> TRUE, log |-> log, pos |-> 0,
                attached |-> attached, from |-> from, spoilt |-> spoilt, gone |-> FALSE,
                late |-> turn.late, lost |-> turn.lost /\ ~attached, torn |-> turn.torn]

-----------------------------------------------------------------------------
\* The reader

\* send: the prompt is drawn before the server has seen it.
Send ==
    /\ moves < MaxMoves /\ moves' = moves + 1
    /\ ~ask.out /\ ~page.owns /\ turn.n < MaxTurns
    /\ page' = [addMsg(page, "user", page.next) EXCEPT
                   !.seg = NoSeg, !.activity = None, !.turnTop = None, !.skip = TRUE]
    /\ ask' = [out |-> TRUE, moved |-> FALSE, crossed |-> FALSE, prompt |-> page.next]
    /\ UNCHANGED turn

SendStarted ==
    /\ ask.out /\ NextTurn(<<UserEvent(ask.prompt)>>, ~ask.moved,
                             IF ask.moved \/ ask.crossed THEN page.next ELSE ask.prompt, ask.crossed)
    /\ page' = IF ask.moved THEN [page EXCEPT !.skip = FALSE]
               ELSE showPending([page EXCEPT !.owns = TRUE])
    /\ ask' = [ask EXCEPT !.out = FALSE]
    /\ UNCHANGED moves

\* Refused: another tab's turn got there first.  The view may have moved on.
SendRefused ==
    /\ ask.out /\ turn.live
    /\ page' = [IF ask.moved THEN page ELSE dropLastUser(page) EXCEPT !.skip = FALSE]
    /\ ask' = [ask EXCEPT !.out = FALSE]
    /\ UNCHANGED <<turn, moves>>

\* The request failed: the echo is undone whatever view is up, and the flag stays.
SendFailed ==
    /\ ask.out
    /\ page' = dropLastUser(page)
    /\ ask' = [ask EXCEPT !.out = FALSE]
    /\ turn' = [turn EXCEPT !.spoilt = @ \/ ask.moved]
    /\ UNCHANGED moves

\* A background completion's turn, announced on the control channel; it has no
\* prompt, its first event is a note.  It goes on where a lost turn stopped.
Announced ==
    /\ NextTurn(<<[k |-> "note", id |-> None, st |-> ""]>>, TRUE, page.next, turn.lost)
    /\ page' = [page EXCEPT !.skip = FALSE, !.owns = TRUE]
    /\ ask' = [ask EXCEPT !.crossed = ask.out /\ ~ask.moved]
    /\ UNCHANGED moves

\* A row of the moment, which no replay draws: an approval that was answered, the
\* reply to a slash command, a conversation found empty.
Aside ==
    /\ moves < MaxMoves /\ moves' = moves + 1
    /\ page' = addMsg(page, "aside", None)
    /\ UNCHANGED <<turn, ask>>

\* openSession: the view is cleared, stored turns go to the history window (not
\* drawn here) and a live turn is replayed from its first event.  A question about
\* the stream of the view that is left may still be out.
Reopen ==
    /\ moves < MaxMoves /\ moves' = moves + 1
    /\ turn.n > 0
    /\ page' = [Blank EXCEPT !.next = page.next, !.todo = page.todo, !.raf = page.raf,
                             !.owns = turn.live,
                             !.skip = IF turn.live THEN FALSE ELSE page.skip]
    /\ \E out \in BOOLEAN :
          turn' = [turn EXCEPT !.pos = IF turn.live THEN 0 ELSE Len(turn.log),
                               !.attached = turn.live, !.from = page.next,
                               !.late = @ \/ (turn.attached /\ turn.gone /\ out),
                               !.lost = FALSE, !.torn = FALSE]
    /\ ask' = [ask EXCEPT !.moved = ask.out, !.crossed = FALSE]

Next == \/ \E e \in Events \cup {EndEvent} : Emit(e)
        \/ Deliver \/ Frame \/ Announced \/ Vanish \/ StreamGone \/ LateNews \/ Aside
        \/ Send \/ SendStarted \/ SendRefused \/ SendFailed
        \/ Reopen

Spec == Init /\ [][Next]_vars

-----------------------------------------------------------------------------
\* Properties

\* The rows of the current turn in their order, less the pending row, the task card
\* (which may be an earlier turn's) and asides, and what they say.
Own(v, from) ==
    {i \in DOMAIN v.rows : v.rows[i].id >= from /\ v.rows[i].kind \notin {"pending", "todo", "aside"}}
Rank(S, i) == Cardinality({j \in S : j <= i})
Says(r) == <<r.kind, r.prompt, r.text, r.tools>>
ReadsAs(v, S, w, T) ==
    /\ Cardinality(S) = Cardinality(T)
    /\ \A i \in S : \E j \in T : Rank(S, i) = Rank(T, j) /\ Says(v.rows[i]) = Says(w.rows[j])

\* The events of a turn drawn one after another into an empty view that owns it.
Fresh == [Blank EXCEPT !.owns = TRUE]
Replay(log) ==
    LET view[i \in 0..Len(log)] == IF i = 0 THEN Fresh ELSE draw(view[i - 1], log[i])
    IN  view[Len(log)]

\* However a turn was followed, from an echo, an announcement or a replay after
\* the view was reopened in its middle, with sends refused or failed meanwhile,
\* it reads as a replay of its events into an empty view does: nothing twice,
\* nothing missing, and nothing between its rows but asides.  (Excepted, as spoilt: a
\* turn on screen when a send failed after the view had moved, whose undo takes a row
\* of the view it finds; the turn of a send whose echo an announced turn had covered:
\* that prompt is drawn twice; a lost turn, and one announced where it stopped.)
ReplayFaithful ==
    turn.n > 0 /\ turn.pos = Len(turn.log) /\ (turn.attached \/ turn.from < page.next)
        /\ ~ask.out /\ ~turn.spoilt
        => LET again == Replay(turn.log)
               own == Own(page, turn.from)
           IN  own = {} \/ ReadsAs(page, own, again, Own(again, 1))

\* No answer is left half painted once its segment is closed.
NothingUnpainted ==
    \A i \in Kind(page, "bot") :
        page.rows[i].id # page.seg.row => page.rows[i].painted = page.rows[i].text

\* The work of a turn stands above its answers (unless its first answer was of
\* blanks and has been taken away).
WorkAbove ==
    Has(page, page.activity) /\ Has(page, page.turnTop)
        => \A i \in Kind(page, "bot") :
               page.rows[i].id >= turn.from => At(page, page.activity) < i

\* At most one pending row, and none in a view whose turn has ended.  (Excepted: a
\* lost turn's stays until the next turn's first words.)
PendingHonest ==
    Cardinality(Kind(page, "pending")) <= IF turn.attached \/ turn.lost THEN 1 ELSE 0

\* (Excepted: a view in which a late answer closed a turn that goes on, until reopened.)
TranscriptFaithful ==
    turn.torn \/ (ReplayFaithful /\ NothingUnpainted /\ WorkAbove /\ PendingHonest)

-----------------------------------------------------------------------------
\* The inductive invariant behind TranscriptFaithful

Kinds == {"user", "bot", "activity", "todo", "note", "pending", "aside"}
Lines == [id : Nat \ {0}, kind : Kinds, prompt : Nat, text : Nat, painted : Nat,
          tools : [ToolIds -> {"", "running", "completed"}]]
Pages == [rows : Seq(Lines), seg : [kind : {"none", "think", "out"}, row : Nat, text : Nat],
          tools : [ToolIds -> Nat], activity : Nat, turnTop : Nat, todo : Nat,
          skip : BOOLEAN, owns : BOOLEAN, raf : BOOLEAN, next : Nat \ {0}]
Logged == [k : {"user", "thought", "token", "blank", "tool", "todo", "note", "end"},
           id : Nat \cup ToolIds, st : {"", "running", "completed"}]
TurnStates == [n : Nat, emitted : Nat, live : BOOLEAN, log : Seq(Logged), pos : Nat,
               attached : BOOLEAN, from : Nat, spoilt : BOOLEAN, gone : BOOLEAN,
               late : BOOLEAN, lost : BOOLEAN, torn : BOOLEAN]
AskStates == [out : BOOLEAN, moved : BOOLEAN, crossed : BOOLEAN, prompt : Nat]

Ids(v) == {v.rows[i].id : i \in DOMAIN v.rows}
Line(v, a) == v.rows[At(v, a)]
Before(v, a, b) == At(v, a) < At(v, b)

\* Rows have numbers of their own, and what refers to them refers to no row to come.
Formed(v) ==
    /\ v \in Pages
    /\ \A i, j \in DOMAIN v.rows : v.rows[i].id = v.rows[j].id => i = j
    /\ \A i \in DOMAIN v.rows : v.rows[i].id < v.next
    /\ v.seg.row < v.next /\ v.activity < v.next /\ v.turnTop < v.next /\ v.todo < v.next
    /\ \A t \in ToolIds : v.tools[t] < v.next

\* Tokens go to an answer, thoughts to the activity row; one row is pending at most.
Drawn(v) ==
    /\ \A a \in Ids(v) : Line(v, a).kind = "bot" /\ a # v.seg.row => Line(v, a).painted = Line(v, a).text
    /\ v.seg.kind = "out" => v.seg.row \in Ids(v) /\ Line(v, v.seg.row).kind = "bot"
    /\ v.seg.kind = "think" => v.seg.row \in Ids(v) /\ Line(v, v.seg.row).kind = "activity"
    /\ v.seg.kind = "none" => v.seg = NoSeg
    /\ v.activity \in Ids(v) => Line(v, v.activity).kind = "activity"
    /\ \A t \in ToolIds : v.tools[t] \in Ids(v) => Line(v, v.tools[t]).kind = "activity"
    /\ \A a, b \in Ids(v) : Line(v, a).kind = "pending" /\ Line(v, b).kind = "pending" => a = b

\* turnTop is the first answer of the turn, and the activity row is above it.
Topped(v, from) ==
    /\ v.turnTop = None /\ v.owns => \A a \in Ids(v) : Line(v, a).kind = "bot" => a < from
    /\ v.turnTop \in Ids(v) =>
          /\ \A a \in Ids(v) : Line(v, a).kind = "bot" /\ a >= from => ~Before(v, a, v.turnTop)
          /\ v.activity \in Ids(v) => Before(v, v.activity, v.turnTop)

Good(v, from) == Formed(v) /\ Drawn(v) /\ Topped(v, from)

\* What the turn has drawn, less the echo x of a prompt that is not its own.
Mine(v, from, x) ==
    {a \in Ids(v) : a >= from /\ a # x /\ Line(v, a).kind \notin {"pending", "todo", "aside"}}

\* Two views draw a turn alike: m takes the rows of one to those of the other.
Alike(m, v, F, w, G) ==
    /\ m \in [F -> G]
    /\ \A a, b \in F : m[a] = m[b] => a = b
    /\ \A b \in G : \E a \in F : m[a] = b
    /\ \A a, b \in F : Before(v, a, b) <=> Before(w, m[a], m[b])
    /\ \A a \in F : Says(Line(v, a)) = Says(Line(w, m[a]))

Refers(m, v, F, w, G, a, b) ==
    /\ a = None <=> b = None
    /\ a \in F => m[a] = b
    /\ (a \in Ids(v) => a \in F) /\ (b \in Ids(w) => b \in G) /\ (a \in F <=> b \in G)

Follows(m, v, F, w, G) ==
    /\ Alike(m, v, F, w, G)
    /\ v.seg.kind = w.seg.kind /\ v.seg.text = w.seg.text /\ v.owns = w.owns
    /\ Refers(m, v, F, w, G, v.seg.row, w.seg.row)
    /\ Refers(m, v, F, w, G, v.activity, w.activity)
    /\ Refers(m, v, F, w, G, v.turnTop, w.turnTop)
    /\ \A t \in ToolIds : Refers(m, v, F, w, G, v.tools[t], w.tools[t])

Same(v, from, x, w) ==
    /\ Good(w, 1)
    /\ \E m \in [Mine(v, from, x) -> Mine(w, 1, 0)] : Follows(m, v, Mine(v, from, x), w, Mine(w, 1, 0))

\* Nothing of a turn is under way on this page.
Idle(v) == v.seg = NoSeg /\ v.activity = None /\ v.turnTop = None /\ v.tools = NoTools

Echo == IF ask.out /\ ~ask.moved THEN ask.prompt ELSE None

\* A lost turn leaves its activity, its answer's place and its pending row behind, and
\* the next one finds them; a prompt puts that right.
PageInv ==
    /\ Good(page, turn.from)
    /\ turn \in TurnStates /\ turn.from <= page.next
    /\ turn.attached <=> page.owns
    /\ ~turn.attached => page.seg = NoSeg
    /\ ~turn.attached /\ ~turn.lost =>
          Idle(page) /\ \A a \in Ids(page) : Line(page, a).kind # "pending"
    /\ turn.attached /\ turn.pos = 0 =>
          /\ page.seg = NoSeg
          /\ Idle(page) \/ turn.spoilt \/ turn.log[1].k = "user"
          /\ \A a \in Ids(page) : Line(page, a).kind = "bot" => a < turn.from

LogInv ==
    /\ turn.pos <= Len(turn.log)
    /\ \A i \in DOMAIN turn.log : /\ \/ turn.log[i] \in Events \cup {EndEvent}
                                     \/ i = 1 /\ turn.log[i].id \in Nat /\ turn.log[i] = UserEvent(turn.log[i].id)
                                  /\ turn.log[i] = EndEvent => i = Len(turn.log) /\ ~turn.live
    /\ turn.attached \/ turn.live => Len(turn.log) > 0
    /\ turn.gone => ~turn.live
    /\ ~turn.live /\ ~turn.gone /\ Len(turn.log) > 0 => turn.log[Len(turn.log)] = EndEvent
    /\ turn.pos = Len(turn.log) /\ ~turn.gone => (turn.attached <=> turn.live)
    /\ turn.lost => ~turn.attached /\ (turn.spoilt \/ turn.pos < Len(turn.log))

\* The echo of a send is the last prompt on its page, and the page's last row but for
\* asides until a turn is announced under it.
AskInv ==
    /\ ask \in AskStates
    /\ ask.out /\ ~ask.moved =>
          /\ ask.prompt \in Ids(page) /\ Line(page, ask.prompt).kind = "user"
          /\ \A a \in Ids(page) : Line(page, a).kind = "user" => ~Before(page, ask.prompt, a)
          /\ turn.attached => turn.log[1].k # "user"
          /\ ask.crossed => ask.prompt < turn.from
          /\ ~ask.crossed =>
                /\ ~turn.attached /\ page.skip
                /\ \A a \in Ids(page) : a <= ask.prompt \/ Line(page, a).kind = "aside"
                /\ Says(Line(page, ask.prompt)) = Says(Row(None, "user", ask.prompt))

\* A turn that begins under its own echo.
Echoed ==
    /\ turn.pos = 0 /\ page.skip /\ turn.log[1] = UserEvent(turn.from) /\ turn.from > 0
    /\ Mine(page, turn.from, None) = {turn.from}
    /\ Says(Line(page, turn.from)) = Says(Row(None, "user", turn.from)) /\ ~ask.out

\* w is what the events so far draw into an empty view.
FollowInv(w) ==
    ~turn.spoilt =>
        /\ turn.attached =>
              \/ Echoed
              \/ /\ Same(page, turn.from, Echo, w)
                 /\ turn.pos = 0 /\ turn.log[1].k = "user" =>
                       ~page.skip /\ \A a \in Ids(page) : Line(page, a).kind = "aside"
        /\ ~turn.attached =>
              \/ Mine(page, turn.from, Echo) = {}
              \/ turn.pos = Len(turn.log) /\ Same(page, turn.from, Echo, w)
=============================================================================
