-------------------------- MODULE TranscriptTerms --------------------------
(***************************************************************************)
(* The words in which BrowserPartsProofs says why the transcript shows a   *)
(* turn faithfully: what a function of the renderer does to a view, what   *)
(* keeps a view sound, when two views draw a turn alike, and ReplayInv,    *)
(* the inductive invariant itself.  No state and no action is defined      *)
(* here: they are Transcript's, reached as T!.                             *)
(***************************************************************************)
EXTENDS PartsTerms

Rowed(v) == /\ v.rows \in Seq(T!Lines)
            /\ \A i, j \in DOMAIN v.rows : v.rows[i].id = v.rows[j].id => i = j

\* A row r comes, before the row t or at the end; a row x goes; a row becomes r.
Placed(v, u, r, t) ==
    /\ T!Ids(u) = T!Ids(v) \cup {r.id} /\ r.id \notin T!Ids(v) /\ T!Line(u, r.id) = r
    /\ \A a \in T!Ids(v) : T!Line(u, a) = T!Line(v, a)
    /\ \A a, b \in T!Ids(v) : T!Before(u, a, b) <=> T!Before(v, a, b)
    /\ \A a \in T!Ids(v) : /\ T!Before(u, r.id, a) <=> t \in T!Ids(v) /\ ~T!Before(v, a, t)
                           /\ T!Before(u, a, r.id) <=> ~T!Before(u, r.id, a)

Gone(v, u, x) ==
    /\ T!Ids(u) = T!Ids(v) \ {x}
    /\ \A a \in T!Ids(u) : T!Line(u, a) = T!Line(v, a)
    /\ \A a, b \in T!Ids(u) : T!Before(u, a, b) <=> T!Before(v, a, b)

Turned(v, u, r) ==
    /\ T!Ids(u) = T!Ids(v) /\ r.id \in T!Ids(v) /\ T!Line(u, r.id) = r
    /\ \A a \in T!Ids(v) \ {r.id} : T!Line(u, a) = T!Line(v, a)
    /\ \A a, b \in T!Ids(v) : T!Before(u, a, b) <=> T!Before(v, a, b)

\* Everything of a view but its rows and the next number.
Rest(v) == <<v.seg, v.tools, v.activity, v.turnTop, v.todo, v.skip, v.owns, v.raf>>

\* A view whose rows are in order, drawn for a turn from this number on.
Sound(v, from) ==
    T!Formed(v) /\ T!Drawn(v) /\ T!Topped(v, from) /\ from \in Nat /\ from <= v.next

\* The prompts stay as they are.
Steady(v, u) ==
    /\ v.next <= u.next /\ u.skip = v.skip /\ u.owns = v.owns
    /\ \A a \in T!Ids(v) : T!Line(v, a).kind = "user" => a \in T!Ids(u) /\ T!Line(u, a) = T!Line(v, a)
    /\ \A a \in T!Ids(u) : T!Line(u, a).kind = "user" => a \in T!Ids(v) /\ T!Line(v, a).kind = "user"
    /\ \A a, b \in T!Ids(v) : T!Line(v, a).kind = "user" /\ T!Line(v, b).kind = "user"
                                 => (T!Before(u, a, b) <=> T!Before(v, a, b))

\* Thoughts go to the activity row from here.
AtThought(v) == [v EXCEPT !.seg = [kind |-> "think", row |-> v.activity, text |-> 0]]

\* A predicate of a view, where the field would be a truth value.
Owning(v) == v.owns

\* A new answer, opened for tokens; the first of the turn is its top.
AtAnswer(v, top) ==
    [T!addMsg(v, "bot", 0) EXCEPT !.turnTop = top, !.seg = [kind |-> "out", row |-> v.next, text |-> 0]]

\* What a tool call shows goes to the row of the activity it began under.
Bind(v, k) == [v EXCEPT !.tools[k] = v.activity]

Marking(b, k, st) == T!WithRow(b, b.tools[k], LAMBDA r : [r EXCEPT !.tools[k] = st])

Told(l, k, st) == [l EXCEPT !.tools[k] = st]

\* The turn is over.
Quieted(v) == [T!NewTurn(v) EXCEPT !.owns = FALSE]

\* What happens to other rows than those of the turn.
Keeps(v, vv, F) ==
    /\ F \subseteq T!Ids(v) /\ F \subseteq T!Ids(vv)
    /\ \A a \in F : T!Says(T!Line(vv, a)) = T!Says(T!Line(v, a))
    /\ \A a, b \in F : T!Before(vv, a, b) <=> T!Before(v, a, b)

Less(S, y, Q) == Q = S \ {y}

\* m pairs what the two views remember of rows.
Matched(m, v, F, u, G) ==
    /\ T!Refers(m, v, F, u, G, v.activity, u.activity)
    /\ T!Refers(m, v, F, u, G, v.turnTop, u.turnTop)
    /\ \A t \in ToolIds : T!Refers(m, v, F, u, G, v.tools[t], u.tools[t])

\* The page draws the turn like the replay u, but for the row x the composer put there.
Paired(v, from, x, u) ==
    /\ Sound(v, from) /\ Sound(u, 1) /\ x \in Nat /\ x < v.next
    /\ \E m \in [T!Mine(v, from, x) -> T!Mine(u, 1, 0)] :
          T!Follows(m, v, T!Mine(v, from, x), u, T!Mine(u, 1, 0))

\* A pair of rows that the two views name alike, or the new pair a, b.
OneOf(v, u, a, b, c, d) ==
    \/ c = 0 /\ d = 0
    \/ c = a /\ d = b
    \/ c = v.seg.row /\ d = u.seg.row
    \/ c = v.activity /\ d = u.activity
    \/ c = v.turnTop /\ d = u.turnTop
    \/ \E t \in ToolIds : c = v.tools[t] /\ d = u.tools[t]

\* After a step the rows still pair, and those that OneOf names with each other.
Linked(v, u, a, b, vv, from, x, uu) ==
    \E n \in [T!Mine(vv, from, x) -> T!Mine(uu, 1, 0)] :
       /\ T!Alike(n, vv, T!Mine(vv, from, x), uu, T!Mine(uu, 1, 0))
       /\ \A c, d : OneOf(v, u, a, b, c, d)
                       => T!Refers(n, vv, T!Mine(vv, from, x), uu, T!Mine(uu, 1, 0), c, d)

\* A view after a step: still sound, the prompts as they were.
Moved(v, from, u) == Sound(v, from) /\ Sound(u, from) /\ Steady(v, u)

\* The open segment grows, and its row with it.
ThoughtTo(s) ==
    LET t == [s EXCEPT !.seg.text = @ + 1]
    IN  T!WithRow(t, t.seg.row, LAMBDA r : [r EXCEPT !.text = t.seg.text, !.painted = t.seg.text])

TokenTo(s, n) ==
    LET t == [s EXCEPT !.seg.text = @ + n, !.raf = TRUE]
    IN  T!WithRow(t, t.seg.row, LAMBDA r : [r EXCEPT !.text = t.seg.text])

\* What is written, on one side.
Grew(v, from, u, k, n, r) ==
    /\ Moved(v, from, u) /\ Turned(v, u, r) /\ u.next = v.next /\ u.tools = v.tools
    /\ u.activity = v.activity /\ u.turnTop = v.turnTop /\ u.owns = v.owns
    /\ u.seg.kind = k /\ u.seg.row = v.seg.row /\ u.seg.text = n
    /\ r.id = v.seg.row /\ r.id \in T!Ids(v) /\ r.kind = T!Line(v, v.seg.row).kind

\* The segment a thought, a token is written to.
ForThought(c) == IF c.seg.kind = "think" THEN c ELSE T!newThinkSeg(T!finalizeSeg(c))

ForToken(v) == IF v.seg.kind = "out" THEN v ELSE T!newOutputSeg(T!finalizeSeg(v))

\* The row a tool call reports to, and its mark there.
Bound(a, k) == IF a.tools[k] = 0 THEN Bind(a, k) ELSE a

NoteEvent == [k |-> "note", id |-> 0, st |-> ""]

\* What of the invariant needs no replay.
TInv == T!PageInv /\ T!LogInv /\ T!AskInv

\* What is left of it in a view that a late answer has torn: reopening it needs no more.
Numbered(v) ==
    /\ v \in [rows : {v.rows}, seg : {v.seg}, tools : {v.tools}, activity : {v.activity},
              turnTop : {v.turnTop}, todo : Nat, skip : BOOLEAN, owns : BOOLEAN, raf : BOOLEAN,
              next : Nat \ {0}]
    /\ v.todo < v.next

TurnInv == T!LogInv /\ turn \in T!TurnStates /\ ask \in T!AskStates

TornInv == TurnInv /\ Numbered(page)

\* What the page shows of two turns is the same.
SameTurn(t, u) ==
    /\ u.log = t.log /\ u.pos = t.pos /\ u.attached = t.attached /\ u.from = t.from
    /\ u.spoilt = t.spoilt /\ u.lost = t.lost

TurnsOf(S) == [n : Nat, emitted : Nat, live : BOOLEAN, log : S, pos : Nat,
               attached : BOOLEAN, from : Nat, spoilt : BOOLEAN, gone : BOOLEAN,
               late : BOOLEAN, lost : BOOLEAN, torn : BOOLEAN]

\* A view with other flags.
FlagsOnly(v, u) ==
    /\ u \in T!Pages /\ u.rows = v.rows /\ u.next = v.next /\ u.seg = v.seg /\ u.activity = v.activity
    /\ u.turnTop = v.turnTop /\ u.tools = v.tools /\ u.todo = v.todo /\ u.raf = v.raf

\* A view whose turn is over, and one that differs from it in flags only.
Cleaned(v, n, t, r, b, s) ==
    [v EXCEPT !.next = n, !.todo = t, !.raf = r, !.owns = b, !.skip = s]

Clean(u, v, n, t, b, s) ==
    /\ u \in T!Pages /\ u.rows = v.rows /\ u.seg = v.seg /\ u.activity = v.activity
    /\ u.turnTop = v.turnTop /\ u.tools = v.tools /\ u.next = n /\ u.todo = t /\ u.owns = b /\ u.skip = s

\* f is what the events of the log draw one after another into an empty view.  The
\* invariant says of every such f what it needs to; that there is one at all is part
\* of it, as the log grows by an event at a time.
IsReplay(f, log) ==
    f = [i \in 0 .. Len(log) |-> IF i = 0 THEN T!Fresh ELSE T!draw(f[i - 1], log[i])]

ReplayInv ==
    /\ TornInv /\ (turn.torn \/ TInv)
    /\ \E f : IsReplay(f, turn.log)
    /\ turn.torn \/ \A f, d : IsReplay(f, turn.log) /\ d = f[turn.pos] => T!FollowInv(d)
=============================================================================
