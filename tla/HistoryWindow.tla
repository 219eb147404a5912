--------------------------- MODULE HistoryWindow ---------------------------
(***************************************************************************)
(* The stored part of the transcript on screen (src/webui/static/app.js):  *)
(* a window of at most WindowSize rows, grown by pages at either end, and  *)
(* the refresh that moves a finished turn's live rows into it.  Rows are   *)
(* numbered in the order of the store, which is also their cursor; a turn  *)
(* stores two.                                                             *)
(***************************************************************************)
EXTENDS Integers, Sequences, FiniteSets, Functions

CONSTANTS PageSize,    \* rows the server returns at once (40)
          WindowSize,  \* rows the window keeps (120)
          FirstRows,   \* rows stored when the conversation is opened
          MaxTurns,    \* turns that end while it is on screen
          MaxMoves     \* reopenings, page loads and scrolls

VARIABLES
    store,   \* rows stored
    w,       \* messageWindow
    load,    \* loadMessagePage's request
    tail,    \* refreshMessageTail's request
    turn,    \* how many turns began; whether the current one runs, is stored, is over
    live,    \* the rows drawn by turns, outside the window
    view,    \* the view's generation, the transcript's revision, where the reader is
    moves    \* spent of MaxMoves

vars == <<store, w, load, tail, turn, live, view, moves>>

Rows(lo, hi) == [i \in 1..(hi - lo + 1) |-> lo + i - 1]
Larger(x, y) == IF x > y THEN x ELSE y
Smaller(x, y) == IF x < y THEN x ELSE y
NoLoad == [dir |-> "none", cursor |-> 0, read |-> FALSE,
           items |-> <<>>, before |-> FALSE, after |-> FALSE]
NoTail == [on |-> FALSE, gen |-> 0, rev |-> 0, turn |-> 0, win |-> 0, first |-> 0, upto |-> 0]
Spend == moves < MaxMoves /\ moves' = moves + 1

\* The page the server returns for a cursor, and whether there is more beyond it.
PageOf(lo, hi, n) == [items |-> Rows(lo, hi), before |-> lo <= hi /\ lo > 1,
                      after |-> lo <= hi /\ hi < n]
history_page(dir, cursor, n) ==
    CASE dir = "before" -> PageOf(Larger(1, cursor - PageSize), cursor - 1, n)
      [] dir = "after"  -> PageOf(cursor + 1, Smaller(n, cursor + PageSize), n)
      [] dir = "tail"   -> PageOf(Larger(1, n - PageSize + 1), n, n)

First(win) == IF win.items = <<>> THEN 0 ELSE Head(win.items)
End(win) == IF win.items = <<>> THEN 0 ELSE win.items[Len(win.items)]

\* A new window aborts the page load of the one before (load' = NoLoad below).
installMessageWindow(id, page) ==
    [id |-> id, items |-> page.items, before |-> page.before, after |-> page.after,
     error |-> FALSE, overtaken |-> FALSE]

Init == /\ store = FirstRows
        /\ w = installMessageWindow(1, history_page("tail", 0, FirstRows))
        /\ load = NoLoad /\ tail = NoTail
        /\ turn = [n |-> 0, st |-> "over"]
        /\ live = {}
        /\ view = [gen |-> 0, rev |-> 0, at |-> "tail"]
        /\ moves = 0

-----------------------------------------------------------------------------
\* A turn of the conversation on screen

\* Its prompt is drawn: the transcript has a new revision.
TurnStart ==
    /\ turn.st = "over" /\ turn.n < MaxTurns
    /\ turn' = [n |-> turn.n + 1, st |-> "running"]
    /\ live' = live \cup {store + 1, store + 2}
    /\ view' = [view EXCEPT !.rev = @ + 1]
    /\ UNCHANGED <<store, w, load, tail, moves>>

TurnStored ==
    /\ turn.st = "running"
    /\ store' = store + 2 /\ turn' = [turn EXCEPT !.st = "stored"]
    /\ UNCHANGED <<w, load, tail, live, view, moves>>

\* refreshMessageTail, up to its await: a reader of the history keeps the window
\* and loses the live rows, which the forward cursor now leads to.
AtTail == ~w.after /\ view.at = "tail"
ReadingHistory == w.after \/ (w.items # <<>> /\ view.at = "history")

TurnEnd ==
    /\ turn.st = "stored" /\ turn' = [turn EXCEPT !.st = "over"]
    /\ IF ~AtTail /\ ReadingHistory
       THEN /\ live' = {}
            /\ w' = [w EXCEPT !.after = TRUE, !.overtaken = load.dir = "after"]
            /\ UNCHANGED tail
       ELSE /\ tail' = [on |-> TRUE, gen |-> view.gen, rev |-> view.rev, turn |-> turn.n,
                        win |-> w.id, first |-> First(w), upto |-> 0]
            /\ UNCHANGED <<live, w>>
    /\ UNCHANGED <<store, load, view, moves>>

TailRead ==
    /\ tail.on /\ tail.upto = 0
    /\ tail' = [tail EXCEPT !.upto = store]
    /\ UNCHANGED <<store, w, load, turn, live, view, moves>>

\* Mutant of TailApply: only the view's generation is compared.
TailApply_generation ==
    /\ tail.on /\ tail.upto > 0 /\ tail' = NoTail
    /\ IF tail.gen = view.gen
       THEN /\ w' = installMessageWindow(w.id + 1, history_page("tail", 0, tail.upto))
            /\ live' = {} /\ load' = NoLoad
       ELSE UNCHANGED <<w, live, load>>
    /\ UNCHANGED <<store, turn, view, moves>>

\* The tail replaces window and live rows, unless anything moved meanwhile.
TailApply ==
    /\ tail.on /\ tail.upto > 0 /\ tail' = NoTail
    /\ IF /\ tail.gen = view.gen /\ tail.rev = view.rev /\ tail.turn = turn.n
          /\ turn.st = "over" /\ tail.win = w.id /\ tail.first = First(w)
       THEN /\ w' = installMessageWindow(w.id + 1, history_page("tail", 0, tail.upto))
            /\ live' = {} /\ load' = NoLoad
       ELSE UNCHANGED <<w, live, load>>
    /\ UNCHANGED <<store, turn, view, moves>>

-----------------------------------------------------------------------------
\* The reader

\* openSession: the latest page, and the live turn replayed below it.
Reopen ==
    /\ Spend
    /\ w' = installMessageWindow(w.id + 1, history_page("tail", 0, store))
    /\ load' = NoLoad
    /\ live' = IF turn.st = "running" THEN {store + 1, store + 2} ELSE {}
    /\ turn' = IF turn.st = "stored" THEN [turn EXCEPT !.st = "over"] ELSE turn
    /\ view' = [gen |-> view.gen + 1, rev |-> view.rev, at |-> "tail"]
    /\ UNCHANGED <<store, tail>>

Scroll(at) ==
    /\ view.at # at /\ Spend
    /\ view' = [view EXCEPT !.at = at]
    /\ UNCHANGED <<store, w, load, tail, turn, live>>

loadMessagePage(dir) ==
    /\ load.dir = "none" /\ w.items # <<>>
    /\ IF dir = "before" THEN w.before ELSE w.after
    /\ Spend
    /\ load' = [NoLoad EXCEPT !.dir = dir,
                              !.cursor = IF dir = "before" THEN First(w) ELSE End(w)]
    /\ w' = [w EXCEPT !.error = FALSE]
    /\ UNCHANGED <<store, tail, turn, live, view>>

LoadRead ==
    /\ load.dir # "none" /\ ~load.read
    /\ LET page == history_page(load.dir, load.cursor, store)
       IN  load' = [load EXCEPT !.read = TRUE, !.items = page.items,
                                !.before = page.before, !.after = page.after]
    /\ UNCHANGED <<store, w, tail, turn, live, view, moves>>

LoadFail ==
    /\ load.dir # "none" /\ load' = NoLoad
    /\ w' = [w EXCEPT !.error = TRUE]
    /\ UNCHANGED <<store, tail, turn, live, view, moves>>

\* A page adds the rows the window does not have.
Added(win, items) ==
    IF Range(items) \cap Range(win.items) = {} THEN items
    ELSE SelectSeq(items, LAMBDA c : c \notin Range(win.items))

earlier(win, page) ==
    LET all == Added(win, page.items) \o win.items
        trimmed == Len(all) > WindowSize
    IN  [win EXCEPT !.items = IF trimmed THEN SubSeq(all, 1, WindowSize) ELSE all,
                    !.before = page.before, !.after = @ \/ trimmed]

later(win, page) ==
    LET all == win.items \o Added(win, page.items)
        trimmed == Len(all) > WindowSize
    IN  [win EXCEPT !.items = IF trimmed THEN SubSeq(all, Len(all) - WindowSize + 1, Len(all))
                              ELSE all,
                    !.before = @ \/ trimmed, !.after = page.after]

LoadApply ==
    /\ load.read /\ load' = NoLoad
    /\ w' = IF load.dir = "before" THEN earlier(w, load) ELSE later(w, load)
    /\ UNCHANGED <<store, tail, turn, live, view, moves>>

Next == \/ TurnStart \/ TurnStored \/ TurnEnd \/ TailRead \/ TailApply
        \/ Reopen
        \/ \E at \in {"tail", "live", "history"} : Scroll(at)
        \/ \E dir \in {"before", "after"} : loadMessagePage(dir)
        \/ LoadRead \/ LoadFail \/ LoadApply

Spec == Init /\ [][Next]_vars

-----------------------------------------------------------------------------
\* Properties

\* The window is a stretch of the store without holes or repetitions.
Contiguous ==
    /\ Len(w.items) <= WindowSize
    /\ w.items # <<>> => w.items = Rows(First(w), End(w)) /\ End(w) <= store

\* What lies before it can be paged in.
EarlierReachable == First(w) > 1 => w.before

\* What lies after it is drawn live or can be paged in.
LaterReachable == \A r \in (End(w) + 1)..store : r \in live \/ w.after

\* The same, but for a turn that ended while the page after the window was on its
\* way: LaterReachable does not hold then.
LaterReachableUnlessOvertaken == ~w.overtaken => LaterReachable

WindowFaithful == Contiguous /\ EarlierReachable /\ LaterReachableUnlessOvertaken

-----------------------------------------------------------------------------
\* The inductive invariant behind WindowFaithful

TypeInv ==
    /\ store \in Nat
    /\ w \in [id : Nat, items : Seq(Nat), before : BOOLEAN, after : BOOLEAN,
              error : BOOLEAN, overtaken : BOOLEAN]
    /\ load \in [dir : {"none", "before", "after"}, cursor : Nat, read : BOOLEAN,
                 items : Seq(Nat), before : BOOLEAN, after : BOOLEAN]
    /\ tail \in [on : BOOLEAN, gen : Nat, rev : Nat, turn : Nat, win : Nat, first : Nat,
                 upto : Nat]
    /\ turn \in [n : Nat, st : {"running", "stored", "over"}]
    /\ view \in [gen : Nat, rev : Nat, at : {"tail", "live", "history"}]

\* The rows a running turn will store are drawn.
LiveInv == turn.st = "running" => store + 1 \in live /\ store + 2 \in live

\* A window that has rows has them in their order.
WindowInv == w.items # <<>> => 1 <= First(w) /\ First(w) <= End(w)

\* While a page is on its way the window keeps the row it was asked for from, and
\* what a page without a sequel leaves out is drawn live.
LoadInv ==
    /\ load.dir = "none" => ~load.read
    /\ load.dir # "none" => w.items # <<>>
    /\ load.dir = "before" =>
          /\ load.cursor = First(w)
          /\ load.read => LET lo == Larger(1, load.cursor - PageSize) IN
                /\ load.items = Rows(lo, load.cursor - 1)
                /\ lo > 1 => load.before
    /\ load.dir = "after" =>
          /\ load.cursor = End(w) /\ w.after
          /\ load.read => \E hi \in load.cursor .. store :
                /\ hi - load.cursor <= PageSize
                /\ load.items = Rows(load.cursor + 1, hi)
                /\ ~load.after /\ ~w.overtaken => \A r \in (hi + 1)..store : r \in live

\* A refresh of the last turn reads all there is, and its turn is over.
TailInv ==
    tail.on => /\ tail.turn <= turn.n
               /\ tail.turn = turn.n => turn.st = "over" /\ tail.upto \in {0, store}

IInv == TypeInv /\ LiveInv /\ WindowInv /\ LoadInv /\ TailInv /\ WindowFaithful
=============================================================================
