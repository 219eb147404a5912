-------------------------------- MODULE Board --------------------------------
(***************************************************************************)
(* The board of the complex page (src/complex/static/board.js): how the    *)
(* conversation on screen is executed - alone, as a team, as a swarm - and *)
(* the panel that polls its task groups.  A request is a record in flight  *)
(* with the generation it was made under; the server answers it at one     *)
(* time and the page hears of it at another.                               *)
(***************************************************************************)
EXTENDS Integers

CONSTANTS Sessions,   \* conversation ids
          Owner,      \* [Sessions -> scopes]: whose conversation it is
          NoSession,  \* a draft
          NoScope,    \* the login is not known yet
          MaxMoves    \* what the reader does, and what goes wrong

Modes == {"single", "kanban"}
Scopes == {Owner[s] : s \in Sessions}
NoMode == [mode |-> "none", locked |-> FALSE]

VARIABLES
    srv,    \* per conversation: known, mode, locked, running, grouped; `stray': the mode
            \* was set by a choice of an earlier visit, or by a send that knew another
    view,   \* S: id on screen, login, view generation
    board,  \* the board's own state; `doubt': an error was shown instead of what the
            \* server has, which no answer has corrected yet
    loads,  \* GET mode requests
    saves,  \* POST mode requests
    polls,  \* refresh() calls between their awaits
    moves

vars == <<srv, view, board, loads, saves, polls, moves>>
Spend == moves < MaxMoves /\ moves' = moves + 1

Own(id) == id # NoSession /\ Owner[id] = view.scope /\ srv[id].known
owns == view.sid # NoSession /\ srv[view.sid].running
modeOf(id) == [mode |-> srv[id].mode, locked |-> srv[id].locked]

-----------------------------------------------------------------------------
\* paintMode: alone there is no board, once the mode is known.
painted(b) == [b EXCEPT !.open = @ /\ (b.loading \/ b.mode # "single")]

\* The two requests every change of session makes.

\* loadMode: nothing while a choice is being saved.
withLoad(b, ls) ==
    IF b.sid = NoSession \/ b.saving THEN [b |-> b, ls |-> ls]
    ELSE [b |-> [b EXCEPT !.mgen = @ + 1],
          ls |-> ls \cup {[sid |-> b.sid, gen |-> b.mgen + 1, ans |-> NoMode]}]

\* refresh: one poll, whatever timer was running.  Alone there is nothing to ask.
withPoll(b, ps) ==
    IF b.mode = "single" THEN [b |-> [b EXCEPT !.gen = @ + 1, !.timer = TRUE], ps |-> ps]
    ELSE [b |-> [b EXCEPT !.gen = @ + 1, !.timer = FALSE],
          ps |-> ps \cup {[sid |-> b.sid, gen |-> b.gen + 1, step |-> "list", groups |-> {}]}]

\* The conversation changed: everything is forgotten, except that the login
\* becoming known does not undo what the draft had chosen.
Entered(v) ==
    [board EXCEPT !.sid = v.sid, !.scope = v.scope, !.draft = v.gen,
                  !.mode = IF /\ board.scope = NoScope /\ v.scope # NoScope
                              /\ v.sid = NoSession /\ board.sid = NoSession
                              /\ board.draft = v.gen
                           THEN @ ELSE "single",
                  !.locked = FALSE, !.saving = FALSE, !.loading = v.sid # NoSession,
                  !.doubt = FALSE,
                  !.drawn = {}, !.mgen = @ + 1, !.gen = @ + 1]

syncSession(v) ==
    LET same == /\ v.sid = board.sid /\ v.scope = board.scope
                /\ v.sid # NoSession \/ board.draft = v.gen
        p == withPoll(Entered(v), polls)
        l == withLoad(IF same THEN board ELSE p.b, loads)
    IN  /\ board' = painted(l.b) /\ loads' = l.ls
        /\ polls' = IF same THEN polls ELSE p.ps

\* refresh() asked for by a click.
Refreshed(b) == LET p == withPoll(b, polls) IN board' = p.b /\ polls' = p.ps

-----------------------------------------------------------------------------
Init ==
    /\ srv \in {[s \in Sessions |-> [known |-> s \in K, mode |-> "single",
                    locked |-> FALSE, running |-> FALSE, grouped |-> FALSE,
                    stray |-> FALSE]] :
                    K \in SUBSET Sessions \ {Sessions}}
    /\ view = [sid |-> NoSession, scope |-> NoScope, gen |-> 0]
    /\ board = [sid |-> NoSession, scope |-> NoScope, draft |-> 0, mode |-> "single",
                locked |-> FALSE, saving |-> FALSE, loading |-> FALSE, mgen |-> 1,
                gen |-> 1, timer |-> TRUE, open |-> FALSE, drawn |-> {},
                doubt |-> FALSE]
    /\ loads = {} /\ saves = {} /\ polls = {} /\ moves = 0

\* renderSessions announces the view.
Listed == Spend /\ syncSession(view) /\ UNCHANGED <<srv, view, saves>>

Login(scope) ==
    /\ scope # view.scope /\ Spend
    /\ view' = [view EXCEPT !.scope = scope,
                            !.sid = IF view.scope = NoScope THEN @ ELSE NoSession,
                            !.gen = IF view.scope = NoScope THEN @ ELSE @ + 1]
    /\ syncSession(view') /\ UNCHANGED <<srv, saves>>

openSession(id) ==
    /\ Own(id) /\ id # view.sid /\ Spend
    /\ view' = [view EXCEPT !.sid = id, !.gen = @ + 1]
    /\ syncSession(view') /\ UNCHANGED <<srv, saves>>

newSession ==
    /\ view.sid # NoSession /\ Spend
    /\ view' = [view EXCEPT !.sid = NoSession, !.gen = @ + 1]
    /\ syncSession(view') /\ UNCHANGED <<srv, saves>>

\* A mode is chosen; a conversation tells the server, a draft just remembers.
chooseMode(next) ==
    /\ ~board.locked /\ ~board.saving /\ ~board.loading /\ ~owns
    /\ next # board.mode /\ Spend
    /\ IF board.sid = NoSession
       THEN /\ board' = painted([board EXCEPT !.mode = next, !.mgen = @ + 1])
            /\ UNCHANGED saves
       ELSE /\ board' = painted([board EXCEPT !.mode = next, !.saving = TRUE, !.mgen = @ + 1])
            /\ saves' = saves \cup {[sid |-> board.sid, gen |-> board.mgen + 1, next |-> next,
                                     before |-> board.mode, end |-> "open"]}
    /\ UNCHANGED <<srv, view, loads, polls>>

\* The server keeps the choice, or refuses it: a reply is running, or the
\* execution is fixed already.  The request or its answer may also be lost.
SaveServed(r) ==
    /\ r \in saves /\ r.end = "open"
    /\ LET s == srv[r.sid]
           taken == ~s.running /\ (s.locked => s.mode = r.next)
           kept == IF taken THEN [srv EXCEPT ![r.sid].mode = r.next,
                                             ![r.sid].stray = @ \/ r.gen # board.mgen] ELSE srv
       IN  \/ /\ srv' = kept
              /\ saves' = (saves \ {r}) \cup {[r EXCEPT !.end = IF taken THEN "ok" ELSE "error"]}
              /\ UNCHANGED moves
           \/ /\ Spend /\ saves' = (saves \ {r}) \cup {[r EXCEPT !.end = "error"]}
              /\ srv' \in {srv, kept}
    /\ UNCHANGED <<view, board, loads, polls>>

\* The page hears of it: an error puts the old choice back; either way it asks
\* what the server has now.  Another conversation has been entered: nothing.
Saved(r) ==
    /\ r \in saves /\ r.end # "open" /\ saves' = saves \ {r}
    /\ IF r.gen # board.mgen THEN UNCHANGED <<board, loads>>
       ELSE LET b == [board EXCEPT !.saving = FALSE,
                                   !.doubt = r.end = "error",
                                   !.mode = IF r.end = "error" THEN r.before ELSE @]
                l == withLoad(painted(b), loads)
            IN  board' = l.b /\ loads' = l.ls
    /\ UNCHANGED <<srv, view, polls, moves>>

LoadServed(r) ==
    /\ r \in loads /\ r.ans = NoMode
    /\ loads' = (loads \ {r}) \cup {[r EXCEPT !.ans = modeOf(r.sid)]}
    /\ UNCHANGED <<srv, view, board, saves, polls, moves>>

\* Mutant of Loaded: an answer is believed whenever it comes.
Loaded_late(r) ==
    /\ r \in loads /\ r.ans # NoMode /\ loads' = loads \ {r}
    /\ board' = [board EXCEPT !.mode = r.ans.mode, !.locked = r.ans.locked,
                                !.loading = FALSE, !.doubt = FALSE]
    /\ UNCHANGED <<srv, view, saves, polls, moves>>

\* The newest answer is believed; the first one of a conversation draws an open board.
Loaded(r) ==
    /\ r \in loads /\ r.ans # NoMode /\ loads' = loads \ {r}
    /\ LET b == painted([board EXCEPT !.mode = r.ans.mode, !.locked = r.ans.locked,
                                      !.loading = FALSE, !.doubt = FALSE])
       IN  CASE r.gen # board.mgen -> UNCHANGED <<board, polls>>
             [] r.gen = board.mgen /\ board.loading /\ b.open -> Refreshed(b)
             [] OTHER -> board' = b /\ UNCHANGED polls
    /\ UNCHANGED <<srv, view, saves, moves>>

LoadFailed(r) ==
    /\ r \in loads /\ Spend /\ loads' = loads \ {r}
    /\ UNCHANGED <<srv, view, board, saves, polls>>

-----------------------------------------------------------------------------
TimerFires ==
    /\ board.timer /\ Spend /\ Refreshed(board)
    /\ UNCHANGED <<srv, view, loads, saves>>

toggle ==
    /\ board.mode # "single" /\ Spend
    /\ Refreshed([board EXCEPT !.open = ~@])
    /\ UNCHANGED <<srv, view, loads, saves>>

PollServed(r) ==
    /\ r \in polls /\ r.step = "list"
    /\ polls' = (polls \ {r}) \cup
           {[r EXCEPT !.step = "listed", !.groups = {s \in Sessions : Own(s) /\ srv[s].grouped}]}
    /\ UNCHANGED <<srv, view, board, loads, saves, moves>>

\* A group fixes how its conversation is executed.  An open board asks for the
\* details; a hidden one waits for the timer.
PollListed(r) ==
    /\ r \in polls /\ r.step = "listed"
    /\ LET mine == r.sid \in r.groups
           b == IF mine THEN painted([board EXCEPT !.locked = TRUE, !.mode = srv[r.sid].mode])
                ELSE board
       IN  CASE r.gen # board.gen -> polls' = polls \ {r} /\ UNCHANGED board
             [] r.gen = board.gen /\ b.open ->
                   polls' = (polls \ {r}) \cup {[r EXCEPT !.step = "detail"]} /\ board' = b
             [] OTHER -> polls' = polls \ {r} /\ board' = [b EXCEPT !.timer = TRUE]
    /\ UNCHANGED <<srv, view, loads, saves, moves>>

\* The details are drawn; what is not of this conversation is an error.
PollDrawn(r) ==
    /\ r \in polls /\ r.step = "detail" /\ polls' = polls \ {r}
    /\ board' = IF r.gen = board.gen
                THEN [board EXCEPT !.timer = TRUE, !.drawn = r.groups \cap {r.sid}] ELSE board
    /\ UNCHANGED <<srv, view, loads, saves, moves>>

PollFailed(r) ==
    /\ r \in polls /\ Spend /\ polls' = polls \ {r}
    /\ board' = IF r.gen = board.gen THEN [board EXCEPT !.timer = TRUE] ELSE board
    /\ UNCHANGED <<srv, view, loads, saves>>

\* A drawn group is stopped; the board is asked for anew.
cancel ==
    /\ board.sid \in board.drawn /\ Spend /\ Refreshed(board)
    /\ UNCHANGED <<srv, view, loads, saves>>

-----------------------------------------------------------------------------
\* webuiChatContext: what lets a send go.
Sendable == view.scope # NoScope /\ ~board.loading /\ ~board.saving /\ ~owns

\* A send carries the mode; the server keeps it unless another one is fixed.
\* A draft becomes a conversation the board hears of with the next list.
send(id) ==
    /\ Sendable /\ Spend
    /\ IF view.sid = NoSession
       THEN /\ ~srv[id].known /\ Owner[id] = view.scope
            /\ view' = [view EXCEPT !.sid = id]
       ELSE /\ id = view.sid
            /\ srv[id].locked => srv[id].mode = board.mode
            /\ UNCHANGED view
    /\ srv' = [srv EXCEPT ![id].known = TRUE, ![id].running = TRUE, ![id].mode = board.mode,
                          ![id].stray = @ \/ (srv[id].known /\ srv[id].mode # board.mode)]
    /\ UNCHANGED <<board, loads, saves, polls>>

\* The run fixes the mode; a team is started by its coordinator; the turn ends.
TurnRuns(id) ==
    /\ srv[id].running
    /\ \/ ~srv[id].locked /\ srv' = [srv EXCEPT ![id].locked = TRUE]
       \/ /\ srv[id].locked /\ srv[id].mode = "kanban" /\ ~srv[id].grouped
          /\ srv' = [srv EXCEPT ![id].grouped = TRUE]
       \/ srv[id].locked /\ srv' = [srv EXCEPT ![id].running = FALSE]
    /\ UNCHANGED <<view, board, loads, saves, polls, moves>>

Next ==
    \/ Listed \/ newSession \/ TimerFires \/ toggle \/ cancel
    \/ \E u \in Scopes : Login(u)
    \/ \E id \in Sessions : openSession(id) \/ send(id) \/ TurnRuns(id)
    \/ \E m \in Modes : chooseMode(m)
    \/ \E r \in saves : SaveServed(r) \/ Saved(r)
    \/ \E r \in loads : LoadServed(r) \/ Loaded(r) \/ LoadFailed(r)
    \/ \E r \in polls : PollServed(r) \/ PollListed(r) \/ PollDrawn(r) \/ PollFailed(r)

Spec == Init /\ [][Next]_vars

-----------------------------------------------------------------------------
\* The board asks for news for ever and never twice at once: either its timer
\* runs or exactly one of its polls is out, whatever was clicked meanwhile.
PollsOnce == LET due == {r \in polls : r.gen = board.gen}
             IN  IF board.timer THEN due = {} ELSE \E r \in polls : due = {r}

\* What is drawn belongs to the conversation the board follows, and that one to
\* the login, however late a poll is answered.
DrawnHere == board.drawn \subseteq {board.sid} /\ \A s \in board.drawn : Own(s)

\* A send that may go carries the mode the server has for that conversation,
\* unless saving it failed and nothing was read since, or the server was told
\* otherwise by a choice of an earlier visit or by a send after such a failure.
ModeTrue == Sendable /\ board.sid = view.sid /\ board.sid # NoSession
                /\ ~board.doubt /\ ~srv[board.sid].stray => board.mode = srv[board.sid].mode

\* What is shown as fixed is fixed.
LockTrue == board.locked => board.sid # NoSession /\ srv[board.sid].locked

BoardFaithful == PollsOnce /\ DrawnHere /\ ModeTrue /\ LockTrue

-----------------------------------------------------------------------------
\* The inductive invariant behind BoardFaithful

TypeInv ==
    /\ srv \in [Sessions -> [known : BOOLEAN, mode : Modes, locked : BOOLEAN,
                             running : BOOLEAN, grouped : BOOLEAN, stray : BOOLEAN]]
    /\ view \in [sid : Sessions \cup {NoSession}, scope : Scopes \cup {NoScope}, gen : Nat]
    /\ board \in [sid : Sessions \cup {NoSession}, scope : Scopes \cup {NoScope}, draft : Nat,
                  mode : Modes, locked : BOOLEAN, saving : BOOLEAN, loading : BOOLEAN,
                  mgen : Nat, gen : Nat, timer : BOOLEAN, open : BOOLEAN,
                  drawn : SUBSET Sessions, doubt : BOOLEAN]
    /\ loads \subseteq [sid : Sessions, gen : Nat,
                        ans : {NoMode} \cup [mode : Modes, locked : BOOLEAN]]
    /\ saves \subseteq [sid : Sessions, gen : Nat, next : Modes, before : Modes,
                        end : {"open", "ok", "error"}]
    /\ polls \subseteq [sid : Sessions \cup {NoSession}, gen : Nat,
                        step : {"list", "listed", "detail"}, groups : SUBSET Sessions]

\* The board follows the view, but for a draft that has just become a conversation.
ViewInv ==
    /\ board.scope = view.scope
    /\ board.sid # NoSession => board.sid = view.sid
    /\ view.sid # NoSession => srv[view.sid].known

\* A group is only ever made in a fixed execution.
GroupInv == \A s \in Sessions : srv[s].grouped => srv[s].locked

\* One poll counts, unless the timer runs, and what it found is this login's.
PollInv ==
    /\ \A r \in polls : r.gen <= board.gen
    /\ \A r \in polls : r.gen = board.gen =>
          /\ ~board.timer /\ r.sid = board.sid
          /\ \A s \in r.groups : Own(s) /\ srv[s].grouped
    /\ \A r, q \in polls : r.gen = board.gen /\ q.gen = board.gen => r = q
    /\ ~board.timer => \E r \in polls : r.gen = board.gen

\* An answer that counts is what the server has, unless a stray choice came between.
LoadInv ==
    \A r \in loads :
        /\ r.gen <= board.mgen
        /\ r.ans.locked => srv[r.sid].locked
        /\ r.gen = board.mgen =>
              /\ ~board.saving /\ r.sid = board.sid
              /\ r.ans # NoMode /\ ~srv[r.sid].stray => r.ans.mode = srv[r.sid].mode

\* The choice that counts is the one the board shows, unless a poll has learnt of
\* the fixed execution meanwhile.
SaveInv ==
    \A r \in saves :
        /\ r.gen <= board.mgen
        /\ r.gen = board.mgen =>
              /\ board.saving /\ r.sid = board.sid
              /\ \/ board.mode = r.next
                 \/ srv[r.sid].locked /\ board.mode = srv[r.sid].mode
              /\ r.end = "ok" /\ ~srv[r.sid].stray => srv[r.sid].mode = r.next

\* At rest the board shows what the server has.
ModeInv ==
    board.sid # NoSession /\ ~board.loading /\ ~board.saving /\ ~board.doubt
        /\ ~srv[board.sid].stray => board.mode = srv[board.sid].mode

IInv == /\ TypeInv /\ ViewInv /\ GroupInv /\ PollInv /\ LoadInv /\ SaveInv /\ ModeInv
        /\ DrawnHere /\ LockTrue
=============================================================================
