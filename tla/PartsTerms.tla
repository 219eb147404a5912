----------------------------- MODULE PartsTerms -----------------------------
(***************************************************************************)
(* The words in which BrowserPartsProofs speaks of the parts of the page   *)
(* other than the transcript: the types of their records and the parts of  *)
(* their inductive invariants, of a state given as arguments.              *)
(***************************************************************************)
EXTENDS BrowserParts, Sequences

\* HistoryWindow: stretches that make up another, and the window's record.
Joined(s, t, u) == s \o t = u
Cut(s, i, j, u) == SubSeq(s, i, j) = u
WindowType == [id : Nat, items : Seq(Nat), before : BOOLEAN, after : BOOLEAN,
               error : BOOLEAN, overtaken : BOOLEAN]

\* Rendering: a node of the answer.
Node == [is : {"source", "figure", "text", "image", "video", "broken", "link"},
         src : {"none", "parked", "set", "note"} \cup R!Themes, fetched : Nat]

\* Composer: what becomes of a picture, a post under way, the view.
FileFates == {"unpicked", "tray", "removed", "replaced", "sent", "foreign", "swept"}
Post == [text : C!Texts \cup {C!None}, file : C!Files \cup {C!None},
         sid : Sessions \cup {NoSession}, gen : Nat, login : {1, 2}]
Shown == [sid : Sessions \cup {NoSession}, gen : Nat, login : {1, 2}]

\* The drafts' half of the invariant, and the pictures'.
Drafts ==
    /\ box \in C!Texts \cup {C!None}
    /\ posts \subseteq Post
    /\ text \in [C!Texts -> C!Fates]
    /\ C!SentOnce /\ C!NeverEaten
Pictures ==
    /\ media \in [file : C!Files \cup {C!None}, st : {"none", "uploading", "ready", "error"}]
    /\ uploads \subseteq C!Files
    /\ file \in [C!Files -> FileFates]
    /\ C!PictureKept /\ C!TrayTrue

\* The fates of the texts tell of a text t where it is: box b, posts ps.
Accounted(fates, b, ps, t) ==
    /\ fates[t] \in C!Fates
    /\ (fates[t] = "box") <=> (b = t)
    /\ (fates[t] = "out") <=> (\E q \in ps : q.text = t)

\* EndpointPicker: the pins, the page, the send in flight.
Ids == Pinnable \cup {NoSession}
PinSeq == Seq(Ids \X Keys)
Alone(p) == \A i, j \in DOMAIN p : p[i][1] = p[j][1] => i = j
PageType == [keys : SUBSET Keys, choice : Keys \cup {E!NoKey}, sid : Ids, gen : Nat]
SentType == [on : BOOLEAN, id : Ids, key : Keys \cup {E!NoKey}, gen : Nat]

PickerFine ==
    /\ served \in SUBSET Keys /\ page \in PageType /\ last \in Keys \cup {E!NoKey}
    /\ sent \in SentType /\ away \in SUBSET Keys /\ disputed \in BOOLEAN
    /\ pins \in PinSeq /\ Alone(pins) /\ Len(pins) <= MaxPins
    /\ E!ListInv /\ E!PickerFollows

\* Board: the server, the view, the board and the requests out.
SrvType == [Boards -> [known : BOOLEAN, mode : B!Modes, locked : BOOLEAN,
                       running : BOOLEAN, grouped : BOOLEAN, stray : BOOLEAN]]
ViewType == [sid : Boards \cup {NoSession}, scope : B!Scopes \cup {NoScope}, gen : Nat]
BoardType == [sid : Boards \cup {NoSession}, scope : B!Scopes \cup {NoScope}, draft : Nat,
              mode : B!Modes, locked : BOOLEAN, saving : BOOLEAN, loading : BOOLEAN,
              mgen : Nat, gen : Nat, timer : BOOLEAN, open : BOOLEAN,
              drawn : SUBSET Boards, doubt : BOOLEAN]
LoadType == [sid : Boards, gen : Nat, ans : {B!NoMode} \cup [mode : B!Modes, locked : BOOLEAN]]
SaveType == [sid : Boards, gen : Nat, next : B!Modes, before : B!Modes,
             end : {"open", "ok", "error"}]
PollType == [sid : Boards \cup {NoSession}, gen : Nat, step : {"list", "listed", "detail"},
             groups : SUBSET Boards]

\* The parts of the invariant, of a server s, a view v and a board b.
OwnedBy(s, v, id) == id # NoSession /\ Owner[id] = v.scope /\ s[id].known
FollowsOK(s, v, b) ==
    /\ b.scope = v.scope
    /\ b.sid # NoSession => b.sid = v.sid
    /\ v.sid # NoSession => s[v.sid].known
GroupOK(s) == \A id \in Boards : s[id].grouped => s[id].locked
PollOK(s, v, b, ps) ==
    /\ \A r \in ps : r.gen <= b.gen
    /\ \A r \in ps : r.gen = b.gen =>
          /\ ~b.timer /\ r.sid = b.sid
          /\ \A id \in r.groups : OwnedBy(s, v, id) /\ s[id].grouped
    /\ \A r, q \in ps : r.gen = b.gen /\ q.gen = b.gen => r = q
    /\ ~b.timer => \E r \in ps : r.gen = b.gen
LoadOK(s, b, ls) ==
    \A r \in ls :
        /\ r.gen <= b.mgen
        /\ r.ans.locked => s[r.sid].locked
        /\ r.gen = b.mgen =>
              /\ ~b.saving /\ r.sid = b.sid
              /\ r.ans # B!NoMode /\ ~s[r.sid].stray => r.ans.mode = s[r.sid].mode
SaveOK(s, b, rs) ==
    \A r \in rs :
        /\ r.gen <= b.mgen
        /\ r.gen = b.mgen =>
              /\ b.saving /\ r.sid = b.sid
              /\ b.mode = r.next \/ (s[r.sid].locked /\ b.mode = s[r.sid].mode)
              /\ r.end = "ok" /\ ~s[r.sid].stray => s[r.sid].mode = r.next
ModeOK(s, b) ==
    b.sid # NoSession /\ ~b.loading /\ ~b.saving /\ ~b.doubt /\ ~s[b.sid].stray =>
        b.mode = s[b.sid].mode
DrawnOK(s, v, b) == b.drawn \subseteq {b.sid} /\ \A id \in b.drawn : OwnedBy(s, v, id)
LockOK(s, b) == b.locked => b.sid # NoSession /\ s[b.sid].locked

\* A board that a poll leaves as it is, but for its polls.
OnlyPolled(b, c) ==
    /\ c.sid = b.sid /\ c.scope = b.scope /\ c.mode = b.mode /\ c.locked = b.locked
    /\ c.saving = b.saving /\ c.loading = b.loading /\ c.drawn = b.drawn
    /\ c.doubt = b.doubt /\ c.mgen = b.mgen

BoardFine ==
    /\ srv \in SrvType /\ view \in ViewType /\ board \in BoardType
    /\ loads \subseteq LoadType /\ saves \subseteq SaveType /\ polls \subseteq PollType
    /\ FollowsOK(srv, view, board) /\ GroupOK(srv) /\ PollOK(srv, view, board, polls)
    /\ LoadOK(srv, board, loads) /\ SaveOK(srv, board, saves) /\ ModeOK(srv, board)
    /\ DrawnOK(srv, view, board) /\ LockOK(srv, board)

\* Boards that differ only in whether they are open, and for which draft they are.
Alike(b, c) ==
    /\ c.sid = b.sid /\ c.scope = b.scope /\ c.mode = b.mode /\ c.locked = b.locked
    /\ c.saving = b.saving /\ c.loading = b.loading /\ c.drawn = b.drawn /\ c.doubt = b.doubt
    /\ c.mgen = b.mgen /\ c.gen = b.gen /\ c.timer = b.timer

\* What was asked for before does not count any more.
Behind(b, ls, rs) ==
    /\ \A r \in ls : r.gen <= b.mgen
    /\ \A r \in rs : r.gen <= b.mgen
=============================================================================
