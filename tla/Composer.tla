------------------------------ MODULE Composer ------------------------------
(***************************************************************************)
(* The box under the conversation (src/webui/static/app.js): the draft and *)
(* the picture beside it, the send that takes them away and may give them  *)
(* back, and the button that becomes Stop.  Requests are answered after    *)
(* the reader has typed, attached or gone elsewhere.                       *)
(***************************************************************************)
EXTENDS Integers, FiniteSets

CONSTANTS Sessions,  \* conversations with a row in the sidebar
          NoSession, \* the view of a conversation that does not exist yet
          MaxTexts,  \* drafts ever written
          MaxFiles,  \* pictures ever picked
          MaxMoves   \* what the reader does, and what goes wrong

Texts == 1..MaxTexts
Files == 1..MaxFiles
None == 0

VARIABLES
    box,      \* the draft in the input
    media,    \* S.pendingMedia: file and state
    uploads,  \* uploads in flight
    view,     \* id on screen, view generation, login
    running,  \* conversations with a turn
    busy,     \* S.busy and S.stopping
    posts,    \* sends in flight
    cancels,  \* conversations a stop is on its way to
    text,     \* history: what became of each draft
    file,     \* history: what became of each picture
    moves

vars == <<box, media, uploads, view, running, busy, posts, cancels, text, file, moves>>
Spend == moves < MaxMoves /\ moves' = moves + 1

NoMedia == [file |-> None, st |-> "none"]
owns == busy.on /\ view.sid \in running

Init ==
    /\ box = None /\ media = NoMedia /\ uploads = {}
    /\ view = [sid |-> NoSession, gen |-> 0, login |-> 1]
    /\ running \in SUBSET Sessions
    /\ busy = [on |-> FALSE, stopping |-> {}]
    /\ posts = {} /\ cancels = {}
    /\ text = [t \in Texts |-> "unwritten"] /\ file = [f \in Files |-> "unpicked"]
    /\ moves = 0

-----------------------------------------------------------------------------
\* setBusy: an idle view forgets that it was stopping; a busy one does not.
setBusy(on) == busy' = [on |-> on, stopping |-> IF on THEN busy.stopping ELSE {}]

Became(t, fate) == text' = IF t = None THEN text ELSE [text EXCEPT ![t] = fate]

\* The draft comes back unless something else has been written meanwhile.
restore(t) ==
    IF box = None THEN box' = t /\ Became(t, "box") ELSE Became(t, "displaced") /\ UNCHANGED box

\* The picture the caller means, if it is still there.  A caller that means none
\* takes whichever is there: a send without a picture sweeps a newer one away.
clearPendingMedia(expected, why) ==
    IF media.file = None \/ expected \notin {None, media.file} THEN UNCHANGED <<media, file>>
    ELSE media' = NoMedia /\ file' = [file EXCEPT ![media.file] = why]

-----------------------------------------------------------------------------
Write(t) ==
    /\ box = None /\ text[t] = "unwritten"
    /\ \A u \in Texts : u < t => text[u] # "unwritten"
    /\ box' = t /\ text' = [text EXCEPT ![t] = "box"] /\ Spend
    /\ UNCHANGED <<media, uploads, view, running, busy, posts, cancels, file>>

\* A picture replaces the one in the tray and starts uploading.
Pick(f) ==
    /\ file[f] = "unpicked" /\ \A g \in Files : g < f => file[g] # "unpicked"
    /\ uploads = {} /\ Spend                       \* the button waits for an upload
    /\ media' = [file |-> f, st |-> "uploading"] /\ uploads' = {f}
    /\ file' = [g \in Files |-> CASE g = f -> "tray"
                                  [] g = media.file /\ g # f -> "replaced"
                                  [] OTHER -> file[g]]
    /\ UNCHANGED <<box, view, running, busy, posts, cancels, text>>

\* The answer counts for the picture it is about, if that is still there.
Uploaded(f) ==
    /\ f \in uploads /\ uploads' = uploads \ {f}
    /\ \E st \in {"ready", "error"} :
           media' = IF media.file = f THEN [media EXCEPT !.st = st] ELSE media
    /\ UNCHANGED <<box, view, running, busy, posts, cancels, text, file, moves>>

Remove ==
    /\ media.file # None /\ Spend /\ clearPendingMedia(None, "removed")
    /\ UNCHANGED <<box, uploads, view, running, busy, posts, cancels, text>>

\* Not while a picture uploads or has failed to, nor while this view replies.
send ==
    /\ media.st \notin {"uploading", "error"} /\ ~owns /\ Spend
    /\ box # None \/ media.st = "ready"
    /\ posts' = posts \cup {[text |-> box, file |-> media.file, sid |-> view.sid,
                             gen |-> view.gen, login |-> view.login]}
    /\ box' = None /\ Became(box, "out")
    /\ UNCHANGED <<media, uploads, view, running, busy, cancels, file>>

Failed(p) ==
    /\ p \in posts /\ posts' = posts \ {p} /\ Spend
    /\ restore(p.text)
    /\ UNCHANGED <<media, uploads, view, running, busy, cancels, file>>

\* Mutant of Refused: a reader who moved on gets nothing back.
Refused_stayed(p, occupied) ==
    /\ p \in posts /\ posts' = posts \ {p}
    /\ CASE p.login # view.login -> Became(p.text, "foreign") /\ UNCHANGED box
         [] p.login = view.login /\ p.gen = view.gen -> restore(p.text)
         [] OTHER -> Became(p.text, IF occupied THEN "eaten" ELSE "moved") /\ UNCHANGED box
    /\ UNCHANGED <<media, uploads, view, running, busy, cancels, file, moves>>

\* Refused: the server is occupied, or something else is wrong with the request.
\* The login changed: the draft is dropped.  The reader moved on: it comes back
\* only from an occupied server.
Refused(p, occupied) ==
    /\ p \in posts /\ posts' = posts \ {p}
    /\ CASE p.login # view.login -> Became(p.text, "foreign") /\ UNCHANGED box
         [] p.login = view.login /\ (p.gen = view.gen \/ occupied) -> restore(p.text)
         [] OTHER -> Became(p.text, "moved") /\ UNCHANGED box
    /\ UNCHANGED <<media, uploads, view, running, busy, cancels, file, moves>>

\* Accepted: the picture that went along leaves the tray, and a view that stayed
\* shows the turn.  A new conversation gets its id only now.
Started(p, id) ==
    /\ p \in posts /\ posts' = posts \ {p}
    /\ id \notin running /\ (p.sid # NoSession => id = p.sid)
    /\ running' = running \cup {id} /\ Became(p.text, "accepted")
    /\ IF p.login # view.login THEN UNCHANGED <<media, file>>
       ELSE clearPendingMedia(p.file, IF p.file = media.file THEN "sent" ELSE "swept")
    /\ IF p.login = view.login /\ p.gen = view.gen
       THEN view' = [view EXCEPT !.sid = id] /\ setBusy(TRUE)
       ELSE UNCHANGED <<view, busy>>
    /\ UNCHANGED <<box, uploads, cancels, moves>>

\* Opening a conversation: busy as before until its history is drawn, then as it is.
\* Nothing else of the composer changes with the view.
openSession(id) ==
    /\ id # view.sid /\ Spend
    /\ view' = [view EXCEPT !.sid = id, !.gen = @ + 1] /\ setBusy(id \in running)
    /\ UNCHANGED <<box, media, uploads, running, posts, cancels, text, file>>

newSession ==
    /\ view.sid # NoSession /\ Spend
    /\ view' = [view EXCEPT !.sid = NoSession, !.gen = @ + 1] /\ setBusy(FALSE)
    /\ UNCHANGED <<box, media, uploads, running, posts, cancels, text, file>>

\* Another login: everything of the old one goes, except what is in the input.
Relogin ==
    /\ view.login = 1 /\ Spend
    /\ view' = [sid |-> NoSession, gen |-> view.gen + 1, login |-> 2] /\ setBusy(FALSE)
    /\ running' = {} /\ clearPendingMedia(None, "foreign")
    /\ UNCHANGED <<box, uploads, posts, cancels, text>>

\* The turn on screen is asked to stop, once.
cancelTurn ==
    /\ owns /\ busy.stopping = {} /\ Spend
    /\ busy' = [busy EXCEPT !.stopping = {view.sid}]
    /\ cancels' = cancels \cup {view.sid}
    /\ UNCHANGED <<box, media, uploads, view, running, posts, text, file>>

\* The agent cannot be stopped, or the request is lost: the button is armed
\* again, whatever it is about by now.  Or the turn will end.
StopAnswered(id, will) ==
    /\ id \in cancels /\ cancels' = cancels \ {id}
    /\ IF will THEN UNCHANGED busy ELSE busy' = [busy EXCEPT !.stopping = {}]
    /\ UNCHANGED <<box, media, uploads, view, running, posts, text, file, moves>>

\* endTurn: only the conversation on screen becomes idle.
TurnEnds(id) ==
    /\ id \in running /\ running' = running \ {id}
    /\ IF id = view.sid THEN setBusy(FALSE) ELSE UNCHANGED busy
    /\ UNCHANGED <<box, media, uploads, view, posts, cancels, text, file, moves>>

Next ==
    \/ Remove \/ send \/ newSession \/ Relogin \/ cancelTurn
    \/ \E t \in Texts : Write(t)
    \/ \E f \in Files : Pick(f) \/ Uploaded(f)
    \/ \E p \in posts : Failed(p) \/ \E b \in BOOLEAN : Refused(p, b)
    \/ \E p \in posts, id \in Sessions : Started(p, id)
    \/ \E id \in Sessions : openSession(id) \/ TurnEnds(id)
    \/ \E id \in cancels, will \in BOOLEAN : StopAnswered(id, will)

Spec == Init /\ [][Next]_vars

-----------------------------------------------------------------------------
\* A draft is in the box, on its way, or accepted - unless another one was in the
\* box when it came back, another login has taken over, or the reader had left
\* when it was refused for a reason other than an occupied server.
NeverEaten == \A t \in Texts :
    /\ text[t] \in {"unwritten", "box", "out", "accepted", "displaced", "foreign", "moved"}
    /\ (text[t] = "box") <=> (box = t)
    /\ (text[t] = "out") <=> (\E p \in posts : p.text = t)

\* A picture the reader picked stays in the tray until it is removed, replaced or
\* sent, or another login takes over; the answer about another picture leaves it
\* alone.  Only the answer to a send that carried none sweeps it away.
PictureKept == \A f \in Files :
    /\ file[f] \in {"unpicked", "tray", "removed", "replaced", "sent", "foreign", "swept"}
    /\ (file[f] = "tray") <=> (media.file = f)

\* The tray says ready of the picture it shows, never on another one's behalf.
TrayTrue == media.st = "ready" => media.file \notin uploads

ComposerFaithful == NeverEaten /\ PictureKept /\ TrayTrue

-----------------------------------------------------------------------------
\* The inductive invariant behind ComposerFaithful

Fates == {"unwritten", "box", "out", "accepted", "displaced", "foreign", "moved"}

TypeInv ==
    /\ box \in Texts \cup {None}
    /\ media \in [file : Files \cup {None}, st : {"none", "uploading", "ready", "error"}]
    /\ uploads \subseteq Files
    /\ posts \subseteq [text : Texts \cup {None}, file : Files \cup {None},
                        sid : Sessions \cup {NoSession}, gen : Nat, login : {1, 2}]
    /\ view \in [sid : Sessions \cup {NoSession}, gen : Nat, login : {1, 2}]
    /\ text \in [Texts -> Fates]
    /\ file \in [Files -> {"unpicked", "tray", "removed", "replaced", "sent", "foreign", "swept"}]

\* A draft is in one send at most.
SentOnce == \A p, q \in posts : p.text = q.text /\ p.text # None => p = q

IInv == TypeInv /\ SentOnce /\ ComposerFaithful
=============================================================================
