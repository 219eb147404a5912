--------------------------- MODULE EndpointPicker ---------------------------
(***************************************************************************)
(* Which endpoint the next send of the conversation on screen names        *)
(* (src/webui/static/app.js): the server's list, the choice each           *)
(* conversation is pinned to, the last-used default, and what a reload     *)
(* keeps of them.                                                          *)
(***************************************************************************)
EXTENDS Integers, Sequences, FiniteSets, Functions

CONSTANTS Keys,      \* endpoints
          Default,   \* the server's default
          Sessions,  \* conversation ids
          Nobody,    \* the pin of a view that has no id yet, and "no id"
          MaxPins,   \* pins kept (200)
          MaxMoves   \* picks, opens, sends, rotations, reloads

VARIABLES
    served,  \* the endpoints the server advertises
    page,    \* S: known keys, choice, id on screen, generation
    pins,    \* S.sessionEp in insertion order, as localStorage has it too
    last,    \* the last-used endpoint in localStorage, or NoKey
    sent,    \* the send in flight
    away,    \* endpoints that were ever withdrawn
    disputed,\* the conversation on screen was left and reopened while its send was out,
            \* and the answer pinned it since
    moves    \* spent of MaxMoves

vars == <<served, page, pins, last, sent, away, disputed, moves>>
NoKey == "none"
Spend == moves < MaxMoves /\ moves' = moves + 1

NoSend == [on |-> FALSE, id |-> Nobody, key |-> NoKey, gen |-> 0]
Fresh == [keys |-> {}, choice |-> NoKey, sid |-> Nobody, gen |-> 0]

Init == /\ served = Keys
        /\ page = Fresh /\ pins = <<>> /\ last = NoKey
        /\ sent = NoSend /\ away = {} /\ disputed = FALSE /\ moves = 0

-----------------------------------------------------------------------------
Pinned(p, sid) == {q \in Range(p) : q[1] = sid}
pinOf(p, sid) == IF Pinned(p, sid) = {} THEN NoKey ELSE (CHOOSE q \in Pinned(p, sid) : TRUE)[2]

\* The oldest pins go when there are too many.
saveSessionEp(p) == SubSeq(p, IF Len(p) > MaxPins THEN Len(p) - MaxPins + 1 ELSE 1, Len(p))

\* A key that is already in the object keeps its place.
pin(p, sid, key) ==
    saveSessionEp(IF Pinned(p, sid) # {}
                  THEN [i \in DOMAIN p |-> IF p[i][1] = sid THEN <<sid, key>> ELSE p[i]]
                  ELSE Append(p, <<sid, key>>))

noteSessionEndpoint(p, sid, key) == IF sid # Nobody /\ key # NoKey THEN pin(p, sid, key) ELSE p

\* The conversation's own choice, else the last-used one; not validated.
endpointFor(p, l, sid) == IF pinOf(p, sid) # NoKey THEN pinOf(p, sid) ELSE l

\* The list in the server's order.
FirstOf(ks) == IF ks = {} THEN NoKey ELSE CHOOSE k \in ks : Default \in ks => k = Default

\* A choice the list does not have any more is resolved again, and saved.
setEndpoints(ks) ==
    LET want == endpointFor(pins, last, page.sid)
        choice == CASE page.choice \in ks -> page.choice
                    [] page.choice \notin ks /\ want \in ks -> want
                    [] OTHER -> FirstOf(ks)
    IN  /\ page' = [page EXCEPT !.keys = ks, !.choice = choice]
        /\ last' = IF page.choice \in ks THEN last ELSE choice

-----------------------------------------------------------------------------
\* /api/status once, /api/sessions for ever: both carry the list.
Listed ==
    /\ setEndpoints(served)
    /\ UNCHANGED <<served, pins, sent, away, disputed, moves>>

\* The server restarts with one endpoint fewer, or with all of them again.
Reconfigured ==
    /\ Spend
    /\ \/ \E k \in served \ {Default} : served' = served \ {k} /\ away' = away \cup {k}
       \/ served # Keys /\ served' = Keys /\ UNCHANGED away
    /\ UNCHANGED <<page, pins, last, sent, disputed>>

pickEndpoint(k) ==
    /\ k \in page.keys /\ k # page.choice /\ Spend
    /\ page' = [page EXCEPT !.choice = k]
    /\ pins' = pin(pins, page.sid, k) /\ last' = k /\ disputed' = FALSE
    /\ UNCHANGED <<served, sent, away>>

\* Mutant of openSession: the picker stays where it is.
openSession_unfollowed(id) ==
    /\ page.keys # {} /\ Spend
    /\ page' = [page EXCEPT !.sid = id, !.gen = @ + 1] /\ disputed' = FALSE
    /\ UNCHANGED <<served, pins, last, sent, away>>

\* The picker follows the conversation.
openSession(id) ==
    /\ page.keys # {} /\ Spend
    /\ LET want == endpointFor(pins, last, id)
       IN  page' = [page EXCEPT !.sid = id, !.gen = @ + 1,
                                !.choice = IF want \in page.keys THEN want ELSE FirstOf(page.keys)]
    /\ disputed' = FALSE
    /\ UNCHANGED <<served, pins, last, sent, away>>

newSession ==
    /\ page.sid # Nobody /\ Spend
    /\ page' = [page EXCEPT !.sid = Nobody, !.gen = @ + 1] /\ disputed' = FALSE
    /\ UNCHANGED <<served, pins, last, sent, away>>

send ==
    /\ ~sent.on /\ page.keys # {} /\ Spend
    /\ sent' = [on |-> TRUE, id |-> page.sid, key |-> page.choice, gen |-> page.gen]
    /\ UNCHANGED <<served, page, pins, last, away, disputed>>

\* The answer echoes the endpoint the server used: the one asked for, or its
\* default.  A view that moved on only pins it.
sendAnswered(id) ==
    LET used == IF sent.key \in served THEN sent.key ELSE Default
    IN  /\ sent.on /\ sent' = NoSend
        /\ IF sent.id # Nobody THEN id = sent.id ELSE Pinned(pins, id) = {} /\ id # page.sid
        /\ IF sent.gen # page.gen
           THEN pins' = pin(pins, id, used) /\ UNCHANGED <<page, last>>
           ELSE /\ page' = [page EXCEPT !.choice = used, !.sid = id]
                /\ last' = IF used # page.choice THEN used ELSE last
                /\ pins' = noteSessionEndpoint(noteSessionEndpoint(pins, page.sid, used), id, used)
        /\ disputed' = (sent.gen # page.gen /\ (id = page.sid \/ disputed))
        /\ UNCHANGED <<served, away, moves>>

\* A frame renames the conversation on screen.
rotated(id) ==
    /\ page.sid # Nobody /\ id # page.sid /\ Pinned(pins, id) = {} /\ Spend
    /\ page' = [page EXCEPT !.sid = id]
    /\ pins' = noteSessionEndpoint(pins, id, page.choice) /\ disputed' = FALSE
    /\ UNCHANGED <<served, last, sent, away>>

Reload ==
    /\ Spend /\ page.keys # {}
    /\ page' = [Fresh EXCEPT !.gen = page.gen + 1]
    /\ sent' = NoSend /\ disputed' = FALSE
    /\ UNCHANGED <<served, pins, last, away>>

Next == \/ Listed \/ Reconfigured \/ newSession \/ send \/ Reload
        \/ \E k \in Keys : pickEndpoint(k)
        \/ \E id \in Sessions : openSession(id) \/ sendAnswered(id) \/ rotated(id)

Spec == Init /\ [][Next]_vars

-----------------------------------------------------------------------------
\* Properties

\* What a send names is an endpoint of the last list, or one that was withdrawn.
ChoiceListed == page.keys # {} => page.choice \in page.keys \cup away

\* The picker shows what the conversation on screen is pinned to, whatever order
\* lists, answers, renames and clicks came in (excepted: an endpoint that was away
\* and came back, the fallback chosen meanwhile stays; and a conversation that was
\* left and reopened before its send was answered, the answer's endpoint is pinned
\* and the picker stays as it is until the next opening or pick).
PickerFollows ==
    LET k == pinOf(pins, page.sid) IN
    page.sid # Nobody /\ ~disputed /\ k \in page.keys \ away => page.choice \in {k} \cup away

\* No more pins are kept than the bound, one for a conversation.
PinsBounded == Len(pins) <= MaxPins /\ \A i, j \in DOMAIN pins : pins[i][1] = pins[j][1] => i = j

PickerFaithful == ChoiceListed /\ PickerFollows /\ PinsBounded

-----------------------------------------------------------------------------
\* The inductive invariant behind PickerFaithful

TypeInv ==
    /\ served \in SUBSET Keys
    /\ page \in [keys : SUBSET Keys, choice : Keys \cup {NoKey},
                 sid : Sessions \cup {Nobody}, gen : Nat]
    /\ pins \in Seq((Sessions \cup {Nobody}) \X Keys)
    /\ last \in Keys \cup {NoKey}
    /\ sent \in [on : BOOLEAN, id : Sessions \cup {Nobody}, key : Keys \cup {NoKey}, gen : Nat]
    /\ away \in SUBSET Keys
    /\ disputed \in BOOLEAN

\* Only what was withdrawn can be missing from the list, the server's or the page's;
\* a page without a list shows nothing and has sent nothing.
ListInv ==
    /\ Default \notin away
    /\ Keys \ away \subseteq served
    /\ page.keys = {} => page.choice = NoKey /\ page.sid = Nobody /\ ~sent.on
    /\ page.keys # {} => Keys \ away \subseteq page.keys /\ page.choice \in Keys

IInv == TypeInv /\ ListInv /\ PinsBounded /\ PickerFollows
=============================================================================
