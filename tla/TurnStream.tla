----------------------------- MODULE TurnStream -----------------------------
(***************************************************************************)
(* One turn's event log (webui/turn_stream.py) and the request threads     *)
(* that write it out as Server-Sent Events (webui/sse.py), each with the   *)
(* browser view at the other end of its connection.                        *)
(*                                                                         *)
(* The deque of the code always holds consecutive numbers, so it is        *)
(* represented by the two numbers that delimit it: it holds exactly the    *)
(* events dropped+1 .. seq.  Of an event's content only "is it the         *)
(* terminal one" is kept (endAt).  Rotation of the session id inside emit  *)
(* is the subject of SessionRotation.                                      *)
(***************************************************************************)
EXTENDS Integers

CONSTANTS Readers,    \* browser views
          Backlog,    \* BACKLOG_EVENTS, the deque's maxlen
          MaxSeq,     \* bound: events one turn emits
          MaxCuts,    \* bound: connections lost over the whole run
          MaxReloads  \* bound: pages reloaded over the whole run

ASSUME BacklogAssumption == Backlog \in Nat \ {0}
ASSUME BoundsAssumption == MaxSeq \in Nat /\ MaxCuts \in Nat /\ MaxReloads \in Nat

VARIABLES
  \* the stream object
  seq,      \* number of the newest event
  dropped,  \* how many events the deque has evicted
  endAt,    \* number of the terminal event, 0 while there is none
  running,  \* the flag the writers test
  \* the request thread serving reader r
  pc,       \* where in write_stream it is
  cur,      \* its local `after`
  pending,  \* the part of its `pending` list not yet written, <<first, last>>
  \* the browser view of reader r
  got,      \* the last id its EventSource has seen, 0 for none
  told,     \* it has received a terminal frame
  gap,      \* it has received a gap frame on this connection
  base,     \* the cursor this connection opened at
  missed,   \* this connection skipped an event
  \* bounds
  cuts, reloads

streamVars == <<seq, dropped, endAt, running>>
readerVars == <<pc, cur, pending, got, told, gap, base, missed>>
boundVars  == <<cuts, reloads>>
vars == <<streamVars, readerVars, boundVars>>

PCs == {"away",      \* no connection (the EventSource will open one)
        "gapcheck",  \* cursor resolved, about to look for an eviction gap
        "drain",     \* about to read what is pending
        "write",     \* writing a pending list that was fixed before the first write
        "check",     \* nothing pending, about to test `running`
        "recheck",   \* the turn is over, about to re-read once
        "wait",      \* parked in stream.wait
        "done"}      \* returned after a terminal frame

NoId == -1           \* no Last-Event-ID header
ForeignId == MaxSeq + 1   \* an id this stream never emitted

\* Mutant of resolve_cursor: any id a client presents is adopted.
resolve_cursor_trusting(url, id) ==
    IF id >= 0 THEN id ELSE url

\* Where a reader resumes: its Last-Event-ID if the stream could have sent it,
\* else the position in the URL.
resolve_cursor(url, id) ==
    IF id \in 0 .. seq THEN id ELSE url

-----------------------------------------------------------------------------
Init ==
    /\ seq = 0 /\ dropped = 0 /\ endAt = 0 /\ running = TRUE
    /\ pc = [r \in Readers |-> "away"]
    /\ cur = [r \in Readers |-> 0]
    /\ pending = [r \in Readers |-> <<1, 0>>]
    /\ got = [r \in Readers |-> 0]
    /\ told = [r \in Readers |-> FALSE]
    /\ gap = [r \in Readers |-> FALSE]
    /\ base = [r \in Readers |-> 0]
    /\ missed = [r \in Readers |-> FALSE]
    /\ cuts = 0 /\ reloads = 0

(* The producer side. *)

\* Mutant of Append1: a log that never evicts.
Append1_unbounded ==
    /\ seq' = seq + 1
    /\ dropped' = dropped

\* The body of emit under the condition: number the event, and count the one a
\* full deque evicts.
Append1 ==
    /\ seq' = seq + 1
    /\ dropped' = IF seq - dropped = Backlog THEN dropped + 1 ELSE dropped

\* Deltas and tool rows of a live turn, and the stragglers that arrive after
\* the terminal event (the note a cancel adds, a tool thread's last row).
emit ==
    /\ seq < (IF endAt = 0 THEN MaxSeq - 1 ELSE MaxSeq)
    /\ Append1
    /\ UNCHANGED <<endAt, running, readerVars, boundVars>>

\* finish, first half: the terminal event goes into the log ...
finish_emit ==
    /\ endAt = 0
    /\ seq < MaxSeq
    /\ Append1
    /\ endAt' = seq + 1
    /\ UNCHANGED <<running, readerVars, boundVars>>

\* Mutant of finish_close: `running` lowered before the terminal event is out.
finish_close_first ==
    /\ running
    /\ running' = FALSE
    /\ UNCHANGED <<seq, dropped, endAt, readerVars, boundVars>>

\* ... and only then is `running` lowered.
finish_close ==
    /\ endAt # 0
    /\ running
    /\ running' = FALSE
    /\ UNCHANGED <<seq, dropped, endAt, readerVars, boundVars>>

-----------------------------------------------------------------------------
(* The consumer side: one connection of reader r. *)

Goto(r, label) == pc' = [pc EXCEPT ![r] = label]

\* The tab opens the EventSource, or the EventSource reopens itself after a
\* cut.  The URL always says 0 (every caller of attach passes 0); a reopened
\* one replays the last id it has, a proxy may replay one of another stream.
Attach(r) ==
    /\ pc[r] = "away"
    /\ \E id \in (IF got[r] = 0 THEN {NoId, ForeignId} ELSE {got[r]}) :
          /\ cur' = [cur EXCEPT ![r] = resolve_cursor(0, id)]
          /\ base' = [base EXCEPT ![r] = resolve_cursor(0, id)]
    /\ gap' = [gap EXCEPT ![r] = FALSE]
    /\ missed' = [missed EXCEPT ![r] = FALSE]
    /\ Goto(r, "gapcheck")
    /\ UNCHANGED <<streamVars, pending, got, told, boundVars>>

\* Mutant of gap_before: `seq < events[0][0]`.
gap_before_off_by_one(r) == seq > dropped /\ cur[r] <= dropped

\* Did eviction eat anything this reader has not seen?
gap_before(r) == seq > dropped /\ cur[r] < dropped

GapCheck(r) ==
    /\ pc[r] = "gapcheck"
    /\ gap' = [gap EXCEPT ![r] = gap_before(r)]
    /\ Goto(r, "drain")
    /\ UNCHANGED <<streamVars, cur, pending, got, told, base, missed, boundVars>>

\* stream.after(cur): what the deque holds beyond the cursor.
after(r) == {n \in (dropped + 1) .. seq : n > cur[r]}

Drain(r) ==
    /\ pc[r] = "drain"
    /\ \/ /\ after(r) = {}
          /\ Goto(r, "check")
          /\ UNCHANGED pending
       \/ /\ after(r) # {}
          /\ pending' = [pending EXCEPT ![r] =
                            <<IF cur[r] < dropped THEN dropped + 1 ELSE cur[r] + 1, seq>>]
          /\ Goto(r, "write")
    /\ UNCHANGED <<streamVars, cur, got, told, gap, base, missed, boundVars>>

\* One frame.  The list was fixed by Drain: what it names may have been evicted
\* since, what was emitted since is not in it.
Write(r) ==
    LET n == pending[r][1] IN
    /\ pc[r] = "write"
    /\ cur' = [cur EXCEPT ![r] = n]
    /\ got' = [got EXCEPT ![r] = n]
    /\ missed' = [missed EXCEPT ![r] = @ \/ n > cur[r] + 1]
    /\ told' = [told EXCEPT ![r] = (n = endAt)]
    /\ pending' = [pending EXCEPT ![r] = <<n + 1, @[2]>>]
    /\ Goto(r, IF n = endAt THEN "done"
               ELSE IF n = pending[r][2] THEN "drain" ELSE "write")
    /\ UNCHANGED <<streamVars, gap, base, boundVars>>

Check(r) ==
    /\ pc[r] = "check"
    /\ Goto(r, IF running THEN "wait" ELSE "recheck")
    /\ UNCHANGED <<streamVars, cur, pending, got, told, gap, base, missed, boundVars>>

\* Mutant of Recheck: the writer closes without making up a terminal frame.
Recheck_silent(r) ==
    /\ pc[r] = "recheck"
    /\ Goto(r, IF after(r) # {} THEN "drain" ELSE "done")
    /\ UNCHANGED <<streamVars, cur, pending, got, told, gap, base, missed, boundVars>>

\* The turn is over and this reader was sent no terminal frame: re-read once,
\* then make the frame up.
Recheck(r) ==
    /\ pc[r] = "recheck"
    /\ \/ /\ after(r) # {}
          /\ Goto(r, "drain")
          /\ UNCHANGED told
       \/ /\ after(r) = {}
          /\ Goto(r, "done")
          /\ told' = [told EXCEPT ![r] = TRUE]
    /\ UNCHANGED <<streamVars, cur, pending, got, gap, base, missed, boundVars>>

\* stream.wait returns: something to read, or the turn over.
Wake(r) ==
    /\ pc[r] = "wait"
    /\ seq > cur[r] \/ ~running
    /\ Goto(r, "drain")
    /\ UNCHANGED <<streamVars, cur, pending, got, told, gap, base, missed, boundVars>>

\* ... or the heartbeat: a comment line, and the loop goes round again.
Keepalive(r) ==
    /\ pc[r] = "wait"
    /\ seq <= cur[r] /\ running
    /\ Goto(r, "drain")
    /\ UNCHANGED <<streamVars, cur, pending, got, told, gap, base, missed, boundVars>>

-----------------------------------------------------------------------------
(* The network and the user. *)

\* The connection breaks; the view keeps what it has.
Cut(r) ==
    /\ pc[r] \notin {"away", "done"}
    /\ cuts < MaxCuts
    /\ cuts' = cuts + 1
    /\ Goto(r, "away")
    /\ UNCHANGED <<streamVars, cur, pending, got, told, gap, base, missed, reloads>>

\* The page is reloaded, or the conversation reopened: the view is cleared.
Reload(r) ==
    /\ reloads < MaxReloads
    /\ reloads' = reloads + 1
    /\ Goto(r, "away")
    /\ got' = [got EXCEPT ![r] = 0]
    /\ told' = [told EXCEPT ![r] = FALSE]
    /\ UNCHANGED <<streamVars, cur, pending, gap, base, missed, cuts>>

Serve(r) ==
    \/ Attach(r) \/ GapCheck(r) \/ Drain(r) \/ Write(r)
    \/ Check(r) \/ Recheck(r) \/ Wake(r)

Next ==
    \/ emit
    \/ finish_emit
    \/ finish_close
    \/ \E r \in Readers : Serve(r) \/ Keepalive(r) \/ Cut(r) \/ Reload(r)

\* A turn ends (_run_turn finishes its stream on every path), its thread runs
\* on to lower the flag, every request thread runs, and an EventSource that
\* lost its connection reopens it.  Nothing makes the network or the user act.
Fairness ==
    /\ WF_vars(finish_emit)
    /\ WF_vars(finish_close)
    /\ \A r \in Readers : WF_vars(Serve(r) \/ Keepalive(r))

SafeSpec == Init /\ [][Next]_vars
Spec == SafeSpec /\ Fairness

-----------------------------------------------------------------------------
(* The inductive invariant behind ToldLast, HonestGap and the refinement
   (TurnStreamProofs): what a writer's local state says about the log. *)

\* The deque is full as soon as it has evicted anything.
LogShape ==
    /\ seq <= MaxSeq
    /\ dropped = 0 \/ dropped = seq - Backlog
    /\ ~running => endAt # 0

\* The server's cursor is the view's, and never ahead of the log.
CursorInv(r) ==
    /\ got[r] <= seq /\ cur[r] <= seq
    /\ pc[r] # "away" => cur[r] = got[r]
    /\ pc[r] = "recheck" => ~running

\* A list being written starts right after the cursor, or where eviction left
\* off, and stays within the log.
PendingInv(r) ==
    pc[r] = "write" =>
        /\ cur[r] < pending[r][1]
        /\ pending[r][1] <= pending[r][2]
        /\ pending[r][2] <= seq
        /\ pending[r][1] = cur[r] + 1 \/ pending[r][1] - 1 <= dropped

ToldInv(r) ==
    told[r] => pc[r] = "done" /\ endAt # 0 /\ endAt <= got[r]

\* After a gap frame the next frame written is one past the hole.
GapInv(r) ==
    gap[r] => \/ missed[r]
              \/ /\ cur[r] = base[r]
                 /\ cur[r] < dropped
                 /\ pc[r] = "write" => pending[r][1] > cur[r] + 1
GapCheckInv(r) == pc[r] = "gapcheck" => cur[r] = base[r]

(* Types: the deque never holds more than Backlog events. *)
TypeOK ==
    /\ seq \in Nat /\ dropped \in Nat /\ endAt \in Nat
    /\ dropped <= seq /\ seq - dropped <= Backlog /\ endAt <= seq
    /\ running \in BOOLEAN
    /\ pc \in [Readers -> PCs]
    /\ cur \in [Readers -> Nat]
    /\ pending \in [Readers -> Nat \X Nat]
    /\ got \in [Readers -> Nat]
    /\ told \in [Readers -> BOOLEAN]
    /\ gap \in [Readers -> BOOLEAN]
    /\ base \in [Readers -> Nat]
    /\ missed \in [Readers -> BOOLEAN]
    /\ cuts \in Nat /\ reloads \in Nat

IInv ==
    /\ TypeOK
    /\ LogShape
    /\ \A r \in Readers : /\ CursorInv(r) /\ PendingInv(r) /\ ToldInv(r)
                         /\ GapInv(r) /\ GapCheckInv(r)

(* A view that has been told the turn ended has everything up to the terminal
   event behind it: nothing the turn said is left undelivered by a writer that
   saw `running` fall between its drain and its test of the flag, nor by a
   cursor taken from another stream. *)
ToldLast ==
    \A r \in Readers : told[r] => endAt # 0 /\ endAt <= got[r]

(* A gap frame is never a false alarm: once the connection that was sent one has
   delivered an event, it has indeed skipped some. *)
HonestGap ==
    \A r \in Readers : gap[r] /\ cur[r] # base[r] => missed[r]

(* Events are replayed in order, once, and lost only to eviction. *)
Delivery == INSTANCE TurnDelivery WITH published <- seq
Delivers == Delivery!Spec

(* Every reader leaves having been told the turn ended: a view that is attached,
   however often its connection breaks and wherever in the writer it was when
   the turn finished, receives a terminal frame. *)
EveryReaderTold ==
    \A r \in Readers : pc[r] # "away" ~> told[r]
=============================================================================
