---------------------------- MODULE TurnDelivery ----------------------------
(***************************************************************************)
(* What a turn's event log promises the tabs that read it, with no log and *)
(* no connection in it: events are published under consecutive numbers,    *)
(* the terminal event is one of them, and a reader                         *)
(*   - receives numbers in increasing order, never the same one twice in   *)
(*     one view;                                                           *)
(*   - loses a number only once it has fallen more than Backlog events     *)
(*     behind;                                                             *)
(*   - is told that the turn ended, and then has everything up to the      *)
(*     terminal event behind it.                                           *)
(* TurnStream is shown to implement this.                                  *)
(***************************************************************************)
EXTENDS Integers

CONSTANTS Readers,  \* the browser views reading one turn
          Backlog   \* how many events the turn keeps for replay

VARIABLES published,  \* the number of the newest event, 0 before the first
          endAt,      \* the number of the terminal event, 0 while there is none
          got,        \* per reader, the newest number its view has received
          told        \* per reader, whether its view knows the turn ended

vars == <<published, endAt, got, told>>

Init ==
    /\ published = 0
    /\ endAt = 0
    /\ got = [r \in Readers |-> 0]
    /\ told = [r \in Readers |-> FALSE]

Publish ==
    /\ published' = published + 1
    /\ UNCHANGED <<endAt, got, told>>

End ==
    /\ endAt = 0
    /\ published' = published + 1
    /\ endAt' = published + 1
    /\ UNCHANGED <<got, told>>

\* The newest number that may already have been evicted.
Lost == published - Backlog

Deliver(r) ==
    /\ ~told[r]
    /\ \E n \in (got[r] + 1) .. published :
          /\ n = got[r] + 1 \/ n - 1 <= Lost
          /\ got' = [got EXCEPT ![r] = n]
          /\ told' = [told EXCEPT ![r] = (n = endAt)]
    /\ UNCHANGED <<published, endAt>>

\* The reader missed the terminal event and is told of it out of band.
Tell(r) ==
    /\ endAt # 0
    /\ got[r] >= endAt
    /\ told' = [told EXCEPT ![r] = TRUE]
    /\ UNCHANGED <<published, endAt, got>>

\* The page is reloaded: an empty view, to be filled from the first event.
Reload(r) ==
    /\ got' = [got EXCEPT ![r] = 0]
    /\ told' = [told EXCEPT ![r] = FALSE]
    /\ UNCHANGED <<published, endAt>>

Next ==
    \/ Publish
    \/ End
    \/ \E r \in Readers : Deliver(r) \/ Tell(r) \/ Reload(r)

Spec == Init /\ [][Next]_vars
=============================================================================
