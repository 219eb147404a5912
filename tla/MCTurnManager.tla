--------------------------- MODULE MCTurnManager ---------------------------
(* The instances of TurnManager that TLC checks. *)
EXTENDS TurnManager, TLC

CONSTANT e1

\* One endpoint that admits a single turn, one that admits two.
MCMaxConcurrent == [e \in Endpoints |-> IF e = e1 THEN 1 ELSE 2]
MCMaxConcurrentOne == [e \in Endpoints |-> 1]

\* Sessions and turns are interchangeable; endpoints are not.
MCSymmetry == Permutations(Sessions) \cup Permutations(Turns)
=============================================================================
