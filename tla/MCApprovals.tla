---------------------------- MODULE MCApprovals ----------------------------
(***************************************************************************)
(* Approvals for TLC: turns and session ids are interchangeable, requests  *)
(* are not (one of them is smart-denied).                                  *)
(***************************************************************************)
EXTENDS Approvals, TLC

Symmetry == Permutations(Turns) \cup Permutations(Ids)
=============================================================================
