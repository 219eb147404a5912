--------------------------- MODULE MCCompletions ---------------------------
(* The instances of Completions that TLC checks. *)
EXTENDS Completions, TLC

\* Session ids, route objects and processes are interchangeable.
MCSymmetry == Permutations(Ids) \cup Permutations(Routes) \cup Permutations(Procs)
=============================================================================
