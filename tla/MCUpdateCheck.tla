--------------------------- MODULE MCUpdateCheck ---------------------------
(* The update check on a small instance: the processes are interchangeable. *)
EXTENDS UpdateCheck, TLC

Processes == Permutations(Procs)

=============================================================================
