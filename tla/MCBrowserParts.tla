--------------------------- MODULE MCBrowserParts ---------------------------
(***************************************************************************)
(* BrowserParts on a small instance: two conversations of one login and    *)
(* one of another for the board.                                           *)
(***************************************************************************)
EXTENDS BrowserParts

MCOwner == [s \in {"s1", "s2", "t1"} |-> IF s = "t1" THEN "u2" ELSE "u1"]
=============================================================================
