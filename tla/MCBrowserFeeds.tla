--------------------------- MODULE MCBrowserFeeds ---------------------------
(* A conversation that rotates once and one that a send may create. *)
EXTENDS BrowserFeeds
CONSTANTS a1, a2, b1
MCIds == {a1, a2, b1}
MCChain == [i \in MCIds |-> IF i \in {a1, a2} THEN a1 ELSE i]
MCHeir == [i \in MCIds |-> IF i = a1 THEN a2 ELSE NoId]
MCKnown == {a1}
=============================================================================
