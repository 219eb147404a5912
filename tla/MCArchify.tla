----------------------------- MODULE MCArchify -----------------------------
(***************************************************************************)
(* The parts of Archify that share no state in one run: those of           *)
(* ArchifyParts, and two more that judge an input once.  A behaviour picks *)
(* one part in its first state and stays with it.                          *)
(***************************************************************************)
EXTENDS ArchifyParts, MCArchifyInputs

O == INSTANCE OutputPath WITH
        Html <- {"o.html", "O.html"}, Json <- {"in.json", "IN.json", "r.json"}, Depth <- 3,
        world <- x1, request <- x2, phase <- x3, before <- x4
R == INSTANCE Routing WITH
        drawing <- x1, paths <- x2, gate <- x3, problems <- x4

\* Addresses are tried against other addresses, lines and paths against contents.
Matched == \/ x1 \in AddressClaims /\ x2 \in Remotes
           \/ x1 \in ContentClaims /\ x2 \in Contents

InputInit ==
    /\ \/ part = "paths" /\ O!Init
       \/ part = "routing" /\ R!Init
    /\ moves = 0 /\ x5 = Off /\ x6 = Off /\ NoPreview /\ NoPublish /\ NoVisual

InputNext ==
    /\ \/ part = "paths" /\ O!Next
       \/ part = "routing" /\ R!Next
    /\ UNCHANGED <<part, moves, x5, x6, OfPreview, OfPublish, OfVisual>>

Init == InputInit \/ (PartInit /\ (part = "evidence" => Matched))

Next == InputNext \/ PartNext

Spec == Init /\ [][Next]_partVars

\* What is accepted is what was asked for: no output lands on an input and every command
\* line is either refused or obeyed whole; a comparison counts and draws the changes that
\* it lists, and an accepted drawing hides no arrow behind a box, a border or a label
\* (output-path.mjs, bin/archify.mjs, architecture-delta.mjs, render-architecture.mjs,
\* geometry.mjs).
InputsFaithful ==
    /\ part = "paths" => O!OutputFaithful
    /\ part = "commands" => C!ArgumentsFaithful
    /\ part = "delta" => D!ComparisonFaithful
    /\ part = "routing" => R!RoutingFaithful
=============================================================================
