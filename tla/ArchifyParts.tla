---------------------------- MODULE ArchifyParts ----------------------------
(***************************************************************************)
(* The three parts of Archify that live in time (archify/bin/preview.mjs,  *)
(* archify.mjs, visual-check.mjs) and four of those that judge an input    *)
(* (renderers/shared/cli.mjs, repository-evidence.mjs, bin/archify.mjs,    *)
(* delta/architecture-delta.mjs), side by side: a behaviour picks one of   *)
(* them in its first state and stays with it.  The variables of the other  *)
(* parts are Off; `moves' is common to all.  The judging parts keep their  *)
(* variables in the same slots.                                            *)
(***************************************************************************)
EXTENDS Integers, Sequences, FiniteSets

CONSTANTS
    Sources, Art, PreviewMoves,      \* Preview
    PublishMoves,                    \* Publish
    Views, Captured, VisualMoves,    \* VisualCheck
    Documents,                       \* Ownership
    Claims, Checkouts,               \* Evidence
    Lines,                           \* Commands
    Pairs, ReviewMoves               \* Delta

VARIABLES
    part, moves,
    file, sight, timer, child, state, buffer, frame, stop,                          \* Preview
    command, before, disk, source, staging, backup, step, moved, recover, result,   \* Publish
    chrome, cdp, run, loaded, art, side, profile, ended,                            \* VisualCheck
    x1, x2, x3, x4, x5, x6                                                \* the judging parts

Off == "off"

P == INSTANCE Preview WITH MaxMoves <- PreviewMoves
Q == INSTANCE Publish WITH MaxMoves <- PublishMoves
V == INSTANCE VisualCheck WITH MaxMoves <- VisualMoves
W == INSTANCE Ownership WITH document <- x1, step <- x2, problems <- x3
E == INSTANCE Evidence WITH
        claim <- x1, checkout <- x2, at <- x3, outcome <- x4, shown <- x5
C == INSTANCE Commands WITH
        line <- x1, step <- x2, tmp <- x3, stdout <- x4, diagnostics <- x5, code <- x6
D == INSTANCE Delta WITH
        MaxMoves <- ReviewMoves,
        pair <- x1, view <- x2, active <- x3, lit <- x4, play <- x5

\* "none" stands for no source and for no artifact; the views are numbered from 1.
ASSUME PreviewAssumption == "none" \notin Sources /\ DOMAIN Art = Sources
ASSUME VisualAssumption == Views \in Nat \ {0} /\ Captured \subseteq 1..Views
ASSUME DocumentAssumption == \A d \in Documents : IsFiniteSet(DOMAIN d.boundaries)

\* An address as it is split up; of a reference, 0 stands for no line.
Spellings == [form : {"https", "http", "ssh", "scp"}, user : STRING, host : STRING, port : Nat,
              lead : BOOLEAN, name : STRING, upper : BOOLEAN, dotgit : BOOLEAN]
References == [path : Seq(STRING), line : Nat, endLine : Nat]
ASSUME ClaimAssumption ==
    \A c \in Claims : /\ c.sources \in Seq(References)
                      /\ c.repository # E!NoRepository => c.repository.url \in Spellings
\* A snapshot has an entity or not, and an entity all the fields of its kind.
ASSUME PairAssumption ==
    \A p \in Pairs : \A snapshot \in {p.base, p.head} : \A id \in D!Ids :
        snapshot[id] = D!Absent \/ snapshot[id] \in [D!fieldsOf(D!kindOf[id]) -> Int]
ASSUME CheckoutAssumption ==
    \A k \in Checkouts :
        /\ k.origin \in Spellings
        /\ \A r \in DOMAIN k.commits : \A p \in DOMAIN k.commits[r] :
              k.commits[r][p] \in Seq(STRING)

OfPreview == <<file, sight, timer, child, state, buffer, frame, stop>>
OfPublish == <<command, before, disk, source, staging, backup, step, moved, recover, result>>
OfVisual == <<chrome, cdp, run, loaded, art, side, profile, ended>>
slots == <<x1, x2, x3, x4, x5, x6>>

partVars == <<part, moves, OfPreview, OfPublish, OfVisual, slots>>

NoPreview == /\ file = Off /\ sight = Off /\ timer = Off /\ child = Off /\ state = Off
             /\ buffer = Off /\ frame = Off /\ stop = Off
NoPublish == /\ command = Off /\ before = Off /\ disk = Off /\ source = Off /\ staging = Off
             /\ backup = Off /\ step = Off /\ moved = Off /\ recover = Off /\ result = Off
NoVisual == /\ chrome = Off /\ cdp = Off /\ run = Off /\ loaded = Off /\ art = Off
            /\ side = Off /\ profile = Off /\ ended = Off

NoJudge == x1 = Off /\ x2 = Off /\ x3 = Off /\ x4 = Off /\ x5 = Off /\ x6 = Off

PartInit ==
    \/ part = "preview" /\ P!Init /\ NoPublish /\ NoVisual /\ NoJudge
    \/ part = "publish" /\ Q!Init /\ NoPreview /\ NoVisual /\ NoJudge
    \/ part = "visual" /\ V!Init /\ NoPreview /\ NoPublish /\ NoJudge
    \/ /\ \/ part = "ownership" /\ W!Init /\ moves = 0 /\ x4 = Off /\ x5 = Off /\ x6 = Off
          \/ part = "evidence" /\ E!Init /\ moves = 0 /\ x6 = Off
          \/ part = "commands" /\ C!Init /\ moves = 0
          \/ part = "delta" /\ D!Init /\ x6 = Off
       /\ NoPreview /\ NoPublish /\ NoVisual

PartNext ==
    /\ UNCHANGED part
    /\ \/ part = "preview" /\ P!Next /\ UNCHANGED <<OfPublish, OfVisual, slots>>
       \/ part = "publish" /\ Q!Next /\ UNCHANGED <<OfPreview, OfVisual, slots>>
       \/ part = "visual" /\ V!Next /\ UNCHANGED <<OfPreview, OfPublish, slots>>
       \/ /\ \/ part = "ownership" /\ W!Next /\ UNCHANGED <<moves, x4, x5, x6>>
             \/ part = "evidence" /\ E!Next /\ UNCHANGED <<moves, x6>>
             \/ part = "commands" /\ C!Next /\ UNCHANGED moves
             \/ part = "delta" /\ D!Next /\ UNCHANGED x6
          /\ UNCHANGED <<OfPreview, OfPublish, OfVisual>>

PartSpec == PartInit /\ [][PartNext]_partVars

-----------------------------------------------------------------------------
\* Properties

\* What Archify says of files and documents is true: the preview shows a verified render
\* of what the source holds and stops cleanly, a publication replaces all of its files or
\* none and loses nothing, a visual receipt vouches for the pictures beside it; in an
\* accepted document every part is owned and placed and every crossing is named, and the
\* evidence of a verified one is in the repository and at the revision it names, in the
\* lines it names; a command gives one report that its exit status agrees with; what a
\* comparison lists turns one snapshot into the other, and its review never plays two
\* timers or past its end (bin/preview.mjs, bin/archify.mjs, bin/visual-check.mjs,
\* engineering-profiles.mjs, repository-evidence.mjs, architecture-delta.mjs).
PartsFaithful ==
    /\ part = "preview" => P!PreviewFaithful
    /\ part = "publish" => Q!PublishFaithful
    /\ part = "visual" => V!VisualFaithful
    /\ part = "ownership" => W!OwnershipFaithful
    /\ part = "evidence" => E!EvidenceFaithful
    /\ part = "commands" => C!ReportsFaithful
    /\ part = "delta" => D!ReviewFaithful
=============================================================================
