------------------------------ MODULE Rendering ------------------------------
(***************************************************************************)
(* What becomes of an answer's markdown on the page                        *)
(* (src/webui/static/app.js): paths of artifacts turned into links and     *)
(* media, media fetched once, diagrams drawn once the answer is complete   *)
(* and drawn anew when the theme changes.  An answer is a sequence of      *)
(* items, one per shape the code tells apart.                              *)
(***************************************************************************)
EXTENDS Integers, Sequences, FiniteSets

CONSTANTS MaxItems,  \* items of an answer
          MaxMoves   \* frames, theme changes, views left

Paths == {"page", "image", "video"}      \* what a path names: .html, a picture, a film
Shapes == {"code", "text", "link", "embed", "quoted"}  \* `p`, p, [..](p), ![](p), in a <pre>
Items == [shape : Shapes, path : Paths] \cup {[shape |-> "input", path |-> "image"],
          [shape |-> "diagram", path |-> "good"], [shape |-> "diagram", path |-> "bad"]}
Media == {"image", "video"}
Themes == {"light", "dark"}

VARIABLES
    answer,   \* the items that have arrived
    final,    \* the segment is closed
    nodes,    \* on the page, one per item: what it is, its source, how often fetched
    bundle,   \* mermaid.min.js: "none", "loading", "there", "failed"
    theme,    \* the page's theme
    config,   \* the theme mermaid was last initialised with
    drawing,  \* renderMermaid: the diagram being drawn and in which theme, or Idle
    redraw,   \* restyleMermaid: the figures still to draw
    crossed,  \* diagrams drawn in a theme the page does not have any more
    moves

vars == <<answer, final, nodes, bundle, theme, config, drawing, redraw, crossed, moves>>
Spend == moves < MaxMoves /\ moves' = moves + 1
Idle == [i |-> 0, theme |-> "none"]

-----------------------------------------------------------------------------
\* renderMD: the sanitizer parks the source of an embedded artifact; a link to a
\* media file is replaced by the media; code spans and bare text that are a path
\* become a link or the media; what stands in a <pre> is left alone.  A picture
\* the reader sent is drawn from its object key.
renderMD(it) ==
    CASE it.shape = "diagram" -> [is |-> "source", parked |-> FALSE]
      [] it.shape = "quoted" -> [is |-> "text", parked |-> FALSE]
      [] it.shape # "diagram" /\ it.shape # "quoted" /\ it.path \in Media ->
            [is |-> it.path, parked |-> TRUE]
      [] it.shape = "embed" /\ it.path = "page" -> [is |-> "broken", parked |-> FALSE]
      [] OTHER -> [is |-> "link", parked |-> FALSE]

\* A node that was just inserted: a parked source is not fetched.
fresh(it) ==
    LET r == renderMD(it)
    IN  [is |-> r.is, src |-> IF r.parked THEN "parked" ELSE "none", fetched |-> 0]

\* activateArtifactMedia: pictures now; films when they come near the screen.
activate(n) == IF n.src = "parked" /\ n.is = "image"
               THEN [n EXCEPT !.src = "set", !.fetched = @ + 1] ELSE n

Init ==
    /\ answer = <<>> /\ final = FALSE /\ nodes = <<>>
    /\ bundle = "none" /\ theme \in Themes
    /\ drawing = Idle /\ redraw = {} /\ config = "none"
    /\ crossed = {} /\ moves = 0

-----------------------------------------------------------------------------
\* A frame of the stream: the whole answer is parsed and inserted anew.
Frame(it) ==
    /\ ~final /\ Len(answer) < MaxItems
    /\ answer' = Append(answer, it)
    /\ nodes' = [i \in 1..Len(answer') |-> fresh(answer'[i])]
    /\ UNCHANGED <<final, bundle, theme, config, drawing, redraw, crossed, moves>>

Diagrams(ns) == {i \in DOMAIN ns : ns[i].is = "source"}
loadMermaid == IF bundle = "none" THEN "loading" ELSE bundle

\* finalizeSeg: the last parse; its media are activated, its diagrams asked for.
Final ==
    /\ ~final /\ answer # <<>> /\ final' = TRUE
    /\ nodes' = [i \in DOMAIN answer |-> activate(fresh(answer[i]))]
    /\ bundle' = IF Diagrams(nodes') # {} THEN loadMermaid ELSE bundle
    /\ UNCHANGED <<answer, theme, config, drawing, redraw, crossed, moves>>

\* A failed bundle is remembered: the sources stay, now and for later answers.
BundleLoaded ==
    /\ bundle = "loading" /\ bundle' \in {"there", "failed"}
    /\ config' = theme
    /\ UNCHANGED <<answer, final, nodes, theme, drawing, redraw, crossed, moves>>

\* A film comes near the screen.
Seen(i) ==
    /\ final /\ i \in DOMAIN nodes /\ nodes[i].is = "video" /\ nodes[i].src = "parked"
    /\ nodes' = [nodes EXCEPT ![i].src = "set", ![i].fetched = @ + 1]
    /\ UNCHANGED <<answer, final, bundle, theme, config, drawing, redraw, crossed, moves>>

\* The diagrams are drawn one after the other, in the theme mermaid knows.
Undrawn == {i \in Diagrams(nodes) : ~(nodes[i].src = "note")}
Draw(i) ==
    /\ final /\ bundle = "there" /\ drawing = Idle
    /\ i \in Undrawn /\ \A k \in Undrawn : i <= k
    /\ drawing' = [i |-> i, theme |-> config]
    /\ crossed' = IF config = theme THEN crossed ELSE crossed \cup {i}
    /\ UNCHANGED <<answer, final, nodes, bundle, theme, config, redraw, moves>>

\* A figure takes the place of its source; a diagram that does not parse keeps it,
\* with a note.
Drawn ==
    /\ drawing # Idle /\ drawing' = Idle
    /\ nodes' = IF answer[drawing.i].path = "good"
                THEN [nodes EXCEPT ![drawing.i].is = "figure", ![drawing.i].src = drawing.theme]
                ELSE [nodes EXCEPT ![drawing.i].src = "note"]
    /\ UNCHANGED <<answer, final, bundle, theme, config, redraw, crossed, moves>>

Figures == {i \in DOMAIN nodes : nodes[i].is = "figure"}

\* Mutant of Themed: mermaid is not told.
Themed_untold ==
    /\ Spend /\ theme' \in Themes \ {theme}
    /\ redraw' = IF bundle = "there" THEN Figures ELSE redraw
    /\ crossed' = IF drawing = Idle THEN crossed ELSE crossed \cup {drawing.i}
    /\ UNCHANGED <<answer, final, nodes, bundle, config, drawing>>

\* The theme changes: mermaid is told and the figures on the page are drawn again,
\* if the bundle was ever loaded and there is a figure.  A redraw under way goes on
\* in the new theme.
Themed ==
    /\ Spend /\ theme' \in Themes \ {theme}
    /\ IF bundle = "there" /\ Figures # {}
       THEN redraw' = Figures /\ config' = theme' ELSE UNCHANGED <<redraw, config>>
    /\ crossed' = IF drawing = Idle THEN crossed ELSE crossed \cup {drawing.i}
    /\ UNCHANGED <<answer, final, nodes, bundle, drawing>>

Redrawn(i) ==
    /\ i \in redraw /\ redraw' = redraw \ {i}
    /\ nodes' = [nodes EXCEPT ![i].src = config]
    /\ UNCHANGED <<answer, final, bundle, theme, config, drawing, crossed, moves>>

\* Another conversation is opened: what was being drawn is not on the page any more.
Leave ==
    /\ final /\ Spend
    /\ answer' = <<>> /\ final' = FALSE /\ nodes' = <<>>
    /\ drawing' = Idle /\ redraw' = {} /\ crossed' = {}
    /\ UNCHANGED <<bundle, theme, config>>

Next ==
    \/ Final \/ BundleLoaded \/ Drawn \/ Themed \/ Leave
    \/ \E it \in Items : Frame(it)
    \/ \E i \in 1..MaxItems : Seen(i) \/ Draw(i) \/ Redrawn(i)

Spec == Init /\ [][Next]_vars

-----------------------------------------------------------------------------
\* A picture or film is fetched at most once: never for a frame that the next one
\* replaces, never for the detached copy the HTML is made from.
FetchedOnce == \A i \in DOMAIN nodes :
    /\ nodes[i].fetched <= 1
    /\ ~final => nodes[i].fetched = 0
    /\ final /\ nodes[i].is = "image" => nodes[i].fetched = 1

\* At rest every figure wears the page's theme, except one the theme changed under
\* while it was being drawn, or after a change mermaid was not told of because no
\* figure was on the page: nothing draws those again.
FiguresThemed ==
    drawing = Idle /\ redraw = {} =>
        \A i \in Figures \ crossed : nodes[i].src = theme

RenderingFaithful == FetchedOnce /\ FiguresThemed

-----------------------------------------------------------------------------
\* The inductive invariant behind RenderingFaithful

TypeInv ==
    /\ answer \in Seq(Items) /\ final \in BOOLEAN
    /\ nodes \in Seq([is : {"source", "figure", "text", "image", "video", "broken", "link"},
                      src : {"none", "parked", "set", "note"} \cup Themes, fetched : Nat])
    /\ Len(nodes) = Len(answer)
    /\ theme \in Themes /\ config \in Themes \cup {"none"}

\* Only what can be fetched ever is, and a figure stands only in a closed segment,
\* behind a bundle that is there.
NodeInv == \A i \in DOMAIN nodes :
    /\ nodes[i].is \notin {"image", "video"} => nodes[i].fetched = 0
    /\ nodes[i].is = "image" => nodes[i].fetched = IF final THEN 1 ELSE 0
    /\ nodes[i].is = "video" => \/ nodes[i].src = "parked" /\ nodes[i].fetched = 0
                                \/ final /\ nodes[i].src = "set" /\ nodes[i].fetched = 1
    /\ nodes[i].is = "figure" => final /\ bundle = "there"

\* What is being drawn is drawn in the page's theme, or noted as crossed.
DrawingInv ==
    /\ bundle = "there" => config \in Themes
    /\ drawing # Idle =>
          /\ final /\ bundle = "there"
          /\ drawing.i \in DOMAIN nodes /\ nodes[drawing.i].is = "source"
          /\ drawing.theme \in Themes
          /\ drawing.i \notin crossed => drawing.theme = theme

\* A figure that was not crossed wears the theme or is about to be drawn in it.
ThemeInv ==
    /\ redraw \subseteq Figures
    /\ redraw # {} => config = theme
    /\ \A i \in Figures \ crossed : i \in redraw \/ nodes[i].src = theme

IInv == TypeInv /\ NodeInv /\ DrawingInv /\ ThemeInv
=============================================================================
