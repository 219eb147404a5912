------------------------------- MODULE Routing -------------------------------
(***************************************************************************)
(* The architecture renderer (archify/renderers/architecture/              *)
(* render-architecture.mjs): it places the ends of the arrows, routes them *)
(* one after another, and asks its gates whether the drawing still says    *)
(* what the document says.  A drawing no gate objects to is written.       *)
(***************************************************************************)
EXTENDS Geometry

CONSTANTS Drawings   \* [boxes, boundaries, connections, profile, nested, merges]

VARIABLES drawing,
          paths,      \* the routes drawn so far, in document order
          gate,       \* what is asked next, "accepted" or "refused"
          problems

vars == <<drawing, paths, gate, problems>>

\* boxes: id -> box; boundaries: sequence of [kind, wraps, pad]; connections:
\* sequence of [from, to, fromSide, toSide, route, via, width, segment], where
\* width is the label's, 0 without one, and segment the authored place of it.
boxes == drawing.boxes
connections == drawing.connections
Connections == DOMAIN connections
obstaclesOf(c) == {boxes[id] : id \in DOMAIN boxes \ {c.from, c.to}}
related(c, d) == {c.from, c.to} \cap {d.from, d.to} # {}

----------------------------------------------------------------------------
(* Where the arrows end. *)

defaultFromSide(from, to) ==
  IF cx(to) < cx(from) THEN "left" ELSE IF cx(to) > cx(from) THEN "right" ELSE IF cy(to) > cy(from) THEN "bottom" ELSE "top"
opposite == [left |-> "right", right |-> "left", top |-> "bottom", bottom |-> "top"]
fromSide(c) == IF c.fromSide # "auto" THEN c.fromSide ELSE defaultFromSide(boxes[c.from], boxes[c.to])
toSide(c) == IF c.toSide # "auto" THEN c.toSide ELSE opposite[defaultFromSide(boxes[c.from], boxes[c.to])]

upright(side) == side \in {"left", "right"}
anchor(r, side) ==
  CASE side = "left" -> <<r.x, cy(r)>>   [] side = "right" -> <<right(r), cy(r)>>
    [] side = "top" -> <<cx(r), r.y>>    [] side = "bottom" -> <<cx(r), bottom(r)>>

\* The ends that share a side of a box: <<connection, "from" or "to">>, in the
\* order of what they lead to; equals in the order of their names, which is
\* taken for that of the document.
Ends == Connections \X {"from", "to"}
boxOf(e) == IF e[2] = "from" THEN connections[e[1]].from ELSE connections[e[1]].to
sideOf(e) == IF e[2] = "from" THEN fromSide(connections[e[1]]) ELSE toSide(connections[e[1]])
counterpart(e) == boxes[boxOf(<<e[1], IF e[2] = "from" THEN "to" ELSE "from">>)]
automatic(c) == c.route = "auto" /\ c.via = <<>>
sharing(e) == {f \in Ends : automatic(connections[f[1]]) /\ boxOf(f) = boxOf(e) /\ sideOf(f) = sideOf(e)}
coordinate(e) == IF upright(sideOf(e)) THEN cy(counterpart(e)) ELSE cx(counterpart(e))
before(e, f) == coordinate(e) < coordinate(f) \/ (coordinate(e) = coordinate(f) /\ e[1] < f[1])

extent(e) == IF upright(sideOf(e)) THEN boxes[boxOf(e)].height ELSE boxes[boxOf(e)].width
usable(e) == Most(0, extent(e) - 32 * Px)
spread(e) == automatic(connections[e[1]]) /\ Cardinality(sharing(e)) > 1 /\ usable(e) > 0

\* automaticPortSpread: at most 14 px apart, 16 px from the corners.
shifted(p, side, by) == IF upright(side) THEN <<p[1], p[2] + by>> ELSE <<p[1] + by, p[2]>>
portOffset(n, place, room) == ((2 * place - (n - 1)) * Least(14 * Px * (n - 1), room)) \div (2 * (n - 1))
port(e) ==
  shifted(anchor(boxes[boxOf(e)], sideOf(e)), sideOf(e),
          IF ~spread(e) THEN 0
          ELSE portOffset(Cardinality(sharing(e)), Cardinality({f \in sharing(e) : before(f, e)}), usable(e)))

----------------------------------------------------------------------------
(* Which way they take. *)

routeClearsComponents(c, points) ==
  \A s \in ToSet(segmentsOf(points)), box \in obstaclesOf(c) : ~segmentIntersectsRect(s, box, 2 * Px)

routeClearsEndpointComponents(c, points) ==
  LET segments == segmentsOf(points) IN
  \A k \in DOMAIN segments :
    /\ k > 1 => ~segmentIntersectsRect(segments[k], boxes[c.from], 0)
    /\ k < Len(segments) => ~segmentIntersectsRect(segments[k], boxes[c.to], 0)

clears(c, points) == routeClearsEndpointComponents(c, points) /\ routeClearsComponents(c, points)

portHasCornerClearance(r, side, point) ==
  IF upright(side)
  THEN point[2] \in r.y + Least(16 * Px, r.height \div 2) .. bottom(r) - Least(16 * Px, r.height \div 2)
  ELSE point[1] \in r.x + Least(16 * Px, r.width \div 2) .. right(r) - Least(16 * Px, r.width \div 2)

\* alignFacingPorts: ends that face each other and are less than 16 px off are
\* drawn straight, by moving one that shares its side with no other.
level(p, q, sideways) == IF sideways THEN <<p[1], q[2]>> ELSE <<q[1], p[2]>>
straightEnds(i, start, end, sideways) ==
  (IF spread(<<i, "to">>) THEN <<>> ELSE <<<<start, level(end, start, sideways)>>>>)
  \o (IF spread(<<i, "from">>) THEN <<>> ELSE <<<<level(start, end, sideways), end>>>>)
movable(i, c, away) ==
  /\ automatic(c) /\ toSide(c) = opposite[fromSide(c)] /\ away < 16 * Px
  /\ spread(<<i, "from">>) = spread(<<i, "to">>) =>
       ~spread(<<i, "from">>) /\ c.fromSide = "auto" /\ c.toSide = "auto"
straightened(i, c, start, end, sideways) ==
  LET fits(ends) == /\ portHasCornerClearance(boxes[c.from], fromSide(c), ends[1])
                    /\ portHasCornerClearance(boxes[c.to], toSide(c), ends[2])
                    /\ routeHonorsEndpointSides(ends, fromSide(c), toSide(c))
                    /\ clears(c, ends)
      away == IF sideways THEN Distance(start[2], end[2]) ELSE Distance(start[1], end[1]) IN
  Head((IF movable(i, c, away) THEN SelectSeq(straightEnds(i, start, end, sideways), fits) ELSE <<>>)
       \o <<<<start, end>>>>)
aligned(i) ==
  straightened(i, connections[i], port(<<i, "from">>), port(<<i, "to">>), upright(fromSide(connections[i])))

\* The points between the ends, of several routes.
inner(routes) == [k \in DOMAIN routes |-> SubSeq(routes[k], 2, Len(routes[k]) - 1)]
stub(point, side) == <<point[1] + outward[side][1] * 24 * Px, point[2] + outward[side][2] * 24 * Px>>
parallel(c) == upright(fromSide(c)) = upright(toSide(c))
channels(a, b) == <<Most(a, b) + 16 * Px, Least(a, b) - 16 * Px>>

\* The detours beside two ends less than 16 px apart on parallel sides.
detours(c, start, end) ==
  LET s == stub(start, fromSide(c))
      e == stub(end, toSide(c)) IN
  CASE parallel(c) /\ ~upright(fromSide(c)) /\ Distance(start[1], end[1]) < 16 * Px ->
         [k \in 1..2 |-> LET x == channels(start[1], end[1])[k] IN <<s, <<x, s[2]>>, <<x, e[2]>>, e>>]
    [] parallel(c) /\ upright(fromSide(c)) /\ Distance(start[2], end[2]) < 16 * Px ->
         [k \in 1..2 |-> LET y == channels(start[2], end[2])[k] IN <<s, <<s[1], y>>, <<e[1], y>>, e>>]
    [] OTHER -> <<>>

full(start, via, end) == normalizeRoutePoints(<<start>> \o via \o <<end>>)
honors(c, points) == routeHonorsEndpointSides(points, fromSide(c), toSide(c))

fullRoutes(start, vias, end) == [k \in DOMAIN vias |-> full(start, vias[k], end)]

automaticPortRhythmBridge(c, start, end) ==
  LET fit(points) == honors(c, points) /\ rhythmIssues(points) = {} /\ clears(c, points) IN
  inner(SelectSeq(fullRoutes(start, detours(c, start, end), end), fit))

collinearBacktrack(a, b, c) == crossProduct(a, b, c) = 0 /\ onward(a, b, c) < 0

elbows(s, e) == <<<<s, <<e[1], s[2]>>, e>>, <<s, <<s[1], e[2]>>, e>>>>
sideAwareBridgeCandidates(c, start, end) ==
  LET turnsBack(points) == \E k \in {2, Len(points) - 1} \cap 2 .. Len(points) - 1 :
                             collinearBacktrack(points[k - 1], points[k], points[k + 1])
      fit(points) == ~turnsBack(points) /\ honors(c, points)
      raw == detours(c, start, end) \o elbows(stub(start, fromSide(c)), stub(end, toSide(c))) IN
  inner(SelectSeq(fullRoutes(start, raw, end), fit))

\* The outside channels of two ends that lie on parallel sides, less than 16 px
\* apart along them.
outside(c, start, end) ==
  LET lies(point, id, side) == IF side THEN point[2] \in {boxes[id].y, bottom(boxes[id])}
                                       ELSE point[1] \in {boxes[id].x, right(boxes[id])}
      beside(side, k) == lies(start, c.from, side) /\ lies(end, c.to, side) /\ Distance(start[k], end[k]) < 16 * Px
      fit(via) == honors(c, <<start>> \o via \o <<end>>) /\ routeClearsComponents(c, <<start>> \o via \o <<end>>) IN
  SelectSeq((IF beside(TRUE, 1) THEN [n \in 1..2 |-> LET x == channels(start[1], end[1])[n] IN <<<<x, start[2]>>, <<x, end[2]>>>>] ELSE <<>>)
            \o (IF beside(FALSE, 2) THEN [n \in 1..2 |-> LET y == channels(start[2], end[2])[n] IN <<<<start[1], y>>, <<end[1], y>>>>] ELSE <<>>),
            fit)

middle(a, b) == (a + b) \div 2
acrossFirst(start, end) == <<<<middle(start[1], end[1]), start[2]>>, <<middle(start[1], end[1]), end[2]>>>>
downFirst(start, end) == <<<<start[1], middle(start[2], end[2])>>, <<end[1], middle(start[2], end[2])>>>>

\* The automatic route: the first in the code's order that fits, or, when
\* nothing does, one that a gate will speak about.
near(c, start, end) ==
  parallel(c) /\ (IF upright(fromSide(c)) THEN Distance(start[2], end[2]) ELSE Distance(start[1], end[1])) < 16 * Px
firstFree(c, start, end, sideSafe, unsafe, sideAware) ==
  LET free(via) == clears(c, <<start>> \o via \o <<end>>)
      ordered == (IF near(c, start, end) THEN sideAware \o sideSafe ELSE sideSafe \o sideAware) \o unsafe IN
  Head(automaticPortRhythmBridge(c, start, end) \o outside(c, start, end) \o SelectSeq(ordered, free)
       \o sideSafe \o sideAware \o <<acrossFirst(start, end)>>)
automaticVia(c, start, end) ==
  LET safe(via) == honors(c, <<start>> \o via \o <<end>>)
      unsafe(via) == ~safe(via)
      doglegs == <<acrossFirst(start, end), downFirst(start, end)>> IN
  IF (Distance(start[1], end[1]) < 4 * Px \/ Distance(start[2], end[2]) < 4 * Px) /\ safe(<<>>) THEN <<>>
  ELSE firstFree(c, start, end, SelectSeq(doglegs, safe), SelectSeq(doglegs, unsafe),
                 sideAwareBridgeCandidates(c, start, end))

routeVia(c, start, end) ==
  CASE c.via # <<>> -> c.via
    [] c.via = <<>> /\ c.route = "straight" -> <<>>
    [] c.via = <<>> /\ c.route = "orthogonal-h" -> acrossFirst(start, end)
    [] c.via = <<>> /\ c.route = "orthogonal-v" -> downFirst(start, end)
    [] OTHER -> automaticVia(c, start, end)

joined(c, ends) == <<ends[1]>> \o routeVia(c, ends[1], ends[2]) \o <<ends[2]>>
pathFor(i) == joined(connections[i], aligned(i))

----------------------------------------------------------------------------
(* What the gates ask. *)

profile == drawing.profile
\* boundaryRect: 30 px around the members by default, room for the title
\* above and 20 px below.
frame(b) ==
  LET members == {boxes[id] : id \in b.wraps \cap DOMAIN boxes}
      x1 == Min({r.x : r \in members})
      y1 == Min({r.y : r \in members})
      top == Most(b.pad, 22 * Px) IN
  [x |-> x1 - b.pad, y |-> y1 - top,
   width |-> Max({right(r) : r \in members}) - x1 + 2 * b.pad,
   height |-> Max({bottom(r) : r \in members}) - y1 + top + 20 * Px,
   radius |-> (IF b.kind = "security-group" THEN 8 ELSE 12) * Px, wraps |-> b.wraps]
frames == [k \in DOMAIN drawing.boundaries |-> frame(drawing.boundaries[k])]

rectContains(a, b) == a.x <= b.x /\ a.y <= b.y /\ right(a) >= right(b) /\ bottom(a) >= bottom(b)

nested(a, b) ==
  LET inside == a.wraps \subseteq b.wraps
      around == b.wraps \subseteq a.wraps
      shared == a.wraps \cap b.wraps # {} IN
  /\ shared => inside \/ around
  /\ rectsOverlap(a, b, 0) =>
       shared /\ ((inside /\ rectContains(b, a)) \/ (around /\ rectContains(a, b)))
nestingProblems ==
  {<<"nesting", p[1], p[2]>> : p \in {p \in (DOMAIN frames) \X (DOMAIN frames) :
     p[1] < p[2] /\ ~nested(frames[p[1]], frames[p[2]])}}

spacingProblems ==
  {<<"spacing", p[1], p[2]>> : p \in {p \in (DOMAIN boxes) \X (DOMAIN boxes) : p[1] # p[2] /\ rectsOverlap(boxes[p[1]], boxes[p[2]], 8 * Px)}}

tooShort(points) ==
  LET a == points[1]
      b == Last(points) IN
  (b[1] - a[1]) * (b[1] - a[1]) + (b[2] - a[2]) * (b[2] - a[2]) < 24 * Px * 24 * Px

\* An authored geometry is asked only about sides the author named.
authored(c) == c.route # "auto" \/ c.via # <<>>
sideProblems ==
  {<<"side", i, "source">> : i \in {i \in Connections : (connections[i].fromSide # "auto" \/ ~authored(connections[i]))
                                                       /\ ~honorsSide(paths[i], "source", fromSide(connections[i]))}}
  \cup {<<"side", i, "target">> : i \in {i \in Connections : (connections[i].toSide # "auto" \/ ~authored(connections[i]))
                                                            /\ ~honorsSide(paths[i], "target", toSide(connections[i]))}}

flowProblems ==
  {<<"flow", i>> : i \in {i \in Connections : ~routeClearsComponents(connections[i], paths[i])}}

Unrelated == {p \in Connections \X Connections : p[1] < p[2] /\ ~related(connections[p[1]], connections[p[2]])}
analysis(points) == ToSet(IF drawing.merges THEN forwardCollinearAnalysisSegments(points) ELSE segmentsOf(points))

crossingProblems ==
  {<<"crossing", p[1], p[2]>> : p \in {p \in Unrelated :
     \E s \in analysis(paths[p[1]]), t \in analysis(paths[p[2]]) : properSegmentIntersection(s.start, s.end, t.start, t.end)}}

collectAmbiguousCorridors ==
  {<<"corridor", p[1], p[2]>> : p \in {p \in Unrelated :
     \E s \in ToSet(segmentsOf(normalizeRoutePoints(paths[p[1]]))), t \in ToSet(segmentsOf(normalizeRoutePoints(paths[p[2]]))) :
       sharedLength(s, t) >= 8 * Px}}

\* The straight part of each side of a frame, between its rounded corners.
frameBorderSegments(f) ==
  LET r == Least(f.radius, Least(f.width \div 2, f.height \div 2))
      horizontal == {[start |-> <<f.x + r, y>>, end |-> <<right(f) - r, y>>] : y \in {f.y, bottom(f)}}
      vertical == {[start |-> <<x, f.y + r>>, end |-> <<x, bottom(f) - r>>] : x \in {f.x, right(f)}} IN
  {s \in horizontal \cup vertical : s.start # s.end}

collectBorderRuns ==
  {<<"border", p[1], p[2]>> : p \in {p \in Connections \X (DOMAIN frames) :
     \E s \in ToSet(segmentsOf(paths[p[1]])), t \in frameBorderSegments(frames[p[2]]) : sharedLength(s, t) > 0}}

collectRouteRhythmIssues == {<<"rhythm", i>> : i \in {i \in Connections : rhythmIssues(paths[i]) # {}}}

\* labelPoint, and the box of the text around it.
labelled == {i \in Connections : connections[i].width > 0}
labelRect(i) ==
  LET points == paths[i]
      k == Least(Len(points) - 1, Most(1, connections[i].segment))
      x == middle(points[k][1], points[k + 1][1])
      y == IF Len(points) = 2 THEN points[1][2] ELSE middle(points[k][2], points[k + 1][2]) IN
  [x |-> x - connections[i].width \div 2, y |-> y - 20 * Px, width |-> connections[i].width, height |-> 14 * Px]

labelProblems ==
  {<<"label", i>> : i \in {i \in labelled : \E id \in DOMAIN boxes : rectsOverlap(labelRect(i), boxes[id], -2 * Px)}}

collectLabelRouteClearance ==
  {<<"clearance", p[1], p[2]>> : p \in {p \in labelled \X Connections :
     p[1] # p[2] /\ \E s \in ToSet(segmentsOf(normalizeRoutePoints(paths[p[2]]))) : segmentNearRect(s, labelRect(p[1]), 4 * Px)}}

----------------------------------------------------------------------------
(* The renderer's run: the routes in document order, then gate by gate.     *)
(* Every gate is asked, whatever the ones before it found.                  *)

Init == drawing \in Drawings /\ paths = <<>> /\ gate = "boxes" /\ problems = {}

Ask(now, next, found) ==
  /\ gate = now
  /\ problems' = problems \cup found
  /\ gate' = next
  /\ UNCHANGED <<drawing, paths>>

showcase(found) == IF profile = "showcase" THEN found ELSE {}

Boxes == Ask("boxes", "nesting", spacingProblems)
Nesting == Ask("nesting", "routes", IF drawing.nested THEN nestingProblems ELSE {})

RouteNext ==
  /\ gate = "routes" /\ Len(paths) < Len(connections)
  /\ \E points \in {pathFor(Len(paths) + 1)} :
       /\ paths' = Append(paths, points)
       /\ problems' = problems \cup (IF tooShort(points) THEN {<<"short", Len(paths) + 1>>} ELSE {})
  /\ UNCHANGED <<drawing, gate>>

Sides == Len(paths) = Len(connections) /\ Ask("routes", "flow", sideProblems)
Flow == Ask("flow", "crossing", flowProblems)
Crossing == Ask("crossing", "corridor", showcase(crossingProblems))
Corridor == Ask("corridor", "border", showcase(collectAmbiguousCorridors))
Border == Ask("border", "rhythm", IF profile = "none" THEN {} ELSE collectBorderRuns)
Rhythm == Ask("rhythm", "labels", showcase(collectRouteRhythmIssues))
Labels == Ask("labels", "clearance", labelProblems)
Clearance == Ask("clearance", "write", showcase(collectLabelRouteClearance))

\* throwDiagnosticProblems, or the drawing.
Conclude ==
  /\ gate = "write"
  /\ gate' = IF problems = {} THEN "accepted" ELSE "refused"
  /\ UNCHANGED <<drawing, paths, problems>>

Next == \/ Boxes \/ Nesting \/ RouteNext \/ Sides \/ Flow \/ Crossing \/ Corridor \/ Border \/ Rhythm
        \/ Labels \/ Clearance \/ Conclude

Spec == Init /\ [][Next]_vars

----------------------------------------------------------------------------
(* What a drawing that was accepted shows, told without the code's own      *)
(* geometry: a line misses a box when a line parallel to an axis, or the    *)
(* line itself, lies between the two.                                       *)

accepted == gate = "accepted"
lines(i) == ToSet(segmentsOf(paths[i]))

\* The segment meets the box grown by gap: nothing separates them.
touches(s, r, gap) ==
  LET corners == {<<x, y>> : x \in {r.x - gap, right(r) + gap}, y \in {r.y - gap, bottom(r) + gap}}
      sides == {crossProduct(s.start, s.end, p) : p \in corners} IN
  /\ Most(s.start[1], s.end[1]) >= r.x - gap /\ Least(s.start[1], s.end[1]) <= right(r) + gap
  /\ Most(s.start[2], s.end[2]) >= r.y - gap /\ Least(s.start[2], s.end[2]) <= bottom(r) + gap
  /\ s.start # s.end => ~(\A v \in sides : v > 0) /\ ~(\A v \in sides : v < 0)

\* No arrow runs behind a box it does not belong to.
NothingBehindABox ==
  accepted => \A i \in Connections : \A s \in lines(i), box \in obstaclesOf(connections[i]) : ~touches(s, box, 2 * Px)

\* An arrow leaves its box and comes to its box from outside: it does not run
\* behind the boxes it joins either.
outsideItsBoxes(i) ==
  LET segments == segmentsOf(paths[i]) IN
  \A k \in DOMAIN segments :
    /\ k > 1 => ~touches(segments[k], boxes[connections[i].from], 0)
    /\ k < Len(segments) => ~touches(segments[k], boxes[connections[i].to], 0)

\* So it is for the arrows the renderer places and routes alone ...
OwnBoxesKept ==
  accepted => \A i \in Connections :
    automatic(connections[i]) /\ connections[i].fromSide = "auto" /\ connections[i].toSide = "auto" => outsideItsBoxes(i)

\* The ends on one side of a box are apart, stay on that side, and lie in the
\* order of what they lead to, so that arrows do not cross in front of it.
PortsApart ==
  \A e, f \in Ends : spread(e) /\ f \in sharing(e) /\ before(e, f) =>
    LET k == IF upright(sideOf(e)) THEN 2 ELSE 1
        r == boxes[boxOf(e)] IN
    /\ port(e)[k] < port(f)[k] /\ port(e)[3 - k] = port(f)[3 - k]
    /\ {port(e)[k], port(f)[k]} \subseteq (IF k = 2 THEN r.y + 16 * Px .. bottom(r) - 16 * Px ELSE r.x + 16 * Px .. right(r) - 16 * Px)

\* Where a route passes straight through a point, and along which axis.
passes(i, p, axis) ==
  LET segments == segmentsOf(paths[i])
      across == 3 - axis
      flat(s) == s.start[across] = p[across] /\ s.end[across] = p[across] /\ s.start[axis] # s.end[axis]
      within(s) == flat(s) /\ p[axis] > Least(s.start[axis], s.end[axis]) /\ p[axis] < Most(s.start[axis], s.end[axis]) IN
  \/ \E s \in ToSet(segments) : within(s)
  \/ drawing.merges /\ \E k \in 2 .. Len(segments) :
       /\ segments[k].start = p /\ flat(segments[k - 1]) /\ flat(segments[k])
       /\ (segments[k - 1].start[axis] < p[axis]) = (p[axis] < segments[k].end[axis])

\* In a showcase arrows that join different boxes do not cross, and do not run
\* on one another for 8 px.
meetings(i, j) == {<<x, y>> : x \in {p[1] : p \in ToSet(paths[i]) \cup ToSet(paths[j])}, y \in {p[2] : p \in ToSet(paths[i]) \cup ToSet(paths[j])}}
covers(i, axis, line) ==   \* the whole pixels of a line a route runs on
  UNION {(Least(s.start[axis], s.end[axis]) + Px - 1) \div Px .. Most(s.start[axis], s.end[axis]) \div Px - 1 :
         s \in {s \in lines(i) : s.start[3 - axis] = line /\ s.end[3 - axis] = line}}
ArrowsApart ==
  accepted /\ profile = "showcase" => \A p \in Unrelated :
    /\ ~\E m \in meetings(p[1], p[2]), axis \in 1..2 : passes(p[1], m, axis) /\ passes(p[2], m, 3 - axis)
    /\ \A axis \in 1..2 : \A line \in {q[3 - axis] : q \in ToSet(paths[p[1]])} :
         LET common == covers(p[1], axis, line) \cap covers(p[2], axis, line) IN
         ~\E n \in common : n .. n + 7 \subseteq common

\* No arrow runs along the border of a frame, where it would look like a part
\* of it.
BordersFree ==
  accepted /\ profile # "none" => \A i \in Connections, k \in DOMAIN frames :
    LET f == frames[k] IN
    /\ \A y \in {f.y, bottom(f)} : \A n \in covers(i, 1, y) : ~(n * Px >= f.x + f.radius /\ (n + 1) * Px <= right(f) - f.radius)
    /\ \A x \in {f.x, right(f)} : \A n \in covers(i, 2, x) : ~(n * Px >= f.y + f.radius /\ (n + 1) * Px <= bottom(f) - f.radius)

\* In a showcase no stretch of another arrow along an axis comes close to a label (such
\* a stretch is a box without width).
apart(a, b, gap) ==
  LET dx == Most(0, Most(b.x - right(a), a.x - right(b)))
      dy == Most(0, Most(b.y - bottom(a), a.y - bottom(b))) IN
  dx * dx + dy * dy >= gap * gap
asBox(s) == [x |-> Least(s.start[1], s.end[1]), y |-> Least(s.start[2], s.end[2]),
             width |-> Distance(s.start[1], s.end[1]), height |-> Distance(s.start[2], s.end[2])]
LabelsReadable ==
  accepted /\ profile = "showcase" => \A i \in labelled : \A j \in Connections \ {i} : \A s \in lines(j) :
    s.start[1] = s.end[1] \/ s.start[2] = s.end[2] => apart(asBox(s), labelRect(i), 4 * Px)

\* Where ownership is declared, frames show it: one lies inside another only
\* with its members, and what lies in two frames is owned by both.
FramesNest ==
  accepted /\ drawing.nested => \A a, b \in ToSet(frames) :
    \/ ~rectsOverlap(a, b, 0)
    \/ a.wraps \subseteq b.wraps /\ rectContains(b, a)
    \/ b.wraps \subseteq a.wraps /\ rectContains(a, b)

RoutingFaithful == NothingBehindABox /\ OwnBoxesKept /\ PortsApart /\ ArrowsApart /\ BordersFree /\ LabelsReadable /\ FramesNest

=============================================================================
