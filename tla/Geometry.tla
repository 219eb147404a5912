------------------------------ MODULE Geometry ------------------------------
(***************************************************************************)
(* The geometry every renderer draws and judges with                       *)
(* (archify/renderers/shared/geometry.mjs): boxes, routes, and the gates   *)
(* that refuse a drawing whose arrows do not say what the document says.   *)
(*                                                                         *)
(* A point is <<x, y>>, a box [x, y, width, height], a route the sequence  *)
(* of its points.  Coordinates are integers in quarters of a pixel, so     *)
(* that the code's halves are exact and its tolerance of 0.0001 px is the  *)
(* comparison itself.                                                      *)
(***************************************************************************)
EXTENDS Integers, Sequences, SequencesExt, FiniteSetsExt

Px == 4

Least(a, b) == IF a <= b THEN a ELSE b
Most(a, b) == IF a >= b THEN a ELSE b
Distance(a, b) == IF a <= b THEN b - a ELSE a - b

right(r) == r.x + r.width
bottom(r) == r.y + r.height
cx(r) == r.x + r.width \div 2
cy(r) == r.y + r.height \div 2

segmentsOf(points) == [i \in 1 .. Len(points) - 1 |-> [start |-> points[i], end |-> points[i + 1]]]

----------------------------------------------------------------------------
(* Boxes and lines. *)

rectsOverlap(a, b, gap) ==
  /\ right(a) + gap > b.x /\ right(b) + gap > a.x
  /\ bottom(a) + gap > b.y /\ bottom(b) + gap > a.y

crossProduct(a, b, c) == (b[1] - a[1]) * (c[2] - a[2]) - (b[2] - a[2]) * (c[1] - a[1])
onward(a, b, c) == (b[1] - a[1]) * (c[1] - b[1]) + (b[2] - a[2]) * (c[2] - b[2])

orientation(a, b, c) == LET value == crossProduct(a, b, c) IN IF value = 0 THEN 0 ELSE IF value < 0 THEN 1 ELSE 2
onSegment(a, b, c) == \A k \in 1..2 : b[k] \in Least(a[k], c[k]) .. Most(a[k], c[k])

segmentsIntersect(a, b, c, d) ==
  \/ \E p \in {c, d} : orientation(a, b, p) = 0 /\ onSegment(a, p, b)
  \/ \E p \in {a, b} : orientation(c, d, p) = 0 /\ onSegment(c, p, d)
  \/ orientation(a, b, c) # orientation(a, b, d) /\ orientation(c, d, a) # orientation(c, d, b)

segmentIntersectsRect(s, rect, gap) ==
  LET xs == {rect.x - gap, right(rect) + gap}
      ys == {rect.y - gap, bottom(rect) + gap}
      edges == {<<<<x, rect.y - gap>>, <<x, bottom(rect) + gap>>>> : x \in xs}
               \cup {<<<<rect.x - gap, y>>, <<right(rect) + gap, y>>>> : y \in ys} IN
  \/ \E p \in {s.start, s.end} : /\ p[1] \in rect.x - gap .. right(rect) + gap
                                 /\ p[2] \in rect.y - gap .. bottom(rect) + gap
  \/ \E e \in edges : segmentsIntersect(s.start, s.end, e[1], e[2])

\* segmentRectClearance < gap, on squares: 0 when they meet, otherwise from an
\* end of the segment to the box or from a corner of the box to the segment.
pointNearRect(p, rect, gap) ==
  LET dx == Most(Most(rect.x - p[1], 0), p[1] - right(rect))
      dy == Most(Most(rect.y - p[2], 0), p[2] - bottom(rect)) IN
  dx * dx + dy * dy < gap * gap

pointNearSegment(p, s, gap) ==
  LET dx == s.end[1] - s.start[1]
      dy == s.end[2] - s.start[2]
      length2 == dx * dx + dy * dy
      along == (p[1] - s.start[1]) * dx + (p[2] - s.start[2]) * dy
      near(q) == (p[1] - q[1]) * (p[1] - q[1]) + (p[2] - q[2]) * (p[2] - q[2]) < gap * gap IN
  IF length2 = 0 \/ along <= 0 THEN near(s.start)
  ELSE IF along >= length2 THEN near(s.end)
  ELSE LET off == Distance(0, crossProduct(s.start, s.end, p))   \* off / gap < the length, in whole parts and rest
           whole == off \div gap
           rest == off % gap IN
       /\ whole < Distance(0, dx) + Distance(0, dy) /\ whole * whole <= length2
       /\ 2 * whole * rest * gap + rest * rest < (length2 - whole * whole) * gap * gap

segmentNearRect(s, rect, gap) ==
  \/ segmentIntersectsRect(s, rect, 0) /\ gap > 0
  \/ pointNearRect(s.start, rect, gap) \/ pointNearRect(s.end, rect, gap)
  \/ \E x \in {rect.x, right(rect)}, y \in {rect.y, bottom(rect)} : pointNearSegment(<<x, y>>, s, gap)

properSegmentIntersection(a, b, c, d) ==
  LET opposite(m, n) == (m > 0 /\ n < 0) \/ (m < 0 /\ n > 0) IN
  /\ opposite(crossProduct(a, b, c), crossProduct(a, b, d))
  /\ opposite(crossProduct(c, d, a), crossProduct(c, d, b))

\* The stretch two parallel lines on one axis share: [axis, low, high], empty
\* when low >= high.
collinearAxisOverlap(s, t) ==
  LET common(axis) ==
        [axis |-> axis,
         low |-> Most(Least(s.start[axis], s.end[axis]), Least(t.start[axis], t.end[axis])),
         high |-> Least(Most(s.start[axis], s.end[axis]), Most(t.start[axis], t.end[axis]))]
      flat(across) == Cardinality({s.start[across], s.end[across], t.start[across], t.end[across]}) = 1 IN
  CASE flat(2) -> common(1)
    [] flat(1) /\ ~flat(2) -> common(2)
    [] OTHER -> [axis |-> 0, low |-> 0, high |-> 0]
extentOf(overlap) == Most(0, overlap.high - overlap.low)
sharedLength(s, t) == extentOf(collinearAxisOverlap(s, t))

----------------------------------------------------------------------------
(* Routes. *)

collinearForward(a, b, c) == crossProduct(a, b, c) = 0 /\ onward(a, b, c) >= 0

\* One point of each run of equal ones; then, behind each new point, every
\* point that lies on the way to it is taken back.
deduped(points) == FoldLeft(LAMBDA kept, p : IF kept # <<>> /\ Last(kept) = p THEN kept ELSE Append(kept, p), <<>>, points)
normalizeRoutePoints(points) ==
  FoldLeft(LAMBDA kept, p :
             LET stays == Max({n \in 0 .. Len(kept) : n < 2 \/ ~collinearForward(kept[n - 1], kept[n], p)})
             IN Append(SubSeq(kept, 1, stays), p),
           <<>>, deduped(points))

segmentsContinueForward(s, t) ==
  /\ s.end = t.start /\ s.start # s.end /\ t.start # t.end
  /\ crossProduct(s.start, s.end, t.end) = 0 /\ onward(s.start, s.end, t.end) > 0

forwardCollinearAnalysisSegments(points) ==
  FoldLeft(LAMBDA kept, s : IF kept # <<>> /\ segmentsContinueForward(Last(kept), s)
                            THEN SubSeq(kept, 1, Len(kept) - 1) \o <<[Last(kept) EXCEPT !.end = s.end]>>
                            ELSE Append(kept, s),
           <<>>, segmentsOf(points))

outward == [left |-> <<-1, 0>>, right |-> <<1, 0>>, top |-> <<0, -1>>, bottom |-> <<0, 1>>]

\* endpointSideIssue: the first segment must leave along the side's outward
\* direction, the last one come in against it.
leaves(a, b, side) ==
  LET across == IF outward[side][1] = 0 THEN 1 ELSE 2 IN
  a[across] = b[across] /\ outward[side][1] * (b[1] - a[1]) + outward[side][2] * (b[2] - a[2]) > 0

endHonors(route, end, side) ==
  \/ Len(route) < 2
  \/ end = "source" /\ leaves(route[1], route[2], side)
  \/ end = "target" /\ leaves(route[Len(route)], route[Len(route) - 1], side)
honorsSide(points, end, side) == endHonors(normalizeRoutePoints(points), end, side)

routeHonorsEndpointSides(points, fromSide, toSide) ==
  \E route \in {normalizeRoutePoints(points)} :
     endHonors(route, "source", fromSide) /\ endHonors(route, "target", toSide)

length(s) == Distance(s.start[1], s.end[1]) + Distance(s.start[2], s.end[2])

\* collectRouteRhythmIssues: a segment below 8 px, or one between two bends
\* below 16 px.
shortSegments(route) ==
  {i \in DOMAIN route :
     \/ length(route[i]) < 8 * Px
     \/ length(route[i]) < 16 * Px /\ i # 1 /\ i # Len(route)}
rhythmIssues(points) == shortSegments(segmentsOf(normalizeRoutePoints(points)))

=============================================================================
