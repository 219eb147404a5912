------------------------------- MODULE Delta -------------------------------
(***************************************************************************)
(* The architecture comparison (archify/delta/architecture-delta.mjs):     *)
(* what `compare` says changed between two snapshots, what it draws for    *)
(* each change, the check that refuses a page whose drawing does not carry *)
(* exactly what its rows promise, and the player of the finished page that *)
(* walks through the changes one by one.                                   *)
(*                                                                         *)
(* A snapshot is two components "a" and "s", one relationship "e" and one  *)
(* boundary "b", each there or not; a field group of an entity is one or   *)
(* two fields with a couple of values.  A drawing is the sequence of the   *)
(* tags that carry an identity.                                            *)
(***************************************************************************)
EXTENDS Integers, Sequences, FiniteSets, SequencesExt

CONSTANTS Pairs,     \* the pairs [base, head] of snapshots compared
          MaxMoves   \* how many things happen to the page

VARIABLES pair,      \* the snapshots the page was built from
          view,      \* the canvas that is shown
          active,    \* activeIndex: the row under review, -1 for the overview
          lit,       \* the rows whose marks carry data-delta-review-current
          play,      \* [on, token, timers, handle]: the playback
          moves

vars == <<pair, view, active, lit, play, moves>>

Absent == [absent |-> TRUE]
Ids == {"a", "s", "e", "b"}
kindOf == [a |-> "component", s |-> "component", e |-> "connection", b |-> "boundary"]

\* COMPONENT_FIELDS, CONNECTION_FIELDS, BOUNDARY_FIELDS: the fields of each
\* classification; the ones that always change together are one field.
groups == [component  |-> [semantic |-> {"face"}, evidence |-> {"sources"}, geometry |-> {"place"}],
           connection |-> [topology |-> {"ends"}, semantic |-> {"label", "variant"}, geometry |-> {"route"}],
           boundary   |-> [scope |-> {"wraps"}, geometry |-> {"pad"}]]

\* All the fields of an entity.
fieldsOf(kind) == UNION {groups[kind][c] : c \in DOMAIN groups[kind]}

identityClassification == [component |-> "semantic", connection |-> "topology", boundary |-> "scope"]

fieldChanges(before, after, kind) ==
  LET changed(c) == {f \in groups[kind][c] : before[f] # after[f]}
      classes == {c \in DOMAIN groups[kind] : changed(c) # {}} IN
  [classifications |-> classes, changedFields |-> UNION {changed(c) : c \in classes}]

statusFor(classes, kind) ==
  CASE classes \cap {"topology", "semantic", "scope"} # {} -> "changed"
    [] classes \cap {"topology", "semantic", "scope"} = {} /\ "evidence" \in classes -> "evidence-changed"
    [] classes = {"geometry"} -> [component |-> "moved", connection |-> "rerouted", boundary |-> "geometry-changed"][kind]
    [] OTHER -> "same"

\* compareEntities for one id: its row, of which the unchanged get none.
rowOf(base, head, id) ==
  LET kind == kindOf[id]
      whole(status) == [id |-> id, kind |-> kind, status |-> status, changedFields |-> {},
                        classifications |-> {identityClassification[kind]}]
      fields == fieldChanges(base[id], head[id], kind) IN
  CASE base[id] = Absent -> whole("added")
    [] base[id] # Absent /\ head[id] = Absent -> whole("removed")
    [] OTHER -> [id |-> id, kind |-> kind, status |-> statusFor(fields.classifications, kind),
                 changedFields |-> fields.changedFields, classifications |-> fields.classifications]

\* compareArchitecture: refused without a component in both snapshots, else
\* the changes; the order of the page's rows is by status, kind and id.
comparable(base, head) == \E id \in {"a", "s"} : base[id] # Absent /\ head[id] # Absent

statusOrder == <<"added", "changed", "evidence-changed", "geometry-changed", "moved", "removed", "rerouted">>
idOrder == <<"b", "a", "s", "e">>   \* Boundary < Component < Relationship
rank(x, order) == CHOOSE i \in 1..Len(order) : order[i] = x
place(r) == 10 * rank(r.status, statusOrder) + rank(r.id, idOrder)

differs(base, head, id) ==
  (base[id] # Absent \/ head[id] # Absent) /\ rowOf(base, head, id).status # "same"
changes(base, head) == {rowOf(base, head, id) : id \in {id \in Ids : differs(base, head, id)}}
before(r, all) == {q \in all : place(q) < place(r)}

architectureDeltaChangeRows(base, head) ==
  LET all == changes(base, head) IN
  [i \in 1..Cardinality(all) |-> CHOOSE r \in all : Cardinality(before(r, all)) = i - 1]

\* summaryFor: the cells of the receipt, one per status of the kind.
shapeOf == [component |-> {"added", "changed", "evidence-changed", "removed", "moved"},
            connection |-> {"added", "changed", "removed", "rerouted"},
            boundary |-> {"added", "changed", "removed", "geometry-changed"}]
summaryFor(rows, kind) ==
  [status \in shapeOf[kind] |-> Cardinality({i \in DOMAIN rows : rows[i].kind = kind /\ rows[i].status = status})]

----------------------------------------------------------------------------
(* What is drawn. *)

tag(name, id, state, classes) == [name |-> name, id |-> id, state |-> state, classes |-> classes]

\* One entity as a renderer draws it, every tag put through addState (or
\* forceElementState, forceBoundaryState) with one state: a component is a
\* group, a relationship a path and, with a label, a group, a boundary a frame
\* and a text that carries the state but no classifications.
drawn(kind, id, entity, state, classes) ==
  CASE kind = "component" -> <<tag("g", id, state, classes)>>
    [] kind = "connection" -> <<tag("path", id, state, classes)>>
                              \o (IF entity.label # 0 THEN <<tag("g", id, state, classes)>> ELSE <<>>)
    [] kind = "boundary" -> <<tag("rect", id, state, classes), tag("text", id, state, {})>>

\* annotateArchitectureSideSvg: the current snapshot, every entity of it with
\* the state of its change; an unchanged boundary is left as it is.
annotateArchitectureSideSvg(head, rows, id) ==
  LET kind == kindOf[id]
      mine == {r \in ToSet(rows) : r.id = id} IN
  CASE head[id] = Absent -> <<>>
    [] head[id] # Absent /\ mine = {} -> IF kind = "boundary" THEN <<>> ELSE drawn(kind, id, head[id], "same", {})
    [] OTHER -> LET r == CHOOSE r \in mine : TRUE IN drawn(kind, id, head[id], r.status, r.classifications)

\* Mutant of phantomState: the phantom of a move is drawn only when moving is all the
\* entity did.
phantomState_pure(r) ==
  CASE r.status = "removed" -> "removed"
    [] r.status = "changed" /\ "topology" \in r.classifications -> "removed"
    [] r.status \in {"changed", "geometry-changed"} /\ r.kind = "boundary" -> "moved-from"
    [] r.status \in {"moved", "rerouted"} -> "moved-from"
    [] OTHER -> "none"

\* The state a row's baseline copy is drawn with, if the old one is drawn too:
\* the phantom loops of buildDeltaSvg.
phantomState(r) ==
  CASE r.status = "removed" -> "removed"
    [] r.status \notin {"removed", "added"} /\ r.kind = "connection" /\ "topology" \in r.classifications -> "removed"
    [] r.status \notin {"removed", "added"} /\ r.kind = "boundary" -> "moved-from"
    [] r.status \notin {"removed", "added"} /\ r.kind # "boundary" /\ "topology" \notin r.classifications
       /\ "geometry" \in r.classifications -> "moved-from"
    [] OTHER -> "none"

phantoms(base, r) ==
  IF phantomState(r) = "none" THEN <<>>
  ELSE drawn(r.kind, r.id, base[r.id], phantomState(r), r.classifications)

\* edgeSymbolMarkup: the sign of a relationship carries its identity too; one
\* for the phantom, one for the current path.
edgeMarkers(r) ==
  LET sign(state) == tag("text", r.id, state, {})
      current == IF r.status = "changed" /\ "topology" \in r.classifications THEN "added" ELSE r.status IN
  IF r.kind # "connection" THEN <<>>
  ELSE (IF phantomState(r) # "none" THEN <<sign(phantomState(r))>> ELSE <<>>)
       \o (IF r.status \in {"added", "changed", "rerouted"} THEN <<sign(current)>> ELSE <<>>)

svgOf(base, head, rows) ==
  FlattenSeq([i \in DOMAIN rows |-> phantoms(base, rows[i])])
  \o FlattenSeq([i \in 1..4 |-> annotateArchitectureSideSvg(head, rows, idOrder[i])])
  \o FlattenSeq([i \in DOMAIN rows |-> edgeMarkers(rows[i])])
buildDeltaSvg(base, head) == svgOf(base, head, architectureDeltaChangeRows(base, head))

----------------------------------------------------------------------------
(* What the rows promise, and the check. *)

reviewPrimaryStates(r) ==
  CASE r.kind = "component" /\ "geometry" \in r.classifications -> {r.status, "moved-from"}
    [] r.kind = "connection" /\ r.status = "changed" /\ "topology" \in r.classifications -> {"changed", "removed"}
    [] r.kind = "connection" /\ "topology" \notin r.classifications /\ "geometry" \in r.classifications
       -> {"moved-from", r.status}
    [] r.kind = "boundary" /\ r.status \in {"changed", "geometry-changed"} -> {r.status, "moved-from"}
    [] OTHER -> {r.status}

\* The forms of a relationship: which copies it is drawn in, each with the
\* state of its tags, of its sign, and the label it then shows.
forms(base, head, r) ==
  LET form(state, marker, from) == [state |-> state, marker |-> marker, label |-> from[r.id].label] IN
  CASE r.status = "added" -> <<form("added", "added", head)>>
    [] r.status = "removed" -> <<form("removed", "removed", base)>>
    [] r.status \notin {"added", "removed"} /\ "topology" \in r.classifications ->
         <<form("removed", "removed", base), form("changed", "added", head)>>
    [] r.status \notin {"added", "removed"} /\ "topology" \notin r.classifications /\ "geometry" \in r.classifications ->
         <<form("moved-from", "moved-from", base), form(r.status, r.status, head)>>
    [] OTHER -> <<form("changed", "changed", head)>>

expectedReviewTargetSignature(base, head, r) ==
  LET states == SetToSeq(reviewPrimaryStates(r))
      of(form) == <<tag("path", r.id, form.state, r.classifications), tag("text", r.id, form.marker, {})>>
                  \o (IF form.label # 0 THEN <<tag("g", r.id, form.state, r.classifications)>> ELSE <<>>) IN
  CASE r.kind = "component" -> [i \in DOMAIN states |-> tag("g", r.id, states[i], r.classifications)]
    [] r.kind = "boundary" -> FlattenSeq([i \in DOMAIN states |->
         <<tag("rect", r.id, states[i], r.classifications), tag("text", r.id, states[i], {})>>])
    [] r.kind = "connection" -> FlattenSeq([i \in DOMAIN forms(base, head, r) |-> of(forms(base, head, r)[i])])

\* reviewTargetSignature sorts and joins: two signatures are equal when every
\* tag occurs as often in one as in the other.
sameSignature(s1, s2) ==
  \A t \in ToSet(s1) \cup ToSet(s2) :
    Cardinality({i \in DOMAIN s1 : s1[i] = t}) = Cardinality({i \in DOMAIN s2 : s2[i] = t})

reviewTargetTags(svg, r) == SelectSeq(svg, LAMBDA t : t.id = r.id)

\* validateArchitectureDeltaHtml, row by row; validateReview of the page asks
\* the same of its own document.
rowValid(base, head, svg, r) ==
  LET targets == reviewTargetTags(svg, r)
      name == [component |-> "g", connection |-> "path", boundary |-> "rect"][r.kind]
      primary == SelectSeq(targets, LAMBDA t : t.name = name) IN
  /\ targets # <<>>
  /\ sameSignature(targets, expectedReviewTargetSignature(base, head, r))
  /\ {primary[i].state : i \in DOMAIN primary} = reviewPrimaryStates(r)
  /\ Len(primary) = Cardinality(reviewPrimaryStates(r))
  /\ \A i \in DOMAIN primary : primary[i].classes = r.classifications

validateArchitectureDeltaHtml(base, head) ==
  \E svg \in {buildDeltaSvg(base, head)} :
     \A r \in ToSet(architectureDeltaChangeRows(base, head)) : rowValid(base, head, svg, r)

----------------------------------------------------------------------------
(* The player of the page.  Rows are numbered from 0, as in the page. *)

rows == architectureDeltaChangeRows(pair.base, pair.head)
last == Len(rows) - 1
reviewAvailable == validateArchitectureDeltaHtml(pair.base, pair.head)

Init ==
  /\ pair \in {p \in Pairs : comparable(p.base, p.head)}
  /\ view = "delta" /\ active = -1 /\ lit = {}
  /\ play = [on |-> FALSE, token |-> 0, timers |-> {}, handle |-> <<>>]
  /\ moves = 0

stopped(p) == [on |-> FALSE, token |-> p.token + 1, timers |-> p.timers \ {p.handle}, handle |-> <<>>]

\* selectChange(i): the page shows the change i and lights its marks only.
Select(i) == view' = "delta" /\ active' = i /\ lit' = {i}

\* schedulePlayback, called with the row now under review: nothing is left to
\* show after the last, and the playback stops itself.
schedulePlayback(p, at) ==
  IF at >= last THEN stopped(p)
  ELSE LET timer == <<p.token, at>> IN
       [on |-> p.on, token |-> p.token, timers |-> p.timers \cup {timer}, handle |-> timer]

\* A press of Review or Pause.  With reduced motion, or one change, there is
\* nothing to play: the first change is shown and stays.
startReview(reduced) ==
  /\ rows # <<>>
  /\ IF play.on
     THEN play' = stopped(play) /\ UNCHANGED <<view, active, lit>>
     ELSE LET p == stopped(play)
              on == [on |-> TRUE, token |-> p.token + 1, timers |-> p.timers, handle |-> p.handle] IN
          /\ Select(0)
          /\ play' = IF reduced \/ Len(rows) < 2 THEN p ELSE schedulePlayback(on, 0)
  /\ UNCHANGED pair

\* The timer of a playback goes off: one that was stopped meanwhile, or
\* belongs to an earlier one, changes nothing.
Tick(timer) ==
  /\ timer \in play.timers
  /\ LET p == [play EXCEPT !.timers = @ \ {timer}] IN
     IF play.on /\ timer[1] = play.token
     THEN Select(active + 1) /\ play' = schedulePlayback(p, active + 1)
     ELSE play' = p /\ UNCHANGED <<view, active, lit>>
  /\ UNCHANGED pair

\* A row, or the buttons before and after.
Pick(i) ==
  /\ i \in 0..last
  /\ play' = stopped(play) /\ Select(i)
  /\ UNCHANGED pair

Step == \E d \in {-1, 1} : active >= 0 /\ Pick(active + d)

\* Overview, Escape, and the page about to be printed.
overview ==
  /\ play' = stopped(play)
  /\ view' = "delta" /\ active' = -1 /\ lit' = {}
  /\ UNCHANGED pair

\* A tab shows one of the snapshots instead.
Tab(id) ==
  /\ play' = stopped(play)
  /\ view' = id
  /\ UNCHANGED <<pair, active, lit>>

\* The page is hidden, motion is to be reduced, or a button takes the focus
\* while the review plays.
Interrupted ==
  /\ play' = stopped(play)
  /\ UNCHANGED <<pair, view, active, lit>>

\* What the reader presses once the page has passed its own check, and the rest.
Next ==
  /\ moves < MaxMoves
  /\ moves' = moves + 1
  /\ \/ \E timer \in play.timers : Tick(timer)
     \/ /\ reviewAvailable
        /\ \/ \E reduced \in BOOLEAN : startReview(reduced)
           \/ \E i \in 0..last : Pick(i)
           \/ Step
           \/ overview
     \/ \E id \in {"base", "delta", "head"} : Tab(id)
     \/ Interrupted

Spec == Init /\ [][Next]_vars

----------------------------------------------------------------------------
(* What it promises. *)

\* The list of changes is complete: what it does not list is the same on both
\* sides, and the baseline with the listed entities added, removed or brought
\* up to date field by field is the current snapshot.
RowsRebuildHead ==
  LET listed(id) == {r \in ToSet(rows) : r.id = id}
      rebuilt(id) ==
        IF listed(id) = {} THEN pair.base[id]
        ELSE LET r == CHOOSE r \in listed(id) : TRUE IN
             CASE r.status = "removed" -> Absent
               [] r.status = "added" -> pair.head[id]
               [] OTHER -> [f \in DOMAIN pair.base[id] |->
                              IF f \in r.changedFields THEN pair.head[id][f] ELSE pair.base[id][f]] IN
  \A id \in Ids : rebuilt(id) = pair.head[id]

\* Every listed change is counted in exactly one cell of the summary.
SummaryCounts ==
  \A kind \in DOMAIN shapeOf :
    LET cells == summaryFor(rows, kind) IN
    /\ \A r \in ToSet(rows) : r.kind = kind => cells[r.status] > 0
    /\ Cardinality({i \in DOMAIN rows : rows[i].kind = kind})
         = FoldLeft(LAMBDA n, s : n + cells[s], 0, SetToSeq(shapeOf[kind]))

\* Two snapshots that can be compared are: what is drawn carries, for every
\* row, exactly the tags and states the row promises, so the check never
\* refuses a page of the tool's own and the review is there to be used.
DrawnAsPromised == validateArchitectureDeltaHtml(pair.base, pair.head)

\* The player: a review that plays has one timer and one that does not has
\* none, it plays over the drawing and never past the end, and what is lit is
\* the change under review.
PlayerSound ==
  /\ Cardinality(play.timers) = IF play.on THEN 1 ELSE 0
  /\ play.on => view = "delta" /\ active \in 0..(last - 1)
  /\ lit = IF active = -1 THEN {} ELSE {active}
  /\ active \in -1..last

\* The one timer is the one the playback holds on to, for the row it shows.
PlayInv ==
  /\ play \in [on : BOOLEAN, token : Nat, timers : SUBSET (Nat \X Int), handle : {<<>>} \cup (Nat \X Int)]
  /\ play.timers = IF play.on THEN {play.handle} ELSE {}
  /\ play.on => play.handle = <<play.token, active>>

IInv == PlayInv /\ PlayerSound

\* What the reader is shown of a comparison: all that changed, one at a time.
\* The pair does not change: its rows are looked at once, in the first state.
ReviewFaithful ==
  /\ moves = 0 => RowsRebuildHead
  /\ PlayerSound

\* What a comparison counts and draws is what it lists.
ComparisonFaithful == moves = 0 => SummaryCounts /\ DrawnAsPromised

=============================================================================
