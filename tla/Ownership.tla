----------------------------- MODULE Ownership -----------------------------
(***************************************************************************)
(* What a renderer asks of a document beyond its schema, in the order in   *)
(* which loadDiagram asks (archify/renderers/shared/cli.mjs): that guided  *)
(* views name what is there, that relationship ids are unique, and, for a  *)
(* deployment diagram, the ownership profile of engineering-profiles.mjs.  *)
(***************************************************************************)
EXTENDS Integers, Sequences, FiniteSets

CONSTANTS Documents   \* [components, boundaries, connections, views, profile]

VARIABLES document,
          step,        \* the next question, "accepted" or "refused"
          problems     \* the codes a refusal gives

vars == <<document, step, problems>>

\* components: id -> [type, tag]; boundaries: sequence of [kind, wraps];
\* connections: sequence of [id, from, to, label]; views: sequence of
\* [id, focus].  A tag, a label or an id may be missing: "".
components == document.components
boundaries == document.boundaries
connections == document.connections
views == document.views

kinds == {"region", "security-group"}   \* DEPLOYMENT_BOUNDARY_KINDS

membership(id, kind) == {b \in DOMAIN boundaries : boundaries[b].kind = kind /\ id \in boundaries[b].wraps}

\* validateGuidedViews
viewProblems ==
  (IF \E i, j \in DOMAIN views : i # j /\ views[i].id = views[j].id THEN {"duplicate view"} ELSE {})
  \cup UNION {
    LET focus == views[i].focus IN
      (IF \E f, g \in DOMAIN focus : f # g /\ focus[f] = focus[g] THEN {"duplicate focus"} ELSE {})
      \cup (IF \E f \in DOMAIN focus : focus[f] \notin DOMAIN components THEN {"unknown focus"} ELSE {})
    : i \in DOMAIN views}

\* validateRelationshipIds: an id is optional, one that is given is unique.
relationshipProblems ==
  IF \E i, j \in DOMAIN connections : i # j /\ connections[i].id # "" /\ connections[i].id = connections[j].id
  THEN {"duplicate id"} ELSE {}

\* deploymentOwnershipDiagnostics, collection by collection.
kindDiagnostics == {<<"boundary-kind", k>> : k \in {k \in kinds : \A b \in DOMAIN boundaries : boundaries[b].kind # k}}

componentDiagnostics(id) ==
  IF components[id].type = "external" THEN {}
  ELSE (IF components[id].tag = "" THEN {<<"owner-missing", id>>} ELSE {})
       \cup (IF membership(id, "region") = {} THEN {<<"region-scope", id>>} ELSE {})
       \cup (IF Cardinality(membership(id, "region")) > 1 THEN {<<"region-ambiguous", id>>} ELSE {})
       \cup (IF components[id].type = "database" /\ membership(id, "security-group") = {}
             THEN {<<"private-state", id>>} ELSE {})

consistent(b) ==
  LET members == boundaries[b].wraps
      regions == UNION {membership(id, "region") : id \in members} IN
  /\ members # {}
  /\ \A id \in members : Cardinality(membership(id, "region")) = 1
  /\ Cardinality(regions) = 1

boundaryDiagnostics(b) ==
  IF boundaries[b].kind = "security-group" /\ ~consistent(b) THEN {<<"private-region-consistency", b>>} ELSE {}

crossed(c) == {b \in DOMAIN boundaries : /\ boundaries[b].kind \in kinds
                                         /\ (c.from \in boundaries[b].wraps) # (c.to \in boundaries[b].wraps)}
connectionDiagnostics(i) ==
  IF crossed(connections[i]) # {} /\ connections[i].label = "" THEN {<<"crossing-mechanism", i>>} ELSE {}

deploymentOwnershipDiagnostics ==
  kindDiagnostics \cup (UNION {componentDiagnostics(id) : id \in DOMAIN components})
                  \cup (UNION {boundaryDiagnostics(b) : b \in DOMAIN boundaries})
                  \cup (UNION {connectionDiagnostics(i) : i \in DOMAIN connections})

----------------------------------------------------------------------------
(* loadDiagram: the questions one after another, the first that finds a     *)
(* problem ends it.                                                         *)

Init == document \in Documents /\ step = "views" /\ problems = {}

Ask(now, next, found) ==
  /\ step = now
  /\ problems' = found
  /\ step' = IF found = {} THEN next ELSE "refused"
  /\ UNCHANGED document

validateGuidedViews == Ask("views", "ids", viewProblems)
validateRelationshipIds == Ask("ids", "profile", relationshipProblems)
validateEngineeringProfile ==
  Ask("profile", "accepted", IF document.profile = "deployment-ownership" THEN deploymentOwnershipDiagnostics ELSE {})

Next == validateGuidedViews \/ validateRelationshipIds \/ validateEngineeringProfile

Spec == Init /\ [][Next]_vars

----------------------------------------------------------------------------
(* What an accepted deployment document means. *)

deployed == step = "accepted" /\ document.profile = "deployment-ownership"
internal == {id \in DOMAIN components : components[id].type # "external"}
regionOf(id) == membership(id, "region")

\* Every part of the system is owned and lies in one region, and what keeps
\* private state lies, with all that shares its private boundary, in one region.
OwnedAndPlaced ==
  deployed =>
    /\ \A id \in internal : components[id].tag # "" /\ \E r \in DOMAIN boundaries : regionOf(id) = {r}
    /\ \A id \in internal : components[id].type = "database" =>
         \E g \in membership(id, "security-group") :
           \A other \in boundaries[g].wraps : regionOf(other) = regionOf(id)

\* Nothing goes unnamed from one region to another, or in or out of a private
\* boundary: an unlabelled connection has both ends in the same ones.
NamedCrossings ==
  deployed => \A i \in DOMAIN connections : connections[i].label = "" =>
    \A kind \in kinds : membership(connections[i].from, kind) = membership(connections[i].to, kind)

\* A link to a view or a relationship of an accepted document leads to one.
LinksResolve ==
  step = "accepted" =>
    /\ \A i \in DOMAIN views : Cardinality({j \in DOMAIN views : views[j].id = views[i].id}) = 1
    /\ \A i \in DOMAIN views : {views[i].focus[f] : f \in DOMAIN views[i].focus} \subseteq DOMAIN components
    /\ \A i \in DOMAIN connections : connections[i].id # "" =>
         Cardinality({j \in DOMAIN connections : connections[j].id = connections[i].id}) = 1

\* A document is refused for a reason.
RefusedWithReason == (step = "refused") <=> (problems # {})

\* What the questions answered so far have shown of the document.
AskedInv ==
  /\ step \in {"ids", "profile", "accepted"} => viewProblems = {}
  /\ step \in {"profile", "accepted"} => relationshipProblems = {}
  /\ deployed => deploymentOwnershipDiagnostics = {}

IInv == document \in Documents /\ AskedInv /\ RefusedWithReason

OwnershipFaithful == OwnedAndPlaced /\ NamedCrossings /\ LinksResolve /\ RefusedWithReason

=============================================================================
