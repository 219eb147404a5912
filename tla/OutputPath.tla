----------------------------- MODULE OutputPath -----------------------------
(***************************************************************************)
(* Where a command of the diagram tool may write (archify/renderers/shared/*)
(* output-path.mjs and its callers): the output a diagram, an option or    *)
(* the default names is resolved through links, missing directories and    *)
(* directories that ignore case, and refused when it would replace an      *)
(* input or another output; a renderer asks once when it reads and again   *)
(* when it writes, as the file system may have changed in between.         *)
(*                                                                         *)
(* A path is the sequence of its names from the root.  A directory is a    *)
(* function from the names it holds to nodes; the file a node stands for   *)
(* has a number, so that two names of one file can be told from two files. *)
(***************************************************************************)
EXTENDS Integers, Sequences, FiniteSets

CONSTANTS Worlds,      \* the file systems a command may start in
          Requests,    \* what it may be asked
          lower,       \* the lower-case form of every name
          Html, Json,  \* the names with each extension
          Depth,       \* MAX_SYMLINK_DEPTH
          Disturbances \* [at, node]: what another process may do meanwhile

VARIABLES world,       \* [root, fold, blind, content]
          request,     \* [via, absolute, cwd, out, receipt, inputs, rename]
          phase,       \* "asked", "resolved", "written" or "refused"
          before       \* what the inputs held when the output was written

vars == <<world, request, phase, before>>

None == [kind |-> "none"]
Dir(names) == [kind |-> "dir", names |-> names]
Loop == <<"ELOOP">>

----------------------------------------------------------------------------
(* The file system: external, as the code relies on it. *)

same(w, n, m) == IF w.fold THEN lower[n] = lower[m] ELSE n = m
named(w, dir, n) == {m \in DOMAIN dir.names : same(w, n, m)}

\* The node at a path that goes through no link.
RECURSIVE At(_, _)
At(w, path) ==
  IF path = <<>> THEN w.root
  ELSE LET up == At(w, SubSeq(path, 1, Len(path) - 1))
           n == path[Len(path)] IN
       IF up.kind = "dir" /\ named(w, up, n) # {} THEN up.names[CHOOSE m \in named(w, up, n) : TRUE] ELSE None

trueName(w, path, n) == CHOOSE m \in named(w, At(w, path), n) : TRUE

\* Put a node at a path, with the directories above it that are missing: a
\* name already there, in whatever case, keeps its spelling.
RECURSIVE Put(_, _, _, _)
Put(w, dir, path, node) ==
  LET here == named(w, dir, Head(path))
      n == IF here = {} THEN Head(path) ELSE CHOOSE m \in here : TRUE
      below == IF here = {} THEN Dir(<<>>) ELSE dir.names[n] IN
  Dir([m \in DOMAIN dir.names \cup {n} |->
         IF m # n THEN dir.names[m]
         ELSE IF Len(path) = 1 THEN node ELSE Put(w, below, Tail(path), node)])

----------------------------------------------------------------------------
(* output-path.mjs *)

\* canonicalize: every link on the way is followed, up to Depth of them; from
\* the first name that is missing on, the path is taken as it is written.
RECURSIVE canonicalize(_, _, _, _)
canonicalize(w, current, rest, depth) ==
  IF rest = <<>> THEN current
  ELSE LET candidate == Append(current, Head(rest))
           node == At(w, candidate) IN
       CASE node.kind = "none" -> current \o rest
         [] node.kind = "link" /\ depth >= Depth -> Loop
         [] node.kind = "link" /\ depth < Depth -> canonicalize(w, <<>>, node.to \o Tail(rest), depth + 1)
         [] OTHER -> canonicalize(w, Append(current, trueName(w, current, Head(rest))), Tail(rest), depth)

canonicalFuturePath(w, path) == canonicalize(w, <<>>, path, 0)

nearestExistingDirectory(w, path) ==
  LET dirs == {i \in 0..(Len(path) - 1) : At(w, SubSeq(path, 1, i)).kind = "dir"} IN
  SubSeq(path, 1, CHOOSE i \in dirs : \A j \in dirs : j <= i)

\* probeDirectorySemantics: a file created under one spelling is looked up
\* under another.  Where it cannot be created the answer is not known, and
\* not known counts as ignoring case.
caseInsensitive(w) == w.blind \/ w.fold

futurePathsAlias(w, l, r, d) ==
  LET relative(path) == [i \in 1..(Len(path) - Len(d)) |->
                           IF caseInsensitive(w) THEN lower[path[Len(d) + i]] ELSE path[Len(d) + i]] IN
  \/ l = r
  \/ d = nearestExistingDirectory(w, r) /\ relative(l) = relative(r)

\* pathsAlias: what will be one path, or is one file already.
samePlace(w, l, r) ==
  \/ futurePathsAlias(w, l, r, nearestExistingDirectory(w, l))
  \/ At(w, l) = At(w, r) /\ At(w, l).kind = "file"
pathsAlias(w, left, right) == samePlace(w, canonicalFuturePath(w, left), canonicalFuturePath(w, right))

pathIsInside(w, dir, path) ==
  LET d == canonicalFuturePath(w, dir)
      p == canonicalFuturePath(w, path) IN
  Len(d) <= Len(p) /\ SubSeq(p, 1, Len(d)) = d

resolvable(w, path) == canonicalFuturePath(w, path) # Loop
ends(path, names) == path # <<>> /\ path[Len(path)] \in names

\* resolveOutputPath: TRUE when the path is accepted for this output.
resolveOutputPath(w, q, via, path, names, others) ==
  /\ \A p \in {path} \cup q.inputs \cup others : resolvable(w, p)
  /\ via = "meta" => /\ ~q.absolute
                     /\ ends(path, Html) /\ ends(canonicalFuturePath(w, path), Html)
                     /\ pathIsInside(w, q.cwd, path)
  /\ \A p \in q.inputs \cup others : ~pathsAlias(w, path, p)
  /\ via = "cli" => ends(path, names) /\ ends(canonicalFuturePath(w, path), names)

\* The outputs of one command: the page, and for `compare` and `deliver` a
\* receipt that must not fall on it either.
accepted(w, q) ==
  /\ resolveOutputPath(w, q, q.via, q.out, Html, {})
  /\ q.receipt # <<>> => resolveOutputPath(w, q, "cli", q.receipt, Json, {q.out})

----------------------------------------------------------------------------
(* A command. *)

held(w, path) ==
  LET node == At(w, canonicalFuturePath(w, path)) IN
  IF node.kind = "file" THEN w.content[node.ino] ELSE node.kind

fresh(w) == Cardinality(DOMAIN w.content) + 1
filed(w, ino, text) == [i \in DOMAIN w.content \cup {ino} |-> IF i = ino THEN text ELSE w.content[i]]

\* Written through whatever stands at the path (writeFileSync), or renamed
\* onto it (the file that was staged beside it replaces the name).
stored(w, p, ino, text) ==
  [w EXCEPT !.root = Put(w, w.root, p, [kind |-> "file", ino |-> ino]), !.content = filed(w, ino, text)]
through(w, p, text) == stored(w, p, IF At(w, p).kind = "file" THEN At(w, p).ino ELSE fresh(w), text)
written(w, path, text, rename) ==
  IF rename THEN stored(w, canonicalFuturePath(w, SubSeq(path, 1, Len(path) - 1)) \o <<path[Len(path)]>>,
                        fresh(w), text)
            ELSE through(w, canonicalFuturePath(w, path), text)

\* A path whose way leads through a file, or that is a directory, cannot be
\* written, and the system says so.
RECURSIVE writable(_, _)
writable(w, p) == p = <<>> \/ (At(w, p).kind \in {"none", "dir"} /\ writable(w, SubSeq(p, 1, Len(p) - 1)))
canWrite(w, path) ==
  LET p == canonicalFuturePath(w, path) IN
  /\ p # Loop /\ p # <<>> /\ At(w, p).kind \in {"none", "file"}
  /\ writable(w, SubSeq(p, 1, Len(p) - 1))

Init ==
  /\ world \in Worlds
  /\ request \in {q \in Requests : \A p \in q.inputs : At(world, canonicalFuturePath(world, p)).kind = "file"}
  /\ phase = "asked" /\ before = <<>>

\* loadDiagram, or the beginning of a command.
Resolve ==
  /\ phase = "asked"
  /\ phase' = IF accepted(world, request) THEN "resolved" ELSE "refused"
  /\ UNCHANGED <<world, request, before>>

\* Meanwhile another process puts a link or a directory somewhere.
Disturb ==
  /\ phase = "resolved"
  /\ \E d \in Disturbances :
       /\ At(world, d.at) # d.node
       /\ At(world, SubSeq(d.at, 1, Len(d.at) - 1)).kind = "dir"
       /\ world' = [world EXCEPT !.root = Put(world, @, d.at, d.node)]
  /\ UNCHANGED <<request, phase, before>>

\* writeDiagram, or a command that commits: asked again, then written at once.
Write ==
  /\ phase = "resolved"
  /\ LET q == request
         outs == {q.out} \cup (IF q.receipt = <<>> THEN {} ELSE {q.receipt})
         page == written(world, q.out, "html", q.rename) IN
     IF accepted(world, q) /\ \A p \in outs : canWrite(world, p)
     THEN /\ world' = IF q.receipt = <<>> THEN page ELSE written(page, q.receipt, "json", q.rename)
          /\ before' = [p \in q.inputs |-> held(world, p)]
          /\ phase' = "written"
     ELSE phase' = "refused" /\ UNCHANGED <<world, before>>
  /\ UNCHANGED request

Next == Resolve \/ Disturb \/ Write

Spec == Init /\ [][Next]_vars

----------------------------------------------------------------------------
(* What it promises. *)

\* Whatever it writes, by whichever name the output and the inputs are known,
\* every input still holds what it held.
InputsKept == phase = "written" => \A p \in request.inputs : held(world, p) = before[p]

\* Both outputs are there afterwards, each with its own text.
OutputsApart ==
  phase = "written" => /\ held(world, request.out) = "html"
                       /\ request.receipt # <<>> => held(world, request.receipt) = "json"

\* A diagram's own word for where it goes writes one page inside the working
\* directory and nothing anywhere else.
MetaStaysInside ==
  phase = "written" /\ request.via = "meta" =>
    LET p == canonicalFuturePath(world, request.out) IN
    /\ SubSeq(p, 1, Len(request.cwd)) = request.cwd
    /\ ends(p, Html)

\* Two names are taken for one exactly when what is written under the first is
\* read under the second, also before either is there; where the directory
\* cannot be tried out, names that differ only in case count as one.
AliasesExact ==
  phase = "asked" =>
    \A p \in {q.out : q \in Requests} :
      (canWrite(world, request.out) /\ resolvable(world, p)) =>
        \E one \in {held(written(world, request.out, "html", FALSE), p) = "html"} :
          \/ pathsAlias(world, request.out, p) = one
          \/ world.blind /\ ~one

OutputFaithful == AliasesExact /\ InputsKept /\ OutputsApart /\ MetaStaysInside

=============================================================================
