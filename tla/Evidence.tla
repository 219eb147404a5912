------------------------------ MODULE Evidence ------------------------------
(***************************************************************************)
(* Source evidence (archify/renderers/shared/repository-evidence.mjs and   *)
(* repository-location.mjs): a diagram that says which files and lines of  *)
(* a repository its components come from is rendered only after a local    *)
(* checkout has shown that they are there at the pinned revision.          *)
(*                                                                         *)
(* The text of a file is the sequence of its characters, of which only     *)
(* line ends matter; a path is the sequence of its segments.               *)
(***************************************************************************)
EXTENDS Integers, Sequences, FiniteSets

CONSTANTS Claims,     \* what diagrams declare: [repository, sources]
          Checkouts   \* what --repo-root may be: [given, top, origin, commits]

VARIABLES claim,      \* the diagram
          checkout,   \* the local repository
          at,         \* the reference that is verified next
          outcome,    \* "running", "verified", or the code of the failure
          shown       \* the references verified so far

vars == <<claim, checkout, at, outcome, shown>>

NoRepository == [none |-> TRUE]
Missing == <<"missing">>

----------------------------------------------------------------------------
(* Where a repository is: the addresses git and people write for it. *)

\* [form, user, host, port, lead, name, dotgit]: "https", "http", "ssh" or the
\* "scp" form git@host:path; the name as it is written, its upper-case
\* spelling, and whether ".git" is behind it.
provider(l) == IF l.host \in {"github", "gitee"} THEN l.host ELSE "none"

\* parseRepositoryRemote: which addresses it takes at all; one a diagram
\* declares must not hold a user.
parsable(l, authored) ==
  /\ l.form = "ssh" => l.user = "git"
  /\ authored /\ l.form \in {"https", "http"} => l.user = ""

protocol(l) == IF l.form = "scp" THEN "ssh" ELSE l.form
standardPort == [https |-> 443, http |-> 80, ssh |-> 22]
port(l) == IF l.port = 0 THEN standardPort[protocol(l)] ELSE l.port

endpoint(l) ==
  IF provider(l) # "none" /\ protocol(l) \in {"https", "ssh"} /\ port(l) = standardPort[protocol(l)]
  THEN <<"standard">> ELSE <<protocol(l), port(l)>>

\* The two known forges keep one namespace behind https and ssh, and drop
\* ".git"; github does not tell upper from lower case.
identity(l) ==
  [host |-> l.host, endpoint |-> endpoint(l),
   kind |-> IF provider(l) # "none" THEN "repository"
            ELSE IF l.form = "scp" /\ ~l.lead THEN "relative" ELSE "absolute",
   name |-> l.name, upper |-> l.upper /\ provider(l) # "github", dotgit |-> l.dotgit /\ provider(l) = "none"]

\* The address that is shown and compared later: no user but git, no ".git".
canonicalUrl(l) ==
  [l EXCEPT !.user = IF protocol(l) = "ssh" THEN "git" ELSE "",
            !.port = IF l.port \in {0, standardPort[protocol(l)]} THEN 0 ELSE l.port,
            !.dotgit = l.dotgit /\ provider(l) = "none"]

----------------------------------------------------------------------------
(* One reference. *)

\* verifiedSourcePath, on the segments between the slashes: a path from the
\* root begins with an empty one.
verifiedSourcePath(path) ==
  /\ path # <<>> /\ path # <<"">>
  /\ \A i \in DOMAIN path : path[i] \notin {"", ".", ".."}
  /\ path[1] # ".git"

\* sourceLineCount: the pieces between line ends, without an empty last one.
endsLine(text, i) == text[i] = "LF" \/ (text[i] = "CR" /\ ~(i < Len(text) /\ text[i + 1] = "LF"))
sourceLineCount(text) ==
  LET breaks == {i \in DOMAIN text : endsLine(text, i)} IN
  IF text = <<>> THEN 0
  ELSE Cardinality(breaks) + 1 - (IF text[Len(text)] \in {"CR", "LF"} THEN 1 ELSE 0)

blob(path) == IF path \in DOMAIN checkout.commits[claim.repository.revision]
              THEN checkout.commits[claim.repository.revision][path] ELSE Missing

\* The failure of a reference, or "none": its path, its range, that the file
\* exists at the revision, and that the last line it names exists in it.
sourceFailure(s) ==
  LET last == IF s.endLine # 0 THEN s.endLine ELSE s.line IN
  CASE ~verifiedSourcePath(s.path) -> "path-invalid"
    [] verifiedSourcePath(s.path) /\ s.endLine # 0 /\ s.line = 0 -> "line-required"
    [] verifiedSourcePath(s.path) /\ s.endLine # 0 /\ s.line # 0 /\ s.endLine < s.line -> "line-range-invalid"
    [] verifiedSourcePath(s.path) /\ ~(s.endLine # 0 /\ (s.line = 0 \/ s.endLine < s.line)) /\ blob(s.path) = Missing
         -> "file-missing"
    [] OTHER -> IF s.line # 0 /\ last > sourceLineCount(blob(s.path)) THEN "line-out-of-range" ELSE "none"

----------------------------------------------------------------------------
(* verifyRepositoryEvidence *)

Init ==
  /\ claim \in Claims /\ checkout \in Checkouts
  /\ at = 0 /\ outcome = "running" /\ shown = {}

\* The diagram's repository, then the checkout it is to be found in.
repositoryFailure ==
  LET r == claim.repository
      c == checkout
      web == r.link = "web" IN
  CASE r = NoRepository -> "repository-required"
    [] r # NoRepository /\ r.revision = "short" -> "revision-invalid"
    [] r # NoRepository /\ r.revision # "short" /\ ~parsable(r.url, TRUE) -> "url-invalid"
    [] OTHER ->
       CASE web /\ ~(provider(r.url) # "none" /\ protocol(r.url) = "https" /\ endpoint(r.url) = <<"standard">>)
              -> "links-unsupported"
         [] ~web \/ (provider(r.url) # "none" /\ protocol(r.url) = "https" /\ endpoint(r.url) = <<"standard">>) ->
            IF ~c.given THEN "root-required"
            ELSE IF ~c.top THEN "root-not-top-level"
            ELSE IF ~parsable(c.origin, FALSE) \/ identity(c.origin) # identity(r.url) THEN "origin-mismatch"
            ELSE IF r.revision \notin DOMAIN c.commits THEN "revision-unavailable"
            ELSE "none"

\* Nothing declared, nothing verified, and nothing shown.
NoEvidence ==
  /\ at = 0 /\ outcome = "running"
  /\ claim.repository = NoRepository /\ claim.sources = <<>>
  /\ outcome' = "none"
  /\ UNCHANGED <<claim, checkout, at, shown>>

CheckRepository ==
  /\ at = 0 /\ outcome = "running"
  /\ ~(claim.repository = NoRepository /\ claim.sources = <<>>)
  /\ outcome' = IF repositoryFailure = "none" THEN "running" ELSE repositoryFailure
  /\ at' = 1
  /\ UNCHANGED <<claim, checkout, shown>>

CheckSource ==
  /\ outcome = "running" /\ at \in DOMAIN claim.sources
  /\ LET failure == sourceFailure(claim.sources[at]) IN
     IF failure = "none"
     THEN shown' = shown \cup {at} /\ UNCHANGED outcome
     ELSE outcome' = failure /\ UNCHANGED shown
  /\ at' = at + 1
  /\ UNCHANGED <<claim, checkout>>

\* A repository without a single reference is no evidence.
Conclude ==
  /\ outcome = "running" /\ at > Len(claim.sources)
  /\ outcome' = IF shown = {} THEN "source-required" ELSE "verified"
  /\ UNCHANGED <<claim, checkout, at, shown>>

Next == NoEvidence \/ CheckRepository \/ CheckSource \/ Conclude

Spec == Init /\ [][Next]_vars

----------------------------------------------------------------------------
(* What "verified" means. *)

\* The lines of a text as a reader sees them: each begins at the first
\* character or right behind a line end.
startsOf(text) == {i \in DOMAIN text : i = 1 \/ endsLine(text, i - 1)}

\* Every reference of the diagram, not only the first, leads to a file inside
\* the repository at exactly the pinned revision, and to lines it has.
ReferencesExist ==
  outcome = "verified" =>
    \A i \in DOMAIN claim.sources :
      LET s == claim.sources[i] IN
      /\ s.path \in DOMAIN checkout.commits[claim.repository.revision]
      /\ \A j \in DOMAIN s.path : s.path[j] \notin {"", ".", ".."}
      /\ s.line # 0 => Cardinality(startsOf(blob(s.path))) >= (IF s.endLine = 0 THEN s.line ELSE s.endLine)
      /\ s.endLine # 0 => s.line \in 1..s.endLine

\* A reference that is right is not refused: what a reader can open, by lines a
\* reader can count, is what is verified.
NoFalseRefusal ==
  outcome = "line-out-of-range" =>
    LET s == claim.sources[at - 1] IN
    Cardinality(startsOf(blob(s.path))) < (IF s.endLine = 0 THEN s.line ELSE s.endLine)

\* The checkout is the repository the diagram names, however the two are
\* written, and not another one that looks like it: on a forge the same name
\* there, elsewhere the same address but for the user.
SameRepository ==
  outcome = "verified" =>
    LET u == claim.repository.url
        o == checkout.origin IN
    /\ u.host = o.host /\ u.name = o.name
    /\ provider(u) # "github" => u.upper = o.upper
    /\ provider(u) = "none" => /\ protocol(u) = protocol(o) /\ port(u) = port(o) /\ u.dotgit = o.dotgit
                               /\ (u.form = "scp" /\ ~u.lead) = (o.form = "scp" /\ ~o.lead)

\* The address put into the page names the same repository as the one that was
\* declared, and holds no user's name or password.
AddressKept ==
  claim.repository # NoRepository /\ parsable(claim.repository.url, TRUE) =>
    LET u == canonicalUrl(claim.repository.url) IN
    /\ parsable(u, TRUE) /\ identity(u) = identity(claim.repository.url)
    /\ u.user \in {"", "git"}

\* Where the verification stands, and what of it is known by then.
PlaceInv ==
  /\ claim \in Claims /\ checkout \in Checkouts
  /\ at \in 0 .. Len(claim.sources) + 1
  /\ at = 0 => outcome \in {"running", "none"}
  /\ outcome = "verified" => at = Len(claim.sources) + 1

VerifiedInv ==
  /\ outcome \in {"running", "verified", "line-out-of-range"} /\ at # 0 => repositoryFailure = "none"
  /\ outcome \in {"running", "verified"} =>
        \A i \in 1 .. at - 1 : sourceFailure(claim.sources[i]) = "none"

RefusedInv ==
  outcome = "line-out-of-range" => at > 1 /\ sourceFailure(claim.sources[at - 1]) = outcome

IInv == PlaceInv /\ VerifiedInv /\ RefusedInv

EvidenceFaithful == ReferencesExist /\ NoFalseRefusal /\ SameRepository /\ AddressKept

=============================================================================
