------------------------------ MODULE Commands ------------------------------
(***************************************************************************)
(* The command line of the diagram tool (archify/bin/archify.mjs): what it *)
(* takes an argument for, which mistakes it refuses and how it says so,    *)
(* and the commands that run the renderer and the checker and report what  *)
(* came of it: `render`, `check`, `validate` and `inspect`.  What `deliver`*)
(* and `compare` do with their files is Publish, here are their arguments. *)
(*                                                                         *)
(* An argument is [option, value]: a path or a type has no option, an      *)
(* option alone the value "none", and one with its value behind an equals  *)
(* sign both.                                                              *)
(***************************************************************************)
EXTENDS Integers, Sequences, FiniteSets, SequencesExt

CONSTANTS Lines    \* the command lines tried: [command, args]

VARIABLES line,    \* [command, args]
          step,    \* "parse", "render", "check", "report", "end"
          tmp,     \* the temporary directory of validate: "none", "there", "gone"
          stdout,  \* the documents written: "ok", "failed", "layout", "text"
          diagnostics,  \* what a failure was put down to
          code     \* the exit status, -1 while it runs

vars == <<line, step, tmp, stdout, diagnostics, code>>

Types == {"architecture", "workflow", "sequence", "dataflow", "lifecycle"}
Profiles == {"standard", "showcase"}

bare(option) == [option |-> option, value |-> "none"]
isOption(a) == a.option # ""
has(s, option) == bare(option) \in ToSet(s)

command == line.command
args == line.args

\* `inspect` is `validate` with one more argument behind the others.
argsOf(l) == IF l.command = "inspect" THEN Append(l.args, bare("--layout-json")) ELSE l.args

----------------------------------------------------------------------------
(* Arguments. *)

\* extractQualityArgs, extractRepoRootArgs, and the options with a value of
\* extractCompareOptions and extractMigrationOptions: the option and the
\* argument after it are taken out; an option in its place is no value.
extract(s, option) ==
  LET step1(st, a) ==
        CASE st.wants -> IF isOption(a) THEN [st EXCEPT !.wants = FALSE, !.bad = TRUE]
                         ELSE [st EXCEPT !.wants = FALSE, !.value = a.value]
          [] ~st.wants /\ a = bare(option) -> [st EXCEPT !.wants = TRUE]
          [] ~st.wants /\ a # bare(option) /\ a.option = option ->
               [st EXCEPT !.value = a.value, !.bad = @ \/ a.value = ""]
          [] OTHER -> [st EXCEPT !.rest = Append(@, a)]
      end == FoldLeft(step1, [rest |-> <<>>, value |-> "none", wants |-> FALSE, bad |-> FALSE], s) IN
  [rest |-> end.rest, value |-> end.value, bad |-> end.bad \/ end.wants]

\* Which options a command takes, and how many paths and types.
valued == [render |-> <<"--quality", "--repo-root">>, validate |-> <<"--quality", "--repo-root">>,
           inspect |-> <<"--quality", "--repo-root">>, deliver |-> <<"--quality", "--repo-root">>,
           preview |-> <<"--quality", "--repo-root">>, compare |-> <<"--quality", "--repo-root", "--receipt">>,
           migrate |-> <<"--to-schema">>, check |-> <<>>, visualcheck |-> <<>>]
knownOptions == [render |-> {}, validate |-> {"--json", "--layout-json"}, inspect |-> {"--json", "--layout-json"},
                 deliver |-> {"--json", "--open"}, preview |-> {"--no-open"}, compare |-> {"--json"},
                 migrate |-> {"--json"}, check |-> {}, visualcheck |-> {"--json"}]
counts == [render |-> 2..3, validate |-> {2}, inspect |-> {2}, deliver |-> 2..3, preview |-> 2..3,
           compare |-> 3..4, migrate |-> {3}, check |-> {1}, visualcheck |-> {1}]

extracted(l) ==
  LET take(st, option) == LET e == extract(st.rest, option) IN
        [rest |-> e.rest, bad |-> st.bad \/ e.bad, values |-> [st.values EXCEPT ![option] = e.value]] IN
  FoldLeft(take, [rest |-> argsOf(l), bad |-> FALSE,
                  values |-> [o \in {"--quality", "--repo-root", "--receipt", "--to-schema"} |-> "none"]], valued[l.command])

positional(l) ==
  SelectSeq(extracted(l).rest, LAMBDA a : ~(a.value = "none" /\ a.option \in knownOptions[l.command]))

json(l) == has(argsOf(l), "--json")
layout(l) == has(argsOf(l), "--layout-json")

\* The checks before anything is run.
acceptable(l, e, p) == LET c == l.command IN
  /\ ~e.bad
  /\ e.values["--quality"] \in Profiles \cup {"none"}
  /\ \A i \in DOMAIN p : ~isOption(p[i])
  /\ Len(p) \in counts[c]
  /\ c \in {"render", "validate", "inspect", "deliver", "preview"} =>
       p[1].value \in Types /\ (e.values["--repo-root"] # "none" => p[1].value = "architecture")
  /\ c \in {"validate", "inspect"} /\ layout(l) => p[1].value \in {"architecture", "workflow"}
  /\ c = "inspect" => l.args # <<>> /\ l.args[1].value = "architecture"
  /\ c = "compare" => p[1].value = "architecture"
  /\ c = "migrate" => p[1].value = "workflow" /\ e.values["--to-schema"] = "2"
accepts(l) == acceptable(l, extracted(l), positional(l))

----------------------------------------------------------------------------
(* The run. *)

Init ==
  /\ line \in Lines
  /\ step = "parse" /\ tmp = "none" /\ stdout = <<>> /\ diagnostics = {} /\ code = -1

Same == UNCHANGED line

\* A command line that is refused: an error thrown where it was found, that
\* the end of the program makes one report of for the commands whose output is
\* read by programs, and a line of text for the others.
Refuse ==
  /\ step = "parse" /\ ~accepts(line)
  /\ step' = "end" /\ code' = IF command = "visualcheck" THEN 1 ELSE 2
  /\ IF command \in {"validate", "deliver"} /\ json(line)
     THEN stdout' = <<"failed">> /\ diagnostics' = {"cli"}
     ELSE UNCHANGED <<stdout, diagnostics>>
  /\ UNCHANGED tmp /\ Same

\* What is modelled elsewhere once its arguments are taken.
HandOver ==
  /\ step = "parse" /\ accepts(line)
  /\ command \in {"deliver", "preview", "compare", "migrate", "visualcheck"}
  /\ step' = "end" /\ code' = 0
  /\ UNCHANGED <<tmp, stdout, diagnostics>> /\ Same

Begin ==
  /\ step = "parse" /\ accepts(line)
  /\ command \in {"render", "check", "validate", "inspect"}
  /\ step' = IF command = "check" THEN "check" ELSE "render"
  /\ tmp' = IF command = "validate" /\ ~layout(line) THEN "there" ELSE tmp
  /\ UNCHANGED <<stdout, diagnostics, code>> /\ Same

\* How a child of runNode ends: well, with its own report, with an error no
\* one made a report of, killed, or not started at all.
Ends == {"well", "reported", "raw", "killed", "unstarted"}
status(end) == IF end = "well" THEN 0 ELSE 1   \* null ?? 1

\* rendererFailure: a raw error is never copied into a report.
rendererFailure(end) ==
  CASE end = "unstarted" -> {"internal/renderer-process"}
    [] end = "reported" -> {"renderer"}
    [] OTHER -> {"internal/unclassified"}

isMachine == command \in {"validate", "inspect"}
failed(why) ==
  /\ diagnostics' = why
  /\ stdout' = IF json(line) THEN Append(stdout, "failed") ELSE stdout

\* The renderer ends.
Rendered(end) ==
  /\ step = "render"
  /\ \/ /\ command = "render"
        /\ step' = "end" /\ code' = status(end)
        /\ UNCHANGED <<tmp, stdout, diagnostics>>
     \/ /\ isMachine /\ layout(line)
        /\ step' = "end" /\ code' = status(end)
        /\ UNCHANGED tmp
        /\ \/ end = "well" /\ stdout' = Append(stdout, "layout") /\ UNCHANGED diagnostics
           \/ end = "reported" /\ stdout' = Append(stdout, "layout") /\ diagnostics' = {"renderer"}
           \/ end # "well" /\ failed(rendererFailure(end))
     \/ /\ isMachine /\ ~layout(line)
        /\ IF end = "well"
           THEN step' = "check" /\ UNCHANGED <<stdout, diagnostics, code>>
           ELSE step' = "report" /\ failed(rendererFailure(end)) /\ code' = status(end)
        /\ UNCHANGED tmp
  /\ Same

\* checkerDiagnostics: the errors of the composition, and every failed check
\* that the composition does not stand for already; never an empty list.
checkerDiagnostics(issues, checks) ==
  LET found == {i[2] : i \in {i \in issues : i[1] = "error"}} \cup {c \in checks : c # "composition"} IN
  IF found = {} THEN {"artifact/check-failed"} ELSE found

\* The checker ends; one that found something lists the failed checks.
Checked(end) ==
  /\ step = "check"
  /\ \/ /\ command = "check"
        /\ step' = "end" /\ code' = status(end)
        /\ UNCHANGED <<stdout, diagnostics>>
     \/ /\ isMachine /\ end = "well"
        /\ step' = "report" /\ code' = 0
        /\ stdout' = IF json(line) THEN Append(stdout, "ok") ELSE stdout
        /\ UNCHANGED diagnostics
     \/ /\ isMachine /\ end # "well"
        /\ \E issues \in SUBSET ({"error", "warning"} \X {"composition/crossing"}),
              checks \in SUBSET {"composition", "finite_svg"} :
             /\ checks # {}
             /\ failed(IF end = "reported" THEN checkerDiagnostics(issues, checks)
                       ELSE checkerDiagnostics({}, {}))
        /\ step' = "report" /\ code' = status(end)
  /\ UNCHANGED tmp /\ Same

\* The `finally` of validate.
Clean ==
  /\ step = "report"
  /\ tmp' = "gone" /\ step' = "end"
  /\ UNCHANGED <<stdout, diagnostics, code>> /\ Same

Next == \/ Refuse \/ HandOver \/ Begin \/ Clean
        \/ \E end \in Ends : Rendered(end) \/ Checked(end)

Spec == Init /\ [][Next]_vars

----------------------------------------------------------------------------
(* What it promises. *)

\* A mistyped option is never taken for a path, a type or a value: nothing runs
\* on a command line that holds an option the command does not have.
OptionsAreNotPaths ==
  step \in {"render", "check", "report"} =>
    /\ \A i \in DOMAIN args : isOption(args[i]) =>
         \/ args[i].option \in ToSet(valued[command])
         \/ args[i].option \in knownOptions[command] /\ args[i].value = "none"
    /\ extracted(line).values["--quality"] \in Profiles \cup {"none"}

\* Every argument of a line that is run was put to a use: a path or a type, an
\* option of the command, or the value of one.
NothingDropped ==
  step = "render" =>
    Len(argsOf(line)) = Len(positional(line))
      + FoldLeft(LAMBDA n, a : n + (CASE a.option \in knownOptions[command] -> 1
                                      [] a.option \in ToSet(valued[command]) -> IF a.value = "none" THEN 2 ELSE 1
                                      [] OTHER -> 0), 0, argsOf(line))

\* A program that asked for JSON gets one document, the exit status says the
\* same as it does, and a failure names at least one reason.
OneReport ==
  step = "end" =>
    /\ Len(stdout) <= 1
    /\ isMachine /\ json(line) /\ command = "validate" => Len(stdout) = 1
    /\ code = 0 => "failed" \notin ToSet(stdout) /\ diagnostics = {}
    /\ stdout = <<"ok">> => code = 0
    /\ stdout = <<"failed">> => code # 0 /\ diagnostics # {}
    /\ code # 0 /\ isMachine /\ accepts(line) => diagnostics # {}

\* The directory validate renders into does not outlive it.
NothingLeft == step = "end" => tmp # "there"

\* What a run has reported by the time it is where it is.
StepInv ==
  /\ step \in {"parse", "render", "check", "report", "end"}
  /\ step \in {"parse", "render", "check"} => stdout = <<>> /\ diagnostics = {} /\ code = -1
  /\ step = "parse" => tmp = "none"
  /\ step = "check" /\ isMachine => ~layout(line)
  /\ step = "check" => command \in {"check", "validate", "inspect"}
  /\ step = "render" => command \in {"render", "validate", "inspect"}
  /\ tmp = "there" => command = "validate" /\ ~layout(line)
  /\ step = "report" =>
       /\ isMachine
       /\ stdout = IF json(line) THEN <<IF code = 0 THEN "ok" ELSE "failed">> ELSE <<>>
       /\ diagnostics = {} <=> code = 0

IInv == StepInv /\ OneReport /\ NothingLeft

ArgumentsFaithful == OptionsAreNotPaths /\ NothingDropped
ReportsFaithful == OneReport /\ NothingLeft

=============================================================================
