------------------------------ MODULE Publish ------------------------------
(***************************************************************************)
(* How archify's commands put their results in place (archify/bin/         *)
(* archify.mjs): `deliver' one artifact, `compare' an artifact and its     *)
(* receipt, `migrate' a document.  Each works in a staging directory and   *)
(* renames at the end; any call to the file system may fail, the process   *)
(* may be killed, and the sources are edited meanwhile.                    *)
(***************************************************************************)
EXTENDS Integers, Sequences

CONSTANTS MaxMoves   \* edits, faults and kills

Commands == {"deliver", "compare", "migrate"}
Targets == [deliver |-> <<"html">>, compare |-> <<"html", "receipt">>, migrate |-> <<"json">>]
Files == {"html", "receipt", "json"}
Old == 0
Absent == -1
Dir == -2
Empty == -3
Kinds == {Absent, Old, Dir}    \* what a target is before the command

VARIABLES
    command,
    before,   \* history: the targets when the command began
    disk,     \* the targets: a kind, or the version of the source they were made from
    source,   \* [now, read, frozen]: the source, as it was read, as it lies in staging
    staging,  \* "none", "there", "gone", "kept"
    backup,   \* in staging: what was moved away from each target, or Empty
    step,     \* where the command stands
    moved,    \* commitComparePair: the targets backed up and committed so far, and
              \* whether a step of the rollback failed (rollbackErrors)
    recover,  \* recoveryFiles
    result,
    moves

vars == <<command, before, disk, source, staging, backup, step, moved, recover, result, moves>>
Spend == moves < MaxMoves /\ moves' = moves + 1
Mine == Targets[command]
At(c, s) == command = c /\ step = s

Init ==
    /\ command \in Commands
    /\ \E k \in [Files -> Kinds] :
          before = [f \in Files |-> IF \E i \in DOMAIN Targets[command] : Targets[command][i] = f
                                    THEN k[f] ELSE Absent]
    /\ disk = before /\ source = [now |-> 1, read |-> 0, frozen |-> 0]
    /\ staging = "none" /\ backup = [f \in Files |-> Empty] /\ step = "read"
    /\ moved = [backedUp |-> <<>>, committed |-> <<>>, failed |-> FALSE]
    /\ recover = {} /\ result = "none" /\ moves = 0

Reached(s) == step' = s /\ UNCHANGED <<result, staging>>

\* Mutant of Fail: what is staged is removed whatever it holds.
Fail_emptied(r) ==
    /\ step' = "end" /\ result' = r
    /\ staging' = IF staging = "there" THEN "gone" ELSE staging

\* The failure report; the `finally' removes what is staged unless it is for recovery.
Fail(r) ==
    /\ step' = "end" /\ result' = r
    /\ staging' = IF staging = "there" THEN IF recover' = {} THEN "gone" ELSE "kept" ELSE staging

Same == UNCHANGED <<command, before, disk, backup, moved>>

\* A stage that may fail: arguments, paths, reading, freezing, rendering, checking.
Stage(c, from, to) ==
    /\ At(c, from) /\ Same /\ UNCHANGED recover
    /\ \/ Reached(to) /\ UNCHANGED moves
       \/ Fail("refused") /\ Spend

-----------------------------------------------------------------------------
\* deliver

DeliverRead == Stage("deliver", "read", "stage") /\ source' = [source EXCEPT !.read = source.now]

DeliverStage ==
    /\ At("deliver", "stage") /\ Same /\ UNCHANGED <<source, recover>>
    /\ \/ step' = "freeze" /\ staging' = "there" /\ UNCHANGED <<result, moves>>
       \/ Fail("refused") /\ Spend

DeliverFreeze ==
    Stage("deliver", "freeze", "render") /\ source' = [source EXCEPT !.frozen = source.read]

\* The renderer and the artifact check run on the snapshot; the digests are of the
\* bytes read from the candidate.
DeliverRender == Stage("deliver", "render", "receipt") /\ UNCHANGED source
DeliverReceipt == Stage("deliver", "receipt", "commit") /\ UNCHANGED source

\* One rename.  A directory in its place makes it fail.
DeliverCommit ==
    /\ At("deliver", "commit") /\ UNCHANGED <<command, before, backup, moved, source, recover>>
    /\ \/ /\ disk.html # Dir /\ disk' = [disk EXCEPT !.html = source.frozen]
          /\ step' = "end" /\ result' = "ok" /\ staging' = "gone" /\ UNCHANGED moves
       \/ /\ UNCHANGED disk /\ Fail("refused")
          /\ IF disk.html = Dir THEN UNCHANGED moves ELSE Spend

-----------------------------------------------------------------------------
\* compare

CompareRead == Stage("compare", "read", "stage") /\ source' = [source EXCEPT !.read = source.now]

CompareStage ==
    /\ At("compare", "stage") /\ Same /\ UNCHANGED <<source, recover>>
    /\ \/ step' = "freeze" /\ staging' = "there" /\ UNCHANGED <<result, moves>>
       \/ Fail("refused") /\ Spend

CompareFreeze ==
    Stage("compare", "freeze", "validate") /\ source' = [source EXCEPT !.frozen = source.read]
CompareValidate == Stage("compare", "validate", "receipt") /\ UNCHANGED source
CompareReceipt == Stage("compare", "receipt", "preflight") /\ UNCHANGED source

\* commitComparePair: both targets are looked at before either is moved.
Preflight ==
    /\ At("compare", "preflight") /\ Same /\ UNCHANGED <<source, moves, recover>>
    /\ IF \E i \in DOMAIN Mine : disk[Mine[i]] = Dir THEN Fail("refused") ELSE Reached("backup")

\* Then each one there is moved away, and each candidate moved in; a step that fails
\* begins the rollback.
Backup ==
    /\ At("compare", "backup") /\ UNCHANGED <<command, before, source, recover>>
    /\ LET left == {i \in DOMAIN Mine : disk[Mine[i]] # Absent}
       IN  IF left = {} THEN Reached("commit") /\ UNCHANGED <<disk, backup, moved, moves>>
           ELSE LET f == Mine[CHOOSE i \in left : \A j \in left : i <= j] IN
                \/ /\ disk' = [disk EXCEPT ![f] = Absent] /\ backup' = [backup EXCEPT ![f] = disk[f]]
                   /\ moved' = [moved EXCEPT !.backedUp = Append(@, f)]
                   /\ UNCHANGED <<step, result, staging, moves>>
                \/ Spend /\ Reached("remove") /\ UNCHANGED <<disk, backup, moved>>

Commit ==
    /\ At("compare", "commit") /\ UNCHANGED <<command, before, source, backup, recover>>
    /\ LET f == Mine[Len(moved.committed) + 1]
           next == [moved EXCEPT !.committed = Append(@, f)]
       IN  \/ /\ disk' = [disk EXCEPT ![f] = source.frozen] /\ moved' = next /\ UNCHANGED moves
              /\ IF Len(next.committed) = Len(Mine)
                 THEN step' = "end" /\ result' = "ok" /\ staging' = "gone"
                 ELSE UNCHANGED <<step, result, staging>>
           \/ Spend /\ Reached("remove") /\ UNCHANGED <<disk, moved>>

\* The rollback: what was committed is removed, last first.
RollbackRemove ==
    /\ At("compare", "remove") /\ UNCHANGED <<command, before, source, backup, recover>>
    /\ IF moved.committed = <<>> THEN Reached("restore") /\ UNCHANGED <<disk, moved, moves>>
       ELSE LET n == Len(moved.committed)
                f == moved.committed[n]
                left == [moved EXCEPT !.committed = SubSeq(@, 1, n - 1)]
            IN  /\ \/ disk' = [disk EXCEPT ![f] = Absent] /\ moved' = left /\ UNCHANGED moves
                   \/ moved' = [left EXCEPT !.failed = TRUE] /\ UNCHANGED disk /\ Spend
                /\ UNCHANGED <<step, result, staging>>

\* And what was backed up is moved back, whatever lies there now; a backup that could
\* not be is named for recovery.
RollbackRestore ==
    /\ At("compare", "restore") /\ UNCHANGED <<command, before, source>>
    /\ IF moved.backedUp = <<>>
       THEN /\ UNCHANGED <<disk, backup, moved, recover, moves>>
            /\ Fail(IF moved.failed THEN "rollback failed" ELSE "restored")
       ELSE LET n == Len(moved.backedUp)
                f == moved.backedUp[n]
                left == [moved EXCEPT !.backedUp = SubSeq(@, 1, n - 1)]
            IN  /\ \/ /\ disk' = [disk EXCEPT ![f] = backup[f]] /\ moved' = left
                      /\ backup' = [backup EXCEPT ![f] = Empty] /\ UNCHANGED <<recover, moves>>
                   \/ /\ recover' = recover \cup {f} /\ moved' = [left EXCEPT !.failed = TRUE]
                      /\ disk' \in {disk, [disk EXCEPT ![f] = Absent]} /\ Spend /\ UNCHANGED backup
                /\ UNCHANGED <<step, result, staging>>

-----------------------------------------------------------------------------
\* migrate

MigrateRead ==
    /\ At("migrate", "read") /\ Same /\ UNCHANGED recover
    /\ source' = [source EXCEPT !.read = source.now]
    /\ \/ disk.json # Dir /\ Reached("stage") /\ UNCHANGED moves
       \/ Fail("refused") /\ (IF disk.json = Dir THEN UNCHANGED moves ELSE Spend)

MigrateStage ==
    /\ At("migrate", "stage") /\ Same /\ UNCHANGED recover
    /\ \/ /\ step' = "verify" /\ staging' = "there" /\ UNCHANGED <<result, moves>>
          /\ source' = [source EXCEPT !.frozen = source.read]
       \/ Fail("refused") /\ Spend /\ UNCHANGED source

MigrateVerify == Stage("migrate", "verify", "compare") /\ UNCHANGED source

\* The source must still be what was migrated, then one rename.
MigrateCommit ==
    /\ At("migrate", "compare") /\ UNCHANGED <<command, before, backup, moved, source, recover>>
    /\ IF source.now # source.read THEN UNCHANGED <<disk, moves>> /\ Fail("refused")
       ELSE \/ /\ disk' = [disk EXCEPT !.json = source.frozen]
               /\ step' = "end" /\ result' = "ok" /\ staging' = "gone" /\ UNCHANGED moves
            \/ UNCHANGED disk /\ Fail("refused") /\ Spend

-----------------------------------------------------------------------------
\* The surroundings

Edit == /\ Spend /\ step # "end" /\ source' = [source EXCEPT !.now = @ + 1]
        /\ UNCHANGED <<command, before, disk, staging, backup, step, moved, recover, result>>

Kill == /\ Spend /\ step # "end" /\ step' = "end" /\ result' = "killed"
        /\ UNCHANGED <<command, before, disk, source, staging, backup, moved, recover>>

Next ==
    \/ DeliverRead \/ DeliverStage \/ DeliverFreeze \/ DeliverRender \/ DeliverReceipt \/ DeliverCommit
    \/ CompareRead \/ CompareStage \/ CompareFreeze \/ CompareValidate \/ CompareReceipt
    \/ Preflight \/ Backup \/ Commit \/ RollbackRemove \/ RollbackRestore
    \/ MigrateRead \/ MigrateStage \/ MigrateVerify \/ MigrateCommit \/ Edit \/ Kill

-----------------------------------------------------------------------------
\* Properties

MyFiles == {Mine[i] : i \in DOMAIN Mine}

\* A success put all of it in place, made from the bytes that were read;
\* a refusal or a rollback left every target as it was.
AllOrNothing ==
    /\ result = "ok" => \A f \in MyFiles : disk[f] = source.read
    /\ result \in {"refused", "restored"} => disk = before

\* Nothing that was there is lost: until the command succeeds it lies at its place or
\* in a staging directory that is still there, also when the process is killed.
NothingLost ==
    \A f \in MyFiles : before[f] = Old /\ result # "ok" =>
        disk[f] = Old \/ (backup[f] = Old /\ staging \in {"there", "kept"})

\* A rollback that failed names what it could not restore, or leaves a file that was
\* not there before.
FailureNamed ==
    result = "rollback failed" =>
        \A f \in MyFiles : disk[f] # before[f] => f \in recover \/ before[f] = Absent

PublishFaithful == AllOrNothing /\ NothingLost /\ FailureNamed

-----------------------------------------------------------------------------
\* The inductive invariant behind PublishFaithful

InSeq(f, s) == \E i \in DOMAIN s : s[i] = f
Pair == <<"html", "receipt">>

\* The pair is being moved; before that, and in the other commands, nothing has been.
Moving == command = "compare" /\ step \in {"backup", "commit", "remove", "restore"}
Frozen == {"render", "receipt", "commit", "validate", "preflight", "verify", "compare",
           "backup", "remove", "restore"}
Steps == Frozen \cup {"read", "stage", "freeze", "end"}

Reads == [now : Nat, read : Nat, frozen : Nat]
Moves == [backedUp : {<<>>, <<"html">>, <<"receipt">>, Pair}, committed : {<<>>, <<"html">>, Pair},
          failed : BOOLEAN]

TypeInv ==
    /\ command \in Commands /\ before \in [Files -> Kinds] /\ disk \in [Files -> Int]
    /\ source \in Reads /\ moved \in Moves /\ step \in Steps
    /\ staging \in {"none", "there", "gone", "kept"} /\ backup \in [Files -> {Empty, Old}]
    /\ recover \subseteq Files
    /\ result \in {"none", "ok", "refused", "restored", "rollback failed", "killed"}

\* The command ends when its result is known, and commits what it has read.
StepInv ==
    /\ step = "end" <=> result # "none"
    /\ step \in Frozen => source.frozen = source.read
    /\ command = "compare" /\ step \in {"freeze", "validate", "receipt", "preflight"} =>
          staging = "there"

UntouchedInv ==
    step # "end" /\ ~Moving =>
        /\ disk = before /\ recover = {}
        /\ moved.backedUp = <<>> /\ moved.committed = <<>> /\ ~moved.failed
        /\ \A f \in Files : backup[f] = Empty

\* One target of the pair: what was there is in its place or in the backup, and who has
\* a backup is listed to be restored or named for recovery; where nothing was, nothing
\* is but what is committed, unless a step of the rollback failed.
TargetInv(f) ==
    /\ before[f] # Dir
    /\ backup[f] = Old => before[f] = Old /\ (InSeq(f, moved.backedUp) \/ f \in recover)
    /\ backup[f] = Empty /\ before[f] = Old => disk[f] = Old
    /\ InSeq(f, moved.backedUp) => backup[f] = Old
    /\ InSeq(f, moved.committed) => before[f] = Absent \/ backup[f] = Old
    /\ ~moved.failed /\ before[f] = Absent /\ ~InSeq(f, moved.committed) => disk[f] = Absent
    /\ step = "backup" => disk[f] = IF InSeq(f, moved.backedUp) THEN Absent ELSE before[f]
    /\ step = "commit" => /\ before[f] = Old => backup[f] = Old
                          /\ InSeq(f, moved.committed) => disk[f] = source.frozen

MovingInv ==
    Moving =>
        /\ staging = "there" /\ (step # "restore" \/ ~moved.failed => recover = {})
        /\ disk["json"] = before["json"]
        /\ step \in {"backup", "restore"} => moved.committed = <<>>
        /\ moved.committed # Pair
        /\ step = "backup" /\ moved.backedUp = <<"receipt">> => disk["html"] = Absent
        /\ \A f \in {"html", "receipt"} : TargetInv(f)

IInv == TypeInv /\ StepInv /\ UntouchedInv /\ MovingInv /\ AllOrNothing /\ NothingLost /\ FailureNamed
=============================================================================
