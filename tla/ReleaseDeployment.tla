-------------------------- MODULE ReleaseDeployment --------------------------
(***************************************************************************)
(* Releases of the production host: deploy-docker-home-release.sh, the     *)
(* scripts it runs (prepare, backup, verify) and their shared library,     *)
(* with the lock directories, release trees, markers, containers and data  *)
(* they work on. Preparing a release is also a command of its own.         *)
(*                                                                         *)
(* A command runs under `set -e': any command that fails leads to the exit *)
(* trap of the script it fails in. A kill (SIGKILL, power loss) runs no    *)
(* trap. One action stands for the commands between two points at which a  *)
(* lock, a marker, a tree, a container or the data changes. Image          *)
(* identifiers, checksums and permissions of evidence are left out: they   *)
(* are among the reasons for which a command fails.                        *)
(***************************************************************************)
EXTENDS Naturals, FiniteSets

CONSTANTS
  Operators,    \* shells from which the scripts are started
  Releases,     \* commits reachable from the trusted ref
  Ancestry,     \* git merge-base --is-ancestor, as a set of pairs
  First,        \* the release that runs at the beginning
  Faults,       \* subset of "claim", "command", "start", "disk", "flap"
  KillAt,       \* points at which a command can be killed
  MaxCommands,  \* bound: commands started
  MaxWrites,    \* bound: changes of the data that are told apart
  None,
  Damaged       \* a marker file that holds no commit

IsAncestor(a, b) == <<a, b>> \in Ancestry

Writers == {"api", "worker"}

PreparePc == {"fetch", "take", "stage", "look", "rename", "seal", "drop"}
DeployPc == {"check", "build", "collect", "stopApi", "stopWorker", "inspect",
             "postgres", "redis", "reports", "keep", "attempt",
             "up", "mark", "verify", "switch", "record"}
Pc == {"idle", "cleanup", "abort", "release"} \cup PreparePc \cup DeployPc

\* Nothing is assumed of the release that runs at the beginning: on a host
\* without markers an older one may be deployed.
ASSUME ReleaseConstants ==
  /\ First \in Releases
  /\ Ancestry \subseteq Releases \X Releases
  /\ \A r \in Releases : IsAncestor(r, r)
  /\ \A a, b, c \in Releases : IsAncestor(a, b) /\ IsAncestor(b, c) => IsAncestor(a, c)
  /\ KillAt \subseteq Pc \ {"idle"}
  /\ MaxCommands \in Nat /\ MaxWrites \in Nat
  /\ None \notin Releases \cup Nat \cup {"deploy", "prepare"}
  /\ Damaged \notin Releases \cup {None}

Container == [release: Releases, state: {"up", "restarting", "stopped"}]
Part == 0..MaxWrites \cup {None}
Dump == [postgres: Part, redis: Part, reports: Part]
NoDump == [postgres |-> None, redis |-> None, reports |-> None]

IdleTask == [pc |-> "idle", command |-> None, target |-> None, old |-> None,
             stopped |-> FALSE, attempted |-> FALSE, dump |-> NoDump]

Task ==
  {IdleTask}
    \cup [pc: Pc \ {"idle"}, command: {"deploy", "prepare"}, target: Releases,
          old: [Writers -> Releases] \cup {None}, \* OLD_WRITER_IDS
          stopped: BOOLEAN,                       \* WRITERS_STOPPED
          attempted: BOOLEAN,                     \* START_ATTEMPTED
          dump: Dump]

\* Only the exit trap sets old_writers_restarted, and it records a failure.
Record == [status: {"none", "open", "succeeded"}, restarted: {FALSE}]
            \cup [status: {"failed"}, restarted: BOOLEAN]

VARIABLES
  task,        \* the command each operator runs
  locked,      \* .immutable-deploy.lock exists
  preparing,   \* releases whose .prepare.lock exists
  tree,        \* the release directory of each release
  container,   \* the container of each writer
  data,        \* number of changes, and the newest release that made one
  runtimeSha,  \* runtime-sha
  current,     \* the release the current link points at
  record,      \* record.txt of the latest deployment
  unmarked,    \* history: releases that may have worked on the data although
               \* the marker they should be known by was never written
  commands     \* number of commands started

vars == <<task, locked, preparing, tree, container, data, runtimeSha, current,
          record, unmarked, commands>>
host == <<container, data, runtimeSha, current, record, unmarked>>

TypeOK ==
  /\ task \in [Operators -> Task]
  /\ locked \in BOOLEAN
  /\ preparing \subseteq Releases
  /\ tree \in [Releases -> {"absent", "writable", "sealed", "nested"}]
  /\ container \in [Writers -> Container]
  /\ data \in [writes: 0..MaxWrites, by: Releases]
  /\ runtimeSha \in Releases \cup {None, Damaged}
  /\ current \in Releases \cup {None}
  /\ record \in Record
  /\ unmarked \subseteq Releases
  /\ commands \in 0..MaxCommands

\* The host was set up by hand: the writers run, the markers may be missing.
Init ==
  /\ task = [o \in Operators |-> IdleTask]
  /\ locked = FALSE
  /\ preparing = {}
  /\ container = [w \in Writers |-> [release |-> First, state |-> "up"]]
  /\ data = [writes |-> 0, by |-> First]
  /\ current \in {First, None} /\ runtimeSha \in {current, None}
  /\ tree = [r \in Releases |-> IF r = current THEN "sealed" ELSE "absent"]
  /\ record = [status |-> "none", restarted |-> FALSE]
  /\ unmarked = IF current = None THEN {First} ELSE {}
  /\ commands = 0

-----------------------------------------------------------------------------
(* Commands                                                                 *)

At(o, pc) == task[o].pc = pc
Go(o, pc) == task' = [task EXCEPT ![o].pc = pc]
GoWith(o, pc, dump) == task' = [task EXCEPT ![o].pc = pc, ![o].dump = dump]
Finish(o) == task' = [task EXCEPT ![o] = IdleTask]

\* Mutant: mkdir -p, which succeeds on a directory that is there.
DeployLockTakenShared == FALSE

DeployLockTaken == locked

OpenRecord == [status |-> "open", restarted |-> FALSE]

\* A deployment without its lock exits before it has set a trap.
Deploy(o, r) ==
  /\ At(o, "idle") /\ commands < MaxCommands /\ ~DeployLockTaken
  /\ commands' = commands + 1
  /\ locked' = TRUE
  /\ \/ /\ task' = [task EXCEPT ![o] = [IdleTask EXCEPT
                      !.pc = "fetch", !.command = "deploy", !.target = r]]
        /\ record' = OpenRecord
     \/ /\ "claim" \in Faults     \* the directory is made, its owner file is not
        /\ UNCHANGED <<task, record>>
  /\ UNCHANGED <<preparing, tree, container, data, runtimeSha, current, unmarked>>

Prepare(o, r) ==
  /\ At(o, "idle") /\ commands < MaxCommands
  /\ commands' = commands + 1
  /\ task' = [task EXCEPT ![o] = [IdleTask EXCEPT
                !.pc = "fetch", !.command = "prepare", !.target = r]]
  /\ UNCHANGED <<locked, preparing, tree, host>>

\* A command fails, and the exit trap of its script takes over.
CommandFails(o) ==
  /\ "command" \in Faults
  /\ \/ /\ task[o].pc \in PreparePc
        /\ Go(o, "cleanup")
     \/ /\ task[o].pc \in DeployPc \ {"up"}
        /\ Go(o, "abort")
  /\ UNCHANGED <<locked, preparing, tree, host, commands>>

\* A marker is at the release or ahead of it.
Recorded(r) == IsAncestor(r, runtimeSha) \/ IsAncestor(r, current)

\* The history, when a marker is written and when one should have been.
Unmarked(worked) == {r \in unmarked \cup worked : ~Recorded(r)'}

\* A kill between the start of a release and the marker leaves no marker.
Kill(o) ==
  /\ task[o].pc \in KillAt
  /\ Finish(o)
  /\ UNCHANGED <<locked, preparing, tree, container, data, runtimeSha, current, record,
                 commands>>
  /\ unmarked' = IF task[o].attempted THEN Unmarked({task[o].target}) ELSE unmarked

-----------------------------------------------------------------------------
(* prepare-docker-home-release.sh                                           *)

\* What follows a preparation: nothing, or the rest of the deployment.
Leave(o, pc) == IF task[o].command = "prepare" THEN Finish(o) ELSE Go(o, pc)

Fetch(o) ==
  /\ At(o, "fetch")
  /\ Go(o, "take")
  /\ UNCHANGED <<locked, preparing, tree, host, commands>>

TakePrepareLock(o) ==
  /\ At(o, "take")
  /\ IF task[o].target \in preparing
     THEN Go(o, "cleanup") /\ UNCHANGED preparing
     ELSE Go(o, "stage") /\ preparing' = preparing \cup {task[o].target}
  /\ UNCHANGED <<locked, tree, host, commands>>

\* Mutant: a release directory is used again whatever the mode of its files.
ReusableAsFound(r) == tree[r] \in {"writable", "sealed"}

\* A release directory is used again when nobody can write to it and its
\* files are those of the commit.
Reusable(r) == tree[r] = "sealed"

Stage(o) ==
  /\ At(o, "stage")
  /\ \/ tree[task[o].target] = "absent" /\ Go(o, "look")
     \/ Reusable(task[o].target) /\ Go(o, "drop")
     \/ tree[task[o].target] # "absent" /\ ~Reusable(task[o].target) /\ Go(o, "cleanup")
  /\ UNCHANGED <<locked, preparing, tree, host, commands>>

Look(o) ==
  /\ At(o, "look")
  /\ Go(o, IF tree[task[o].target] = "absent" THEN "rename" ELSE "cleanup")
  /\ UNCHANGED <<locked, preparing, tree, host, commands>>

\* mv moves the stage into a directory that has appeared meanwhile.
Rename(o) ==
  /\ At(o, "rename")
  /\ tree' = [tree EXCEPT ![task[o].target] = IF @ = "absent" THEN "writable" ELSE "nested"]
  /\ Go(o, "seal")
  /\ UNCHANGED <<locked, preparing, host, commands>>

Seal(o) ==
  /\ At(o, "seal")
  /\ tree' = [tree EXCEPT ![task[o].target] = IF @ = "writable" THEN "sealed" ELSE @]
  /\ Go(o, "drop")
  /\ UNCHANGED <<locked, preparing, host, commands>>

\* rmdir fails when another preparation has removed the lock.
DropPrepareLock(o) ==
  /\ At(o, "drop")
  /\ preparing' = preparing \ {task[o].target}
  /\ IF task[o].target \in preparing THEN Leave(o, "check") ELSE Go(o, "cleanup")
  /\ UNCHANGED <<locked, tree, host, commands>>

\* The trap removes the lock that is there, whoever holds it.
Cleanup(o) ==
  /\ At(o, "cleanup")
  /\ preparing' = preparing \ {task[o].target}
  /\ Leave(o, "abort")
  /\ UNCHANGED <<locked, tree, host, commands>>

-----------------------------------------------------------------------------
(* deploy-docker-home-release.sh                                            *)

\* Mutant: the baseline is the verified release, not the one that was started.
BaselineVerified == IF current # None THEN current ELSE runtimeSha

Baseline == IF runtimeSha # None THEN runtimeSha ELSE current

\* A marker that holds no commit stops every deployment.
Allowed(r) ==
  /\ runtimeSha # Damaged
  /\ runtimeSha # None /\ current # None => IsAncestor(current, runtimeSha)
  /\ Baseline # None => IsAncestor(Baseline, r)
  /\ ~(current = r /\ runtimeSha = r)

Check(o) ==
  /\ At(o, "check")
  /\ Go(o, IF Allowed(task[o].target) THEN "build" ELSE "abort")
  /\ UNCHANGED <<locked, preparing, tree, host, commands>>

Build(o) ==
  /\ At(o, "build")
  /\ Go(o, "collect")
  /\ UNCHANGED <<locked, preparing, tree, host, commands>>

\* Each writer must be running exactly once. From here on the exit trap
\* takes the writers for stopped.
CollectWriters(o) ==
  /\ At(o, "collect")
  /\ IF \A w \in Writers : container[w].state = "up"
     THEN task' = [task EXCEPT ![o].pc = "stopApi", ![o].stopped = TRUE,
                     ![o].old = [w \in Writers |-> container[w].release]]
     ELSE Go(o, "abort")
  /\ UNCHANGED <<locked, preparing, tree, host, commands>>

\* docker stop, which may also fail after it stopped the container.
Stop(o, w) ==
  /\ At(o, IF w = "api" THEN "stopApi" ELSE "stopWorker")
  /\ container' = [container EXCEPT ![w].state = "stopped"]
  /\ \/ Go(o, IF w = "api" THEN "stopWorker" ELSE "inspect")
     \/ "command" \in Faults /\ Go(o, "abort")
  /\ UNCHANGED <<locked, preparing, tree, data, runtimeSha, current, record, unmarked,
                 commands>>

WritersStopped == \A w \in Writers : container[w].state = "stopped"

Inspect(o) ==
  /\ At(o, "inspect")
  /\ Go(o, IF WritersStopped THEN "postgres" ELSE "abort")
  /\ UNCHANGED <<locked, preparing, tree, host, commands>>

\* backup-docker-home-release.sh: three parts, one after the other.
DumpPostgres(o) ==
  /\ At(o, "postgres")
  /\ IF WritersStopped
     THEN GoWith(o, "redis", [task[o].dump EXCEPT !.postgres = data.writes])
     ELSE Go(o, "abort")
  /\ UNCHANGED <<locked, preparing, tree, host, commands>>

DumpRedis(o) ==
  /\ At(o, "redis")
  /\ GoWith(o, "reports", [task[o].dump EXCEPT !.redis = data.writes])
  /\ UNCHANGED <<locked, preparing, tree, host, commands>>

ArchiveReports(o) ==
  /\ At(o, "reports")
  /\ GoWith(o, "keep", [task[o].dump EXCEPT !.reports = data.writes])
  /\ UNCHANGED <<locked, preparing, tree, host, commands>>

KeepBackup(o) ==
  /\ At(o, "keep")
  /\ Go(o, "attempt")
  /\ UNCHANGED <<locked, preparing, tree, host, commands>>

AttemptStart(o) ==
  /\ At(o, "attempt")
  /\ task' = [task EXCEPT ![o].pc = "up", ![o].attempted = TRUE]
  /\ UNCHANGED <<locked, preparing, tree, host, commands>>

\* A release that comes up works on the data: it extends the schema and writes.
Touched(r) == [data EXCEPT !.by = r]

\* docker compose up. When it fails, or the record before it cannot be
\* written, each writer is still the old stopped one, created, or started.
Up(o) ==
  /\ At(o, "up")
  /\ \E created \in SUBSET Writers : \E started \in SUBSET created :
       \E failing \in SUBSET started :
         /\ container' = [w \in Writers |->
              IF w \in created
              THEN [release |-> task[o].target,
                    state |-> IF w \notin started THEN "stopped"
                              ELSE IF w \in failing THEN "restarting" ELSE "up"]
              ELSE container[w]]
         /\ data' = IF started = {} THEN data ELSE Touched(task[o].target)
         /\ \/ started = Writers /\ Go(o, "mark")
            \/ "start" \in Faults /\ Go(o, "abort")
  /\ UNCHANGED <<locked, preparing, tree, runtimeSha, current, record, unmarked, commands>>

\* When a part of the write fails, nothing is replaced and the exit trap runs.
Mark(o) ==
  /\ At(o, "mark")
  /\ runtimeSha' = task[o].target
  /\ Go(o, "verify")
  /\ UNCHANGED <<locked, preparing, tree, container, data, current, record, commands>>
  /\ unmarked' = Unmarked({})

\* verify-docker-home-release.sh
Verify(o) ==
  /\ At(o, "verify")
  /\ Go(o, IF \A w \in Writers :
                container[w] = [release |-> task[o].target, state |-> "up"]
           THEN "switch" ELSE "abort")
  /\ UNCHANGED <<locked, preparing, tree, host, commands>>

SwitchCurrent(o) ==
  /\ At(o, "switch")
  /\ current' = task[o].target
  /\ Go(o, "record")
  /\ UNCHANGED <<locked, preparing, tree, container, data, runtimeSha, record, unmarked,
                 commands>>

\* The line printed after the record may fail, as on a closed terminal.
RecordSuccess(o) ==
  /\ At(o, "record")
  /\ record' = [status |-> "succeeded", restarted |-> FALSE]
  /\ \/ Go(o, "release")
     \/ "command" \in Faults /\ Go(o, "abort")
  /\ UNCHANGED <<locked, preparing, tree, container, data, runtimeSha, current, unmarked,
                 commands>>

\* Mutant: the exit trap leaves the marker to the step that was not reached.
MarkerAtExitKept(o) == runtimeSha

MarkerAtExit(o) == IF task[o].attempted THEN task[o].target ELSE runtimeSha

\* The trap runs under `set +e' and passes over a write that fails: the marker
\* is then the one before, or was replaced by a file that could not be filled.
MarkAtExit(o) ==
  \/ /\ runtimeSha' = MarkerAtExit(o)
     /\ unmarked' = Unmarked({})
  \/ /\ "disk" \in Faults /\ task[o].attempted
     /\ runtimeSha' \in {runtimeSha, Damaged}
     /\ unmarked' = Unmarked({task[o].target, data.by})

FailedRecord(restarted) == [status |-> "failed", restarted |-> restarted]

\* The same for the record; one that could not be filled claims nothing.
RecordAtExit(restarted) ==
  record' \in {FailedRecord(restarted)}
                \cup (IF "disk" \in Faults THEN {record, OpenRecord} ELSE {})

\* Mutant: docker start is taken to have worked.
AllRestartedAssumed(started) == TRUE

AllRestarted(started) == started = Writers

\* on_exit: before any start of the target the old writers are started again.
OnExit(o) ==
  /\ At(o, "abort")
  /\ UNCHANGED <<locked, preparing, tree, current, commands>>
  /\ MarkAtExit(o)
  /\ IF task[o].stopped /\ ~task[o].attempted
     THEN \E started \in SUBSET {w \in Writers : container[w].release = task[o].old[w]} :
            /\ started # Writers => "command" \in Faults
            /\ container' = [w \in Writers |->
                 IF w \in started THEN [container[w] EXCEPT !.state = "up"] ELSE container[w]]
            /\ data' \in IF started = {} THEN {data} ELSE {Touched(task[o].old[w]) : w \in started}
            /\ RecordAtExit(AllRestarted(started))
     ELSE RecordAtExit(FALSE) /\ UNCHANGED <<container, data>>
  /\ Go(o, "release")

\* A lock that cannot be removed stays, as after a kill at this point.
ReleaseDeployLock(o) ==
  /\ At(o, "release")
  /\ locked' = FALSE
  /\ Finish(o)
  /\ UNCHANGED <<preparing, tree, host, commands>>

-----------------------------------------------------------------------------
(* The containers, and the operator as docs/runbook.md lets them act        *)

Flap(w) ==
  /\ "flap" \in Faults
  /\ \/ /\ container[w].state = "up"
        /\ container' = [container EXCEPT ![w].state = "restarting"]
        /\ UNCHANGED data
     \/ /\ container[w].state = "restarting"
        /\ container' = [container EXCEPT ![w].state = "up"]
        /\ data' = Touched(container[w].release)
  /\ UNCHANGED <<task, locked, preparing, tree, runtimeSha, current, record, unmarked,
                 commands>>

Write(w) ==
  /\ container[w].state = "up" /\ data.writes < MaxWrites
  /\ data' = [writes |-> data.writes + 1, by |-> container[w].release]
  /\ UNCHANGED <<task, locked, preparing, tree, container, runtimeSha, current, record,
                 unmarked, commands>>

ClearStaleLock ==
  /\ locked /\ \A o \in Operators : task[o].command # "deploy"
  /\ locked' = FALSE
  /\ UNCHANGED <<task, preparing, tree, host, commands>>

\* Never an image older than the one recorded as started.
StartByHand(w) ==
  /\ ~locked /\ container[w].state = "stopped"
  /\ runtimeSha \in {container[w].release, None}
  /\ container' = [container EXCEPT ![w].state = "up"]
  /\ data' = Touched(container[w].release)
  /\ UNCHANGED <<task, locked, preparing, tree, runtimeSha, current, record, unmarked,
                 commands>>

PrepareStep(o) ==
  \/ Fetch(o) \/ TakePrepareLock(o) \/ Stage(o) \/ Look(o) \/ Rename(o) \/ Seal(o)
  \/ DropPrepareLock(o) \/ Cleanup(o)

DeployStep(o) ==
  \/ Check(o) \/ Build(o) \/ CollectWriters(o) \/ (\E w \in Writers : Stop(o, w))
  \/ Inspect(o) \/ DumpPostgres(o) \/ DumpRedis(o) \/ ArchiveReports(o)
  \/ KeepBackup(o) \/ AttemptStart(o) \/ Up(o) \/ Mark(o) \/ Verify(o)
  \/ SwitchCurrent(o) \/ RecordSuccess(o) \/ OnExit(o) \/ ReleaseDeployLock(o)

Next ==
  \/ \E o \in Operators :
       \/ \E r \in Releases : Deploy(o, r) \/ Prepare(o, r)
       \/ PrepareStep(o) \/ DeployStep(o) \/ CommandFails(o) \/ Kill(o)
  \/ \E w \in Writers : Flap(w) \/ Write(w) \/ StartByHand(w)
  \/ ClearStaleLock

Spec == Init /\ [][Next]_vars

-----------------------------------------------------------------------------
(* Properties                                                               *)

\* The backup a release is started on holds all three stores as they are at
\* that moment: nothing was written between the first part and the start
\* (the writers are stopped in deploy-docker-home-release.sh:227, and nobody
\* else starts them).
BackupCoversStart ==
  \A o \in Operators : task[o].pc \in {"keep", "attempt", "up"} =>
    task[o].dump = [postgres |-> data.writes, redis |-> data.writes, reports |-> data.writes]

\* No step takes production back: neither the data, nor the marker of what was
\* started, nor the current link ever moves to a release that does not descend
\* from the one before, over any sequence of failed and repeated deployments
\* (deploy-docker-home-release.sh:121-129, 244). The data is excepted when it
\* was last changed by a release whose marker was lost, or which ran on a host
\* without markers; the markers are not.
ForwardOnly ==
  [][/\ data.by \in unmarked \/ IsAncestor(data.by, data'.by)
     /\ runtimeSha \in Releases => runtimeSha' = Damaged \/ IsAncestor(runtimeSha, runtimeSha')
     /\ current # None => IsAncestor(current, current')]_vars

\* Whatever release has worked on the data is known to the next deployment: a
\* marker is at it or ahead of it, unless its deployment is still at the start,
\* the script was killed before it wrote the marker, or the exit trap's write
\* failed unseen (deploy-docker-home-release.sh:85-88, 248). No other failure,
\* in any order, loses track of a release.
RuntimeCoversData ==
  \/ Recorded(data.by) \/ data.by \in unmarked
  \/ \E o \in Operators : task[o].attempted /\ task[o].pc \in {"mark", "abort"}

\* The current link never runs ahead of the release that was started, which the
\* next deployment would refuse as a damaged host
\* (deploy-docker-home-release.sh:121, 258).
CurrentNeverAhead ==
  current # None /\ runtimeSha \in Releases => IsAncestor(current, runtimeSha)

\* When no deployment is under way and a writer is stopped, the last record
\* does not claim a success or that the old writers were restarted
\* (deploy-docker-home-release.sh:91-98; docs/runbook.md:86).
OutageIsRecorded ==
  ~locked /\ (\E w \in Writers : container[w].state = "stopped") =>
    record.status # "succeeded" /\ ~record.restarted

\* A deployment builds and starts only from a release tree that is complete and
\* read-only, although a failing preparation removes the lock of another one
\* (prepare-docker-home-release.sh:64, 122-133).
UsedReleaseSealed ==
  \A o \in Operators : task[o].command = "deploy" /\ task[o].pc \in DeployPc =>
    tree[task[o].target] \in {"sealed", "nested"}
=============================================================================
