----------------------- MODULE ReleaseDeploymentProofs -----------------------
(***************************************************************************)
(* Theorems about ReleaseDeployment, for any number of operators, releases *)
(* and commands.                                                           *)
(***************************************************************************)
EXTENDS ReleaseDeployment, TLAPS

\* Git ancestry is a partial order as far as the deployment relies on it.
LEMMA Ancestors ==
  /\ First \in Releases
  /\ \A r \in Releases : IsAncestor(r, r)
  /\ \A a, b, c \in Releases : IsAncestor(a, b) /\ IsAncestor(b, c) => IsAncestor(a, c)
  /\ \A a, b : IsAncestor(a, b) => a \in Releases /\ b \in Releases
  /\ None \notin Releases /\ Damaged \notin Releases /\ Damaged # None
BY ReleaseConstants DEF IsAncestor

\* The points of a command.
LEMMA Points ==
  /\ \A pc \in {"idle", "cleanup", "abort", "release"} : pc \in Pc
  /\ PreparePc \subseteq Pc /\ DeployPc \subseteq Pc
  /\ {"fetch", "take", "stage", "look", "rename", "seal", "drop"} = PreparePc
  /\ {"check", "build", "collect", "stopApi", "stopWorker", "inspect", "postgres",
      "redis", "reports", "keep", "attempt", "up", "mark", "verify", "switch",
      "record"} = DeployPc
BY DEF Pc, PreparePc, DeployPc

\* What is known of a command under way.
LEMMA Busy ==
  ASSUME TypeOK, NEW o \in Operators, task[o].pc # "idle"
  PROVE  task[o] \in [pc: Pc \ {"idle"}, command: {"deploy", "prepare"}, target: Releases,
                      old: [Writers -> Releases] \cup {None}, stopped: BOOLEAN,
                      attempted: BOOLEAN, dump: Dump]
BY DEF TypeOK, Task, IdleTask

\* A command under way goes on, or ends.
LEMMA Moves ==
  ASSUME TypeOK, NEW o \in Operators, task[o].pc # "idle",
         Finish(o) \/ \E pc \in Pc \ {"idle"} : Go(o, pc)
  PROVE  task' \in [Operators -> Task]
<1>1. CASE Finish(o)
  BY <1>1 DEF TypeOK, Finish, Task
<1>2. ASSUME NEW pc \in Pc \ {"idle"}, Go(o, pc) PROVE task' \in [Operators -> Task]
  <2>1. [task[o] EXCEPT !.pc = pc] \in Task
    BY Busy DEF Task
  <2>2. QED BY <1>2, <2>1 DEF TypeOK, Go
<1>3. QED BY <1>1, <1>2

LEMMA MovesWith ==
  ASSUME TypeOK, NEW o \in Operators, task[o].pc # "idle",
         NEW pc \in Pc \ {"idle"}, NEW d \in Dump, GoWith(o, pc, d)
  PROVE  task' \in [Operators -> Task]
<1>1. [task[o] EXCEPT !.pc = pc, !.dump = d] \in Task
  BY Busy DEF Task
<1>2. QED BY <1>1 DEF TypeOK, GoWith

\* Deployment records.
LEMMA Records ==
  /\ \A s \in {"none", "open", "succeeded"} : [status |-> s, restarted |-> FALSE] \in Record
  /\ \A b \in BOOLEAN : [status |-> "failed", restarted |-> b] \in Record
BY DEF Record

\* A step that leaves the host and its deployment lock alone.
LEMMA Frame ==
  ASSUME TypeOK, task' \in [Operators -> Task], UNCHANGED <<host, locked, commands>>,
         preparing' \subseteq Releases,
         tree' \in [Releases -> {"absent", "writable", "sealed", "nested"}]
  PROVE  TypeOK'
BY DEF TypeOK, host

LEMMA TypesHold == (Init => TypeOK) /\ (TypeOK /\ [Next]_vars => TypeOK')
<1>1. Init => TypeOK
  <2> SUFFICES ASSUME Init PROVE TypeOK
    OBVIOUS
  <2>1. task \in [Operators -> Task]
    BY DEF Init, Task
  <2>2. container \in [Writers -> Container]
    BY ReleaseConstants DEF Init, Container
  <2>3. record \in Record
    BY DEF Init, Record
  <2>4. data \in [writes: 0..MaxWrites, by: Releases] /\ commands \in 0..MaxCommands
    BY ReleaseConstants DEF Init
  <2>5. tree \in [Releases -> {"absent", "writable", "sealed", "nested"}]
    BY DEF Init
  <2>6. unmarked \subseteq Releases
    BY ReleaseConstants DEF Init
  <2>7. current \in Releases \cup {None} /\ runtimeSha \in Releases \cup {None, Damaged}
    BY ReleaseConstants DEF Init
  <2>8. locked \in BOOLEAN /\ preparing \subseteq Releases
    BY DEF Init
  <2>9. QED
    BY <2>1, <2>2, <2>3, <2>4, <2>5, <2>6, <2>7, <2>8 DEF TypeOK
<1>2. TypeOK /\ [Next]_vars => TypeOK'
  <2> SUFFICES ASSUME TypeOK, [Next]_vars PROVE TypeOK'
    OBVIOUS
  <2>1. ASSUME NEW o \in Operators, NEW r \in Releases, Deploy(o, r) \/ Prepare(o, r)
        PROVE  TypeOK'
    <3>1. task' \in [Operators -> Task]
      <4>1. "fetch" \in Pc \ {"idle"} /\ NoDump \in Dump
        BY Points DEF NoDump, Dump, Part
      <4>2. ASSUME NEW c \in {"deploy", "prepare"}
            PROVE  [IdleTask EXCEPT !.pc = "fetch", !.command = c, !.target = r] \in Task
        BY <4>1 DEF Task, IdleTask
      <4>3. task \in [Operators -> Task]
        BY DEF TypeOK
      <4>4. CASE Deploy(o, r)
        BY <4>2, <4>3, <4>4 DEF Deploy
      <4>5. CASE Prepare(o, r)
        BY <4>2, <4>3, <4>5 DEF Prepare
      <4>6. QED BY <2>1, <4>4, <4>5
    <3>2. locked' \in BOOLEAN /\ record' \in Record
      BY <2>1, Records DEF Deploy, Prepare, OpenRecord, TypeOK, host
    <3>3. commands' \in 0..MaxCommands
      BY <2>1, ReleaseConstants DEF Deploy, Prepare, TypeOK
    <3>4. UNCHANGED <<preparing, tree, container, data, runtimeSha, current, unmarked>>
      BY <2>1 DEF Deploy, Prepare, host
    <3>5. QED BY <3>1, <3>2, <3>3, <3>4 DEF TypeOK
  <2>2. ASSUME NEW o \in Operators, PrepareStep(o) PROVE TypeOK'
    <3>1. /\ task[o].pc # "idle"
          /\ Finish(o) \/ \E pc \in Pc \ {"idle"} : Go(o, pc)
      BY <2>2, Points DEF PrepareStep, Fetch, TakePrepareLock, Stage, Look, Rename, Seal,
                          DropPrepareLock, Cleanup, Leave, At
    <3>2. UNCHANGED <<host, locked, commands>>
      BY <2>2 DEF PrepareStep, Fetch, TakePrepareLock, Stage, Look, Rename, Seal,
                  DropPrepareLock, Cleanup
    <3>3. preparing' \subseteq Releases
      <4>1. task[o].target \in Releases
        BY <3>1, Busy
      <4>2. QED
        BY <2>2, <4>1 DEF PrepareStep, Fetch, TakePrepareLock, Stage, Look, Rename, Seal,
                          DropPrepareLock, Cleanup, TypeOK
    <3>4. tree' \in [Releases -> {"absent", "writable", "sealed", "nested"}]
      BY <2>2 DEF PrepareStep, Fetch, TakePrepareLock, Stage, Look, Rename, Seal,
                  DropPrepareLock, Cleanup, TypeOK
    <3>5. QED BY <3>1, <3>2, <3>3, <3>4, Moves, Frame
  <2>3. ASSUME NEW o \in Operators,
               Check(o) \/ Build(o) \/ Inspect(o) \/ KeepBackup(o) \/ Verify(o)
               \/ CommandFails(o)
        PROVE  TypeOK'
    <3>1. /\ task[o].pc # "idle"
          /\ \E pc \in Pc \ {"idle"} : Go(o, pc)
      BY <2>3, Points DEF Check, Build, Inspect, KeepBackup, Verify, CommandFails, At
    <3>2. UNCHANGED <<host, locked, commands, preparing, tree>>
      BY <2>3 DEF Check, Build, Inspect, KeepBackup, Verify, CommandFails
    <3>3. QED BY <3>1, <3>2, Moves, Frame DEF TypeOK
  <2>4. ASSUME NEW o \in Operators,
               CollectWriters(o) \/ DumpPostgres(o) \/ DumpRedis(o) \/ ArchiveReports(o)
               \/ AttemptStart(o)
        PROVE  TypeOK'
    <3>1. task[o].pc # "idle" /\ task \in [Operators -> Task]
      BY <2>4 DEF CollectWriters, DumpPostgres, DumpRedis, ArchiveReports, AttemptStart,
                  At, TypeOK
    <3>2. {"stopApi", "redis", "reports", "keep", "up", "abort"} \subseteq Pc \ {"idle"}
      BY Points
    <3>3. data.writes \in Part
      BY DEF TypeOK, Part
    <3>4. [w \in Writers |-> container[w].release] \in [Writers -> Releases]
      BY DEF TypeOK, Container
    <3>5. task' \in [Operators -> Task]
      <4>1. CASE CollectWriters(o)
        BY <3>1, <3>2, <3>4, <4>1, Busy DEF CollectWriters, Go, Task
      <4>2. CASE DumpPostgres(o)
        <5>1. [task[o].dump EXCEPT !.postgres = data.writes] \in Dump
          BY <3>1, <3>3, Busy DEF Dump
        <5>2. QED BY <3>1, <3>2, <4>2, <5>1, Moves, MovesWith DEF DumpPostgres
      <4>3. CASE DumpRedis(o)
        <5>1. [task[o].dump EXCEPT !.redis = data.writes] \in Dump
          BY <3>1, <3>3, Busy DEF Dump
        <5>2. QED BY <3>1, <3>2, <4>3, <5>1, MovesWith DEF DumpRedis
      <4>4. CASE ArchiveReports(o)
        <5>1. [task[o].dump EXCEPT !.reports = data.writes] \in Dump
          BY <3>1, <3>3, Busy DEF Dump
        <5>2. QED BY <3>1, <3>2, <4>4, <5>1, MovesWith DEF ArchiveReports
      <4>5. CASE AttemptStart(o)
        <5>1. [task[o] EXCEPT !.pc = "up", !.attempted = TRUE] \in Task
          BY <3>1, <3>2, Busy DEF Task
        <5>2. QED BY <3>1, <4>5, <5>1 DEF AttemptStart
      <4>6. QED BY <2>4, <4>1, <4>2, <4>3, <4>4, <4>5
    <3>6. UNCHANGED <<host, locked, commands, preparing, tree>>
      BY <2>4 DEF CollectWriters, DumpPostgres, DumpRedis, ArchiveReports, AttemptStart
    <3>7. QED BY <3>5, <3>6, Frame DEF TypeOK
  <2>5. ASSUME NEW o \in Operators, NEW w \in Writers, Stop(o, w) PROVE TypeOK'
    <3>1. task' \in [Operators -> Task]
      BY <2>5, Points, Moves DEF Stop, At
    <3>2. container' \in [Writers -> Container]
      BY <2>5 DEF Stop, TypeOK, Container
    <3>3. QED BY <2>5, <3>1, <3>2 DEF Stop, TypeOK
  <2>6. ASSUME NEW o \in Operators, Up(o) PROVE TypeOK'
    <3>1. task' \in [Operators -> Task]
      BY <2>6, Points, Moves DEF Up, At
    <3>2. task[o].target \in Releases
      BY <2>6, Busy DEF Up, At
    <3>3. container' \in [Writers -> Container]
      BY <2>6, <3>2 DEF Up, TypeOK, Container
    <3>4. data' \in [writes: 0..MaxWrites, by: Releases]
      BY <2>6, <3>2 DEF Up, Touched, TypeOK
    <3>5. QED BY <2>6, <3>1, <3>3, <3>4 DEF Up, TypeOK
  <2>7. ASSUME NEW o \in Operators, Mark(o) \/ SwitchCurrent(o) \/ RecordSuccess(o)
        PROVE  TypeOK'
    <3>1. task' \in [Operators -> Task]
      BY <2>7, Points, Moves DEF Mark, SwitchCurrent, RecordSuccess, At
    <3>2. task[o].target \in Releases
      BY <2>7, Busy DEF Mark, SwitchCurrent, RecordSuccess, At
    <3>3. record' \in Record
      BY <2>7, Records DEF Mark, SwitchCurrent, RecordSuccess, TypeOK
    <3>4. unmarked' \subseteq Releases
      BY <2>7 DEF Mark, SwitchCurrent, RecordSuccess, Unmarked, TypeOK
    <3>5. QED BY <2>7, <3>1, <3>2, <3>3, <3>4 DEF Mark, SwitchCurrent, RecordSuccess, TypeOK
  <2>8. ASSUME NEW o \in Operators, OnExit(o) \/ ReleaseDeployLock(o) PROVE TypeOK'
    <3>1. task' \in [Operators -> Task]
      BY <2>8, Points, Moves DEF OnExit, ReleaseDeployLock, At
    <3>2. /\ task[o].target \in Releases
          /\ task[o].old \in [Writers -> Releases] \cup {None}
      BY <2>8, Busy DEF OnExit, ReleaseDeployLock, At
    <3>3. CASE ReleaseDeployLock(o)
      BY <3>1, <3>3 DEF ReleaseDeployLock, TypeOK, host
    <3>4. CASE OnExit(o)
      <4>1. /\ runtimeSha' \in Releases \cup {None, Damaged}
            /\ unmarked' \subseteq Releases
        BY <3>2, <3>4 DEF OnExit, MarkAtExit, MarkerAtExit, Unmarked, TypeOK
      <4>2. record' \in Record
        <5>1. /\ FailedRecord(TRUE) \in Record /\ FailedRecord(FALSE) \in Record
              /\ OpenRecord \in Record /\ record \in Record
          BY Records DEF FailedRecord, OpenRecord, TypeOK
        <5>2. record' \in {FailedRecord(TRUE), FailedRecord(FALSE), record, OpenRecord}
          BY <3>4 DEF OnExit, RecordAtExit, AllRestarted, FailedRecord
        <5>3. QED BY <5>1, <5>2
      <4>3. container' \in [Writers -> Container]
        <5>1. \A w \in Writers : /\ container[w] \in Container
                                 /\ [container[w] EXCEPT !.state = "up"] \in Container
          BY DEF TypeOK, Container
        <5>2. container \in [Writers -> Container]
          BY DEF TypeOK
        <5>3. QED BY <3>4, <5>1, <5>2 DEF OnExit
      <4>4. data' \in [writes: 0..MaxWrites, by: Releases]
        <5>1. CASE UNCHANGED data BY <5>1 DEF TypeOK
        <5>2. ASSUME NEW w \in Writers, container[w].release = task[o].old[w],
                     data' = Touched(task[o].old[w])
              PROVE  data' \in [writes: 0..MaxWrites, by: Releases]
          BY <5>2 DEF TypeOK, Touched, Container
        <5>3. QED BY <3>4, <5>1, <5>2 DEF OnExit
      <4>5. QED BY <3>1, <3>4, <4>1, <4>2, <4>3, <4>4 DEF OnExit, TypeOK
    <3>5. QED BY <2>8, <3>3, <3>4
  <2>9. ASSUME NEW w \in Writers, Flap(w) \/ Write(w) \/ StartByHand(w) PROVE TypeOK'
    <3>1. container' \in [Writers -> Container]
      BY <2>9 DEF Flap, Write, StartByHand, TypeOK, Container
    <3>2. data' \in [writes: 0..MaxWrites, by: Releases]
      BY <2>9, ReleaseConstants DEF Flap, Write, StartByHand, Touched, TypeOK, Container
    <3>3. QED BY <2>9, <3>1, <3>2 DEF Flap, Write, StartByHand, TypeOK
  <2>10. CASE ClearStaleLock \/ UNCHANGED vars
    BY <2>10 DEF ClearStaleLock, vars, host, TypeOK
  <2>11. ASSUME NEW o \in Operators, Kill(o) PROVE TypeOK'
    <3>1. task' \in [Operators -> Task]
      BY <2>11, Moves, ReleaseConstants DEF Kill
    <3>2. unmarked' \subseteq Releases
      BY <2>11, Busy, ReleaseConstants DEF Kill, Unmarked, TypeOK
    <3>3. QED BY <2>11, <3>1, <3>2 DEF Kill, TypeOK
  <2>12. QED
    BY <2>1, <2>2, <2>3, <2>4, <2>5, <2>6, <2>7, <2>8, <2>9, <2>10, <2>11
       DEF Next, DeployStep
<1>3. QED
  BY <1>1, <1>2

\* Type correctness of the state the deployment scripts work on.
THEOREM DeploymentTypes == Spec => []TypeOK
BY TypesHold, PTL DEF Spec

-----------------------------------------------------------------------------
(* Forward only, and with a backup.                                         *)
(*                                                                         *)
(* A deployment reads the markers when it starts and relies on them until  *)
(* the target runs, so the invariant says what they, the containers and    *)
(* the data have to do with each other at every point of a deployment, and *)
(* that the lock leaves at most one deployment to say it of.               *)

Running(w) == container[w].state # "stopped"

\* The release the next deployment counts from, if there is one.
Base == IF runtimeSha \in Releases THEN runtimeSha ELSE current

\* The next deployment knows of the release, or the history does.
Known(r) == Recorded(r) \/ r \in unmarked

Above(r) == Base # None => IsAncestor(Base, r)

\* What the release does to the data neither takes it back nor gets lost.
Fits(r) == Known(r) /\ Above(r)

Deploying(o) == task[o].command = "deploy"

\* A deployment that may have started its target and is not over.
Started(o) ==
  task[o].attempted /\ task[o].pc \in {"mark", "verify", "switch", "record", "abort"}

Maintenance == {"stopApi", "stopWorker", "inspect", "postgres", "redis", "reports",
                "keep", "attempt"}
Starting == {"up", "mark", "verify", "switch", "record"}

\* The lock is held by the one deployment there is.
Holding(o) ==
  /\ task[o].pc \in DeployPc \cup {"abort", "release"} => Deploying(o)
  /\ Deploying(o) => locked

\* START_ATTEMPTED and WRITERS_STOPPED, by how far the script is.
Flags(o) ==
  /\ task[o].attempted => task[o].pc \in Starting \cup {"abort", "release"}
  /\ task[o].pc \in Starting => task[o].attempted
  /\ task[o].stopped => task[o].pc \in Maintenance \cup Starting \cup {"abort", "release"}

\* What Allowed established of the target still holds.
TargetAhead(o) ==
  task[o].pc \in DeployPc \ {"check"} \/ Started(o) =>
    /\ runtimeSha # Damaged /\ Above(task[o].target)
    /\ current # None => IsAncestor(current, task[o].target)

Marked(o) == task[o].pc \in {"verify", "switch", "record"} => runtimeSha = task[o].target

\* Only the target can be running.
TargetRuns(o) ==
  Started(o) =>
    /\ Known(data.by) \/ data.by = task[o].target
    /\ \A w \in Writers :
         /\ Running(w) => container[w].release = task[o].target
         /\ runtimeSha = None =>
              container[w].release = task[o].target \/ Fits(container[w].release)

\* The old writers are ones the exit trap may start again.
OldWriters(o) ==
  task[o].stopped /\ ~task[o].attempted /\ task[o].pc \in Maintenance \cup {"abort"} =>
    \A w \in Writers : Fits(task[o].old[w])

\* Nothing writes while the backup is taken, so its parts are the data.
Frozen(o) ==
  /\ task[o].pc \in {"redis", "reports", "keep", "attempt", "up"} =>
       /\ \A w \in Writers : ~Running(w)
       /\ task[o].dump.postgres = data.writes
  /\ task[o].pc \in {"reports", "keep", "attempt", "up"} => task[o].dump.redis = data.writes
  /\ task[o].pc \in {"keep", "attempt", "up"} => task[o].dump.reports = data.writes

Deployment(o) ==
  /\ Holding(o) /\ Flags(o) /\ TargetAhead(o) /\ Marked(o)
  /\ TargetRuns(o) /\ OldWriters(o) /\ Frozen(o)

Exclusive == \A o, p \in Operators : Deploying(o) /\ Deploying(p) => o = p

\* Which code can work on the data. A host without runtime-sha is one whose
\* stopped writers may be started again by hand, whatever they are.
Covered ==
  (\A o \in Operators : ~Started(o)) =>
    /\ Known(data.by)
    /\ \A w \in Writers : Running(w) \/ runtimeSha = None => Fits(container[w].release)

IInv ==
  /\ \A o \in Operators : Deployment(o)
  /\ Exclusive /\ Covered /\ CurrentNeverAhead

\* What is recorded is behind the release the next deployment counts from.
LEMMA RecordedIsBehind ==
  ASSUME TypeOK, CurrentNeverAhead, NEW r \in Releases, Recorded(r)
  PROVE  Base \in Releases /\ IsAncestor(r, Base)
<1>1. CASE runtimeSha \in Releases
  <2>1. Base = runtimeSha
    BY <1>1 DEF Base
  <2>2. CASE IsAncestor(r, runtimeSha)
    BY <1>1, <2>1, <2>2
  <2>3. CASE IsAncestor(r, current)
    <3>1. current \in Releases /\ current # None
      BY <2>3, Ancestors
    <3>2. IsAncestor(current, runtimeSha)
      BY <1>1, <3>1 DEF CurrentNeverAhead
    <3>3. QED BY <1>1, <2>1, <2>3, <3>1, <3>2, Ancestors
  <2>4. QED BY <2>2, <2>3 DEF Recorded
<1>2. CASE runtimeSha \notin Releases
  BY <1>2, Ancestors DEF Recorded, Base
<1>3. QED BY <1>1, <1>2

\* From a release that is known to one that may follow, the data goes forward.
LEMMA GoesForward ==
  ASSUME TypeOK, CurrentNeverAhead, NEW a \in Releases, NEW b \in Releases, Known(a), Above(b)
  PROVE  a \in unmarked \/ IsAncestor(a, b)
<1>1. CASE Recorded(a)
  <2>1. Base \in Releases /\ IsAncestor(a, Base)
    BY <1>1, RecordedIsBehind
  <2>2. Base # None
    BY <2>1, Ancestors
  <2>3. IsAncestor(Base, b)
    BY <2>2 DEF Above
  <2>4. QED BY <2>1, <2>3, Ancestors
<1>2. QED BY <1>1 DEF Known

\* The history forgets only what a marker takes over.
LEMMA StillKnown ==
  ASSUME NEW S \in SUBSET Releases, unmarked' = Unmarked(S),
         NEW r \in Releases, r \in S \/ (Known(r) /\ (Recorded(r) => Recorded(r)'))
  PROVE  Known(r)'
BY DEF Known, Unmarked

\* A release fits its own marker, whatever was recorded before.
LEMMA MarkedFits ==
  ASSUME TypeOK, NEW r \in Releases, runtimeSha' = r
  PROVE  Fits(r)' /\ Recorded(r)'
<1>1. IsAncestor(r, r) /\ Base' = r
  BY Ancestors DEF Base
<1>2. QED BY <1>1 DEF Fits, Known, Above, Recorded

\* What was recorded is recorded by a marker that is ahead.
LEMMA RecordedAhead ==
  ASSUME TypeOK, NEW t \in Releases, Above(t), runtimeSha' \in {runtimeSha, t},
         UNCHANGED current, NEW r \in Releases, Recorded(r)
  PROVE  Recorded(r)'
<1>1. CASE IsAncestor(r, current)
  BY <1>1 DEF Recorded
<1>2. CASE IsAncestor(r, runtimeSha)
  <2>1. runtimeSha \in Releases /\ runtimeSha # None /\ Base = runtimeSha
    BY <1>2, Ancestors DEF Base
  <2>2. IsAncestor(runtimeSha, t)
    BY <2>1 DEF Above
  <2>3. IsAncestor(r, t)
    BY <1>2, <2>1, <2>2, Ancestors
  <2>4. QED BY <1>2, <2>3 DEF Recorded
<1>3. QED BY <1>1, <1>2 DEF Recorded

\* A deployment that has not started its target is alone, so nothing has.
LEMMA Alone ==
  ASSUME IInv, NEW o \in Operators, Deploying(o)
  PROVE  /\ \A p \in Operators : p # o => ~Deploying(p)
         /\ \A p \in Operators : p # o => ~Started(p)
         /\ \A p \in Operators : p # o => task[p].pc \notin DeployPc \cup {"abort", "release"}
         /\ ~Started(o) => \A p \in Operators : ~Started(p)
<1>1. \A p \in Operators : p # o => ~Deploying(p)
  BY DEF IInv, Exclusive
<1>2. \A p \in Operators : p # o => task[p].pc \notin DeployPc \cup {"abort", "release"}
  BY <1>1 DEF IInv, Deployment, Holding
<1>3. \A p \in Operators : p # o => ~Started(p)
  BY <1>2, Points DEF Started
<1>4. QED BY <1>1, <1>2, <1>3

\* A step of one command that leaves host and lock alone.
LEMMA Local ==
  ASSUME IInv, NEW o \in Operators, UNCHANGED <<host, locked>>,
         \A p \in Operators \ {o} : task'[p] = task[p],
         Deploying(o)' => Deploying(o),
         Started(o) => Started(o)',
         Deployment(o)'
  PROVE  IInv'
<1>1. ASSUME NEW p \in Operators \ {o} PROVE Deployment(p)' /\ (Started(p)' <=> Started(p))
  <2>1. Deployment(p)
    BY DEF IInv
  <2>2. UNCHANGED <<container, data, runtimeSha, current, unmarked, locked, task[p]>>
    BY DEF host
  <2>3. QED
    BY <2>1, <2>2 DEF Deployment, Holding, Flags, TargetAhead, Marked, TargetRuns, OldWriters,
                      Frozen, Deploying, Started, Fits, Known, Above, Base, Recorded, Running
<1>2. Exclusive'
  BY DEF IInv, Exclusive, Deploying
<1>3. Covered'
  BY <1>1 DEF IInv, Covered, Running, Fits, Known, Above, Base, Recorded, host
<1>4. QED
  BY <1>1, <1>2, <1>3 DEF IInv, CurrentNeverAhead, host

\* What a move changes, and what the end of a command leaves.
LEMMA Moved ==
  ASSUME TypeOK, NEW o \in Operators, task[o].pc # "idle", NEW q, Go(o, q)
  PROVE  /\ task'[o].pc = q
         /\ task'[o].command = task[o].command /\ task'[o].target = task[o].target
         /\ task'[o].old = task[o].old /\ task'[o].stopped = task[o].stopped
         /\ task'[o].attempted = task[o].attempted /\ task'[o].dump = task[o].dump
         /\ \A p \in Operators \ {o} : task'[p] = task[p]
<1>1. task \in [Operators -> Task]
  BY DEF TypeOK
<1>2. task'[o] = [task[o] EXCEPT !.pc = q]
  BY <1>1 DEF Go
<1>3. \A p \in Operators \ {o} : task'[p] = task[p]
  BY <1>1 DEF Go
<1>4. QED BY <1>2, <1>3, Busy

LEMMA Finished ==
  ASSUME TypeOK, NEW o \in Operators, Finish(o)
  PROVE  /\ task'[o].pc = "idle" /\ task'[o].command = None
         /\ task'[o].stopped = FALSE /\ task'[o].attempted = FALSE
         /\ \A p \in Operators \ {o} : task'[p] = task[p]
BY DEF TypeOK, Finish, IdleTask

\* A command that has ended satisfies everything said of deployments.
LEMMA EndedIsFine ==
  ASSUME TypeOK, NEW o \in Operators, Finish(o)
  PROVE  /\ Deployment(o)' /\ ~Deploying(o)' /\ ~Started(o)'
<1>1. /\ "idle" \notin DeployPc \cup {"abort", "release"}
      /\ "idle" \notin Maintenance \cup Starting
  BY DEF DeployPc, Maintenance, Starting
<1>2. None # "deploy"
  BY ReleaseConstants
<1>3. QED
  BY <1>1, <1>2, Finished DEF Deployment, Holding, Flags, TargetAhead, Marked, TargetRuns,
     OldWriters, Frozen, Deploying, Started

LEMMA PrepareKeeps ==
  ASSUME TypeOK, IInv, NEW o \in Operators, PrepareStep(o)
  PROVE  IInv'
<1>1. /\ task[o].pc \in PreparePc \cup {"cleanup"}
      /\ UNCHANGED <<host, locked>>
      /\ \/ Finish(o)
         \/ \E q \in PreparePc \cup {"cleanup"} : Go(o, q)
         \/ task[o].command # "prepare" /\ \E q \in {"check", "abort"} : Go(o, q)
  BY Points DEF PrepareStep, Fetch, TakePrepareLock, Stage, Look, Rename, Seal,
                DropPrepareLock, Cleanup, Leave, At
<1>2. ~task[o].attempted /\ ~task[o].stopped /\ ~Started(o) /\ task[o].pc # "idle"
  BY <1>1, Busy DEF IInv, Deployment, Flags, Started, Starting, Maintenance, PreparePc
<1>3. CASE Finish(o)
  BY <1>1, <1>2, <1>3, EndedIsFine, Finished, Local
<1>4. ASSUME NEW q \in PreparePc \cup {"cleanup", "check", "abort"}, Go(o, q),
             q \in {"check", "abort"} => Deploying(o)
      PROVE  IInv'
  <2>1. /\ Deployment(o)' /\ (Deploying(o)' <=> Deploying(o))
        /\ \A p \in Operators \ {o} : task'[p] = task[p]
    <3>1. Deploying(o) => locked
      BY DEF IInv, Deployment, Holding
    <3>2. UNCHANGED locked
      BY <1>1
    <3>3. QED
      BY <1>2, <1>4, <3>1, <3>2, Moved DEF Deployment, Holding, Flags, TargetAhead, Marked,
         TargetRuns, OldWriters, Frozen, Deploying, Started, PreparePc, DeployPc,
         Starting, Maintenance
  <2>2. QED BY <1>1, <1>2, <2>1, Local
<1>5. task[o].command # "prepare" => Deploying(o)
  BY <1>2, Busy DEF Deploying
<1>6. QED BY <1>1, <1>3, <1>4, <1>5, Points

\* What holds of a deployment on its way to the start of its target.
LEMMA UnderWay ==
  ASSUME TypeOK, IInv, NEW o \in Operators, task[o].pc \in DeployPc \cup {"abort", "release"}
  PROVE  /\ Deploying(o) /\ locked /\ task[o].pc # "idle" /\ task[o].target \in Releases
         /\ ~Started(o) =>
              /\ Known(data.by)
              /\ \A w \in Writers : Running(w) \/ runtimeSha = None => Fits(container[w].release)
<1>1. Deploying(o) /\ locked /\ task[o].pc # "idle"
  BY DEF IInv, Deployment, Holding, DeployPc
<1>2. task[o].target \in Releases
  BY <1>1, Busy
<1>3. QED BY <1>1, <1>2, Alone DEF IInv, Covered

\* A failing command hands over to the exit trap, after the start too.
LEMMA AbortKeeps ==
  ASSUME TypeOK, IInv, NEW o \in Operators, task[o].pc \in DeployPc \ {"up"},
         Go(o, "abort"), UNCHANGED <<host, locked>>
  PROVE  IInv'
<1>1. /\ Deployment(o) /\ CurrentNeverAhead
      /\ task[o].pc # "idle" /\ locked /\ Deploying(o)
  BY UnderWay DEF IInv
<1>2. UNCHANGED <<container, data, runtimeSha, current, unmarked, locked>>
  BY DEF host
<1>3. Holding(o)' /\ Flags(o)' /\ Marked(o)' /\ Frozen(o)' /\ OldWriters(o)'
  <2>1. ~task[o].attempted /\ task[o].stopped => task[o].pc \in Maintenance
    BY <1>1 DEF Deployment, Flags, Starting, DeployPc
  <2>2. QED
    BY <1>1, <1>2, <2>1, Moved DEF Deployment, Holding, Flags, Marked, Frozen, OldWriters,
         Deploying, Fits, Known, Above, Base, Recorded, Running, Maintenance, Starting
<1>4. TargetAhead(o)' /\ TargetRuns(o)'
  <2>1. CASE ~task[o].attempted
    BY <1>1, <2>1, Moved DEF TargetAhead, TargetRuns, Started, DeployPc
  <2>2. CASE task[o].attempted
    <3>1. Started(o)
      BY <1>1, <2>2 DEF Deployment, Flags, Starting, Started, DeployPc
    <3>2. QED
      BY <1>1, <1>2, <3>1, Moved DEF Deployment, TargetAhead, TargetRuns, DeployPc,
         Fits, Known, Above, Base, Recorded, Running
  <2>3. QED BY <2>1, <2>2
<1>5. Deployment(o)' /\ (Deploying(o)' => Deploying(o)) /\ (Started(o) => Started(o)')
  BY <1>1, <1>3, <1>4, Moved DEF Deployment, Started, Deploying
<1>6. QED BY <1>1, <1>5, Moved, Local

\* What the target has to do with the markers when the check lets it through.
LEMMA CheckKeeps ==
  ASSUME TypeOK, IInv, NEW o \in Operators, Check(o)
  PROVE  IInv'
<1>1. CASE Go(o, "abort")
  BY <1>1, AbortKeeps DEF Check, At, DeployPc
<1>2. CASE Allowed(task[o].target) /\ Go(o, "build")
  <2>1. /\ Deployment(o) /\ task[o].pc = "check" /\ task[o].pc # "idle"
        /\ Deploying(o) /\ locked /\ task[o].target \in Releases
    BY UnderWay DEF IInv, Check, At, DeployPc
  <2>2. UNCHANGED <<container, data, runtimeSha, current, unmarked, locked, host>>
    BY DEF Check, host
  <2>3. ~task[o].attempted /\ ~task[o].stopped
    BY <2>1 DEF Deployment, Flags, Maintenance, Starting
  <2>4. /\ runtimeSha # Damaged /\ Above(task[o].target)
        /\ current # None => IsAncestor(current, task[o].target)
    <3>1. runtimeSha # Damaged
      BY <1>2 DEF Allowed
    <3>2. Base = Baseline
      BY <3>1, Ancestors DEF Base, Baseline, TypeOK
    <3>3. Above(task[o].target)
      BY <1>2, <3>2 DEF Allowed, Above
    <3>4. current # None => IsAncestor(current, task[o].target)
      <4>1. CASE runtimeSha = None
        BY <1>2, <4>1 DEF Allowed, Baseline
      <4>2. CASE runtimeSha # None
        BY <1>2, <2>1, <3>1, <4>2, Ancestors DEF Allowed, Baseline, TypeOK
      <4>3. QED BY <4>1, <4>2
    <3>5. QED BY <3>1, <3>3, <3>4
  <2>5. Deployment(o)'
    BY <1>2, <2>1, <2>2, <2>3, <2>4, Moved DEF Deployment, Holding, Flags, TargetAhead,
       Marked, TargetRuns, OldWriters, Frozen, Deploying, Started, Fits, Known, Above, Base,
       Recorded, DeployPc, Starting
  <2>6. (Deploying(o)' => Deploying(o)) /\ (Started(o) => Started(o)')
    BY <2>1, <2>3 DEF Started
  <2>7. QED BY <1>2, <2>1, <2>2, <2>5, <2>6, Moved, Local
<1>3. QED BY <1>1, <1>2 DEF Check

\* The steps that only go on to the next point.
LEMMA AdvanceKeeps ==
  ASSUME TypeOK, IInv, NEW o \in Operators, UNCHANGED <<host, locked>>,
         NEW q, Go(o, q),
         <<task[o].pc, q>> \in {<<"build", "collect">>, <<"inspect", "postgres">>,
                                <<"keep", "attempt">>, <<"verify", "switch">>}
  PROVE  IInv'
<1>1. task[o].pc \in DeployPc
  BY DEF DeployPc
<1>2. Deployment(o) /\ task[o].pc # "idle" /\ locked /\ Deploying(o)
  BY <1>1, UnderWay DEF IInv
<1>3. UNCHANGED <<container, data, runtimeSha, current, unmarked, locked>>
  BY DEF host
<1>4. Holding(o)' /\ Flags(o)' /\ Marked(o)' /\ Deploying(o)'
  BY <1>2, <1>3, Moved DEF Deployment, Holding, Flags, Marked, Deploying, Maintenance, Starting
<1>5. OldWriters(o)' /\ Frozen(o)'
  BY <1>2, <1>3, Moved DEF Deployment, OldWriters, Frozen, Maintenance, Fits, Known, Above,
     Base, Recorded, Running
<1>6. Started(o) <=> Started(o)'
  BY <1>2, Moved DEF Deployment, Flags, Maintenance, Starting, Started
<1>7. TargetAhead(o)' /\ TargetRuns(o)'
  BY <1>1, <1>2, <1>3, <1>6, Moved DEF Deployment, TargetAhead, TargetRuns, DeployPc,
     Fits, Known, Above, Base, Recorded, Running
<1>8. Deployment(o)'
  BY <1>4, <1>5, <1>7 DEF Deployment
<1>9. QED BY <1>2, <1>6, <1>8, Moved, Local

\* All writers run, so all run the release that is known to have worked.
LEMMA CollectKeeps ==
  ASSUME TypeOK, IInv, NEW o \in Operators, CollectWriters(o)
  PROVE  IInv'
<1>1. /\ task[o].pc = "collect" /\ task[o].pc \in DeployPc
      /\ UNCHANGED <<container, data, runtimeSha, current, unmarked, locked, host>>
  BY DEF CollectWriters, At, DeployPc, host
<1>2. Deployment(o) /\ task[o].pc # "idle" /\ locked /\ Deploying(o)
  BY <1>1, UnderWay DEF IInv
<1>3. CASE Go(o, "abort")
  BY <1>1, <1>3, AbortKeeps
<1>4. CASE /\ \A w \in Writers : container[w].state = "up"
           /\ task' = [task EXCEPT ![o].pc = "stopApi", ![o].stopped = TRUE,
                         ![o].old = [w \in Writers |-> container[w].release]]
  <2>1. /\ task'[o].pc = "stopApi" /\ task'[o].command = task[o].command
        /\ task'[o].target = task[o].target /\ task'[o].attempted = task[o].attempted
        /\ task'[o].old = [w \in Writers |-> container[w].release]
        /\ \A p \in Operators \ {o} : task'[p] = task[p]
    <3>1. task \in [Operators -> Task]
      BY DEF TypeOK
    <3>2. task'[o] = [task[o] EXCEPT !.pc = "stopApi", !.stopped = TRUE,
                        !.old = [w \in Writers |-> container[w].release]]
      BY <1>4, <3>1
    <3>3. \A p \in Operators \ {o} : task'[p] = task[p]
      BY <1>4, <3>1
    <3>4. QED BY <1>2, <3>2, <3>3, Busy
  <2>2. ~Started(o) /\ ~Started(o)' /\ ~task[o].attempted
    BY <1>1, <1>2, <2>1 DEF Deployment, Flags, Starting, Started
  <2>3. \A w \in Writers : Fits(container[w].release)
    BY <1>1, <1>4, <2>2, UnderWay DEF Running
  <2>4. \A w \in Writers : task'[o].old[w] = container[w].release
    BY <2>1
  <2>5. OldWriters(o)'
    BY <1>1, <2>3, <2>4 DEF OldWriters, Fits, Known, Above, Base, Recorded
  <2>6. Holding(o)' /\ Flags(o)' /\ Marked(o)' /\ Frozen(o)' /\ Deploying(o)'
    BY <1>1, <1>2, <2>1, <2>2 DEF Holding, Flags, Marked, Frozen, Deploying, Maintenance,
       Starting
  <2>7. TargetAhead(o)' /\ TargetRuns(o)'
    BY <1>1, <1>2, <2>1, <2>2 DEF Deployment, TargetAhead, TargetRuns, DeployPc, Fits,
       Known, Above, Base, Recorded
  <2>8. Deployment(o)'
    BY <2>5, <2>6, <2>7 DEF Deployment
  <2>9. QED BY <1>1, <1>2, <2>1, <2>2, <2>8, Local
<1>5. QED BY <1>3, <1>4 DEF CollectWriters

LEMMA AttemptKeeps ==
  ASSUME TypeOK, IInv, NEW o \in Operators, AttemptStart(o)
  PROVE  IInv'
<1>1. /\ task[o].pc = "attempt" /\ task[o].pc \in DeployPc
      /\ UNCHANGED <<container, data, runtimeSha, current, unmarked, locked, host>>
  BY DEF AttemptStart, At, DeployPc, host
<1>2. Deployment(o) /\ task[o].pc # "idle" /\ locked /\ Deploying(o)
  BY <1>1, UnderWay DEF IInv
<1>3. /\ task'[o].pc = "up" /\ task'[o].command = task[o].command
      /\ task'[o].target = task[o].target /\ task'[o].attempted
      /\ task'[o].dump = task[o].dump
      /\ \A p \in Operators \ {o} : task'[p] = task[p]
  <2>1. task \in [Operators -> Task]
    BY DEF TypeOK
  <2>2. task'[o] = [task[o] EXCEPT !.pc = "up", !.attempted = TRUE]
    BY <2>1 DEF AttemptStart
  <2>3. \A p \in Operators \ {o} : task'[p] = task[p]
    BY <2>1 DEF AttemptStart
  <2>4. QED BY <1>2, <2>2, <2>3, Busy
<1>4. ~Started(o) /\ ~Started(o)'
  BY <1>1, <1>3 DEF Started
<1>5. Holding(o)' /\ Flags(o)' /\ Marked(o)' /\ OldWriters(o)' /\ Deploying(o)'
  BY <1>1, <1>2, <1>3 DEF Holding, Flags, Marked, OldWriters, Deploying, Starting
<1>6. Frozen(o)'
  BY <1>1, <1>2, <1>3 DEF Deployment, Frozen, Running
<1>7. TargetAhead(o)' /\ TargetRuns(o)'
  BY <1>1, <1>2, <1>3, <1>4 DEF Deployment, TargetAhead, TargetRuns, DeployPc, Fits, Known,
     Above, Base, Recorded
<1>8. Deployment(o)'
  BY <1>5, <1>6, <1>7 DEF Deployment
<1>9. QED BY <1>1, <1>2, <1>3, <1>4, <1>8, Local

\* The parts of the backup, each taken while nothing runs.
LEMMA DumpKeeps ==
  ASSUME TypeOK, IInv, NEW o \in Operators,
         DumpPostgres(o) \/ DumpRedis(o) \/ ArchiveReports(o)
  PROVE  IInv'
<1>1. /\ task[o].pc \in {"postgres", "redis", "reports"}
      /\ UNCHANGED <<container, data, runtimeSha, current, unmarked, locked, host>>
  BY DEF DumpPostgres, DumpRedis, ArchiveReports, At, host
<1>2. task[o].pc \in DeployPc \ {"up", "check"}
  BY <1>1 DEF DeployPc
<1>3. Deployment(o) /\ task[o].pc # "idle" /\ locked /\ Deploying(o)
  BY <1>2, UnderWay DEF IInv
<1>4. CASE Go(o, "abort")
  BY <1>1, <1>2, <1>4, AbortKeeps
<1>5. ASSUME NEW q \in {"redis", "reports", "keep"}, NEW d, GoWith(o, q, d),
             \A w \in Writers : ~Running(w),
             d.postgres = data.writes,
             q \in {"reports", "keep"} => d.redis = data.writes,
             q = "keep" => d.reports = data.writes
      PROVE  IInv'
  <2>1. /\ task'[o].pc = q /\ task'[o].command = task[o].command
        /\ task'[o].target = task[o].target /\ task'[o].attempted = task[o].attempted
        /\ task'[o].stopped = task[o].stopped /\ task'[o].old = task[o].old
        /\ task'[o].dump = d
        /\ \A p \in Operators \ {o} : task'[p] = task[p]
    <3>1. task \in [Operators -> Task]
      BY DEF TypeOK
    <3>2. task'[o] = [task[o] EXCEPT !.pc = q, !.dump = d]
      BY <1>5, <3>1 DEF GoWith
    <3>3. \A p \in Operators \ {o} : task'[p] = task[p]
      BY <1>5, <3>1 DEF GoWith
    <3>4. QED BY <1>3, <3>2, <3>3, Busy
  <2>2. ~Started(o) /\ ~Started(o)'
    BY <1>1, <1>5, <2>1 DEF Started
  <2>3. Holding(o)' /\ Flags(o)' /\ Marked(o)' /\ Deploying(o)'
    BY <1>1, <1>3, <1>5, <2>1 DEF Deployment, Holding, Flags, Marked, Deploying, Maintenance,
       Starting
  <2>4. OldWriters(o)'
    BY <1>1, <1>3, <1>5, <2>1 DEF Deployment, OldWriters, Fits, Known, Above, Base,
       Recorded, Maintenance
  <2>5. Frozen(o)'
    BY <1>1, <1>5, <2>1 DEF Frozen, Running
  <2>6. TargetAhead(o)' /\ TargetRuns(o)'
    BY <1>1, <1>2, <1>3, <2>1, <2>2 DEF Deployment, TargetAhead, TargetRuns, Fits, Known,
       Above, Base, Recorded
  <2>7. Deployment(o)'
    BY <2>3, <2>4, <2>5, <2>6 DEF Deployment
  <2>8. QED BY <1>1, <1>3, <2>1, <2>2, <2>7, Local
<1>6. Frozen(o) /\ task[o].dump \in Dump
  BY <1>3, Busy DEF Deployment
<1>7. CASE DumpPostgres(o)
  BY <1>4, <1>5, <1>6, <1>7 DEF DumpPostgres, WritersStopped, Running, Dump
<1>8. CASE DumpRedis(o)
  BY <1>5, <1>6, <1>8 DEF DumpRedis, At, Frozen, Dump
<1>9. CASE ArchiveReports(o)
  BY <1>5, <1>6, <1>9 DEF ArchiveReports, At, Frozen, Dump
<1>10. QED BY <1>7, <1>8, <1>9

\* A step of the deployment, whatever it does to the host.
LEMMA HostStep ==
  ASSUME IInv, NEW o \in Operators, Deploying(o),
         \A p \in Operators \ {o} : task'[p] = task[p],
         Deployment(o)', Covered', CurrentNeverAhead'
  PROVE  IInv'
<1>1. ASSUME NEW p \in Operators \ {o} PROVE Deployment(p)' /\ ~Deploying(p)'
  <2>1. /\ Deployment(p) /\ ~Deploying(p)
        /\ task[p].pc \notin DeployPc \cup {"abort", "release"}
    BY Alone DEF IInv
  <2>2. ~task[p].attempted /\ ~task[p].stopped
    BY <2>1 DEF Deployment, Flags, Starting, Maintenance, DeployPc
  <2>3. task'[p] = task[p]
    OBVIOUS
  <2>4. task[p].pc \notin Starting
    BY <2>1 DEF Starting, DeployPc
  <2>5. QED
    BY <2>1, <2>2, <2>3, <2>4 DEF Deployment, Holding, Flags, TargetAhead, Marked, TargetRuns,
       OldWriters, Frozen, Deploying, Started, DeployPc
<1>2. Exclusive'
  BY <1>1 DEF Exclusive
<1>3. QED BY <1>1, <1>2 DEF IInv

LEMMA StopKeeps ==
  ASSUME TypeOK, IInv, NEW o \in Operators, NEW w \in Writers, Stop(o, w)
  PROVE  IInv'
<1>1. /\ task[o].pc \in {"stopApi", "stopWorker"} /\ task[o].pc \in DeployPc
      /\ UNCHANGED <<data, runtimeSha, current, unmarked, locked>>
  BY DEF Stop, At, DeployPc
<1>2. Deployment(o) /\ task[o].pc # "idle" /\ locked /\ Deploying(o)
  BY <1>1, UnderWay DEF IInv
<1>3. PICK q \in {"stopWorker", "inspect", "abort"} : Go(o, q)
  BY DEF Stop
<1>4. ~task[o].attempted /\ ~Started(o)
  BY <1>1, <1>2 DEF Deployment, Flags, Starting, Started
<1>5. ~Started(o)' /\ (Deploying(o)' <=> Deploying(o))
  BY <1>2, <1>3, <1>4, Moved DEF Started, Deploying
<1>6. \A v \in Writers : /\ container'[v].release = container[v].release
                         /\ Running(v)' => Running(v)
  BY DEF Stop, TypeOK, Container, Running
<1>7. Deployment(o)'
  <2>1. Holding(o)' /\ Flags(o)' /\ Marked(o)' /\ Frozen(o)'
    BY <1>1, <1>2, <1>3, <1>4, Moved DEF Deployment, Holding, Flags, Marked, Frozen,
       Deploying, Maintenance, Starting
  <2>2. TargetAhead(o)' /\ TargetRuns(o)'
    BY <1>1, <1>2, <1>3, <1>5, Moved DEF Deployment, TargetAhead, TargetRuns, Fits, Known,
       Above, Base, Recorded
  <2>3. OldWriters(o)'
    BY <1>1, <1>2, <1>3, Moved DEF Deployment, OldWriters, Fits, Known, Above, Base,
       Recorded, Maintenance
  <2>4. QED BY <2>1, <2>2, <2>3 DEF Deployment
<1>8. Covered' /\ CurrentNeverAhead'
  BY <1>1, <1>2, <1>4, <1>6, UnderWay DEF IInv, Covered, CurrentNeverAhead, Fits, Known,
     Above, Base, Recorded
<1>9. QED BY <1>2, <1>3, <1>7, <1>8, Moved, HostStep

\* The start: nothing ran, so only the target does.
LEMMA UpKeeps ==
  ASSUME TypeOK, IInv, NEW o \in Operators, Up(o)
  PROVE  IInv'
<1>1. /\ task[o].pc = "up" /\ task[o].pc \in DeployPc \ {"check"}
      /\ UNCHANGED <<runtimeSha, current, unmarked, locked>>
  BY DEF Up, At, DeployPc
<1>2. /\ Deployment(o) /\ task[o].pc # "idle" /\ locked /\ Deploying(o)
      /\ task[o].target \in Releases
  BY <1>1, UnderWay DEF IInv
<1>3. PICK q \in {"mark", "abort"} : Go(o, q)
  BY DEF Up
<1>4. task[o].attempted /\ \A w \in Writers : ~Running(w)
  BY <1>1, <1>2 DEF Deployment, Flags, Frozen, Starting
<1>5. Started(o)' /\ Deploying(o)'
  BY <1>2, <1>3, <1>4, Moved DEF Started, Deploying
<1>6. /\ runtimeSha # Damaged /\ Above(task[o].target)
      /\ current # None => IsAncestor(current, task[o].target)
  BY <1>1, <1>2 DEF Deployment, TargetAhead
<1>7. /\ Known(data.by)
      /\ \A w \in Writers : runtimeSha = None => Fits(container[w].release)
  BY <1>1, UnderWay DEF Started
<1>8. /\ \A w \in Writers :
           /\ Running(w)' => container'[w].release = task[o].target
           /\ container'[w].release \in {container[w].release, task[o].target}
      /\ data'.by \in {data.by, task[o].target}
  BY <1>4 DEF Up, Running, Touched, TypeOK, Container
<1>9. Deployment(o)'
  <2>1. Holding(o)' /\ Flags(o)' /\ Marked(o)' /\ Frozen(o)' /\ OldWriters(o)'
    BY <1>1, <1>2, <1>3, <1>4, Moved DEF Holding, Flags, Marked, Frozen, OldWriters,
       Deploying, Maintenance, Starting, Deployment
  <2>2. TargetAhead(o)'
    BY <1>1, <1>2, <1>3, <1>6, Moved DEF TargetAhead, Above, Base
  <2>3. TargetRuns(o)'
    BY <1>1, <1>2, <1>3, <1>7, <1>8, Moved DEF TargetRuns, Fits, Known, Above, Base, Recorded
  <2>4. QED BY <2>1, <2>2, <2>3 DEF Deployment
<1>10. Covered' /\ CurrentNeverAhead'
  BY <1>1, <1>5 DEF IInv, Covered, CurrentNeverAhead
<1>11. QED BY <1>2, <1>3, <1>9, <1>10, Moved, HostStep

\* The markers, written in the order of what they claim.
LEMMA MarkKeeps ==
  ASSUME TypeOK, IInv, NEW o \in Operators, Mark(o) \/ SwitchCurrent(o) \/ RecordSuccess(o)
  PROVE  IInv'
<1>1. /\ task[o].pc \in {"mark", "switch", "record"} /\ task[o].pc \in DeployPc \ {"check"}
      /\ UNCHANGED <<container, data, locked>>
  BY DEF Mark, SwitchCurrent, RecordSuccess, At, DeployPc
<1>2. /\ Deployment(o) /\ task[o].pc # "idle" /\ locked /\ Deploying(o)
      /\ task[o].target \in Releases
      /\ task[o].target # None /\ task[o].target # Damaged
      /\ IsAncestor(task[o].target, task[o].target)
  BY <1>1, UnderWay, Ancestors DEF IInv
<1>3. /\ task[o].attempted /\ Started(o) /\ Above(task[o].target)
      /\ current # None => IsAncestor(current, task[o].target)
  BY <1>1, <1>2 DEF Deployment, Flags, Starting, TargetAhead, Started
<1>4. PICK q \in {"verify", "record", "release", "abort"} :
        Go(o, q) /\ (q = "abort" => task[o].pc = "record")
  BY DEF Mark, SwitchCurrent, RecordSuccess, At
<1>5. /\ (q = "release" => ~Started(o)') /\ (q # "release" => Started(o)')
      /\ (Deploying(o)' <=> Deploying(o))
  BY <1>2, <1>3, <1>4, Moved DEF Started, Deploying
<1>6. /\ Known(data.by) \/ data.by = task[o].target
      /\ \A w \in Writers : Running(w) => container[w].release = task[o].target
  BY <1>2, <1>3 DEF Deployment, TargetRuns
<1>7. /\ runtimeSha' = task[o].target
      /\ current' \in {current, task[o].target}
  BY <1>1, <1>2 DEF Mark, SwitchCurrent, RecordSuccess, At, Deployment, Marked
<1>8. Known(data.by)'
  <2> PICK t \in Releases : task[o].target = t
    BY <1>2
  <2> PICK d \in Releases : data.by = d
    BY DEF TypeOK
  <2>1. CASE d = t
    <3>1. IsAncestor(d, runtimeSha')
      BY <1>7, <2>1, Ancestors
    <3>2. QED BY <1>1, <3>1 DEF Known, Recorded
  <2>2. CASE Known(d) /\ Mark(o)
    <3>1. UNCHANGED current /\ unmarked' = Unmarked({})
      BY <2>2 DEF Mark
    <3>2. Recorded(d) => Recorded(d)'
      BY <1>3, <1>7, <3>1, RecordedAhead DEF Recorded
    <3>3. QED BY <1>1, <2>2, <3>1, <3>2 DEF Known, Unmarked, Recorded
  <2>3. CASE Known(d) /\ (SwitchCurrent(o) \/ RecordSuccess(o))
    <3>1. UNCHANGED unmarked /\ runtimeSha = t /\ runtimeSha \in Releases
      BY <1>1, <1>2, <2>3 DEF SwitchCurrent, RecordSuccess, At, Deployment, Marked
    <3>2. CASE Recorded(d)
      <4>1. IsAncestor(d, runtimeSha)
        BY <3>1, <3>2, RecordedIsBehind DEF Base, IInv
      <4>2. QED BY <1>1, <1>7, <3>1, <4>1 DEF Known, Recorded
    <3>3. CASE d \in unmarked
      BY <1>1, <3>1, <3>3 DEF Known
    <3>4. QED BY <2>3, <3>2, <3>3 DEF Known
  <2>4. QED BY <1>6, <2>1, <2>2, <2>3 DEF Mark, SwitchCurrent, RecordSuccess
<1>9. Deployment(o)'
  <2>1. Holding(o)' /\ Flags(o)' /\ Marked(o)' /\ Frozen(o)' /\ OldWriters(o)'
    BY <1>1, <1>2, <1>3, <1>4, <1>7, Moved DEF Holding, Flags, Marked, Frozen, OldWriters,
       Deploying, Maintenance, Starting, Deployment
  <2>2. Base' = task[o].target /\ task'[o].target = task[o].target
    BY <1>2, <1>4, <1>7, Moved DEF Base
  <2>3. TargetAhead(o)'
    BY <1>2, <1>3, <1>7, <2>2 DEF TargetAhead, Above
  <2>4. TargetRuns(o)'
    BY <1>1, <1>2, <1>6, <1>7, <1>8, <2>2 DEF TargetRuns, Running
  <2>5. QED BY <2>1, <2>3, <2>4 DEF Deployment
<1>10. Covered'
  <2>1. \A w \in Writers : Running(w) => container[w].release = task[o].target
    BY <1>6
  <2>2. Base' = task[o].target
    BY <1>2, <1>7 DEF Base
  <2>3. \A w \in Writers : Running(w)' => Fits(container[w].release)'
    BY <1>1, <1>2, <1>7, <2>1, <2>2 DEF Fits, Known, Above, Recorded, Running
  <2>4. runtimeSha' # None
    BY <1>2, <1>7
  <2>5. QED BY <1>8, <2>3, <2>4 DEF Covered
<1>11. CurrentNeverAhead'
  BY <1>2, <1>3, <1>7 DEF CurrentNeverAhead
<1>12. QED BY <1>2, <1>4, <1>9, <1>10, <1>11, Moved, HostStep

\* A start that was attempted and is over: its marker was written, or the
\* history has the releases that marker would have been for.
LEMMA ExitAfterStart ==
  ASSUME TypeOK, IInv, NEW o \in Operators, Started(o),
         NEW t \in Releases, task[o].target = t, NEW d \in Releases, data.by = d,
         UNCHANGED <<container, data, current>>,
         \/ runtimeSha' = t /\ unmarked' = Unmarked({})
         \/ UNCHANGED runtimeSha /\ unmarked' = Unmarked({t})
         \/ runtimeSha' \in {runtimeSha, Damaged} /\ unmarked' = Unmarked({t, d})
  PROVE  Covered' /\ CurrentNeverAhead'
<1>1. /\ Known(d) \/ d = t
      /\ \A w \in Writers :
           /\ Running(w) => container[w].release = t
           /\ runtimeSha = None => container[w].release = t \/ Fits(container[w].release)
      /\ runtimeSha # Damaged /\ Above(t) /\ CurrentNeverAhead
      /\ current # None => IsAncestor(current, t)
  BY DEF IInv, Deployment, TargetRuns, TargetAhead
<1>2. /\ t # None /\ t # Damaged /\ Damaged # None /\ Damaged \notin Releases
      /\ None \notin Releases
  BY Ancestors
<1>3. CurrentNeverAhead'
  BY <1>1, <1>2 DEF CurrentNeverAhead
<1>4. CASE runtimeSha' = t /\ unmarked' = Unmarked({})
  <2>1. Fits(t)' /\ Recorded(t)'
    BY <1>4, MarkedFits
  <2>2. Known(d)'
    <3>1. CASE d = t
      BY <2>1, <3>1 DEF Fits
    <3>2. CASE Known(d)
      <4>1. Recorded(d) => Recorded(d)'
        BY <1>1, <1>4, RecordedAhead
      <4>2. {} \in SUBSET Releases
        OBVIOUS
      <4>3. QED BY <1>4, <3>2, <4>1, <4>2, StillKnown
    <3>3. QED BY <1>1, <3>1, <3>2
  <2>3. Known(data.by)'
    BY <2>2 DEF Known, Recorded
  <2>4. \A w \in Writers : Running(w)' => Fits(container[w].release)'
    BY <1>1, <2>1 DEF Running, Fits, Known, Above, Base, Recorded
  <2>5. QED BY <1>2, <1>3, <1>4, <2>3, <2>4 DEF Covered
<1>5. ASSUME NEW S \in SUBSET Releases, t \in S, unmarked' = Unmarked(S),
             UNCHANGED runtimeSha \/ (runtimeSha' = Damaged /\ d \in S)
      PROVE  Covered'
  <2>1. Known(t)'
    BY <1>5 DEF Known, Unmarked, Recorded
  <2>2. Above(t)'
    BY <1>1, <1>2, <1>5 DEF Above, Base
  <2>3. UNCHANGED runtimeSha =>
          \A x \in Releases : (Known(x) => Known(x)') /\ (Fits(x) => Fits(x)')
    BY <1>5 DEF Fits, Known, Above, Base, Recorded, Unmarked
  <2>4. Known(d)'
    BY <1>1, <1>5, <2>1, <2>3 DEF Known, Unmarked, Recorded
  <2>5. Known(data.by)'
    BY <2>4 DEF Known, Recorded
  <2>6. \A w \in Writers : container[w].release \in Releases
    BY DEF TypeOK, Container
  <2>7. ASSUME NEW w \in Writers, Running(w)' \/ runtimeSha' = None
        PROVE  Fits(container[w].release)'
    <3>1. CASE container[w].release = t
      BY <2>1, <2>2, <3>1 DEF Fits, Known, Above, Base, Recorded
    <3>2. CASE container[w].release # t
      <4>1. runtimeSha = None /\ UNCHANGED runtimeSha /\ Fits(container[w].release)
        BY <1>1, <1>2, <1>5, <2>7, <3>2 DEF Running
      <4>2. QED BY <2>3, <2>6, <4>1 DEF Fits, Known, Above, Base, Recorded
    <3>3. QED BY <3>1, <3>2
  <2>8. QED BY <2>5, <2>7 DEF Covered
<1>6. QED
  <2>1. CASE UNCHANGED runtimeSha /\ unmarked' = Unmarked({t})
    <3>1. {t} \in SUBSET Releases /\ t \in {t}
      OBVIOUS
    <3>2. QED BY <1>3, <1>5, <2>1, <3>1
  <2>2. CASE runtimeSha' \in {runtimeSha, Damaged} /\ unmarked' = Unmarked({t, d})
    <3>1. {t, d} \in SUBSET Releases /\ t \in {t, d} /\ d \in {t, d}
      OBVIOUS
    <3>2. QED BY <1>3, <1>5, <2>2, <3>1
  <2>3. QED BY <1>3, <1>4, <2>1, <2>2

\* The exit trap: the target is recorded once it may have run, and only then
\* are the old writers left alone.
LEMMA ExitKeeps ==
  ASSUME TypeOK, IInv, NEW o \in Operators, OnExit(o)
  PROVE  IInv'
<1>1. /\ task[o].pc = "abort" /\ Go(o, "release")
      /\ UNCHANGED <<current, locked>>
  BY DEF OnExit, At
<1>2. /\ Deployment(o) /\ task[o].pc # "idle" /\ locked /\ Deploying(o)
      /\ task[o].target \in Releases
      /\ task[o].target # None /\ task[o].target # Damaged
  BY <1>1, UnderWay, Ancestors DEF IInv
<1>3. ~Started(o)' /\ (Deploying(o)' <=> Deploying(o))
  BY <1>1, <1>2, Moved DEF Started, Deploying
<1>4. Deployment(o)'
  BY <1>1, <1>2, <1>3, Moved DEF Holding, Flags, TargetAhead, Marked, TargetRuns, Frozen,
     OldWriters, Deploying, Maintenance, Starting, DeployPc, Deployment
<1>5. CASE task[o].attempted
  <2>1. /\ UNCHANGED <<container, data>>
        /\ \/ runtimeSha' = task[o].target /\ unmarked' = Unmarked({})
           \/ /\ runtimeSha' \in {runtimeSha, Damaged}
              /\ unmarked' = Unmarked({task[o].target, data.by})
    BY <1>1, <1>5 DEF OnExit, MarkAtExit, MarkerAtExit
  <2>2. Started(o)
    BY <1>1, <1>5 DEF Started
  <2>3. PICK t \in Releases : task[o].target = t
    BY <1>2
  <2>4. PICK d \in Releases : data.by = d
    BY DEF TypeOK
  <2>5. Covered' /\ CurrentNeverAhead'
    BY <1>1, <2>1, <2>2, <2>3, <2>4, ExitAfterStart
  <2>6. QED BY <1>1, <1>2, <1>4, <2>5, Moved, HostStep
<1>6. CASE ~task[o].attempted
  <2>1. /\ ~Started(o) /\ UNCHANGED runtimeSha /\ unmarked' = Unmarked({})
        /\ Known(data.by)
        /\ \A w \in Writers : Running(w) \/ runtimeSha = None => Fits(container[w].release)
    BY <1>1, <1>6, UnderWay DEF OnExit, MarkAtExit, MarkerAtExit, Started
  <2>2. \A x \in Releases : /\ Known(x) => Known(x)'
                            /\ Fits(x) => Fits(x)'
    <3>1. \A x : Recorded(x) <=> Recorded(x)'
      BY <1>1, <2>1 DEF Recorded
    <3>2. Base' = Base
      BY <1>1, <2>1 DEF Base
    <3>3. QED BY <2>1, <3>1, <3>2 DEF Known, Unmarked, Fits, Above
  <2>3. CASE UNCHANGED <<container, data>>
    <3>1. data.by \in Releases /\ \A w \in Writers : container[w].release \in Releases
      BY DEF TypeOK, Container
    <3>2. Covered'
      <4>1. Known(data.by)'
        BY <2>1, <2>2, <2>3, <3>1 DEF Known, Recorded
      <4>2. \A w \in Writers :
              Running(w)' \/ runtimeSha' = None => Fits(container[w].release)'
        BY <2>1, <2>2, <2>3, <3>1 DEF Running, Fits, Known, Above, Base, Recorded
      <4>3. QED BY <4>1, <4>2 DEF Covered
    <3>3. CurrentNeverAhead'
      BY <1>1, <2>1 DEF IInv, CurrentNeverAhead
    <3>4. QED BY <1>1, <1>2, <1>4, <3>2, <3>3, Moved, HostStep
  <2>4. CASE task[o].stopped
    <3>1. \A w \in Writers : Fits(task[o].old[w])
      BY <1>1, <1>2, <1>6, <2>4 DEF Deployment, OldWriters
    <3>2. PICK started \in SUBSET {w \in Writers : container[w].release = task[o].old[w]} :
            /\ container' = [w \in Writers |->
                 IF w \in started THEN [container[w] EXCEPT !.state = "up"] ELSE container[w]]
            /\ data' \in IF started = {} THEN {data} ELSE {Touched(task[o].old[w]) : w \in started}
      BY <1>6, <2>4 DEF OnExit
    <3>3. Known(data'.by) /\ data'.by \in Releases
      <4>1. CASE data' = data
        BY <2>1, <4>1 DEF TypeOK
      <4>2. ASSUME NEW w \in started, data' = Touched(task[o].old[w])
            PROVE  Known(data'.by) /\ data'.by \in Releases
        <5>1. data'.by = task[o].old[w] /\ container[w].release = task[o].old[w]
          BY <3>2, <4>2 DEF Touched, TypeOK
        <5>2. QED BY <3>1, <3>2, <5>1 DEF Fits, TypeOK, Container
      <4>3. QED BY <3>2, <4>1, <4>2
    <3>4. \A w \in Writers : /\ container'[w].release = container[w].release
                             /\ container[w].release \in Releases
                             /\ Running(w)' \/ runtimeSha = None => Fits(container[w].release)
      <4>1. ASSUME NEW w \in Writers, w \in started
            PROVE  /\ container'[w].release = container[w].release
                   /\ container[w].release \in Releases
                   /\ Fits(container[w].release)
        BY <3>1, <3>2, <4>1 DEF TypeOK, Container
      <4>2. ASSUME NEW w \in Writers, w \notin started
            PROVE  /\ container'[w] = container[w]
                   /\ container[w].release \in Releases
                   /\ Running(w)' \/ runtimeSha = None => Fits(container[w].release)
        BY <2>1, <3>2, <4>2 DEF TypeOK, Container, Running
      <4>3. QED BY <4>1, <4>2 DEF Running
    <3>5. Covered'
      <4>1. Known(data.by)'
        BY <2>2, <3>3 DEF Known, Recorded
      <4>2. \A w \in Writers :
              Running(w)' \/ runtimeSha' = None => Fits(container[w].release)'
        BY <2>1, <2>2, <3>4 DEF Fits, Known, Above, Base, Recorded
      <4>3. QED BY <4>1, <4>2 DEF Covered
    <3>6. CurrentNeverAhead'
      BY <1>1, <2>1 DEF IInv, CurrentNeverAhead
    <3>7. QED BY <1>1, <1>2, <1>4, <3>5, <3>6, Moved, HostStep
  <2>5. QED BY <1>6, <2>3, <2>4 DEF OnExit
<1>7. QED BY <1>5, <1>6

\* The end of a command, by itself or by a kill.
LEMMA EndKeeps ==
  ASSUME TypeOK, IInv, NEW o \in Operators, ReleaseDeployLock(o) \/ Kill(o)
  PROVE  IInv'
<1>1. /\ Finish(o) /\ UNCHANGED <<container, data, runtimeSha, current>>
      /\ data.by \in Releases /\ \A w \in Writers : container[w].release \in Releases
  BY DEF ReleaseDeployLock, Kill, host, TypeOK, Container
<1>2. CurrentNeverAhead'
  BY <1>1 DEF IInv, CurrentNeverAhead
<1>3. ASSUME \A p \in Operators : ~Started(p),
             unmarked' = unmarked \/ \E S \in SUBSET Releases : unmarked' = Unmarked(S)
      PROVE  Covered'
  <2>1. \A x \in Releases : (Known(x) => Known(x)') /\ (Fits(x) => Fits(x)')
    BY <1>1, <1>3 DEF Fits, Known, Above, Base, Recorded, Unmarked
  <2>2. Known(data.by)'
    BY <1>1, <1>3, <2>1 DEF IInv, Covered, Known, Recorded
  <2>3. \A w \in Writers : Running(w)' \/ runtimeSha' = None => Fits(container[w].release)'
    BY <1>1, <1>3, <2>1 DEF IInv, Covered, Running, Fits, Known, Above, Base, Recorded
  <2>4. QED BY <2>2, <2>3 DEF Covered
<1>4. CASE Kill(o) /\ ~task[o].attempted
  BY <1>1, <1>4, EndedIsFine, Finished, Local DEF Kill, host, Started
<1>5. CASE Kill(o) /\ task[o].attempted
  <2>1. task[o].pc \in Starting \cup {"abort", "release"}
    BY <1>5 DEF IInv, Deployment, Flags
  <2>2. Deploying(o) /\ task[o].target \in Releases /\ unmarked' = Unmarked({task[o].target})
    BY <1>5, <2>1, UnderWay DEF Kill, Starting, DeployPc
  <2>3. Covered'
    <3>1. CASE Started(o)
      BY <1>1, <2>2, <3>1, ExitAfterStart
    <3>2. CASE ~Started(o)
      <4>1. {task[o].target} \in SUBSET Releases
        BY <2>2
      <4>2. QED BY <1>3, <2>2, <3>2, <4>1, Alone
    <3>3. QED BY <3>1, <3>2
  <2>4. QED BY <1>1, <1>2, <2>2, <2>3, EndedIsFine, Finished, HostStep
<1>6. CASE ReleaseDeployLock(o)
  <2>1. Deploying(o) /\ ~Started(o) /\ UNCHANGED unmarked
    BY <1>6, UnderWay DEF ReleaseDeployLock, At, Started, host
  <2>2. Covered'
    BY <1>3, <2>1, Alone
  <2>3. QED BY <1>1, <1>2, <2>1, <2>2, EndedIsFine, Finished, HostStep
<1>7. QED BY <1>4, <1>5, <1>6

\* The beginning of a command: a deployment finds the lock free.
LEMMA BeginKeeps ==
  ASSUME TypeOK, IInv, NEW o \in Operators, NEW r \in Releases, Deploy(o, r) \/ Prepare(o, r)
  PROVE  IInv'
<1>1. UNCHANGED <<container, data, runtimeSha, current, unmarked>>
  BY DEF Deploy, Prepare, host
<1>2. ~Started(o) /\ ~Deploying(o) /\ task[o].pc = "idle" /\ task \in [Operators -> Task]
  BY Points, ReleaseConstants DEF Deploy, Prepare, At, TypeOK, Task, IdleTask, Started,
     Deploying
<1>3. ASSUME NEW c \in {"deploy", "prepare"},
             task' = [task EXCEPT ![o] = [IdleTask EXCEPT
                        !.pc = "fetch", !.command = c, !.target = r]],
             c = "deploy" => ~locked /\ locked',
             c = "prepare" => UNCHANGED locked
      PROVE  IInv'
  <2>1. /\ task'[o].pc = "fetch" /\ task'[o].command = c
        /\ ~task'[o].attempted /\ ~task'[o].stopped
        /\ \A p \in Operators \ {o} : task'[p] = task[p]
    BY <1>2, <1>3 DEF IdleTask
  <2>2. Deployment(o)' /\ ~Started(o)'
    BY <1>3, <2>1 DEF Deployment, Holding, Flags, TargetAhead, Marked, TargetRuns, OldWriters,
       Frozen, Deploying, Started, DeployPc, Maintenance, Starting
  <2>3. ASSUME NEW p \in Operators \ {o}
        PROVE  /\ Deployment(p)' /\ (Started(p)' <=> Started(p))
               /\ Deploying(p)' => Deploying(p) /\ c = "prepare"
    <3>1. Deployment(p) /\ UNCHANGED task[p] /\ (Deploying(p) => c = "prepare")
      BY <1>3, <2>1 DEF IInv, Deployment, Holding
    <3>2. QED
      BY <1>1, <1>3, <3>1 DEF Deployment, Holding, Flags, TargetAhead, Marked, TargetRuns,
         OldWriters, Frozen, Deploying, Started, Fits, Known, Above, Base, Recorded, Running
  <2>4. Exclusive'
    BY <2>1, <2>3 DEF IInv, Exclusive, Deploying
  <2>5. Covered' /\ CurrentNeverAhead'
    BY <1>1, <1>2, <2>2, <2>3 DEF IInv, Covered, CurrentNeverAhead, Running, Fits, Known,
       Above, Base, Recorded
  <2>6. QED BY <2>2, <2>3, <2>4, <2>5 DEF IInv
<1>4. CASE UNCHANGED task /\ locked'
  BY <1>1, <1>4 DEF IInv, Deployment, Holding, Flags, TargetAhead, Marked, TargetRuns,
     OldWriters, Frozen, Exclusive, Covered, CurrentNeverAhead, Deploying, Started, Fits,
     Known, Above, Base, Recorded,
     Running
<1>5. QED BY <1>3, <1>4 DEF Deploy, Prepare, DeployLockTaken

\* Containers that restart or write stay with the release they run.
LEMMA WorldKeeps ==
  ASSUME TypeOK, IInv, NEW w \in Writers, Flap(w) \/ Write(w)
  PROVE  IInv'
<1>1. /\ UNCHANGED <<task, locked, runtimeSha, current, unmarked>>
      /\ Running(w)
      /\ \A v \in Writers : /\ container'[v].release = container[v].release
                            /\ Running(v)' <=> Running(v)
  BY DEF Flap, Write, Running, TypeOK, Container
<1>2. data'.by \in {data.by, container[w].release}
  BY DEF Flap, Write, Touched, TypeOK
<1>3. ASSUME NEW o \in Operators PROVE Deployment(o)'
  <2>1. Deployment(o)
    BY DEF IInv
  <2>2. task[o].pc \notin {"redis", "reports", "keep", "attempt", "up"}
    BY <1>1, <2>1 DEF Deployment, Frozen
  <2>3. Started(o) => data'.by \in {data.by, task[o].target}
    BY <1>1, <1>2, <2>1 DEF Deployment, TargetRuns
  <2>4. TargetRuns(o)'
    BY <1>1, <2>1, <2>3 DEF Deployment, TargetRuns, Started, Fits, Known, Above, Base, Recorded
  <2>5. QED
    BY <1>1, <2>1, <2>2, <2>4 DEF Deployment, Holding, Flags, TargetAhead, Marked,
       OldWriters, Frozen, Deploying, Started, Fits, Known, Above, Base, Recorded
<1>4. Covered'
  BY <1>1, <1>2 DEF IInv, Covered, Started, Fits, Known, Above, Base, Recorded
<1>5. Exclusive' /\ CurrentNeverAhead'
  BY <1>1 DEF IInv, Exclusive, Deploying, CurrentNeverAhead
<1>6. QED BY <1>3, <1>4, <1>5 DEF IInv

\* The operator acts when no deployment is under way.
LEMMA ByHandKeeps ==
  ASSUME TypeOK, IInv, ClearStaleLock \/ \E w \in Writers : StartByHand(w)
  PROVE  IInv'
<1>1. UNCHANGED <<task, runtimeSha, current, unmarked>>
  BY DEF ClearStaleLock, StartByHand, host
<1>2. \A o \in Operators : Deployment(o) /\ ~Deploying(o)
  BY DEF ClearStaleLock, StartByHand, IInv, Deployment, Holding, Deploying
<1>3. ASSUME NEW o \in Operators
      PROVE  /\ ~task[o].stopped /\ ~task[o].attempted /\ ~Deploying(o)
             /\ task[o].pc \notin DeployPc \cup {"abort", "release"}
  BY <1>2 DEF Deployment, Holding, Flags, Starting, Maintenance, DeployPc
<1>4. \A o \in Operators : Deployment(o)'
  BY <1>1, <1>3 DEF Deployment, Holding, Flags, TargetAhead, Marked, TargetRuns, OldWriters,
     Frozen, Deploying, Started, DeployPc, Starting
<1>5. Exclusive' /\ CurrentNeverAhead' /\ \A o \in Operators : ~Started(o) /\ ~Started(o)'
  BY <1>1, <1>3 DEF IInv, Exclusive, Deploying, CurrentNeverAhead, Started
<1>6. Covered'
  <2>1. CASE ClearStaleLock
    BY <1>1, <1>5, <2>1 DEF ClearStaleLock, host, IInv, Covered, Running, Fits, Known,
       Above, Base, Recorded
  <2>2. ASSUME NEW w \in Writers, StartByHand(w) PROVE Covered'
    <3>1. /\ container[w].release \in Releases
          /\ runtimeSha \in {container[w].release, None}
      BY <2>2 DEF StartByHand, TypeOK, Container
    <3>2. Fits(container[w].release)
      <4>1. CASE runtimeSha = None
        BY <1>5, <4>1 DEF IInv, Covered
      <4>2. CASE runtimeSha = container[w].release
        BY <3>1, <4>2, Ancestors DEF Fits, Known, Above, Base, Recorded
      <4>3. QED BY <3>1, <4>1, <4>2
    <3>3. /\ data'.by = container[w].release
          /\ \A v \in Writers : /\ container'[v].release = container[v].release
                                /\ Running(v)' => Running(v) \/ v = w
      BY <2>2 DEF StartByHand, Touched, TypeOK, Container, Running
    <3>4. QED
      BY <1>1, <1>5, <3>2, <3>3 DEF Covered, IInv, Fits, Known, Above, Base, Recorded
  <2>3. QED BY <2>1, <2>2
<1>7. QED BY <1>4, <1>5, <1>6 DEF IInv

LEMMA InvariantHolds == (Init => IInv) /\ (TypeOK /\ IInv /\ [Next]_vars => IInv')
<1>1. Init => IInv
  <2> SUFFICES ASSUME Init PROVE IInv
    OBVIOUS
  <2>1. \A o \in Operators : task[o] = IdleTask
    BY DEF Init
  <2>2. \A o \in Operators : /\ task[o].pc = "idle" /\ task[o].command = None
                             /\ ~task[o].attempted /\ ~task[o].stopped
    BY <2>1 DEF IdleTask
  <2>3. None # "deploy"
    BY ReleaseConstants
  <2>4. (\A o \in Operators : Deployment(o)) /\ Exclusive
    BY <2>2, <2>3 DEF Deployment, Holding, Flags, TargetAhead, Marked, TargetRuns, OldWriters,
       Frozen, Deploying, Started, DeployPc, Starting, Exclusive
  <2>5. /\ current \in {First, None} /\ runtimeSha \in {First, None}
        /\ data.by = First /\ \A w \in Writers : container[w].release = First
    BY DEF Init
  <2>6. IsAncestor(First, First) /\ First \in Releases /\ Fits(First)
    BY <2>5, Ancestors DEF Init, Fits, Known, Above, Base, Recorded
  <2>7. Covered /\ CurrentNeverAhead
    <3>1. Known(data.by) /\ \A w \in Writers : Fits(container[w].release)
      BY <2>5, <2>6 DEF Fits
    <3>2. CurrentNeverAhead
      BY <2>5, <2>6, Ancestors DEF CurrentNeverAhead
    <3>3. QED BY <3>1, <3>2 DEF Covered
  <2>8. QED BY <2>4, <2>7 DEF IInv
<1>2. TypeOK /\ IInv /\ [Next]_vars => IInv'
  <2> SUFFICES ASSUME TypeOK, IInv, [Next]_vars PROVE IInv'
    OBVIOUS
  <2>1. CASE \E o \in Operators, r \in Releases : Deploy(o, r) \/ Prepare(o, r)
    BY <2>1, BeginKeeps
  <2>2. ASSUME NEW o \in Operators, PrepareStep(o) PROVE IInv'
    BY <2>2, PrepareKeeps
  <2>3. ASSUME NEW o \in Operators, DeployStep(o) PROVE IInv'
    <3>1. CASE Check(o) BY <3>1, CheckKeeps
    <3>2. CASE Build(o) BY <3>2, AdvanceKeeps DEF Build, At, host
    <3>3. CASE CollectWriters(o) BY <3>3, CollectKeeps
    <3>4. CASE \E w \in Writers : Stop(o, w) BY <3>4, StopKeeps
    <3>5. CASE Inspect(o)
      BY <3>5, AdvanceKeeps, AbortKeeps DEF Inspect, At, host, DeployPc
    <3>6. CASE DumpPostgres(o) \/ DumpRedis(o) \/ ArchiveReports(o) BY <3>6, DumpKeeps
    <3>7. CASE KeepBackup(o) BY <3>7, AdvanceKeeps DEF KeepBackup, At, host
    <3>8. CASE AttemptStart(o) BY <3>8, AttemptKeeps
    <3>9. CASE Up(o) BY <3>9, UpKeeps
    <3>10. CASE Verify(o)
      BY <3>10, AdvanceKeeps, AbortKeeps DEF Verify, At, host, DeployPc
    <3>11. CASE Mark(o) \/ SwitchCurrent(o) \/ RecordSuccess(o) BY <3>11, MarkKeeps
    <3>12. CASE OnExit(o) BY <3>12, ExitKeeps
    <3>13. CASE ReleaseDeployLock(o) BY <3>13, EndKeeps
    <3>14. QED
      BY <2>3, <3>1, <3>2, <3>3, <3>4, <3>5, <3>6, <3>7, <3>8, <3>9, <3>10, <3>11, <3>12, <3>13
         DEF DeployStep
  <2>4. ASSUME NEW o \in Operators, CommandFails(o) PROVE IInv'
    <3>1. CASE task[o].pc \in PreparePc /\ Go(o, "cleanup")
      <4>1. task[o].pc # "idle" /\ ~Started(o)
        BY <3>1 DEF PreparePc, Started
      <4>2. ~task[o].attempted /\ ~task[o].stopped
        BY <3>1 DEF IInv, Deployment, Flags, Starting, Maintenance, PreparePc
      <4>3. UNCHANGED <<host, locked>> /\ (Deploying(o) => locked)
        BY <2>4 DEF CommandFails, IInv, Deployment, Holding
      <4>4. Deployment(o)' /\ (Deploying(o)' <=> Deploying(o))
        BY <3>1, <4>1, <4>2, <4>3, Moved DEF Deployment, Holding, Flags, TargetAhead, Marked,
           TargetRuns, OldWriters, Frozen, Deploying, Started, DeployPc, Starting
      <4>5. QED BY <3>1, <4>1, <4>3, <4>4, Moved, Local
    <3>2. CASE task[o].pc \in DeployPc \ {"up"} /\ Go(o, "abort")
      BY <2>4, <3>2, AbortKeeps DEF CommandFails
    <3>3. QED BY <2>4, <3>1, <3>2 DEF CommandFails
  <2>5. ASSUME NEW o \in Operators, Kill(o) PROVE IInv'
    BY <2>5, EndKeeps
  <2>6. CASE \E w \in Writers : Flap(w) \/ Write(w)
    BY <2>6, WorldKeeps
  <2>7. CASE ClearStaleLock \/ \E w \in Writers : StartByHand(w)
    BY <2>7, ByHandKeeps
  <2>8. CASE UNCHANGED vars
    BY <2>8 DEF vars, IInv, Deployment, Holding, Flags, TargetAhead, Marked, TargetRuns,
       OldWriters, Frozen, Exclusive, Covered, CurrentNeverAhead, Deploying, Started, Fits,
       Known, Above, Base, Recorded,
       Running
  <2>9. QED
    BY <2>1, <2>2, <2>3, <2>4, <2>5, <2>6, <2>7, <2>8 DEF Next
<1>3. QED BY <1>1, <1>2

\* At most one deployment is under way, and at each of its points the markers,
\* the containers and the data are related as its next commands rely on.
THEOREM DeploymentInvariant == Spec => []IInv
BY TypesHold, InvariantHolds, PTL DEF Spec

\* Every start is covered by a backup of the data as it is then
\* (deploy-docker-home-release.sh:227, 240).
THEOREM StartsAreBackedUp == Spec => []BackupCoversStart
<1>1. TypeOK /\ IInv => BackupCoversStart
  <2> SUFFICES ASSUME TypeOK, IInv, NEW o \in Operators, task[o].pc \in {"keep", "attempt", "up"}
               PROVE  task[o].dump = [postgres |-> data.writes, redis |-> data.writes,
                                      reports |-> data.writes]
    BY DEF BackupCoversStart
  <2>1. task[o].dump \in Dump
    BY Busy
  <2>2. QED BY <2>1 DEF IInv, Deployment, Frozen, Dump
<1>2. QED BY <1>1, DeploymentTypes, DeploymentInvariant, PTL

\* A release that works on the data is known to the next deployment, or one of
\* the two ways to lose its marker was taken: a kill before the marker is
\* written and a write of the exit trap that fails
\* (deploy-docker-home-release.sh:85-88, 248).
THEOREM DataIsKnown == Spec => []RuntimeCoversData
<1>1. TypeOK /\ IInv => RuntimeCoversData
  <2> SUFFICES ASSUME TypeOK, IInv PROVE RuntimeCoversData
    OBVIOUS
  <2>1. CASE \A o \in Operators : ~Started(o)
    BY <2>1 DEF IInv, Covered, RuntimeCoversData, Known
  <2>2. ASSUME NEW o \in Operators, Started(o) PROVE RuntimeCoversData
    <3>1. CASE task[o].pc \in {"mark", "abort"}
      BY <2>2, <3>1 DEF RuntimeCoversData, Started
    <3>2. CASE task[o].pc \in {"verify", "switch", "record"}
      <4>1. /\ runtimeSha = task[o].target
            /\ Known(data.by) \/ data.by = task[o].target
        BY <2>2, <3>2 DEF IInv, Deployment, Marked, TargetRuns
      <4>2. IsAncestor(data.by, data.by)
        BY Ancestors DEF TypeOK
      <4>3. QED BY <4>1, <4>2 DEF RuntimeCoversData, Known, Recorded
    <3>3. QED BY <2>2, <3>1, <3>2 DEF Started
  <2>3. QED BY <2>1, <2>2
<1>2. QED BY <1>1, DeploymentTypes, DeploymentInvariant, PTL

\* The current link stays behind the release that was started
\* (deploy-docker-home-release.sh:121, 258).
THEOREM CurrentStaysBehind == Spec => []CurrentNeverAhead
<1>1. IInv => CurrentNeverAhead
  BY DEF IInv
<1>2. QED BY <1>1, DeploymentInvariant, PTL

\* One step of the host never goes back.
Forward ==
  /\ data.by \in unmarked \/ IsAncestor(data.by, data'.by)
  /\ runtimeSha \in Releases => runtimeSha' = Damaged \/ IsAncestor(runtimeSha, runtimeSha')
  /\ current # None => IsAncestor(current, current')

LEMMA StepsGoForward == TypeOK /\ IInv /\ [Next]_vars => Forward
<1> SUFFICES ASSUME TypeOK, IInv, [Next]_vars PROVE Forward
  OBVIOUS
<1>1. /\ data.by \in Releases /\ IsAncestor(data.by, data.by)
      /\ runtimeSha \in Releases =>
           IsAncestor(runtimeSha, runtimeSha) /\ Base = runtimeSha /\ Base # None
      /\ current # None => IsAncestor(current, current)
      /\ CurrentNeverAhead
  BY Ancestors DEF TypeOK, Base, IInv
<1>2. CASE UNCHANGED <<data, runtimeSha, current>>
  BY <1>1, <1>2 DEF Forward
<1>3. ASSUME NEW o \in Operators, Up(o) PROVE Forward
  <2>1. /\ Deployment(o) /\ task[o].target \in Releases /\ ~Started(o)
        /\ task[o].pc \in DeployPc \ {"check"} /\ Known(data.by)
    BY <1>3, UnderWay DEF Up, At, IInv, DeployPc, Started
  <2>2. Above(task[o].target)
    BY <2>1 DEF Deployment, TargetAhead
  <2>3. data.by \in unmarked \/ IsAncestor(data.by, task[o].target)
    BY <1>1, <2>1, <2>2, GoesForward
  <2>4. data'.by \in {data.by, task[o].target} /\ UNCHANGED <<runtimeSha, current>>
    BY <1>3 DEF Up, Touched, TypeOK
  <2>5. QED BY <1>1, <2>3, <2>4 DEF Forward
<1>4. ASSUME NEW o \in Operators, Mark(o) \/ SwitchCurrent(o) PROVE Forward
  <2>1. /\ Deployment(o) /\ task[o].pc \in DeployPc \ {"check"}
    BY <1>4 DEF Mark, SwitchCurrent, At, IInv, DeployPc
  <2>2. /\ Above(task[o].target)
        /\ current # None => IsAncestor(current, task[o].target)
    BY <2>1 DEF Deployment, TargetAhead
  <2>3. CASE Mark(o)
    BY <1>1, <2>2, <2>3 DEF Mark, Above, Forward
  <2>4. CASE SwitchCurrent(o)
    BY <1>1, <2>2, <2>4 DEF SwitchCurrent, Forward
  <2>5. QED BY <1>4, <2>3, <2>4
<1>5. ASSUME NEW o \in Operators, OnExit(o) PROVE Forward
  <2>1. Deployment(o) /\ task[o].pc = "abort" /\ UNCHANGED current
    BY <1>5 DEF OnExit, At, IInv
  <2>2. runtimeSha \in Releases => runtimeSha' = Damaged \/ IsAncestor(runtimeSha, runtimeSha')
    <3>1. \/ runtimeSha' \in {runtimeSha, Damaged}
          \/ task[o].attempted /\ runtimeSha' = task[o].target
      BY <1>5 DEF OnExit, MarkAtExit, MarkerAtExit
    <3>2. task[o].attempted => Above(task[o].target)
      BY <2>1 DEF Deployment, TargetAhead, Started
    <3>3. QED BY <1>1, <3>1, <3>2 DEF Above
  <2>3. data.by \in unmarked \/ IsAncestor(data.by, data'.by)
    <3>1. CASE UNCHANGED data
      BY <1>1, <3>1
    <3>2. ASSUME NEW w \in Writers, data' = Touched(task[o].old[w]),
                 container[w].release = task[o].old[w],
                 task[o].stopped, ~task[o].attempted
          PROVE  data.by \in unmarked \/ IsAncestor(data.by, data'.by)
      <4>1. ~Started(o) /\ Fits(task[o].old[w]) /\ data'.by = task[o].old[w]
        BY <2>1, <3>2 DEF Deployment, OldWriters, Started, Touched, TypeOK
      <4>2. Known(data.by)
        BY <2>1, <4>1, UnderWay
      <4>3. task[o].old[w] \in Releases
        BY <3>2 DEF TypeOK, Container
      <4>4. QED BY <1>1, <4>1, <4>2, <4>3, GoesForward DEF Fits
    <3>3. \/ UNCHANGED data
          \/ /\ task[o].stopped /\ ~task[o].attempted
             /\ \E w \in Writers : /\ data' = Touched(task[o].old[w])
                                   /\ container[w].release = task[o].old[w]
      BY <1>5 DEF OnExit
    <3>4. QED BY <3>1, <3>2, <3>3
  <2>4. QED BY <1>1, <2>1, <2>2, <2>3 DEF Forward
<1>6. ASSUME NEW w \in Writers, Flap(w) \/ Write(w) PROVE Forward
  <2>1. /\ data'.by \in {data.by, container[w].release} /\ UNCHANGED <<runtimeSha, current>>
        /\ Running(w) /\ container[w].release \in Releases
    BY <1>6 DEF Flap, Write, Touched, Running, TypeOK, Container
  <2>2. data.by \in unmarked \/ IsAncestor(data.by, container[w].release)
    <3>1. CASE \A o \in Operators : ~Started(o)
      BY <1>1, <2>1, <3>1, GoesForward DEF IInv, Covered, Fits
    <3>2. ASSUME NEW o \in Operators, Started(o)
          PROVE  data.by \in unmarked \/ IsAncestor(data.by, container[w].release)
      <4>1. /\ Known(data.by) \/ data.by = task[o].target
            /\ container[w].release = task[o].target /\ Above(task[o].target)
        BY <2>1, <3>2 DEF IInv, Deployment, TargetRuns, TargetAhead
      <4>2. QED BY <1>1, <2>1, <4>1, GoesForward
    <3>3. QED BY <3>1, <3>2
  <2>3. QED BY <1>1, <2>1, <2>2 DEF Forward
<1>7. ASSUME NEW w \in Writers, StartByHand(w) PROVE Forward
  <2>1. \A o \in Operators : ~Started(o)
    BY <1>7 DEF StartByHand, IInv, Deployment, Holding, Deploying, Started, DeployPc
  <2>2. /\ data'.by = container[w].release /\ UNCHANGED <<runtimeSha, current>>
        /\ container[w].release \in Releases /\ runtimeSha \in {container[w].release, None}
    BY <1>7 DEF StartByHand, Touched, TypeOK, Container
  <2>3. Known(data.by) /\ Above(container[w].release)
    BY <1>1, <2>1, <2>2, Ancestors DEF IInv, Covered, Fits, Above, Base
  <2>4. QED BY <1>1, <2>2, <2>3, GoesForward DEF Forward
<1>8. QED
  <2>1. ASSUME NEW o \in Operators, PrepareStep(o) PROVE UNCHANGED host
    BY <2>1 DEF PrepareStep, Fetch, TakePrepareLock, Stage, Look, Rename, Seal,
                DropPrepareLock, Cleanup
  <2>2. ASSUME NEW o \in Operators, DeployStep(o), ~Up(o), ~Mark(o), ~SwitchCurrent(o),
               ~OnExit(o)
        PROVE  UNCHANGED <<data, runtimeSha, current>>
    BY <2>2 DEF DeployStep, Check, Build, CollectWriters, Stop, Inspect, DumpPostgres,
                DumpRedis, ArchiveReports, KeepBackup, AttemptStart, Verify, RecordSuccess,
                ReleaseDeployLock, host
  <2>3. ASSUME NEW o \in Operators, NEW r \in Releases,
               Deploy(o, r) \/ Prepare(o, r)
        PROVE  UNCHANGED <<data, runtimeSha, current>>
    BY <2>3 DEF Deploy, Prepare, host
  <2>4. ASSUME NEW o \in Operators, CommandFails(o) \/ Kill(o)
        PROVE  UNCHANGED <<data, runtimeSha, current>>
    BY <2>4 DEF CommandFails, Kill, host
  <2>5. CASE ClearStaleLock \/ UNCHANGED vars
    BY <1>2, <2>5 DEF ClearStaleLock, vars, host
  <2>6. QED
    BY <1>2, <1>3, <1>4, <1>5, <1>6, <1>7, <2>1, <2>2, <2>3, <2>4, <2>5 DEF Next, host

\* The markers never go back, whatever deployments fail or are repeated, and
\* neither does the data unless a release changed it that no marker was written
\* for (deploy-docker-home-release.sh:121-129, 244).
THEOREM DeploymentsGoForward == Spec => ForwardOnly
<1>1. TypeOK /\ IInv /\ [Next]_vars => [Forward]_vars
  BY StepsGoForward
<1>2. QED
  BY <1>1, DeploymentTypes, DeploymentInvariant, PTL DEF Spec, ForwardOnly, Forward

-----------------------------------------------------------------------------
(* What is recorded, and what is deployed from.                             *)

\* A deployment that is not over has an open record, or failed after the record
\* of success; it reaches that record with its writers started, and a writer
\* that is stopped contradicts the last record at no time.
RecordHonest ==
  /\ \A o \in Operators : Deploying(o) /\ task[o].pc # "release" =>
       \/ record = OpenRecord
       \/ task[o].pc = "abort" /\ \A w \in Writers : Running(w)
  /\ \A o \in Operators : task[o].pc \in {"switch", "record"} => \A w \in Writers : Running(w)
  /\ (\E w \in Writers : ~Running(w)) => record.status # "succeeded" /\ ~record.restarted

\* A step that leaves the record alone and stops no writer.
LEMMA RecordKept ==
  ASSUME RecordHonest, UNCHANGED record,
         \A w \in Writers : Running(w) => Running(w)',
         \A o \in Operators : /\ Deploying(o)' /\ task'[o].pc # "release" =>
                                   /\ Deploying(o) /\ task[o].pc # "release"
                                   /\ task[o].pc = "abort" => task'[o].pc = "abort"
                              /\ task'[o].pc \in {"switch", "record"} =>
                                   \/ task[o].pc \in {"switch", "record"}
                                   \/ \A w \in Writers : Running(w)
  PROVE  RecordHonest'
BY DEF RecordHonest

LEMMA RecordHolds ==
  (Init => RecordHonest) /\ (TypeOK /\ IInv /\ RecordHonest /\ [Next]_vars => RecordHonest')
<1>1. Init => RecordHonest
  BY ReleaseConstants DEF Init, IdleTask, RecordHonest, Deploying, Running
<1>2. TypeOK /\ IInv /\ RecordHonest /\ [Next]_vars => RecordHonest'
  <2> SUFFICES ASSUME TypeOK, IInv, RecordHonest, [Next]_vars PROVE RecordHonest'
    OBVIOUS
  <2>1. ASSUME NEW o \in Operators, NEW q, Go(o, q), task[o].pc # "idle",
               UNCHANGED record, \A w \in Writers : Running(w) => Running(w)',
               task[o].pc = "release" => q = "release", task[o].pc # "abort",
               q \in {"switch", "record"} =>
                 task[o].pc = "switch" \/ \A w \in Writers : Running(w)
        PROVE  RecordHonest'
    BY <2>1, Moved, RecordKept DEF Deploying
  <2>2. ASSUME NEW o \in Operators, Finish(o), UNCHANGED <<container, record>>
        PROVE  RecordHonest'
    BY <2>2, Finished, EndedIsFine, RecordKept DEF host, Deploying, Running
  <2>3. ASSUME NEW o \in Operators, NEW r \in Releases, Deploy(o, r) \/ Prepare(o, r)
        PROVE  RecordHonest'
    <3>1. task \in [Operators -> Task] /\ UNCHANGED container
      BY <2>3 DEF TypeOK, Deploy, Prepare, host
    <3>2. CASE Deploy(o, r) /\ record' = OpenRecord
                /\ task' = [task EXCEPT ![o] = [IdleTask EXCEPT
                     !.pc = "fetch", !.command = "deploy", !.target = r]]
      BY <3>1, <3>2 DEF RecordHonest, OpenRecord, IdleTask, Deploying, Running
    <3>3. CASE UNCHANGED <<task, record>>
      BY <3>1, <3>3, RecordKept DEF Deploying, Running
    <3>4. CASE Prepare(o, r)
      BY <3>1, <3>4, RecordKept DEF Prepare, host, IdleTask, Deploying, Running
    <3>5. QED BY <2>3, <3>2, <3>3, <3>4 DEF Deploy
  <2>4. ASSUME NEW o \in Operators, PrepareStep(o) PROVE RecordHonest'
    <3>1. /\ task[o].pc \in PreparePc \cup {"cleanup"} /\ UNCHANGED host
          /\ Finish(o) \/ \E q \in PreparePc \cup {"cleanup", "check", "abort"} : Go(o, q)
      BY <2>4, Points DEF PrepareStep, Fetch, TakePrepareLock, Stage, Look, Rename, Seal,
                          DropPrepareLock, Cleanup, Leave, At
    <3>2. CASE Finish(o)
      BY <2>2, <3>1, <3>2 DEF host
    <3>3. ASSUME NEW q \in PreparePc \cup {"cleanup", "check", "abort"}, Go(o, q)
          PROVE  RecordHonest'
      BY <2>1, <3>1, <3>3 DEF PreparePc, host, Running
    <3>4. QED BY <3>1, <3>2, <3>3
  <2>5. ASSUME NEW o \in Operators,
               Check(o) \/ Build(o) \/ Inspect(o) \/ KeepBackup(o) \/ Verify(o)
               \/ Mark(o) \/ SwitchCurrent(o) \/ CommandFails(o)
        PROVE  RecordHonest'
    <3>1. PICK q \in {"build", "collect", "postgres", "attempt", "verify", "switch",
                      "record", "abort", "cleanup"} :
            /\ Go(o, q)
            /\ q \in {"switch", "record"} =>
                 task[o].pc = "switch" \/ \A w \in Writers : Running(w)
      BY <2>5 DEF Check, Build, Inspect, KeepBackup, Verify, Mark, SwitchCurrent,
                  CommandFails, At, Running
    <3>2. /\ task[o].pc \notin {"idle", "release", "abort"}
          /\ UNCHANGED <<record, container>>
      BY <2>5 DEF Check, Build, Inspect, KeepBackup, Verify, Mark, SwitchCurrent,
                  CommandFails, At, host, PreparePc, DeployPc
    <3>3. QED BY <2>1, <3>1, <3>2 DEF Running
  <2>6. ASSUME NEW o \in Operators,
               CollectWriters(o) \/ DumpPostgres(o) \/ DumpRedis(o) \/ ArchiveReports(o)
               \/ AttemptStart(o)
        PROVE  RecordHonest'
    <3>1. /\ task[o].pc \notin {"idle", "release", "abort"} /\ task \in [Operators -> Task]
          /\ UNCHANGED <<record, container>>
      BY <2>6 DEF CollectWriters, DumpPostgres, DumpRedis, ArchiveReports, AttemptStart, At,
                  host, TypeOK
    <3>2. /\ task'[o].command = task[o].command /\ task'[o].pc \notin {"switch", "record"}
          /\ \A p \in Operators \ {o} : task'[p] = task[p]
      BY <2>6, <3>1, Busy DEF CollectWriters, DumpPostgres, DumpRedis, ArchiveReports,
                  AttemptStart, Go, GoWith
    <3>3. QED BY <3>1, <3>2, RecordKept DEF Deploying, Running
  <2>7. ASSUME NEW o \in Operators, (\E w \in Writers : Stop(o, w)) \/ Up(o)
        PROVE  RecordHonest'
    <3>1. /\ task[o].pc \in DeployPc /\ task[o].pc \in {"stopApi", "stopWorker", "up"}
          /\ UNCHANGED record
          /\ \E q \in {"stopWorker", "inspect", "mark", "abort"} : Go(o, q)
      BY <2>7 DEF Stop, Up, At, DeployPc
    <3>2. record = OpenRecord
      BY <3>1, UnderWay DEF RecordHonest
    <3>3. \A p \in Operators : task'[p].pc \notin {"switch", "record"}
      BY <3>1, UnderWay, Alone, Moved DEF DeployPc
    <3>4. QED BY <3>1, <3>2, <3>3 DEF RecordHonest, OpenRecord
  <2>8. ASSUME NEW o \in Operators, RecordSuccess(o) PROVE RecordHonest'
    <3>1. /\ task[o].pc = "record" /\ task[o].pc \in DeployPc /\ task[o].pc # "idle"
          /\ Go(o, "release") \/ Go(o, "abort")
          /\ UNCHANGED container
      BY <2>8 DEF RecordSuccess, At, DeployPc
    <3>2. \A w \in Writers : Running(w) /\ Running(w)'
      BY <3>1 DEF RecordHonest, Running
    <3>3. /\ Deploying(o) /\ task'[o].pc \in {"release", "abort"}
          /\ \A p \in Operators \ {o} : task'[p] = task[p]
      BY <3>1, UnderWay, Moved
    <3>4. \A p \in Operators : Deploying(p)' => task'[p].pc \in {"release", "abort"}
      BY <3>3, Alone DEF Deploying
    <3>5. QED BY <3>2, <3>4 DEF RecordHonest
  <2>9. ASSUME NEW o \in Operators, OnExit(o) PROVE RecordHonest'
    <3>1. /\ task[o].pc = "abort" /\ task[o].pc # "idle" /\ Go(o, "release")
          /\ task[o].pc \in DeployPc \cup {"abort", "release"}
      BY <2>9 DEF OnExit, At
    <3>2. Deploying(o) /\ task'[o].pc = "release" /\ \A p \in Operators \ {o} : task'[p] = task[p]
      BY <3>1, UnderWay, Moved
    <3>3. \A p \in Operators : /\ Deploying(p)' => task'[p].pc = "release"
                               /\ task'[p].pc \notin {"switch", "record"}
      BY <3>2, Alone DEF Deploying, DeployPc
    <3>4. \A w \in Writers : Running(w) => Running(w)'
      <4>1. CASE UNCHANGED container
        BY <4>1 DEF Running
      <4>2. ASSUME NEW started \in SUBSET Writers,
                   container' = [w \in Writers |->
                     IF w \in started THEN [container[w] EXCEPT !.state = "up"] ELSE container[w]]
            PROVE  \A w \in Writers : Running(w) => Running(w)'
        BY <4>2 DEF Running, TypeOK, Container
      <4>3. QED BY <2>9, <4>1, <4>2 DEF OnExit
    <3>5. \/ record' \in {[status |-> "failed", restarted |-> FALSE], OpenRecord}
          \/ \A w \in Writers : Running(w)'
      <4>1. record = OpenRecord \/ \A w \in Writers : Running(w)
        BY <3>1, <3>2 DEF RecordHonest
      <4>2. CASE record' \in {record, OpenRecord, FailedRecord(FALSE)}
        BY <3>4, <4>1, <4>2 DEF FailedRecord
      <4>3. ASSUME NEW started \in SUBSET Writers, record' = FailedRecord(AllRestarted(started)),
                   container' = [w \in Writers |->
                     IF w \in started THEN [container[w] EXCEPT !.state = "up"] ELSE container[w]]
            PROVE  \/ record' \in {[status |-> "failed", restarted |-> FALSE], OpenRecord}
                   \/ \A w \in Writers : Running(w)'
        <5>1. CASE started = Writers
          BY <4>3, <5>1 DEF Running, TypeOK, Container
        <5>2. CASE started # Writers
          BY <4>3, <5>2 DEF FailedRecord, AllRestarted
        <5>3. QED BY <5>1, <5>2
      <4>4. QED BY <2>9, <4>2, <4>3 DEF OnExit, RecordAtExit
    <3>6. QED BY <3>3, <3>5 DEF RecordHonest, OpenRecord
  <2>10. ASSUME NEW o \in Operators, ReleaseDeployLock(o) \/ Kill(o) PROVE RecordHonest'
    BY <2>2, <2>10 DEF ReleaseDeployLock, Kill, host
  <2>11. ASSUME NEW w \in Writers, Flap(w) \/ Write(w) \/ StartByHand(w) PROVE RecordHonest'
    BY <2>11, RecordKept DEF Flap, Write, StartByHand, Running, Deploying, TypeOK, Container
  <2>12. CASE ClearStaleLock \/ UNCHANGED vars
    BY <2>12, RecordKept DEF ClearStaleLock, vars, host, Running, Deploying
  <2>13. QED
    BY <2>3, <2>4, <2>5, <2>6, <2>7, <2>8, <2>9, <2>10, <2>11, <2>12 DEF Next, DeployStep
<1>3. QED BY <1>1, <1>2

\* An outage is recorded, whatever failed on the way
\* (deploy-docker-home-release.sh:91-98; docs/runbook.md:86).
THEOREM OutagesAreRecorded == Spec => []OutageIsRecorded
<1>1. RecordHonest => OutageIsRecorded
  BY DEF RecordHonest, OutageIsRecorded, Running
<1>2. QED
  BY <1>1, RecordHolds, DeploymentTypes, DeploymentInvariant, PTL DEF Spec

\* A tree that is there stays, one that was sealed stays sealed, and nobody
\* gets past the seal without it.
SealedBefore(o) ==
  /\ task[o].pc = "seal" => tree[task[o].target] # "absent"
  /\ task[o].pc \in {"drop"} \cup DeployPc => tree[task[o].target] \in {"sealed", "nested"}

TreesSealed == \A o \in Operators : SealedBefore(o)

LEMMA TreesGrow ==
  ASSUME TypeOK, [Next]_vars, NEW r \in Releases
  PROVE  /\ tree[r] # "absent" => tree'[r] # "absent"
         /\ tree[r] \in {"sealed", "nested"} => tree'[r] \in {"sealed", "nested"}
<1>1. CASE UNCHANGED tree
  BY <1>1
<1>2. ASSUME NEW o \in Operators, Rename(o) \/ Seal(o)
      PROVE  /\ tree[r] # "absent" => tree'[r] # "absent"
             /\ tree[r] \in {"sealed", "nested"} => tree'[r] \in {"sealed", "nested"}
  BY <1>2 DEF Rename, Seal, TypeOK
<1>3. ASSUME NEW o \in Operators, PrepareStep(o), ~Rename(o), ~Seal(o) PROVE UNCHANGED tree
  BY <1>3 DEF PrepareStep, Fetch, TakePrepareLock, Stage, Look, DropPrepareLock, Cleanup
<1>4. ASSUME NEW o \in Operators, DeployStep(o) PROVE UNCHANGED tree
  BY <1>4 DEF DeployStep, Check, Build, CollectWriters, Stop, Inspect, DumpPostgres,
              DumpRedis, ArchiveReports, KeepBackup, AttemptStart, Up, Mark, Verify,
              SwitchCurrent, RecordSuccess, OnExit, ReleaseDeployLock
<1>5. ASSUME NEW o \in Operators, NEW x \in Releases,
             Deploy(o, x) \/ Prepare(o, x) \/ CommandFails(o) \/ Kill(o)
      PROVE  UNCHANGED tree
  BY <1>5 DEF Deploy, Prepare, CommandFails, Kill
<1>6. ASSUME NEW w \in Writers, Flap(w) \/ Write(w) \/ StartByHand(w) PROVE UNCHANGED tree
  BY <1>6 DEF Flap, Write, StartByHand
<1>7. CASE ClearStaleLock \/ UNCHANGED vars
  BY <1>7 DEF ClearStaleLock, vars
<1>8. ASSUME NEW o \in Operators, CommandFails(o) \/ Kill(o) PROVE UNCHANGED tree
  BY <1>8 DEF CommandFails, Kill
<1>9. QED
  BY <1>1, <1>2, <1>3, <1>4, <1>5, <1>6, <1>7, <1>8 DEF Next

LEMMA TreesHold == (Init => TreesSealed) /\ (TypeOK /\ TreesSealed /\ [Next]_vars => TreesSealed')
<1>1. Init => TreesSealed
  BY DEF Init, TreesSealed, SealedBefore, IdleTask, DeployPc
<1>2. TypeOK /\ TreesSealed /\ [Next]_vars => TreesSealed'
  <2> SUFFICES ASSUME TypeOK, TreesSealed, [Next]_vars PROVE TreesSealed'
    OBVIOUS
  <2>1. ASSUME NEW o \in Operators,
               task'[o].pc = "seal" => task[o].pc \in {"rename", "seal"},
               task'[o].pc = "seal" /\ task[o].pc = "rename" => tree'[task[o].target] # "absent",
               task'[o].pc \in {"drop"} \cup DeployPc =>
                 \/ task[o].pc \in {"drop"} \cup DeployPc
                 \/ tree'[task[o].target] \in {"sealed", "nested"},
               task'[o].pc # "idle" => task[o].pc # "idle" /\ task'[o].target = task[o].target
        PROVE  SealedBefore(o)'
    <3>1. CASE task'[o].pc = "idle"
      BY <3>1 DEF SealedBefore, DeployPc
    <3>2. CASE task'[o].pc # "idle"
      <4>1. task[o].target \in Releases /\ task'[o].target = task[o].target
        BY <2>1, <3>2, Busy
      <4>2. SealedBefore(o)
        BY DEF TreesSealed
      <4>3. QED BY <2>1, <4>1, <4>2, TreesGrow DEF SealedBefore
    <3>3. QED BY <3>1, <3>2
  <2>2. ASSUME NEW o \in Operators, UNCHANGED task[o] PROVE SealedBefore(o)'
    <3>1. CASE task[o].pc = "idle"
      BY <2>2, <3>1 DEF SealedBefore, DeployPc
    <3>2. CASE task[o].pc # "idle"
      BY <2>1, <2>2, <3>2
    <3>3. QED BY <3>1, <3>2
  <2>3. ASSUME NEW o \in Operators, task[o].pc # "idle",
               Finish(o) \/ \E q \in Pc \ {"seal", "drop"} : Go(o, q) /\
                              (q \in DeployPc => task[o].pc \in {"drop"} \cup DeployPc)
        PROVE  TreesSealed'
    <3>1. SealedBefore(o)' /\ \A p \in Operators \ {o} : SealedBefore(p)'
      <4>1. CASE Finish(o)
        BY <2>2, <4>1, Finished DEF SealedBefore, DeployPc
      <4>2. ASSUME NEW q \in Pc \ {"seal", "drop"}, Go(o, q),
                   q \in DeployPc => task[o].pc \in {"drop"} \cup DeployPc
            PROVE  SealedBefore(o)' /\ \A p \in Operators \ {o} : SealedBefore(p)'
        BY <2>1, <2>2, <2>3, <4>2, Moved
      <4>3. QED BY <2>3, <4>1, <4>2
    <3>2. QED BY <3>1 DEF TreesSealed
  <2>4. ASSUME NEW o \in Operators, PrepareStep(o) PROVE TreesSealed'
    <3>1. CASE Stage(o) \/ Rename(o) \/ Seal(o)
      <4>1. PICK q \in {"look", "drop", "cleanup", "seal"} :
              /\ Go(o, q) /\ task[o].pc # "idle"
              /\ q = "seal" => task[o].pc = "rename" /\ tree'[task[o].target] # "absent"
              /\ q = "drop" => tree'[task[o].target] \in {"sealed", "nested"}
        <5>1. task[o].pc # "idle" /\ task[o].target \in Releases
          BY <3>1, Busy DEF Stage, Rename, Seal, At
        <5>2. CASE Stage(o)
          BY <5>1, <5>2 DEF Stage, Reusable
        <5>3. CASE Rename(o)
          BY <5>1, <5>3 DEF Rename, At, TypeOK
        <5>4. CASE Seal(o)
          BY <5>1, <5>4 DEF Seal, At, TypeOK, TreesSealed, SealedBefore
        <5>5. QED BY <3>1, <5>2, <5>3, <5>4
      <4>2. SealedBefore(o)' /\ \A p \in Operators \ {o} : SealedBefore(p)'
        BY <2>1, <2>2, <4>1, Moved DEF DeployPc
      <4>3. QED BY <4>2 DEF TreesSealed
    <3>2. CASE ~(Stage(o) \/ Rename(o) \/ Seal(o))
      <4>1. /\ task[o].pc # "idle"
            /\ \/ Finish(o)
               \/ \E q \in {"take", "cleanup", "stage", "rename", "abort"} : Go(o, q)
               \/ task[o].pc = "drop" /\ Go(o, "check")
        BY <2>4, <3>2 DEF PrepareStep, Fetch, TakePrepareLock, Look, DropPrepareLock,
           Cleanup, Leave, At
      <4>2. QED BY <2>3, <4>1, Points DEF DeployPc
    <3>3. QED BY <3>1, <3>2
  <2>5. ASSUME NEW o \in Operators, DeployStep(o) \/ CommandFails(o) \/ Kill(o)
        PROVE  TreesSealed'
    <3>1. CASE CollectWriters(o) \/ DumpPostgres(o) \/ DumpRedis(o) \/ ArchiveReports(o)
               \/ AttemptStart(o)
      <4>1. /\ task[o].pc \in DeployPc /\ task[o].pc # "idle" /\ task \in [Operators -> Task]
        BY <3>1 DEF CollectWriters, DumpPostgres, DumpRedis, ArchiveReports, AttemptStart,
           At, DeployPc, TypeOK
      <4>2. /\ task'[o].target = task[o].target /\ task'[o].pc \notin {"seal", "idle"}
            /\ \A p \in Operators \ {o} : task'[p] = task[p]
        BY <3>1, <4>1, Busy DEF CollectWriters, DumpPostgres, DumpRedis, ArchiveReports,
           AttemptStart, Go, GoWith
      <4>3. SealedBefore(o)' /\ \A p \in Operators \ {o} : SealedBefore(p)'
        BY <2>1, <2>2, <4>1, <4>2
      <4>4. QED BY <4>3 DEF TreesSealed
    <3>2. CASE ~(CollectWriters(o) \/ DumpPostgres(o) \/ DumpRedis(o) \/ ArchiveReports(o)
                 \/ AttemptStart(o))
      <4>1. /\ task[o].pc # "idle"
            /\ \/ Finish(o)
               \/ \E q \in {"cleanup", "abort", "release"} : Go(o, q)
               \/ task[o].pc \in DeployPc /\ \E q \in DeployPc : Go(o, q)
        BY <2>5, <3>2, ReleaseConstants DEF DeployStep, Check, Build, Stop, Inspect, KeepBackup,
           Up, Mark, Verify, SwitchCurrent, RecordSuccess, OnExit, ReleaseDeployLock,
           CommandFails, Kill, At, DeployPc, PreparePc
      <4>2. QED BY <2>3, <4>1, Points DEF DeployPc
    <3>3. QED BY <3>1, <3>2
  <2>6. ASSUME NEW o \in Operators, NEW r \in Releases, Deploy(o, r) \/ Prepare(o, r)
        PROVE  TreesSealed'
    <3>1. /\ UNCHANGED task[o] \/ task'[o].pc = "fetch"
          /\ \A p \in Operators \ {o} : task'[p] = task[p]
      BY <2>6 DEF Deploy, Prepare, TypeOK, IdleTask
    <3>2. SealedBefore(o)' /\ \A p \in Operators \ {o} : SealedBefore(p)'
      BY <2>2, <3>1 DEF SealedBefore, DeployPc
    <3>3. QED BY <3>2 DEF TreesSealed
  <2>7. CASE UNCHANGED task
    <3>1. \A o \in Operators : SealedBefore(o)'
      BY <2>2, <2>7
    <3>2. QED BY <3>1 DEF TreesSealed
  <2>8. QED
    <3>1. ASSUME NEW w \in Writers, Flap(w) \/ Write(w) \/ StartByHand(w) PROVE UNCHANGED task
      BY <3>1 DEF Flap, Write, StartByHand
    <3>2. CASE ClearStaleLock \/ UNCHANGED vars
      BY <2>7, <3>2 DEF ClearStaleLock, vars
    <3>3. QED BY <2>4, <2>5, <2>6, <2>7, <3>1, <3>2 DEF Next
<1>3. QED BY <1>1, <1>2

\* A deployment works from a complete, read-only tree, although preparations
\* can take each other's lock (prepare-docker-home-release.sh:64, 122-133).
THEOREM DeployedTreesAreSealed == Spec => []UsedReleaseSealed
<1>1. TreesSealed => UsedReleaseSealed
  BY DEF TreesSealed, SealedBefore, UsedReleaseSealed
<1>2. QED
  BY <1>1, TreesHold, DeploymentTypes, PTL DEF Spec
=============================================================================
