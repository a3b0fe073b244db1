---------------------------- MODULE ScanLifecycle ----------------------------
(***************************************************************************)
(* One scan run, from the request that queues it to its stored result: the *)
(* queue handler of the API (apps/api/src/server.ts), the worker           *)
(* (apps/worker/src/scan-job.ts), the plan execution it calls              *)
(* (packages/scanners), the PostgreSQL rows of the run                     *)
(* (packages/persistence) and, as external parts, the BullMQ job and the   *)
(* policy decision service.                                                *)
(*                                                                         *)
(* All rows, files and the job are keyed by the run's identifier, so one   *)
(* run is enough: other runs never touch its state. The client may choose  *)
(* the identifier, hence several requests for the same run and plan.       *)
(*                                                                         *)
(* No persistence operation is a transaction. Each is the sequence of the  *)
(* statements its actor has still to execute, one action per statement.    *)
(* A row's step inserts go with its upsert (they only add what is absent,  *)
(* so they commute with everything else), and so do the findings of one    *)
(* operation. Counters, timestamps and scan events are left out.           *)
(***************************************************************************)
EXTENDS Naturals, Sequences, FiniteSets, ReleaseGate

CONSTANTS
  Requests,       \* POST /scans/queue calls for this run
  Workers,        \* jobs the workers can execute at the same time
  Analysts,       \* triage requests that can be served at the same time
  N,              \* steps of the plan
  Outcomes,       \* step -> what executing it can yield
  Restricted,     \* steps whose network mode is restricted
  ApiExternal,    \* planUsesExternalOperation, as the API sees the plan
  WorkerExternal, \* planRequiresExternalOperation, as the worker sees it
  Sinks,          \* enabled deliveries: central telemetry, DefectDojo
  RequiredSinks,  \* the ones whose failure fails the job
  DbRequired,     \* SECURITY_PREFLIGHT_DB_REQUIRED
  MaxStalls,      \* BullMQ maxStalledCount
  Faults,         \* subset of "crash", "stall", "db", "disk", "policy", "sink"
  profile,        \* the profile and the classification the plan carries
  classification,
  None

Steps == 1..N
StepStatus == {"passed", "failed", "skipped", "blocked", "error"}
Outcome == [status: StepStatus, findings: SUBSET Finding]
Execution == [status: {"completed", "failed"}, findings: SUBSET Finding]
RunStatus == {"queued", "running", "completed", "failed"}
GateResult == {"pass", "warning", "fail", "error"}
Row == [status: RunStatus, gate: GateResult, result: Execution \cup {None}]

ASSUME ScanConstants ==
  /\ N \in Nat \ {0}
  /\ Outcomes \in [Steps -> SUBSET Outcome]
  /\ \A n \in Steps : Outcomes[n] # {}
  /\ Restricted \subseteq Steps
  /\ ApiExternal \in BOOLEAN /\ WorkerExternal \in BOOLEAN
  /\ ApiExternal \/ Restricted # {} => WorkerExternal
  /\ RequiredSinks \subseteq Sinks
  /\ DbRequired \in BOOLEAN
  /\ MaxStalls \in Nat
  /\ profile \in Profile
  /\ classification \in DataClassification
  /\ None \notin Execution \cup Row \cup FindingStatus \cup StepStatus \cup Workers
  /\ Workers \cap Requests = {}
  /\ Analysts \cap (Workers \cup Requests) = {}

Actors == Requests \cup Workers \cup Analysts

\* SQL statements, and what they carry.
Statement ==
  [do: {"plan"}, status: RunStatus]
    \cup [do: {"step"}, step: Steps, status: StepStatus]
    \cup [do: {"findings"}, findings: SUBSET Finding]
    \cup [do: {"result"}, result: Execution]
    \cup [do: {"error"}]
    \cup [do: {"audit"}, finding: FindingIds, status: FindingStatus]

Attempt == [pc: {"idle", "authorize", "scan", "report", "deliver", "send",
                 "complete", "fail"},
            next: 1..(N + 1), results: [Steps -> Outcome \cup {None}],
            sinks: SUBSET Sinks, failed: SUBSET Sinks, born: BOOLEAN]

IdleAttempt == [pc |-> "idle", next |-> 1, results |-> [n \in Steps |-> None],
                sinks |-> {}, failed |-> {}, born |-> TRUE]

VARIABLES
  job,       \* the BullMQ job of the run: state, owner of its lock, stalls
  policy,    \* the policy service allows external operations of the project
  request,   \* what each queue request has reached
  attempt,   \* the executeScanJob call of each worker slot
  todo,      \* SQL statements each actor has still to execute
  run,       \* row of security_preflight_scan_runs
  steps,     \* rows of security_preflight_scan_steps
  found,     \* security_preflight_findings: triage status by finding
  audit,     \* status in the last row of security_preflight_finding_events
  files,     \* execution-result.json and the reports of the evidence root
  sent       \* deliveries made: <<sink, policy when the attempt began>>

vars == <<job, policy, request, attempt, todo, run, steps, found, audit, files, sent>>
database == <<run, steps, found, audit>>

TypeOK ==
  /\ job \in [state: {"none", "waiting", "active", "completed", "failed"},
              owner: Workers \cup {None}, stalls: 0..(MaxStalls + 1)]
  /\ policy \in BOOLEAN
  /\ request \in [Requests -> {"idle", "approved", "queued", "done"}]
  /\ attempt \in [Workers -> Attempt]
  /\ todo \in [Actors -> Seq(Statement)]
  /\ run \in Row \cup {None}
  /\ steps \in [Steps -> StepStatus \cup {"queued", None}]
  /\ found \in [FindingIds -> FindingStatus \cup {None}]
  /\ audit \in [FindingIds -> FindingStatus \cup {None}]
  /\ files \in [execution: Execution \cup {None}, reports: Execution \cup {None}]
  /\ sent \subseteq Sinks \X BOOLEAN

Init ==
  /\ job = [state |-> "none", owner |-> None, stalls |-> 0]
  /\ policy = TRUE
  /\ request = [q \in Requests |-> "idle"]
  /\ attempt = [w \in Workers |-> IdleAttempt]
  /\ todo = [a \in Actors |-> <<>>]
  /\ run = None
  /\ steps = [n \in Steps |-> None]
  /\ found = [f \in FindingIds |-> None]
  /\ audit = [f \in FindingIds |-> None]
  /\ files = [execution |-> None, reports |-> None]
  /\ sent = {}

-----------------------------------------------------------------------------
(* Persistence: the statements and what each does to the rows               *)

GateOf(execution) == evaluateGate(execution.findings, profile, classification).result

\* Mutant: the upsert of a plan resets the status of its steps.
upsertPlanResetting(status) ==
  /\ run' = IF run = None
            THEN [status |-> status, gate |-> "warning", result |-> None]
            ELSE [run EXCEPT !.status = status]
  /\ steps' = [n \in Steps |-> "queued"]
  /\ UNCHANGED <<found, audit>>

upsertPlan(status) ==
  /\ run' = IF run = None
            THEN [status |-> status, gate |-> "warning", result |-> None]
            ELSE [run EXCEPT !.status = status]
  /\ steps' = [n \in Steps |-> IF steps[n] = None THEN "queued" ELSE steps[n]]
  /\ UNCHANGED <<found, audit>>

upsertStepResult(n, status) ==
  /\ steps' = [steps EXCEPT ![n] = status]
  /\ UNCHANGED <<run, found, audit>>

\* Mutant: a conflicting finding takes the scanner's status again.
upsertFindingsReopening(findings) ==
  /\ found' = [f \in FindingIds |->
                 IF f \in {x.id : x \in findings} THEN "open" ELSE found[f]]
  /\ UNCHANGED <<run, steps, audit>>

\* A new finding is open; one that is there keeps its triage.
upsertFindings(findings) ==
  /\ found' = [f \in FindingIds |->
                 IF found[f] = None /\ f \in {x.id : x \in findings}
                 THEN "open" ELSE found[f]]
  /\ UNCHANGED <<run, steps, audit>>

\* The update that ends recordCompletedScan.
storeResult(execution) ==
  /\ run' = IF run = None THEN None
            ELSE [status |-> execution.status, gate |-> GateOf(execution),
                  result |-> execution]
  /\ UNCHANGED <<steps, found, audit>>

\* The update that ends recordFailedScan.
storeError ==
  /\ run' = IF run = None THEN None
            ELSE [run EXCEPT !.status = "failed", !.gate = "error"]
  /\ UNCHANGED <<steps, found, audit>>

storeFindingEvent(f, status) ==
  /\ audit' = [audit EXCEPT ![f] = status]
  /\ UNCHANGED <<run, steps, found>>

Execute(s) ==
  \/ s.do = "plan" /\ upsertPlan(s.status)
  \/ s.do = "step" /\ upsertStepResult(s.step, s.status)
  \/ s.do = "findings" /\ upsertFindings(s.findings)
  \/ s.do = "result" /\ storeResult(s.result)
  \/ s.do = "error" /\ storeError
  \/ s.do = "audit" /\ storeFindingEvent(s.finding, s.status)

PlanAs(status) == <<[do |-> "plan", status |-> status]>>

recordQueuedScan == PlanAs("queued")
recordRunningScan == PlanAs("running")
recordScanStepResult(n, outcome) ==
  PlanAs("running") \o <<[do |-> "step", step |-> n, status |-> outcome.status],
                         [do |-> "findings", findings |-> outcome.findings]>>

recordCompletedScan(results, execution) ==
  PlanAs(execution.status)
    \o [n \in Steps |-> [do |-> "step", step |-> n, status |-> results[n].status]]
    \o <<[do |-> "findings", findings |-> execution.findings],
         [do |-> "result", result |-> execution]>>

recordFailedScan == PlanAs("failed") \o <<[do |-> "error"]>>

-----------------------------------------------------------------------------
(* The queue handler of the API                                             *)

\* What asking the policy service can answer; an unreachable service denies.
Decisions == {policy} \cup (IF "policy" \in Faults THEN {FALSE} ELSE {})

\* The plan is not blocked and the request is allowed to queue it.
Approve(q) ==
  /\ request[q] = "idle"
  /\ ApiExternal => TRUE \in Decisions
  /\ request' = [request EXCEPT ![q] = "approved"]
  /\ UNCHANGED <<job, policy, attempt, todo, database, files, sent>>

\* scanQueue.add: the job's identifier is the run's, and Redis ignores an
\* identifier it already holds. The row of the run is written afterwards.
Enqueue(q) ==
  /\ request[q] = "approved"
  /\ request' = [request EXCEPT ![q] = "queued"]
  /\ job' = IF job.state = "none" THEN [job EXCEPT !.state = "waiting"] ELSE job
  /\ todo' = [todo EXCEPT ![q] = recordQueuedScan]
  /\ UNCHANGED <<policy, attempt, database, files, sent>>

Answer(q) ==
  /\ request[q] = "queued"
  /\ todo[q] = <<>>
  /\ request' = [request EXCEPT ![q] = "done"]
  /\ UNCHANGED <<job, policy, attempt, todo, database, files, sent>>

\* updateFindingTriage: the update answers 404 when the finding is not there;
\* its audit event is a statement of its own.
Triage(a, f, status) ==
  /\ todo[a] = <<>>
  /\ found[f] # None
  /\ found' = [found EXCEPT ![f] = status]
  /\ todo' = [todo EXCEPT ![a] = <<[do |-> "audit", finding |-> f, status |-> status]>>]
  /\ UNCHANGED <<job, policy, request, attempt, run, steps, audit, files, sent>>

-----------------------------------------------------------------------------
(* The worker: executeScanJob between two awaits                            *)

At(w, pc) == attempt[w].pc = pc /\ todo[w] = <<>>

Go(w, next, statements) ==
  /\ attempt' = [attempt EXCEPT ![w] = next]
  /\ todo' = [todo EXCEPT ![w] = statements]

\* Mutant: a failed scan is thrown without being recorded.
ThrowUnrecorded(w) == Go(w, [attempt[w] EXCEPT !.pc = "fail"], <<>>)

\* Mutant: the scan is taken up again at the step that failed.
ThrowRetrying(w) == Go(w, [attempt[w] EXCEPT !.pc = "scan"], <<>>)

\* The catch of executeScanJob.
Throw(w) == Go(w, [attempt[w] EXCEPT !.pc = "fail"], recordFailedScan)

\* Mutant: the approval the job was queued with still counts.
TakeTrusting(w) ==
  LET new == [IdleAttempt EXCEPT !.pc = "scan", !.born = policy] IN
  /\ At(w, "idle")
  /\ job.state = "waiting"
  /\ job' = [job EXCEPT !.state = "active", !.owner = w]
  /\ Go(w, new, recordRunningScan)
  /\ UNCHANGED <<policy, request, database, files, sent>>

\* A plan that requires an external operation needs a fresh decision.
Take(w) ==
  LET new == [IdleAttempt EXCEPT !.pc = "scan", !.born = policy] IN
  /\ At(w, "idle")
  /\ job.state = "waiting"
  /\ job' = [job EXCEPT !.state = "active", !.owner = w]
  /\ IF WorkerExternal THEN Go(w, [new EXCEPT !.pc = "authorize"], <<>>)
     ELSE Go(w, new, recordRunningScan)
  /\ UNCHANGED <<policy, request, database, files, sent>>

Authorize(w) ==
  /\ At(w, "authorize")
  /\ \E allowed \in Decisions :
       IF allowed THEN Go(w, [attempt[w] EXCEPT !.pc = "scan"], recordRunningScan)
       ELSE Throw(w)
  /\ UNCHANGED <<job, policy, request, database, files, sent>>

\* executeStep, then onStepResult. Writing the step's evidence can throw.
ScanStep(w) ==
  LET n == attempt[w].next IN
  /\ At(w, "scan")
  /\ n <= N
  /\ \/ \E outcome \in Outcomes[n] :
          Go(w, [attempt[w] EXCEPT !.next = n + 1, !.results[n] = outcome],
             recordScanStepResult(n, outcome))
     \/ "disk" \in Faults /\ Throw(w)
  /\ UNCHANGED <<job, policy, request, database, files, sent>>

\* What executeScanPlan returns.
Executed(results) ==
  [status |-> IF \E n \in Steps : results[n].status \in {"error", "blocked"}
              THEN "failed" ELSE "completed",
   findings |-> UNION {results[n].findings : n \in Steps}]

WriteExecution(w) ==
  /\ At(w, "scan")
  /\ attempt[w].next > N
  /\ \/ /\ files' = [files EXCEPT !.execution = Executed(attempt[w].results)]
        /\ Go(w, [attempt[w] EXCEPT !.pc = "report"], <<>>)
     \/ "disk" \in Faults /\ Throw(w) /\ UNCHANGED files
  /\ UNCHANGED <<job, policy, request, database, sent>>

\* report.json, report.md, the central envelope and the SARIF file.
WriteReports(w) ==
  LET execution == Executed(attempt[w].results)
      next == [attempt[w] EXCEPT !.pc = "deliver", !.sinks = Sinks]
  IN
  /\ At(w, "report")
  /\ \/ /\ files' = [files EXCEPT !.reports = execution]
        /\ Go(w, next, <<>>)
     \/ "disk" \in Faults /\ Throw(w) /\ UNCHANGED files
  /\ UNCHANGED <<job, policy, request, database, sent>>

\* Each delivery asks for a decision of its own; a denial is a failed
\* delivery. A DefectDojo delivery follows the central telemetry one.
AuthorizeDelivery(w) ==
  LET t == attempt[w] IN
  /\ At(w, "deliver")
  /\ t.sinks # {}
  /\ \E sink \in t.sinks, allowed \in Decisions :
       /\ "telemetry" \in t.sinks => sink = "telemetry"
       /\ IF allowed THEN Go(w, [t EXCEPT !.pc = "send"], <<>>)
          ELSE Go(w, [t EXCEPT !.sinks = @ \ {sink}, !.failed = @ \cup {sink}], <<>>)
  /\ UNCHANGED <<job, policy, request, database, files, sent>>

\* The POST can be taken by the sink and its answer lost.
Send(w) ==
  LET t == attempt[w] IN
  /\ At(w, "send")
  /\ \E sink \in t.sinks :
       /\ "telemetry" \in t.sinks => sink = "telemetry"
       /\ \/ /\ sent' = sent \cup {<<sink, t.born>>}
             /\ Go(w, [t EXCEPT !.pc = "deliver", !.sinks = @ \ {sink}], <<>>)
          \/ /\ "sink" \in Faults
             /\ sent' \in {sent, sent \cup {<<sink, t.born>>}}
             /\ Go(w, [t EXCEPT !.pc = "deliver", !.sinks = @ \ {sink},
                                !.failed = @ \cup {sink}], <<>>)
  /\ UNCHANGED <<job, policy, request, database, files>>

\* The envelope cannot be read, or the record of a delivery written.
RecordDeliveryFails(w) ==
  /\ At(w, "deliver")
  /\ "disk" \in Faults
  /\ Throw(w)
  /\ UNCHANGED <<job, policy, request, database, files, sent>>

\* Both deliveries were tried; a required one that failed throws.
Complete(w) ==
  LET t == attempt[w] IN
  /\ At(w, "deliver")
  /\ t.sinks = {}
  /\ IF t.failed \cap RequiredSinks # {} THEN Throw(w)
     ELSE Go(w, [t EXCEPT !.pc = "complete"],
             recordCompletedScan(t.results, Executed(t.results)))
  /\ UNCHANGED <<job, policy, request, database, files, sent>>

\* The job's promise settles; BullMQ refuses it from a worker that no longer
\* holds the job's lock.
Settle(w) ==
  /\ At(w, "complete") \/ At(w, "fail")
  /\ job' = IF job.owner # w THEN job
            ELSE [job EXCEPT !.owner = None,
                    !.state = IF attempt[w].pc = "complete" THEN "completed" ELSE "failed"]
  /\ attempt' = [attempt EXCEPT ![w] = IdleAttempt]
  /\ UNCHANGED <<policy, request, todo, database, files, sent>>

-----------------------------------------------------------------------------
(* Statements, faults and the environment                                   *)

Query(a) ==
  /\ todo[a] # <<>>
  /\ Execute(Head(todo[a]))
  /\ todo' = [todo EXCEPT ![a] = Tail(@)]
  /\ UNCHANGED <<job, policy, request, attempt, files, sent>>

\* Mutant: withPersistence always swallows the error.
QueryFailsQuietly(a) ==
  /\ "db" \in Faults
  /\ todo[a] # <<>>
  /\ todo' = [todo EXCEPT ![a] = <<>>]
  /\ UNCHANGED attempt
  /\ UNCHANGED <<job, policy, request, database, files, sent>>

\* withPersistence: the rest of the operation is lost. The worker goes on
\* unless persistence is required; a failing recordFailedScan fails the job
\* all the same.
QueryFails(a) ==
  /\ "db" \in Faults
  /\ todo[a] # <<>>
  /\ IF DbRequired /\ a \in Workers /\ attempt[a].pc # "fail" THEN Throw(a)
     ELSE todo' = [todo EXCEPT ![a] = <<>>] /\ UNCHANGED attempt
  /\ UNCHANGED <<job, policy, request, database, files, sent>>

\* The process of a worker or of the API stops.
CrashWorker(w) ==
  /\ "crash" \in Faults
  /\ attempt[w].pc # "idle"
  /\ job' = IF job.owner = w THEN [job EXCEPT !.owner = None] ELSE job
  /\ Go(w, IdleAttempt, <<>>)
  /\ UNCHANGED <<policy, request, database, files, sent>>

CrashApi ==
  /\ "crash" \in Faults
  /\ \/ \E q \in Requests : request[q] \in {"approved", "queued"}
     \/ \E a \in Analysts : todo[a] # <<>>
  /\ request' = [q \in Requests |->
                   IF request[q] = "idle" THEN "idle" ELSE "done"]
  /\ todo' = [a \in Actors |-> IF a \in Workers THEN todo[a] ELSE <<>>]
  /\ UNCHANGED <<job, policy, attempt, database, files, sent>>

\* A worker that is still executing fails to renew its lock in time.
LoseLock(w) ==
  /\ "stall" \in Faults
  /\ job.owner = w
  /\ job' = [job EXCEPT !.owner = None]
  /\ UNCHANGED <<policy, request, attempt, todo, database, files, sent>>

\* BullMQ: an active job nobody holds is queued again, MaxStalls times.
Stalled ==
  /\ job.state = "active"
  /\ job.owner = None
  /\ job' = [job EXCEPT !.stalls = @ + 1,
               !.state = IF job.stalls < MaxStalls THEN "waiting" ELSE "failed"]
  /\ UNCHANGED <<policy, request, attempt, todo, database, files, sent>>

\* removeOnComplete, removeOnFail: only the last hundred jobs are kept.
Evict ==
  /\ job.state \in {"completed", "failed"}
  /\ \E q \in Requests : request[q] # "done"
  /\ job' = [state |-> "none", owner |-> None, stalls |-> 0]
  /\ UNCHANGED <<policy, request, attempt, todo, database, files, sent>>

\* An administrator withdraws the project's permission.
Revoke ==
  /\ policy
  /\ WorkerExternal \/ Sinks # {}
  /\ policy' = FALSE
  /\ UNCHANGED <<job, request, attempt, todo, database, files, sent>>

\* Everything is over: no step is left to take.
Quiet ==
  /\ job.state \in {"completed", "failed"}
  /\ \A q \in Requests : request[q] = "done"
  /\ \A w \in Workers : attempt[w].pc = "idle"
  /\ \A a \in Actors : todo[a] = <<>>

Serve(q) == Approve(q) \/ Enqueue(q) \/ Answer(q)

Work(w) ==
  \/ Take(w) \/ Authorize(w) \/ ScanStep(w) \/ WriteExecution(w)
  \/ WriteReports(w) \/ AuthorizeDelivery(w) \/ Send(w)
  \/ RecordDeliveryFails(w) \/ Complete(w) \/ Settle(w)

Next ==
  \/ \E q \in Requests : Serve(q)
  \/ \E a \in Analysts, f \in FindingIds, status \in FindingStatus : Triage(a, f, status)
  \/ \E w \in Workers : Work(w) \/ CrashWorker(w) \/ LoseLock(w)
  \/ \E a \in Actors : Query(a) \/ QueryFails(a)
  \/ CrashApi \/ Stalled \/ Evict \/ Revoke

Spec == Init /\ [][Next]_vars

\* Awaits end and BullMQ looks for stalled jobs; nobody has to send a request.
FairSpec ==
  /\ Spec
  /\ \A w \in Workers : WF_vars(Work(w))
  /\ \A a \in Actors : WF_vars(Query(a) \/ QueryFails(a))
  /\ WF_vars(Stalled)

-----------------------------------------------------------------------------
(* Properties                                                               *)

\* A step that has a result keeps one: upsertPlan, which runs before every
\* other statement of the worker and of a late recordQueuedScan, never puts
\* it back to queued. Progress counted from the steps never runs backwards.
StepResultsKept ==
  [][\A n \in Steps : steps[n] \in StepStatus => steps'[n] \in StepStatus]_vars

\* With one analyst at a time the last audit event of a finding tells its
\* triage: the worker, which stores every finding again at its step, at the
\* end and in a second attempt, leaves it alone.
TriageAudited ==
  (\A a \in Analysts : todo[a] = <<>>) =>
    \A f \in FindingIds :
      /\ audit[f] # None => audit[f] = found[f]
      /\ audit[f] = None => found[f] \in {None, "open"}

\* When persistence is required, a job BullMQ holds completed has its result
\* in the run's row, the gate of that result, and the reports of the same
\* execution, whichever statement or process failed on the way. A run that is
\* shown completed before that has its reports, too: requests made on seeing
\* it find them.
AcknowledgedIsRecorded ==
  /\ run # None /\ (run.status = "completed" \/ run.result # None) => files.reports # None
  /\ job.state = "completed" =>
       /\ run # None
       /\ run.result # None
       /\ run.result = files.reports
       /\ run.gate = GateOf(files.reports)

\* Once everything is over no run is left running, and a job its worker
\* failed has its row in error; the exception is a job BullMQ gave up on.
EndIsRecorded ==
  Quiet /\ job.stalls <= MaxStalls =>
    /\ run # None => run.status # "running"
    /\ job.state = "failed" => run # None /\ run.gate = "error"

\* A permission withdrawn before an attempt starts stops that attempt: no
\* restricted step runs and nothing is sent, whatever the queued request or
\* an earlier attempt was granted.
RevocationHolds ==
  /\ \A w \in Workers, n \in Restricted :
       ~attempt[w].born => attempt[w].results[n] = None
  /\ \A sink \in Sinks : <<sink, FALSE>> \notin sent

\* A queued job is completed or failed in the end, even if workers crash.
JobEnds == job.state = "waiting" ~> job.state \in {"completed", "failed"}
=============================================================================
