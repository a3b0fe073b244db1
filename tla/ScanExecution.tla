---------------------------- MODULE ScanExecution ----------------------------
(***************************************************************************)
(* executeScanPlan (packages/scanners/src/index.ts): the steps of a plan   *)
(* run one after the other by the worker itself or by the configured       *)
(* runner, their evidence files, and the findings the gate is given.       *)
(*                                                                         *)
(* Evidence files are named by run and check and never removed: when       *)
(* BullMQ gives a stalled job to a worker again, the second execution of   *)
(* the plan finds the files of the first. An attempt whose own writing     *)
(* fails beyond the step (ScanLifecycle) ends early and is not judged.     *)
(***************************************************************************)
EXTENDS Naturals, InternalChecks

CONSTANTS
  Profiles,        \* scan profiles
  Requests,        \* DAST policies a request can carry
  Runners,         \* "off" (SCANNER_RUNNER_ENABLED=false), "local" (direct
                   \* or docker), "remote"
  reports,         \* check -> items its scanner can report
  sights,          \* check -> what it can get to see
  classification,
  MaxAttempts      \* bound on executions of the run

StepStatus == {"passed", "failed", "skipped", "blocked", "error"}
\* How a command ended: its exit code ("none" without one), whether it was
\* stopped by its timeout, whether it wrote its evidence file.
Command == [exit: {"zero", "nonzero", "none"}, timedOut: BOOLEAN, wrote: BOOLEAN]

ASSUME ExecutionConstants ==
  /\ Profiles \subseteq ScanProfile
  /\ Requests \subseteq DastPolicy
  /\ Runners \subseteq {"off", "local", "remote"}
  /\ reports \in [Checks -> SUBSET Item]
  /\ sights \in [Checks -> SUBSET Sight]
  /\ \A c \in Checks : \A seen \in sights[c] :
       "ran" \in seen.facts => seen.report # None
  /\ classification \in DataClassification
  /\ MaxAttempts \in Nat \ {0}

VARIABLES
  profile,    \* what was asked for
  dast,
  runner,     \* how the worker is configured
  attempt,    \* executions of the run so far
  results,    \* results of the steps executed in this attempt
  evidence,   \* evidence file of each step, as the parsers read it
  contacted   \* steps whose check or command was started

vars == <<profile, dast, runner, attempt, results, evidence, contacted>>

plan == buildScanExecutionPlan(profile, dast)
Steps == DOMAIN profile.checks
Def(n) == definition[profile.checks[n]]

\* seen: what the findings were made of.
StepResult == [status: StepStatus, findings: SUBSET Finding,
               command: Command \cup {None}, seen: Sight \cup {None}]

TypeOK ==
  /\ profile \in Profiles
  /\ dast \in Requests
  /\ runner \in Runners
  /\ attempt \in 1..MaxAttempts
  /\ results \in Seq(StepResult)
  /\ Len(results) <= Len(profile.checks)
  /\ DOMAIN evidence = Steps
  /\ \A n \in Steps : evidence[n] = None \/ evidence[n] \subseteq Item
  /\ contacted \subseteq Steps

Init ==
  /\ profile \in Profiles
  /\ dast \in Requests
  /\ runner \in Runners
  /\ attempt = 1
  /\ results = <<>>
  /\ evidence = [n \in Steps |-> None]
  /\ contacted = {}

-----------------------------------------------------------------------------
(* executeStep                                                              *)

\* The finding of a step that could not do its work (scope: platform).
ExecutionFinding(n) ==
  createExecutionFinding(profile.checks[n], "execution", "high", "platform", FALSE)

Result(status, findings, command, seen) ==
  [status |-> status, findings |-> findings, command |-> command, seen |-> seen]

\* A step that came to nothing has its execution finding only.
Nothing(status, n) == Result(status, {ExecutionFinding(n)}, None, None)

\* The next step of a plan that is not blocked.
Turn(n) == /\ n \in Steps /\ n = Len(results) + 1
           /\ ~plan.blocked

Settled(result) ==
  /\ results' = Append(results, result)
  /\ UNCHANGED <<profile, dast, runner, attempt>>

\* What an internal check finds in what it sees, and what is taken of that.
Discovered(n, seen) ==
  runInternalCheck(profile.checks[n], seen, plan.target, classification)
Answers(n, seen) == Taken(profile.checks[n], Discovered(n, seen))

RunInternal(n) ==
  /\ Turn(n)
  /\ Def(n).tool = "probe"
  /\ contacted' = contacted \cup {n}
  /\ \E seen \in sights[profile.checks[n]] : \E findings \in Answers(n, seen) :
       Settled(Result(IF findings = {} THEN "passed" ELSE "failed", findings,
                      None, seen))
  /\ UNCHANGED evidence

SkipExternal(n) ==
  /\ Turn(n)
  /\ Def(n).tool # "probe"
  /\ runner = "off"
  /\ Settled(Nothing("skipped", n))
  /\ UNCHANGED <<evidence, contacted>>

\* A local command that exits zero counts as ended in time, even when it was
\* the timeout's signal that made it exit. The remote service can say anything
\* but times out before it wrote; it is asked of web tools only.
Endings(n) ==
  IF runner = "local" THEN {c \in Command : c.timedOut => c.exit # "zero"}
  ELSE IF Def(n).tool = "web"
       THEN {c \in Command : ~(c.exit = "none" /\ c.timedOut /\ c.wrote)}
       ELSE {[exit |-> "none", timedOut |-> FALSE, wrote |-> FALSE]}

\* What starting the check or the command of a step reaches.
Started(n) ==
  IF Def(n).tool \in {"probe", "web"} \/ runner = "local" THEN {n} ELSE {}

\* The evidence files a command may leave behind (None: not readable).
Files(n) == (SUBSET reports[profile.checks[n]]) \cup {None}

\* The evidence file is read first, the command's output only without one.
Read(file, output) ==
  [facts |-> {}, days |-> None, report |-> IF file # None THEN file ELSE output]

\* Mutant: a timeout is judged by the exit code alone.
OutcomeByExit(n, command, seen) ==
  LET parsed == parseExternalFindings(profile.checks[n], seen.report)
      gap == IF command.exit # "zero" /\ parsed = {}
             THEN {ExecutionFinding(n)} ELSE {}
      all == parsed \cup gap
  IN Result(IF command.exit # "zero" \/ all # {} THEN "failed" ELSE "passed",
            all, command, seen)

\* A timeout, or a failure nothing was parsed from, is a finding of its own.
Outcome(n, command, seen) ==
  LET parsed == parseExternalFindings(profile.checks[n], seen.report)
      gap == IF command.timedOut \/ (command.exit # "zero" /\ parsed = {})
             THEN {ExecutionFinding(n)} ELSE {}
      all == parsed \cup gap
  IN Result(IF command.timedOut \/ command.exit # "zero" \/ all # {}
            THEN "failed" ELSE "passed", all, command, seen)

RunExternal(n) ==
  /\ Turn(n)
  /\ Def(n).tool # "probe"
  /\ runner # "off"
  /\ contacted' = contacted \cup Started(n)
  /\ \E command \in Endings(n), output \in SUBSET reports[profile.checks[n]] :
     \E file \in IF command.wrote THEN Files(n) ELSE {evidence[n]} :
       /\ evidence' = [evidence EXCEPT ![n] = file]
       /\ Settled(Outcome(n, command, Read(file, output)))

\* The command of a step is broken off: by the worker's end, or by an
\* exception in what follows it.
BrokenOff(n) ==
  /\ Turn(n)
  /\ \/ UNCHANGED <<contacted, evidence>>
     \/ /\ Def(n).tool = "probe" \/ runner # "off"
        /\ contacted' = contacted \cup Started(n)
        /\ \/ UNCHANGED evidence
           \/ /\ Def(n).tool # "probe" /\ Started(n) # {}
              /\ \E file \in Files(n) : evidence' = [evidence EXCEPT ![n] = file]

\* Something throws (the check, a file written on the way): what the step
\* found is lost.
StepThrows(n) ==
  /\ BrokenOff(n)
  /\ Settled(Nothing("error", n))

\* A blocked plan: every step is reported and none is started.
ExecuteBlocked ==
  /\ plan.blocked
  /\ results = <<>>
  /\ results' = [n \in Steps |->
                   IF plan.steps[n].blockedReasons # {}
                   THEN Nothing("blocked", n) ELSE Result("skipped", {}, None, None)]
  /\ UNCHANGED <<profile, dast, runner, attempt, evidence, contacted>>

Again ==
  /\ attempt < MaxAttempts
  /\ attempt' = attempt + 1
  /\ results' = <<>>
  /\ UNCHANGED <<profile, dast, runner>>

\* The worker stops in the middle of a step, or between two, or at the end;
\* another one executes the plan over the files that are there.
Interrupt(n) == BrokenOff(n) /\ Again
Repeat == results # <<>> /\ Again /\ UNCHANGED <<evidence, contacted>>

Next ==
  \/ \E n \in Steps :
       \/ RunInternal(n) \/ SkipExternal(n) \/ RunExternal(n)
       \/ StepThrows(n) \/ Interrupt(n)
  \/ ExecuteBlocked
  \/ Repeat

Spec == Init /\ [][Next]_vars

Done == Len(results) = Len(profile.checks)
findings == UNION {results[n].findings : n \in DOMAIN results}
gate == evaluateGate(findings, plan.gate, classification).result

-----------------------------------------------------------------------------
(* Properties                                                               *)

\* A step that does active scanning is started only when profile and request
\* both opted in, for an http target without credentials on a host the
\* request (or the default list) admits, and for a production host only when
\* allowed; and no step of a blocked plan is started, blocked or not.
GuardrailsHold ==
  /\ contacted # {} => ~plan.blocked
  /\ \A n \in contacted : Def(n).activeDast =>
       /\ profile.allowActiveDast /\ dast.allowActiveScan
       /\ plan.target # None
       /\ plan.target.protocol # "other" /\ ~plan.target.credentials
       /\ \E p \in IF dast.allowedHosts \subseteq {Blank} THEN DefaultHosts
                   ELSE dast.allowedHosts \ {Blank} :
            \/ plan.target.host = p.host /\ ~p.wildcard
            \/ /\ p.wildcard
               /\ \E i \in 2..Len(plan.target.host) :
                    p.host = SubSeq(plan.target.host, i, Len(plan.target.host))
       /\ ProductionLike(plan.target.host) =>
            profile.allowProductionTargets \/ dast.allowProductionTargets

\* A step that reaches the network belongs to a plan for which the worker
\* asks for a decision, an active one to a plan for which the API asked too.
NetworkNeedsDecision ==
  \A n \in contacted :
    /\ Def(n).needsNetwork => planRequiresExternalOperation(plan)
    /\ Def(n).activeDast => planUsesExternalOperation(plan)

\* A skipped, blocked, failing or timed out step, or a command that failed
\* and left nothing to parse, keeps the scan from passing, whatever the
\* other steps and the earlier attempts found.
UnrunIsNoPass ==
  Done /\ gate = "pass" => \A n \in Steps :
    LET r == results[n] IN
    /\ r.status \in {"passed", "failed"}
    /\ r.command # None => /\ ~r.command.timedOut
                           /\ r.command.exit # "zero" => r.findings # {}

\* What a scanner calls minor by itself.
MinorRating == {"low", "info", "informational", "passed", "0", "1"}
MajorRating == Word \ (MinorRating \cup {"2", "3", "other"})

\* An item that may be passed over: it is called minor, scored below 4.0 or
\* no failed rule. Only Greenbone's are minor without a threat, too.
Minor(i, runs) ==
  \/ i.rating \in MinorRating
  \/ i.score # None /\ i.score < 40
  \/ runs = "openscap" /\ i.result \notin {"fail", "error"}
  \/ runs = "greenbone" /\ i.rating \notin MajorRating

\* Whatever a scan passes over has been called minor by its scanner: an item
\* without a rating, or with one nobody knows, keeps it from passing, in every
\* report that is parsed and was not cut.
OnlyMinorPasses ==
  Done /\ gate = "pass" => \A n \in Steps :
    LET seen == results[n].seen IN
    /\ \/ Def(n).tool \in {"source", "web"}
       \/ Def(n).tool = "probe" /\ Def(n).runs \in Imports
    /\ seen # None /\ seen.report # None
    /\ Def(n).tool = "probe" => Uncut(profile.checks[n], Discovered(n, seen))
    => \A i \in seen.report : Minor(i, Def(n).runs)

\* What an internal check has to see, by the case it is: one of these facts.
Essential ==
  [openapi |-> {"openapi"}, errors |-> {"openapi"}, operation |-> {"openapi"},
   runtime |-> {"openapi"}, env |-> {"envExample"}, headers |-> {"response"},
   certificate |-> {"inspected"}, tls |-> {"tls12", "tls13"},
   vps |-> {"configured"}, dojo |-> {"configured"}]

Blind(n, seen) ==
  LET runs == Def(n).runs IN
  \/ runs \in DOMAIN Essential /\ Essential[runs] \cap seen.facts = {}
  \/ /\ runs = "dns" /\ "address" \notin seen.facts
     /\ ~(plan.target # None /\ plan.target.host \in LocalHosts)
  \/ runs \in Imports /\ seen.report = None

\* A scan does not pass with a check of the worker's own that saw nothing of
\* what it is about: a target that does not answer, a contract that cannot be
\* read, a service or report that is not there. (The probes of endpoints,
\* ports and the runtime take silence for a good sign, and that for a WAF makes
\* a low finding of it.)
BlindIsNoPass ==
  Done /\ gate = "pass" => \A n \in Steps :
    Def(n).tool = "probe" => results[n].seen # None /\ ~Blind(n, results[n].seen)

\* A scanner that never came to an exit code is no pass.
FailureIsNoPass ==
  Done /\ gate = "pass" => \A n \in Steps :
    results[n].command # None => results[n].command.exit # "none"
=============================================================================
