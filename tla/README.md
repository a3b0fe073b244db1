# Security Preflight: a TLA+ model

This directory models Security Preflight, a service that scans the projects of
an organisation before release: an API (Fastify) keeps the project registry
and queues scans, workers (BullMQ) execute them, a gate decides `pass`,
`warning` or `fail`, PostgreSQL and report files keep the outcome, and central
STRATOS services own scopes, policies and telemetry. Every definition is
translated from the TypeScript source; `PROJECT.json` maps it to its lines.

## 1. Inventory

| Component | State | Operations | Interacts with |
|---|---|---|---|
| Project registry (`apps/api/src/projects.ts`) | `projects.json`, temporary files, the copy of the list each request carries | list (with binding migration and auto-discovery), get, create, update, delete, compensation | Scope and Policy Registry by HTTP, each call with a timeout; the file system |
| Scope and Policy clients (`scope-registry.ts`, `policy-registry.ts`) | none here; centrally the active scopes and the registered bindings | activate, deactivate, register | called by the registry |
| Scan plan (`packages/scanners`, first half) | none | build a plan, judge the DAST guardrails | API builds it, the worker executes it |
| Plan execution (`packages/scanners`, second half) | evidence files of the run | run the steps one by one, by the worker, a local command or a remote service | worker; scanners; remote runner |
| Release gate (`packages/core`) | none | `evaluateGate` | plan execution |
| Queue handler (`apps/api/src/server.ts`) | BullMQ job, run row | queue, progress, triage | Redis, PostgreSQL, policy service |
| Worker (`apps/worker/src`) | the attempt in memory, reports | execute a job: decide, scan, report, deliver, record | BullMQ, PostgreSQL, sinks, policy service |
| Persistence (`packages/persistence`) | rows of runs, steps, findings, audit events | record queued / running / step / completed / failed, triage | API and worker |
| Access governance (`auth.ts`, `governance.ts`, the hooks and enforce functions of `server.ts`) | the key cache; per request identity, projection and decisions | verify a token, fetch keys, project access, decide locally or centrally, filter a list, readiness and capability audit | identity provider, STRATOS, every route |
| AKB bridge (`akb.ts`) | none | ask a question about a run | access governance, the AKB service |
| Web console (`page.tsx`, `oidc.ts`) | local and session storage of the tab, the state of the page, the functions that await an answer | sign in and out, load, register, queue, poll, triage, export, ask | API, identity provider |
| Reports and exports (`packages/report`, `report-export.ts`) | none | render | API, worker |
| Command line | none | one request | API |
| Release scripts (`scripts/*.sh`) | release trees, lock directories, `current` link, `runtime-sha`, records, backups | prepare, deploy, back up, verify | Docker, git, the operator |

What is hard, and what makes each part correct:

- **Project registry.** No lock covers a handler; it reads the list once, awaits
  central calls and writes the whole list back. Calls time out and are applied
  later; the process stops anywhere; temporary files can share a name. Correct:
  directories are unique, a binding belongs to the project's classification and
  is known centrally, scopes and list agree when nothing is under way, requests
  that do not overlap do what the catalogue says, every request ends.
- **Guardrails and plan.** Two opt-ins, host lists with wildcards and blank
  entries, production names, and two separate lists that decide whether a plan
  reaches outside. Correct: nothing active runs against a target that was not
  admitted; nothing reaches the network without a decision.
- **Plan execution.** Missing tools, timeouts, partial and stale evidence,
  exceptions, a second attempt; a dozen formats of reports with ratings of their
  own, and checks that have to tell silence from a good answer. Correct: what
  was not done or not seen is never a pass, and nothing is left aside that its
  scanner did not call minor.
- **Gate.** Thresholds, scopes and closed findings. Correct: a gap neither
  passes nor hides a failure, the threshold is met exactly, only the project
  fails itself, more evidence never helps.
- **Scan lifecycle.** API and worker write the same rows without transactions;
  statements fail and are swallowed; jobs stall and run twice at once; analysts
  triage meanwhile; permissions are withdrawn. Correct: a completed job has its
  result, gate and reports; steps and triage are never lost; no run is left
  running; a withdrawn permission stops the next attempt.
- **Access governance.** Who decides is spread over a hook before the handler,
  the handlers, and a second question of the queue; configuration is read from
  the environment in several places; the key cache is shared by requests whose
  fetches overlap a rotation; a list is decided item by item while the decision
  point fails. Correct: no effect without a decision about exactly that effect;
  a list is exact or an error; nothing leaves without a PAP label; a withdrawn
  key dies with the cache; what is reported ready works.
- **Web console.** Every function of the page works with the token and the
  state of the render it was started in, and meets another page when its answer
  comes; sign-in is an effect of four pieces of state; a run is polled a
  bounded number of times. Correct: a closed workspace stays empty, sessions do
  not mix, a sign-in that is wanted is started, what the page says of a run is
  true and is followed to its end.
- **Release scripts.** Every command can fail and leads to an exit trap; traps
  do not run on a kill; a start can half succeed; locks are directories that
  outlive their holder or are removed by another one; there is no rollback,
  only forward fixes. Correct: a release starts only on data that is in a
  backup, no deployment takes production behind a release that worked on the
  data, the markers tell the next deployment the truth unless one was lost, an
  outage is recorded, and what is deployed is a complete read-only tree.

`PROJECT.json` lists every hazard at its line, with the property that covers
it or the reason why none does.

## 2. Modules

| Module | Models | Notes |
|---|---|---|
| `ProjectRegistry` | the registry with both central services | one action per stretch of code between two awaits |
| `ProjectCatalog` | what the registry promises its callers | abstract: each commit is one request applied to the current list |
| `ProjectRegistryProofs` | theorems about the registry | |
| `ReleaseGate` | `evaluateGate`, as operators | used by `GateEvidence`, `ScanExecution` and `ScanLifecycle` |
| `GateEvidence` | findings arriving one by one | the gate is evaluated after each, which the code does once at the end |
| `GateEvidenceProofs` | theorems about the gate | |
| `ScanPlan` | guardrails, plan, and what API and worker conclude from it | operators |
| `ScannerReports` | what the parsers make of the reports of scanners | operators; extends `ScanPlan` |
| `InternalChecks` | the checks the worker does itself | operators; extends `ScannerReports` |
| `ScanExecution` | `executeScanPlan` with its runners and evidence, several attempts | extends `InternalChecks` |
| `ScanExecutionProofs` | theorems about plan and execution | |
| `ScanLifecycle` | one run: request, job, worker, statements, files, deliveries, triage | one action per statement and per await of the worker |
| `ScanLifecycleProofs` | theorems about the lifecycle | |
| `InformationPolicy` | the decisions of `governance.ts`: projection, scope test, local table, what is accepted of a central answer | operators |
| `AccessGovernance` | requests on their way through hook, handler, decision point and AKB, with the key cache; readiness and the capability audit | extends `InformationPolicy`; one action per await |
| `AccessGovernanceProofs` | theorems about what access lets happen | |
| `AccessAnswersProofs` | theorems about what it answers: lists, keys, readiness, and the types | |
| `WebConsole` | the tab, the asynchronous functions of the page and the runs they watch | a step is the code between two awaits with the effects of React it sets off |
| `WebConsoleProofs` | theorems about the page | |
| `ReleaseDeployment` | the deploy script with the prepare, backup and verify scripts and their library, containers, data and the operator | one action between two points at which a lock, a marker, a tree, a container or the data changes |
| `ReleaseDeploymentProofs` | theorems about deployments | |
| `MC*` | instances for TLC | constants only |

How state corresponds to code:

- `ProjectRegistry`: `file` is `projects.json`; `temps` the files
  `projects.json.<pid>.<ms>.tmp`, of which only the time stamp matters in one
  process; `task[h]` the local variables of a handler (`work` is its `projects`
  array, `undo` its `newProjectScopes`); compensation is nested as in the code:
  `UndoOwn` is that of `registerNewProjectGovernance` for the project at hand,
  `Abandon` and `Rollback` that of its caller for the earlier ones, and `Named`
  says which projects the one error that is left names. `flagged` and `unnamed`
  are the projects an answer told the operator to reconcile, by name and
  without; `scopes` and `bindings` what the central
  services hold; `inflight` the PUTs whose caller gave up. A central call and
  its answer are one step; a lost answer leaves the call in `inflight`.
- `ScanExecution`: a step is its check; a command is its exit code, timeout
  flag and whether it wrote its evidence file. A scanner reports any subset of
  the items the instance gives it (`reports`), an item being what its parser
  rates it by; an internal check sees one of the instance's `sights`, a set of
  facts, the days left of a certificate and an imported report. What findings
  that makes is the parsers' and checks' (`parseExternalFindings`,
  `runInternalCheck`), and `seen` keeps it beside the result, for the
  properties. `evidence` keeps files across attempts because the code never
  removes them. Checks that differ in a list of paths, words or operations
  share a definition; `CheckDefinition.runs` says which case of the code a
  check is.
- `ScanLifecycle`: `todo[a]` is the rest of the persistence operation actor `a`
  is in; `run`, `steps`, `found`, `audit` are the rows; `job` what the code
  relies on of BullMQ (identifier, lock, stalled check, removal of old jobs).
  The outcome of a step is a choice from `Outcomes`: `ScanExecution` says which
  outcomes there are and `ScanLifecycle` what becomes of them.
- `AccessGovernance`: `req[r]` holds what one request keeps in its closures and
  its Fastify context: `phase` is where it awaits, `stage` whether the hook,
  the handler or the filter of a list asks, `queries` the decisions still to be
  asked for, `heard` those it got. The filter of a list takes the projects one
  by one, as the loop of the code does: a project out of scope is left out
  without a question (`LeaveOut`), any other is asked for (`ItemQuery`) and
  shown or left out by the answer (`Shown`). `jwksCache` is the module variable
  of `auth.ts`; `published` and `turned` are the identity provider's keys and
  when each was last added or withdrawn; `config` is the environment, read once
  per behaviour because it does not change in a process. A token is the key
  that signed it, and its verification the membership of that key.
- `WebConsole`: `web` is the tab: what local and session storage hold and the
  React state that the functions read. `tasks` is the bag of calls under way,
  each with the token of its render, which is why a late answer can be one of
  another session. `api` is what the API knows of tokens and runs; how a run
  gets on is `ScanLifecycle`'s, here it only moves from queued over running to
  ended. `setting` says how API and web build are configured and what may
  happen, and `left` how often. `web.leaving` counts the sign-ins that were
  started, by the effect or by the button; each leads to the identity provider
  (`startOidcLogin`) or is rejected (`startOidcLoginFails`), which changes no
  state the effect depends on and is kept in `web.failed`. The effect runs when
  such state changes, the language among it (`changeLocale`). The effects of
  React run to their end in every step (`Commit`), as they do before the next
  answer is handled.
- `ReleaseDeployment`: `task[o]` is the command operator `o` runs, with its
  place in the scripts and the shell variables `OLD_WRITER_IDS`,
  `WRITERS_STOPPED`, `START_ATTEMPTED`; `dump` is the backup it takes.
  `locked` and `preparing` are the lock directories, `tree` the mode and
  completeness of each release directory (`nested`: a stage was moved into it),
  `runtimeSha`, `current` and `record` the files of those names. `data` says
  how often the stores changed and which newest release changed them, which no
  script can see: it is what backups and markers are judged by, and `unmarked`
  which releases may have worked on it without the marker they should have left.
  `Damaged` is a `runtime-sha` that holds no commit. A failing command ends in
  the exit trap; a write that fails in the trap is passed over (`MarkAtExit`,
  `RecordAtExit`). Releases are
  commits, `IsAncestor` is `git merge-base --is-ancestor`. What the operator
  does by hand (`ClearStaleLock`, `StartByHand`) is what `docs/runbook.md` and
  `docs/operations.md` allow.

## 3. Runs

| Run | Question | Bounds |
|---|---|---|
| `ProjectRegistry_serial` | Without overlap: does the registry implement the catalogue, do list and scopes agree, does everything end? | 1 handler, 2 projects, 2 directories, 2 classes, 2 discovered directories; refused calls, failing disk |
| `ProjectRegistry_contention` | Can a stored binding be wrong? | 2 handlers, 1 project, 2 classes; refused, late and lost calls, disk, crash |
| `ProjectRegistry_overlap` | Can two projects share a directory? | 2 handlers, 2 projects, 2 directories, 1 file name, disk, crash |
| `GateEvidence_all` | What can findings do to the gate? | 2 findings of all kinds, in either order, all profiles and classifications |
| `ScanExecution_all` | Guardrails, decisions, gaps, and what a pass may leave aside | 13 checks in 11 plans, opt-ins, 3 host lists, targets with at most one objection besides the host, 3 runners, 2 attempts; 1 or 2 items a scanner, up to 17 sights a check, 1 item taken of an import |
| `ScanExecution_no_exit` | finding: a scanner without exit code can pass | 1 plan |
| `ScanLifecycle_required` | Is a completed job recorded? | required database, 2 requests, 1 worker slot, 2 steps, crashes, failing statements and disk |
| `ScanLifecycle_settles` | Does every job end, recorded, and does a withdrawn permission stop it? | 1 worker slot, 2 steps, 2 sinks, crashes, disk, sink and decision failures |
| `ScanLifecycle_triage` | Does triage survive two workers on one run? | 2 worker slots, 1 analyst, lost lock |
| `AccessGovernance_all` | Is every effect decided, every list exact, every key recent, every ready row true? | 7 configurations, 2 requests (one for any route, one that creates a project), 2 projects, 1 key, 4 projections, 3 answers, 3 bindings, outages; `CacheLife = MaxTime = 1` |
| `WebConsole_all` | Does the page keep sessions apart, stay closed, sign in, and follow runs? | 4 users (visitor, operator, watcher, developer), 1 issued and 1 pasted token, 2 runs, 2 polls, up to 2 clicks, 2 loads and 1 change of a token; the visitor's sign-ins may fail to start |
| `ReleaseDeployment_all` | Backups, markers, records and trees under failures and overlap | 2 operators, 3 releases in a line, 3 commands, 1 change of the data; the middle release runs at the beginning, with or without markers; failing commands, partial starts, lost writes of the exit trap, flapping writers, kills at 4 points |

Why the bounds are enough: handlers and workers interact only through the
shared list, rows and files, each of which has one writer per step, so two of
them give every pairwise race. Two projects and two directories are what a
conflict needs; a third adds a bystander. `MaxStalls = 1` and `MaxAttempts = 2`
are BullMQ's default, which the code does not change. Two findings suffice for
the gate because each of its conditions is about one finding or the existence
of one; beyond that the theorems hold for any number. One key is published and
withdrawn, which is all that the cache can be wrong about, and two requests
give two fetches under way at once; a cache of one tick separates an entry that
lives from one that is over. The seven configurations are the complete
production one and six that each lack what one decision looks at. The four
users of the page divide what happens so that each part stays small: sessions,
scans, a scan under faults, and every control. Two polls are one that is not
the last and the last, two runs an old and a new one. Three releases are the
one that runs at the beginning, one before and one after it, so that a
deployment can go forward, be repeated or go back; three commands are a failed
deployment, its retry and a preparation beside them. One change of the data
separates a backup from the data. A kill leaves what is on the host and nothing
else, so the four points differ in that: an unsealed tree with a lock, one
writer of two stopped, a start without its marker, a marker ahead of the link.
The theorems allow a kill at any point, and hold for any number of each and for
branching ancestry.

Deadlock is not checked where a run or a scan ends (`ScanLifecycle`,
`ScanExecution`, `GateEvidence`) or the bounded commands and clicks are used up
(`ReleaseDeployment`, `WebConsole`); `ProjectRegistry` and `AccessGovernance`
always accept requests and are checked for deadlock.

**Fairness.** `ProjectRegistry!FairSpec` is weak fairness of each handler's
next step: every central call carries an abort signal and the file system
answers. `ScanLifecycle!FairSpec` is weak fairness of each worker slot, of
pending statements (done or failed) and of BullMQ's stalled check, which runs
on a timer. `WebConsole!FairSpec` is weak fairness of some answer arriving and
of the workers getting on: `fetch` settles and a timer fires, in no particular
order, so a single call may be overtaken by others. No request, fault or
decision is fair: clients owe nothing. A worker may crash again and again; that
jobs end all the same rests on the bound BullMQ puts on stalls.

## 4. What was found

A scanner without an exit code whose output or earlier evidence contains an
informational finding gets no tooling finding, and the gate passes
(`scanners/src/index.ts:1180`, against `docs/operations.md:88`): the run
`ScanExecution_no_exit` expects this violation.

Weaknesses that are no disagreement of this kind, or that no property can
state, are in the list of hazards. They were met while modelling and the models
leave them in; the properties are stated so that they do not hide them:

- a scope activation that timed out and is applied later stays active: the
  compensation list is filled only after the call returned (`projects.ts:411`);
- lost updates of the project list; a listing that overlaps a deletion and
  activates the scope again before the deletion is committed
  (`projects.ts:220`);
- the API writes the `queued` row after it added the job; with a fast worker it
  overwrites the finished status (`server.ts:1013`);
- a run left `running` after a second stall; a row shown completed before its
  gate is written;
- a compensation that fails at both levels of a listing: the error of the outer
  level keeps only the name and code of the inner one (`projects.ts:449`,
  `454-464`), so the answer is `PROJECT_GOVERNANCE_RECONCILIATION_REQUIRED` but
  does not say that the project whose binding failed has to be reconciled,
  without which the recovery of `docs/runbook.md:160-165` has nothing to compare
  for it. `ScopesAgree` excepts such projects as `unnamed`;
- two ways to lose a marker. A kill between the start of a release and the
  write of `runtime-sha`, where no trap runs
  (`deploy-docker-home-release.sh:247`); and a trap whose own write fails, under
  `set +e`, for instance on the full disk that failed the write before it
  (`:85-88`): the deployment is recorded as failed, the lock is freed and
  `runtime-sha` is the old one, against `docs/runbook.md:88-89`, or holds no
  commit, so that every later deployment is refused. In both cases, and on a
  host that has no markers yet, where nothing is compared (`:125-129`), a later
  deployment can go back behind the data. `RuntimeCoversData` says that these
  are the only ones, and `ForwardOnly` excepts the data of such a release;
- a sign-in that fails to start (`page.tsx:1654`): no storage, no digest in an
  insecure context, an issuer that is no URL. The page stays without a session
  and starts none by itself until session or language change, which
  `docs/security.md:27-31` does not mention; the button's own attempt fails
  without a message (`page.tsx:1958`). `SignInFollows` excepts it;
- a forward fix that is refused because the writers of the failed release do
  not stay up (`deploy-docker-home-release.sh:214`, against the recovery
  `docs/operations.md:272` describes);
- a deployment recorded as failed after the link was switched, when only its
  last record could not be written (`deploy-docker-home-release.sh:258`);
- a preparation that does not get the lock removes it, so that a third one
  enters and one tree is moved into another
  (`prepare-docker-home-release.sh:64`); a deployment still uses a complete
  tree, which `UsedReleaseSealed` shows.

Of the checks and parsers:

- the profile `stratos-policy-conformance` (`core/src/index.ts:458`) can never
  run: `internalCheckTypes` lacks its `policy:*` checks, so every plan of it is
  blocked, although `runInternalCheck` implements them; `sbom` and `secrets`
  as internal checks have no executor, so that a plan with one never passes;
- an OSV vulnerability that has only a CVSS vector is always `medium`;
- of an imported Greenbone or OpenSCAP report the first 250 findings are taken,
  whatever the others are: `OnlyMinorPasses` speaks of reports that are not cut;
- a Greenbone result without a score and with a threat nobody knows is dropped
  as informational, where every other parser makes it `medium`;
- the probes of endpoints, ports and the runtime take a target that does not
  answer for a good one; `BlindIsNoPass` lists the checks that do not.

Of access and the page, which no property contradicts because each is
written around them:

- an unknown or explicitly disabled `SECURITY_PREFLIGHT_AUTH_MODE` serves
  without identity in production, too (`auth.ts:290`), which ADR 0004 says only
  of an explicit `shared-token`;
- the page opens the detail of a run, or the rest of a listing after one of its
  parts failed, without listening to a 401 or 403 (`page.tsx:2462`);
- the refresh buttons of the runs and of AKB do not wait for a session
  (`page.tsx:2782`, `3826`): pressed during the exchange of a code, their 401
  ends the session that begins. `SessionsDoNotMix` names both exceptions;
- answers that were under way at a sign-out still fill the page, and a 401 that
  arrives after a 403 opens the closed page and starts a sign-in; an
  unanswered `/auth/status` is never asked for again.

## 5. What is proved

For every value of the constants, under the named assumptions of the modules
(`RegistryConstants`, `GateConstants`, `PlanConstants`, `ExecutionConstants`,
`ScanConstants`, `GovernanceConstants`, `DecisionConstants`, `WebConstants`,
`ReleaseConstants`), which TLC evaluates in the runs:

- **Registry** (`ProjectRegistryProofs`): types,
  `BindingMatchesClassification`, `StoredBindingsRegistered`. A handler carries
  its copy of the list across awaits and a temporary file may still become the
  list, so the invariant about `projects.json` is not inductive: `IInv` states
  it of every copy and every temporary file, and what each phase of a handler
  relies on. Three theorems have a hypothesis, each the line beyond which the
  code itself does not keep the promise: `DirectoriesStayApart` (`UniquePaths`)
  needs `Candidates = {}`, no directory to discover, because auto-discovery
  takes over a directory without the check (`projects.ts:338`); with several
  handlers, a crash and late calls it then holds for every number of them,
  because each copy of the list is `Spaced` and an addition looks for the
  directory in the copy it extends (`Spread`). `SerialScopesAgree`
  (`ScopesAgree`) needs `Serial`: one handler, no timeout, no crash. Overlap, a
  late activation and a kill between the central calls and the commit each
  refute it, which is why the compensation list is worth a proof: `InOrder`
  says for every phase which scopes differ from the list, and that the
  compensation lists of the two levels (`undo`, and the project at hand in
  `undoOwn`) or the failures they had (`failed`, `own`) hold exactly those.
  What is promised is that the operator is told; that the answer names the
  project, only when one level failed. `SerialImplements` shows the refinement
  `ImplementsCatalog` step by step, under `Serial` and `Distinct` (no two
  directories with one identifier, which discovery would enter under the same
  name): a commit is one request applied to the list (`CommitRefines`) because
  the only handler's copy is still the list (`Copies`); every other step leaves
  the list alone.
- **Gate** (`GateEvidenceProofs`): the four properties of `GateEvidence`. All
  rest on `Verdict` (the three outcomes in their order), on `Monotone` (more
  findings never improve the result) and on `ThresholdCovered`.
- **Plan and execution** (`ScanExecutionProofs`): types, `GuardrailsHold`,
  `NetworkNeedsDecision`, `UnrunIsNoPass`, `OnlyMinorPasses`, `BlindIsNoPass`.
  `IInv` adds that whatever was started belongs to a plan that is not blocked,
  that every result can be relied on unless a readiness gap is among the
  findings, and that a result tells what was seen (`Tells`). `StrictSuffix`
  shows, for any host, that a wildcard admits only hosts with something before
  its domain. `ParsedMinor` and `ImportedMinor` show of each parser, for any
  report, that an item of which nothing `Severe` is made is minor by its own
  words; `UnseenIsSevere` shows of each check that having seen nothing is
  `Severe`, and is not cut; `SevereIsNoPass` that the gate passes neither,
  under any profile.
- **Lifecycle** (`ScanLifecycleProofs`): types, `StepResultsKept`,
  `RevocationHolds`, and under a named condition `TriageAudited`,
  `AcknowledgedIsRecorded` and `EndIsRecorded`. A persistence operation is a
  list of statements, so the type invariant is not inductive: `Coherent` says
  which statements an attempt can still owe at each place of `executeScanJob`,
  and `Base` adds that a job somebody holds is active. On it rest `Guarded` (an
  attempt that began after the withdrawal has failed or is before a decision it
  cannot get: the worker's first, or without external steps that of a
  delivery), `Traced` (a finding's triage is in its last event or in the
  statement that is due), and `Acknowledged`: while one attempt at a time holds
  the job, its last statement carries what its reports say, or the row does.
  `EndIsRecorded` rests on `Recording`: a run whose job is over is finished in
  its row, or its finishing statement is still owed by the attempt that ended
  it. The conditions are `Calm` (no lost lock and no failing statement: a
  second stall leaves the row `running`, a failing statement without a required
  database is passed over), `OneAnalyst` (one analyst, no fault that loses the
  event: two of them may store events in the other order) and `Durable`
  (persistence required, and no worker that loses the lock of a job it still
  executes: with two of them the row and the reports may be of different
  attempts).
- **Access** (`AccessGovernanceProofs`): `EffectsAreDecided`, `OutwardHasPap`,
  `LocalAllowsOnlyLocally`. The invariant is `Sound` of each request, because
  requests share only the key cache: where it is (`Staged`), who asks
  (`Identified`), who decided what (`Judged`), which of the route's demands was
  allowed, is asked for or is still the handler's to ask (`Owed`), and under
  which label it goes out (`Labelled`). `Owed` is what makes the split between
  hook, handler and the queue's second question add up.
- **Answers** (`AccessAnswersProofs`): types, `ReadyIsConfigured`,
  `KeysAreRecent` and `ListsAreExact`, for any configuration, number of
  requests, projects and keys. `Told` says what a request was told by the
  service it waits for; `KeysKnown`, that the keys a fetch brings and the cache
  keeps are those published at the time of the fetch (`Snapshot`), so that a
  verdict is right as of a time the request chose itself or less than
  `CacheLife` before it; `Listed`, that each project of a list is still to come
  or was shown or left out by its own answer, so that the finished list is
  exactly the one the caller may see.
- **Page** (`WebConsoleProofs`): types, `DeniedShowsNothing`, `SignInFollows`,
  `SessionsDoNotMix` and `FinishedStays`, for any bag of functions under way.
  `ConsoleInvariant` follows the page through every operator of a step up to
  `Commit`: `Clean` is kept by all that a late answer may do, and `Settled`
  says that no piece of state `SignInWanted` reads changes unseen by the effect
  that starts the sign-in: it is on its way, or it failed to start since that
  state last changed. For the sessions, `Sound` says of each function
  under way which session it may use and what it relies on of the run it speaks
  of, and `Orderly` that no two of them load the session or follow one run
  (`Rivals`); `Moves` is all that an answer does to the page, and
  `FinishedStays` follows because whoever could contradict a finished run would
  be a rival of the poll that saw its end.
- **Releases** (`ReleaseDeploymentProofs`): all six properties of
  `ReleaseDeployment`, `ForwardOnly` among them, for any releases with a
  reflexive and transitive ancestry, any of which may run at the beginning
  (`ReleaseConstants`), and for kills and lost writes anywhere. None of the
  properties is inductive: the check of the target happens once, at the start
  of a script whose every later command may fail. `IInv` therefore says, for
  each point of a deployment, what the check established and still holds
  (`TargetAhead`), who can be running (`TargetRuns`, `OldWriters`), that the
  data does not change during the backup (`Frozen`), and which release the next
  deployment will count from, or which marker was lost and how (`Covered`);
  `Exclusive` makes that a statement about one deployment. `RecordHonest` and
  `TreesSealed` carry the other two. The proof has one lemma per action or
  group of actions; `Local` and `HostStep` say what a step of one command
  leaves of the others.

Every invariant and every action property of the passing runs, and the
refinement, is thus stated by a theorem. The types of plan execution, the
lifecycle and the releases are proved and in no run. Only model-checked are the
liveness properties `RequestsEnd`, `JobEnds` and `QueuedIsFollowed` (liveness
under fairness is outside what the proof system does). Each run that checks a
property of a theorem with a hypothesis satisfies the hypothesis: beyond it the
property is not claimed, and section 4 says what the code does there.

## 6. Plan

1. Done: registry, gate, plan and execution, lifecycle, access, web console,
   releases, each with theorems.
2. Done: `UniquePaths` without auto-discovery, `EndIsRecorded`, the lists and
   keys of `AccessGovernance`, the sessions of the page, the step simulation of
   `ImplementsCatalog`.
3. An abstract `ScanRun` (queued, running, finished once) implemented by
   `ScanLifecycle` with a required database and one attempt, and the polling of
   `WebConsole` over it in place of its own runs.
4. Done: how scanners' reports and the internal checks become findings
   (`ScannerReports`, `InternalChecks`), with what the gate needs of them.

## 7. Not modelled

Of scanner reports and internal checks, the texts, places and fingerprints, and
how a fact is found out (the patterns of files, headers and answers): facts and
items are chosen freely. The rendering of reports and
exports, fingerprints and redaction, finding counts and timestamps. The
cryptography of tokens and the checks of their claims, which are reasons to
refuse one. The layout, forms, preferences and texts of the web console. The
registry under local governance, where no central call is made. The CLI, which
is one request and its output, the OpenAPI contract, configuration and
infrastructure, which have no behaviour of their own. Of the release scripts,
image identifiers and tags, checksums, permissions and the validation of the
environment file: they are reasons for which a command fails. The reasons are
listed with the components in `PROJECT.json`.
