-------------------------- MODULE ScanLifecycleProofs --------------------------
(***************************************************************************)
(* What holds of a scan run for any number of requests, workers, steps and *)
(* stalls, and whichever faults happen unless a theorem says otherwise.    *)
(*                                                                         *)
(* A persistence operation is a list of statements that is worked off      *)
(* while others change the rows, so every invariant speaks of the          *)
(* statements that are still to come: Coherent relates them to where the   *)
(* attempt is that owes them, and the theorems build on it.                *)
(***************************************************************************)
EXTENDS ScanLifecycle, SequenceTheorems, TLAPS

\* A statement after which the run can be shown as done.
Final(s) == s.do = "result" \/ (s.do = "plan" /\ s.status = "completed")

Over == {"report", "deliver", "send", "complete"}

\* What an attempt has reached, and the statements it still owes.
Coherent(t, owed) ==
  /\ t \in Attempt
  /\ owed \in Seq(Statement)
  /\ \A n \in Steps : n < t.next => t.results[n] \in Outcome
  /\ t.pc \in Over => t.next = N + 1
  /\ t.pc = "idle" => owed = <<>>
  /\ \A i \in 1..Len(owed) :
       owed[i].do # "audit" /\ (Final(owed[i]) => t.pc = "complete")

Jobs ==
  /\ job.owner # None => job.state = "active"
  /\ job.state # "failed" => job.stalls <= MaxStalls

Queueing == [do |-> "plan", status |-> "queued"]

Lists ==
  /\ attempt \in [Workers -> Attempt]
  /\ todo \in [Actors -> Seq(Statement)]
  /\ \A w \in Workers : Coherent(attempt[w], todo[w])
  /\ \A q \in Requests : todo[q] = <<>> \/ todo[q] = <<Queueing>>
  /\ \A a \in Analysts : \/ todo[a] = <<>>
                         \/ \E f \in FindingIds, status \in FindingStatus :
                              todo[a] = <<[do |-> "audit", finding |-> f, status |-> status]>>

Base == TypeOK /\ Jobs /\ Lists

-----------------------------------------------------------------------------
(* Persistence                                                              *)

LEMMA GateResults == ASSUME NEW e PROVE GateOf(e) \in GateResult
BY DEF GateOf, evaluateGate, GateResult

LEMMA NotNone ==
  /\ None \notin Row /\ None \notin Execution /\ None \notin FindingStatus
  /\ None \notin StepStatus /\ None \notin Workers
BY ScanConstants

LEMMA PlanOwed ==
  ASSUME NEW status \in RunStatus
  PROVE  /\ PlanAs(status) \in Seq(Statement)
         /\ Len(PlanAs(status)) = 1
         /\ PlanAs(status)[1] = [do |-> "plan", status |-> status]
<1>1. [do |-> "plan", status |-> status] \in Statement
  BY DEF Statement
<1> QED BY <1>1 DEF PlanAs

LEMMA StepOwed ==
  ASSUME NEW n \in Steps, NEW outcome \in Outcome
  PROVE  LET s == recordScanStepResult(n, outcome) IN
         /\ s \in Seq(Statement)
         /\ \A i \in 1..Len(s) : s[i].do # "audit" /\ ~Final(s[i])
<1> DEFINE rest == <<[do |-> "step", step |-> n, status |-> outcome.status],
                     [do |-> "findings", findings |-> outcome.findings]>>
           first == PlanAs("running")
<1>1. /\ rest \in Seq(Statement) /\ Len(rest) = 2
      /\ rest[1].do = "step" /\ rest[2].do = "findings"
  <2>1. [do |-> "step", step |-> n, status |-> outcome.status] \in Statement
    BY DEF Statement, Outcome
  <2>2. [do |-> "findings", findings |-> outcome.findings] \in Statement
    BY DEF Statement, Outcome
  <2> QED BY <2>1, <2>2
<1>2. /\ first \in Seq(Statement) /\ Len(first) = 1
      /\ first[1] = [do |-> "plan", status |-> "running"]
  BY PlanOwed DEF RunStatus
<1>3. recordScanStepResult(n, outcome) = first \o rest
  BY DEF recordScanStepResult
<1> HIDE DEF first, rest
<1>4. /\ first \o rest \in Seq(Statement)
      /\ Len(first \o rest) = 3
      /\ \A i \in 1..3 : (first \o rest)[i] = IF i <= 1 THEN first[i] ELSE rest[i - 1]
  <2>2. /\ first \o rest \in Seq(Statement) /\ Len(first \o rest) = Len(first) + Len(rest)
        /\ \A i \in 1 .. Len(first) + Len(rest) :
             (first \o rest)[i] = IF i <= Len(first) THEN first[i] ELSE rest[i - Len(first)]
    BY <1>1, <1>2, ConcatProperties
  <2> QED BY <1>1, <1>2, <2>2
<1>5. \A i \in 1..3 : i = 1 \/ i - 1 = 1 \/ i - 1 = 2
  OBVIOUS
<1> QED BY <1>1, <1>2, <1>3, <1>4, <1>5 DEF Final

LEMMA ExecutedTypes ==
  ASSUME NEW results, \A n \in Steps : results[n] \in Outcome
  PROVE  Executed(results) \in Execution
<1>1. UNION {results[n].findings : n \in Steps} \subseteq Finding
  BY DEF Outcome
<1> QED BY <1>1 DEF Executed, Execution

LEMMA CompletedOwed ==
  ASSUME NEW results, NEW e \in Execution, NEW owed,
         \A n \in Steps : results[n] \in Outcome,
         owed = recordCompletedScan(results, e)
  PROVE  /\ owed \in Seq(Statement)
         /\ \A i \in 1..Len(owed) : owed[i].do # "audit"
         /\ Len(owed) > 1
         /\ owed[1].do = "plan"
         /\ owed[Len(owed)].do = "result" /\ owed[Len(owed)].result = e
<1> DEFINE first == PlanAs(e.status)
           middle == [n \in Steps |-> [do |-> "step", step |-> n, status |-> results[n].status]]
           last == <<[do |-> "findings", findings |-> e.findings],
                     [do |-> "result", result |-> e]>>
<1>1. /\ first \in Seq(Statement) /\ Len(first) = 1
      /\ first[1] = [do |-> "plan", status |-> e.status]
  BY PlanOwed DEF RunStatus, Execution
<1>2. /\ middle \in Seq(Statement) /\ Len(middle) = N
      /\ \A i \in 1..N : middle[i].do = "step"
  <2>1. N \in Nat
    BY ScanConstants
  <2>2. \A n \in Steps : [do |-> "step", step |-> n, status |-> results[n].status] \in Statement
    BY DEF Statement, Outcome
  <2>3. middle \in [1..N -> Statement]
    BY <2>2 DEF Steps
  <2>4. \A i \in 1..N : middle[i].do = "step"
    BY DEF Steps
  <2> HIDE DEF middle
  <2> QED BY <2>1, <2>3, <2>4
<1>3. /\ last \in Seq(Statement) /\ Len(last) = 2
      /\ last[1].do = "findings" /\ last[2] = [do |-> "result", result |-> e]
  <2>1. [do |-> "findings", findings |-> e.findings] \in Statement
    BY DEF Statement, Execution
  <2>2. [do |-> "result", result |-> e] \in Statement
    BY DEF Statement
  <2> QED BY <2>1, <2>2
<1>4. recordCompletedScan(results, e) = first \o middle \o last
  BY DEF recordCompletedScan
<1>5. N \in Nat \ {0}
  BY ScanConstants
<1> HIDE DEF first, middle, last
<1>6. PICK front : /\ front = first \o middle
                    /\ front \in Seq(Statement) /\ Len(front) = N + 1
                    /\ \A i \in 1..(N + 1) : front[i] = IF i <= 1 THEN first[i] ELSE middle[i - 1]
  <2>2. /\ first \o middle \in Seq(Statement) /\ Len(first \o middle) = Len(first) + Len(middle)
        /\ \A i \in 1 .. Len(first) + Len(middle) :
             (first \o middle)[i] = IF i <= Len(first) THEN first[i] ELSE middle[i - Len(first)]
    BY <1>1, <1>2, ConcatProperties
  <2>3. Len(first) = 1 /\ Len(middle) = N /\ 1 + N = N + 1
    BY <1>1, <1>2, <1>5
  <2>4. /\ first \o middle \in Seq(Statement) /\ Len(first \o middle) = N + 1
        /\ \A i \in 1..(N + 1) :
             (first \o middle)[i] = IF i <= 1 THEN first[i] ELSE middle[i - 1]
    BY <2>2, <2>3, Zenon
  <2> QED BY <2>4, Zenon
<1>7. PICK s : /\ s = front \o last
                /\ s \in Seq(Statement) /\ Len(s) = N + 3
                /\ \A i \in 1..(N + 3) : s[i] = IF i <= N + 1 THEN front[i] ELSE last[i - (N + 1)]
  <2>2. /\ front \o last \in Seq(Statement) /\ Len(front \o last) = Len(front) + Len(last)
        /\ \A i \in 1 .. Len(front) + Len(last) :
             (front \o last)[i] = IF i <= Len(front) THEN front[i] ELSE last[i - Len(front)]
    <3>1. front \in Seq(Statement) /\ last \in Seq(Statement)
      BY <1>3, <1>6
    <3> QED BY <3>1, ConcatProperties
  <2>3. Len(front) = N + 1 /\ Len(last) = 2 /\ (N + 1) + 2 = N + 3
    BY <1>3, <1>5, <1>6
  <2>4. /\ front \o last \in Seq(Statement) /\ Len(front \o last) = N + 3
        /\ \A i \in 1..(N + 3) :
             (front \o last)[i] = IF i <= N + 1 THEN front[i] ELSE last[i - (N + 1)]
    BY <2>2, <2>3, Zenon
  <2> QED BY <2>4, Zenon
<1>8. s[1].do = "plan"
  BY <1>1, <1>5, <1>6, <1>7
<1>9. s[N + 3] = [do |-> "result", result |-> e]
  BY <1>3, <1>5, <1>7
<1>10. ASSUME NEW i \in 1..(N + 3) PROVE s[i].do # "audit"
  <2>1. CASE i = 1
    BY <2>1, <1>8
  <2>2. CASE i > 1 /\ i <= N + 1
    <3>1. s[i] = middle[i - 1] /\ i - 1 \in 1..N
      BY <2>2, <1>5, <1>6, <1>7
    <3> QED BY <3>1, <1>2
  <2>3. CASE i = N + 2
    BY <2>3, <1>3, <1>5, <1>7
  <2>4. CASE i = N + 3
    BY <2>4, <1>9
  <2> QED BY <1>5, <2>1, <2>2, <2>3, <2>4
<1>11. owed = s
  BY <1>4, <1>6, <1>7
<1> QED BY <1>5, <1>7, <1>8, <1>9, <1>10, <1>11

LEMMA FailedOwed ==
  /\ recordFailedScan \in Seq(Statement)
  /\ recordFailedScan # <<>>
  /\ \A i \in 1..Len(recordFailedScan) :
       recordFailedScan[i].do # "audit" /\ ~Final(recordFailedScan[i])
  /\ Len(recordFailedScan) = 2
  /\ recordFailedScan[1].do = "plan" /\ recordFailedScan[2].do = "error"
<1> DEFINE first == PlanAs("failed")
           last == <<[do |-> "error"]>>
<1>1. /\ first \in Seq(Statement) /\ Len(first) = 1
      /\ first[1] = [do |-> "plan", status |-> "failed"]
  BY PlanOwed DEF RunStatus
<1>2. last \in Seq(Statement) /\ Len(last) = 1 /\ last[1].do = "error"
  <2>1. [do |-> "error"] \in Statement
    BY DEF Statement
  <2> QED BY <2>1
<1>3. recordFailedScan = first \o last
  BY DEF recordFailedScan
<1> HIDE DEF first, last
<1>4. /\ first \o last \in Seq(Statement)
      /\ Len(first \o last) = 2
      /\ \A i \in 1..2 : (first \o last)[i] = IF i <= 1 THEN first[i] ELSE last[i - 1]
  <2>2. /\ first \o last \in Seq(Statement) /\ Len(first \o last) = Len(first) + Len(last)
        /\ \A i \in 1 .. Len(first) + Len(last) :
             (first \o last)[i] = IF i <= Len(first) THEN first[i] ELSE last[i - Len(first)]
    BY <1>1, <1>2, ConcatProperties
  <2> QED BY <1>1, <1>2, <2>2
<1>5. \A i \in 1..2 : i = 1 \/ i = 2
  OBVIOUS
<1> QED BY <1>1, <1>2, <1>3, <1>4, <1>5 DEF Final

-----------------------------------------------------------------------------
(* Types, and what an attempt still owes                                    *)

LEMMA Apart ==
  /\ Workers \subseteq Actors /\ Requests \subseteq Actors /\ Analysts \subseteq Actors
  /\ \A w \in Workers, q \in Requests : w # q
  /\ \A w \in Workers, a \in Analysts : w # a
  /\ \A q \in Requests, a \in Analysts : q # a
BY ScanConstants DEF Actors

LEMMA Idle ==
  IdleAttempt \in Attempt /\ IdleAttempt.next = 1 /\ IdleAttempt.pc = "idle"
<1>1. N \in Nat \ {0}
  BY ScanConstants
<1> QED BY <1>1 DEF IdleAttempt, Attempt, Steps, Outcome

LEMMA RunningOwed ==
  /\ recordRunningScan \in Seq(Statement)
  /\ \A i \in 1..Len(recordRunningScan) :
       recordRunningScan[i].do # "audit" /\ ~Final(recordRunningScan[i])
<1>1. /\ recordRunningScan \in Seq(Statement) /\ Len(recordRunningScan) = 1
      /\ recordRunningScan[1] = [do |-> "plan", status |-> "running"]
  BY PlanOwed DEF recordRunningScan, RunStatus
<1> QED BY <1>1 DEF Final

LEMMA InitBase == Init => Base
<1> SUFFICES ASSUME Init PROVE Base
  OBVIOUS
<1>1. N \in Nat \ {0} /\ MaxStalls \in Nat
  BY ScanConstants
<1>2. IdleAttempt \in Attempt
  BY Idle
<1>3. <<>> \in Seq(Statement) /\ Len(<<>>) = 0
  OBVIOUS
<1>4. Coherent(IdleAttempt, <<>>)
  BY <1>1, <1>2, <1>3 DEF Coherent, IdleAttempt, Steps, Over
<1>5. Lists
  BY <1>2, <1>3, <1>4, Apart DEF Init, Lists
<1>6. Jobs
  BY <1>1 DEF Init, Jobs
<1>7. /\ job \in [state: {"none", "waiting", "active", "completed", "failed"},
                  owner: Workers \cup {None}, stalls: 0..(MaxStalls + 1)]
      /\ request \in [Requests -> {"idle", "approved", "queued", "done"}]
      /\ files \in [execution: Execution \cup {None}, reports: Execution \cup {None}]
  BY <1>1 DEF Init
<1>8. /\ policy \in BOOLEAN /\ run \in Row \cup {None} /\ sent \subseteq Sinks \X BOOLEAN
      /\ steps \in [Steps -> StepStatus \cup {"queued", None}]
      /\ found \in [FindingIds -> FindingStatus \cup {None}]
      /\ audit \in [FindingIds -> FindingStatus \cup {None}]
  BY DEF Init
<1>9. attempt \in [Workers -> Attempt] /\ todo \in [Actors -> Seq(Statement)]
  BY <1>5 DEF Lists
<1> QED BY <1>5, <1>6, <1>7, <1>8, <1>9 DEF TypeOK, Base

LEMMA Going ==
  ASSUME Lists, NEW w \in Workers, NEW t, NEW owed, Coherent(t, owed), Go(w, t, owed)
  PROVE  /\ Lists'
         /\ attempt'[w] = t /\ todo'[w] = owed
         /\ \A v \in Workers \ {w} : attempt'[v] = attempt[v]
         /\ \A a \in Actors \ {w} : todo'[a] = todo[a]
<1>1. /\ t \in Attempt /\ owed \in Seq(Statement) /\ w \in Actors
      /\ attempt' = [attempt EXCEPT ![w] = t] /\ todo' = [todo EXCEPT ![w] = owed]
  BY Apart DEF Coherent, Go
<1>2. /\ attempt' \in [Workers -> Attempt] /\ todo' \in [Actors -> Seq(Statement)]
      /\ attempt'[w] = t /\ todo'[w] = owed
      /\ \A v \in Workers \ {w} : attempt'[v] = attempt[v]
      /\ \A a \in Actors \ {w} : todo'[a] = todo[a]
  BY <1>1 DEF Lists
<1>3. \A v \in Workers : Coherent(attempt'[v], todo'[v])
  BY <1>2, Apart, Zenon DEF Lists
<1>4. /\ \A q \in Requests : todo'[q] = todo[q]
      /\ \A a \in Analysts : todo'[a] = todo[a]
  BY <1>2, Apart
<1> QED BY <1>2, <1>3, <1>4 DEF Lists

\* The catch of executeScanJob can come at any point.
LEMMA Throwing ==
  ASSUME Lists, NEW w \in Workers
  PROVE  Coherent([attempt[w] EXCEPT !.pc = "fail"], recordFailedScan)
<1> DEFINE t == attempt[w]
           new == [t EXCEPT !.pc = "fail"]
<1>1. t \in Attempt /\ \A n \in Steps : n < t.next => t.results[n] \in Outcome
  BY DEF Lists, Coherent
<1> HIDE DEF t
<1>2. /\ new \in Attempt /\ new.pc = "fail" /\ new.next = t.next
      /\ new.results = t.results
  BY <1>1 DEF Attempt
<1> HIDE DEF new
<1>3. Coherent(new, recordFailedScan)
  BY <1>1, <1>2, FailedOwed DEF Coherent, Over
<1> QED BY <1>3 DEF new, t

LEMMA Catching ==
  ASSUME Lists, NEW w \in Workers, Throw(w)
  PROVE  /\ Lists'
         /\ attempt'[w] = [attempt[w] EXCEPT !.pc = "fail"]
         /\ todo'[w] = recordFailedScan
         /\ \A v \in Workers \ {w} : attempt'[v] = attempt[v]
         /\ \A a \in Actors \ {w} : todo'[a] = todo[a]
BY Throwing, Going DEF Throw

\* A worker goes on without owing anything.
LEMMA Silent ==
  ASSUME NEW t \in Attempt, NEW u \in Attempt,
         u.next = t.next, u.results = t.results,
         \A n \in Steps : n < t.next => t.results[n] \in Outcome,
         u.pc \in Over => t.next = N + 1
  PROVE  Coherent(u, <<>>)
<1>1. <<>> \in Seq(Statement) /\ Len(<<>>) = 0
  OBVIOUS
<1> QED BY <1>1 DEF Coherent

LEMMA Keeping ==
  ASSUME Base, Lists', Jobs',
         job' \in [state: {"none", "waiting", "active", "completed", "failed"},
                  owner: Workers \cup {None}, stalls: 0..(MaxStalls + 1)],
         UNCHANGED <<policy, request, run, steps, found, audit, files, sent>>
  PROVE  Base'
BY DEF Base, TypeOK, Lists

LEMMA Same ==
  ASSUME Base, Lists',
         UNCHANGED <<job, policy, request, run, steps, found, audit, files, sent>>
  PROVE  Base'
BY DEF Base, TypeOK, Lists, Jobs

LEMMA Taking ==
  ASSUME Base, NEW w \in Workers, Take(w)
  PROVE  Base'
<1> DEFINE new == [IdleAttempt EXCEPT !.pc = "scan", !.born = policy]
           asking == [new EXCEPT !.pc = "authorize"]
<1>1. N \in Nat \ {0}
  BY ScanConstants
<1>2. /\ new \in Attempt /\ new.pc = "scan" /\ new.next = 1
      /\ asking \in Attempt /\ asking.pc = "authorize" /\ asking.next = 1
  <2>1. policy \in BOOLEAN
    BY DEF Base, TypeOK
  <2> QED BY <2>1, Idle DEF Attempt
<1>3. Go(w, asking, <<>>) \/ Go(w, new, recordRunningScan)
  BY DEF Take
<1> HIDE DEF new, asking
<1>4. Coherent(asking, <<>>)
  <2>1. <<>> \in Seq(Statement) /\ Len(<<>>) = 0
    OBVIOUS
  <2> QED BY <1>1, <1>2, <2>1 DEF Coherent, Over, Steps
<1>5. Coherent(new, recordRunningScan)
  BY <1>1, <1>2, RunningOwed DEF Coherent, Over, Steps
<1>6. Lists'
  BY <1>3, <1>4, <1>5, Going DEF Base
<1>7. job' = [job EXCEPT !.state = "active", !.owner = w] /\ job.state = "waiting"
      /\ UNCHANGED <<policy, request, run, steps, found, audit, files, sent>>
  BY DEF Take, database
<1>8. Jobs' /\ job' \in [state: {"none", "waiting", "active", "completed", "failed"},
                         owner: Workers \cup {None}, stalls: 0..(MaxStalls + 1)]
  BY <1>7 DEF Base, TypeOK, Jobs
<1> QED BY <1>6, <1>7, <1>8, Keeping

\* What the attempt of a worker that owes nothing has reached.
LEMMA Reached ==
  ASSUME Base, NEW w \in Workers
  PROVE  /\ attempt[w] \in Attempt
         /\ \A n \in Steps : n < attempt[w].next => attempt[w].results[n] \in Outcome
         /\ attempt[w].pc \in Over => attempt[w].next = N + 1
         /\ attempt[w].next > N => attempt[w].next = N + 1
         /\ attempt[w].next > N =>
              /\ \A n \in Steps : attempt[w].results[n] \in Outcome
              /\ Executed(attempt[w].results) \in Execution
<1>1. N \in Nat \ {0}
  BY ScanConstants
<1>2. Coherent(attempt[w], todo[w])
  BY DEF Base, Lists
<1>3. /\ attempt[w] \in Attempt
      /\ \A n \in Steps : n < attempt[w].next => attempt[w].results[n] \in Outcome
      /\ attempt[w].pc \in Over => attempt[w].next = N + 1
  BY <1>2 DEF Coherent
<1>4. attempt[w].next \in 1..(N + 1)
  BY <1>3 DEF Attempt
<1>5. attempt[w].next > N => \A n \in Steps : attempt[w].results[n] \in Outcome
  BY <1>1, <1>3, <1>4 DEF Steps
<1> QED BY <1>1, <1>3, <1>4, <1>5, ExecutedTypes

LEMMA Authorizing ==
  ASSUME Base, NEW w \in Workers, Authorize(w)
  PROVE  Base'
<1> DEFINE t == attempt[w]
           new == [t EXCEPT !.pc = "scan"]
<1>1. t \in Attempt /\ \A n \in Steps : n < t.next => t.results[n] \in Outcome
  BY Reached
<1>2. Go(w, new, recordRunningScan) \/ Throw(w)
  BY DEF Authorize
<1> HIDE DEF t
<1>3. new \in Attempt /\ new.pc = "scan" /\ new.next = t.next /\ new.results = t.results
  BY <1>1 DEF Attempt
<1> HIDE DEF new
<1>4. Coherent(new, recordRunningScan)
  BY <1>1, <1>3, RunningOwed DEF Coherent, Over
<1>5. Lists'
  BY <1>2, <1>4, Going, Catching DEF Base
<1>6. UNCHANGED <<job, policy, request, run, steps, found, audit, files, sent>>
  BY DEF Authorize, database
<1> QED BY <1>5, <1>6, Same

LEMMA Stepping ==
  ASSUME Base, NEW w \in Workers, ScanStep(w)
  PROVE  Base'
<1>1. UNCHANGED <<job, policy, request, run, steps, found, audit, files, sent>>
  BY DEF ScanStep, database
<1>2. CASE Throw(w)
  BY <1>1, <1>2, Catching, Same DEF Base
<1>3. ASSUME NEW outcome \in Outcomes[attempt[w].next], attempt[w].pc = "scan",
             attempt[w].next <= N,
             Go(w, [attempt[w] EXCEPT !.next = attempt[w].next + 1,
                                      !.results[attempt[w].next] = outcome],
                recordScanStepResult(attempt[w].next, outcome))
      PROVE  Lists'
  <2> DEFINE t == attempt[w]
             n == t.next
             new == [t EXCEPT !.next = n + 1, !.results[n] = outcome]
             owed == recordScanStepResult(n, outcome)
  <2>1. /\ t \in Attempt /\ t.pc = "scan" /\ n <= N
        /\ \A i \in Steps : i < n => t.results[i] \in Outcome
    BY <1>3, Reached
  <2>2. N \in Nat \ {0} /\ n \in Steps /\ outcome \in Outcome
    BY <1>3, <2>1, ScanConstants DEF Attempt, Steps
  <2>3. /\ owed \in Seq(Statement)
        /\ \A i \in 1..Len(owed) : owed[i].do # "audit" /\ ~Final(owed[i])
    BY <2>2, StepOwed
  <2>4. Go(w, new, owed)
    BY <1>3
  <2> HIDE DEF t, n, owed
  <2>5. /\ new \in Attempt /\ new.pc = "scan" /\ new.next = n + 1
        /\ \A i \in Steps : new.results[i] = IF i = n THEN outcome ELSE t.results[i]
    <3> DEFINE kept == [t.results EXCEPT ![n] = outcome]
    <3>1. /\ t.results \in [Steps -> Outcome \cup {None}]
          /\ n + 1 \in 1..(N + 1)
      BY <2>1, <2>2 DEF Attempt, Steps
    <3>2. /\ kept \in [Steps -> Outcome \cup {None}]
          /\ \A i \in Steps : kept[i] = IF i = n THEN outcome ELSE t.results[i]
      BY <2>2, <3>1
    <3>3. new = [[t EXCEPT !.next = n + 1] EXCEPT !.results = kept]
      BY <2>1 DEF Attempt
    <3> HIDE DEF kept, new
    <3>4. /\ new \in Attempt /\ new.pc = "scan" /\ new.next = n + 1 /\ new.results = kept
      BY <2>1, <3>1, <3>2, <3>3 DEF Attempt
    <3> QED BY <3>2, <3>4
  <2> HIDE DEF new
  <2>6. \A i \in Steps : i < n + 1 => i = n \/ i < n
    BY <2>2 DEF Steps
  <2>7. Coherent(new, owed)
    BY <2>1, <2>2, <2>3, <2>5, <2>6 DEF Coherent, Over
  <2> QED BY <2>4, <2>7, Going DEF Base
<1> QED BY <1>1, <1>2, <1>3, Same DEF ScanStep, At

LEMMA Writing ==
  ASSUME Base, NEW w \in Workers, WriteExecution(w) \/ WriteReports(w)
  PROVE  Base'
<1> DEFINE t == attempt[w]
           written == [t EXCEPT !.pc = "report"]
           reported == [t EXCEPT !.pc = "deliver", !.sinks = Sinks]
<1>1. /\ t \in Attempt /\ t.next = N + 1 /\ Executed(t.results) \in Execution
      /\ \A n \in Steps : n < t.next => t.results[n] \in Outcome
  BY Reached, ScanConstants DEF WriteExecution, WriteReports, At, Over
<1>2. /\ UNCHANGED <<job, policy, request, run, steps, found, audit, sent>>
      /\ \/ files' = files
         \/ files' = [files EXCEPT !.execution = Executed(t.results)]
         \/ files' = [files EXCEPT !.reports = Executed(t.results)]
  BY DEF WriteExecution, WriteReports, database
<1>3. Go(w, written, <<>>) \/ Go(w, reported, <<>>) \/ Throw(w)
  BY DEF WriteExecution, WriteReports
<1> HIDE DEF t
<1>4. /\ written \in Attempt /\ written.next = t.next /\ written.results = t.results
      /\ reported \in Attempt /\ reported.next = t.next /\ reported.results = t.results
  BY <1>1 DEF Attempt
<1> HIDE DEF written, reported
<1>5. Coherent(written, <<>>) /\ Coherent(reported, <<>>)
  BY <1>1, <1>4, Silent
<1>6. Lists'
  BY <1>3, <1>5, Going, Catching DEF Base
<1>7. files' \in [execution: Execution \cup {None}, reports: Execution \cup {None}]
  BY <1>1, <1>2 DEF Base, TypeOK
<1> QED BY <1>2, <1>6, <1>7 DEF Base, TypeOK, Lists, Jobs

LEMMA Delivering ==
  ASSUME Base, NEW w \in Workers,
         AuthorizeDelivery(w) \/ Send(w) \/ RecordDeliveryFails(w) \/ Complete(w)
  PROVE  Base'
<1> DEFINE t == attempt[w]
<1>1. /\ t \in Attempt /\ t.next = N + 1 /\ t.pc \in {"deliver", "send"}
      /\ \A n \in Steps : n < t.next => t.results[n] \in Outcome
      /\ \A n \in Steps : t.results[n] \in Outcome
      /\ Executed(t.results) \in Execution
  <2>1. t.pc \in {"deliver", "send"}
    BY DEF AuthorizeDelivery, Send, RecordDeliveryFails, Complete, At
  <2>2. N \in Nat /\ t.next = N + 1
    BY <2>1, Reached, ScanConstants DEF Over
  <2>3. t.next > N
    BY <2>2
  <2> QED BY <2>1, <2>2, <2>3, Reached
<1>2. /\ UNCHANGED <<job, policy, request, run, steps, found, audit, files>>
      /\ \/ sent' = sent
         \/ \E sink \in t.sinks : sent' = sent \cup {<<sink, t.born>>}
  BY DEF AuthorizeDelivery, Send, RecordDeliveryFails, Complete, database
<1>3. \/ \E pc \in {"deliver", "send"}, sinks \in SUBSET t.sinks, failed \in SUBSET Sinks :
           Go(w, [t EXCEPT !.pc = pc, !.sinks = sinks, !.failed = failed], <<>>)
      \/ Go(w, [t EXCEPT !.pc = "complete"], recordCompletedScan(t.results, Executed(t.results)))
      \/ Throw(w)
  <2>1. t.sinks \subseteq Sinks /\ t.failed \subseteq Sinks
    BY <1>1 DEF Attempt
  <2>2. CASE AuthorizeDelivery(w)
    <3>1. CASE Go(w, [t EXCEPT !.pc = "send"], <<>>)
      <4>1. [t EXCEPT !.pc = "send"] = [t EXCEPT !.pc = "send", !.sinks = t.sinks, !.failed = t.failed]
        BY <1>1 DEF Attempt
      <4> QED BY <2>1, <3>1, <4>1
    <3>2. ASSUME NEW sink \in t.sinks,
                 Go(w, [t EXCEPT !.sinks = @ \ {sink}, !.failed = @ \cup {sink}], <<>>),
                 t.pc = "deliver"
          PROVE  \E pc \in {"deliver", "send"}, sinks \in SUBSET t.sinks, failed \in SUBSET Sinks :
                   Go(w, [t EXCEPT !.pc = pc, !.sinks = sinks, !.failed = failed], <<>>)
      <4>1. [t EXCEPT !.sinks = @ \ {sink}, !.failed = @ \cup {sink}] =
              [t EXCEPT !.pc = "deliver", !.sinks = t.sinks \ {sink}, !.failed = t.failed \cup {sink}]
        BY <1>1, <3>2 DEF Attempt
      <4> QED BY <2>1, <3>2, <4>1
    <3> QED BY <2>2, <3>1, <3>2 DEF AuthorizeDelivery, At
  <2>3. CASE Send(w)
    <3>1. ASSUME NEW sink \in t.sinks,
                 Go(w, [t EXCEPT !.pc = "deliver", !.sinks = @ \ {sink}], <<>>)
          PROVE  \E pc \in {"deliver", "send"}, sinks \in SUBSET t.sinks, failed \in SUBSET Sinks :
                   Go(w, [t EXCEPT !.pc = pc, !.sinks = sinks, !.failed = failed], <<>>)
      <4>1. [t EXCEPT !.pc = "deliver", !.sinks = @ \ {sink}] =
              [t EXCEPT !.pc = "deliver", !.sinks = t.sinks \ {sink}, !.failed = t.failed]
        BY <1>1 DEF Attempt
      <4> QED BY <2>1, <3>1, <4>1
    <3>2. ASSUME NEW sink \in t.sinks,
                 Go(w, [t EXCEPT !.pc = "deliver", !.sinks = @ \ {sink},
                                 !.failed = @ \cup {sink}], <<>>)
          PROVE  \E pc \in {"deliver", "send"}, sinks \in SUBSET t.sinks, failed \in SUBSET Sinks :
                   Go(w, [t EXCEPT !.pc = pc, !.sinks = sinks, !.failed = failed], <<>>)
      BY <2>1, <3>2
    <3> QED BY <2>3, <3>1, <3>2 DEF Send
  <2> QED BY <2>2, <2>3 DEF RecordDeliveryFails, Complete, AuthorizeDelivery, Send
<1> HIDE DEF t
<1>4. ASSUME NEW pc \in {"deliver", "send"}, NEW sinks \in SUBSET t.sinks,
             NEW failed \in SUBSET Sinks
      PROVE  Coherent([t EXCEPT !.pc = pc, !.sinks = sinks, !.failed = failed], <<>>)
  <2> DEFINE new == [t EXCEPT !.pc = pc, !.sinks = sinks, !.failed = failed]
  <2>1. new \in Attempt /\ new.next = t.next /\ new.results = t.results
    BY <1>1 DEF Attempt
  <2> HIDE DEF new
  <2>2. Coherent(new, <<>>)
    BY <1>1, <2>1, Silent
  <2> QED BY <2>2 DEF new
<1>5. Coherent([t EXCEPT !.pc = "complete"], recordCompletedScan(t.results, Executed(t.results)))
  <2> DEFINE new == [t EXCEPT !.pc = "complete"]
             e == Executed(t.results)
             owed == recordCompletedScan(t.results, e)
  <2>1. /\ new \in Attempt /\ new.next = t.next /\ new.results = t.results
        /\ new.pc = "complete"
    BY <1>1 DEF Attempt
  <2>2. owed \in Seq(Statement) /\ \A i \in 1..Len(owed) : owed[i].do # "audit"
    <3> DEFINE r == t.results
    <3>1. e \in Execution /\ \A n \in Steps : r[n] \in Outcome
      BY <1>1
    <3>2. owed = recordCompletedScan(r, e)
      OBVIOUS
    <3> HIDE DEF e, r, owed
    <3> QED BY <3>1, <3>2, CompletedOwed
  <2> HIDE DEF new, owed
  <2>3. Coherent(new, owed)
    BY <1>1, <2>1, <2>2 DEF Coherent
  <2> QED BY <2>3 DEF new, owed, e
<1>6. Lists'
  BY <1>3, <1>4, <1>5, Going, Catching DEF Base
<1>7. sent' \subseteq Sinks \X BOOLEAN
  BY <1>1, <1>2 DEF Base, TypeOK, Attempt
<1> QED BY <1>2, <1>6, <1>7 DEF Base, TypeOK, Lists, Jobs

LEMMA Resting == Coherent(IdleAttempt, <<>>)
<1>1. <<>> \in Seq(Statement) /\ Len(<<>>) = 0 /\ N \in Nat \ {0}
  BY ScanConstants
<1> QED BY <1>1, Idle DEF Coherent, Steps, Over

LEMMA Settling ==
  ASSUME Base, NEW w \in Workers, Settle(w)
  PROVE  Base'
<1>1. todo[w] = <<>> /\ attempt' = [attempt EXCEPT ![w] = IdleAttempt] /\ todo' = todo
      /\ UNCHANGED <<policy, request, run, steps, found, audit, files, sent>>
  BY DEF Settle, At, database
<1>2. Go(w, IdleAttempt, <<>>)
  <2>1. todo' = [todo EXCEPT ![w] = <<>>]
    BY <1>1, Apart DEF Base, Lists
  <2> QED BY <1>1, <2>1 DEF Go
<1>3. Lists'
  BY <1>2, Resting, Going DEF Base
<1>4. \/ job' = job
      \/ /\ job.owner = w
         /\ \/ job' = [job EXCEPT !.owner = None, !.state = "completed"]
            \/ job' = [job EXCEPT !.owner = None, !.state = "failed"]
  BY DEF Settle
<1>5. w # None
  BY NotNone
<1>6. Jobs' /\ job' \in [state: {"none", "waiting", "active", "completed", "failed"},
                         owner: Workers \cup {None}, stalls: 0..(MaxStalls + 1)]
  BY <1>4, <1>5 DEF Base, TypeOK, Jobs
<1> QED BY <1>1, <1>3, <1>6, Keeping

LEMMA Working ==
  ASSUME Base, NEW w \in Workers, Work(w)
  PROVE  Base'
BY Taking, Authorizing, Stepping, Writing, Delivering, Settling DEF Work

-----------------------------------------------------------------------------
(* Statements and faults                                                    *)

LEMMA Executing ==
  ASSUME Base, NEW s \in Statement, Execute(s)
  PROVE  /\ run' \in Row \cup {None}
         /\ steps' \in [Steps -> StepStatus \cup {"queued", None}]
         /\ found' \in [FindingIds -> FindingStatus \cup {None}]
         /\ audit' \in [FindingIds -> FindingStatus \cup {None}]
         /\ run # None => run' # None
         /\ s.do = "plan" => run' # None
<1>1. /\ run \in Row \cup {None} /\ steps \in [Steps -> StepStatus \cup {"queued", None}]
      /\ found \in [FindingIds -> FindingStatus \cup {None}]
      /\ audit \in [FindingIds -> FindingStatus \cup {None}]
  BY DEF Base, TypeOK
<1>2. CASE s.do = "plan" /\ upsertPlan(s.status)
  <2>1. s.status \in RunStatus
    BY <1>2 DEF Statement
  <2>2. run' \in Row
    BY <1>1, <1>2, <2>1 DEF upsertPlan, Row, GateResult
  <2>3. steps' \in [Steps -> StepStatus \cup {"queued", None}]
    BY <1>1, <1>2 DEF upsertPlan
  <2> QED BY <1>1, <1>2, <2>2, <2>3, NotNone DEF upsertPlan
<1>3. CASE s.do = "step" /\ upsertStepResult(s.step, s.status)
  <2>1. s.step \in Steps /\ s.status \in StepStatus
    BY <1>3 DEF Statement
  <2> QED BY <1>1, <1>3, <2>1 DEF upsertStepResult
<1>4. CASE s.do = "findings" /\ upsertFindings(s.findings)
  BY <1>1, <1>4 DEF upsertFindings, FindingStatus
<1>5. CASE s.do = "result" /\ storeResult(s.result)
  <2>1. s.result \in Execution
    BY <1>5 DEF Statement
  <2>2. GateOf(s.result) \in GateResult
    BY GateResults
  <2>3. s.result.status \in RunStatus
    BY <2>1 DEF Execution, RunStatus
  <2>4. run # None => run' \in Row
    BY <1>5, <2>1, <2>2, <2>3 DEF storeResult, Row
  <2> QED BY <1>1, <1>5, <2>4, NotNone DEF storeResult
<1>6. CASE s.do = "error" /\ storeError
  <2>1. run # None => run' \in Row
    BY <1>1, <1>6 DEF storeError, Row, RunStatus, GateResult
  <2> QED BY <1>1, <1>6, <2>1, NotNone DEF storeError
<1>7. CASE s.do = "audit" /\ storeFindingEvent(s.finding, s.status)
  <2>1. s.finding \in FindingIds /\ s.status \in FindingStatus
    BY <1>7 DEF Statement
  <2> QED BY <1>1, <1>7, <2>1 DEF storeFindingEvent
<1> QED BY <1>2, <1>3, <1>4, <1>5, <1>6, <1>7 DEF Execute

\* What is left of an operation is as coherent as the whole, and so is none of it.
LEMMA Shortening ==
  ASSUME NEW t, NEW owed, Coherent(t, owed)
  PROVE  /\ Coherent(t, <<>>)
         /\ owed # <<>> => Coherent(t, Tail(owed))
<1>1. owed \in Seq(Statement) /\ t \in Attempt
  BY DEF Coherent
<1>2. <<>> \in Seq(Statement) /\ Len(<<>>) = 0
  OBVIOUS
<1>3. Coherent(t, <<>>)
  BY <1>2 DEF Coherent
<1>4. ASSUME owed # <<>> PROVE Coherent(t, Tail(owed))
  <2> DEFINE rest == Tail(owed)
  <2>1. /\ rest \in Seq(Statement) /\ Len(rest) = Len(owed) - 1
        /\ \A i \in 1..Len(rest) : rest[i] = owed[i + 1]
    BY <1>1, <1>4, HeadTailProperties
  <2>2. Len(owed) \in Nat
    BY <1>1
  <2> HIDE DEF rest
  <2>3. \A i \in 1..Len(rest) : i + 1 \in 1..Len(owed)
    BY <2>1, <2>2
  <2>4. Coherent(t, rest)
    BY <1>4, <2>1, <2>3 DEF Coherent
  <2> QED BY <2>4 DEF rest
<1> QED BY <1>3, <1>4

\* An actor's list is worked off or given up.
LEMMA Unwinding ==
  ASSUME Lists, UNCHANGED attempt, todo' \in [Actors -> Seq(Statement)],
         \A a \in Actors : \/ todo'[a] = todo[a] \/ todo'[a] = <<>>
                           \/ todo[a] # <<>> /\ todo'[a] = Tail(todo[a])
  PROVE  Lists'
<1>1. ASSUME NEW w \in Workers PROVE Coherent(attempt'[w], todo'[w])
  <2>1. Coherent(attempt[w], todo[w]) /\ attempt'[w] = attempt[w] /\ w \in Actors
    BY Apart DEF Lists
  <2>2. CASE todo'[w] = todo[w]
    BY <2>1, <2>2
  <2>3. CASE todo'[w] = <<>>
    BY <2>1, <2>3, Shortening
  <2>4. CASE todo[w] # <<>> /\ todo'[w] = Tail(todo[w])
    BY <2>1, <2>4, Shortening
  <2> QED BY <2>1, <2>2, <2>3, <2>4
<1>2. ASSUME NEW q \in Requests PROVE todo'[q] = <<>> \/ todo'[q] = <<Queueing>>
  <2>1. Tail(<<Queueing>>) = <<>>
    OBVIOUS
  <2> QED BY <2>1, Apart DEF Lists
<1>3. ASSUME NEW a \in Analysts
      PROVE  \/ todo'[a] = <<>>
             \/ \E f \in FindingIds, status \in FindingStatus :
                  todo'[a] = <<[do |-> "audit", finding |-> f, status |-> status]>>
  <2>1. \A x : Tail(<<x>>) = <<>>
    OBVIOUS
  <2> QED BY <2>1, Apart DEF Lists
<1> QED BY <1>1, <1>2, <1>3 DEF Lists

LEMMA Querying ==
  ASSUME Base, NEW a \in Actors, Query(a)
  PROVE  Base' /\ Head(todo[a]) \in Statement
<1>1. /\ todo[a] # <<>> /\ Execute(Head(todo[a])) /\ todo' = [todo EXCEPT ![a] = Tail(todo[a])]
      /\ UNCHANGED <<job, policy, request, attempt, files, sent>>
  BY DEF Query
<1>2. todo \in [Actors -> Seq(Statement)]
  BY DEF Base, Lists
<1>3. Head(todo[a]) \in Statement /\ Tail(todo[a]) \in Seq(Statement)
  BY <1>1, <1>2, HeadTailProperties
<1>4. Lists'
  BY <1>1, <1>2, <1>3, Unwinding DEF Base
<1> QED BY <1>1, <1>3, <1>4, Executing DEF Base, TypeOK, Lists, Jobs

LEMMA Failing ==
  ASSUME Base, NEW a \in Actors, QueryFails(a)
  PROVE  Base'
<1>1. UNCHANGED <<job, policy, request, run, steps, found, audit, files, sent>>
  BY DEF QueryFails, database
<1>2. CASE a \in Workers /\ Throw(a)
  BY <1>1, <1>2, Catching, Same DEF Base
<1>3. CASE todo' = [todo EXCEPT ![a] = <<>>] /\ UNCHANGED attempt
  <2>1. todo \in [Actors -> Seq(Statement)] /\ <<>> \in Seq(Statement)
    BY DEF Base, Lists
  <2>2. Lists'
    BY <1>3, <2>1, Unwinding DEF Base
  <2> QED BY <1>1, <2>2, Same
<1> QED BY <1>2, <1>3 DEF QueryFails

LEMMA Crashing ==
  ASSUME Base, (\E w \in Workers : CrashWorker(w)) \/ CrashApi
  PROVE  Base'
<1>1. CASE CrashApi
  <2>1. UNCHANGED <<job, policy, attempt, run, steps, found, audit, files, sent>>
    BY <1>1 DEF CrashApi, database
  <2>2. todo \in [Actors -> Seq(Statement)] /\ <<>> \in Seq(Statement)
    BY DEF Base, Lists
  <2>3. todo' = [a \in Actors |-> IF a \in Workers THEN todo[a] ELSE <<>>]
    BY <1>1 DEF CrashApi
  <2>4. todo' \in [Actors -> Seq(Statement)]
    BY <2>2, <2>3
  <2>5. Lists'
    BY <2>1, <2>2, <2>3, <2>4, Unwinding DEF Base
  <2>6. request' \in [Requests -> {"idle", "approved", "queued", "done"}]
    BY <1>1 DEF CrashApi
  <2> QED BY <2>1, <2>5, <2>6 DEF Base, TypeOK, Lists, Jobs
<1>2. ASSUME NEW w \in Workers, CrashWorker(w) PROVE Base'
  <2>1. /\ Go(w, IdleAttempt, <<>>)
        /\ job' = job \/ job' = [job EXCEPT !.owner = None]
        /\ UNCHANGED <<policy, request, run, steps, found, audit, files, sent>>
    BY <1>2 DEF CrashWorker, database
  <2>2. Lists'
    BY <2>1, Resting, Going DEF Base
  <2>3. Jobs' /\ job' \in [state: {"none", "waiting", "active", "completed", "failed"},
                           owner: Workers \cup {None}, stalls: 0..(MaxStalls + 1)]
    BY <2>1 DEF Base, TypeOK, Jobs
  <2> QED BY <2>1, <2>2, <2>3, Keeping
<1> QED BY <1>1, <1>2

LEMMA Bullmq ==
  ASSUME Base, (\E w \in Workers : LoseLock(w)) \/ Stalled \/ Evict
  PROVE  Base'
<1>1. /\ UNCHANGED <<policy, request, attempt, todo, run, steps, found, audit, files, sent>>
      /\ \/ job' = [job EXCEPT !.owner = None]
         \/ /\ job.state = "active" /\ job.owner = None
            /\ \/ /\ job' = [job EXCEPT !.stalls = job.stalls + 1, !.state = "waiting"]
                  /\ job.stalls < MaxStalls
               \/ job' = [job EXCEPT !.stalls = job.stalls + 1, !.state = "failed"]
         \/ job' = [state |-> "none", owner |-> None, stalls |-> 0]
  BY DEF LoseLock, Stalled, Evict, database
<1>2. MaxStalls \in Nat
  BY ScanConstants
<1>3. Jobs' /\ job' \in [state: {"none", "waiting", "active", "completed", "failed"},
                         owner: Workers \cup {None}, stalls: 0..(MaxStalls + 1)]
  <2>1. /\ job \in [state: {"none", "waiting", "active", "completed", "failed"},
                    owner: Workers \cup {None}, stalls: 0..(MaxStalls + 1)]
        /\ Jobs
    BY DEF Base, TypeOK
  <2>2. CASE job' = [job EXCEPT !.owner = None]
    BY <2>1, <2>2 DEF Jobs
  <2>3. CASE /\ job.state = "active" /\ job.owner = None
             /\ job' = [job EXCEPT !.stalls = job.stalls + 1, !.state = "waiting"]
             /\ job.stalls < MaxStalls
    <3>1. job.stalls + 1 \in 0..(MaxStalls + 1) /\ job.stalls + 1 <= MaxStalls
      BY <1>2, <2>1, <2>3
    <3> QED BY <2>1, <2>3, <3>1 DEF Jobs
  <2>4. CASE /\ job.state = "active" /\ job.owner = None
             /\ job' = [job EXCEPT !.stalls = job.stalls + 1, !.state = "failed"]
    <3>1. job.stalls + 1 \in 0..(MaxStalls + 1)
      BY <1>2, <2>1, <2>4 DEF Jobs
    <3> QED BY <2>1, <2>4, <3>1 DEF Jobs
  <2>5. CASE job' = [state |-> "none", owner |-> None, stalls |-> 0]
    BY <1>2, <2>5 DEF Jobs
  <2> QED BY <1>1, <2>2, <2>3, <2>4, <2>5
<1>4. Lists'
  BY <1>1 DEF Base, Lists
<1> QED BY <1>1, <1>3, <1>4, Keeping

LEMMA Serving ==
  ASSUME Base, NEW q \in Requests, Serve(q)
  PROVE  Base'
<1>1. /\ UNCHANGED <<policy, attempt, run, steps, found, audit, files, sent>>
      /\ \/ job' = job
         \/ job' = [job EXCEPT !.state = "waiting"] /\ job.state = "none"
      /\ \/ todo' = todo
         \/ todo' = [todo EXCEPT ![q] = recordQueuedScan]
      /\ \E new \in {"approved", "queued", "done"} : request' = [request EXCEPT ![q] = new]
  BY DEF Serve, Approve, Enqueue, Answer, database
<1>2. Jobs' /\ job' \in [state: {"none", "waiting", "active", "completed", "failed"},
                         owner: Workers \cup {None}, stalls: 0..(MaxStalls + 1)]
  BY <1>1 DEF Base, TypeOK, Jobs
<1>3. request' \in [Requests -> {"idle", "approved", "queued", "done"}]
  BY <1>1 DEF Base, TypeOK
<1>4. Lists'
  <2>1. recordQueuedScan = <<Queueing>> /\ recordQueuedScan \in Seq(Statement)
    BY PlanOwed DEF recordQueuedScan, PlanAs, Queueing, RunStatus
  <2>2. todo \in [Actors -> Seq(Statement)] /\ q \in Actors
    BY Apart DEF Base, Lists
  <2>3. /\ todo' \in [Actors -> Seq(Statement)]
        /\ todo'[q] = todo[q] \/ todo'[q] = <<Queueing>>
        /\ \A a \in Actors \ {q} : todo'[a] = todo[a]
    BY <1>1, <2>1, <2>2
  <2>4. \A w \in Workers : Coherent(attempt'[w], todo'[w])
    BY <1>1, <2>3, Apart DEF Base, Lists
  <2>5. \A r \in Requests : todo'[r] = <<>> \/ todo'[r] = <<Queueing>>
    BY <2>3, Apart DEF Base, Lists
  <2>6. \A a \in Analysts : todo'[a] = todo[a]
    BY <2>3, Apart
  <2>7. ASSUME NEW a \in Analysts
        PROVE  \/ todo'[a] = <<>>
               \/ \E f \in FindingIds, status \in FindingStatus :
                    todo'[a] = <<[do |-> "audit", finding |-> f, status |-> status]>>
    BY <2>6 DEF Base, Lists
  <2>8. attempt' \in [Workers -> Attempt]
    BY <1>1 DEF Base, Lists
  <2> QED BY <2>3, <2>4, <2>5, <2>7, <2>8 DEF Lists
<1> QED BY <1>1, <1>2, <1>3, <1>4 DEF Base, TypeOK, Lists

LEMMA Triaging ==
  ASSUME Base, NEW a \in Analysts, NEW f \in FindingIds, NEW status \in FindingStatus,
         Triage(a, f, status)
  PROVE  Base'
<1> DEFINE event == [do |-> "audit", finding |-> f, status |-> status]
<1>1. /\ UNCHANGED <<job, policy, request, attempt, run, steps, audit, files, sent>>
      /\ found' = [found EXCEPT ![f] = status] /\ todo' = [todo EXCEPT ![a] = <<event>>]
  BY DEF Triage
<1>2. Lists'
  <2>1. event \in Statement
    BY DEF Statement
  <2>2. todo \in [Actors -> Seq(Statement)] /\ a \in Actors /\ <<event>> \in Seq(Statement)
    BY <2>1, Apart DEF Base, Lists
  <2>3. /\ todo' \in [Actors -> Seq(Statement)] /\ todo'[a] = <<event>>
        /\ \A b \in Actors \ {a} : todo'[b] = todo[b]
    BY <1>1, <2>2
  <2>4. \A w \in Workers : Coherent(attempt'[w], todo'[w])
    BY <1>1, <2>3, Apart DEF Base, Lists
  <2>5. \A q \in Requests : todo'[q] = <<>> \/ todo'[q] = <<Queueing>>
    BY <2>3, Apart DEF Base, Lists
  <2>6. \A b \in Analysts : todo'[b] = todo[b] \/ todo'[b] = <<event>>
    BY <2>3, Apart
  <2>7. ASSUME NEW b \in Analysts
        PROVE  \/ todo'[b] = <<>>
               \/ \E g \in FindingIds, s \in FindingStatus :
                    todo'[b] = <<[do |-> "audit", finding |-> g, status |-> s]>>
    BY <2>6 DEF Base, Lists
  <2> HIDE DEF event
  <2> QED BY <1>1, <2>3, <2>4, <2>5, <2>7 DEF Base, Lists
<1>3. found' \in [FindingIds -> FindingStatus \cup {None}]
  BY <1>1 DEF Base, TypeOK
<1> QED BY <1>1, <1>2, <1>3 DEF Base, TypeOK, Lists, Jobs

LEMMA StepBase == Base /\ [Next]_vars => Base'
<1> SUFFICES ASSUME Base, [Next]_vars PROVE Base'
  OBVIOUS
<1>1. CASE UNCHANGED vars
  BY <1>1 DEF vars, Base, TypeOK, Lists, Jobs
<1>2. CASE Revoke
  BY <1>2 DEF Revoke, database, Base, TypeOK, Lists, Jobs
<1> QED BY <1>1, <1>2, Working, Querying, Failing, Crashing, Bullmq, Serving, Triaging
    DEF Next

\* The rows, the job, the files and the lists of statements have their types:
\* among others, recordCompletedScan never meets a step without a result, and
\* BullMQ gives a job up after the stall that is one too many.
THEOREM LifecycleTypes == Spec => []TypeOK
<1>1. Base => TypeOK
  BY DEF Base
<1> QED BY <1>1, InitBase, StepBase, PTL DEF Spec

-----------------------------------------------------------------------------
(* Steps                                                                    *)

\* A step that has a result keeps one, whoever writes the plan of the run
\* again: upsertPlan inserts what is absent, and the only statement that sets
\* a step's status carries a result.
THEOREM ResultsStay == Spec => StepResultsKept
<1> DEFINE Kept == \A n \in Steps : steps[n] \in StepStatus => steps'[n] \in StepStatus
<1>1. Base /\ [Next]_vars => [Kept]_vars
  <2> SUFFICES ASSUME Base, [Next]_vars PROVE Kept
    OBVIOUS
  <2>1. ASSUME NEW a \in Actors, Query(a) PROVE Kept
    <3> DEFINE s == Head(todo[a])
    <3>1. s \in Statement /\ Execute(s)
      BY <2>1, Querying DEF Query
    <3> HIDE DEF s
    <3>2. steps \in [Steps -> StepStatus \cup {"queued", None}]
      BY DEF Base, TypeOK
    <3>3. CASE upsertPlan(s.status)
      BY <3>2, <3>3, NotNone DEF upsertPlan
    <3>4. CASE s.do = "step" /\ upsertStepResult(s.step, s.status)
      <4>1. s.step \in Steps /\ s.status \in StepStatus
        BY <3>1, <3>4 DEF Statement
      <4> QED BY <3>2, <3>4, <4>1 DEF upsertStepResult
    <3>5. CASE UNCHANGED steps
      BY <3>5
    <3> QED BY <3>1, <3>3, <3>4, <3>5
      DEF Execute, upsertFindings, storeResult, storeError, storeFindingEvent
  <2>2. CASE UNCHANGED steps
    BY <2>2
  <2>3. ASSUME NEW w \in Workers, Work(w) PROVE UNCHANGED steps
    BY <2>3 DEF Work, Take, Authorize, ScanStep, WriteExecution, WriteReports,
      AuthorizeDelivery, Send, RecordDeliveryFails, Complete, Settle, database
  <2>4. ASSUME NEW q \in Requests, Serve(q) PROVE UNCHANGED steps
    BY <2>4 DEF Serve, Approve, Enqueue, Answer, database
  <2> QED BY <2>1, <2>2, <2>3, <2>4
    DEF Next, Triage, CrashWorker, LoseLock, QueryFails, CrashApi, Stalled, Evict,
        Revoke, database, vars
<1>2. Spec => []Base
  BY InitBase, StepBase, PTL DEF Spec
<1> QED BY <1>1, <1>2, PTL DEF Spec, StepResultsKept

-----------------------------------------------------------------------------
(* Permissions                                                              *)

\* An attempt that began after the permission was withdrawn stays where its
\* decision is asked for; without external steps it gets as far as its first
\* delivery, which asks too.
Barred(t) ==
  ~t.born =>
    /\ ~policy
    /\ t.pc # "send"
    /\ WorkerExternal => /\ t.pc \in {"authorize", "fail"}
                         /\ t.results = [n \in Steps |-> None]

Guarded ==
  /\ \A w \in Workers : Barred(attempt[w])
  /\ \A sink \in Sinks : <<sink, FALSE>> \notin sent

LEMMA Denied == ~policy => \A allowed \in Decisions : ~allowed
BY DEF Decisions

LEMMA StepGuarded ==
  ASSUME Base, Guarded, [Next]_vars
  PROVE  Guarded'
<1>1. policy \in BOOLEAN /\ attempt \in [Workers -> Attempt] /\ WorkerExternal \in BOOLEAN
  BY ScanConstants DEF Base, TypeOK
<1>2. ASSUME NEW w \in Workers, NEW t, NEW owed, Go(w, t, owed), policy' = policy,
             sent' = sent, Barred(t)
      PROVE  Guarded'
  <2>1. attempt'[w] = t /\ \A v \in Workers \ {w} : attempt'[v] = attempt[v]
    BY <1>1, <1>2 DEF Go
  <2> QED BY <1>2, <2>1 DEF Guarded, Barred
<1>3. ASSUME NEW w \in Workers
      PROVE  Barred([attempt[w] EXCEPT !.pc = "fail"]) /\ Barred(IdleAttempt)
  <2>1. Barred(attempt[w]) /\ attempt[w] \in Attempt
    BY <1>1 DEF Guarded
  <2> QED BY <2>1 DEF Barred, Attempt, IdleAttempt
<1>4. ASSUME NEW w \in Workers, Throw(w), policy' = policy, sent' = sent PROVE Guarded'
  BY <1>2, <1>3, <1>4 DEF Throw
<1>5. ASSUME NEW w \in Workers, Take(w) PROVE Guarded'
  <2> DEFINE new == [IdleAttempt EXCEPT !.pc = "scan", !.born = policy]
  <2>1. policy' = policy /\ sent' = sent
    BY <1>5 DEF Take
  <2>2. CASE WorkerExternal /\ Go(w, [new EXCEPT !.pc = "authorize"], <<>>)
    <3>1. Barred([new EXCEPT !.pc = "authorize"])
      BY <1>1 DEF Barred, IdleAttempt
    <3> QED BY <1>2, <2>1, <2>2, <3>1
  <2>3. CASE ~WorkerExternal /\ Go(w, new, recordRunningScan)
    <3>1. Barred(new)
      BY <1>1, <2>3 DEF Barred, IdleAttempt
    <3> QED BY <1>2, <2>1, <2>3, <3>1
  <2> QED BY <1>5, <2>2, <2>3 DEF Take
<1>6. ASSUME NEW w \in Workers, Authorize(w) PROVE Guarded'
  <2>1. policy' = policy /\ sent' = sent
    BY <1>6 DEF Authorize
  <2>2. CASE policy /\ Go(w, [attempt[w] EXCEPT !.pc = "scan"], recordRunningScan)
    <3>1. Barred([attempt[w] EXCEPT !.pc = "scan"])
      BY <1>1, <2>2 DEF Barred, Guarded, Attempt
    <3> QED BY <1>2, <2>1, <2>2, <3>1
  <2>3. CASE Throw(w)
    BY <1>4, <2>1, <2>3
  <2> QED BY <1>6, <2>2, <2>3, Denied DEF Authorize
<1>7. ASSUME NEW w \in Workers, ScanStep(w) \/ WriteExecution(w) \/ WriteReports(w)
      PROVE  Guarded'
  <2>1. policy' = policy /\ sent' = sent /\ attempt[w].pc \in {"scan", "report"}
    BY <1>7 DEF ScanStep, WriteExecution, WriteReports, At
  <2>2. ~attempt[w].born => ~policy /\ ~WorkerExternal
    BY <1>1, <2>1 DEF Guarded, Barred
  <2>3. attempt[w] \in Attempt
    BY <1>1
  <2>4. ASSUME NEW n, NEW r
        PROVE  /\ Barred([attempt[w] EXCEPT !.next = n, !.results[attempt[w].next] = r])
               /\ Barred([attempt[w] EXCEPT !.pc = "report"])
               /\ Barred([attempt[w] EXCEPT !.pc = "deliver", !.sinks = Sinks])
    BY <2>1, <2>2, <2>3 DEF Barred, Attempt
  <2>5. CASE ScanStep(w) /\ ~Throw(w)
    <3>1. PICK r : Go(w, [attempt[w] EXCEPT !.next = attempt[w].next + 1,
                                            !.results[attempt[w].next] = r],
                      recordScanStepResult(attempt[w].next, r))
      BY <2>5 DEF ScanStep
    <3> QED BY <1>2, <2>1, <2>4, <3>1
  <2>6. CASE WriteExecution(w) /\ ~Throw(w)
    BY <1>2, <2>1, <2>4, <2>6 DEF WriteExecution
  <2>7. CASE WriteReports(w) /\ ~Throw(w)
    BY <1>2, <2>1, <2>4, <2>7 DEF WriteReports
  <2> QED BY <1>4, <1>7, <2>1, <2>5, <2>6, <2>7
<1>8. ASSUME NEW w \in Workers, AuthorizeDelivery(w) PROVE Guarded'
  <2>1. policy' = policy /\ sent' = sent /\ attempt[w].pc = "deliver" /\ attempt[w] \in Attempt
    BY <1>1, <1>8 DEF AuthorizeDelivery, At
  <2>2. ~attempt[w].born => ~policy /\ ~WorkerExternal
    BY <1>1, <2>1 DEF Guarded, Barred
  <2>3. CASE policy /\ Go(w, [attempt[w] EXCEPT !.pc = "send"], <<>>)
    <3>1. Barred([attempt[w] EXCEPT !.pc = "send"])
      BY <2>1, <2>2, <2>3 DEF Barred, Attempt
    <3> QED BY <1>2, <2>1, <2>3, <3>1
  <2>4. ASSUME NEW sink,
               Go(w, [attempt[w] EXCEPT !.sinks = @ \ {sink}, !.failed = @ \cup {sink}], <<>>)
        PROVE  Guarded'
    <3>1. Barred([attempt[w] EXCEPT !.sinks = @ \ {sink}, !.failed = @ \cup {sink}])
      BY <2>1, <2>2 DEF Barred, Attempt
    <3> QED BY <1>2, <2>1, <2>4, <3>1
  <2> QED BY <1>8, <2>3, <2>4, Denied DEF AuthorizeDelivery
<1>9. ASSUME NEW w \in Workers, Send(w) PROVE Guarded'
  <2>1. policy' = policy /\ attempt[w].pc = "send" /\ attempt[w] \in Attempt
    BY <1>1, <1>9 DEF Send, At
  <2>2. attempt[w].born = TRUE
    BY <1>1, <2>1 DEF Guarded, Barred, Attempt
  <2>3. /\ attempt'[w].born = TRUE
        /\ \A v \in Workers \ {w} : attempt'[v] = attempt[v]
    <3>1. ASSUME NEW t, Go(w, t, <<>>)
          PROVE  attempt'[w] = t /\ \A v \in Workers \ {w} : attempt'[v] = attempt[v]
      BY <1>1, <3>1 DEF Go
    <3>2. ASSUME NEW sink
          PROVE  /\ [attempt[w] EXCEPT !.pc = "deliver", !.sinks = @ \ {sink}].born = TRUE
                 /\ [attempt[w] EXCEPT !.pc = "deliver", !.sinks = @ \ {sink},
                                       !.failed = @ \cup {sink}].born = TRUE
      BY <2>1, <2>2 DEF Attempt
    <3> QED BY <1>9, <3>1, <3>2 DEF Send
  <2>4. sent' = sent \/ \E sink : sent' = sent \cup {<<sink, TRUE>>}
    BY <1>9, <2>2 DEF Send
  <2> QED BY <2>1, <2>3, <2>4 DEF Guarded, Barred
<1>10. ASSUME NEW w \in Workers, Complete(w) PROVE Guarded'
  <2>1. policy' = policy /\ sent' = sent /\ attempt[w].pc = "deliver" /\ attempt[w] \in Attempt
    BY <1>1, <1>10 DEF Complete, At
  <2>2. ~attempt[w].born => ~policy /\ ~WorkerExternal
    BY <1>1, <2>1 DEF Guarded, Barred
  <2>3. Barred([attempt[w] EXCEPT !.pc = "complete"])
    BY <2>1, <2>2 DEF Barred, Attempt
  <2> QED BY <1>2, <1>4, <1>10, <2>1, <2>3 DEF Complete
<1>11. ASSUME NEW w \in Workers, RecordDeliveryFails(w) PROVE Guarded'
  BY <1>4, <1>11 DEF RecordDeliveryFails
<1>12. ASSUME NEW w \in Workers, Settle(w) \/ CrashWorker(w) PROVE Guarded'
  <2>1. /\ policy' = policy /\ sent' = sent
        /\ attempt' = [attempt EXCEPT ![w] = IdleAttempt]
    BY <1>12 DEF Settle, CrashWorker, Go
  <2>2. \A v \in Workers : attempt'[v] = attempt[v] \/ attempt'[v] = IdleAttempt
    BY <1>1, <2>1
  <2>3. IdleAttempt.born = TRUE
    BY DEF IdleAttempt
  <2> QED BY <2>1, <2>2, <2>3 DEF Guarded, Barred
<1>13. ASSUME NEW a \in Actors, QueryFails(a) PROVE Guarded'
  <2>1. CASE UNCHANGED attempt
    BY <1>13, <2>1 DEF QueryFails, Guarded, Barred
  <2>2. CASE a \in Workers /\ Throw(a)
    BY <1>4, <1>13, <2>2 DEF QueryFails
  <2> QED BY <1>13, <2>1, <2>2 DEF QueryFails
<1>14. CASE Revoke
  BY <1>14 DEF Revoke, Guarded, Barred
<1>15. CASE UNCHANGED <<policy, attempt, sent>>
  BY <1>15 DEF Guarded, Barred
<1>16. ASSUME NEW q \in Requests, Serve(q) PROVE UNCHANGED <<policy, attempt, sent>>
  BY <1>16 DEF Serve, Approve, Enqueue, Answer
<1> QED
  BY <1>5, <1>6, <1>7, <1>8, <1>9, <1>10, <1>11, <1>12, <1>13, <1>14, <1>15, <1>16
  DEF Next, Work, Triage, LoseLock, Query, CrashApi, Stalled, Evict, vars

\* An attempt that begins after the permission was withdrawn runs no restricted
\* step and sends nothing, whatever was granted when the job was queued.
THEOREM RevocationStops == Spec => []RevocationHolds
<1>1. Init => Guarded
  BY DEF Init, Guarded, Barred, IdleAttempt
<1>2. Base /\ Guarded => RevocationHolds
  <2> SUFFICES ASSUME Guarded, NEW w \in Workers, NEW n \in Restricted, ~attempt[w].born
               PROVE  attempt[w].results[n] = None
    BY DEF RevocationHolds, Guarded
  <2>1. WorkerExternal /\ n \in Steps
    BY ScanConstants
  <2> QED BY <2>1 DEF Guarded, Barred
<1> QED BY <1>1, <1>2, InitBase, StepBase, StepGuarded, PTL DEF Spec

-----------------------------------------------------------------------------
(* Triage                                                                   *)

\* One analyst at a time, whose audit events are not lost.
OneAnalyst == (\A a, b \in Analysts : a = b) /\ Faults \cap {"crash", "db"} = {}

Pending(f) == \E a \in Analysts : todo[a] # <<>> /\ todo[a][1].finding = f

Matching(f) ==
  /\ audit[f] # None => audit[f] = found[f]
  /\ audit[f] = None => found[f] \in {None, "open"}

Traced ==
  /\ \A a \in Analysts : todo[a] # <<>> => found[todo[a][1].finding] = todo[a][1].status
  /\ \A f \in FindingIds : Pending(f) \/ Matching(f)

\* What the rest of the system does to findings and their events: nothing but
\* opening those that are new.
LEMMA Opening ==
  ASSUME Base, Traced, audit' = audit,
         \A a \in Analysts : todo'[a] = todo[a],
         \A f \in FindingIds : found'[f] = found[f] \/ (found[f] = None /\ found'[f] = "open")
  PROVE  Traced'
<1>1. ASSUME NEW a \in Analysts, todo[a] # <<>>
      PROVE  /\ todo[a][1].finding \in FindingIds
             /\ found[todo[a][1].finding] # None
  <2>1. PICK f \in FindingIds, status \in FindingStatus :
          todo[a] = <<[do |-> "audit", finding |-> f, status |-> status]>>
    BY <1>1 DEF Base, Lists
  <2> QED BY <1>1, <2>1, NotNone DEF Traced
<1>2. \A f \in FindingIds : Pending(f) => Pending(f)'
  BY DEF Pending
<1>3. \A f \in FindingIds : Matching(f) => Matching(f)'
  BY DEF Matching
<1> QED BY <1>1, <1>2, <1>3 DEF Traced

LEMMA StepTraced ==
  ASSUME Base, OneAnalyst, Traced, [Next]_vars
  PROVE  Traced'
<1>1. ASSUME NEW a \in Analysts, NEW f \in FindingIds, NEW status \in FindingStatus,
             Triage(a, f, status)
      PROVE  Traced'
  <2> DEFINE event == [do |-> "audit", finding |-> f, status |-> status]
  <2>1. /\ todo' = [todo EXCEPT ![a] = <<event>>] /\ todo[a] = <<>>
        /\ found' = [found EXCEPT ![f] = status] /\ audit' = audit
    BY <1>1 DEF Triage
  <2>2. todo'[a] = <<event>> /\ todo'[a][1].finding = f /\ todo'[a][1].status = status
        /\ todo'[a] # <<>>
    BY <2>1, Apart DEF Base, Lists
  <2> HIDE DEF event
  <2>3. found'[f] = status /\ \A g \in FindingIds \ {f} : found'[g] = found[g]
    BY <2>1 DEF Base, TypeOK
  <2>4. \A b \in Analysts : b = a
    BY DEF OneAnalyst
  <2>5. Pending(f)'
    BY <2>2 DEF Pending
  <2>6. \A g \in FindingIds : ~Pending(g)
    BY <2>1, <2>4 DEF Pending
  <2>7. \A g \in FindingIds \ {f} : Matching(g)'
    BY <2>1, <2>3, <2>6 DEF Traced, Matching
  <2> QED BY <2>2, <2>3, <2>4, <2>5, <2>7 DEF Traced
<1>2. ASSUME NEW a \in Analysts, Query(a) PROVE Traced'
  <2>1. PICK f \in FindingIds, status \in FindingStatus :
          todo[a] = <<[do |-> "audit", finding |-> f, status |-> status]>>
    BY <1>2 DEF Base, Lists, Query
  <2> DEFINE event == [do |-> "audit", finding |-> f, status |-> status]
  <2>2. /\ Head(todo[a]) = event /\ Tail(todo[a]) = <<>>
        /\ todo[a][1].finding = f /\ todo[a][1].status = status /\ todo[a] # <<>>
    BY <2>1
  <2>3. audit' = [audit EXCEPT ![f] = status] /\ found' = found
    BY <1>2, <2>2 DEF Query, Execute, storeFindingEvent
  <2> HIDE DEF event
  <2>4. todo'[a] = <<>>
    BY <1>2, <2>2, Apart DEF Query, Base, Lists
  <2>5. found[f] = status /\ audit'[f] = status /\ status # None
    BY <2>2, <2>3, NotNone DEF Traced, Base, TypeOK
  <2>6. \A b \in Analysts : b = a
    BY DEF OneAnalyst
  <2>7. Matching(f)'
    BY <2>3, <2>5 DEF Matching
  <2>8. \A g \in FindingIds \ {f} : ~Pending(g)
    BY <2>2, <2>6 DEF Pending
  <2>9. \A g \in FindingIds \ {f} : audit'[g] = audit[g]
    BY <2>3 DEF Base, TypeOK
  <2>10. \A g \in FindingIds \ {f} : Matching(g)'
    BY <2>3, <2>8, <2>9 DEF Traced, Matching
  <2> QED BY <2>4, <2>6, <2>7, <2>10 DEF Traced
<1>3. ASSUME NEW a \in Workers \cup Requests, Query(a) PROVE Traced'
  <2> DEFINE s == Head(todo[a])
  <2>1. a \in Actors /\ todo[a] # <<>> /\ Execute(s)
    BY <1>3, Apart DEF Query
  <2>2. s.do # "audit"
    <3>1. CASE a \in Workers
      <4>1. Coherent(attempt[a], todo[a])
        BY <3>1 DEF Base, Lists
      <4>2. todo[a] \in Seq(Statement) /\ 1 \in 1..Len(todo[a])
        BY <2>1, <4>1 DEF Coherent
      <4>3. s = todo[a][1]
        BY <4>2
      <4> HIDE DEF s
      <4> QED BY <4>1, <4>2, <4>3 DEF Coherent
    <3>2. CASE a \in Requests
      <4>1. s = Queueing
        BY <2>1, <3>2 DEF Base, Lists
      <4> QED BY <4>1 DEF Queueing
    <3> QED BY <1>3, <3>1, <3>2
  <2> HIDE DEF s
  <2>3. /\ audit' = audit
        /\ \A f \in FindingIds : found'[f] = found[f] \/ (found[f] = None /\ found'[f] = "open")
    BY <2>1, <2>2 DEF Execute, upsertPlan, upsertStepResult, upsertFindings,
      storeResult, storeError, Base, TypeOK
  <2>4. \A b \in Analysts : todo'[b] = todo[b]
    BY <1>3, Apart DEF Query, Base, Lists
  <2> QED BY <2>3, <2>4, Opening
<1>4. ASSUME UNCHANGED <<found, audit>>, \A a \in Analysts : todo'[a] = todo[a]
      PROVE  Traced'
  BY <1>4, Opening
<1>5. ASSUME NEW w \in Workers, NEW t, NEW owed, Go(w, t, owed), UNCHANGED <<found, audit>>
      PROVE  Traced'
  <2>1. \A a \in Analysts : todo'[a] = todo[a]
    BY <1>5, Apart DEF Go, Base, Lists
  <2> QED BY <1>4, <1>5, <2>1
<1>6. ASSUME NEW w \in Workers, Work(w) PROVE Traced'
  <2>1. UNCHANGED <<found, audit>>
    BY <1>6 DEF Work, Take, Authorize, ScanStep, WriteExecution, WriteReports,
      AuthorizeDelivery, Send, RecordDeliveryFails, Complete, Settle, database
  <2>2. CASE Settle(w)
    BY <1>4, <2>1, <2>2 DEF Settle
  <2>3. CASE ~Settle(w)
    <3>1. \E t, owed : Go(w, t, owed)
      BY <1>6, <2>3 DEF Work, Take, Authorize, ScanStep, WriteExecution, WriteReports,
        AuthorizeDelivery, Send, RecordDeliveryFails, Complete, Throw
    <3> QED BY <1>5, <2>1, <3>1
  <2> QED BY <2>2, <2>3
<1>7. ASSUME NEW q \in Requests, Serve(q) PROVE Traced'
  <2>1. UNCHANGED <<found, audit>> /\ (todo' = todo \/ todo' = [todo EXCEPT ![q] = recordQueuedScan])
    BY <1>7 DEF Serve, Approve, Enqueue, Answer, database
  <2>2. \A a \in Analysts : todo'[a] = todo[a]
    BY <2>1, Apart DEF Base, Lists
  <2> QED BY <1>4, <2>1, <2>2
<1>8. ASSUME UNCHANGED <<todo, found, audit>> PROVE Traced'
  BY <1>4, <1>8
<1>9. ~\E a \in Actors : QueryFails(a)
  BY DEF OneAnalyst, QueryFails
<1>10. ~CrashApi /\ ~\E w \in Workers : CrashWorker(w)
  BY DEF OneAnalyst, CrashApi, CrashWorker
<1> QED
  BY <1>1, <1>2, <1>3, <1>6, <1>7, <1>8, <1>9, <1>10
  DEF Next, LoseLock, Stalled, Evict, Revoke, database, vars, Actors

\* With one analyst at a time, and no fault that loses an audit event, the
\* triage of a finding is the one its last event tells, however many workers
\* store the same findings at the same time.
THEOREM TriageIsTraced == Spec => [](OneAnalyst => TriageAudited)
<1>1. Init => (OneAnalyst => Traced)
  BY DEF Init, Traced, Pending, Matching, Actors
<1>2. Base /\ (OneAnalyst => Traced) /\ [Next]_vars => (OneAnalyst => Traced)'
  BY StepTraced DEF OneAnalyst
<1>3. (OneAnalyst => Traced) => (OneAnalyst => TriageAudited)
  BY DEF Traced, Pending, Matching, TriageAudited
<1> QED BY <1>1, <1>2, <1>3, InitBase, StepBase, PTL DEF Spec

-----------------------------------------------------------------------------
(* Results                                                                  *)

Past == {"deliver", "send", "complete"}

\* A run that is shown as done has reports.
Shown ==
  /\ \A w \in Workers : attempt[w].pc \in Past => files.reports # None
  /\ run # None /\ (run.status = "completed" \/ run.result # None) => files.reports # None

LEMMA Reporting ==
  ASSUME Base, NEW w \in Workers, Work(w)
  PROVE  /\ files.reports # None => files'.reports # None
         /\ attempt'[w].pc \in Past => attempt[w].pc \in Past \/ files'.reports # None
         /\ \A v \in Workers \ {w} : attempt'[v] = attempt[v]
         /\ run' = run
<1>1. attempt \in [Workers -> Attempt] /\ attempt[w] \in Attempt
  BY DEF Base, TypeOK
<1>2. \A t, owed : Go(w, t, owed) => /\ attempt'[w] = t
                                    /\ \A v \in Workers \ {w} : attempt'[v] = attempt[v]
  BY <1>1 DEF Go
<1>3. CASE WriteReports(w)
  <2>1. Executed(attempt[w].results) \in Execution
    <3>1. N \in Nat /\ attempt[w].next = N + 1
      BY <1>3, Reached, ScanConstants DEF WriteReports, At, Over
    <3>2. attempt[w].next > N
      BY <3>1
    <3> QED BY <3>2, Reached
  <2>2. CASE Throw(w) /\ UNCHANGED files
    BY <1>1, <1>2, <1>3, <2>2 DEF Throw, Past, Attempt, WriteReports, database
  <2>3. CASE /\ files' = [files EXCEPT !.reports = Executed(attempt[w].results)]
             /\ Go(w, [attempt[w] EXCEPT !.pc = "deliver", !.sinks = Sinks], <<>>)
    <3>1. files'.reports # None
      BY <2>1, <2>3, NotNone DEF Base, TypeOK
    <3> QED BY <1>2, <1>3, <2>3, <3>1 DEF WriteReports, database
  <2> QED BY <1>3, <2>2, <2>3 DEF WriteReports
<1>4. CASE WriteExecution(w)
  <2>1. files'.reports = files.reports
    BY <1>4 DEF WriteExecution, Base, TypeOK
  <2>2. Go(w, [attempt[w] EXCEPT !.pc = "report"], <<>>) \/ Throw(w)
    BY <1>4 DEF WriteExecution
  <2>3. attempt'[w].pc \in {"report", "fail"}
    BY <1>1, <1>2, <2>2 DEF Throw, Attempt
  <2> QED BY <1>2, <1>4, <2>1, <2>2, <2>3 DEF Past, Throw, WriteExecution, database
<1>5. CASE AuthorizeDelivery(w) \/ Send(w) \/ RecordDeliveryFails(w) \/ Complete(w)
  <2>1. attempt[w].pc \in Past
    BY <1>5 DEF AuthorizeDelivery, Send, RecordDeliveryFails, Complete, At, Past
  <2>2. \E t, owed : Go(w, t, owed)
    BY <1>5 DEF AuthorizeDelivery, Send, RecordDeliveryFails, Complete, Throw
  <2> QED BY <1>2, <1>5, <2>1, <2>2
    DEF AuthorizeDelivery, Send, RecordDeliveryFails, Complete, database
<1>6. CASE Settle(w)
  <2>1. attempt'[w] = IdleAttempt /\ \A v \in Workers \ {w} : attempt'[v] = attempt[v]
    BY <1>1, <1>6 DEF Settle
  <2> QED BY <1>6, <2>1, Idle DEF Settle, Past, database
<1>7. CASE Take(w) \/ Authorize(w) \/ ScanStep(w)
  <2>1. UNCHANGED <<files, run>>
    BY <1>7 DEF Take, Authorize, ScanStep, database
  <2>2. PICK t, owed : Go(w, t, owed) /\ t.pc \notin Past
    <3>1. CASE Take(w)
      <4>1. IdleAttempt \in Attempt
        BY Idle
      <4>2. /\ [IdleAttempt EXCEPT !.pc = "scan", !.born = policy].pc = "scan"
            /\ [[IdleAttempt EXCEPT !.pc = "scan", !.born = policy] EXCEPT !.pc = "authorize"].pc
                 = "authorize"
        BY <4>1 DEF Attempt
      <4> QED BY <3>1, <4>2 DEF Take, Past
    <3>2. [attempt[w] EXCEPT !.pc = "fail"].pc = "fail" /\ [attempt[w] EXCEPT !.pc = "scan"].pc = "scan"
      BY <1>1 DEF Attempt
    <3>3. CASE Authorize(w)
      BY <3>2, <3>3 DEF Authorize, Throw, Past
    <3>4. CASE ScanStep(w)
      <4>1. ASSUME NEW r
            PROVE  [attempt[w] EXCEPT !.next = attempt[w].next + 1, !.results[attempt[w].next] = r].pc
                     = attempt[w].pc
        BY <1>1 DEF Attempt
      <4>2. attempt[w].pc = "scan"
        BY <3>4 DEF ScanStep, At
      <4> QED BY <3>2, <3>4, <4>1, <4>2 DEF ScanStep, Throw, Past
    <3> QED BY <1>7, <3>1, <3>3, <3>4
  <2> QED BY <1>2, <2>1, <2>2
<1> QED BY <1>3, <1>4, <1>5, <1>6, <1>7 DEF Work

\* What a statement does to the row of the run.
LEMMA Changing ==
  ASSUME Base, NEW s \in Statement, Execute(s)
  PROVE  /\ ~Final(s) => \/ run' = run
                         \/ /\ run' # None /\ run'.status # "completed"
                            /\ IF run = None THEN run'.result = None
                               ELSE run'.result = run.result
         /\ s.do # "error" /\ s.do # "result" /\ run # None =>
              run'.result = run.result /\ run'.gate = run.gate
         /\ s.do = "result" /\ run # None =>
              /\ run'.result = s.result /\ run'.gate = GateOf(s.result)
              /\ run'.status = s.result.status
         /\ s.do = "error" /\ run # None => run'.status = "failed" /\ run'.gate = "error"
         /\ s.do = "plan" => run' # None /\ run'.status = s.status
         /\ s.do \notin {"plan", "error", "result"} => run' = run
<1>1. run \in Row \cup {None} /\ None \notin Row
  BY NotNone DEF Base, TypeOK
<1>2. CASE s.do = "plan" /\ upsertPlan(s.status)
  <2>1. run' # None
    BY <1>2, Executing
  <2>2. /\ run'.status = s.status
        /\ IF run = None THEN run'.result = None
           ELSE run'.result = run.result /\ run'.gate = run.gate
    BY <1>1, <1>2 DEF upsertPlan, Row
  <2> QED BY <1>2, <2>1, <2>2 DEF Final
<1>3. CASE s.do = "error" /\ storeError
  <2>1. run # None => /\ run'.status = "failed" /\ run'.gate = "error"
                      /\ run'.result = run.result /\ run' # None
    BY <1>1, <1>3, Executing DEF storeError, Row
  <2> QED BY <1>3, <2>1 DEF storeError
<1>4. CASE s.do = "result" /\ storeResult(s.result)
  BY <1>4 DEF Final, storeResult
<1>5. CASE s.do \notin {"plan", "error", "result"} /\ run' = run
  BY <1>5
<1> QED BY <1>2, <1>3, <1>4, <1>5
  DEF Execute, upsertStepResult, upsertFindings, storeFindingEvent

LEMMA StepShown ==
  ASSUME Base, Shown, [Next]_vars
  PROVE  Shown'
<1>1. ASSUME UNCHANGED <<attempt, files, run>> PROVE Shown'
  BY <1>1 DEF Shown
<1>2. ASSUME NEW w \in Workers, Work(w) PROVE Shown'
  BY <1>2, Reporting DEF Shown
<1>3. ASSUME NEW a \in Actors, Query(a) PROVE Shown'
  <2> DEFINE s == Head(todo[a])
  <2>1. s \in Statement /\ Execute(s) /\ UNCHANGED <<attempt, files>> /\ todo[a] # <<>>
    BY <1>3, Querying DEF Query
  <2>2. Final(s) => files.reports # None
    <3>1. CASE a \in Workers
      <4>1. Coherent(attempt[a], todo[a])
        BY <3>1 DEF Base, Lists
      <4>2. s = todo[a][1] /\ 1 \in 1..Len(todo[a])
        BY <2>1, <4>1 DEF Coherent
      <4> HIDE DEF s
      <4> QED BY <3>1, <4>1, <4>2 DEF Coherent, Shown, Past
    <3>2. CASE a \in Requests
      <4>1. s = Queueing
        BY <2>1, <3>2 DEF Base, Lists
      <4> QED BY <4>1 DEF Queueing, Final
    <3>3. CASE a \in Analysts
      <4>1. s.do = "audit"
        <5>1. PICK f \in FindingIds, status \in FindingStatus :
                todo[a] = <<[do |-> "audit", finding |-> f, status |-> status]>>
          BY <2>1, <3>3 DEF Base, Lists
        <5> QED BY <5>1
      <4> QED BY <4>1 DEF Final
    <3> QED BY <1>3, <3>1, <3>2, <3>3 DEF Actors
  <2> HIDE DEF s
  <2>3. CASE Final(s)
    BY <2>1, <2>2, <2>3 DEF Shown
  <2>4. CASE ~Final(s)
    BY <2>1, <2>4, Changing DEF Shown
  <2> QED BY <2>3, <2>4
<1>4. ASSUME NEW w \in Workers, NEW t, NEW owed, Go(w, t, owed), t.pc \notin Past,
             UNCHANGED <<files, run>>
      PROVE  Shown'
  <2>1. attempt'[w] = t /\ \A v \in Workers \ {w} : attempt'[v] = attempt[v]
    BY <1>4 DEF Go, Base, TypeOK
  <2> QED BY <1>4, <2>1 DEF Shown
<1>5. ASSUME NEW a \in Actors, QueryFails(a) PROVE Shown'
  <2>1. UNCHANGED <<files, run>>
    BY <1>5 DEF QueryFails, database
  <2>2. CASE UNCHANGED attempt
    BY <1>1, <2>1, <2>2
  <2>3. CASE a \in Workers /\ Throw(a)
    <3>1. [attempt[a] EXCEPT !.pc = "fail"].pc = "fail"
      BY <2>3 DEF Base, TypeOK, Attempt
    <3> QED BY <1>4, <2>1, <2>3, <3>1 DEF Throw, Past
  <2> QED BY <1>5, <2>2, <2>3 DEF QueryFails
<1>6. ASSUME NEW w \in Workers, CrashWorker(w) PROVE Shown'
  BY <1>4, <1>6, Idle DEF CrashWorker, Past, database
<1>7. ASSUME NEW q \in Requests, Serve(q) PROVE UNCHANGED <<attempt, files, run>>
  BY <1>7 DEF Serve, Approve, Enqueue, Answer, database
<1> QED BY <1>1, <1>2, <1>3, <1>5, <1>6, <1>7
  DEF Next, Triage, LoseLock, CrashApi, Stalled, Evict, Revoke, database, vars

\* With persistence required a row is complete before BullMQ hears of it, and
\* while no worker loses the lock of a job it still executes, one attempt at a
\* time writes the row and the reports.
Durable == DbRequired /\ "stall" \notin Faults

Agreed(e) == run # None /\ run.result = e /\ run.gate = GateOf(e)

\* The statements of recordCompletedScan that are left, and what is due when
\* none is.
Owes(t, owed) ==
  t.pc = "complete" =>
    IF owed = <<>> THEN Agreed(Executed(t.results))
    ELSE /\ owed[Len(owed)].do = "result"
         /\ owed[Len(owed)].result = Executed(t.results)
         /\ run = None => Len(owed) > 1 /\ owed[1].do = "plan"

Single(w) ==
  /\ attempt[w].pc # "idle" => job.owner = w
  /\ attempt[w].pc \in Past => files.reports = Executed(attempt[w].results)
  /\ Owes(attempt[w], todo[w])

Acknowledged ==
  /\ \A w \in Workers : Single(w)
  /\ job.state = "completed" => Agreed(files.reports) /\ files.reports # None

\* What Single says of an attempt that is idle, and of one that has just failed.
LEMMA Nothing ==
  ASSUME NEW t, NEW owed, t.pc \in {"idle", "authorize", "scan", "report", "fail"}
  PROVE  /\ t.pc \in Past => FALSE
         /\ Owes(t, owed)
BY DEF Past, Owes

\* A step of the attempt that holds the job.
LEMMA Holding ==
  ASSUME Base, Acknowledged, NEW w \in Workers, NEW t, NEW owed, Go(w, t, owed),
         \A v \in Workers \ {w} : attempt[v].pc = "idle",
         job'.owner = w, job'.state # "completed", run' = run,
         t.pc \in Past => files'.reports = Executed(t.results),
         Owes(t, owed)
  PROVE  Acknowledged'
<1>1. /\ attempt'[w] = t /\ todo'[w] = owed
      /\ \A v \in Workers \ {w} : attempt'[v] = attempt[v] /\ todo'[v] = todo[v]
  BY Apart DEF Go, Base, TypeOK
<1>2. Single(w)'
  BY <1>1 DEF Single, Owes, Agreed
<1>3. ASSUME NEW v \in Workers \ {w} PROVE Single(v)'
  BY <1>1, <1>3 DEF Single, Owes, Past
<1> QED BY <1>2, <1>3 DEF Acknowledged

\* While a worker executes the job no other does, and the job is active.
LEMMA OneAtATime ==
  ASSUME Base, Acknowledged, NEW w \in Workers, attempt[w].pc # "idle"
  PROVE  /\ job.owner = w /\ job.state = "active"
         /\ \A v \in Workers \ {w} : attempt[v].pc = "idle"
BY NotNone DEF Base, Jobs, Acknowledged, Single

LEMMA FailAcknowledged ==
  ASSUME Base, Acknowledged, NEW w \in Workers, attempt[w].pc # "idle", Throw(w),
         job' = job, run' = run
  PROVE  Acknowledged'
<1> DEFINE new == [attempt[w] EXCEPT !.pc = "fail"]
<1>1. new.pc = "fail"
  BY DEF Base, TypeOK, Attempt
<1>2. Go(w, new, recordFailedScan)
  BY DEF Throw
<1>3. /\ job'.owner = w /\ job'.state # "completed"
      /\ \A v \in Workers \ {w} : attempt[v].pc = "idle"
  BY OneAtATime
<1> HIDE DEF new
<1>4. Owes(new, recordFailedScan) /\ new.pc \notin Past
  BY <1>1, Nothing
<1> QED BY <1>2, <1>3, <1>4, Holding

LEMMA WorkAcknowledged ==
  ASSUME Base, Acknowledged, NEW w \in Workers, Work(w)
  PROVE  Acknowledged'
<1>1. attempt[w] \in Attempt /\ job \in [state: {"none", "waiting", "active", "completed", "failed"},
                                        owner: Workers \cup {None}, stalls: 0..(MaxStalls + 1)]
  BY DEF Base, TypeOK
<1>2. CASE Take(w)
  <2> DEFINE new == [IdleAttempt EXCEPT !.pc = "scan", !.born = policy]
             asking == [new EXCEPT !.pc = "authorize"]
  <2>1. /\ job.state = "waiting" /\ job' = [job EXCEPT !.state = "active", !.owner = w] /\ run' = run
        /\ Go(w, asking, <<>>) \/ Go(w, new, recordRunningScan)
    BY <1>2 DEF Take, database
  <2>2. new.pc = "scan" /\ asking.pc = "authorize"
    BY Idle DEF Attempt
  <2> HIDE DEF new, asking
  <2>3. job'.owner = w /\ job'.state # "completed"
    BY <1>1, <2>1
  <2>4. \A v \in Workers : attempt[v].pc = "idle"
    BY <2>1, OneAtATime
  <2> QED BY <2>1, <2>2, <2>3, <2>4, Nothing, Holding
<1>3. CASE attempt[w].pc # "idle" /\ ~Settle(w)
  <2>1. /\ job.owner = w /\ job.state = "active"
        /\ \A v \in Workers \ {w} : attempt[v].pc = "idle"
    BY <1>3, OneAtATime
  <2>2. run' = run
    BY Reporting
  <2>3. job' = job
    BY <1>3 DEF Work, Take, At, Authorize, ScanStep, WriteExecution, WriteReports,
      AuthorizeDelivery, Send, RecordDeliveryFails, Complete
  <2>4. CASE Throw(w)
    BY <1>3, <2>2, <2>3, <2>4, FailAcknowledged
  <2>5. ASSUME NEW t, NEW owed, Go(w, t, owed),
               t.pc \in {"idle", "authorize", "scan", "report", "fail"}
        PROVE  Acknowledged'
    BY <2>1, <2>2, <2>3, <2>5, Nothing, Holding
  <2>6. ASSUME NEW t, Go(w, t, <<>>), t.pc \in {"deliver", "send"},
               files'.reports = Executed(t.results)
        PROVE  Acknowledged'
    <3>1. Owes(t, <<>>)
      BY <2>6 DEF Owes
    <3> QED BY <2>1, <2>2, <2>3, <2>6, <3>1, Holding
  <2>7. CASE Authorize(w)
    <3>1. [attempt[w] EXCEPT !.pc = "scan"].pc = "scan"
      BY <1>1 DEF Attempt
    <3> QED BY <2>4, <2>5, <2>7, <3>1 DEF Authorize
  <2>8. CASE ScanStep(w)
    <3>1. ASSUME NEW r
          PROVE  [attempt[w] EXCEPT !.next = attempt[w].next + 1, !.results[attempt[w].next] = r].pc
                   = attempt[w].pc
      BY <1>1 DEF Attempt
    <3>2. attempt[w].pc = "scan"
      BY <2>8 DEF ScanStep, At
    <3> QED BY <2>4, <2>5, <2>8, <3>1, <3>2 DEF ScanStep
  <2>9. CASE WriteExecution(w)
    <3>1. [attempt[w] EXCEPT !.pc = "report"].pc = "report"
      BY <1>1 DEF Attempt
    <3> QED BY <2>4, <2>5, <2>9, <3>1 DEF WriteExecution
  <2>10. CASE WriteReports(w) /\ ~Throw(w)
    <3> DEFINE new == [attempt[w] EXCEPT !.pc = "deliver", !.sinks = Sinks]
    <3>1. Go(w, new, <<>>) /\ files' = [files EXCEPT !.reports = Executed(attempt[w].results)]
      BY <2>10 DEF WriteReports
    <3>2. new.pc = "deliver" /\ new.results = attempt[w].results
      BY <1>1 DEF Attempt
    <3>3. files'.reports = Executed(attempt[w].results)
      BY <3>1 DEF Base, TypeOK
    <3> HIDE DEF new
    <3> QED BY <2>6, <3>1, <3>2, <3>3
  <2>11. CASE (AuthorizeDelivery(w) \/ Send(w)) /\ ~Throw(w)
    <3>1. files'.reports = Executed(attempt[w].results)
      BY <2>11 DEF AuthorizeDelivery, Send, At, Past, Acknowledged, Single
    <3>2. ASSUME NEW sink
          PROVE  LET t == attempt[w]
                     a == [t EXCEPT !.pc = "send"]
                     b == [t EXCEPT !.sinks = @ \ {sink}, !.failed = @ \cup {sink}]
                     c == [t EXCEPT !.pc = "deliver", !.sinks = @ \ {sink}]
                     d == [t EXCEPT !.pc = "deliver", !.sinks = @ \ {sink}, !.failed = @ \cup {sink}]
                 IN  /\ a.pc = "send" /\ a.results = t.results
                     /\ b.pc = t.pc /\ b.results = t.results
                     /\ c.pc = "deliver" /\ c.results = t.results
                     /\ d.pc = "deliver" /\ d.results = t.results
      BY <1>1 DEF Attempt
    <3>3. CASE AuthorizeDelivery(w)
      BY <2>6, <3>1, <3>2, <3>3 DEF AuthorizeDelivery, At
    <3>4. CASE Send(w)
      BY <2>6, <3>1, <3>2, <3>4 DEF Send, At
    <3> QED BY <2>11, <3>3, <3>4
  <2>12. CASE Complete(w) /\ ~Throw(w)
    <3> DEFINE t == attempt[w]
               r == t.results
               e == Executed(r)
               new == [t EXCEPT !.pc = "complete"]
               owed == recordCompletedScan(r, e)
    <3>1. Go(w, new, owed) /\ t.pc = "deliver" /\ files' = files
      BY <2>12 DEF Complete, At
    <3>2. new.pc = "complete" /\ new.results = r
      BY <1>1 DEF Attempt
    <3>3. files'.reports = e
      BY <3>1 DEF Past, Acknowledged, Single
    <3>4. e \in Execution /\ \A n \in Steps : r[n] \in Outcome
      <4>1. N \in Nat /\ t.next = N + 1
        BY <3>1, Reached, ScanConstants DEF Over
      <4>2. t.next > N
        BY <4>1
      <4> QED BY <4>2, Reached
    <3>5. owed = recordCompletedScan(r, e)
      OBVIOUS
    <3> HIDE DEF t, r, owed
    <3>6. /\ owed \in Seq(Statement) /\ Len(owed) > 1 /\ owed[1].do = "plan"
          /\ owed[Len(owed)].do = "result" /\ owed[Len(owed)].result = e
      <4> HIDE DEF e
      <4> QED BY <3>4, <3>5, CompletedOwed
    <3>7. owed # <<>>
      BY <3>6
    <3> HIDE DEF new
    <3>8. Owes(new, owed)
      BY <3>2, <3>6, <3>7 DEF Owes
    <3> QED BY <2>1, <2>2, <2>3, <3>1, <3>2, <3>3, <3>8, Holding
  <2>13. ~Take(w) /\ (RecordDeliveryFails(w) => Throw(w))
    BY <1>3 DEF Take, At, RecordDeliveryFails
  <2> QED BY <1>3, <2>4, <2>7, <2>8, <2>9, <2>10, <2>11, <2>12, <2>13 DEF Work
<1>4. CASE Settle(w)
  <2>1. /\ attempt[w].pc \in {"complete", "fail"} /\ todo[w] = <<>>
        /\ attempt' = [attempt EXCEPT ![w] = IdleAttempt] /\ UNCHANGED <<run, files, todo>>
    BY <1>4 DEF Settle, At, database
  <2>2. /\ job.owner = w /\ \A v \in Workers \ {w} : attempt[v].pc = "idle"
    BY <2>1, OneAtATime
  <2>3. \A v \in Workers : attempt'[v].pc = "idle"
    BY <2>1, <2>2, Idle DEF Base, TypeOK
  <2>4. \A v \in Workers : Single(v)'
    BY <2>3 DEF Single, Owes, Past
  <2>5. job'.state = IF attempt[w].pc = "complete" THEN "completed" ELSE "failed"
    BY <1>1, <1>4, <2>2 DEF Settle
  <2>6. ASSUME attempt[w].pc = "complete"
        PROVE  Agreed(files.reports) /\ files.reports # None
    <3>1. N \in Nat /\ attempt[w].next = N + 1
      BY <2>6, Reached, ScanConstants DEF Over
    <3>2. attempt[w].next > N
      BY <3>1
    <3>3. Executed(attempt[w].results) \in Execution
      BY <3>2, Reached
    <3> QED BY <2>1, <2>6, <3>3, NotNone DEF Acknowledged, Single, Owes, Past
  <2> QED BY <2>1, <2>4, <2>5, <2>6 DEF Acknowledged, Agreed
<1>5. attempt[w].pc = "idle" => Take(w)
  BY DEF Work, At, Authorize, ScanStep, WriteExecution, WriteReports,
    AuthorizeDelivery, Send, RecordDeliveryFails, Complete, Settle
<1> QED BY <1>2, <1>3, <1>4, <1>5

\* Everything else leaves the attempts and what their rows say alone.
LEMMA Untouched ==
  ASSUME Base, Acknowledged, UNCHANGED <<attempt, files>>,
         \A w \in Workers : todo'[w] = todo[w],
         \/ job' = job
         \/ job'.state # "completed" /\ job'.owner = job.owner
         \/ job'.state # "completed" /\ job.owner = None,
         \/ run' = run
         \/ /\ run' # None
            /\ run # None => run'.result = run.result /\ run'.gate = run.gate
  PROVE  Acknowledged'
<1>1. ASSUME NEW e PROVE Agreed(e) => Agreed(e)'
  BY DEF Agreed
<1>2. ASSUME NEW w \in Workers PROVE Single(w)'
  <2>1. Single(w) /\ w # None
    BY NotNone DEF Acknowledged
  <2>2. attempt'[w].pc # "idle" => job'.owner = w
    BY <2>1 DEF Single
  <2>3. run' = None => run = None
    OBVIOUS
  <2>4. Owes(attempt[w], todo[w])'
    BY <1>1, <2>1, <2>3 DEF Single, Owes, Agreed
  <2> QED BY <2>1, <2>2, <2>4 DEF Single
<1>3. job'.state = "completed" => Agreed(files.reports) /\ files.reports # None
  BY DEF Acknowledged
<1> QED BY <1>1, <1>2, <1>3 DEF Acknowledged, Agreed

LEMMA QueryAcknowledged ==
  ASSUME Base, Acknowledged, NEW a \in Actors, Query(a)
  PROVE  Acknowledged'
<1> DEFINE s == Head(todo[a])
           rest == Tail(todo[a])
<1>1. /\ s \in Statement /\ Execute(s) /\ UNCHANGED <<attempt, files, job>> /\ todo[a] # <<>>
      /\ todo' = [todo EXCEPT ![a] = rest]
  BY Querying DEF Query
<1>2. /\ todo'[a] = rest /\ \A b \in Actors \ {a} : todo'[b] = todo[b]
      /\ todo[a] \in Seq(Statement)
  BY <1>1 DEF Base, TypeOK
<1>3. CASE a \notin Workers
  <2>1. s.do \notin {"error", "result"}
    <3>1. CASE a \in Requests
      BY <1>1, <3>1 DEF Base, Lists, Queueing
    <3>2. CASE a \in Analysts
      <4>1. PICK f \in FindingIds, status \in FindingStatus :
              todo[a] = <<[do |-> "audit", finding |-> f, status |-> status]>>
        BY <1>1, <3>2 DEF Base, Lists
      <4> QED BY <4>1
    <3> QED BY <1>3, <3>1, <3>2 DEF Actors
  <2> HIDE DEF s, rest
  <2>2. \A w \in Workers : todo'[w] = todo[w]
    BY <1>2, <1>3, Apart
  <2>3. run # None => run' # None /\ run'.result = run.result /\ run'.gate = run.gate
    BY <1>1, <2>1, Changing, Executing
  <2>4. run = None => run' = run \/ run' # None
    OBVIOUS
  <2> QED BY <1>1, <2>2, <2>3, <2>4, Untouched
<1>4. CASE a \in Workers
  <2>1. attempt[a].pc # "idle"
    BY <1>1, <1>4 DEF Base, Lists, Coherent
  <2>2. /\ job.owner = a /\ job.state = "active"
        /\ \A v \in Workers \ {a} : attempt[v].pc = "idle"
    BY <1>4, <2>1, OneAtATime
  <2>3. \A v \in Workers \ {a} : Single(v)'
    BY <1>1, <2>2 DEF Single, Owes, Past
  <2>4. ASSUME attempt[a].pc = "complete"
        PROVE  IF rest = <<>> THEN run' # None /\ run'.result = Executed(attempt[a].results)
                                   /\ run'.gate = GateOf(Executed(attempt[a].results))
               ELSE /\ rest[Len(rest)].do = "result"
                    /\ rest[Len(rest)].result = Executed(attempt[a].results)
                    /\ run' = None => Len(rest) > 1 /\ rest[1].do = "plan"
    <3> DEFINE owed == todo[a]
               e == Executed(attempt[a].results)
    <3>1. /\ owed \in Seq(Statement) /\ owed # <<>>
          /\ owed[Len(owed)].do = "result" /\ owed[Len(owed)].result = e
          /\ run = None => Len(owed) > 1 /\ owed[1].do = "plan"
      BY <1>1, <1>2, <1>4, <2>4 DEF Acknowledged, Single, Owes
    <3>2. /\ rest \in Seq(Statement) /\ Len(rest) = Len(owed) - 1
          /\ \A i \in 1..Len(rest) : rest[i] = owed[i + 1]
      BY <3>1, HeadTailProperties
    <3>3. s = owed[1] /\ Len(owed) \in Nat \ {0}
      BY <3>1
    <3> HIDE DEF s, rest, owed, e
    <3>4. run' # None
      <4>1. CASE run = None
        BY <1>1, <3>1, <3>3, <4>1, Executing
      <4>2. CASE run # None
        BY <1>1, <4>2, Executing
      <4> QED BY <4>1, <4>2
    <3>5. CASE rest = <<>>
      <4>1. Len(owed) = 1
        BY <3>2, <3>3, <3>5
      <4>2. s.do = "result" /\ s.result = e /\ run # None
        BY <3>1, <3>3, <4>1
      <4>3. run'.result = e /\ run'.gate = GateOf(e)
        BY <1>1, <4>2, Changing
      <4> QED BY <3>4, <3>5, <4>3 DEF e
    <3>6. CASE rest # <<>>
      <4>1. Len(rest) \in 1..Len(rest) /\ Len(rest) + 1 = Len(owed)
        BY <3>2, <3>3, <3>6
      <4>2. rest[Len(rest)] = owed[Len(owed)]
        BY <3>2, <4>1
      <4> QED BY <3>1, <3>4, <3>6, <4>2 DEF e
    <3> QED BY <3>5, <3>6
  <2>5. Single(a)'
    <3>1. todo'[a] = rest /\ UNCHANGED <<attempt, files, job>>
      BY <1>1, <1>2
    <3> HIDE DEF rest, s
    <3>2. Single(a)
      BY <1>4 DEF Acknowledged
    <3> QED BY <2>2, <2>4, <3>1, <3>2 DEF Single, Owes, Agreed
  <2> QED BY <1>1, <2>2, <2>3, <2>5 DEF Acknowledged
<1> QED BY <1>3, <1>4

LEMMA StepAcknowledged ==
  ASSUME Base, Durable, Acknowledged, [Next]_vars
  PROVE  Acknowledged'
<1>1. ASSUME NEW a \in Actors, QueryFails(a) PROVE Acknowledged'
  <2>1. UNCHANGED <<job, run, files>> /\ todo[a] # <<>>
    BY <1>1 DEF QueryFails, database
  <2>2. CASE a \in Workers /\ attempt[a].pc # "fail"
    <3>1. Throw(a)
      BY <1>1, <2>2 DEF QueryFails, Durable
    <3>2. attempt[a].pc # "idle"
      BY <2>1, <2>2 DEF Base, Lists, Coherent
    <3> QED BY <2>1, <2>2, <3>1, <3>2, FailAcknowledged
  <2>3. CASE a \in Workers /\ attempt[a].pc = "fail"
    <3>1. Go(a, attempt[a], <<>>)
      <4>1. attempt' = attempt /\ todo' = [todo EXCEPT ![a] = <<>>]
        BY <1>1, <2>3 DEF QueryFails
      <4> QED BY <2>3, <4>1 DEF Go, Base, TypeOK
    <3>2. /\ job.owner = a /\ job.state = "active"
          /\ \A v \in Workers \ {a} : attempt[v].pc = "idle"
      BY <2>3, OneAtATime
    <3>3. Owes(attempt[a], <<>>) /\ attempt[a].pc \notin Past
      BY <2>3, Nothing
    <3> QED BY <2>1, <2>3, <3>1, <3>2, <3>3, Holding
  <2>4. CASE a \notin Workers
    <3>1. attempt' = attempt /\ todo' = [todo EXCEPT ![a] = <<>>]
      BY <1>1, <2>4 DEF QueryFails
    <3>2. \A w \in Workers : todo'[w] = todo[w]
      BY <2>4, <3>1, Apart DEF Base, TypeOK
    <3> QED BY <2>1, <3>1, <3>2, Untouched
  <2> QED BY <2>2, <2>3, <2>4
<1>2. ASSUME NEW w \in Workers, CrashWorker(w) PROVE Acknowledged'
  <2>1. /\ attempt[w].pc # "idle" /\ UNCHANGED <<run, files>>
        /\ attempt' = [attempt EXCEPT ![w] = IdleAttempt]
    BY <1>2 DEF CrashWorker, Go, database
  <2>2. /\ job.owner = w /\ job.state = "active"
        /\ \A v \in Workers \ {w} : attempt[v].pc = "idle"
    BY <2>1, OneAtATime
  <2>3. \A v \in Workers : attempt'[v].pc = "idle"
    BY <2>1, <2>2, Idle DEF Base, TypeOK
  <2>4. job'.state = "active"
    BY <1>2, <2>2 DEF CrashWorker, Base, TypeOK
  <2>5. \A v \in Workers : Single(v)'
    BY <2>3 DEF Single, Owes, Past
  <2> QED BY <2>4, <2>5 DEF Acknowledged
<1>3. CASE CrashApi
  <2>1. UNCHANGED <<job, run, files, attempt>> /\ \A w \in Workers : todo'[w] = todo[w]
    BY <1>3, Apart DEF CrashApi, database
  <2> QED BY <2>1, Untouched
<1>4. CASE Stalled \/ Evict
  <2>1. UNCHANGED <<run, files, attempt, todo>>
    BY <1>4 DEF Stalled, Evict, database
  <2>2. job \in [state: {"none", "waiting", "active", "completed", "failed"},
                owner: Workers \cup {None}, stalls: 0..(MaxStalls + 1)]
    BY DEF Base, TypeOK
  <2>3. job.owner = None /\ job'.state # "completed"
    <3>1. CASE Stalled
      <4>1. job.owner = None
        BY <3>1 DEF Stalled
      <4>2. job' = [job EXCEPT !.stalls = job.stalls + 1,
                      !.state = IF job.stalls < MaxStalls THEN "waiting" ELSE "failed"]
        BY <3>1 DEF Stalled
      <4>3. job'.state = IF job.stalls < MaxStalls THEN "waiting" ELSE "failed"
        BY <2>2, <4>2
      <4> QED BY <4>1, <4>3
    <3>2. CASE Evict
      <4>1. job.state \in {"completed", "failed"} /\ job'.state = "none"
        BY <3>2 DEF Evict
      <4> QED BY <4>1 DEF Base, Jobs
    <3> QED BY <1>4, <3>1, <3>2
  <2> QED BY <2>1, <2>3, Untouched
<1>5. ASSUME NEW q \in Requests, Serve(q) PROVE Acknowledged'
  <2>1. /\ UNCHANGED <<run, files, attempt>>
        /\ todo' = todo \/ todo' = [todo EXCEPT ![q] = recordQueuedScan]
        /\ job' = job \/ (job.state = "none" /\ job' = [job EXCEPT !.state = "waiting"])
    BY <1>5 DEF Serve, Approve, Enqueue, Answer, database
  <2>2. \A w \in Workers : todo'[w] = todo[w]
    BY <2>1, Apart DEF Base, TypeOK
  <2>3. job' = job \/ (job'.state # "completed" /\ job'.owner = job.owner)
    BY <2>1 DEF Base, TypeOK
  <2> QED BY <2>1, <2>2, <2>3, Untouched
<1>6. ASSUME NEW a \in Analysts, NEW f \in FindingIds, NEW status \in FindingStatus,
             Triage(a, f, status)
      PROVE  Acknowledged'
  <2>1. /\ UNCHANGED <<run, files, attempt, job>>
        /\ \E e : todo' = [todo EXCEPT ![a] = e]
    BY <1>6 DEF Triage
  <2>2. \A w \in Workers : todo'[w] = todo[w]
    BY <2>1, Apart DEF Base, TypeOK
  <2> QED BY <2>1, <2>2, Untouched
<1>7. CASE UNCHANGED <<run, files, attempt, todo, job>>
  BY <1>7, Untouched
<1>8. ~\E w \in Workers : LoseLock(w)
  BY DEF Durable, LoseLock
<1> QED
  BY <1>1, <1>2, <1>3, <1>4, <1>5, <1>6, <1>7, <1>8, WorkAcknowledged, QueryAcknowledged
  DEF Next, Revoke, database, vars

\* With persistence required, and no worker that loses the lock of a job it
\* still executes, what BullMQ holds completed is in the row, with its gate and
\* its reports, whichever statement, disk or process failed on the way.
THEOREM CompletedIsRecorded == Spec => [](Durable => AcknowledgedIsRecorded)
<1>1. Init => Shown /\ (Durable => Acknowledged)
  <2> SUFFICES ASSUME Init PROVE Shown /\ Acknowledged
    OBVIOUS
  <2>1. \A w \in Workers : attempt[w].pc = "idle"
    BY Idle DEF Init
  <2> QED BY <2>1 DEF Init, Shown, Acknowledged, Single, Owes, Past
<1>2. Base /\ Shown /\ [Next]_vars => Shown'
  BY StepShown
<1>3. Base /\ (Durable => Acknowledged) /\ [Next]_vars => (Durable => Acknowledged)'
  BY StepAcknowledged DEF Durable
<1>4. Shown /\ (Durable => Acknowledged) => (Durable => AcknowledgedIsRecorded)
  <2> SUFFICES ASSUME Shown, Acknowledged PROVE AcknowledgedIsRecorded
    OBVIOUS
  <2> QED BY DEF Shown, Acknowledged, Agreed, AcknowledgedIsRecorded
<1> QED BY <1>1, <1>2, <1>3, <1>4, InitBase, StepBase, PTL DEF Spec
-----------------------------------------------------------------------------
(* How a run ends                                                           *)

\* No statement fails, and no worker loses the lock of a job it executes.
Calm == Faults \cap {"stall", "db"} = {}

\* What an attempt still has to write before its job settles, and what is
\* due when it has written it.
EndDue(t, owed) ==
  /\ t.pc = "complete" =>
       IF owed = <<>> THEN run # None => run.status # "running"
       ELSE owed[Len(owed)].do = "result"
  /\ t.pc = "fail" =>
       IF owed = <<>> THEN run # None /\ run.status # "running" /\ run.gate = "error"
       ELSE /\ owed[Len(owed)].do = "error"
            /\ run = None => Len(owed) > 1 /\ owed[1].do = "plan"

Ending(w) ==
  /\ attempt[w].pc # "idle" => job.owner = w
  /\ EndDue(attempt[w], todo[w])

Settled ==
  job.state \in {"completed", "failed"} /\ job.stalls <= MaxStalls =>
    /\ run # None => run.status # "running"
    /\ job.state = "failed" => run # None /\ run.gate = "error"

Recording == (\A w \in Workers : Ending(w)) /\ Settled

\* While a worker executes the job no other does, and the job is active.
LEMMA OneRecords ==
  ASSUME Base, Recording, NEW w \in Workers, attempt[w].pc # "idle"
  PROVE  /\ job.owner = w /\ job.state = "active"
         /\ \A v \in Workers \ {w} : attempt[v].pc = "idle"
BY NotNone DEF Base, Jobs, Recording, Ending

LEMMA HoldingEnds ==
  ASSUME Base, Recording, NEW w \in Workers, NEW t, NEW owed, Go(w, t, owed),
         \A v \in Workers \ {w} : attempt[v].pc = "idle",
         job'.owner = w, job'.state = "active", run' = run,
         EndDue(t, owed)
  PROVE  Recording'
<1>1. /\ attempt'[w] = t /\ todo'[w] = owed
      /\ \A v \in Workers \ {w} : attempt'[v] = attempt[v] /\ todo'[v] = todo[v]
  BY Apart DEF Go, Base, TypeOK
<1>2. Ending(w)'
  BY <1>1 DEF Ending, EndDue
<1>3. ASSUME NEW v \in Workers \ {w} PROVE Ending(v)'
  BY <1>1, <1>3 DEF Ending, EndDue
<1> QED BY <1>2, <1>3 DEF Recording, Settled

LEMMA FailEnds ==
  ASSUME NEW t, t.pc = "fail"
  PROVE  EndDue(t, recordFailedScan)
<1>1. 2 > 1 /\ recordFailedScan[Len(recordFailedScan)].do = "error"
  BY FailedOwed
<1> QED BY <1>1, FailedOwed DEF EndDue

LEMMA WorkEnds ==
  ASSUME Base, Recording, NEW w \in Workers, Work(w)
  PROVE  Recording'
<1>1. attempt[w] \in Attempt /\ job \in [state: {"none", "waiting", "active", "completed", "failed"},
                                        owner: Workers \cup {None}, stalls: 0..(MaxStalls + 1)]
  BY DEF Base, TypeOK
<1>2. CASE Take(w)
  <2> DEFINE new == [IdleAttempt EXCEPT !.pc = "scan", !.born = policy]
             asking == [new EXCEPT !.pc = "authorize"]
  <2>1. /\ job.state = "waiting" /\ job' = [job EXCEPT !.state = "active", !.owner = w] /\ run' = run
        /\ Go(w, asking, <<>>) \/ Go(w, new, recordRunningScan)
    BY <1>2 DEF Take, database
  <2>2. new.pc = "scan" /\ asking.pc = "authorize"
    BY Idle DEF Attempt
  <2> HIDE DEF new, asking
  <2>3. job'.owner = w /\ job'.state = "active"
    BY <1>1, <2>1
  <2>4. \A v \in Workers : attempt[v].pc = "idle"
    BY <2>1, OneRecords
  <2>5. EndDue(asking, <<>>) /\ EndDue(new, recordRunningScan)
    BY <2>2 DEF EndDue
  <2> QED BY <2>1, <2>3, <2>4, <2>5, HoldingEnds
<1>3. CASE attempt[w].pc # "idle" /\ ~Settle(w)
  <2>1. /\ job.owner = w /\ job.state = "active"
        /\ \A v \in Workers \ {w} : attempt[v].pc = "idle"
    BY <1>3, OneRecords
  <2>2. run' = run
    BY Reporting
  <2>3. job' = job
    BY <1>3 DEF Work, Take, At, Authorize, ScanStep, WriteExecution, WriteReports,
      AuthorizeDelivery, Send, RecordDeliveryFails, Complete
  <2>4. CASE Throw(w)
    <3>1. [attempt[w] EXCEPT !.pc = "fail"].pc = "fail"
      BY <1>1 DEF Attempt
    <3> QED BY <2>1, <2>2, <2>3, <2>4, <3>1, FailEnds, HoldingEnds DEF Throw
  <2>5. ASSUME NEW t, NEW owed, Go(w, t, owed), t.pc \notin {"complete", "fail"}
        PROVE  Recording'
    <3>1. EndDue(t, owed)
      BY <2>5 DEF EndDue
    <3> QED BY <2>1, <2>2, <2>3, <2>5, <3>1, HoldingEnds
  <2>6. CASE Complete(w) /\ ~Throw(w)
    <3> DEFINE t == attempt[w]
               r == t.results
               e == Executed(r)
               new == [t EXCEPT !.pc = "complete"]
               owed == recordCompletedScan(r, e)
    <3>1. Go(w, new, owed) /\ t.pc = "deliver"
      BY <2>6 DEF Complete, At
    <3>2. new.pc = "complete"
      BY <1>1 DEF Attempt
    <3>3. e \in Execution /\ \A n \in Steps : r[n] \in Outcome
      <4>1. N \in Nat /\ t.next = N + 1
        BY <3>1, Reached, ScanConstants DEF Over
      <4>2. t.next > N
        BY <4>1
      <4> QED BY <4>2, Reached
    <3>4. owed = recordCompletedScan(r, e)
      OBVIOUS
    <3> HIDE DEF t, r, owed
    <3>5. /\ owed \in Seq(Statement) /\ Len(owed) > 1
          /\ owed[Len(owed)].do = "result"
      <4> HIDE DEF e
      <4> QED BY <3>3, <3>4, CompletedOwed
    <3>6. owed # <<>>
      BY <3>5
    <3> HIDE DEF new
    <3>7. EndDue(new, owed)
      BY <3>2, <3>5, <3>6 DEF EndDue
    <3> QED BY <2>1, <2>2, <2>3, <3>1, <3>7, HoldingEnds
  <2>7. ASSUME NEW sink
        PROVE  LET t == attempt[w]
                   a == [t EXCEPT !.pc = "send"]
                   b == [t EXCEPT !.sinks = @ \ {sink}, !.failed = @ \cup {sink}]
                   c == [t EXCEPT !.pc = "deliver", !.sinks = @ \ {sink}]
                   d == [t EXCEPT !.pc = "deliver", !.sinks = @ \ {sink}, !.failed = @ \cup {sink}]
               IN  /\ a.pc = "send" /\ b.pc = t.pc /\ c.pc = "deliver" /\ d.pc = "deliver"
                   /\ [t EXCEPT !.pc = "scan"].pc = "scan"
                   /\ [t EXCEPT !.pc = "report"].pc = "report"
                   /\ [t EXCEPT !.pc = "deliver", !.sinks = Sinks].pc = "deliver"
    BY <1>1 DEF Attempt
  <2>8. CASE Authorize(w)
    BY <2>4, <2>5, <2>7, <2>8 DEF Authorize
  <2>9. CASE ScanStep(w)
    <3>1. ASSUME NEW r
          PROVE  [attempt[w] EXCEPT !.next = attempt[w].next + 1, !.results[attempt[w].next] = r].pc
                   = attempt[w].pc
      BY <1>1 DEF Attempt
    <3>2. attempt[w].pc = "scan"
      BY <2>9 DEF ScanStep, At
    <3> QED BY <2>4, <2>5, <2>9, <3>1, <3>2 DEF ScanStep
  <2>10. CASE WriteExecution(w)
    BY <2>4, <2>5, <2>7, <2>10 DEF WriteExecution
  <2>11. CASE WriteReports(w)
    BY <2>4, <2>5, <2>7, <2>11 DEF WriteReports
  <2>12. CASE AuthorizeDelivery(w)
    BY <2>5, <2>7, <2>12 DEF AuthorizeDelivery, At
  <2>13. CASE Send(w)
    BY <2>5, <2>7, <2>13 DEF Send, At
  <2>14. ~Take(w) /\ (RecordDeliveryFails(w) => Throw(w))
    BY <1>3 DEF Take, At, RecordDeliveryFails
  <2> QED BY <1>3, <2>4, <2>6, <2>8, <2>9, <2>10, <2>11, <2>12, <2>13, <2>14 DEF Work
<1>4. CASE Settle(w)
  <2>1. /\ attempt[w].pc \in {"complete", "fail"} /\ todo[w] = <<>>
        /\ attempt' = [attempt EXCEPT ![w] = IdleAttempt] /\ UNCHANGED <<run, todo>>
    BY <1>4 DEF Settle, At, database
  <2>2. /\ job.owner = w /\ \A v \in Workers \ {w} : attempt[v].pc = "idle"
    BY <2>1, OneRecords
  <2>3. \A v \in Workers : attempt'[v].pc = "idle"
    BY <2>1, <2>2, Idle DEF Base, TypeOK
  <2>4. \A v \in Workers : Ending(v)'
    BY <2>3 DEF Ending, EndDue
  <2>5. job'.state = IF attempt[w].pc = "complete" THEN "completed" ELSE "failed"
    BY <1>1, <1>4, <2>2 DEF Settle
  <2>6. EndDue(attempt[w], <<>>)
    BY <2>1 DEF Recording, Ending
  <2>7. Settled'
    BY <2>1, <2>5, <2>6 DEF Settled, EndDue
  <2> QED BY <2>4, <2>7 DEF Recording
<1>5. attempt[w].pc = "idle" => Take(w)
  BY DEF Work, At, Authorize, ScanStep, WriteExecution, WriteReports,
    AuthorizeDelivery, Send, RecordDeliveryFails, Complete, Settle
<1> QED BY <1>2, <1>3, <1>4, <1>5

\* Everything else leaves the attempts and what they owe alone; at most a row
\* is shown as queued.
LEMMA UntouchedEnds ==
  ASSUME Base, Recording, attempt' = attempt,
         \A w \in Workers : todo'[w] = todo[w],
         \/ job' = job
         \/ job'.state \in {"none", "waiting", "active"} /\ job'.owner = job.owner
         \/ job.owner = None /\ (job'.state = "failed" => job'.stalls > MaxStalls)
                             /\ job'.state # "completed" /\ job'.stalls \in Nat,
         \/ run' = run
         \/ /\ run' # None /\ run'.status # "running"
            /\ run # None => run'.gate = run.gate
  PROVE  Recording'
<1>1. ASSUME NEW w \in Workers PROVE Ending(w)'
  <2>1. Ending(w) /\ w # None
    BY NotNone DEF Recording
  <2>2. attempt'[w].pc # "idle" => job'.owner = w
    BY <2>1 DEF Ending
  <2>3. EndDue(attempt[w], todo[w])'
    BY <2>1 DEF Ending, EndDue
  <2> QED BY <2>2, <2>3 DEF Ending
<1>2. MaxStalls \in Nat
  BY ScanConstants
<1>3. Settled'
  BY <1>2 DEF Recording, Settled
<1> QED BY <1>1, <1>3 DEF Recording

LEMMA QueryEnds ==
  ASSUME Base, Recording, NEW a \in Actors, Query(a)
  PROVE  Recording'
<1> DEFINE s == Head(todo[a])
           rest == Tail(todo[a])
<1>1. /\ s \in Statement /\ Execute(s) /\ UNCHANGED <<attempt, job>> /\ todo[a] # <<>>
      /\ todo' = [todo EXCEPT ![a] = rest]
  BY Querying DEF Query
<1>2. /\ todo'[a] = rest /\ \A b \in Actors \ {a} : todo'[b] = todo[b]
      /\ todo[a] \in Seq(Statement)
  BY <1>1 DEF Base, TypeOK
<1>3. CASE a \notin Workers
  <2>1. s.do = "audit" \/ (s.do = "plan" /\ s.status = "queued")
    <3>1. CASE a \in Requests
      BY <1>1, <3>1 DEF Base, Lists, Queueing
    <3>2. CASE a \in Analysts
      <4>1. PICK f \in FindingIds, status \in FindingStatus :
              todo[a] = <<[do |-> "audit", finding |-> f, status |-> status]>>
        BY <1>1, <3>2 DEF Base, Lists
      <4> QED BY <4>1
    <3> QED BY <1>3, <3>1, <3>2 DEF Actors
  <2> HIDE DEF s, rest
  <2>2. \A w \in Workers : todo'[w] = todo[w]
    BY <1>2, <1>3, Apart
  <2>3. \/ run' = run
        \/ /\ run' # None /\ run'.status # "running"
           /\ run # None => run'.gate = run.gate
    BY <1>1, <2>1, Changing
  <2> QED BY <1>1, <2>2, <2>3, UntouchedEnds
<1>4. CASE a \in Workers
  <2>1. attempt[a].pc # "idle"
    BY <1>1, <1>4 DEF Base, Lists, Coherent
  <2>2. /\ job.owner = a /\ job.state = "active"
        /\ \A v \in Workers \ {a} : attempt[v].pc = "idle"
    BY <1>4, <2>1, OneRecords
  <2>3. \A v \in Workers \ {a} : Ending(v)'
    BY <1>1, <2>2 DEF Ending, EndDue
  <2>4. EndDue(attempt[a], todo[a])'
    <3> DEFINE owed == todo[a]
               t == attempt[a]
    <3>1. owed \in Seq(Statement) /\ owed # <<>> /\ EndDue(t, owed)
      BY <1>1, <1>2, <1>4 DEF Recording, Ending
    <3>2. /\ rest \in Seq(Statement) /\ Len(rest) = Len(owed) - 1
          /\ \A i \in 1..Len(rest) : rest[i] = owed[i + 1]
      BY <3>1, HeadTailProperties
    <3>3. s = owed[1] /\ Len(owed) \in Nat \ {0}
      BY <3>1
    <3>4. /\ rest = <<>> => Len(owed) = 1
          /\ rest # <<>> => rest[Len(rest)] = owed[Len(owed)]
      <4> HIDE DEF s, rest, owed
      <4>1. CASE rest = <<>>
        BY <3>2, <3>3, <4>1
      <4>2. CASE rest # <<>>
        <5>1. Len(rest) \in 1..Len(rest) /\ Len(rest) + 1 = Len(owed)
          BY <3>2, <3>3, <4>2
        <5> QED BY <3>2, <4>2, <5>1
      <4> QED BY <4>1, <4>2
    <3>5. attempt'[a] = t /\ todo'[a] = rest
      BY <1>1, <1>2
    <3> HIDE DEF s, rest, owed, t
    <3>6. run # None => run' # None
      BY <1>1, Executing
    <3>7. CASE t.pc = "complete"
      <4>1. rest = <<>> /\ run' # None => run'.status # "running"
        <5>1. SUFFICES ASSUME rest = <<>>, run' # None PROVE run'.status # "running"
          OBVIOUS
        <5>2. s.do = "result"
          BY <3>1, <3>3, <3>4, <3>7, <5>1 DEF EndDue
        <5>3. run # None => run'.status = s.result.status
          BY <1>1, <5>2, Changing
        <5>4. s.result.status # "running"
          BY <1>1, <5>2 DEF Statement, Execution
        <5>5. run = None => run' = None
          BY <1>1, <5>2 DEF Execute, storeResult
        <5> QED BY <5>1, <5>3, <5>4, <5>5
      <4>2. rest # <<>> => rest[Len(rest)].do = "result"
        BY <3>1, <3>4, <3>7 DEF EndDue
      <4> QED BY <3>5, <3>7, <4>1, <4>2 DEF EndDue
    <3>8. CASE t.pc = "fail"
      <4>1. /\ owed[Len(owed)].do = "error"
            /\ run = None => Len(owed) > 1 /\ owed[1].do = "plan"
        BY <3>1, <3>8 DEF EndDue
      <4>2. run' # None
        <5>1. run = None => run' # None
          BY <1>1, <3>3, <4>1, Changing
        <5> QED BY <3>6, <5>1
      <4>3. rest = <<>> => run'.status # "running" /\ run'.gate = "error"
        <5>1. SUFFICES ASSUME rest = <<>> PROVE run'.status # "running" /\ run'.gate = "error"
          OBVIOUS
        <5>2. s.do = "error" /\ run # None
          BY <3>3, <3>4, <4>1, <5>1
        <5> QED BY <1>1, <5>2, Changing
      <4>4. rest # <<>> => rest[Len(rest)].do = "error"
        BY <3>4, <4>1
      <4> QED BY <3>5, <3>8, <4>2, <4>3, <4>4 DEF EndDue
    <3> QED BY <3>5, <3>7, <3>8 DEF EndDue
  <2>5. Ending(a)'
    <3>1. UNCHANGED <<attempt, job>>
      BY <1>1
    <3> QED BY <2>2, <2>4, <3>1 DEF Ending
  <2> QED BY <1>1, <2>2, <2>3, <2>5 DEF Recording, Settled
<1> QED BY <1>3, <1>4

LEMMA StepEnds ==
  ASSUME Base, Calm, Recording, [Next]_vars
  PROVE  Recording'
<1>1. job \in [state: {"none", "waiting", "active", "completed", "failed"},
              owner: Workers \cup {None}, stalls: 0..(MaxStalls + 1)]
  BY DEF Base, TypeOK
<1>2. ASSUME NEW w \in Workers, CrashWorker(w) PROVE Recording'
  <2>1. /\ attempt[w].pc # "idle" /\ run' = run
        /\ attempt' = [attempt EXCEPT ![w] = IdleAttempt]
    BY <1>2 DEF CrashWorker, Go, database
  <2>2. /\ job.owner = w /\ job.state = "active"
        /\ \A v \in Workers \ {w} : attempt[v].pc = "idle"
    BY <2>1, OneRecords
  <2>3. \A v \in Workers : attempt'[v].pc = "idle"
    BY <2>1, <2>2, Idle DEF Base, TypeOK
  <2>4. job'.state = "active"
    BY <1>1, <1>2, <2>2 DEF CrashWorker
  <2>5. \A v \in Workers : Ending(v)'
    BY <2>3 DEF Ending, EndDue
  <2> QED BY <2>4, <2>5 DEF Recording, Settled
<1>3. CASE CrashApi
  <2>1. UNCHANGED <<job, run, attempt>> /\ \A w \in Workers : todo'[w] = todo[w]
    BY <1>3, Apart DEF CrashApi, database
  <2> QED BY <2>1, UntouchedEnds
<1>4. CASE Stalled
  <2>1. job.owner = None /\ UNCHANGED <<run, attempt, todo>>
    BY <1>4 DEF Stalled, database
  <2>2. job' = [job EXCEPT !.stalls = job.stalls + 1,
                  !.state = IF job.stalls < MaxStalls THEN "waiting" ELSE "failed"]
    BY <1>4 DEF Stalled
  <2>3. MaxStalls \in Nat /\ job.stalls \in Nat
    BY <1>1, ScanConstants
  <2>4. /\ job'.state = IF job.stalls < MaxStalls THEN "waiting" ELSE "failed"
        /\ job'.stalls = job.stalls + 1
    BY <1>1, <2>2
  <2>5. /\ job'.state = "failed" => job'.stalls > MaxStalls
        /\ job'.state # "completed" /\ job'.stalls \in Nat
    BY <2>3, <2>4
  <2> QED BY <2>1, <2>5, UntouchedEnds
<1>5. CASE Evict
  <2>1. /\ UNCHANGED <<run, attempt, todo>>
        /\ job.state \in {"completed", "failed"}
        /\ job' = [state |-> "none", owner |-> None, stalls |-> 0]
    BY <1>5 DEF Evict, database
  <2>2. job.owner = None
    BY <2>1 DEF Base, Jobs
  <2> QED BY <2>1, <2>2, UntouchedEnds
<1>6. ASSUME NEW q \in Requests, Serve(q) PROVE Recording'
  <2>1. /\ UNCHANGED <<run, attempt>>
        /\ todo' = todo \/ todo' = [todo EXCEPT ![q] = recordQueuedScan]
        /\ job' = job \/ (job.state = "none" /\ job' = [job EXCEPT !.state = "waiting"])
    BY <1>6 DEF Serve, Approve, Enqueue, Answer, database
  <2>2. \A w \in Workers : todo'[w] = todo[w]
    BY <2>1, Apart DEF Base, TypeOK
  <2>3. job' = job \/ (job'.state = "waiting" /\ job'.owner = job.owner)
    BY <1>1, <2>1
  <2> QED BY <2>1, <2>2, <2>3, UntouchedEnds
<1>7. ASSUME NEW a \in Analysts, NEW f \in FindingIds, NEW status \in FindingStatus,
             Triage(a, f, status)
      PROVE  Recording'
  <2>1. /\ UNCHANGED <<run, attempt, job>>
        /\ \E e : todo' = [todo EXCEPT ![a] = e]
    BY <1>7 DEF Triage
  <2>2. \A w \in Workers : todo'[w] = todo[w]
    BY <2>1, Apart DEF Base, TypeOK
  <2> QED BY <2>1, <2>2, UntouchedEnds
<1>8. CASE UNCHANGED <<run, attempt, todo, job>>
  BY <1>8, UntouchedEnds
<1>9. ~(\E w \in Workers : LoseLock(w)) /\ ~(\E a \in Actors : QueryFails(a))
  BY DEF Calm, LoseLock, QueryFails
<1> QED
  BY <1>2, <1>3, <1>4, <1>5, <1>6, <1>7, <1>8, <1>9, WorkEnds, QueryEnds
  DEF Next, Revoke, database, vars

\* Where no statement fails and no worker loses the lock of a job it still
\* executes, nothing is left shown as running when everything is over, and a
\* job that its worker failed has its row in error: whatever crashed, however
\* often the job was stalled or queued anew, and whichever late requests still
\* wrote their row.
THEOREM EndIsWritten == Spec => [](Calm => EndIsRecorded)
<1>1. Init => (Calm => Recording)
  <2> SUFFICES ASSUME Init PROVE Recording
    OBVIOUS
  <2>1. \A w \in Workers : attempt[w].pc = "idle"
    BY Idle DEF Init
  <2> QED BY <2>1 DEF Init, Recording, Ending, EndDue, Settled
<1>2. Base /\ (Calm => Recording) /\ [Next]_vars => (Calm => Recording)'
  BY StepEnds DEF Calm
<1>3. (Calm => Recording) => (Calm => EndIsRecorded)
  BY DEF Recording, Settled, EndIsRecorded, Quiet
<1> QED BY <1>1, <1>2, <1>3, InitBase, StepBase, PTL DEF Spec
=============================================================================
