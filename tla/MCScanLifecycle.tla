-------------------------- MODULE MCScanLifecycle --------------------------
EXTENDS ScanLifecycle

CONSTANTS q1, q2, w1, w2, a1, leak, gap

Secret == [id |-> leak, type |-> "secret", scope |-> "application",
           severity |-> "high", sensitive |-> FALSE, status |-> "open"]
Gap == [id |-> gap, type |-> "other", scope |-> "platform",
        severity |-> "high", sensitive |-> FALSE, status |-> "open"]

Clean == [status |-> "passed", findings |-> {}]
Leaking == [status |-> "failed", findings |-> {Secret}]
Broken == [status |-> "error", findings |-> {Gap}]

\* An internal check, then an external scanner.
TwoSteps == <<{Clean, Leaking}, {Clean, Broken}>>
\* The external scanner's tool may be missing.
PlainSteps == <<{Clean}, {Clean, Broken}>>
\* Findings of one step, found or gone when the scan runs again.
OneStep == <<{Clean, Leaking}>>

InternalProfile == [name |-> "other", failThreshold |-> "high"]
=============================================================================
