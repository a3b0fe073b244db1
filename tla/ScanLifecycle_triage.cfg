SPECIFICATION Spec

CONSTANTS
  q1 = q1
  q2 = q2
  w1 = w1
  w2 = w2
  a1 = a1
  leak = leak
  gap = gap
  None = None
  Requests = {q1}
  Workers = {w1, w2}
  Analysts = {a1}
  N = 1
  Outcomes <- OneStep
  Restricted = {}
  ApiExternal = FALSE
  WorkerExternal = FALSE
  Sinks = {}
  RequiredSinks = {}
  DbRequired = FALSE
  MaxStalls = 1
  Faults = {"stall"}
  profile <- InternalProfile
  classification = "internal"
  FindingIds = {leak}

INVARIANTS
  TriageAudited
PROPERTIES
  StepResultsKept

CHECK_DEADLOCK FALSE
