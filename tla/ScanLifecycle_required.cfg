SPECIFICATION Spec

CONSTANTS
  q1 = q1
  q2 = q2
  w1 = w1
  w2 = w2
  a1 = a1
  leak = leak
  gap = gap
  None = None
  Requests = {q1, q2}
  Workers = {w1}
  Analysts = {}
  N = 2
  Outcomes <- TwoSteps
  Restricted = {}
  ApiExternal = FALSE
  WorkerExternal = FALSE
  Sinks = {}
  RequiredSinks = {}
  DbRequired = TRUE
  MaxStalls = 1
  Faults = {"crash", "db", "disk"}
  profile <- InternalProfile
  classification = "internal"
  FindingIds = {leak, gap}

INVARIANTS
  AcknowledgedIsRecorded

CHECK_DEADLOCK FALSE
