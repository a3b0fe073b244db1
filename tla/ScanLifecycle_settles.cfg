SPECIFICATION FairSpec

CONSTANTS
  q1 = q1
  q2 = q2
  w1 = w1
  w2 = w2
  a1 = a1
  leak = leak
  gap = gap
  None = None
  Requests = {q1}
  Workers = {w1}
  Analysts = {}
  N = 2
  Outcomes <- TwoSteps
  Restricted = {2}
  ApiExternal = TRUE
  WorkerExternal = TRUE
  Sinks = {"telemetry", "defectdojo"}
  RequiredSinks = {"telemetry"}
  DbRequired = FALSE
  MaxStalls = 1
  Faults = {"crash", "disk", "sink", "policy"}
  profile <- InternalProfile
  classification = "internal"
  FindingIds = {leak, gap}

INVARIANTS
  EndIsRecorded
  RevocationHolds
PROPERTIES
  JobEnds

CHECK_DEADLOCK FALSE
