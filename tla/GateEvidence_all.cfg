SPECIFICATION Spec

CONSTANTS
  f1 = f1
  f2 = f2
  FindingIds = {f1, f2}
  Reportable <- Findings

INVARIANTS
  GapsAreNoPass
  ThresholdHeeded
  OnlyTheProjectFails
PROPERTIES
  MoreEvidenceNeverHelps

CHECK_DEADLOCK FALSE
