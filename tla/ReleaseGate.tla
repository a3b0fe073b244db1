---------------------------- MODULE ReleaseGate ----------------------------
(***************************************************************************)
(* The release gate (packages/core/src/index.ts): evaluateGate turns the   *)
(* findings of a scan into pass, warning or fail. A finding is the record  *)
(* of the fields the gate reads; `sensitive` says that its title,          *)
(* description or recommendation names one of the sensitive keywords.      *)
(* Messages are left out: a blocking reason is the finding it is about.    *)
(***************************************************************************)
EXTENDS Integers, FiniteSets

CONSTANT FindingIds

Severity == {"critical", "high", "medium", "low", "info"}
FindingStatus == {"open", "accepted", "false-positive", "fixed", "suppressed"}

Finding == [id: FindingIds, type: {"secret", "other"},
            scope: {"application", "platform"}, severity: Severity,
            sensitive: BOOLEAN, status: FindingStatus]

Profile == [name: {"pre-release", "healthcare-reference", "other"},
            failThreshold: Severity \ {"info"}]

DataClassification ==
  {"public", "internal", "confidential", "sensitive", "health-data"}

severityOrder ==
  [critical |-> 5, high |-> 4, medium |-> 3, low |-> 2, info |-> 1]

AtLeast(finding, severity) ==
  severityOrder[finding.severity] >= severityOrder[severity]

applicationFindings(findings) == {f \in findings : f.scope = "application"}
platformFindings(findings) == {f \in findings : f.scope = "platform"}
OpenOnes(findings) == {f \in findings : f.status = "open"}

\* Accepted and fixed findings still count here; platform gaps never do.
summarizeFindings(findings) ==
  [s \in Severity |-> Cardinality({f \in findings : f.severity = s})]

\* What fails the gate, whatever the threshold of the profile is.
Blocks(f, profile, classification) ==
  \/ f.type = "secret"
  \/ f.severity = "critical"
  \/ profile.name = "pre-release" /\ f.severity = "high"
  \/ profile.name = "healthcare-reference" /\ AtLeast(f, "medium")
  \/ /\ classification \in {"sensitive", "health-data"}
     /\ f.severity = "medium"
     /\ f.sensitive

\* Mutant: the scope of a finding is not looked at.
BlockingAnyScope(findings, profile, classification) ==
  {f \in OpenOnes(findings) : Blocks(f, profile, classification)}

Blocking(findings, profile, classification) ==
  {f \in OpenOnes(applicationFindings(findings)) :
     Blocks(f, profile, classification)}

\* Mutant: the warning threshold is always medium.
warningThresholdFixed(profile) == "medium"

warningThreshold(profile) ==
  IF severityOrder[profile.failThreshold] > severityOrder.medium
  THEN "medium" ELSE "low"

Warnings(findings, profile) ==
  {f \in OpenOnes(applicationFindings(findings)) :
     AtLeast(f, warningThreshold(profile))}

\* Mutant: readiness gaps are not looked at.
NoGaps(findings) == {}

ReadinessGaps(findings) ==
  {f \in OpenOnes(platformFindings(findings)) : AtLeast(f, "medium")}

\* Mutant: the scan's readiness gaps decide before its findings do.
evaluateGateGapsFirst(findings, profile, classification) ==
  LET blocking == Blocking(findings, profile, classification)
      gaps == ReadinessGaps(findings)
  IN [result |-> IF gaps # {} THEN "warning"
                 ELSE IF blocking # {} THEN "fail"
                 ELSE IF Warnings(findings, profile) # {} THEN "warning"
                 ELSE "pass",
      blockingReasons |-> IF gaps # {} THEN gaps ELSE blocking,
      summary |-> summarizeFindings(applicationFindings(findings))]

evaluateGate(findings, profile, classification) ==
  LET blocking == Blocking(findings, profile, classification)
      gaps == ReadinessGaps(findings)
  IN [result |-> IF blocking # {} THEN "fail"
                 ELSE IF Warnings(findings, profile) \cup gaps # {} THEN "warning"
                 ELSE "pass",
      blockingReasons |-> IF blocking # {} THEN blocking ELSE gaps,
      summary |-> summarizeFindings(applicationFindings(findings))]

\* How bad a result is, for stating monotonicity.
Rank == [pass |-> 0, warning |-> 1, fail |-> 2]
=============================================================================
