---------------------------- MODULE GateEvidence ----------------------------
(***************************************************************************)
(* What the release gate says while a scan collects its findings           *)
(* (packages/scanners executeScanPlan): the findings of every step are put *)
(* together and evaluateGate looks at all of them. The code evaluates once *)
(* at the end; evaluating after each finding states what one more finding, *)
(* a later step or another scanner can do to the result.                   *)
(***************************************************************************)
EXTENDS ReleaseGate

CONSTANT Reportable  \* the findings that scanners can report

ASSUME GateConstants == Reportable \subseteq Finding

VARIABLES findings, profile, classification

vars == <<findings, profile, classification>>

TypeOK ==
  /\ findings \subseteq Finding
  /\ profile \in Profile
  /\ classification \in DataClassification

Init ==
  /\ findings = {}
  /\ profile \in Profile
  /\ classification \in DataClassification

\* An identifier is the fingerprint of the finding: a finding is there once.
Report(f) ==
  /\ f.id \notin {x.id : x \in findings}
  /\ findings' = findings \cup {f}
  /\ UNCHANGED <<profile, classification>>

Next == \E f \in Reportable : Report(f)

Spec == Init /\ [][Next]_vars

gate == evaluateGate(findings, profile, classification)

-----------------------------------------------------------------------------
(* Properties                                                               *)

\* More evidence never improves the result: a readiness gap does not soften
\* a failure and no finding hides another.
MoreEvidenceNeverHelps ==
  [][Rank[gate'.result] >= Rank[gate.result]]_vars

\* A scanner that could not run is no false pass: an open readiness gap of
\* medium severity or more leaves a warning or a failure that has reasons.
GapsAreNoPass ==
  (\E f \in OpenOnes(platformFindings(findings)) : AtLeast(f, "medium")) =>
    gate.result # "pass" /\ gate.blockingReasons # {}

\* An open application finding at the threshold of its profile is never
\* passed over, for any of the thresholds a profile can have.
ThresholdHeeded ==
  \A f \in OpenOnes(applicationFindings(findings)) :
    AtLeast(f, profile.failThreshold) => gate.result # "pass"

\* Only what is wrong with the checked project fails it: every reason of a
\* failure is an open application finding.
OnlyTheProjectFails ==
  gate.result = "fail" =>
    /\ gate.blockingReasons # {}
    /\ gate.blockingReasons \subseteq OpenOnes(applicationFindings(findings))
=============================================================================
