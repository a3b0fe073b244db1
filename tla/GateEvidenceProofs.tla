------------------------- MODULE GateEvidenceProofs -------------------------
(***************************************************************************)
(* What evaluateGate guarantees for every set of findings, every profile   *)
(* and every classification, and what follows for a scan that collects     *)
(* findings one after the other.                                           *)
(***************************************************************************)
EXTENDS GateEvidence, TLAPS

\* The gate's three outcomes, decided in this order.
LEMMA Verdict ==
  ASSUME NEW F, NEW p, NEW c
  PROVE  LET g == evaluateGate(F, p, c) IN
         /\ Blocking(F, p, c) # {} =>
              g.result = "fail" /\ g.blockingReasons = Blocking(F, p, c)
         /\ Blocking(F, p, c) = {} /\ Warnings(F, p) \cup ReadinessGaps(F) # {} =>
              g.result = "warning" /\ g.blockingReasons = ReadinessGaps(F)
         /\ Blocking(F, p, c) = {} /\ Warnings(F, p) \cup ReadinessGaps(F) = {} =>
              g.result = "pass" /\ g.blockingReasons = ReadinessGaps(F)
  BY DEF evaluateGate

\* More findings never make the result better, whoever reported them.
LEMMA Monotone ==
  ASSUME NEW F, NEW G, F \subseteq G, NEW p, NEW c
  PROVE  Rank[evaluateGate(G, p, c).result] >= Rank[evaluateGate(F, p, c).result]
<1>1. Blocking(F, p, c) \subseteq Blocking(G, p, c)
  BY DEF Blocking, OpenOnes, applicationFindings
<1>2. Warnings(F, p) \subseteq Warnings(G, p)
  BY DEF Warnings, OpenOnes, applicationFindings
<1>3. ReadinessGaps(F) \subseteq ReadinessGaps(G)
  BY DEF ReadinessGaps, OpenOnes, platformFindings
<1>4. Rank.pass = 0 /\ Rank.warning = 1 /\ Rank.fail = 2
  BY DEF Rank
<1>5. CASE Blocking(G, p, c) # {}
  <2>1. evaluateGate(G, p, c).result = "fail"
    BY <1>5, Verdict
  <2>2. evaluateGate(F, p, c).result \in {"pass", "warning", "fail"}
    BY Verdict
  <2> QED BY <1>4, <2>1, <2>2
<1>6. CASE Blocking(G, p, c) = {} /\ Warnings(G, p) \cup ReadinessGaps(G) # {}
  <2>1. evaluateGate(G, p, c).result = "warning"
    BY <1>6, Verdict
  <2>2. evaluateGate(F, p, c).result \in {"pass", "warning"}
    BY <1>1, <1>6, Verdict
  <2> QED BY <1>4, <2>1, <2>2
<1>7. CASE Blocking(G, p, c) = {} /\ Warnings(G, p) \cup ReadinessGaps(G) = {}
  <2>1. Blocking(F, p, c) = {} /\ Warnings(F, p) \cup ReadinessGaps(F) = {}
    BY <1>1, <1>2, <1>3, <1>7
  <2>2. evaluateGate(F, p, c).result = evaluateGate(G, p, c).result
    BY <1>7, <2>1, Verdict
  <2>3. evaluateGate(G, p, c).result = "pass"
    BY <1>7, Verdict
  <2> QED BY <1>4, <2>2, <2>3
<1> QED BY <1>5, <1>6, <1>7

\* The findings collected are findings; profile and classification are fixed.
THEOREM GateTypes == Spec => []TypeOK
<1>1. Init => TypeOK
  BY DEF Init, TypeOK
<1>2. TypeOK /\ [Next]_vars => TypeOK'
  <2> SUFFICES ASSUME TypeOK, [Next]_vars PROVE TypeOK'
    OBVIOUS
  <2>1. CASE Next
    <3>1. PICK f \in Reportable : Report(f)
      BY <2>1 DEF Next
    <3> QED BY <3>1, GateConstants DEF TypeOK, Report
  <2>2. CASE UNCHANGED vars
    BY <2>2 DEF TypeOK, vars
  <2> QED BY <2>1, <2>2
<1> QED BY <1>1, <1>2, PTL DEF Spec

\* A scanner that could not run is no false pass (evaluateGate's readiness
\* gaps), for any findings beside it.
THEOREM GapsNeverPass == Spec => []GapsAreNoPass
<1>1. GapsAreNoPass
  <2> SUFFICES ASSUME NEW f \in OpenOnes(platformFindings(findings)),
                      AtLeast(f, "medium")
               PROVE gate.result # "pass" /\ gate.blockingReasons # {}
    BY DEF GapsAreNoPass
  <2> f \in ReadinessGaps(findings)
    BY DEF ReadinessGaps
  <2>1. CASE Blocking(findings, profile, classification) # {}
    BY <2>1, Verdict DEF gate
  <2>2. CASE Blocking(findings, profile, classification) = {}
    BY <2>2, Verdict DEF gate
  <2> QED BY <2>1, <2>2
<1> QED BY <1>1, PTL

\* Only an open application finding fails the gate.
THEOREM OnlyProjectFails == Spec => []OnlyTheProjectFails
<1>1. OnlyTheProjectFails
  <2> SUFFICES ASSUME gate.result = "fail"
               PROVE /\ gate.blockingReasons # {}
                     /\ gate.blockingReasons
                          \subseteq OpenOnes(applicationFindings(findings))
    BY DEF OnlyTheProjectFails
  <2>1. Blocking(findings, profile, classification) # {}
    BY Verdict DEF gate
  <2>2. gate.blockingReasons = Blocking(findings, profile, classification)
    BY <2>1, Verdict DEF gate
  <2> QED BY <2>1, <2>2 DEF Blocking
<1> QED BY <1>1, PTL

\* A finding at its profile's threshold is at the derived warning threshold.
LEMMA ThresholdCovered ==
  ASSUME NEW f \in Finding, NEW p \in Profile, AtLeast(f, p.failThreshold)
  PROVE  AtLeast(f, warningThreshold(p))
<1>1. severityOrder.critical = 5 /\ severityOrder.high = 4 /\ severityOrder.medium = 3
      /\ severityOrder.low = 2 /\ severityOrder.info = 1
  BY DEF severityOrder
<1>2. f.severity \in Severity /\ p.failThreshold \in Severity \ {"info"}
  BY DEF Finding, Profile
<1>3. severityOrder[f.severity] \in 1..5 /\ severityOrder[p.failThreshold] \in 2..5
  BY <1>1, <1>2 DEF Severity
<1>4. severityOrder[f.severity] >= severityOrder[p.failThreshold]
  BY DEF AtLeast
<1>5. CASE severityOrder[p.failThreshold] > severityOrder.medium
  BY <1>1, <1>3, <1>4, <1>5 DEF AtLeast, warningThreshold
<1>6. CASE ~(severityOrder[p.failThreshold] > severityOrder.medium)
  BY <1>1, <1>3, <1>4, <1>6 DEF AtLeast, warningThreshold
<1> QED BY <1>5, <1>6

\* No open application finding at its profile's threshold is passed over.
THEOREM ThresholdAlwaysHeeded == Spec => []ThresholdHeeded
<1>1. TypeOK => ThresholdHeeded
  <2> SUFFICES ASSUME TypeOK,
                      NEW f \in OpenOnes(applicationFindings(findings)),
                      AtLeast(f, profile.failThreshold)
               PROVE  gate.result # "pass"
    BY DEF ThresholdHeeded
  <2>1. f \in Finding /\ profile \in Profile
    BY DEF TypeOK, OpenOnes, applicationFindings
  <2>2. f \in Warnings(findings, profile)
    BY <2>1, ThresholdCovered DEF Warnings
  <2> QED BY <2>2, Verdict DEF gate
<1> QED BY <1>1, GateTypes, PTL

\* One more finding, of a later step or another scanner, never improves the
\* result of the scan.
THEOREM EvidenceNeverHelps == Spec => MoreEvidenceNeverHelps
<1>1. [Next]_vars => [Rank[gate'.result] >= Rank[gate.result]]_vars
  <2> SUFFICES ASSUME Next PROVE Rank[gate'.result] >= Rank[gate.result]
    OBVIOUS
  <2>1. PICK f \in Reportable : Report(f)
    BY DEF Next
  <2>2. /\ findings \subseteq findings'
        /\ profile' = profile /\ classification' = classification
    BY <2>1 DEF Report
  <2>3. gate' = evaluateGate(findings', profile, classification)
    BY <2>2 DEF gate
  <2> QED BY <2>2, <2>3, Monotone DEF gate
<1> QED BY <1>1, PTL DEF Spec, MoreEvidenceNeverHelps
=============================================================================
