------------------------- MODULE ScanExecutionProofs -------------------------
(***************************************************************************)
(* Proofs about ScanExecution, for every plan, request, runner, number of  *)
(* attempts and everything the scanners can find.                          *)
(*                                                                         *)
(* GuardrailsHold needs to know that a plan of which something was started *)
(* is not blocked; UnrunIsNoPass that a result which is not trustworthy    *)
(* comes with an open platform finding, its own or (in a blocked plan) the *)
(* one of the step that blocks; the other two properties that a result     *)
(* tells what was seen. IInv says all three.                               *)
(***************************************************************************)
EXTENDS ScanExecution, SequenceTheorems, FiniteSetTheorems, TLAPS

-----------------------------------------------------------------------------
(* Hosts: what a pattern admits                                             *)

\* A strict suffix is what follows some label of the host.
LEMMA StrictSuffix ==
  ASSUME NEW S, NEW s \in Seq(S) \ {<<>>}, NEW t \in Seq(S), IsStrictSuffix(s, t)
  PROVE  \E i \in 2..Len(t) : s = SubSeq(t, i, Len(t))
<1> DEFINE k == Len(t) - Len(s)
           r == Reverse(s)
           u == Reverse(t)
<1>1. /\ Len(s) \in Nat \ {0} /\ Len(t) \in Nat
      /\ \A i \in 1..Len(s) : s[i] \in S
      /\ \A i \in 1..Len(t) : t[i] \in S
  BY EmptySeq
<1>2. /\ r \in Seq(S) /\ Len(r) = Len(s)
      /\ \A i \in 1..Len(s) : r[i] = s[(Len(s) - i) + 1]
  BY <1>1 DEF Reverse
<1>3. /\ u \in Seq(S) /\ Len(u) = Len(t)
      /\ \A i \in 1..Len(t) : u[i] = t[(Len(t) - i) + 1]
  BY <1>1 DEF Reverse
<1>4. /\ Len(s) <= Len(t)
      /\ SubSeq(r, 1, Len(s)) = SubSeq(u, 1, Len(s))
  BY <1>2, <1>3 DEF IsStrictSuffix, IsSuffix, IsPrefix
<1>5. \A i \in 1..Len(s) : r[i] = u[i]
  <2> TAKE i \in 1..Len(s)
  <2>1. SubSeq(r, 1, Len(s))[i] = r[i]
    BY <1>1, <1>2, SubSeqProperties
  <2>2. SubSeq(u, 1, Len(s))[i] = u[i]
    BY <1>1, <1>3, <1>4, SubSeqProperties
  <2> QED BY <2>1, <2>2, <1>4
<1>6. \A j \in 1..Len(s) : s[j] = t[k + j]
  <2> TAKE j \in 1..Len(s)
  <2> DEFINE i == (Len(s) - j) + 1
  <2>1. /\ i \in 1..Len(s) /\ i \in 1..Len(t)
        /\ (Len(s) - i) + 1 = j /\ (Len(t) - i) + 1 = k + j
    BY <1>1, <1>4
  <2> HIDE DEF i
  <2>2. r[i] = s[j]
    BY <2>1, <1>2
  <2>3. u[i] = t[k + j]
    <3> HIDE DEF k, u
    <3> QED BY <2>1, <1>3
  <2> QED BY <2>1, <2>2, <2>3, <1>5
<1>7. Len(s) # Len(t)
  <2> SUFFICES ASSUME Len(s) = Len(t) PROVE s = t
    BY DEF IsStrictSuffix
  <2>1. \A j \in 1..Len(s) : s[j] = t[j]
    BY <1>1, <1>6
  <2> QED BY <2>1, SeqEqual
<1>8. k + 1 \in 2..Len(t)
  <2>1. \A m, n \in Nat : m # 0 /\ m <= n /\ m # n => (n - m) + 1 \in 2..n
    OBVIOUS
  <2> QED BY <2>1, <1>1, <1>4, <1>7
<1>9. s = SubSeq(t, k + 1, Len(t))
  <2> DEFINE v == SubSeq(t, k + 1, Len(t))
  <2>1. /\ v \in Seq(S) /\ Len(v) = Len(s)
        /\ \A j \in 1..Len(s) : v[j] = t[k + j]
    <3>1. \A i \in (k + 1)..Len(t) : t[i] \in S
      BY <1>1, <1>4
    <3>2. k + 1 \in Int /\ Len(t) \in Int /\ k + 1 <= Len(t)
          /\ Len(t) - (k + 1) + 1 = Len(s)
      BY <1>1, <1>4
    <3> HIDE DEF k
    <3>3. /\ v \in Seq(S) /\ Len(v) = Len(s)
          /\ \A j \in 1..Len(s) : v[j] = t[(k + 1) + j - 1]
      BY <3>1, <3>2, SubSeqProperties
    <3>4. k \in Int
      BY <1>1 DEF k
    <3>5. \A j \in 1..Len(s) : (k + 1) + j - 1 = k + j
      BY <3>4, <1>1
    <3> QED BY <3>3, <3>5
  <2> HIDE DEF v
  <2>2. \A j \in 1..Len(s) : v[j] = s[j]
    BY <2>1, <1>6
  <2>3. s = v
    BY <2>1, <2>2, SeqEqual
  <2> QED BY <2>3 DEF v
<1> QED BY <1>8, <1>9

\* A host isHostAllowed admits is named by a pattern, or has a label before
\* the domain of a wildcard.
LEMMA AllowedHost ==
  ASSUME NEW host \in Hosts, NEW patterns \in SUBSET Pattern,
         isHostAllowed(host, patterns)
  PROVE  \E p \in patterns :
           \/ host = p.host /\ ~p.wildcard
           \/ /\ p.wildcard
              /\ \E i \in 2..Len(host) : p.host = SubSeq(host, i, Len(host))
<1>1. PICK p \in patterns :
        IF p.wildcard THEN IsStrictSuffix(p.host, host) /\ host # <<"">> \o p.host
                      ELSE host = p.host
  BY DEF isHostAllowed
<1>2. p.wildcard \in BOOLEAN /\ p.host \in Hosts
  BY DEF Pattern
<1>3. host \in Seq(STRING) /\ p.host \in Seq(STRING) \ {<<>>}
  BY <1>2, PlanConstants
<1>4. CASE p.wildcard
  <2>1. IsStrictSuffix(p.host, host)
    BY <1>1, <1>4
  <2>2. \E i \in 2..Len(host) : p.host = SubSeq(host, i, Len(host))
    BY <2>1, <1>3, StrictSuffix
  <2> QED BY <1>4, <2>2
<1>5. CASE ~p.wildcard
  BY <1>1, <1>5
<1> QED BY <1>4, <1>5

-----------------------------------------------------------------------------
(* Plans                                                                    *)

\* What a plan's steps are.
LEMMA PlanSteps ==
  ASSUME TypeOK
  PROVE  /\ profile \in ScanProfile /\ dast \in DastPolicy
         /\ profile.checks \in Seq(Checks)
         /\ Steps = 1..Len(profile.checks) /\ DOMAIN plan.steps = Steps
         /\ \A n \in Steps :
              /\ profile.checks[n] \in Checks
              /\ Def(n) \in CheckDefinition
              /\ plan.steps[n] = buildExecutionStep(profile.checks[n], profile, dast)
<1>1. profile \in ScanProfile /\ dast \in DastPolicy
  BY ExecutionConstants DEF TypeOK
<1>2. profile.checks \in Seq(Checks)
  BY <1>1 DEF ScanProfile
<1>3. Steps = 1..Len(profile.checks) /\ \A n \in Steps : profile.checks[n] \in Checks
  BY <1>2 DEF Steps
<1>4. \A n \in Steps : Def(n) \in CheckDefinition
  BY <1>3, PlanConstants DEF Def
<1>5. plan.steps = [n \in Steps |-> buildExecutionStep(profile.checks[n], profile, dast)]
  BY DEF plan, buildScanExecutionPlan, Steps
<1> QED BY <1>1, <1>2, <1>3, <1>4, <1>5

\* A plan is blocked when one of its steps is.
LEMMA PlanBlocked ==
  plan.blocked <=> \E n \in DOMAIN plan.steps : plan.steps[n].blockedReasons # {}
<1> DEFINE steps == [n \in DOMAIN profile.checks |->
                       buildExecutionStep(profile.checks[n], profile, dast)]
<1>1. plan.steps = steps
  BY DEF plan, buildScanExecutionPlan
<1>2. plan.blocked = (\E n \in DOMAIN steps : steps[n].blockedReasons # {})
  BY DEF plan, buildScanExecutionPlan
<1> HIDE DEF steps
<1> QED BY <1>1, <1>2

\* In a plan that is not blocked the guardrails had no objection, if one of
\* its steps does active scanning.
LEMMA NoObjection ==
  ASSUME TypeOK, ~plan.blocked, NEW n \in Steps, Def(n).activeDast,
         NEW reason \in Reason
  PROVE  ~Objects(reason, profile, dast)
<1>1. plan.steps[n].blockedReasons = {}
  <2>1. n \in DOMAIN plan.steps
    BY PlanSteps
  <2> QED BY <2>1, PlanBlocked
<1>2. evaluateDastGuardrails(profile, dast) \subseteq plan.steps[n].blockedReasons
  <2>1. plan.steps[n] = buildExecutionStep(profile.checks[n], profile, dast)
    BY PlanSteps
  <2>2. definition[profile.checks[n]].activeDast
    BY DEF Def
  <2>3. evaluateDastGuardrails(profile, dast)
          \subseteq buildExecutionStep(profile.checks[n], profile, dast).blockedReasons
    BY <2>2 DEF buildExecutionStep
  <2> QED BY <2>1, <2>3
<1> QED BY <1>1, <1>2 DEF evaluateDastGuardrails

\* What active scanning is up against: the opt-ins, and a target the request
\* admits.
LEMMA ActiveStep ==
  ASSUME TypeOK, ~plan.blocked, NEW n \in Steps, Def(n).activeDast
  PROVE  /\ profile.allowActiveDast /\ dast.allowActiveScan
         /\ plan.target # None /\ plan.target = dast.target
         /\ plan.target \in Target
         /\ plan.target.protocol # "other" /\ ~plan.target.credentials
         /\ isHostAllowed(plan.target.host,
                          normalizeAllowedHosts(allowedDastHosts(dast)))
         /\ ProductionLike(plan.target.host) =>
              profile.allowProductionTargets \/ dast.allowProductionTargets
<1>1. dast \in DastPolicy
  BY PlanSteps
<1>2. profile.allowActiveDast /\ dast.allowActiveScan
  <2>1. ~Objects("opt-in", profile, dast)
    BY NoObjection DEF Reason
  <2> QED BY <2>1 DEF Objects
<1>3. dast.target # None
  <2>1. ~Objects("no-target", profile, dast)
    BY NoObjection DEF Reason
  <2> QED BY <2>1 DEF Objects
<1>4. dast.target.parses
  <2>1. ~Objects("url", profile, dast)
    BY NoObjection DEF Reason
  <2> QED BY <2>1, <1>3 DEF Objects
<1>5. plan.target = dast.target
  BY <1>3, <1>4 DEF plan, buildScanExecutionPlan, activeDastTarget
<1>6. dast.target \in Target
  BY <1>1, <1>3 DEF DastPolicy
<1>7. dast.target.protocol # "other"
  <2>1. ~Objects("protocol", profile, dast)
    BY NoObjection DEF Reason
  <2> QED BY <2>1, <1>3, <1>4 DEF Objects
<1>8. ~dast.target.credentials
  <2>1. ~Objects("credentials", profile, dast)
    BY NoObjection DEF Reason
  <2> QED BY <2>1, <1>3, <1>4 DEF Objects
<1>9. isHostAllowed(dast.target.host, normalizeAllowedHosts(allowedDastHosts(dast)))
  <2>1. ~Objects("host", profile, dast)
    BY NoObjection DEF Reason
  <2> QED BY <2>1, <1>3, <1>4 DEF Objects
<1>10. ProductionLike(dast.target.host) =>
         profile.allowProductionTargets \/ dast.allowProductionTargets
  <2>1. ~Objects("production", profile, dast)
    BY NoObjection DEF Reason
  <2> QED BY <2>1, <1>3, <1>4 DEF Objects
<1> QED BY <1>2, <1>3, <1>5, <1>6, <1>7, <1>8, <1>9, <1>10

-----------------------------------------------------------------------------
(* What checks and reports are made of                                      *)

\* What the worker reports is a finding.
LEMMA CreatedTypes ==
  ASSUME NEW check \in Checks, NEW name \in Names, NEW severity \in Severity,
         NEW scope \in {"application", "platform"}, NEW sensitive \in BOOLEAN
  PROVE  createExecutionFinding(check, name, severity, scope, sensitive) \in Finding
<1>1. <<check, name>> \in FindingIds
  <2>1. <<check, name>> \in Checks \X Names
    OBVIOUS
  <2> QED BY <2>1, CheckConstants
<1>2. definition[check].type \in {"secret", "other"}
  BY PlanConstants DEF CheckDefinition
<1> QED BY <1>1, <1>2 DEF createExecutionFinding, Finding, FindingStatus

\* One that keeps a scan from passing.
Severe(f) ==
  /\ f.status = "open" /\ f.scope \in {"application", "platform"}
  /\ f.severity \in {"critical", "high", "medium"}

LEMMA ProblemTypes ==
  ASSUME NEW check \in Checks, NEW name \in Names, NEW severity \in Severity
  PROVE  /\ Problem(check, name, severity) \in Finding
         /\ Unready(check, name, severity) \subseteq Finding
         /\ \A so : Expect(so, check, name, severity) \subseteq Finding
         /\ severity \in {"critical", "high", "medium"} =>
              /\ Severe(Problem(check, name, severity))
              /\ \A f \in Unready(check, name, severity) : Severe(f)
<1>1. (name \in Sensitive[check]) \in BOOLEAN
  OBVIOUS
<1>2. createExecutionFinding(check, name, severity, "application",
                             name \in Sensitive[check]) \in Finding
  BY <1>1, CreatedTypes
<1>3. createExecutionFinding(check, name, severity, "platform", FALSE) \in Finding
  BY CreatedTypes
<1>4. Problem(check, name, severity) \in Finding
  BY <1>2 DEF Problem
<1>5. Unready(check, name, severity) \subseteq Finding
  BY <1>3 DEF Unready
<1>6. \A so : Expect(so, check, name, severity) \subseteq Finding
  BY <1>4 DEF Expect
<1>7. ASSUME severity \in {"critical", "high", "medium"}
      PROVE  /\ Severe(Problem(check, name, severity))
             /\ \A f \in Unready(check, name, severity) : Severe(f)
  BY <1>7 DEF Severe, Problem, Unready, createExecutionFinding
<1> QED BY <1>4, <1>5, <1>6, <1>7

\* The severities of scanners are those of findings.
LEMMA Normalized ==
  /\ \A word : normalizeSeverity(word, "medium") \in Severity
  /\ \A word : normalizeSeverity(word, "info") \in Severity
  /\ \A score : ofScore(score) \in Severity
  /\ \A i : normalizeOsvSeverity(i) \in Severity
  /\ \A word : normalizeZapSeverity(word) \in Severity
  /\ \A threat, score : greenboneSeverity(threat, score) \in Severity
<1>1. \A word : normalizeSeverity(word, "medium") \in Severity
  BY DEF normalizeSeverity, Severity
<1>2. \A word : normalizeSeverity(word, "info") \in Severity
  BY DEF normalizeSeverity, Severity
<1>3. \A score : ofScore(score) \in Severity
  BY DEF ofScore, Severity
<1>4. \A i : normalizeOsvSeverity(i) \in Severity
  BY <1>1, <1>3 DEF normalizeOsvSeverity, Severity
<1>5. \A word : normalizeZapSeverity(word) \in Severity
  BY <1>1 DEF normalizeZapSeverity, Severity
<1>6. \A threat, score : greenboneSeverity(threat, score) \in Severity
  BY <1>2, <1>3 DEF greenboneSeverity
<1> QED BY <1>1, <1>2, <1>3, <1>4, <1>5, <1>6

\* What is reported of an item is a finding, as bad as it is rated.
LEMMA ReportedTypes ==
  ASSUME NEW check \in Checks, NEW i \in Item, NEW severity \in Severity
  PROVE  /\ Reported(check, i, severity) \in Finding
         /\ severity \notin {"low", "info"} => Severe(Reported(check, i, severity))
<1>1. i.name \in Names /\ i.sensitive \in BOOLEAN
  BY DEF Item, Names
<1>2. Reported(check, i, severity) \in Finding
  BY <1>1, CreatedTypes DEF Reported
<1>3. severity \notin {"low", "info"} => severity \in {"critical", "high", "medium"}
  BY DEF Severity
<1>4. severity \notin {"low", "info"} => Severe(Reported(check, i, severity))
  BY <1>3 DEF Reported, createExecutionFinding, Severe
<1> QED BY <1>2, <1>4

LEMMA WholeItem ==
  ASSUME NEW i \in Item
  PROVE  /\ WholeScore(i) \in Item
         /\ WholeScore(i).rating = i.rating
         /\ i.score = None \/ i.score \in Nat
         /\ i.score # None => WholeScore(i).score = 10 * (i.score \div 10)
<1>1. i.score = None \/ i.score \in Nat
  BY DEF Item
<1>2. CASE i.score = None
  BY <1>1, <1>2 DEF WholeScore
<1>3. CASE i.score # None
  <2>1. i.score \in Nat
    BY <1>1, <1>3
  <2>2. 10 * (i.score \div 10) \in Nat
    BY <2>1
  <2> DEFINE s == 10 * (i.score \div 10)
  <2>3. WholeScore(i) = [i EXCEPT !.score = s]
    BY <1>3 DEF WholeScore
  <2> HIDE DEF s
  <2>4. [i EXCEPT !.score = s] \in Item
    BY <2>2 DEF Item, s
  <2>5. [i EXCEPT !.score = s].rating = i.rating /\ [i EXCEPT !.score = s].score = s
    BY DEF Item
  <2> QED BY <1>1, <2>3, <2>4, <2>5 DEF s
<1> QED BY <1>2, <1>3

\* What is parsed of a report of items is a set of findings.
LEMMA ReportTypes ==
  ASSUME NEW check \in Checks, NEW report \in SUBSET Item
  PROVE  /\ parseExternalFindings(check, report) \subseteq Finding
         /\ \A json : parseGreenboneReportFindings(check, report, json) \subseteq Finding
         /\ parseOpenScapResultFindings(check, report) \subseteq Finding
<1>1. \A i \in Item, s \in Severity : Reported(check, i, s) \in Finding
  BY ReportedTypes
<1>2. "critical" \in Severity /\ "high" \in Severity
  BY DEF Severity
<1>3. Rated(check, report) \subseteq Finding
  BY <1>1, Normalized DEF Rated
<1>4. parseGitleaksFindings(check, report) \subseteq Finding
  BY <1>1, <1>2 DEF parseGitleaksFindings
<1>5. parseTrivyFindings(check, report) \subseteq Finding
  BY <1>1, <1>2, Normalized DEF parseTrivyFindings
<1>6. parseOsvFindings(check, report) \subseteq Finding
  BY <1>1, Normalized DEF parseOsvFindings
<1>7. parseZapFindings(check, report) \subseteq Finding
  BY <1>1, Normalized DEF parseZapFindings
<1>8. parseExternalFindings(check, report) \subseteq Finding
  BY <1>3, <1>4, <1>5, <1>6, <1>7
  DEF parseExternalFindings, parseSemgrepFindings, parseGrypeFindings,
      parseCheckovFindings, parseRedoclyFindings, parseNucleiFindings
<1>9. \A r \in SUBSET Item : parseGreenboneJsonFindings(check, r) \subseteq Finding
  BY <1>1, Normalized DEF parseGreenboneJsonFindings
<1>10. {WholeScore(i) : i \in report} \in SUBSET Item
  BY WholeItem
<1>11. \A json : parseGreenboneReportFindings(check, report, json) \subseteq Finding
  BY <1>9, <1>10 DEF parseGreenboneReportFindings
<1>12. parseOpenScapResultFindings(check, report) \subseteq Finding
  BY <1>1, <1>2, Normalized DEF parseOpenScapResultFindings
<1> QED BY <1>8, <1>11, <1>12

\* A rating that is no reason to hold a scan up calls the item minor.
LEMMA MinorWords ==
  /\ \A word : normalizeSeverity(word, "medium") \in {"low", "info"} =>
                word \in MinorRating
  /\ \A word : normalizeZapSeverity(word) \in {"low", "info"} => word \in MinorRating
  /\ \A word : normalizeSeverity(word, "info") \in {"low", "info"} =>
                word \notin MajorRating
  /\ \A score \in Nat : ofScore(score) \in {"low", "info"} => score < 40
<1>1. \A word : normalizeSeverity(word, "medium") \in {"low", "info"} =>
                  word \in MinorRating
  BY DEF normalizeSeverity, MinorRating
<1>2. \A word : normalizeZapSeverity(word) \in {"low", "info"} => word \in MinorRating
  BY <1>1 DEF normalizeZapSeverity, MinorRating
<1>3. \A word : normalizeSeverity(word, "info") \in {"low", "info"} =>
                  word \notin MajorRating
  BY DEF normalizeSeverity, MajorRating, MinorRating, Word
<1>4. \A score \in Nat : ofScore(score) \in {"low", "info"} => score < 40
  BY DEF ofScore
<1> QED BY <1>1, <1>2, <1>3, <1>4

\* A report of which nothing severe is parsed has minor items only.
LEMMA ParsedMinor ==
  ASSUME NEW check \in Checks, NEW report \in SUBSET Item,
         definition[check].runs \in Parsed,
         \A f \in parseExternalFindings(check, report) : ~Severe(f),
         NEW i \in report
  PROVE  Minor(i, definition[check].runs)
<1> DEFINE runs == definition[check].runs
           F == parseExternalFindings(check, report)
<1>0. i \in Item /\ (i.score = None \/ i.score \in Nat)
  BY DEF Item
<1>1. \A s \in Severity : Reported(check, i, s) \in F => s \in {"low", "info"}
  <2> TAKE s \in Severity
  <2>1. ASSUME Reported(check, i, s) \in F PROVE s \in {"low", "info"}
    <3>1. ~Severe(Reported(check, i, s))
      BY <2>1
    <3> HIDE DEF F
    <3> QED BY <1>0, <3>1, ReportedTypes
  <2> QED BY <2>1
<1>2. CASE runs = "gitleaks"
  <2>1. Reported(check, i, "critical") \in F
    BY <1>2 DEF parseExternalFindings, parseGitleaksFindings
  <2> QED BY <1>1, <2>1 DEF Severity
<1>3. CASE runs \in {"semgrep", "grype", "checkov", "redocly", "nuclei"}
  <2>1. F = Rated(check, report)
    BY <1>3 DEF parseExternalFindings, parseSemgrepFindings, parseGrypeFindings,
                parseCheckovFindings, parseRedoclyFindings, parseNucleiFindings
  <2>2. Reported(check, i, normalizeSeverity(i.rating, "medium")) \in F
    BY <2>1 DEF Rated
  <2>3. normalizeSeverity(i.rating, "medium") \in {"low", "info"}
    <3> HIDE DEF F
    <3> QED BY <1>1, <2>2, Normalized
  <2> QED BY <2>3, MinorWords DEF Minor
<1>4. CASE runs = "trivy"
  <2> DEFINE s == IF i.secret THEN "critical" ELSE normalizeSeverity(i.rating, "medium")
  <2>1. Reported(check, i, s) \in F
    BY <1>4 DEF parseExternalFindings, parseTrivyFindings
  <2>2. s \in Severity
    BY Normalized DEF Severity
  <2>3. s \in {"low", "info"}
    <3> HIDE DEF F, s
    <3> QED BY <1>1, <2>1, <2>2
  <2>4. normalizeSeverity(i.rating, "medium") \in {"low", "info"}
    BY <2>3
  <2> QED BY <2>4, MinorWords DEF Minor
<1>5. CASE runs = "osv-scanner"
  <2>1. Reported(check, i, normalizeOsvSeverity(i)) \in F
    BY <1>5 DEF parseExternalFindings, parseOsvFindings
  <2>2. normalizeOsvSeverity(i) \in {"low", "info"}
    <3> HIDE DEF F
    <3> QED BY <1>1, <2>1, Normalized
  <2>3. CASE i.rating # None
    BY <2>2, <2>3, MinorWords DEF normalizeOsvSeverity, Minor
  <2>4. CASE i.rating = None
    <3>1. i.score # None /\ ofScore(i.score) \in {"low", "info"}
      BY <2>2, <2>4 DEF normalizeOsvSeverity
    <3> QED BY <1>0, <3>1, MinorWords DEF Minor
  <2> QED BY <2>3, <2>4
<1>6. CASE runs = "zap"
  <2>1. Reported(check, i, normalizeZapSeverity(i.rating)) \in F
    BY <1>6 DEF parseExternalFindings, parseZapFindings
  <2>2. normalizeZapSeverity(i.rating) \in {"low", "info"}
    <3> HIDE DEF F
    <3> QED BY <1>1, <2>1, Normalized
  <2> QED BY <2>2, MinorWords DEF Minor
<1> QED BY <1>2, <1>3, <1>4, <1>5, <1>6 DEF Parsed

\* An imported report of which nothing severe is taken has minor items only.
LEMMA ImportedMinor ==
  ASSUME NEW check \in Checks, NEW report \in SUBSET Item, NEW i \in report
  PROVE  /\ \A json :
              (\A f \in parseGreenboneReportFindings(check, report, json) : ~Severe(f))
                => Minor(i, "greenbone")
         /\ (\A f \in parseOpenScapResultFindings(check, report) : ~Severe(f))
              => Minor(i, "openscap")
<1>0. i \in Item
  OBVIOUS
<1>1. \A r \in SUBSET Item, j \in Item :
        /\ \A f \in parseGreenboneJsonFindings(check, r) : ~Severe(f)
        /\ j \in r
        => greenboneSeverity(j.rating, j.score) \in {"low", "info"}
  <2> SUFFICES ASSUME NEW r \in SUBSET Item, NEW j \in Item, j \in r,
                      \A f \in parseGreenboneJsonFindings(check, r) : ~Severe(f),
                      greenboneSeverity(j.rating, j.score) \notin {"low", "info"}
               PROVE  FALSE
    OBVIOUS
  <2> DEFINE s == greenboneSeverity(j.rating, j.score)
  <2>1. Reported(check, j, s) \in parseGreenboneJsonFindings(check, r)
    BY DEF parseGreenboneJsonFindings
  <2>2. s \in Severity
    BY Normalized
  <2> HIDE DEF s
  <2>3. s \notin {"low", "info"}
    BY DEF s
  <2>4. Severe(Reported(check, j, s))
    BY <2>2, <2>3, ReportedTypes
  <2> QED BY <2>1, <2>4
<1>2. \A score \in Nat : \A threat :
        greenboneSeverity(threat, score) \in {"low", "info"} =>
          score < 40 \/ threat \notin MajorRating
  BY MinorWords DEF greenboneSeverity
<1>3. \A threat : greenboneSeverity(threat, None) \in {"low", "info"} =>
                    threat \notin MajorRating
  BY MinorWords DEF greenboneSeverity
<1>4. ASSUME NEW j \in Item, j.rating = i.rating,
             j.score = i.score \/ (i.score # None /\ j.score = 10 * (i.score \div 10)),
             greenboneSeverity(j.rating, j.score) \in {"low", "info"}
      PROVE  Minor(i, "greenbone")
  <2>1. CASE i.score = None
    <3>1. j.score = None
      BY <1>4, <2>1
    <3>2. i.rating \notin MajorRating
      BY <1>3, <1>4, <3>1
    <3> QED BY <3>2 DEF Minor
  <2>2. CASE i.score # None
    <3>1. i.score \in Nat
      BY <2>2 DEF Item
    <3>2. j.score \in Nat /\ (j.score < 40 => i.score < 40)
      BY <1>4, <3>1
    <3>3. j.score < 40 \/ i.rating \notin MajorRating
      BY <1>2, <1>4, <3>2
    <3> QED BY <2>2, <3>2, <3>3 DEF Minor
  <2> QED BY <2>1, <2>2
<1>5. ASSUME NEW json,
             \A f \in parseGreenboneReportFindings(check, report, json) : ~Severe(f)
      PROVE  Minor(i, "greenbone")
  <2>1. CASE json
    <3>1. \A f \in parseGreenboneJsonFindings(check, report) : ~Severe(f)
      BY <1>5, <2>1 DEF parseGreenboneReportFindings
    <3> QED BY <1>0, <1>1, <1>4, <3>1
  <2>2. CASE ~json
    <3> DEFINE r == {WholeScore(j) : j \in report}
    <3>1. \A f \in parseGreenboneJsonFindings(check, r) : ~Severe(f)
      BY <1>5, <2>2 DEF parseGreenboneReportFindings
    <3>2. r \in SUBSET Item /\ WholeScore(i) \in r
      BY WholeItem
    <3> HIDE DEF r
    <3>3. greenboneSeverity(WholeScore(i).rating, WholeScore(i).score) \in {"low", "info"}
      BY <1>1, <3>1, <3>2
    <3>4. /\ WholeScore(i) \in Item /\ WholeScore(i).rating = i.rating
          /\ i.score # None => WholeScore(i).score = 10 * (i.score \div 10)
      BY <1>0, WholeItem
    <3>5. i.score = None => WholeScore(i).score = i.score
      BY DEF WholeScore
    <3> QED BY <1>4, <3>3, <3>4, <3>5
  <2> QED BY <2>1, <2>2
<1>6. ASSUME \A f \in parseOpenScapResultFindings(check, report) : ~Severe(f)
      PROVE  Minor(i, "openscap")
  <2>1. CASE i.result \notin {"fail", "error"}
    BY <2>1 DEF Minor
  <2>2. CASE i.result \in {"fail", "error"}
    <3> DEFINE s == IF i.result = "fail" THEN normalizeSeverity(i.rating, "medium")
                    ELSE "high"
    <3>1. Reported(check, i, s) \in parseOpenScapResultFindings(check, report)
      BY <2>2 DEF parseOpenScapResultFindings
    <3>2. s \in Severity
      BY Normalized DEF Severity
    <3>3. s \in {"low", "info"}
      <4> HIDE DEF s
      <4> QED BY <1>0, <1>6, <3>1, <3>2, ReportedTypes
    <3>4. normalizeSeverity(i.rating, "medium") \in {"low", "info"}
      BY <3>3
    <3> QED BY <3>4, MinorWords DEF Minor
  <2> QED BY <2>1, <2>2
<1> QED BY <1>5, <1>6

-----------------------------------------------------------------------------
(* Internal checks                                                          *)

\* Every check of the worker's own finds findings.
LEMMA CheckTypes ==
  ASSUME NEW check \in Checks, NEW seen \in Sight, NEW target, NEW class
  PROVE  runInternalCheck(check, seen, target, class) \subseteq Finding
<1>1. \A name \in Names, severity \in Severity :
        /\ Problem(check, name, severity) \in Finding
        /\ Unready(check, name, severity) \subseteq Finding
        /\ \A so : Expect(so, check, name, severity) \subseteq Finding
  BY ProblemTypes
<1>2. /\ "critical" \in Severity /\ "high" \in Severity /\ "medium" \in Severity
      /\ "low" \in Severity /\ "info" \in Severity
  BY DEF Severity
<1>3. Fact \subseteq Names /\ parts[check] \subseteq Names
  BY CheckConstants DEF Names, Fact
<1>4. checkPathsExist(check, seen) \subseteq Finding
  BY <1>1, <1>2, <1>3 DEF checkPathsExist
<1>5. checkDocumentationKeywords(check, seen) \subseteq Finding
  <2>1. "evidence" \in Names
    BY DEF Names
  <2> QED BY <2>1, <1>1, <1>2 DEF checkDocumentationKeywords
<1>6. checkOpenApiDocument(check, seen) \subseteq Finding
  <2>1. "openapi" \in Names
    BY DEF Names, Fact
  <2> QED BY <2>1, <1>1, <1>2 DEF checkOpenApiDocument
<1>7. checkOpenApiErrorResponse(check, seen) \subseteq Finding
  <2>1. "fields" \in Names
    BY DEF Names, Fact
  <2> QED BY <2>1, <1>1, <1>2, <1>6 DEF checkOpenApiErrorResponse
<1>8. checkOpenApiPath(check, seen) \subseteq Finding
  <2>1. "path" \in Names
    BY DEF Names
  <2> QED BY <2>1, <1>1, <1>2, <1>6 DEF checkOpenApiPath
<1>9. checkEnvExample(check, seen) \subseteq Finding
  <2>1. "envExample" \in Names /\ "concrete" \in Names
    BY DEF Names, Fact
  <2> QED BY <2>1, <1>1, <1>2 DEF checkEnvExample
<1>10. checkForbiddenFiles(check, seen) \subseteq Finding
  <2>1. "forbidden" \in Names
    BY DEF Names, Fact
  <2> QED BY <2>1, <1>1, <1>2 DEF checkForbiddenFiles
<1>11. checkProjectDataClassification(check, class) \subseteq Finding
  <2>1. "classification" \in Names
    BY DEF Names
  <2> QED BY <2>1, <1>1, <1>2 DEF checkProjectDataClassification
<1>12. missingActiveTargetFinding(check) \subseteq Finding
  <2>1. "target" \in Names
    BY DEF Names
  <2> QED BY <2>1, <1>1, <1>2 DEF missingActiveTargetFinding
<1>13. checkDnsRecords(check, seen, target) \subseteq Finding
  <2>1. "address" \in Names /\ "mail" \in Names
    BY DEF Names, Fact
  <2> QED BY <2>1, <1>1, <1>2 DEF checkDnsRecords
<1>14. checkTlsCertificate(check, seen, target) \subseteq Finding
  <2>1. /\ "https" \in Names /\ "inspected" \in Names /\ "authorized" \in Names
        /\ "expiry" \in Names /\ "san" \in Names
    BY DEF Names, Fact
  <2>2. ExpirySeverity(seen.days) \in Severity
    BY <1>2 DEF ExpirySeverity
  <2> QED BY <2>1, <2>2, <1>1, <1>2 DEF checkTlsCertificate
<1>15. checkTlsConfiguration(check, seen, target) \subseteq Finding
  <2>1. /\ "https" \in Names /\ "tls10" \in Names /\ "tls11" \in Names
        /\ "modern" \in Names
    BY DEF Names, Fact
  <2> QED BY <2>1, <1>1, <1>2 DEF checkTlsConfiguration
<1>16. checkCommonPorts(check, seen) \subseteq Finding
  <2>1. \A p \in DOMAIN commonPortChecks :
          p \in Names /\ commonPortChecks[p] \in Severity
    BY DEF commonPortChecks, Names, Fact, Severity
  <2> HIDE DEF commonPortChecks
  <2> QED BY <2>1, <1>1 DEF checkCommonPorts
<1>17. checkHttpSecurityHeaders(check, seen, target) \subseteq Finding
  <2>1. /\ "response" \in Names /\ "https" \in Names /\ "hsts" \in Names
        /\ "nosniff" \in Names /\ "frame" \in Names /\ "csp" \in Names
        /\ "referrer" \in Names /\ "permissions" \in Names
    BY DEF Names, Fact
  <2> QED BY <2>1, <1>1, <1>2 DEF checkHttpSecurityHeaders
<1>18. \A severity \in Severity : checkEndpointExposure(check, seen, severity) \subseteq Finding
  <2>1. "accessible" \in Names /\ "protected" \in Names /\ "redirect" \in Names
    BY DEF Names, Fact
  <2> QED BY <2>1, <1>1, <1>2 DEF checkEndpointExposure
<1>19. checkWafBehavior(check, seen) \subseteq Finding
  <2>1. "waf" \in Names
    BY DEF Names, Fact
  <2> QED BY <2>1, <1>1, <1>2 DEF checkWafBehavior
<1>20. checkOpenApiRuntimeSafe(check, seen) \subseteq Finding
  <2>1. "serverError" \in Names
    BY DEF Names, Fact
  <2> QED BY <2>1, <1>1, <1>2, <1>6 DEF checkOpenApiRuntimeSafe
<1>21. checkExternalRunnerReadiness(check, seen) \subseteq Finding
  <2>1. "configured" \in Names /\ "healthy" \in Names
    BY DEF Names, Fact
  <2> QED BY <2>1, <1>1, <1>2 DEF checkExternalRunnerReadiness
<1>22. checkDefectDojoReadiness(check, seen) \subseteq Finding
  <2>1. "configured" \in Names
    BY DEF Names, Fact
  <2> QED BY <2>1, <1>1, <1>2 DEF checkDefectDojoReadiness
<1>23. seen.report # None => seen.report \in SUBSET Item
  BY DEF Sight
<1>24. checkGreenboneReadiness(check, seen) \subseteq Finding
  <2>1. "attached" \in Names /\ "readable" \in Names
    BY DEF Names, Fact
  <2>2. Unready(check, "readable", "high") \subseteq Finding
    BY <2>1, <1>1, <1>2
  <2>3. Unready(check, "attached", "medium") \subseteq Finding
    BY <2>1, <1>1, <1>2
  <2>4. Unready(check, "attached", "high") \subseteq Finding
    BY <2>1, <1>1, <1>2
  <2>5. seen.report # None =>
          parseGreenboneReportFindings(check, seen.report, "json" \in seen.facts)
            \subseteq Finding
    BY <1>23, ReportTypes
  <2> QED BY <2>2, <2>3, <2>4, <2>5 DEF checkGreenboneReadiness
<1>25. checkOpenScapReadiness(check, seen) \subseteq Finding
  <2>1. /\ "readable" \in Names /\ "content" \in Names /\ "evaluates" \in Names
        /\ "execution" \in Names
    BY DEF Names, Fact
  <2>2. \A name \in {"readable", "content", "evaluates", "execution"} :
          Unready(check, name, "high") \subseteq Finding
            /\ Unready(check, name, "medium") \subseteq Finding
    BY <2>1, <1>1, <1>2
  <2>3. seen.report # None =>
          parseOpenScapResultFindings(check, seen.report) \subseteq Finding
    BY <1>23, ReportTypes
  <2>4. evaluateOpenScap(check, seen) \subseteq Finding
    BY <2>2, <2>3 DEF evaluateOpenScap
  <2> QED BY <2>2, <2>3, <2>4 DEF checkOpenScapReadiness
<1>26. checkStratosPolicyConformance(check, seen) \subseteq Finding
  <2>1. "conformance" \in Names
    BY DEF Names
  <2> QED BY <2>1, <1>1, <1>2 DEF checkStratosPolicyConformance
<1>27. {Problem(check, "executor", "medium")} \subseteq Finding
  <2>1. "executor" \in Names
    BY DEF Names
  <2> QED BY <2>1, <1>1, <1>2
<1> QED
  BY <1>2, <1>4, <1>5, <1>6, <1>7, <1>8, <1>9, <1>10, <1>11, <1>12, <1>13, <1>14,
     <1>15, <1>16, <1>17, <1>18, <1>19, <1>20, <1>21, <1>22, <1>24, <1>25, <1>26,
     <1>27
  DEF runInternalCheck

\* One finding is never cut.
LEMMA SingleUncut ==
  ASSUME NEW check, NEW f PROVE Uncut(check, {f})
<1>1. Cardinality({f}) = 1
  BY FS_Singleton
<1> QED BY <1>1, ReportConstants DEF Uncut

\* An import that takes nothing severe has minor items only.
LEMMA ImportPasses ==
  ASSUME NEW check \in Checks, NEW seen \in Sight, NEW target, NEW class,
         definition[check].runs \in Imports, seen.report # None,
         \A f \in runInternalCheck(check, seen, target, class) : ~Severe(f),
         NEW i \in seen.report
  PROVE  Minor(i, definition[check].runs)
<1> DEFINE D == runInternalCheck(check, seen, target, class)
<1>0. seen.report \in SUBSET Item
  BY DEF Sight
<1>1. \A name \in Names, severity \in {"critical", "high", "medium"} :
        ~(Unready(check, name, severity) \subseteq D)
  <2> TAKE name \in Names, severity \in {"critical", "high", "medium"}
  <2>1. \A f \in Unready(check, name, severity) : Severe(f)
    BY ProblemTypes DEF Severity
  <2>2. Unready(check, name, severity) # {}
    BY DEF Unready
  <2> HIDE DEF D
  <2>3. \A f \in D : ~Severe(f)
    BY DEF D
  <2> QED BY <2>1, <2>2, <2>3
<1>2. D # missingActiveTargetFinding(check)
  <2>1. "target" \in Names /\ "high" \in Severity
    BY DEF Names, Severity
  <2>2. Severe(Problem(check, "target", "high"))
    BY <2>1, ProblemTypes
  <2>3. \A f \in D : ~Severe(f)
    OBVIOUS
  <2> HIDE DEF D
  <2> QED BY <2>2, <2>3 DEF missingActiveTargetFinding
<1>3. {"readable", "attached", "content", "evaluates", "execution"} \subseteq Names
  BY DEF Names, Fact
<1>4. CASE definition[check].runs = "greenbone"
  <2>1. D = checkGreenboneReadiness(check, seen)
    BY <1>2, <1>4 DEF runInternalCheck
  <2>2. D # Unready(check, "attached", IF "configured" \in seen.facts
                                       THEN "medium" ELSE "high")
    <3> HIDE DEF D
    <3> QED BY <1>1, <1>3
  <2>3. D = parseGreenboneReportFindings(check, seen.report, "json" \in seen.facts)
    BY <2>1, <2>2 DEF checkGreenboneReadiness
  <2>4. \A f \in parseGreenboneReportFindings(check, seen.report, "json" \in seen.facts) :
          ~Severe(f)
    BY <2>3
  <2> QED BY <1>0, <1>4, <2>4, ImportedMinor
<1>5. CASE definition[check].runs = "openscap"
  <2>1. D = checkOpenScapReadiness(check, seen)
    BY <1>5 DEF runInternalCheck, TargetChecks
  <2>2. \A name \in {"readable", "content", "evaluates", "execution"} :
          D # Unready(check, name, "high") /\ D # Unready(check, name, "medium")
    <3> HIDE DEF D
    <3> QED BY <1>1, <1>3
  <2>3. D = parseOpenScapResultFindings(check, seen.report)
    <3> HIDE DEF D
    <3> QED BY <2>1, <2>2 DEF checkOpenScapReadiness, evaluateOpenScap
  <2>4. \A f \in parseOpenScapResultFindings(check, seen.report) : ~Severe(f)
    BY <2>3
  <2> QED BY <1>0, <1>5, <2>4, ImportedMinor
<1> QED BY <1>4, <1>5 DEF Imports

\* What Blind says, of a check.
Unseen(check, seen, target) ==
  LET runs == definition[check].runs IN
  \/ runs \in DOMAIN Essential /\ Essential[runs] \cap seen.facts = {}
  \/ /\ runs = "dns" /\ "address" \notin seen.facts
     /\ ~(target # None /\ target.host \in LocalHosts)
  \/ runs \in Imports /\ seen.report = None

\* A check that saw nothing of what it is about finds something severe, of
\* which nothing is cut.
LEMMA UnseenIsSevere ==
  ASSUME NEW check \in Checks, NEW seen \in Sight, NEW target, NEW class,
         Unseen(check, seen, target)
  PROVE  LET D == runInternalCheck(check, seen, target, class)
         IN  Uncut(check, D) /\ \E f \in D : Severe(f)
<1> DEFINE runs == definition[check].runs
           D == runInternalCheck(check, seen, target, class)
<1>0. /\ \A name \in Names, severity \in {"critical", "high", "medium"} :
           Severe(Problem(check, name, severity))
      /\ \A name \in Names, severity \in {"critical", "high", "medium"} :
           \A f \in Unready(check, name, severity) : Severe(f)
  BY ProblemTypes DEF Severity
<1>00. {"target", "openapi", "envExample", "response", "https", "inspected", "modern",
        "configured", "address", "readable", "attached", "content", "evaluates"}
         \subseteq Names
  BY DEF Names, Fact
<1>1. CASE target = None /\ runs \in TargetChecks
  <2>1. D = {Problem(check, "target", "high")}
    BY <1>1 DEF runInternalCheck, missingActiveTargetFinding
  <2> QED BY <2>1, <1>0, <1>00, SingleUncut
<1>2. CASE ~(target = None /\ runs \in TargetChecks)
  <2>1. CASE runs \in {"openapi", "errors", "operation", "runtime"}
    <3>1. "openapi" \notin seen.facts
      BY <2>1 DEF Unseen, Essential, Imports
    <3>2. D = {Problem(check, "openapi", "high")}
      BY <1>2, <2>1, <3>1
      DEF runInternalCheck, checkOpenApiDocument, checkOpenApiErrorResponse,
          checkOpenApiPath, checkOpenApiRuntimeSafe, Expect
    <3> QED BY <3>2, <1>0, <1>00, SingleUncut
  <2>2. CASE runs = "env"
    <3>1. "envExample" \notin seen.facts
      BY <2>2 DEF Unseen, Essential, Imports
    <3>2. D = {Problem(check, "envExample", "medium")}
      BY <1>2, <2>2, <3>1 DEF runInternalCheck, checkEnvExample
    <3> QED BY <3>2, <1>0, <1>00, SingleUncut
  <2>3. CASE runs = "headers"
    <3>1. "response" \notin seen.facts
      BY <2>3 DEF Unseen, Essential, Imports
    <3>2. D = {Problem(check, "response", "medium")}
      BY <1>2, <2>3, <3>1 DEF runInternalCheck, checkHttpSecurityHeaders
    <3> QED BY <3>2, <1>0, <1>00, SingleUncut
  <2>4. CASE runs = "certificate"
    <3>1. "inspected" \notin seen.facts
      BY <2>4 DEF Unseen, Essential, Imports
    <3>2. D = {Problem(check, "https", "high")} \/ D = {Problem(check, "inspected", "high")}
      BY <1>2, <2>4, <3>1 DEF runInternalCheck, checkTlsCertificate
    <3> QED BY <3>2, <1>0, <1>00, SingleUncut
  <2>5. CASE runs = "tls"
    <3>1. {"tls12", "tls13"} \cap seen.facts = {}
      BY <2>5 DEF Unseen, Essential, Imports
    <3>2. \/ Problem(check, "https", "high") \in D
          \/ Problem(check, "modern", "critical") \in D
      BY <1>2, <2>5, <3>1 DEF runInternalCheck, checkTlsConfiguration, Expect
    <3>3. Uncut(check, D)
      BY <2>5 DEF Uncut, Imports
    <3>4. \E f \in D : Severe(f)
      <4> HIDE DEF D
      <4> QED BY <3>2, <1>0, <1>00
    <3> QED BY <3>3, <3>4
  <2>6. CASE runs \in {"vps", "dojo"}
    <3>1. "configured" \notin seen.facts
      BY <2>6 DEF Unseen, Essential, Imports
    <3>2. \/ D = Unready(check, "configured", "high")
          \/ D = Unready(check, "configured", "medium")
      BY <1>2, <2>6, <3>1
      DEF runInternalCheck, checkExternalRunnerReadiness, checkDefectDojoReadiness
    <3> QED BY <3>2, <1>0, <1>00, SingleUncut DEF Unready
  <2>7. CASE runs = "dns"
    <3>1. "address" \notin seen.facts /\ target.host \notin LocalHosts
      BY <1>2, <2>7 DEF Unseen, Essential, Imports, TargetChecks
    <3>2. D = {Problem(check, "address", "high")}
      BY <1>2, <2>7, <3>1 DEF runInternalCheck, checkDnsRecords
    <3> QED BY <3>2, <1>0, <1>00, SingleUncut
  <2>8. CASE runs = "greenbone"
    <3>1. seen.report = None
      BY <2>8 DEF Unseen, Essential, Imports
    <3>2. \/ D = Unready(check, "readable", "high")
          \/ D = Unready(check, "attached", "high")
          \/ D = Unready(check, "attached", "medium")
      BY <1>2, <2>8, <3>1 DEF runInternalCheck, checkGreenboneReadiness
    <3> QED BY <3>2, <1>0, <1>00, SingleUncut DEF Unready
  <2>9. CASE runs = "openscap"
    <3>1. seen.report = None
      BY <2>9 DEF Unseen, Essential, Imports
    <3>2. \/ D = Unready(check, "readable", "high")
          \/ D = Unready(check, "content", "high")
          \/ D = Unready(check, "content", "medium")
          \/ D = Unready(check, "evaluates", "medium")
      BY <1>2, <2>9, <3>1
      DEF runInternalCheck, checkOpenScapReadiness, evaluateOpenScap
    <3> QED BY <3>2, <1>0, <1>00, SingleUncut DEF Unready
  <2> QED BY <2>1, <2>2, <2>3, <2>4, <2>5, <2>6, <2>7, <2>8, <2>9
          DEF Unseen, Essential, Imports
<1> QED BY <1>1, <1>2

-----------------------------------------------------------------------------
(* Types                                                                    *)

\* Every execution finding is a finding, and a readiness gap.
LEMMA GapTypes ==
  ASSUME TypeOK, NEW n \in Steps
  PROVE  /\ ExecutionFinding(n) \in Finding
         /\ ExecutionFinding(n).scope = "platform"
         /\ ExecutionFinding(n).severity = "high"
         /\ ExecutionFinding(n).status = "open"
<1>1. profile.checks[n] \in Checks
  BY PlanSteps
<1>2. "execution" \in Names /\ "high" \in Severity
  BY DEF Names, Severity
<1>3. ExecutionFinding(n) \in Finding
  BY <1>1, <1>2, CreatedTypes DEF ExecutionFinding
<1> QED BY <1>3 DEF ExecutionFinding, createExecutionFinding

\* What is taken of what a check finds.
LEMMA AnswerTypes ==
  ASSUME TypeOK, NEW n \in Steps, NEW seen \in Sight, NEW F \in Answers(n, seen)
  PROVE  /\ F \subseteq Finding
         /\ Uncut(profile.checks[n], Discovered(n, seen)) => F = Discovered(n, seen)
<1>1. profile.checks[n] \in Checks
  BY PlanSteps
<1>2. Discovered(n, seen) \subseteq Finding
  BY <1>1, CheckTypes DEF Discovered
<1>3. F \subseteq Discovered(n, seen)
  BY DEF Answers, Taken
<1>4. Uncut(profile.checks[n], Discovered(n, seen)) => F = Discovered(n, seen)
  BY DEF Answers, Taken
<1> QED BY <1>2, <1>3, <1>4

\* Every ending of a command is one of Command.
LEMMA EndingTypes ==
  ASSUME NEW n \in Steps PROVE Endings(n) \subseteq Command
<1>1. [exit |-> "none", timedOut |-> FALSE, wrote |-> FALSE] \in Command
  BY DEF Command
<1> QED BY <1>1 DEF Endings

\* What is reported of a command is a result, trustworthy or with a gap, and
\* has all that was parsed.
LEMMA OutcomeTypes ==
  ASSUME TypeOK, NEW n \in Steps, NEW c \in Command, NEW seen \in Sight,
         NEW F \in SUBSET Finding,
         F = parseExternalFindings(profile.checks[n], seen.report)
  PROVE  LET r == Outcome(n, c, seen) IN
         /\ r \in StepResult /\ r.seen = seen /\ F \subseteq r.findings
         /\ \/ ExecutionFinding(n) \in r.findings
            \/ /\ r.status \in {"passed", "failed"}
               /\ r.command = c
               /\ ~c.timedOut
               /\ c.exit # "zero" => r.findings # {}
<1> DEFINE gap == IF c.timedOut \/ (c.exit # "zero" /\ F = {})
                  THEN {ExecutionFinding(n)} ELSE {}
           status == IF c.timedOut \/ c.exit # "zero" \/ F \cup gap # {}
                     THEN "failed" ELSE "passed"
           r == Outcome(n, c, seen)
<1>1. r = [status |-> status, findings |-> F \cup gap, command |-> c, seen |-> seen]
  BY DEF Outcome, Result
<1>2. gap \subseteq Finding
  BY GapTypes
<1>3. status \in {"passed", "failed"}
  OBVIOUS
<1>4. r \in StepResult
  <2> HIDE DEF gap, status, r
  <2> QED BY <1>1, <1>2, <1>3 DEF StepResult, StepStatus
<1>5. r.seen = seen /\ F \subseteq r.findings
  <2> HIDE DEF gap, status, r
  <2> QED BY <1>1
<1>6. CASE gap # {}
  <2>1. ExecutionFinding(n) \in F \cup gap
    BY <1>6
  <2> HIDE DEF gap, status, r
  <2>2. ExecutionFinding(n) \in r.findings
    BY <1>1, <2>1
  <2> QED BY <1>4, <1>5, <2>2 DEF r
<1>7. CASE gap = {}
  <2>1. ~c.timedOut /\ (c.exit # "zero" => F # {})
    BY <1>7
  <2> HIDE DEF gap, status, r
  <2>2. /\ r.status \in {"passed", "failed"} /\ r.command = c
        /\ c.exit # "zero" => r.findings # {}
    BY <1>1, <1>3, <2>1
  <2> QED BY <1>4, <1>5, <2>1, <2>2 DEF r
<1> QED BY <1>6, <1>7

-----------------------------------------------------------------------------
(* The inductive invariant                                                  *)

Gap(f) == f.scope = "platform" /\ f.severity = "high" /\ f.status = "open"

\* A result the gate may rely on.
Trusted(r) ==
  /\ r.status \in {"passed", "failed"} /\ r.seen # None
  /\ r.command # None => /\ ~r.command.timedOut
                         /\ r.command.exit # "zero" => r.findings # {}

HasGap(R) == \E m \in DOMAIN R : \E f \in R[m].findings : Gap(f)

Honest(R) == HasGap(R) \/ \A m \in DOMAIN R : Trusted(R[m])

\* What the result r of step n says of what was seen: all of it, or of an
\* imported report as much as is taken.
Tells(n, r) ==
  r.seen # None =>
    IF Def(n).tool = "probe" THEN r.findings \in Answers(n, r.seen)
    ELSE parseExternalFindings(profile.checks[n], r.seen.report) \subseteq r.findings

Telling(R) == \A m \in DOMAIN R : Tells(m, R[m])

IInv ==
  /\ TypeOK
  /\ contacted # {} => ~plan.blocked
  /\ Honest(results)
  /\ Telling(results)

\* Files of a step that may have changed are still what the parsers read.
EvidenceTyped(file) ==
  /\ DOMAIN file = Steps
  /\ \A n \in Steps : file[n] = None \/ file[n] \subseteq Item

LEMMA FileTypes ==
  ASSUME TypeOK, NEW n \in Steps, NEW file,
         file \in Files(n) \/ file = evidence[n]
  PROVE  /\ file = None \/ file \subseteq Item
         /\ EvidenceTyped([evidence EXCEPT ![n] = file])
<1>1. reports[profile.checks[n]] \subseteq Item
  BY PlanSteps, ExecutionConstants
<1>2. file = None \/ file \subseteq Item
  BY <1>1 DEF Files, TypeOK
<1>3. DOMAIN evidence = Steps /\ \A m \in Steps : evidence[m] = None \/ evidence[m] \subseteq Item
  BY DEF TypeOK
<1>4. EvidenceTyped([evidence EXCEPT ![n] = file])
  BY <1>2, <1>3 DEF EvidenceTyped
<1> QED BY <1>2, <1>4

LEMMA HonestAppend ==
  ASSUME NEW R \in Seq(StepResult), Honest(R), NEW r \in StepResult,
         Trusted(r) \/ \E f \in r.findings : Gap(f)
  PROVE  Honest(Append(R, r))
<1>1. /\ DOMAIN R = 1..Len(R) /\ DOMAIN Append(R, r) = 1..(Len(R) + 1)
      /\ Len(R) \in Nat
      /\ \A m \in 1..Len(R) : Append(R, r)[m] = R[m]
      /\ Append(R, r)[Len(R) + 1] = r
  BY AppendProperties
<1>2. CASE HasGap(R)
  <2>1. PICK m \in DOMAIN R : \E f \in R[m].findings : Gap(f)
    BY <1>2 DEF HasGap
  <2>2. m \in DOMAIN Append(R, r) /\ Append(R, r)[m] = R[m]
    BY <1>1
  <2> QED BY <2>1, <2>2 DEF Honest, HasGap
<1>3. CASE \E f \in r.findings : Gap(f)
  <2>1. Len(R) + 1 \in DOMAIN Append(R, r)
    BY <1>1
  <2> QED BY <1>1, <1>3, <2>1 DEF Honest, HasGap
<1>4. CASE Trusted(r) /\ \A m \in DOMAIN R : Trusted(R[m])
  <2>1. \A m \in 1..(Len(R) + 1) : m \in 1..Len(R) \/ m = Len(R) + 1
    BY <1>1
  <2> QED BY <1>1, <1>4, <2>1 DEF Honest
<1> QED BY <1>2, <1>3, <1>4 DEF Honest

LEMMA TellingAppend ==
  ASSUME NEW R \in Seq(StepResult), Telling(R), NEW r, Tells(Len(R) + 1, r)
  PROVE  Telling(Append(R, r))
<1>1. /\ DOMAIN R = 1..Len(R) /\ DOMAIN Append(R, r) = 1..(Len(R) + 1)
      /\ Len(R) \in Nat
      /\ \A m \in 1..Len(R) : Append(R, r)[m] = R[m]
      /\ Append(R, r)[Len(R) + 1] = r
  OBVIOUS
<1>2. \A m \in 1..(Len(R) + 1) : m \in 1..Len(R) \/ m = Len(R) + 1
  BY <1>1
<1> QED BY <1>1, <1>2 DEF Telling

\* A result says the same as long as the plan is the same.
LEMMA TellingKept ==
  ASSUME UNCHANGED <<profile, dast>>, Telling(results')
  PROVE  Telling(results)'
<1>1. plan' = plan
  BY DEF plan
<1> QED BY <1>1 DEF Telling, Tells, Answers, Discovered, Def

\* A step that is settled keeps the invariant when its result is honest.
LEMMA SettledKeeps ==
  ASSUME IInv, NEW n \in Steps, Turn(n), NEW r \in StepResult, Settled(r),
         Trusted(r) \/ \E f \in r.findings : Gap(f), Tells(n, r),
         contacted' \subseteq contacted \cup {n},
         EvidenceTyped(evidence)'
  PROVE  IInv'
<1>1. /\ profile' = profile /\ dast' = dast /\ runner' = runner /\ attempt' = attempt
      /\ results' = Append(results, r)
  BY DEF Settled
<1>2. plan' = plan /\ Steps' = Steps
  BY <1>1 DEF plan, Steps
<1>3. /\ results \in Seq(StepResult) /\ contacted \subseteq Steps
      /\ n = Len(results) + 1 /\ ~plan.blocked
  BY DEF IInv, TypeOK, Turn
<1>4. Append(results, r) \in Seq(StepResult) /\ Len(Append(results, r)) = Len(results) + 1
  BY <1>3, AppendProperties
<1>5. Len(results) + 1 <= Len(profile.checks)
  <2>1. Steps = 1..Len(profile.checks) /\ Len(profile.checks) \in Nat
    BY PlanSteps DEF IInv
  <2> QED BY <2>1, <1>3
<1>6. TypeOK'
  <2>1. /\ profile' \in Profiles /\ dast' \in Requests /\ runner' \in Runners
        /\ attempt' \in 1..MaxAttempts
    BY <1>1 DEF IInv, TypeOK
  <2>2. results' \in Seq(StepResult) /\ Len(results') <= Len(profile'.checks)
    BY <1>1, <1>4, <1>5
  <2>3. contacted' \subseteq Steps'
    BY <1>2, <1>3
  <2> QED BY <2>1, <2>2, <2>3 DEF TypeOK, EvidenceTyped
<1>7. Honest(results)'
  BY <1>1, <1>3, HonestAppend DEF IInv
<1>8. Telling(results)'
  <2>1. Telling(results')
    BY <1>1, <1>3, TellingAppend DEF IInv
  <2> QED BY <1>1, <2>1, TellingKept
<1> QED BY <1>2, <1>3, <1>6, <1>7, <1>8 DEF IInv

\* Beginning again keeps it: no result is left.
LEMMA AgainKeeps ==
  ASSUME IInv, Again,
         contacted' \subseteq contacted \/ (~plan.blocked /\ contacted' \subseteq Steps),
         EvidenceTyped(evidence)'
  PROVE  IInv'
<1>1. /\ profile' = profile /\ dast' = dast /\ runner' = runner
      /\ attempt' = attempt + 1 /\ attempt < MaxAttempts /\ results' = <<>>
  BY DEF Again
<1>2. plan' = plan /\ Steps' = Steps
  BY <1>1 DEF plan, Steps
<1>3. TypeOK'
  <2>1. attempt' \in 1..MaxAttempts
    BY <1>1, ExecutionConstants DEF IInv, TypeOK
  <2>2. profile' \in Profiles /\ dast' \in Requests /\ runner' \in Runners
    BY <1>1 DEF IInv, TypeOK
  <2>3. results' \in Seq(StepResult) /\ Len(results') = 0
    BY <1>1, EmptySeq
  <2>4. Len(profile'.checks) \in Nat
    BY <1>1, PlanSteps DEF IInv
  <2>5. contacted' \subseteq Steps'
    BY <1>2 DEF IInv, TypeOK
  <2> QED BY <2>1, <2>2, <2>3, <2>4, <2>5 DEF TypeOK, EvidenceTyped
<1>4. Honest(results)' /\ Telling(results)'
  BY <1>1 DEF Honest, Telling
<1>5. contacted' # {} => ~plan'.blocked
  BY <1>2 DEF IInv
<1> QED BY <1>3, <1>4, <1>5 DEF IInv

\* What a broken-off step leaves of files and targets.
LEMMA BrokenOffTypes ==
  ASSUME IInv, NEW n \in Steps, BrokenOff(n)
  PROVE  /\ ~plan.blocked /\ Turn(n)
         /\ contacted' \subseteq contacted \cup {n}
         /\ DOMAIN evidence' = Steps
         /\ \A m \in Steps : evidence'[m] = None \/ evidence'[m] \subseteq Item
<1>1. Turn(n) /\ ~plan.blocked
  BY DEF BrokenOff, Turn
<1>2. Started(n) \subseteq {n}
  BY DEF Started
<1>3. contacted' \subseteq contacted \cup {n}
  BY <1>2 DEF BrokenOff
<1>4. evidence' = evidence \/ \E file \in Files(n) : evidence' = [evidence EXCEPT ![n] = file]
  BY DEF BrokenOff
<1>5. EvidenceTyped(evidence')
  <2>1. CASE evidence' = evidence
    BY <2>1 DEF IInv, TypeOK, EvidenceTyped
  <2>2. CASE \E file \in Files(n) : evidence' = [evidence EXCEPT ![n] = file]
    BY <2>2, FileTypes DEF IInv
  <2> QED BY <1>4, <2>1, <2>2
<1> QED BY <1>1, <1>3, <1>5 DEF EvidenceTyped

\* A step that came to nothing reports a gap, and nothing seen.
LEMMA NothingTells ==
  ASSUME TypeOK, NEW n \in Steps, NEW status \in StepStatus
  PROVE  /\ Nothing(status, n) \in StepResult /\ Tells(n, Nothing(status, n))
         /\ ExecutionFinding(n) \in Nothing(status, n).findings
<1>1. Nothing(status, n) \in StepResult
  BY GapTypes DEF Nothing, Result, StepResult
<1>2. Tells(n, Nothing(status, n))
  BY DEF Tells, Nothing, Result
<1> QED BY <1>1, <1>2 DEF Nothing, Result

LEMMA Preserved == IInv /\ [Next]_vars => IInv'
<1> SUFFICES ASSUME IInv, [Next]_vars PROVE IInv'
  OBVIOUS
<1> USE DEF IInv
<1>0. \A n \in Steps : \E f \in {ExecutionFinding(n)} : Gap(f)
  BY GapTypes DEF Gap
<1>00. EvidenceTyped(evidence)
  BY DEF TypeOK, EvidenceTyped
<1>000. profile' = profile => Steps' = Steps
  BY DEF Steps
<1>1. ASSUME NEW n \in Steps, RunInternal(n) PROVE IInv'
  <2>1. PICK seen \in sights[profile.checks[n]] : \E F \in Answers(n, seen) :
          Settled(Result(IF F = {} THEN "passed" ELSE "failed", F, None, seen))
    BY <1>1 DEF RunInternal
  <2>2. PICK F \in Answers(n, seen) :
          Settled(Result(IF F = {} THEN "passed" ELSE "failed", F, None, seen))
    BY <2>1
  <2> DEFINE r == Result(IF F = {} THEN "passed" ELSE "failed", F, None, seen)
  <2>3. seen \in Sight /\ seen # None
    BY PlanSteps, ExecutionConstants, CheckConstants
  <2>4. F \subseteq Finding
    BY <2>3, AnswerTypes
  <2>5. r \in StepResult /\ Trusted(r)
    BY <2>3, <2>4 DEF Result, StepResult, StepStatus, Trusted
  <2>6. Tells(n, r)
    BY <1>1, <2>2 DEF Tells, Result, RunInternal
  <2>7. Turn(n) /\ contacted' \subseteq contacted \cup {n} /\ evidence' = evidence
    BY <1>1 DEF RunInternal
  <2>8. EvidenceTyped(evidence)'
    BY <2>2, <2>7, <1>00, <1>000 DEF EvidenceTyped, Settled
  <2>9. Settled(r)
    BY <2>2
  <2> HIDE DEF r
  <2> QED BY <2>5, <2>6, <2>7, <2>8, <2>9, SettledKeeps
<1>2. ASSUME NEW n \in Steps, SkipExternal(n) PROVE IInv'
  <2> DEFINE r == Nothing("skipped", n)
  <2>1. /\ r \in StepResult /\ \E f \in r.findings : Gap(f)
        /\ Tells(n, r)
    BY <1>0, NothingTells DEF StepStatus
  <2>2. /\ Turn(n) /\ Settled(r)
        /\ contacted' \subseteq contacted \cup {n} /\ evidence' = evidence
    BY <1>2 DEF SkipExternal
  <2>3. EvidenceTyped(evidence)'
    BY <2>2, <1>00, <1>000 DEF EvidenceTyped, Settled
  <2> HIDE DEF r
  <2> QED BY <2>1, <2>2, <2>3, SettledKeeps
<1>3. ASSUME NEW n \in Steps, RunExternal(n) PROVE IInv'
  <2>1. PICK command \in Endings(n), output \in SUBSET reports[profile.checks[n]] :
          \E file \in IF command.wrote THEN Files(n) ELSE {evidence[n]} :
            /\ evidence' = [evidence EXCEPT ![n] = file]
            /\ Settled(Outcome(n, command, Read(file, output)))
    BY <1>3 DEF RunExternal
  <2>2. PICK file \in IF command.wrote THEN Files(n) ELSE {evidence[n]} :
            /\ evidence' = [evidence EXCEPT ![n] = file]
            /\ Settled(Outcome(n, command, Read(file, output)))
    BY <2>1
  <2> DEFINE seen == Read(file, output)
             F == parseExternalFindings(profile.checks[n], seen.report)
             r == Outcome(n, command, seen)
  <2>3. /\ file = None \/ file \subseteq Item
        /\ EvidenceTyped(evidence')
    BY <2>2, FileTypes
  <2>4. profile.checks[n] \in Checks
    BY PlanSteps
  <2>5. seen.report \in SUBSET Item /\ seen \in Sight /\ seen # None
    <3>1. output \subseteq Item
      BY <2>4, ExecutionConstants
    <3>2. seen.report \in SUBSET Item
      BY <3>1, <2>3 DEF Read
    <3>3. seen \in Sight
      BY <3>2 DEF Read, Sight
    <3> QED BY <3>2, <3>3, CheckConstants
  <2> HIDE DEF seen
  <2>6. F \subseteq Finding
    BY <2>4, <2>5, ReportTypes
  <2>7. command \in Command
    BY EndingTypes
  <2> HIDE DEF F
  <2>8. /\ r \in StepResult /\ r.seen = seen /\ F \subseteq r.findings
        /\ \/ ExecutionFinding(n) \in r.findings
           \/ /\ r.status \in {"passed", "failed"}
              /\ r.command = command
              /\ ~command.timedOut
              /\ command.exit # "zero" => r.findings # {}
    <3>1. F = parseExternalFindings(profile.checks[n], seen.report)
      BY DEF F
    <3> QED BY <3>1, <2>5, <2>6, <2>7, OutcomeTypes
  <2>9. Turn(n) /\ contacted' \subseteq contacted \cup {n}
    BY <1>3 DEF RunExternal, Started
  <2>10. Settled(r)
    BY <2>2 DEF seen
  <2>11. EvidenceTyped(evidence)'
    BY <2>3, <2>10, <1>000 DEF EvidenceTyped, Settled
  <2> HIDE DEF r
  <2>12. Trusted(r) \/ \E f \in r.findings : Gap(f)
    BY <2>5, <2>8, GapTypes DEF Trusted, Gap
  <2>13. Tells(n, r)
    BY <1>3, <2>8 DEF Tells, RunExternal, F
  <2> QED BY <2>8, <2>9, <2>10, <2>11, <2>12, <2>13, SettledKeeps
<1>4. ASSUME NEW n \in Steps, StepThrows(n) PROVE IInv'
  <2> DEFINE r == Nothing("error", n)
  <2>1. /\ r \in StepResult /\ \E f \in r.findings : Gap(f)
        /\ Tells(n, r)
    BY <1>0, NothingTells DEF StepStatus
  <2>2. BrokenOff(n) /\ Settled(r)
    BY <1>4 DEF StepThrows
  <2>3. EvidenceTyped(evidence)'
    BY <2>2, BrokenOffTypes, <1>000 DEF EvidenceTyped, Settled
  <2> HIDE DEF r
  <2> QED BY <2>1, <2>2, <2>3, BrokenOffTypes, SettledKeeps
<1>5. ASSUME NEW n \in Steps, Interrupt(n) PROVE IInv'
  <2>1. BrokenOff(n) /\ Again
    BY <1>5 DEF Interrupt
  <2>2. EvidenceTyped(evidence)'
    BY <2>1, BrokenOffTypes, <1>000 DEF EvidenceTyped, Again
  <2>3. ~plan.blocked /\ contacted' \subseteq Steps
    BY <2>1, BrokenOffTypes DEF TypeOK
  <2> QED BY <2>1, <2>2, <2>3, AgainKeeps
<1>6. ASSUME ExecuteBlocked PROVE IInv'
  <2> DEFINE R == [n \in Steps |->
                     IF plan.steps[n].blockedReasons # {}
                     THEN Nothing("blocked", n) ELSE Result("skipped", {}, None, None)]
  <2>1. /\ plan.blocked /\ results' = R
        /\ UNCHANGED <<profile, dast, runner, attempt, evidence, contacted>>
    BY <1>6 DEF ExecuteBlocked
  <2>2. plan' = plan /\ Steps' = Steps
    BY <2>1 DEF plan, Steps
  <2>3. \A n \in Steps : R[n] \in StepResult /\ R[n].seen = None
    <3>1. \A n \in Steps : Nothing("blocked", n) \in StepResult
      BY NothingTells DEF StepStatus
    <3>2. \A n \in Steps : Nothing("blocked", n).seen = None
      BY DEF Nothing, Result
    <3>3. /\ Result("skipped", {}, None, None) \in StepResult
          /\ Result("skipped", {}, None, None).seen = None
      BY DEF Result, StepResult, StepStatus
    <3> QED BY <3>1, <3>2, <3>3
  <2>4. Steps = 1..Len(profile.checks) /\ Len(profile.checks) \in Nat
    BY PlanSteps
  <2>5. R \in Seq(StepResult) /\ Len(R) = Len(profile.checks)
    <3>1. DOMAIN R = 1..Len(profile.checks)
      BY <2>4
    <3> HIDE DEF R
    <3>2. R \in [1..Len(profile.checks) -> StepResult]
      <4>1. R = [n \in Steps |-> R[n]]
        BY DEF R
      <4> QED BY <4>1, <2>3, <2>4
    <3> QED BY <3>2, <2>4
  <2>6. HasGap(R)
    <3>1. PICK n \in Steps : plan.steps[n].blockedReasons # {}
      BY <2>1, PlanBlocked, PlanSteps
    <3>2. n \in DOMAIN R /\ ExecutionFinding(n) \in R[n].findings
      BY <3>1 DEF Result, Nothing
    <3> QED BY <3>2, GapTypes DEF HasGap, Gap
  <2>7. DOMAIN R = Steps
    OBVIOUS
  <2> HIDE DEF R
  <2>8. TypeOK'
    BY <2>1, <2>2, <2>5 DEF TypeOK
  <2>9. Telling(results)'
    <3>1. Telling(results')
      BY <2>1, <2>3, <2>7 DEF Telling, Tells
    <3> QED BY <2>1, <3>1, TellingKept
  <2> QED BY <2>1, <2>2, <2>6, <2>8, <2>9 DEF Honest
<1>7. ASSUME Repeat PROVE IInv'
  <2>1. Again /\ contacted' = contacted /\ evidence' = evidence
    BY <1>7 DEF Repeat
  <2>2. EvidenceTyped(evidence)'
    BY <2>1, <1>00, <1>000 DEF EvidenceTyped, Again
  <2> QED BY <2>1, <2>2, AgainKeeps
<1>8. CASE UNCHANGED vars
  <2>1. plan' = plan /\ Steps' = Steps
    BY <1>8 DEF vars, plan, Steps
  <2>2. TypeOK'
    BY <1>8, <2>1 DEF vars, TypeOK
  <2>3. Telling(results)'
    BY <1>8, TellingKept DEF vars
  <2> QED BY <1>8, <2>1, <2>2, <2>3 DEF vars, Honest, HasGap
<1> QED BY <1>1, <1>2, <1>3, <1>4, <1>5, <1>6, <1>7, <1>8 DEF Next

LEMMA Initial == Init => IInv
<1> SUFFICES ASSUME Init PROVE IInv
  OBVIOUS
<1>1. profile.checks \in Seq(Checks)
  BY ExecutionConstants DEF Init, ScanProfile
<1>2. TypeOK
  BY <1>1, ExecutionConstants DEF Init, TypeOK
<1>3. Honest(results) /\ Telling(results)
  BY DEF Init, Honest, Telling
<1> QED BY <1>2, <1>3 DEF IInv, Init

-----------------------------------------------------------------------------
(* Theorems                                                                 *)

\* What was started belongs to a plan that is not blocked, and every result
\* can be relied on unless a readiness gap is reported.
THEOREM ExecutionInvariant == Spec => []IInv
BY Initial, Preserved, PTL DEF Spec

\* Results, evidence and counters keep their types, whatever runs or fails.
THEOREM ExecutionTypes == Spec => []TypeOK
<1>1. IInv => TypeOK
  BY DEF IInv
<1> QED BY <1>1, ExecutionInvariant, PTL

\* No active step runs past the guardrails, in any attempt, for any host list
\* and any target.
THEOREM GuardrailsAlwaysHold == Spec => []GuardrailsHold
<1>1. IInv => GuardrailsHold
  <2> SUFFICES ASSUME IInv, NEW n \in contacted, Def(n).activeDast
               PROVE
         /\ profile.allowActiveDast /\ dast.allowActiveScan
         /\ plan.target # None
         /\ plan.target.protocol # "other" /\ ~plan.target.credentials
         /\ \E p \in IF dast.allowedHosts \subseteq {Blank} THEN DefaultHosts
                     ELSE dast.allowedHosts \ {Blank} :
              \/ plan.target.host = p.host /\ ~p.wildcard
              \/ /\ p.wildcard
                 /\ \E i \in 2..Len(plan.target.host) :
                      p.host = SubSeq(plan.target.host, i, Len(plan.target.host))
         /\ ProductionLike(plan.target.host) =>
              profile.allowProductionTargets \/ dast.allowProductionTargets
    BY DEF GuardrailsHold, IInv
  <2>1. TypeOK /\ ~plan.blocked /\ n \in Steps
    BY DEF IInv, TypeOK
  <2> DEFINE patterns == normalizeAllowedHosts(allowedDastHosts(dast))
             given == IF dast.allowedHosts \subseteq {Blank} THEN DefaultHosts
                      ELSE dast.allowedHosts \ {Blank}
  <2>2. dast.allowedHosts \subseteq Pattern \cup {Blank}
    BY <2>1, PlanSteps DEF DastPolicy
  <2>3. DefaultHosts \subseteq Pattern /\ Blank \notin Pattern
    BY PlanConstants
  <2>4. patterns = given /\ patterns \subseteq Pattern
    BY <2>2, <2>3 DEF normalizeAllowedHosts, allowedDastHosts
  <2>5. plan.target \in Target /\ isHostAllowed(plan.target.host, patterns)
    BY <2>1, ActiveStep
  <2> HIDE DEF patterns, given
  <2>6. plan.target.host \in Hosts
    BY <2>5 DEF Target
  <2>7. \E p \in given :
          \/ plan.target.host = p.host /\ ~p.wildcard
          \/ /\ p.wildcard
             /\ \E i \in 2..Len(plan.target.host) :
                  p.host = SubSeq(plan.target.host, i, Len(plan.target.host))
    BY <2>4, <2>5, <2>6, AllowedHost
  <2> QED BY <2>1, <2>7, ActiveStep DEF given
<1> QED BY <1>1, ExecutionInvariant, PTL

\* Nothing reaches the network in a plan for which nobody asked for a
\* decision, whichever checks the profile lists.
THEOREM DecisionAlwaysAsked == Spec => []NetworkNeedsDecision
<1>1. IInv => NetworkNeedsDecision
  <2> SUFFICES ASSUME IInv, NEW n \in contacted
               PROVE  /\ Def(n).needsNetwork => planRequiresExternalOperation(plan)
                      /\ Def(n).activeDast => planUsesExternalOperation(plan)
    BY DEF NetworkNeedsDecision
  <2>1. TypeOK /\ ~plan.blocked /\ n \in Steps
    BY DEF IInv, TypeOK
  <2>2. ASSUME Def(n).needsNetwork PROVE planRequiresExternalOperation(plan)
    <3>1. n \in DOMAIN plan.steps
      BY <2>1, PlanSteps
    <3>2. plan.steps[n] = buildExecutionStep(profile.checks[n], profile, dast)
      BY <2>1, PlanSteps
    <3>3. plan.steps[n].restricted
      BY <2>2, <3>2 DEF buildExecutionStep, Def
    <3> QED BY <3>1, <3>3 DEF planRequiresExternalOperation
  <2>3. ASSUME Def(n).activeDast PROVE planUsesExternalOperation(plan)
    BY <2>1, <2>3, ActiveStep DEF planUsesExternalOperation
  <2> QED BY <2>2, <2>3
<1> QED BY <1>1, ExecutionInvariant, PTL

\* A readiness gap keeps the gate from passing.
LEMMA GapIsNoPass ==
  ASSUME IInv, HasGap(results) PROVE gate # "pass"
<1>0. PICK m \in DOMAIN results : \E f \in results[m].findings : Gap(f)
  BY DEF HasGap
<1>1. PICK f \in results[m].findings : Gap(f)
  BY <1>0
<1>2. f \in findings
  BY <1>1 DEF findings
<1>3. severityOrder.high = 4 /\ severityOrder.medium = 3
  BY DEF severityOrder
<1>4. AtLeast(f, "medium")
  BY <1>1, <1>3 DEF AtLeast, Gap
<1>5. f \in ReadinessGaps(findings)
  BY <1>1, <1>2, <1>4 DEF ReadinessGaps, OpenOnes, platformFindings, Gap
<1>6. evaluateGate(findings, plan.gate, classification).result # "pass"
  BY <1>5 DEF evaluateGate
<1> QED BY <1>6 DEF gate

\* A scan of which some step did not run to its end, or left nothing to
\* parse, does not pass, whatever the others and earlier attempts found.
THEOREM UnrunNeverPasses == Spec => []UnrunIsNoPass
<1>1. IInv => UnrunIsNoPass
  <2> SUFFICES ASSUME IInv, Done, gate = "pass", NEW n \in Steps
               PROVE  Trusted(results[n])
    BY DEF UnrunIsNoPass, Trusted
  <2>1. results \in Seq(StepResult) /\ Steps = 1..Len(profile.checks)
    BY PlanSteps DEF IInv, TypeOK
  <2>2. n \in DOMAIN results
    BY <2>1 DEF Done
  <2>3. ~HasGap(results)
    BY GapIsNoPass
  <2> QED BY <2>2, <2>3 DEF IInv, Honest
<1> QED BY <1>1, ExecutionInvariant, PTL

\* A severe finding keeps the gate from passing.
LEMMA SevereIsNoPass ==
  ASSUME NEW f \in findings, Severe(f) PROVE gate # "pass"
<1>1. /\ severityOrder.critical = 5 /\ severityOrder.high = 4
      /\ severityOrder.medium = 3 /\ severityOrder.low = 2
  BY DEF severityOrder
<1>2. AtLeast(f, "medium") /\ AtLeast(f, "low")
  BY <1>1 DEF AtLeast, Severe
<1>3. AtLeast(f, warningThreshold(plan.gate))
  BY <1>2 DEF warningThreshold
<1>4. f \in ReadinessGaps(findings) \/ f \in Warnings(findings, plan.gate)
  BY <1>2, <1>3
  DEF Severe, ReadinessGaps, Warnings, OpenOnes, platformFindings, applicationFindings
<1>5. evaluateGate(findings, plan.gate, classification).result # "pass"
  BY <1>4 DEF evaluateGate
<1> QED BY <1>5 DEF gate

\* In a scan that passes each step did its work, found nothing severe, and
\* tells what it saw.
LEMMA PassingStep ==
  ASSUME IInv, Done, gate = "pass", NEW n \in Steps
  PROVE  LET r == results[n] IN
         /\ profile.checks[n] \in Checks /\ r.seen # None /\ r.seen \in Sight
         /\ Tells(n, r) /\ \A f \in r.findings : ~Severe(f)
<1>1. results \in Seq(StepResult) /\ Steps = 1..Len(profile.checks)
      /\ profile.checks[n] \in Checks
  BY PlanSteps DEF IInv, TypeOK
<1>2. n \in DOMAIN results /\ results[n] \in StepResult
  BY <1>1 DEF Done
<1>3. ~HasGap(results)
  BY GapIsNoPass
<1>4. results[n].seen # None
  BY <1>2, <1>3 DEF IInv, Honest, Trusted
<1>5. results[n].seen \in Sight
  BY <1>2, <1>4 DEF StepResult
<1>6. Tells(n, results[n])
  BY <1>2 DEF IInv, Telling
<1>7. \A f \in results[n].findings : ~Severe(f)
  <2>1. results[n].findings \subseteq findings
    BY <1>2 DEF findings
  <2> QED BY <2>1, SevereIsNoPass
<1> QED BY <1>1, <1>4, <1>5, <1>6, <1>7

\* Nothing that a scanner or an imported report rates above minor, or that it
\* does not rate in a way the worker knows, is passed over, for any report
\* that is not cut.
THEOREM OnlyMinorEverPasses == Spec => []OnlyMinorPasses
<1>1. IInv => OnlyMinorPasses
  <2> SUFFICES ASSUME IInv, Done, gate = "pass", NEW n \in Steps,
                      \/ Def(n).tool \in {"source", "web"}
                      \/ Def(n).tool = "probe" /\ Def(n).runs \in Imports,
                      results[n].seen.report # None,
                      Def(n).tool = "probe" =>
                        Uncut(profile.checks[n], Discovered(n, results[n].seen)),
                      NEW i \in results[n].seen.report
               PROVE  Minor(i, Def(n).runs)
    BY DEF OnlyMinorPasses
  <2> DEFINE check == profile.checks[n]
             seen == results[n].seen
             F == results[n].findings
  <2>1. /\ check \in Checks /\ seen # None /\ seen \in Sight
        /\ Tells(n, results[n]) /\ \A f \in F : ~Severe(f)
    BY PassingStep
  <2>2. seen.report \in SUBSET Item
    BY <2>1 DEF Sight
  <2>3. CASE Def(n).tool \in {"source", "web"}
    <3>1. definition[check].runs \in Parsed
      BY <2>1, <2>3, ReportConstants DEF Def
    <3>2. parseExternalFindings(check, seen.report) \subseteq F
      BY <2>1, <2>3 DEF Tells
    <3>3. \A f \in parseExternalFindings(check, seen.report) : ~Severe(f)
      BY <2>1, <3>2
    <3>4. Minor(i, definition[check].runs)
      <4> HIDE DEF check, seen, F
      <4>1. i \in seen.report
        BY DEF seen
      <4> QED BY <2>1, <2>2, <3>1, <3>3, <4>1, ParsedMinor
    <3> QED BY <3>4 DEF Def
  <2>4. CASE Def(n).tool = "probe" /\ Def(n).runs \in Imports
    <3>1. F \in Answers(n, seen)
      BY <2>1, <2>4 DEF Tells
    <3>2. F = Discovered(n, seen)
      BY <2>1, <2>4, <3>1, AnswerTypes DEF IInv
    <3>3. \A f \in runInternalCheck(check, seen, plan.target, classification) : ~Severe(f)
      BY <2>1, <3>2 DEF Discovered
    <3>4. definition[check].runs \in Imports /\ i \in seen.report /\ seen.report # None
      BY <2>4 DEF Def
    <3>5. Minor(i, definition[check].runs)
      <4> HIDE DEF check, seen, F
      <4> QED BY <2>1, <3>3, <3>4, ImportPasses
    <3> QED BY <3>5 DEF Def
  <2> QED BY <2>3, <2>4
<1> QED BY <1>1, ExecutionInvariant, PTL

\* A check of the worker's own that saw nothing of what it is about keeps the
\* scan from passing, for any plan, target and configuration.
THEOREM BlindNeverPasses == Spec => []BlindIsNoPass
<1>1. IInv => BlindIsNoPass
  <2> SUFFICES ASSUME IInv, Done, gate = "pass", NEW n \in Steps,
                      Def(n).tool = "probe"
               PROVE  results[n].seen # None /\ ~Blind(n, results[n].seen)
    BY DEF BlindIsNoPass
  <2> DEFINE check == profile.checks[n]
             seen == results[n].seen
             F == results[n].findings
             D == runInternalCheck(check, seen, plan.target, classification)
  <2>1. /\ check \in Checks /\ seen # None /\ seen \in Sight
        /\ Tells(n, results[n]) /\ \A f \in F : ~Severe(f)
    BY PassingStep
  <2>2. F \in Answers(n, seen)
    BY <2>1 DEF Tells
  <2>3. Uncut(check, D) => F = D
    BY <2>1, <2>2, AnswerTypes DEF IInv, Discovered
  <2>4. ASSUME Blind(n, seen) PROVE FALSE
    <3>1. Uncut(check, D) /\ \E f \in D : Severe(f)
      <4>1. Unseen(check, seen, plan.target)
        BY <2>4 DEF Blind, Unseen, Def
      <4> HIDE DEF check, seen, F
      <4> QED BY <2>1, <4>1, UnseenIsSevere
    <3> QED BY <2>1, <2>3, <3>1
  <2> QED BY <2>1, <2>4
<1> QED BY <1>1, ExecutionInvariant, PTL
=============================================================================
