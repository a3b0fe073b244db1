--------------------------- MODULE InternalChecks ---------------------------
(***************************************************************************)
(* The checks the worker does itself (packages/scanners/src/index.ts:      *)
(* runInternalCheck): what each one finds, given what it gets to see of    *)
(* the project, the target, the configuration and imported reports.        *)
(*                                                                         *)
(* What is there to be seen is a set of facts, named after the finding     *)
(* that says that one is missing. Checks of one kind that differ in a list *)
(* only share a definition, with the list in `parts`.                      *)
(***************************************************************************)
EXTENDS ScannerReports

CONSTANTS
  Parts,      \* paths, words and operations that checks look for
  parts,      \* check -> those it looks for
  Sensitive,  \* check -> names of findings whose texts name a sensitive keyword
  LocalHosts  \* isLocalHost

\* What probes and files can show; resolving and probing that fails shows
\* nothing. A service is that of some common port other than the target's.
Fact == Parts \cup
  {"openapi", "fields", "address", "mail", "inspected", "authorized", "san",
   "tls10", "tls11", "tls12", "tls13", "ssh", "web", "docker", "database",
   "response", "hsts", "nosniff", "frame", "csp", "referrer", "permissions",
   "accessible", "protected", "redirect", "waf", "serverError", "configured",
   "healthUrl", "healthy", "attached", "json", "content", "readable",
   "evaluates", "ran", "vulnerable", "envExample", "concrete", "forbidden"}

\* days: until the certificate expires, None when that cannot be read.
Sight == [facts: SUBSET Fact, days: Int \cup {None},
          report: (SUBSET Item) \cup {None}]

\* What a finding can be about.
Names == ItemNames \cup Fact \cup
  {"execution", "target", "https", "expiry", "modern", "path", "evidence",
   "conformance", "classification", "executor"}

ASSUME CheckConstants ==
  /\ parts \in [Checks -> SUBSET Parts]
  /\ Sensitive \in [Checks -> SUBSET Names]
  /\ LocalHosts \subseteq Hosts
  /\ Checks \X Names \subseteq FindingIds
  /\ None \notin Sight

Problem(check, name, severity) ==
  createExecutionFinding(check, name, severity, "application",
                         name \in Sensitive[check])

Unready(check, name, severity) ==
  {createExecutionFinding(check, name, severity, "platform", FALSE)}

\* A finding unless it is so.
Expect(so, check, name, severity) ==
  IF so THEN {} ELSE {Problem(check, name, severity)}

-----------------------------------------------------------------------------
(* The project                                                              *)

checkPathsExist(check, seen) ==
  {Problem(check, p, "medium") : p \in parts[check] \ seen.facts}

checkDocumentationKeywords(check, seen) ==
  Expect(parts[check] \cap seen.facts # {}, check, "evidence", "medium")

checkOpenApiDocument(check, seen) ==
  Expect("openapi" \in seen.facts, check, "openapi", "high")

checkOpenApiErrorResponse(check, seen) ==
  IF "openapi" \notin seen.facts THEN checkOpenApiDocument(check, seen)
  ELSE Expect(parts[check] \subseteq seen.facts, check, "fields", "high")

checkOpenApiPath(check, seen) ==
  IF "openapi" \notin seen.facts THEN checkOpenApiDocument(check, seen)
  ELSE Expect(parts[check] \subseteq seen.facts, check, "path", "high")

\* The policy:* checks; no plan gets to them (buildExecutionStep blocks it).
checkStratosPolicyConformance(check, seen) ==
  Expect(parts[check] \subseteq seen.facts, check, "conformance", "high")

checkEnvExample(check, seen) ==
  IF "envExample" \notin seen.facts THEN {Problem(check, "envExample", "medium")}
  ELSE Expect("concrete" \notin seen.facts, check, "concrete", "high")

checkForbiddenFiles(check, seen) ==
  Expect("forbidden" \notin seen.facts, check, "forbidden", "critical")

checkProjectDataClassification(check, class) ==
  Expect(class \in {"health-data", "sensitive"}, check, "classification", "medium")

-----------------------------------------------------------------------------
(* The target                                                               *)

missingActiveTargetFinding(check) == {Problem(check, "target", "high")}

checkDnsRecords(check, seen, target) ==
  IF target.host \in LocalHosts THEN {}
  ELSE IF "address" \notin seen.facts THEN {Problem(check, "address", "high")}
  ELSE Expect("mail" \in seen.facts, check, "mail", "info")

ExpirySeverity(days) ==
  IF days < 0 THEN "critical" ELSE IF days < 14 THEN "high" ELSE "medium"

checkTlsCertificate(check, seen, target) ==
  IF target.protocol # "https" THEN {Problem(check, "https", "high")}
  ELSE IF "inspected" \notin seen.facts THEN {Problem(check, "inspected", "high")}
  ELSE Expect("authorized" \in seen.facts, check, "authorized", "high")
         \cup Expect(seen.days = None \/ seen.days >= 30, check, "expiry",
                     ExpirySeverity(seen.days))
         \cup Expect("san" \in seen.facts \/ target.host \in LocalHosts,
                     check, "san", "medium")

checkTlsConfiguration(check, seen, target) ==
  IF target.protocol # "https" THEN {Problem(check, "https", "high")}
  ELSE {Problem(check, v, "high") : v \in {"tls10", "tls11"} \cap seen.facts}
         \cup Expect({"tls12", "tls13"} \cap seen.facts # {}, check, "modern",
                     "critical")

\* The severity of an open port, by a service of each.
commonPortChecks ==
  [ssh |-> "medium", web |-> "info", docker |-> "critical", database |-> "high"]

checkCommonPorts(check, seen) ==
  {Problem(check, s, commonPortChecks[s]) :
     s \in {p \in DOMAIN commonPortChecks \cap seen.facts :
              commonPortChecks[p] # "info"}}

\* Mutant: a target that does not answer has no header that is wrong.
checkHttpSecurityHeadersSilent(check, seen, target) ==
  IF "response" \notin seen.facts THEN {}
  ELSE {Problem(check, h, "medium") : h \in {"nosniff", "frame", "csp"} \ seen.facts}

checkHttpSecurityHeaders(check, seen, target) ==
  IF "response" \notin seen.facts THEN {Problem(check, "response", "medium")}
  ELSE Expect(target.protocol = "https", check, "https", "high")
         \cup Expect(target.protocol = "https" => "hsts" \in seen.facts, check, "hsts", "high")
         \cup {Problem(check, h, "medium") :
                 h \in {"nosniff", "frame", "csp"} \ seen.facts}
         \cup {Problem(check, h, "low") :
                 h \in {"referrer", "permissions"} \ seen.facts}

\* An answer of another status, or none, says nothing of an endpoint.
checkEndpointExposure(check, seen, severity) ==
  Expect("accessible" \notin seen.facts, check, "accessible", severity)
    \cup {Problem(check, a, "info") : a \in {"protected", "redirect"} \cap seen.facts}

checkWafBehavior(check, seen) ==
  Expect("waf" \in seen.facts, check, "waf", "low")

checkOpenApiRuntimeSafe(check, seen) ==
  IF "openapi" \notin seen.facts THEN checkOpenApiDocument(check, seen)
  ELSE Expect("serverError" \notin seen.facts, check, "serverError", "high")

-----------------------------------------------------------------------------
(* Services and imported reports                                            *)

checkExternalRunnerReadiness(check, seen) ==
  IF "configured" \notin seen.facts THEN Unready(check, "configured", "high")
  ELSE IF "healthUrl" \in seen.facts /\ "healthy" \notin seen.facts
  THEN Unready(check, "healthy", "high") ELSE {}

checkDefectDojoReadiness(check, seen) ==
  IF "configured" \in seen.facts THEN {} ELSE Unready(check, "configured", "medium")

checkGreenboneReadiness(check, seen) ==
  IF "attached" \in seen.facts
  THEN IF seen.report = None THEN Unready(check, "readable", "high")
       ELSE parseGreenboneReportFindings(check, seen.report, "json" \in seen.facts)
  ELSE Unready(check, "attached",
               IF "configured" \in seen.facts THEN "medium" ELSE "high")

\* oscap ends with 2 when a rule fails ("vulnerable"); any other failure is a
\* gap unless the report names something.
evaluateOpenScap(check, seen) ==
  IF seen.report = None THEN Unready(check, "readable", "high")
  ELSE LET found == parseOpenScapResultFindings(check, seen.report) IN
       IF found = {} /\ {"ran", "vulnerable"} \cap seen.facts = {}
       THEN Unready(check, "execution", "high") ELSE found

checkOpenScapReadiness(check, seen) ==
  CASE "attached" \in seen.facts ->
         IF seen.report = None THEN Unready(check, "readable", "high")
         ELSE parseOpenScapResultFindings(check, seen.report)
    [] "attached" \notin seen.facts /\ "content" \notin seen.facts ->
         Unready(check, "content", "medium")
    [] OTHER ->
         IF "readable" \notin seen.facts THEN Unready(check, "content", "high")
         ELSE IF "evaluates" \notin seen.facts
         THEN Unready(check, "evaluates", "medium")
         ELSE evaluateOpenScap(check, seen)

-----------------------------------------------------------------------------
(* runInternalCheck                                                         *)

\* Checks that ask for the target of the plan before they look.
TargetChecks ==
  {"dns", "certificate", "tls", "ports", "headers", "admin", "debug",
   "discovery", "waf", "runtime", "vps", "greenbone"}

runInternalCheck(check, seen, target, class) ==
  LET runs == definition[check].runs IN
  IF runs \in TargetChecks /\ target = None
  THEN missingActiveTargetFinding(check)
  ELSE CASE runs = "paths" -> checkPathsExist(check, seen)
         [] runs = "openapi" -> checkOpenApiDocument(check, seen)
         [] runs = "errors" -> checkOpenApiErrorResponse(check, seen)
         [] runs = "operation" -> checkOpenApiPath(check, seen)
         [] runs = "dns" -> checkDnsRecords(check, seen, target)
         [] runs = "certificate" -> checkTlsCertificate(check, seen, target)
         [] runs = "tls" -> checkTlsConfiguration(check, seen, target)
         [] runs = "ports" -> checkCommonPorts(check, seen)
         [] runs = "headers" -> checkHttpSecurityHeaders(check, seen, target)
         [] runs = "admin" -> checkEndpointExposure(check, seen, "medium")
         [] runs = "debug" -> checkEndpointExposure(check, seen, "high")
         [] runs = "discovery" -> checkEndpointExposure(check, seen, "low")
         [] runs = "waf" -> checkWafBehavior(check, seen)
         [] runs = "runtime" -> checkOpenApiRuntimeSafe(check, seen)
         [] runs = "vps" -> checkExternalRunnerReadiness(check, seen)
         [] runs = "dojo" -> checkDefectDojoReadiness(check, seen)
         [] runs = "greenbone" -> checkGreenboneReadiness(check, seen)
         [] runs = "openscap" -> checkOpenScapReadiness(check, seen)
         [] runs = "conformance" -> checkStratosPolicyConformance(check, seen)
         [] runs = "keywords" -> checkDocumentationKeywords(check, seen)
         [] runs = "classification" -> checkProjectDataClassification(check, class)
         [] runs = "env" -> checkEnvExample(check, seen)
         [] runs = "files" -> checkForbiddenFiles(check, seen)
         [] OTHER -> {Problem(check, "executor", "medium")}

\* Of an imported report the findings that come first are taken.
Imports == {"greenbone", "openscap"}
Uncut(check, found) ==
  definition[check].runs \in Imports => ~(Cardinality(found) > ImportLimit)
Taken(check, found) ==
  IF ~Uncut(check, found)
  THEN {some \in SUBSET found : Cardinality(some) = ImportLimit}
  ELSE {found}
=============================================================================
