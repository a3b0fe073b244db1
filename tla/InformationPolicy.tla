------------------------- MODULE InformationPolicy -------------------------
(***************************************************************************)
(* The decisions of apps/api/src/governance.ts as operators: the access    *)
(* projection that STRATOS answers, the scope test, the local decision     *)
(* table and what is accepted of a central decision. Bindings, scopes and  *)
(* answers are records of the fields these decisions read.                 *)
(***************************************************************************)
EXTENDS Naturals, Sequences

CONSTANTS
  Projects,  \* identifiers of registered projects
  Subject,   \* the caller
  None       \* an absent value

SECURITY_PREFLIGHT_CAPABILITIES ==
  {"access", "submit_scan", "read_scan", "external_operation", "export",
   "read_audit", "manage_access"}

\* The identifier that an organization scope without one stands for.
STRATOS_ORGANIZATION_ID == "org_stratos"

OrganizationScope ==
  [type |-> "organization", id |-> STRATOS_ORGANIZATION_ID, owner |-> None]
ProjectScope(p) == [type |-> "project", id |-> p, owner |-> None]

handlingClasses == {"PUBLIC", "INTERNAL", "RESTRICTED"}
tlpValues == {"TLP:RED", "TLP:AMBER+STRICT", "TLP:AMBER", "TLP:GREEN", "TLP:CLEAR"}
papValues == {"PAP:RED", "PAP:AMBER", "PAP:GREEN", "PAP:CLEAR"}
obligations ==
  {"AUDIT_ACCESS", "NO_EXTERNAL_AI", "LOCAL_PROCESSING_ONLY",
   "NO_PUBLIC_EXPORT", "NO_EXPORT", "WATERMARK", "ENCRYPT_AT_REST",
   "RECIPIENT_CONFIRMATION", "ORIGINATOR_APPROVAL", "PAP_ENFORCEMENT"}

\* The version of the Information Policy that this code speaks.
INFORMATION_POLICY_VERSION == "v2"

\* registered: the binding has an identifier and a hash.
policyBindingForClassification(classification) ==
  LET Of(handling, tlp, pap, more) ==
        [registered |-> FALSE, version |-> INFORMATION_POLICY_VERSION,
         legal |-> "NONE", handling |-> handling, tlp |-> tlp,
         recipients |-> {}, pap |-> pap,
         obligations |-> {"AUDIT_ACCESS"} \cup more]
      kept == {"NO_PUBLIC_EXPORT", "ENCRYPT_AT_REST"}
  IN CASE classification = "public" -> Of("PUBLIC", "TLP:CLEAR", "PAP:CLEAR", {})
       [] classification = "internal" -> Of("INTERNAL", "TLP:GREEN", "PAP:GREEN", {})
       [] classification = "confidential" -> Of("RESTRICTED", "TLP:AMBER", "PAP:AMBER", kept)
       [] OTHER -> Of("RESTRICTED", "TLP:AMBER+STRICT", "PAP:AMBER", kept)

-----------------------------------------------------------------------------
(* The local decision table                                                 *)

\* What leaves the application with cyber information.
OutwardOperations == {"external_ai", "external_operation", "export"}

\* Why the local table denies.
Reasons ==
  {"APPLICATION_ACCESS_MISSING", "CAPABILITY_MISSING", "SCOPE_MISMATCH",
   "POLICY_UNAVAILABLE", "POLICY_VERSION_UNSUPPORTED",
   "LEGAL_CLASSIFICATION_UNSUPPORTED", "HANDLING_CLASS_UNKNOWN", "TLP_UNKNOWN",
   "TLP_RECIPIENT_SET_REQUIRED", "PAP_UNKNOWN", "OBLIGATION_UNKNOWN",
   "EXPORT_FORBIDDEN", "PUBLIC_EXPORT_FORBIDDEN", "EXTERNAL_AI_FORBIDDEN",
   "PAP_REQUIRED"}

\* The tests on a binding in their order, each with the reason it denies for.
BindingTests(b, operation, cyber) ==
  << <<b.version # INFORMATION_POLICY_VERSION, "POLICY_VERSION_UNSUPPORTED">>,
     <<b.legal # "NONE", "LEGAL_CLASSIFICATION_UNSUPPORTED">>,
     <<b.handling \notin handlingClasses, "HANDLING_CLASS_UNKNOWN">>,
     <<b.tlp \notin tlpValues \cup {None}, "TLP_UNKNOWN">>,
     <<b.tlp = "TLP:RED" /\ b.recipients = {}, "TLP_RECIPIENT_SET_REQUIRED">>,
     <<b.pap \notin papValues \cup {None}, "PAP_UNKNOWN">>,
     <<~(b.obligations \subseteq obligations), "OBLIGATION_UNKNOWN">>,
     <<operation \in {"export", "public_export"} /\ "NO_EXPORT" \in b.obligations,
       "EXPORT_FORBIDDEN">>,
     <<operation = "public_export" /\ "NO_PUBLIC_EXPORT" \in b.obligations,
       "PUBLIC_EXPORT_FORBIDDEN">>,
     <<operation = "external_ai"
         /\ b.obligations \cap {"NO_EXTERNAL_AI", "LOCAL_PROCESSING_ONLY"} # {},
       "EXTERNAL_AI_FORBIDDEN">>,
     <<cyber /\ operation \in OutwardOperations /\ b.pap = None, "PAP_REQUIRED">> >>

\* The reason of the first test that denies, None when none does.
FirstReason(tests) ==
  LET denying == {n \in DOMAIN tests : tests[n][1]}
  IN IF denying = {} THEN None
     ELSE tests[CHOOSE n \in denying : \A m \in denying : n <= m][2]

\* None is ALLOW. Callers pass an active identity and membership always.
decidePolicy(access, capability, scopeMatches, q) ==
  IF ~access THEN "APPLICATION_ACCESS_MISSING"
  ELSE IF ~capability THEN "CAPABILITY_MISSING"
  ELSE IF ~scopeMatches THEN "SCOPE_MISMATCH"
  ELSE IF q.binding = None THEN "POLICY_UNAVAILABLE"
  ELSE FirstReason(BindingTests(q.binding, q.operation, q.cyber))

-----------------------------------------------------------------------------
(* The access projection                                                    *)

\* What of an answer of GET /auth/me counts: the entry of this application,
\* active, inside its validity, with the access capability and some scope.
parseSecurityPreflightAccessProjection(a) ==
  LET capabilities == a.capabilities \cap SECURITY_PREFLIGHT_CAPABILITIES
      projection == [capabilities |-> capabilities, scopes |-> a.scopes,
                     effectiveScopes |-> a.effectiveScopes]
  IN IF /\ a.application = "security-preflight"
        /\ a.isActive /\ ~a.suspended /\ a.current
        /\ "access" \in capabilities
        /\ a.scopes # <<>>
        /\ a.effectiveScopes # <<>>
     THEN projection ELSE None

\* The effective scopes replace the assigned ones when the answer has them.
Grants(projection) ==
  IF projection.effectiveScopes = None THEN projection.scopes
  ELSE projection.effectiveScopes

ScopeId(scope) ==
  IF scope.id = None /\ scope.type = "organization" THEN STRATOS_ORGANIZATION_ID
  ELSE scope.id

securityPreflightProjectionScopeMatches(projection, requested) ==
  \E n \in DOMAIN Grants(projection) :
    LET grant == Grants(projection)[n]
    IN IF grant.type = "own"
       THEN requested.type = "own" /\ requested.owner = Subject
       ELSE /\ grant.type = requested.type
            /\ ScopeId(grant) # None
            /\ ScopeId(grant) = ScopeId(requested)

\* The organization if it is granted, else the first concrete scope, else None.
securityPreflightProjectionDefaultScope(projection) ==
  LET Concrete(s) == s.type # "own" /\ (s.id # None \/ s.type = "organization")
      concrete == SelectSeq(Grants(projection), Concrete)
      whole == SelectSeq(concrete, LAMBDA s : s.type = "organization")
      selected == IF whole # <<>> THEN whole[1] ELSE concrete[1]
  IN IF concrete = <<>> THEN None
     ELSE [type |-> selected.type, id |-> ScopeId(selected), owner |-> None]

-----------------------------------------------------------------------------
(* Central decisions                                                        *)

\* An answer that lacks a field, names an obligation this code does not know
\* or allows without audit is no decision.
parsePolicyDecision(a) ==
  IF /\ a.decision \in {"ALLOW", "DENY"}
     /\ a.complete
     /\ a.obligations \subseteq obligations
     /\ a.decision = "ALLOW" => "AUDIT_ACCESS" \in a.obligations
  THEN a.decision ELSE None
=============================================================================
