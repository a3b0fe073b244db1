------------------------- MODULE MCAccessGovernance -------------------------
EXTENDS AccessGovernance

(* Bindings, projections, central answers and configurations that make the *)
(* decisions differ. Each configuration differs from the complete          *)
(* production one in what its line says.                                   *)

MCBinding(more) == [policyBindingForClassification("confidential") EXCEPT
                      !.registered = TRUE, !.pap = more]
MCBindings ==
  {MCBinding("PAP:AMBER"), MCBinding(None),
   [MCBinding("PAP:AMBER") EXCEPT !.registered = FALSE, !.tlp = "TLP:RED"]}

MCAnswer == [application |-> "security-preflight", isActive |-> TRUE,
             suspended |-> FALSE, current |-> TRUE,
             capabilities |-> SECURITY_PREFLIGHT_CAPABILITIES,
             scopes |-> <<[type |-> "organization", id |-> None, owner |-> None]>>,
             effectiveScopes |-> None]
MCOwn == [type |-> "own", id |-> None, owner |-> Subject]
MCProjections ==
  {[MCAnswer EXCEPT !.current = FALSE],
   [MCAnswer EXCEPT !.scopes = @ \o <<ProjectScope("p1"), ProjectScope("p2")>>],
   [MCAnswer EXCEPT !.effectiveScopes = <<ProjectScope("p1"), MCOwn>>],
   [MCAnswer EXCEPT !.capabilities = {"access", "submit_scan"}]}

MCDecision == [decision |-> "ALLOW", complete |-> TRUE, reason |-> "POLICY_ALLOW",
               obligations |-> {"AUDIT_ACCESS"}]
MCDecisions ==
  {MCDecision, [MCDecision EXCEPT !.obligations = {}],
   [MCDecision EXCEPT !.decision = "DENY", !.reason = "TLP_FORBIDDEN"]}

MCComplete ==
  [authMode |-> None, production |-> TRUE, sharedToken |-> FALSE, oidc |-> TRUE,
   publicOidc |-> TRUE, bypass |-> FALSE, decisionUrl |-> TRUE,
   projectionUrl |-> FALSE, scopeUrl |-> FALSE, policyUrl |-> FALSE,
   governanceToken |-> TRUE, workerToken |-> FALSE, database |-> TRUE,
   persistence |-> TRUE, redis |-> TRUE, reports |-> TRUE, rag |-> TRUE,
   akbClient |-> TRUE, akbToken |-> FALSE, sinkRequired |-> FALSE,
   sink |-> FALSE, autodiscovery |-> TRUE, roots |-> TRUE]
MCConfigs ==
  {MCComplete,
   [MCComplete EXCEPT !.decisionUrl = FALSE, !.projectionUrl = TRUE,
                      !.scopeUrl = TRUE, !.policyUrl = TRUE],
   [MCComplete EXCEPT !.oidc = FALSE, !.decisionUrl = FALSE],
   [MCComplete EXCEPT !.production = FALSE, !.oidc = FALSE],
   [MCComplete EXCEPT !.authMode = "shared-token", !.sharedToken = TRUE, !.bypass = TRUE],
   [MCComplete EXCEPT !.authMode = "shared-token", !.sharedToken = TRUE,
                      !.bypass = TRUE, !.production = FALSE, !.rag = FALSE],
   [MCComplete EXCEPT !.authMode = "other", !.production = FALSE]}

MCOffered == [r1 |-> Routes, r2 |-> {"project.create"}]
MCRequests == {"r1", "r2"}
MCStored == <<"p1", "p2">>
=============================================================================
