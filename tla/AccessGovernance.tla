-------------------------- MODULE AccessGovernance --------------------------
(***************************************************************************)
(* A request on its way through the API: the identity (auth.ts), the       *)
(* access projection and the decisions (governance.ts), what each route    *)
(* asks for (server.ts) and the call of AKB (akb.ts), while keys are       *)
(* rotated, central answers differ from call to call and calls fail.       *)
(***************************************************************************)
EXTENDS InformationPolicy, FiniteSets

CONSTANTS
  Requests,       \* requests under way at once
  Offered,        \* Offered[r]: the routes that request r may be for
  Keys,           \* signing keys of the identity provider
  Configs,        \* configurations of the process
  Projections,    \* answers of GET /auth/me
  Decisions,      \* answers of the central decision point
  Bindings,       \* bindings of the projects, runs and envelopes asked for
  Stored,         \* the projects (or projects of the runs) of a list, in order
  CacheLife,      \* lifetime of the key cache, five minutes in the code
  MaxTime         \* bound on the clock

Lists == {"projects", "runs"}

\* Plans, and what goes out of a run, are under a binding; so is an envelope.
Bound == {"plan", "queue", "queue.external", "export", "remediation", "ask", "ingest"}
Global == {"profiles", "audit", "project.create"} \cup Lists
Routes ==
  Bound \cup Global \cup
  {"project.write", "project.read", "run.read", "run.progress", "run.report", "triage"}

\* How a request may end.
Answers ==
  {"ok", "no-answer", "unauthorized", "forbidden", "denied", "unavailable",
   "rejected", "unbound", "mismatch", "no-identity-config",
   "no-governance-config", "no-akb", "akb-failed"}

\* A configuration: the fields are set environment variables.
Config ==
  [authMode : {None, "disabled", "shared-token", "oidc", "other"},
   production : BOOLEAN, sharedToken : BOOLEAN, oidc : BOOLEAN,
   publicOidc : BOOLEAN, bypass : BOOLEAN, decisionUrl : BOOLEAN,
   projectionUrl : BOOLEAN, scopeUrl : BOOLEAN, policyUrl : BOOLEAN,
   governanceToken : BOOLEAN, workerToken : BOOLEAN, database : BOOLEAN,
   persistence : BOOLEAN, redis : BOOLEAN, reports : BOOLEAN, rag : BOOLEAN,
   akbClient : BOOLEAN, akbToken : BOOLEAN, sinkRequired : BOOLEAN,
   sink : BOOLEAN, autodiscovery : BOOLEAN, roots : BOOLEAN]

ASSUME GovernanceConstants ==
  /\ Configs \subseteq Config
  /\ Offered \in [Requests -> SUBSET Routes]
  /\ Stored \in Seq(Projects)
  /\ CacheLife \in Nat /\ MaxTime \in Nat
  /\ None \notin Projects /\ None \notin Bindings /\ None \notin Nat

\* An absent value is none of the values it is compared with, and a decision
\* that denies has a reason, never the one that stands for a missing endpoint.
ASSUME DecisionConstants ==
  /\ None \notin Reasons \cup papValues \cup Answers
       \cup {"CENTRAL", "UNCONFIGURED", "oidc", "shared-token", "refused"}
  /\ \A a \in Decisions : a.reason \notin {None, "UNCONFIGURED"}

VARIABLES
  config,     \* the environment, fixed while the process runs
  now,        \* the clock
  published,  \* the keys the identity provider publishes
  turned,     \* when a key was last added or withdrawn, None if never
  jwksCache,  \* the key cache of the process, or None
  req         \* the requests

vars == <<config, now, published, turned, jwksCache, req>>

Fresh ==
  [phase |-> "idle", stage |-> "hook", context |-> None, route |-> None,
   target |-> None, binding |-> None, key |-> None, fetched |-> None,
   keys |-> {}, verdict |-> None, judged |-> 0, projection |-> None,
   queries |-> <<>>, visible |-> {}, heard |-> {}, sent |-> FALSE,
   answer |-> None]

Init ==
  /\ config \in Configs
  /\ now = 0
  /\ published \in SUBSET Keys
  /\ turned = [k \in Keys |-> None]
  /\ jwksCache = None
  /\ req = [r \in Requests |-> Fresh]

Phase(r, p) == req[r].phase = p
Answered(rec, a) == [rec EXCEPT !.phase = "done", !.keys = {}, !.answer = a]

-----------------------------------------------------------------------------
(* Configuration                                                            *)

\* An unknown mode is treated as disabled; unset means OIDC in production.
Mode(c) ==
  IF c.authMode = None THEN (IF c.production THEN "oidc" ELSE "disabled")
  ELSE IF c.authMode = "other" THEN "disabled" ELSE c.authMode

\* Mutant: the environment is not looked at.
localGovernanceBypassAnywhere(c, context) ==
  \/ c.authMode \in {None, "disabled"} /\ context = None
  \/ context = "shared-token" /\ c.bypass

localGovernanceBypassAllowed(c, context) ==
  /\ ~c.production
  /\ \/ c.authMode \in {None, "disabled"} /\ context = None
     \/ context = "shared-token" /\ c.bypass

\* Without a URL of its own the projection is read beside the decisions.
accessProjectionEndpoint(c) == c.projectionUrl \/ c.decisionUrl

\* How askAkb authenticates when the caller brought a bearer, or did not.
resolveAuthorizationHeader(c, bearer) ==
  IF bearer THEN "caller-bearer"
  ELSE IF c.akbClient THEN "oidc-client-credentials"
  ELSE IF c.akbToken THEN "service-token" ELSE "none"

\* What GET /ready asks for.
ReadyProbe(c) ==
  /\ c.database /\ c.redis /\ c.reports
  /\ c.production => /\ c.scopeUrl \/ c.decisionUrl
                     /\ c.policyUrl \/ c.decisionUrl
                     /\ c.decisionUrl
                     /\ c.governanceToken
  /\ ~c.workerToken

Missing(condition, gap) == IF condition THEN {gap} ELSE {}

\* Mutant: the audit asks for the projection and takes the decisions for granted.
AuthGapsWithoutDecision(c) ==
  Missing(Mode(c) # "oidc" \/ ~c.oidc, "oidc-not-configured")
    \cup Missing(~(c.projectionUrl \/ c.decisionUrl), "access-projection-missing")

AuthGaps(c) ==
  UNION {Missing(Mode(c) = "disabled", "auth-not-required"),
         Missing(Mode(c) # "oidc" \/ ~c.oidc, "oidc-not-configured"),
         Missing(~c.publicOidc, "public-oidc-missing"),
         Missing(~(c.projectionUrl \/ c.decisionUrl), "access-projection-missing"),
         Missing(~(c.scopeUrl \/ c.decisionUrl), "scope-registry-missing"),
         Missing(~(c.policyUrl \/ c.decisionUrl), "policy-registry-missing"),
         Missing(~c.decisionUrl, "policy-decision-missing"),
         Missing(~c.governanceToken, "governance-service-credential-missing")}

\* The rows of the capability audit that depend on the configuration, each
\* with its gaps. The rows about the built-in profiles and reports have none.
buildCapabilityAudit(c, bearer) ==
  [row \in {"worker-execution", "findings", "akb-ai", "telemetry", "projects", "auth"} |->
     CASE row = "worker-execution" ->
            UNION {Missing(~c.redis, "missing-redis"),
                   Missing(~(c.database /\ c.persistence), "missing-database"),
                   Missing(~c.reports, "missing-reports-path")}
       [] row = "findings" -> Missing(~(c.database /\ c.persistence), "missing-database")
       [] row = "akb-ai" ->
            UNION {Missing(~c.rag, "akb-rag-missing"),
                   Missing(c.rag /\ resolveAuthorizationHeader(c, bearer) = "none",
                           "akb-auth-missing")}
       [] row = "telemetry" -> Missing(c.sinkRequired /\ ~c.sink, "telemetry-required-sink-missing")
       [] row = "projects" ->
            UNION {Missing(~c.autodiscovery, "project-autodiscovery-disabled"),
                   Missing(~c.roots, "project-roots-missing")}
       [] row = "auth" -> AuthGaps(c)]
Ready(row, bearer) == buildCapabilityAudit(config, bearer)[row] = {}

-----------------------------------------------------------------------------
(* Decisions                                                                *)

Query(capability, operation, scope, binding, cyber) ==
  [capability |-> capability, operation |-> operation, scope |-> scope,
   binding |-> binding, cyber |-> cyber]

\* None allows, "CENTRAL" asks the central decision point, else the reason of
\* a denial; "UNCONFIGURED" is POLICY_UNAVAILABLE for want of an endpoint.
authorizeGovernedRequest(rec, q) ==
  LET oidc == rec.context = "oidc"
      capability == q.capability \in rec.projection.capabilities
      matches == securityPreflightProjectionScopeMatches(rec.projection, q.scope)
      defaulted == [q EXCEPT !.binding = IF @ = None
                      THEN policyBindingForClassification("internal") ELSE @]
  IN IF oidc /\ rec.projection = None THEN decidePolicy(FALSE, FALSE, FALSE, q)
     ELSE IF oidc /\ ~(capability /\ matches)
       THEN decidePolicy(TRUE, capability, matches, q)
     ELSE IF ~oidc
       THEN IF localGovernanceBypassAllowed(config, rec.context)
            THEN decidePolicy(TRUE, TRUE, TRUE, defaulted)
            ELSE "POLICY_UNAVAILABLE"
     ELSE IF config.decisionUrl THEN "CENTRAL" ELSE "UNCONFIGURED"

\* Mutant: an ALLOW is an ALLOW.
CentralOutcomeAsIs(a, q) ==
  LET decision == parsePolicyDecision(a)
  IN IF decision = None THEN "POLICY_UNAVAILABLE"
     ELSE IF decision = "DENY" THEN a.reason ELSE None

\* What an answer to the query means. What goes out with cyber information is
\* refused without a PAP label although it was allowed centrally.
CentralOutcome(a, q) ==
  LET decision == parsePolicyDecision(a)
  IN IF decision = None THEN "POLICY_UNAVAILABLE"
     ELSE IF decision = "DENY" THEN a.reason
     ELSE IF /\ q.cyber /\ q.operation \in OutwardOperations
             /\ q.binding = None \/ q.binding.pap = None
       THEN decidePolicy(TRUE, TRUE, TRUE, q)
     ELSE None

\* The decision before the handler, <<>> when the route leaves it to the
\* handler. An absent project in the body means the organization.
governedOperation(rec) ==
  LET scope == IF rec.target = None THEN OrganizationScope ELSE ProjectScope(rec.target)
      any == IF rec.projection = None THEN scope
             ELSE securityPreflightProjectionDefaultScope(rec.projection)
  IN CASE rec.route = "profiles" -> <<Query("access", "access", any, None, FALSE)>>
       [] rec.route = "ingest" ->
            <<Query("external_operation", "external_operation", scope,
                    rec.binding, TRUE)>>
       [] rec.route = "project.create" ->
            <<Query("manage_access", "access", OrganizationScope, None, FALSE)>>
       [] rec.route = "project.write" ->
            <<Query("manage_access", "access", scope, None, FALSE)>>
       [] rec.route = "audit" ->
            <<Query("read_audit", "access", OrganizationScope, None, FALSE)>>
       [] rec.route = "project.read" ->
            <<Query("read_scan", "access", scope, None, FALSE)>>
       [] OTHER -> <<>>

\* Mutant: the end of the decisions of a handler is not noticed.
ProceedAfterHookOnly(rec) ==
  [rec EXCEPT !.phase = IF rec.queries = <<>> /\ rec.stage = "hook"
                        THEN "handler" ELSE "decide"]

\* Where a request goes on when its next decision is made, or none is left.
Proceed(rec) ==
  [rec EXCEPT !.phase = IF rec.queries # <<>> THEN "decide"
                        ELSE IF rec.stage = "hook" THEN "handler" ELSE "act"]

\* After the identity and the projection: the decision before the handler.
Governed(rec) ==
  LET queries == governedOperation(rec)
  IN IF queries # <<>> /\ queries[1].scope = None THEN Answered(rec, "forbidden")
     ELSE Proceed([rec EXCEPT !.queries = queries])

-----------------------------------------------------------------------------
(* Identity                                                                 *)

\* A request arrives. The route, the project in its path or body, and the
\* binding of that project, run or envelope are what its sender chose.
Arrives(r) ==
  /\ Phase(r, "idle")
  /\ \E route \in Offered[r], target \in Projects \cup {None},
        binding \in Bindings \cup {None}, key \in Keys :
       /\ target = None => route \in Global \cup {"ingest"}
       /\ route \in Global => target = None
       /\ route \notin Bound => binding = None
       /\ req' = [req EXCEPT ![r] =
            [@ EXCEPT !.phase = "auth", !.route = route, !.target = target,
                      !.binding = binding, !.key = key]]
  /\ UNCHANGED <<config, now, published, turned, jwksCache>>

\* Whether the token was signed by one of these keys is judged now.
Verified(rec, keys) ==
  LET judged == [rec EXCEPT !.judged = now, !.keys = {}]
  IN IF rec.key \in keys
     THEN [judged EXCEPT !.verdict = "accepted", !.context = "oidc",
                         !.phase = "projection"]
     ELSE Answered([judged EXCEPT !.verdict = "refused"], "unauthorized")

\* Disabled and shared-token mode, and what OIDC mode decides without keys.
authenticateSecurityPreflightRequest(r) ==
  /\ Phase(r, "auth")
  /\ \/ /\ Mode(config) = "disabled"
        /\ req' = [req EXCEPT ![r] = Governed(@)]
     \/ /\ Mode(config) # "disabled"  \* no token, a wrong one, or wrong claims
        /\ req' = [req EXCEPT ![r] = Answered(@, "unauthorized")]
     \/ /\ Mode(config) = "shared-token"
        /\ req' = [req EXCEPT ![r] =
             IF config.sharedToken
             THEN Governed([@ EXCEPT !.context = "shared-token"])
             ELSE Answered(@, "no-identity-config")]
     \/ /\ Mode(config) = "oidc" /\ ~config.oidc
        /\ req' = [req EXCEPT ![r] = Answered(@, "no-identity-config")]
  /\ UNCHANGED <<config, now, published, turned, jwksCache>>

Cached == jwksCache # None /\ jwksCache.expiresAt > now

\* The claims hold: the keys are in the cache, or a fetch starts. Requests do
\* not wait for a fetch that another one started.
getJwks(r) ==
  /\ Phase(r, "auth") /\ Mode(config) = "oidc" /\ config.oidc
  /\ req' = [req EXCEPT ![r] =
       IF Cached THEN Verified(@, jwksCache.keys)
       ELSE [@ EXCEPT !.phase = "keys", !.fetched = now]]
  /\ UNCHANGED <<config, now, published, turned, jwksCache>>

\* The identity provider answers with the keys it has; the answer is under way.
KeysAnswered(r) ==
  /\ Phase(r, "keys")
  /\ req' = [req EXCEPT ![r] = [@ EXCEPT !.phase = "keysAnswered", !.keys = published]]
  /\ UNCHANGED <<config, now, published, turned, jwksCache>>

\* Mutant: the lifetime counts from the arrival of the keys.
KeysArriveAfresh(r) ==
  /\ Phase(r, "keysAnswered")
  /\ jwksCache' = [keys |-> req[r].keys, expiresAt |-> now + CacheLife]
  /\ req' = [req EXCEPT ![r] = Verified(@, @.keys)]
  /\ UNCHANGED <<config, now, published, turned>>

\* The answer replaces the cache, whichever fetch started first. The lifetime
\* counts from the start of the fetch.
KeysArrive(r) ==
  /\ Phase(r, "keysAnswered")
  /\ jwksCache' = [keys |-> req[r].keys, expiresAt |-> req[r].fetched + CacheLife]
  /\ req' = [req EXCEPT ![r] = Verified(@, @.keys)]
  /\ UNCHANGED <<config, now, published, turned>>

KeysFail(r) ==
  /\ req[r].phase \in {"keys", "keysAnswered"}
  /\ req' = [req EXCEPT ![r] = Answered(@, "unauthorized")]
  /\ UNCHANGED <<config, now, published, turned, jwksCache>>

\* GET /auth/me: refused, failed or late, without a usable entry, or a
\* projection that is fresh for this request. The times of the verification
\* are of no more use.
loadSecurityPreflightAccessProjection(r) ==
  /\ Phase(r, "projection")
  /\ LET verified == [req[r] EXCEPT !.fetched = None, !.judged = 0]
     IN IF ~accessProjectionEndpoint(config)
        THEN req' = [req EXCEPT ![r] = Answered(verified, "no-governance-config")]
        ELSE \/ req' = [req EXCEPT ![r] = Answered(verified, "forbidden")]
             \/ req' = [req EXCEPT ![r] = Answered(verified, "unavailable")]
             \/ \E a \in Projections :
                  LET projection == parseSecurityPreflightAccessProjection(a)
                  IN req' = [req EXCEPT ![r] =
                       IF projection = None THEN Answered(verified, "forbidden")
                       ELSE Governed([verified EXCEPT !.projection = projection])]
  /\ UNCHANGED <<config, now, published, turned, jwksCache>>

-----------------------------------------------------------------------------
(* Handlers                                                                 *)

\* The handler asks for its decisions, one after the other.
Asking(rec, queries) == Proceed([rec EXCEPT !.stage = "handler", !.queries = queries])

\* The decision about one item of a list under OIDC.
ItemQuery(p) == Query("read_scan", "access", ProjectScope(p), None, FALSE)

All == {Stored[n] : n \in DOMAIN Stored}

\* Without an identity a list is whole; the shared token asks once; OIDC asks
\* for every item and answers at once when there is none.
filterProjectScopedCollection(rec) ==
  IF rec.context = None THEN Answered([rec EXCEPT !.visible = All], "ok")
  ELSE IF rec.context # "oidc"
    THEN Asking(rec, <<Query("read_scan", "access", OrganizationScope, None, FALSE)>>)
  ELSE IF "read_scan" \notin rec.projection.capabilities THEN Answered(rec, "forbidden")
  ELSE Proceed([rec EXCEPT !.stage = "list",
                           !.queries = [n \in DOMAIN Stored |-> ItemQuery(Stored[n])]])

\* The envelope's binding is the canonical one of its classification.
BindingMatches(b) ==
  /\ b # None /\ b.registered
  /\ \E c \in {"public", "internal", "confidential", "sensitive"} :
       LET expected == policyBindingForClassification(c)
       IN /\ b.version = expected.version /\ b.legal = "NONE"
          /\ b.handling = expected.handling
          /\ b.tlp = expected.tlp /\ b.pap = expected.pap

Unregistered(b) == b = None \/ ~b.registered

RunQuery(rec, capability, operation, binding, cyber) ==
  Query(capability, operation, ProjectScope(rec.target), binding, cyber)

enforceRunAccessPolicy(rec, capability) ==
  Asking(rec, <<RunQuery(rec, capability, "access", None, FALSE)>>)

\* What goes out of a run needs the registered binding of its evidence.
enforceRunPolicy(rec, capability, operation) ==
  IF Unregistered(rec.binding) THEN Answered(rec, "unbound")
  ELSE Asking(rec, <<RunQuery(rec, capability, operation, rec.binding, TRUE)>>)

\* A plan needs the registered binding of its project.
enforcePlanPolicy(rec, more) ==
  IF Unregistered(rec.binding) THEN Answered(rec, "unbound")
  ELSE Asking(rec, <<RunQuery(rec, "submit_scan", "create", rec.binding, FALSE)>> \o more)

\* The handler of a route: invalid input, an unknown project or run, a blocked
\* plan or a failure of the registry end the request; else it goes on.
Handles(r, routes, next) ==
  /\ Phase(r, "handler") /\ req[r].route \in routes
  /\ \/ req' = [req EXCEPT ![r] = Answered(@, "rejected")]
     \/ req' = [req EXCEPT ![r] = next]
  /\ UNCHANGED <<config, now, published, turned, jwksCache>>

\* The profiles and the audit are computed from the process alone.
ServeProcess(r) ==
  /\ Phase(r, "handler") /\ req[r].route \in {"profiles", "audit"}
  /\ req' = [req EXCEPT ![r] = Asking(@, <<>>)]
  /\ UNCHANGED <<config, now, published, turned, jwksCache>>

ServeProject(r) ==
  Handles(r, {"project.create", "project.write", "project.read"}, Asking(req[r], <<>>))
ServeCollection(r) == Handles(r, Lists, filterProjectScopedCollection(req[r]))
ReadRun(r) == Handles(r, {"run.read"}, enforceRunAccessPolicy(req[r], "read_scan"))
ReadProgress(r) == Handles(r, {"run.progress"}, enforceRunAccessPolicy(req[r], "read_scan"))
ReadReport(r) == Handles(r, {"run.report"}, enforceRunAccessPolicy(req[r], "read_scan"))

\* Triage asks only for a caller that was identified.
TriageFinding(r) ==
  Handles(r, {"triage"}, IF req[r].context = None THEN Asking(req[r], <<>>)
                         ELSE enforceRunAccessPolicy(req[r], "submit_scan"))

ExportReport(r) == Handles(r, {"export"}, enforceRunPolicy(req[r], "export", "export"))
ExportRemediation(r) ==
  Handles(r, {"remediation"}, enforceRunPolicy(req[r], "export", "export"))
AskRun(r) ==
  Handles(r, {"ask"}, enforceRunPolicy(req[r], "external_operation", "external_ai"))
PlanScan(r) == Handles(r, {"plan"}, enforcePlanPolicy(req[r], <<>>))

ExternalQuery(rec) ==
  RunQuery(rec, "external_operation", "external_operation", rec.binding, TRUE)

\* Mutant: an external scan is queued on the decision about its submission.
QueueScanAsPlanned(r) ==
  Handles(r, {"queue", "queue.external"}, enforcePlanPolicy(req[r], <<>>))

\* A plan that reaches outside asks a second time.
QueueScan(r) ==
  \/ Handles(r, {"queue"}, enforcePlanPolicy(req[r], <<>>))
  \/ Handles(r, {"queue.external"},
             enforcePlanPolicy(req[r], <<ExternalQuery(req[r])>>))

Ingest(r) ==
  Handles(r, {"ingest"}, IF BindingMatches(req[r].binding) THEN Asking(req[r], <<>>)
                         ELSE Answered(req[r], "mismatch"))

Handle(r) ==
  \/ ServeProcess(r) \/ ServeProject(r) \/ ServeCollection(r)
  \/ ReadRun(r) \/ ReadProgress(r) \/ ReadReport(r) \/ TriageFinding(r)
  \/ ExportReport(r) \/ ExportRemediation(r) \/ AskRun(r)
  \/ PlanScan(r) \/ QueueScan(r) \/ Ingest(r)

\* Mutant: an item of a list is left out for an outage as for a denial.
SettledItemwise(rec, outcome, central) ==
  LET q == Head(rec.queries)
      noted == [rec EXCEPT !.queries = Tail(@),
                  !.heard = @ \cup {[capability |-> q.capability, scope |-> q.scope,
                                     outcome |-> outcome, central |-> central]}]
  IN IF outcome # None THEN IF rec.stage = "list" THEN Proceed(noted)
                            ELSE Answered(noted, "denied")
     ELSE Proceed([noted EXCEPT !.visible = IF rec.stage = "list"
                     THEN @ \cup {q.scope.id} ELSE @])

\* A decision is known: noted, and the request goes on, is denied, or, when a
\* list met an outage, fails as a whole.
Settled(rec, outcome, central) ==
  LET q == Head(rec.queries)
      noted == [rec EXCEPT !.queries = Tail(@),
                  !.heard = @ \cup {[capability |-> q.capability, scope |-> q.scope,
                                     outcome |-> outcome, central |-> central]}]
  IN IF rec.stage # "list"
     THEN IF outcome = None THEN Proceed(noted) ELSE Answered(noted, "denied")
     ELSE IF outcome = None
       THEN Proceed([noted EXCEPT !.visible = @ \cup {q.scope.id}])
     ELSE IF outcome \in {"POLICY_UNAVAILABLE", "UNCONFIGURED"}
       THEN Answered(noted, "unavailable")
     ELSE Proceed(noted)

\* The next item of a list is not in the scopes of the projection.
OutOfScope(rec) ==
  /\ rec.stage = "list"
  /\ ~securityPreflightProjectionScopeMatches(rec.projection, Head(rec.queries).scope)

\* It is left out without a decision.
LeftOut(rec) == Proceed([rec EXCEPT !.queries = Tail(@)])

LeaveOut(r) ==
  /\ Phase(r, "decide") /\ OutOfScope(req[r])
  /\ req' = [req EXCEPT ![r] = LeftOut(@)]
  /\ UNCHANGED <<config, now, published, turned, jwksCache>>

Decide(r) ==
  /\ Phase(r, "decide") /\ ~OutOfScope(req[r])
  /\ LET outcome == authorizeGovernedRequest(req[r], Head(req[r].queries))
     IN req' = [req EXCEPT ![r] =
          IF outcome = "CENTRAL" THEN [@ EXCEPT !.phase = "central"]
          ELSE Settled(@, outcome, FALSE)]
  /\ UNCHANGED <<config, now, published, turned, jwksCache>>

CentralAnswers(r) ==
  /\ Phase(r, "central")
  /\ \E a \in Decisions :
       req' = [req EXCEPT ![r] =
         Settled(@, CentralOutcome(a, Head(@.queries)), TRUE)]
  /\ UNCHANGED <<config, now, published, turned, jwksCache>>

\* No connection, an error status or three seconds without an answer.
CentralFails(r) ==
  /\ Phase(r, "central")
  /\ req' = [req EXCEPT ![r] = Settled(@, "POLICY_UNAVAILABLE", TRUE)]
  /\ UNCHANGED <<config, now, published, turned, jwksCache>>

\* What the allowed request shows: a list that was asked for once is whole.
Shown(rec) ==
  IF rec.route \in Lists /\ rec.stage = "handler" THEN [rec EXCEPT !.visible = All]
  ELSE rec

Act(r) ==
  /\ Phase(r, "act") /\ req[r].route # "ask"
  /\ req' = [req EXCEPT ![r] = Answered(Shown(@), "ok")]
  /\ UNCHANGED <<config, now, published, turned, jwksCache>>

\* An answer of AKB without text or citations, or marked so, is no answer.
normalizeAkbResponse(reply) ==
  IF reply.text /\ reply.citations /\ ~reply.noAnswer THEN "ok" ELSE "no-answer"

\* The question goes to AKB under the caller's bearer, a fetched or a static
\* token, or none, unless AKB is unknown, the token fails or the
\* organization in the body is another one.
askAkb(r) ==
  /\ Phase(r, "act") /\ req[r].route = "ask"
  /\ LET bearer == req[r].context # None
     IN \/ req' = [req EXCEPT ![r] =
             IF ~config.rag THEN Answered(@, "no-akb")
             ELSE [@ EXCEPT !.phase = "akb", !.sent = TRUE]]
        \/ /\ config.rag
           /\ resolveAuthorizationHeader(config, bearer) = "oidc-client-credentials"
           /\ req' = [req EXCEPT ![r] = Answered(@, "akb-failed")]
        \/ /\ config.rag
           /\ req' = [req EXCEPT ![r] = Answered(@, "rejected")]
  /\ UNCHANGED <<config, now, published, turned, jwksCache>>

AkbAnswers(r) ==
  /\ Phase(r, "akb")
  /\ \/ req' = [req EXCEPT ![r] = Answered(@, "akb-failed")]
     \/ \E reply \in [text : BOOLEAN, citations : BOOLEAN, noAnswer : BOOLEAN] :
          req' = [req EXCEPT ![r] = Answered(@, normalizeAkbResponse(reply))]
  /\ UNCHANGED <<config, now, published, turned, jwksCache>>

-----------------------------------------------------------------------------
(* The world                                                                *)

Tick ==
  /\ now < MaxTime
  /\ now' = now + 1
  /\ UNCHANGED <<config, published, turned, jwksCache, req>>

\* The identity provider adds or withdraws a key.
Rotate(k) ==
  /\ published' = IF k \in published THEN published \ {k} ELSE published \cup {k}
  /\ turned' = [turned EXCEPT ![k] = now]
  /\ UNCHANGED <<config, now, jwksCache, req>>

Serve(r) ==
  \/ Arrives(r) \/ authenticateSecurityPreflightRequest(r) \/ getJwks(r)
  \/ KeysAnswered(r) \/ KeysArrive(r) \/ KeysFail(r)
  \/ loadSecurityPreflightAccessProjection(r)
  \/ Handle(r) \/ LeaveOut(r) \/ Decide(r) \/ CentralAnswers(r) \/ CentralFails(r)
  \/ Act(r) \/ askAkb(r) \/ AkbAnswers(r)

Next ==
  \/ \E r \in Requests : Serve(r)
  \/ Tick
  \/ \E k \in Keys : Rotate(k)

Spec == Init /\ [][Next]_vars

-----------------------------------------------------------------------------
(* Properties                                                               *)

Phases ==
  {"idle", "auth", "keys", "keysAnswered", "projection", "decide", "central",
   "handler", "act", "akb", "done"}

\* Every variable has its type: a request that is done has an answer, one that
\* waits for the decision point has a query, and keys are held only in transit.
TypeOK ==
  /\ config \in Configs /\ now \in 0..MaxTime /\ published \subseteq Keys
  /\ turned \in [Keys -> 0..now \cup {None}]
  /\ jwksCache = None \/ jwksCache.keys \subseteq Keys
  /\ \A r \in Requests :
       /\ req[r].phase \in Phases
       /\ req[r].stage \in {"hook", "handler", "list"}
       /\ req[r].context \in {None, "shared-token", "oidc"}
       /\ req[r].answer \in IF req[r].phase = "done" THEN Answers ELSE {None}
       /\ req[r].phase \in {"decide", "central"} => req[r].queries # <<>>
       /\ req[r].keys # {} => req[r].phase = "keysAnswered"

\* The request took effect: its handler answered, or AKB was asked.
Effective(rec) == rec.answer \in {"ok", "no-answer"} \/ rec.sent

\* What a route's effect requires according to docs/security.md:40-66. None is
\* any scope.
Demand(rec) ==
  LET project == ProjectScope(rec.target)
      one(capability, scope) == {[capability |-> capability, scope |-> scope]}
  IN CASE rec.route = "profiles" -> one("access", None)
       [] rec.route = "audit" -> one("read_audit", OrganizationScope)
       [] rec.route = "project.create" -> one("manage_access", OrganizationScope)
       [] rec.route = "project.write" -> one("manage_access", project)
       [] rec.route \in {"project.read", "run.read", "run.progress", "run.report"} ->
            one("read_scan", project)
       [] rec.route \in {"plan", "queue", "triage"} -> one("submit_scan", project)
       [] rec.route = "queue.external" ->
            one("submit_scan", project) \cup one("external_operation", project)
       [] rec.route \in {"export", "remediation"} -> one("export", project)
       [] rec.route = "ask" -> one("external_operation", project)
       [] rec.route = "ingest" ->
            one("external_operation",
                IF rec.target = None THEN OrganizationScope ELSE project)
       [] OTHER -> {}

\* In OIDC mode no handler takes effect, and nothing is sent to AKB, unless
\* the caller's token was verified and the central decision point allowed,
\* within this very request, every capability the route needs on the project
\* it acts on, whether the hook or the handler asks (docs/security.md:37-50).
EffectsAreDecided ==
  \A r \in Requests :
    LET rec == req[r]
    IN Mode(config) = "oidc" /\ Effective(rec) =>
         /\ rec.verdict = "accepted" /\ rec.projection # None
         /\ \A d \in Demand(rec) :
              /\ d.capability \in rec.projection.capabilities
              /\ \E h \in rec.heard :
                   /\ h.central /\ h.outcome = None
                   /\ h.capability = d.capability
                   /\ d.scope \in {None, h.scope}

\* A list that is answered under OIDC is complete and exact: every stored item
\* in the caller's scopes got a central verdict, and it is shown exactly if
\* that was an ALLOW. An outage in the middle is never shown as a short list.
ListsAreExact ==
  \A r \in Requests :
    LET rec == req[r]
    IN rec.context = "oidc" /\ rec.route \in Lists /\ rec.answer = "ok" =>
         \A p \in All :
           LET about == {h \in rec.heard : h.scope = ProjectScope(p)}
           IN IF securityPreflightProjectionScopeMatches(rec.projection, ProjectScope(p))
              THEN /\ \E h \in about : h.central /\ h.outcome \notin {"POLICY_UNAVAILABLE", "UNCONFIGURED"}
                   /\ p \in rec.visible <=> \E h \in about : h.central /\ h.outcome = None
              ELSE p \notin rec.visible

\* Cyber information leaves, by export, central delivery, an external scan or
\* a question to AKB, only under a binding with a PAP label, whoever decided
\* and in every mode (docs/security.md:63-65).
OutwardHasPap ==
  \A r \in Requests :
    LET rec == req[r]
    IN rec.route \in Bound \ {"plan", "queue"} /\ Effective(rec) =>
         rec.binding # None /\ rec.binding.registered /\ rec.binding.pap # None

\* The local table allows nothing in production, and elsewhere only for a
\* caller of a process without authentication or under the explicit switch
\* for the shared token (docs/security.md:56-58).
LocalAllowsOnlyLocally ==
  \A r \in Requests : \A h \in req[r].heard :
    h.outcome = None /\ ~h.central =>
      /\ ~config.production
      /\ IF req[r].context = None THEN Mode(config) = "disabled"
         ELSE req[r].context = "shared-token" /\ config.bypass

\* Key k was published, or not published, at some time from since on.
WasIn(k, since) == k \in published \/ (turned[k] # None /\ turned[k] >= since)
WasOut(k, since) == k \notin published \/ (turned[k] # None /\ turned[k] >= since)

\* A withdrawn key is accepted, and a new one refused, only while it was
\* still, or not yet, published less than CacheLife before the judgement or
\* after the request's own fetch began: a slow answer does not prolong the
\* cache (auth.ts getJwks).
KeysAreRecent ==
  \A r \in Requests :
    LET rec == req[r]
        Recent(Was(_, _)) ==
          \/ Was(rec.key, IF rec.judged < CacheLife THEN 0 ELSE rec.judged - CacheLife + 1)
          \/ rec.fetched # None /\ Was(rec.key, rec.fetched)
    IN /\ rec.verdict = "accepted" /\ rec.phase = "projection" => Recent(WasIn)
       /\ rec.verdict = "refused" => Recent(WasOut)

\* What the audit calls ready works: with a ready row about access no request
\* fails for want of configuration, nor does a question to AKB with that row
\* ready; and GET /ready, in production, vouches for the decisions and, if
\* persistence is not switched off, for the row about execution.
ReadyIsConfigured ==
  \A r \in Requests :
    LET rec == req[r]
        bearer == rec.context # None
        undecided == rec.answer = "no-governance-config"
                       \/ \E h \in rec.heard : h.outcome = "UNCONFIGURED"
    IN /\ Ready("auth", bearer) => ~undecided /\ rec.answer # "no-identity-config"
       /\ Ready("akb-ai", bearer) => rec.answer # "no-akb"
       /\ ReadyProbe(config) =>
            /\ config.production => ~undecided
            /\ config.persistence => Ready("worker-execution", bearer)
=============================================================================
