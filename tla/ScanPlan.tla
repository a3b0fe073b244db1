------------------------------ MODULE ScanPlan ------------------------------
(***************************************************************************)
(* How a scan request becomes a plan (packages/scanners/src/index.ts:      *)
(* buildScanExecutionPlan, evaluateDastGuardrails) and what the API and    *)
(* the worker conclude from the plan. Pure definitions.                    *)
(*                                                                         *)
(* A host is the sequence of its labels and a URL the record of what the   *)
(* guardrails look at. Commands, mounts, evidence paths and identifiers    *)
(* are left out: a step is its check and the reasons that block it.        *)
(***************************************************************************)
EXTENDS ReleaseGate, SequencesExt

CONSTANTS
  Checks,            \* check identifiers
  definition,        \* checkDefinitions and internalCheckTypes
  Hosts,             \* host names, as sequences of labels
  ProductionLabels,  \* labels with a part "prod" or "production"
  DefaultHosts,      \* defaultDastAllowedHosts
  Blank,             \* an entry of the host list without a host
  None

\* tool: "probe" is a check of the worker itself, "web" one of ZAP and
\* Nuclei, "source" a scanner of the project whose output is parsed, "sbom"
\* one whose output is not, "unknown" a check without an adapter.
\* runs: the case of runInternalCheck, or of parseExternalFindings, it is.
\* listed: planUsesExternalOperation names the check.
CheckDefinition ==
  [tool: {"probe", "web", "source", "sbom", "unknown"}, runs: STRING,
   type: {"secret", "other"}, activeDast: BOOLEAN, needsNetwork: BOOLEAN,
   listed: BOOLEAN]

Pattern == [wildcard: BOOLEAN, host: Hosts]
Target == [parses: BOOLEAN, protocol: {"http", "https", "other"},
           credentials: BOOLEAN, host: Hosts]

\* allowedHosts: the entries of the request's list, {} without one.
DastPolicy == [allowActiveScan: BOOLEAN, allowProductionTargets: BOOLEAN,
               allowedHosts: SUBSET (Pattern \cup {Blank}),
               target: Target \cup {None}]

ScanProfile == [gate: Profile, checks: Seq(Checks),
                allowActiveDast: BOOLEAN, allowProductionTargets: BOOLEAN]

ASSUME PlanConstants ==
  /\ definition \in [Checks -> CheckDefinition]
  /\ \A c \in Checks :
       /\ definition[c].listed => definition[c].activeDast
       /\ definition[c].activeDast => definition[c].needsNetwork
       /\ definition[c].tool = "web" => definition[c].activeDast
  /\ Hosts \subseteq Seq(STRING) \ {<<>>}
  /\ DefaultHosts \subseteq Pattern
  /\ None \notin Target
  /\ Blank \notin Pattern

-----------------------------------------------------------------------------
(* evaluateDastGuardrails                                                   *)

normalizeAllowedHosts(allowed) ==
  (IF allowed = {} THEN DefaultHosts ELSE allowed) \ {Blank}

\* Mutant: the host of a wildcard is admitted without the label before it.
isHostAllowedBare(host, patterns) ==
  \E p \in patterns : IF p.wildcard THEN IsSuffix(p.host, host) ELSE host = p.host

\* "*.example.com" ends the host and leaves something before the dot.
isHostAllowed(host, patterns) ==
  \E p \in patterns :
    IF p.wildcard THEN IsStrictSuffix(p.host, host) /\ host # <<"">> \o p.host
                  ELSE host = p.host

ProductionLike(host) == \E i \in DOMAIN host : host[i] \in ProductionLabels

\* buildScanExecutionPlan normalizes the list before the guardrails do.
allowedDastHosts(dast) == normalizeAllowedHosts(dast.allowedHosts)

Reason == {"opt-in", "no-target", "url", "protocol", "credentials", "host",
           "production", "no-adapter"}

Objects(reason, profile, dast) ==
  LET t == dast.target
      judged == t # None /\ t.parses
  IN
  \/ reason = "opt-in" /\ ~(profile.allowActiveDast /\ dast.allowActiveScan)
  \/ reason = "no-target" /\ t = None
  \/ reason = "url" /\ t # None /\ ~t.parses
  \/ judged /\
     \/ reason = "protocol" /\ t.protocol = "other"
     \/ reason = "credentials" /\ t.credentials
     \/ /\ reason = "host"
        /\ ~isHostAllowed(t.host, normalizeAllowedHosts(allowedDastHosts(dast)))
     \/ /\ reason = "production"
        /\ ProductionLike(t.host)
        /\ ~(profile.allowProductionTargets \/ dast.allowProductionTargets)

\* The guardrails allow active scanning when none of the reasons holds.
evaluateDastGuardrails(profile, dast) ==
  {reason \in Reason : Objects(reason, profile, dast)}

activeDastTarget(dast) ==
  IF dast.target # None /\ dast.target.parses THEN dast.target ELSE None

-----------------------------------------------------------------------------
(* buildScanExecutionPlan                                                   *)

buildExecutionStep(check, profile, dast) ==
  [check |-> check,
   blockedReasons |->
     (IF definition[check].activeDast THEN evaluateDastGuardrails(profile, dast) ELSE {})
       \cup (IF definition[check].tool = "unknown" THEN {"no-adapter"} ELSE {}),
   restricted |-> definition[check].needsNetwork]

buildScanExecutionPlan(profile, dast) ==
  LET steps == [n \in DOMAIN profile.checks |->
                  buildExecutionStep(profile.checks[n], profile, dast)]
  IN [steps |-> steps,
      blocked |-> \E n \in DOMAIN steps : steps[n].blockedReasons # {},
      target |-> activeDastTarget(dast),
      gate |-> profile.gate]

\* The API asks for the permission of the user who queues the plan.
planUsesExternalOperation(plan) ==
  \/ plan.target # None
  \/ \E n \in DOMAIN plan.steps : definition[plan.steps[n].check].listed

\* Mutant: the network mode of the steps is not looked at.
planHasTarget(plan) == plan.target # None

\* The worker asks for a fresh decision of its own before it starts.
planRequiresExternalOperation(plan) ==
  \/ plan.target # None
  \/ \E n \in DOMAIN plan.steps : plan.steps[n].restricted
=============================================================================
