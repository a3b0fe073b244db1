-------------------------- MODULE MCScanExecution --------------------------
EXTENDS ScanExecution

CONSTANTS dojo, headers, openvas, leaks, sbom, zap,              \* checks
          openapi, certificate, dns, env, openscap, osv, unsupported,
          odd, note                                               \* items

\* A check of each kind: of an export, of a web target (one the API names and
\* some it does not), of the project, of imported reports, and scanners.
definitions ==
  LET Kind(tool, runs, type, active, net, named) ==
        [tool |-> tool, runs |-> runs, type |-> type, activeDast |-> active,
         needsNetwork |-> net, listed |-> named]
      Own(runs) == Kind("probe", runs, "other", FALSE, FALSE, FALSE)
      Probe(runs, named) == Kind("probe", runs, "other", TRUE, TRUE, named)
  IN dojo :> Kind("probe", "dojo", "other", FALSE, TRUE, FALSE)
     @@ headers :> Probe("headers", TRUE)
     @@ openvas :> Probe("greenbone", FALSE)
     @@ certificate :> Probe("certificate", TRUE)
     @@ dns :> Probe("dns", TRUE)
     @@ openapi :> Own("errors")
     @@ env :> Own("env")
     @@ openscap :> Own("openscap")
     @@ unsupported :> Own("none")
     @@ leaks :> Kind("source", "gitleaks", "secret", FALSE, FALSE, FALSE)
     @@ osv :> Kind("source", "osv-scanner", "other", FALSE, FALSE, FALSE)
     @@ sbom :> Kind("sbom", "syft", "other", FALSE, FALSE, FALSE)
     @@ zap :> Kind("web", "zap", "other", TRUE, TRUE, TRUE)

NoParts == [c \in Checks |-> IF c = openapi THEN {"code", "requestId"} ELSE {}]
Texts == [c \in Checks |-> {}]
SomeIds == Checks \X Names

Domain == <<"example", "com">>
SomeHosts == {<<"localhost">>, Domain, <<"shop">> \o Domain, <<"prod">> \o Domain}
Local == {[wildcard |-> FALSE, host |-> <<"localhost">>]}
ThisHost == {<<"localhost">>}
AllOfDomain == {[wildcard |-> TRUE, host |-> Domain]}

-----------------------------------------------------------------------------
(* What checks see and scanners report                                      *)

Of(name, rating, score, result) ==
  [name |-> name, rating |-> rating, score |-> score, secret |-> FALSE,
   result |-> result, sensitive |-> FALSE]

Remark == Of(note, "info", None, None)
Unknown == Of(odd, "other", None, None)

\* A remark; or what has a rating nobody knows, and what has only a score.
ItemsOf(c) ==
  IF c = osv THEN {Unknown, Of(note, None, 39, None)} ELSE {Remark}
SomeItems == [c \in Checks |-> ItemsOf(c)]

Remarks == [c \in Checks |-> {Remark}]

Sees(facts, report) == [facts |-> facts, days |-> None, report |-> report]
Only(sets) == {Sees(facts, None) : facts \in sets}

Rules == {{}, {Of(odd, None, None, "fail")}, {Of(odd, "low", None, "fail")},
          {Of(odd, "low", None, "error")}, {Of(odd, "high", None, "pass")},
          {Of(odd, "low", None, "fail"), Of(note, "low", None, "fail")}}
Results == {{}, {Of(odd, "high", None, None)}, {Of(odd, "other", None, None)},
            {Of(odd, None, 39, None)}, {Of(odd, None, 40, None)},
            {Of(odd, None, 39, None), Of(note, "low", None, None)}}

Safe == {"response", "hsts", "nosniff", "frame", "csp"}
Trusted == {"inspected", "authorized", "san"}

SightsOf(c) ==
  CASE c = dojo -> Only({{}, {"configured"}})
    [] c = headers -> Only({{}, Safe, Safe \cup {"referrer", "permissions"},
                            Safe \ {"hsts"}, Safe \ {"csp"}})
    [] c = certificate ->
         Only({{}, Trusted, Trusted \ {"san"}, Trusted \ {"authorized"}})
           \cup {[Sees(Trusted, None) EXCEPT !.days = d] : d \in {-1, 0, 14, 30}}
    [] c = dns -> Only({{}, {"address"}, {"address", "mail"}})
    [] c = openapi -> Only({{}, {"openapi"}, {"openapi", "code", "requestId"}})
    [] c = env -> Only({{}, {"envExample"}, {"envExample", "concrete"}})
    [] c = openscap ->
         Only({{}, {"content"}, {"content", "readable"},
               {"content", "readable", "evaluates"}, {"attached"}})
           \cup {Sees({"attached"}, report) : report \in Rules}
           \cup {Sees({"content", "readable", "evaluates"} \cup facts, report) :
                   facts \in {{}, {"vulnerable"}, {"ran"}},
                   report \in {{}, {Of(odd, "low", None, "fail")}}}
    [] c = openvas ->
         Only({{}, {"configured"}, {"attached"}})
           \cup {Sees({"attached"}, report) : report \in Results}
           \cup {Sees({"attached", "json"}, {Of(odd, None, s, None)}) : s \in {39, 40}}
    [] OTHER -> Only({{}})
SomeSights == [c \in Checks |-> SightsOf(c)]

-----------------------------------------------------------------------------
(* Requests                                                                 *)

ProfilesOf(lists, flags) ==
  [gate : {[name |-> "other", failThreshold |-> "high"]}, checks : lists,
   allowActiveDast : flags, allowProductionTargets : flags]

\* Every request: what it opts in to, its list of hosts and its target, with
\* one objection to it besides its host, or none.
AnyRequest ==
  {d \in DastPolicy :
     /\ d.allowedHosts \in {{}, {Blank}, AllOfDomain}
     /\ d.target # None =>
          LET t == d.target IN
          \/ t.parses /\ ~t.credentials /\ t.protocol # "https"
          \/ t.protocol = "http" /\ (t.parses = t.credentials)
          \/ t.parses /\ ~t.credentials /\ t.host = <<"localhost">>}
\* Plans whose guardrails matter, and each other check by itself.
AnyProfiles ==
  ProfilesOf({<<sbom, headers>>, <<leaks, zap>>, <<dojo>>, <<openvas>>}, BOOLEAN)
    \cup ProfilesOf({<<c>> : c \in {openapi, certificate, dns, env, openscap,
                                    osv, unsupported}}, {TRUE})

\* A request the guardrails let through.
Admitted ==
  {[allowActiveScan |-> TRUE, allowProductionTargets |-> FALSE,
    allowedHosts |-> {},
    target |-> [parses |-> TRUE, protocol |-> "http", credentials |-> FALSE,
                host |-> <<"localhost">>]]}
ScannerProfiles == ProfilesOf({<<leaks, zap>>}, {TRUE})
=============================================================================
