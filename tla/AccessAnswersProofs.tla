-------------------------- MODULE AccessAnswersProofs --------------------------
(***************************************************************************)
(* Further proofs about AccessGovernance: what a request is told. Every    *)
(* answer is one of the known ones and an answer that blames the           *)
(* configuration is right (Told); a key is accepted or refused on recent   *)
(* knowledge (KeysKnown); and a list that is answered went through every   *)
(* stored item (Listed). The invariant of AccessGovernanceProofs is used   *)
(* throughout.                                                             *)
(***************************************************************************)
EXTENDS AccessGovernanceProofs

-----------------------------------------------------------------------------
(* The invariants                                                           *)

\* An answer that blames the configuration is right.
Blames(c, a) ==
  /\ a = "no-identity-config" =>
       \/ Mode(c) = "shared-token" /\ ~c.sharedToken
       \/ Mode(c) = "oidc" /\ ~c.oidc
  /\ a = "no-governance-config" => ~accessProjectionEndpoint(c)
  /\ a = "no-akb" => ~c.rag

Told(c, rec) ==
  /\ rec.context \in {None, "shared-token", "oidc"}
  /\ rec.phase = "done" => rec.answer \in Answers
  /\ rec.keys # {} => rec.phase = "keysAnswered"
  /\ Blames(c, rec.answer)
  /\ \A h \in rec.heard : h.outcome = "UNCONFIGURED" => ~c.decisionUrl

\* A set of keys that was the published one at time f, and at every later
\* rotation up to now differed by what was turned since.
Snapshot(keys, f) ==
  /\ f \in 0..now /\ keys \subseteq Keys
  /\ \A k \in Keys : IF k \in keys THEN WasIn(k, f) ELSE WasOut(k, f)

\* The key was, or was not, published at a time that the request itself chose
\* for its fetch or that lies less than a cache life before its judgement.
JudgedAt(rec, s) == s \in 0..now /\ (s + CacheLife > rec.judged \/ rec.fetched = s)
JudgedIn(rec) == \E s \in 0..now : WasIn(rec.key, s) /\ JudgedAt(rec, s)
JudgedOut(rec) == \E s \in 0..now : WasOut(rec.key, s) /\ JudgedAt(rec, s)

KeysKnown(rec) ==
  /\ rec.phase \in {"auth", "keys", "keysAnswered"} => rec.key \in Keys /\ rec.verdict = None
  /\ rec.phase = "idle" => rec.verdict = None
  /\ rec.phase = "keys" => rec.fetched \in 0..now
  /\ rec.phase = "keysAnswered" => Snapshot(rec.keys, rec.fetched)
  /\ rec.phase = "projection" => rec.judged \in 0..now /\ rec.key \in Keys /\ JudgedIn(rec)
  /\ rec.verdict = "refused" =>
       rec.phase = "done" /\ rec.judged \in 0..now /\ rec.key \in Keys /\ JudgedOut(rec)

Clock ==
  /\ config \in Configs /\ now \in 0..MaxTime /\ published \subseteq Keys
  /\ turned \in [Keys -> 0..now \cup {None}]

CacheKnown ==
  jwksCache # None =>
    \E f \in 0..now : jwksCache.expiresAt = f + CacheLife /\ Snapshot(jwksCache.keys, f)

AnswersInv ==
  /\ Clock /\ CacheKnown
  /\ \A r \in Requests : Told(config, req[r]) /\ KeysKnown(req[r])

-----------------------------------------------------------------------------
(* Lists                                                                    *)

Granted(rec, p) == securityPreflightProjectionScopeMatches(rec.projection, ProjectScope(p))
Failed(rec) == rec.phase = "done" /\ rec.answer # "ok"
Outages == {"POLICY_UNAVAILABLE", "UNCONFIGURED"}

\* The item was decided centrally, and is shown exactly if it was allowed.
Decided(rec, p) ==
  \E h \in rec.heard : h.scope = ProjectScope(p) /\ h.central /\ h.outcome \notin Outages
Allowed(rec, p) ==
  \E h \in rec.heard : h.scope = ProjectScope(p) /\ h.central /\ h.outcome = None

\* A list of an OIDC caller: nothing is shown or heard before its first item;
\* then every granted item is decided or still to come.
Listed(rec) ==
  rec.route \in Lists /\ rec.context = "oidc" =>
    /\ rec.stage = "hook" =>
         /\ rec.visible = {} /\ rec.heard = {} /\ rec.answer # "ok"
         /\ rec.phase \in Early \cup {"handler", "done"}
    /\ rec.stage # "hook" =>
         /\ rec.stage = "list" /\ "read_scan" \in rec.projection.capabilities
         /\ rec.queries \in Seq({ItemQuery(p) : p \in All})
         /\ rec.phase \in {"act", "done"} \cup Deciding
         /\ rec.phase = "act" \/ rec.answer = "ok" => rec.queries = <<>>
         /\ rec.phase = "central" =>
              \E p \in All : Head(rec.queries) = ItemQuery(p) /\ Granted(rec, p)
         /\ \A h \in rec.heard : \E p \in All : h.scope = ProjectScope(p) /\ Granted(rec, p)
         /\ rec.visible \subseteq All
         /\ \A p \in All :
              /\ Granted(rec, p) =>
                   \/ Decided(rec, p) \/ Failed(rec)
                   \/ \E n \in DOMAIN rec.queries : rec.queries[n] = ItemQuery(p)
              /\ p \in rec.visible <=> Allowed(rec, p)

\* Before the identity is known nothing is shown.
Unseen(rec) == rec.phase \in Early => rec.visible = {}

ListInv == \A r \in Requests : Unseen(req[r]) /\ Listed(req[r])

-----------------------------------------------------------------------------
(* Steps that answer or go on                                               *)

\* A request between two steps: no keys in transit, nothing answered.
Plain(c, rec) ==
  /\ Shape(rec) /\ rec.context \in {None, "shared-token", "oidc"}
  /\ rec.keys = {} /\ rec.answer = None
  /\ \A h \in rec.heard : h.outcome = "UNCONFIGURED" => ~c.decisionUrl

\* Where a step leads that comes after the judgement of the keys.
Ahead(c, rec, new) ==
  /\ Told(c, new) /\ new.phase \notin Early
  /\ new.verdict = rec.verdict /\ new.route = rec.route

LEMMA PlainRequest ==
  ASSUME NEW c, NEW rec, Sound(c, rec), Told(c, rec),
         rec.phase \notin {"keysAnswered", "done"}
  PROVE  Plain(c, rec)
BY DEF Sound, Staged, Told, Plain

LEMMA BlamesNothing == \A c : Blames(c, None)
BY DecisionConstants DEF Blames, Answers

LEMMA AnsweredAhead ==
  ASSUME NEW c, NEW rec, Plain(c, rec), NEW a \in Answers, Blames(c, a)
  PROVE  Ahead(c, rec, Answered(rec, a))
<1>1. /\ Answered(rec, a).phase = "done" /\ Answered(rec, a).answer = a
      /\ Answered(rec, a).keys = {} /\ Answered(rec, a).heard = rec.heard
      /\ Answered(rec, a).context = rec.context /\ Answered(rec, a).verdict = rec.verdict
      /\ Answered(rec, a).route = rec.route
  BY DEF Plain, Shape, Answered
<1> QED BY <1>1 DEF Plain, Ahead, Told, Early

LEMMA ProceedAhead ==
  ASSUME NEW c, NEW rec, Plain(c, rec)
  PROVE  Ahead(c, rec, Proceed(rec))
<1>1. /\ Proceed(rec).phase \in {"decide", "handler", "act"}
      /\ Proceed(rec).answer = None
      /\ Proceed(rec).keys = {} /\ Proceed(rec).heard = rec.heard
      /\ Proceed(rec).context = rec.context /\ Proceed(rec).verdict = rec.verdict
      /\ Proceed(rec).route = rec.route
  BY DEF Plain, Shape, Proceed
<1> QED BY <1>1, BlamesNothing DEF Plain, Ahead, Told, Early

LEMMA GovernedAhead ==
  ASSUME NEW c, NEW rec, Plain(c, rec)
  PROVE  Ahead(c, rec, Governed(rec))
<1> DEFINE queries == governedOperation(rec)
           asked == [rec EXCEPT !.queries = queries]
<1>1. Governed(rec) \in {Answered(rec, "forbidden"), Proceed(asked)}
  BY DEF Governed
<1> HIDE DEF queries
<1>2. Plain(c, asked) /\ asked.verdict = rec.verdict /\ asked.route = rec.route
  BY DEF Plain, Shape
<1> HIDE DEF asked
<1>3. Ahead(c, rec, Answered(rec, "forbidden"))
  BY AnsweredAhead DEF Answers, Blames
<1>4. Ahead(c, rec, Proceed(asked))
  BY <1>2, ProceedAhead DEF Ahead
<1> QED BY <1>1, <1>3, <1>4

LEMMA AskingAhead ==
  ASSUME NEW c, NEW rec, Plain(c, rec), NEW qs
  PROVE  Ahead(c, rec, Asking(rec, qs))
<1> DEFINE asked == [rec EXCEPT !.stage = "handler", !.queries = qs]
<1>1. Plain(c, asked) /\ asked.verdict = rec.verdict /\ asked.route = rec.route
  BY DEF Plain, Shape
<1>2. Asking(rec, qs) = Proceed(asked)
  BY DEF Asking
<1> HIDE DEF asked
<1> QED BY <1>1, <1>2, ProceedAhead DEF Ahead

LEMMA CollectionAhead ==
  ASSUME NEW c, NEW rec, Plain(c, rec)
  PROVE  Ahead(c, rec, filterProjectScopedCollection(rec))
<1> DEFINE q == <<Query("read_scan", "access", OrganizationScope, None, FALSE)>>
           qs == [n \in DOMAIN Stored |-> ItemQuery(Stored[n])]
           whole == [rec EXCEPT !.visible = All]
           listed == [rec EXCEPT !.stage = "list", !.queries = qs]
<1>1. filterProjectScopedCollection(rec) \in
        {Answered(whole, "ok"), Asking(rec, q), Answered(rec, "forbidden"), Proceed(listed)}
  BY DEF filterProjectScopedCollection
<1> HIDE DEF q, qs
<1>2. /\ Plain(c, whole) /\ whole.verdict = rec.verdict /\ whole.route = rec.route
      /\ Plain(c, listed) /\ listed.verdict = rec.verdict /\ listed.route = rec.route
  BY DEF Plain, Shape
<1> HIDE DEF whole, listed
<1>3. Ahead(c, whole, Answered(whole, "ok")) /\ Ahead(c, rec, Answered(rec, "forbidden"))
  BY <1>2, AnsweredAhead DEF Answers, Blames
<1>4. Ahead(c, rec, Asking(rec, q)) /\ Ahead(c, listed, Proceed(listed))
  BY <1>2, AskingAhead, ProceedAhead
<1> QED BY <1>1, <1>2, <1>3, <1>4 DEF Ahead

LEMMA SettledAhead ==
  ASSUME NEW c, NEW rec, Plain(c, rec), NEW outcome, NEW central,
         outcome = "UNCONFIGURED" => ~c.decisionUrl
  PROVE  Ahead(c, rec, Settled(rec, outcome, central))
<1> DEFINE noted == Noted(rec, outcome, central)
           v == Verdict(rec, outcome, central)
           shown == [noted EXCEPT !.visible = @ \cup {Head(rec.queries).scope.id}]
           new == Settled(rec, outcome, central)
<1>1. new \in {Answered(noted, "denied"), Answered(noted, "unavailable"),
               Proceed(noted), Proceed(shown)}
  BY DEF Settled, Noted, Verdict
<1>2. v.outcome = outcome
  BY DEF Verdict
<1>3. /\ Shape(noted) /\ noted.context = rec.context /\ noted.keys = rec.keys
      /\ noted.answer = rec.answer /\ noted.heard = rec.heard \cup {v}
      /\ noted.verdict = rec.verdict /\ noted.route = rec.route
  <2> HIDE DEF v
  <2> QED BY DEF Noted, Plain, Shape, v
<1> HIDE DEF noted, v, new
<1>4. Plain(c, noted)
  BY <1>2, <1>3 DEF Plain
<1>5. Plain(c, shown) /\ shown.verdict = rec.verdict /\ shown.route = rec.route
  BY <1>3, <1>4 DEF Plain, Shape
<1> HIDE DEF shown
<1>6. Ahead(c, noted, Answered(noted, "denied")) /\ Ahead(c, noted, Answered(noted, "unavailable"))
  BY <1>4, AnsweredAhead DEF Answers, Blames
<1>7. Ahead(c, noted, Proceed(noted)) /\ Ahead(c, shown, Proceed(shown))
  BY <1>4, <1>5, ProceedAhead
<1> QED BY <1>1, <1>3, <1>5, <1>6, <1>7 DEF Ahead, new

\* Any step of a request that does not deal with keys, and is not its arrival.
Onward(r) ==
  \/ authenticateSecurityPreflightRequest(r) \/ loadSecurityPreflightAccessProjection(r)
  \/ Handle(r) \/ LeaveOut(r) \/ Decide(r) \/ CentralAnswers(r) \/ CentralFails(r)
  \/ Act(r) \/ askAkb(r) \/ AkbAnswers(r)

\* The step of request r ends in new.
Ends(r, new) == req' = [req EXCEPT ![r] = new]
World == <<config, now, published, turned, jwksCache>>

LEMMA AuthenticateAhead ==
  ASSUME NEW r \in Requests, Plain(config, req[r]), authenticateSecurityPreflightRequest(r)
  PROVE  \E new : Ends(r, new) /\ Ahead(config, req[r], new)
<1> DEFINE rec == req[r]
           shared == [rec EXCEPT !.context = "shared-token"]
<1>1. \/ Ends(r, Governed(rec)) \/ Ends(r, Answered(rec, "unauthorized"))
      \/ Ends(r, Governed(shared))
      \/ Ends(r, Answered(rec, "no-identity-config")) /\ Blames(config, "no-identity-config")
  BY DEF authenticateSecurityPreflightRequest, Ends, Blames
<1> HIDE DEF rec
<1>2. Plain(config, shared) /\ shared.verdict = rec.verdict /\ shared.route = rec.route
  BY DEF Plain, Shape, rec
<1> HIDE DEF shared
<1>3. Plain(config, rec)
  BY DEF rec
<1>4. Ahead(config, rec, Governed(rec)) /\ Ahead(config, shared, Governed(shared))
  BY <1>2, <1>3, GovernedAhead
<1>5. Ahead(config, rec, Governed(shared))
  BY <1>2, <1>4 DEF Ahead
<1>6. Ahead(config, rec, Answered(rec, "unauthorized"))
  BY <1>3, AnsweredAhead DEF Answers, Blames
<1>7. Blames(config, "no-identity-config") => Ahead(config, rec, Answered(rec, "no-identity-config"))
  BY <1>3, AnsweredAhead DEF Answers
<1> QED BY <1>1, <1>4, <1>5, <1>6, <1>7 DEF rec

LEMMA ProjectionAhead ==
  ASSUME NEW r \in Requests, Plain(config, req[r]), loadSecurityPreflightAccessProjection(r)
  PROVE  \E new : Ends(r, new) /\ Ahead(config, req[r], new)
<1> DEFINE rec == req[r]
           verified == [rec EXCEPT !.fetched = None, !.judged = 0]
           with(p) == [verified EXCEPT !.projection = p]
<1>1. \/ /\ Ends(r, Answered(verified, "no-governance-config"))
         /\ ~accessProjectionEndpoint(config)
      \/ Ends(r, Answered(verified, "forbidden")) \/ Ends(r, Answered(verified, "unavailable"))
      \/ \E p : Ends(r, Governed(with(p)))
  BY DEF loadSecurityPreflightAccessProjection, Ends
<1> HIDE DEF rec
<1>2. /\ Plain(config, verified) /\ verified.verdict = rec.verdict /\ verified.route = rec.route
      /\ \A p : /\ Plain(config, with(p)) /\ with(p).verdict = rec.verdict
               /\ with(p).route = rec.route
  BY DEF Plain, Shape, rec
<1> HIDE DEF verified, with
<1>3. ~accessProjectionEndpoint(config) => Blames(config, "no-governance-config")
  BY DEF Blames
<1>4. \A a \in {"forbidden", "unavailable"} : a \in Answers /\ Blames(config, a)
  BY DEF Answers, Blames
<1>5. \A a \in Answers : Blames(config, a) => Ahead(config, rec, Answered(verified, a))
  BY <1>2, AnsweredAhead DEF Ahead
<1>6. \A p : Ahead(config, rec, Governed(with(p)))
  BY <1>2, GovernedAhead DEF Ahead
<1>7. "no-governance-config" \in Answers
  BY DEF Answers
<1> QED BY <1>1, <1>3, <1>4, <1>5, <1>6, <1>7 DEF rec

LEMMA PolicyAhead ==
  ASSUME NEW c, NEW rec, Plain(c, rec), NEW capability, NEW operation, NEW more
  PROVE  /\ Ahead(c, rec, enforceRunAccessPolicy(rec, capability))
         /\ Ahead(c, rec, enforceRunPolicy(rec, capability, operation))
         /\ Ahead(c, rec, enforcePlanPolicy(rec, more))
<1>1. Ahead(c, rec, Answered(rec, "unbound"))
  BY AnsweredAhead DEF Answers, Blames
<1>2. \A qs : Ahead(c, rec, Asking(rec, qs))
  BY AskingAhead
<1> QED BY <1>1, <1>2 DEF enforceRunAccessPolicy, enforceRunPolicy, enforcePlanPolicy

LEMMA HandleAhead ==
  ASSUME NEW r \in Requests, Plain(config, req[r]), Handle(r)
  PROVE  \E new : Ends(r, new) /\ Ahead(config, req[r], new)
<1> DEFINE rec == req[r]
<1>1. \/ Ends(r, Answered(rec, "rejected")) \/ Ends(r, Answered(rec, "mismatch"))
      \/ Ends(r, filterProjectScopedCollection(rec))
      \/ Ends(r, Asking(rec, <<>>))
      \/ \E capability : Ends(r, enforceRunAccessPolicy(rec, capability))
      \/ \E capability, operation : Ends(r, enforceRunPolicy(rec, capability, operation))
      \/ \E more : Ends(r, enforcePlanPolicy(rec, more))
  BY DEF Handle, ServeProcess, ServeProject, ServeCollection, ReadRun, ReadProgress,
         ReadReport, TriageFinding, ExportReport, ExportRemediation, AskRun, PlanScan,
         QueueScan, Ingest, Handles, Ends
<1>2. Plain(config, rec)
  OBVIOUS
<1> HIDE DEF rec
<1>3. Ahead(config, rec, Answered(rec, "rejected")) /\ Ahead(config, rec, Answered(rec, "mismatch"))
  BY <1>2, AnsweredAhead DEF Answers, Blames
<1>4. /\ Ahead(config, rec, filterProjectScopedCollection(rec))
      /\ Ahead(config, rec, Asking(rec, <<>>))
      /\ \A capability : Ahead(config, rec, enforceRunAccessPolicy(rec, capability))
      /\ \A capability, operation : Ahead(config, rec, enforceRunPolicy(rec, capability, operation))
      /\ \A more : Ahead(config, rec, enforcePlanPolicy(rec, more))
  BY <1>2, CollectionAhead, AskingAhead, PolicyAhead
<1> QED BY <1>1, <1>3, <1>4 DEF rec

\* A decision without an endpoint is one of a process that has none.
LEMMA OutcomesConfigured ==
  /\ \A rec, q : authorizeGovernedRequest(rec, q) = "UNCONFIGURED" => ~config.decisionUrl
  /\ \A q : \A a \in Decisions : CentralOutcome(a, q) # "UNCONFIGURED"
<1>1. \A access, capability, matches \in BOOLEAN : \A q :
        decidePolicy(access, capability, matches, q) # "UNCONFIGURED"
  BY PolicyReasons, DecisionConstants DEF Reasons
<1>2. ASSUME NEW rec, NEW q, authorizeGovernedRequest(rec, q) = "UNCONFIGURED"
      PROVE  ~config.decisionUrl
  <2> DEFINE capability == q.capability \in rec.projection.capabilities
             matches == securityPreflightProjectionScopeMatches(rec.projection, q.scope)
             defaulted == [q EXCEPT !.binding = IF @ = None
                             THEN policyBindingForClassification("internal") ELSE @]
  <2>1. matches \in BOOLEAN /\ capability \in BOOLEAN
    BY DEF securityPreflightProjectionScopeMatches
  <2>2. /\ decidePolicy(FALSE, FALSE, FALSE, q) # "UNCONFIGURED"
        /\ decidePolicy(TRUE, capability, matches, q) # "UNCONFIGURED"
        /\ decidePolicy(TRUE, TRUE, TRUE, defaulted) # "UNCONFIGURED"
    <3> HIDE DEF capability, matches, defaulted
    <3> QED BY <1>1, <2>1
  <2> QED BY <1>2, <2>2 DEF authorizeGovernedRequest
<1>3. ASSUME NEW q, NEW a \in Decisions PROVE CentralOutcome(a, q) # "UNCONFIGURED"
  BY <1>1, DecisionConstants DEF CentralOutcome
<1> QED BY <1>2, <1>3

LEMMA StepAhead ==
  ASSUME IInv, AnswersInv, NEW r \in Requests, Onward(r)
  PROVE  \E new : Ends(r, new) /\ Ahead(config, req[r], new)
<1> DEFINE rec == req[r]
<1>1. Plain(config, rec)
  <2>1. rec.phase \notin {"keysAnswered", "done"}
    BY DEF Onward, authenticateSecurityPreflightRequest, loadSecurityPreflightAccessProjection,
           Handle, ServeProcess, ServeProject, ServeCollection, ReadRun, ReadProgress,
           ReadReport, TriageFinding, ExportReport, ExportRemediation, AskRun, PlanScan,
           QueueScan, Ingest, Handles, LeaveOut, Decide, CentralAnswers, CentralFails,
           Act, askAkb, AkbAnswers, Phase
  <2>2. Sound(config, rec) /\ Told(config, rec)
    BY DEF IInv, AnswersInv
  <2> HIDE DEF rec
  <2> QED BY <2>1, <2>2, PlainRequest
<1>2. CASE LeaveOut(r)
  <2> DEFINE rest == [rec EXCEPT !.queries = Tail(@)]
  <2>1. Ends(r, LeftOut(rec))
    BY <1>2 DEF LeaveOut, Ends
  <2> HIDE DEF rec
  <2>2. Plain(config, rest) /\ rest.verdict = rec.verdict /\ rest.route = rec.route
        /\ LeftOut(rec) = Proceed(rest)
    BY <1>1 DEF Plain, Shape, LeftOut
  <2> HIDE DEF rest
  <2>3. Ahead(config, rec, LeftOut(rec))
    BY <2>2, ProceedAhead DEF Ahead
  <2> QED BY <2>1, <2>3 DEF rec
<1>3. CASE Decide(r)
  <2> DEFINE outcome == authorizeGovernedRequest(rec, Head(rec.queries))
             new == [rec EXCEPT !.phase = "central"]
  <2>1. IF outcome = "CENTRAL" THEN Ends(r, new) ELSE Ends(r, Settled(rec, outcome, FALSE))
    BY <1>3 DEF Decide, Ends
  <2> HIDE DEF rec
  <2>2. Ahead(config, rec, new)
    BY <1>1, BlamesNothing DEF Ahead, Plain, Told, Shape, Early
  <2>3. outcome = "UNCONFIGURED" => ~config.decisionUrl
    BY OutcomesConfigured
  <2> HIDE DEF new, outcome
  <2>4. Ahead(config, rec, Settled(rec, outcome, FALSE))
    BY <1>1, <2>3, SettledAhead
  <2> QED BY <2>1, <2>2, <2>4 DEF rec
<1>4. CASE CentralAnswers(r) \/ CentralFails(r)
  <2>1. \/ \E a \in Decisions : Ends(r, Settled(rec, CentralOutcome(a, Head(rec.queries)), TRUE))
        \/ Ends(r, Settled(rec, "POLICY_UNAVAILABLE", TRUE))
    BY <1>4 DEF CentralAnswers, CentralFails, Ends
  <2> HIDE DEF rec
  <2>2. \A outcome : outcome # "UNCONFIGURED" => Ahead(config, rec, Settled(rec, outcome, TRUE))
    BY <1>1, SettledAhead
  <2> QED BY <2>1, <2>2, OutcomesConfigured DEF rec
<1>5. CASE Act(r)
  <2> DEFINE pre == Shown(rec)
  <2>1. Ends(r, Answered(pre, "ok"))
    BY <1>5 DEF Act, Ends
  <2> HIDE DEF rec
  <2>2. Plain(config, pre) /\ pre.verdict = rec.verdict /\ pre.route = rec.route
    BY <1>1 DEF Plain, Shape, Shown
  <2> HIDE DEF pre
  <2>3. Ahead(config, rec, Answered(pre, "ok"))
    BY <2>2, AnsweredAhead DEF Ahead, Answers, Blames
  <2> QED BY <2>1, <2>3 DEF rec
<1>6. CASE askAkb(r)
  <2> DEFINE asked == [rec EXCEPT !.phase = "akb", !.sent = TRUE]
  <2>1. \/ Ends(r, Answered(rec, "no-akb")) /\ ~config.rag
        \/ \E a \in {"akb-failed", "rejected"} : Ends(r, Answered(rec, a))
        \/ Ends(r, asked)
    BY <1>6 DEF askAkb, Ends
  <2> HIDE DEF rec
  <2>2. Ahead(config, rec, asked)
    BY <1>1, BlamesNothing DEF Ahead, Plain, Told, Shape, Early
  <2> HIDE DEF asked
  <2>3. ~config.rag => Ahead(config, rec, Answered(rec, "no-akb"))
    BY <1>1, AnsweredAhead DEF Answers, Blames
  <2>4. \A a \in {"akb-failed", "rejected"} : Ahead(config, rec, Answered(rec, a))
    BY <1>1, AnsweredAhead DEF Answers, Blames
  <2> QED BY <2>1, <2>2, <2>3, <2>4 DEF rec
<1>7. CASE AkbAnswers(r)
  <2>1. \E a \in {"akb-failed", "ok", "no-answer"} : Ends(r, Answered(rec, a))
    BY <1>7 DEF AkbAnswers, normalizeAkbResponse, Ends
  <2> HIDE DEF rec
  <2>2. \A a \in {"akb-failed", "ok", "no-answer"} : Ahead(config, rec, Answered(rec, a))
    BY <1>1, AnsweredAhead DEF Answers, Blames
  <2> QED BY <2>1, <2>2 DEF rec
<1> QED BY <1>1, <1>2, <1>3, <1>4, <1>5, <1>6, <1>7, AuthenticateAhead, ProjectionAhead,
           HandleAhead DEF Onward

-----------------------------------------------------------------------------
(* Keys                                                                     *)

\* What is known of the past does not depend on the requests.
LEMMA AnswersMoved ==
  ASSUME IInv, AnswersInv, NEW r \in Requests, NEW new, Ends(r, new),
         Told(config, new), KeysKnown(new), CacheKnown',
         UNCHANGED <<config, now, published, turned>>
  PROVE  AnswersInv'
<1>1. \A s \in Requests : req'[s] = IF s = r THEN new ELSE req[s]
  BY DEF IInv, Ends
<1>2. Clock'
  BY DEF AnswersInv, Clock
<1>3. \A s \in Requests : Told(config', req'[s])
  BY <1>1 DEF AnswersInv
<1>4. ASSUME NEW s \in Requests PROVE KeysKnown(req[s])'
  <2>1. KeysKnown(req'[s])
    BY <1>1 DEF AnswersInv
  <2> QED BY <2>1 DEF KeysKnown, Snapshot, JudgedIn, JudgedOut, JudgedAt, WasIn, WasOut
<1> QED BY <1>2, <1>3, <1>4 DEF AnswersInv

\* A judgement by the keys of a snapshot.
LEMMA Judging ==
  ASSUME Clock, NEW rec, Shape(rec), rec.heard = {}, rec.answer = None,
         rec.context = None, rec.key \in Keys, rec.verdict = None,
         NEW keys, NEW s, Snapshot(keys, s), s + CacheLife > now \/ rec.fetched = s
  PROVE  Told(config, Verified(rec, keys)) /\ KeysKnown(Verified(rec, keys))
<1> DEFINE new == Verified(rec, keys)
<1>1. CASE rec.key \in keys
  <2>1. /\ new.verdict = "accepted" /\ new.phase = "projection" /\ new.context = "oidc"
        /\ new.judged = now /\ new.key = rec.key /\ new.fetched = rec.fetched
        /\ new.keys = {} /\ new.heard = {} /\ new.answer = None
    BY <1>1 DEF Verified, Shape
  <2> HIDE DEF new
  <2>2. WasIn(new.key, s) /\ JudgedAt(new, s) /\ s \in 0..now /\ now \in Nat
    BY <1>1, <2>1, GovernanceConstants DEF Snapshot, JudgedAt, Clock
  <2>3. Told(config, new)
    BY <2>1, BlamesNothing DEF Told
  <2>4. KeysKnown(new)
    BY <2>1, <2>2 DEF KeysKnown, JudgedIn
  <2> QED BY <2>3, <2>4 DEF new
<1>2. CASE rec.key \notin keys
  <2>1. /\ new.verdict = "refused" /\ new.phase = "done" /\ new.context = rec.context
        /\ new.judged = now /\ new.key = rec.key /\ new.fetched = rec.fetched
        /\ new.keys = {} /\ new.heard = {} /\ new.answer = "unauthorized"
    BY <1>2 DEF Verified, Answered, Shape
  <2> HIDE DEF new
  <2>2. WasOut(new.key, s) /\ JudgedAt(new, s) /\ s \in 0..now /\ now \in Nat
    BY <1>2, <2>1, GovernanceConstants DEF Snapshot, JudgedAt, Clock
  <2>3. Told(config, new)
    BY <2>1 DEF Told, Answers, Blames
  <2>4. KeysKnown(new)
    BY <2>1, <2>2 DEF KeysKnown, JudgedOut
  <2> QED BY <2>3, <2>4 DEF new
<1> QED BY <1>1, <1>2

LEMMA KeysAhead ==
  ASSUME IInv, AnswersInv, NEW r \in Requests,
         getJwks(r) \/ KeysAnswered(r) \/ KeysArrive(r) \/ KeysFail(r)
  PROVE  AnswersInv'
<1> DEFINE rec == req[r]
<1>1. /\ Sound(config, rec) /\ Told(config, rec) /\ KeysKnown(rec) /\ Clock /\ CacheKnown
      /\ rec.phase \in {"auth", "keys", "keysAnswered"}
      /\ UNCHANGED <<config, now, published, turned>>
  BY DEF IInv, AnswersInv, getJwks, KeysAnswered, KeysArrive, KeysFail, Phase
<1>2. Begun(rec) /\ rec.context = None /\ rec.key \in Keys /\ rec.verdict = None
  BY <1>1, BegunEarly DEF Sound, Identified, Early, KeysKnown
<1>3. now \in 0..MaxTime /\ now \in Nat /\ CacheLife \in Nat
  BY <1>1, GovernanceConstants DEF Clock
<1>4. CASE getJwks(r) /\ Cached
  <2>1. Ends(r, Verified(rec, jwksCache.keys)) /\ jwksCache # None /\ jwksCache' = jwksCache
    BY <1>4 DEF getJwks, Ends, Cached
  <2>2. PICK f \in 0..now : jwksCache.expiresAt = f + CacheLife /\ Snapshot(jwksCache.keys, f)
    BY <1>1, <2>1 DEF CacheKnown
  <2>3. f + CacheLife > now
    BY <1>4, <2>2 DEF Cached
  <2> HIDE DEF rec
  <2>4. Told(config, Verified(rec, jwksCache.keys)) /\ KeysKnown(Verified(rec, jwksCache.keys))
    BY <1>1, <1>2, <2>2, <2>3, Judging DEF Begun
  <2>5. CacheKnown'
    BY <1>1, <2>1 DEF CacheKnown, Snapshot, WasIn, WasOut
  <2> QED BY <1>1, <2>1, <2>4, <2>5, AnswersMoved
<1>5. CASE getJwks(r) /\ ~Cached
  <2> DEFINE new == [rec EXCEPT !.phase = "keys", !.fetched = now]
  <2>1. Ends(r, new) /\ jwksCache' = jwksCache /\ rec.phase = "auth"
    BY <1>5 DEF getJwks, Ends, Phase
  <2> HIDE DEF rec
  <2>2. Told(config, new) /\ KeysKnown(new)
    BY <1>1, <1>2, <1>3, <2>1, BlamesNothing DEF Begun, Shape, Told, KeysKnown
  <2>3. CacheKnown'
    BY <1>1, <2>1 DEF CacheKnown, Snapshot, WasIn, WasOut
  <2> HIDE DEF new
  <2> QED BY <1>1, <2>1, <2>2, <2>3, AnswersMoved
<1>6. CASE KeysAnswered(r)
  <2> DEFINE new == [rec EXCEPT !.phase = "keysAnswered", !.keys = published]
  <2>1. Ends(r, new) /\ jwksCache' = jwksCache /\ rec.phase = "keys"
    BY <1>6 DEF KeysAnswered, Ends, Phase
  <2>2. rec.fetched \in 0..now /\ Snapshot(published, rec.fetched)
    BY <1>1, <2>1 DEF KeysKnown, Snapshot, WasIn, WasOut, Clock
  <2> HIDE DEF rec
  <2>3. /\ new.phase = "keysAnswered" /\ new.keys = published /\ new.fetched = rec.fetched
        /\ new.key = rec.key /\ new.verdict = None /\ new.context = None /\ new.answer = None
        /\ new.heard = {}
    BY <1>2 DEF Begun, Shape
  <2> HIDE DEF new
  <2>4. Told(config, new) /\ KeysKnown(new)
    BY <1>2, <2>2, <2>3, BlamesNothing, DecisionConstants DEF Told, KeysKnown
  <2>5. CacheKnown'
    BY <1>1, <2>1 DEF CacheKnown, Snapshot, WasIn, WasOut
  <2> QED BY <1>1, <2>1, <2>4, <2>5, AnswersMoved
<1>7. CASE KeysArrive(r)
  <2>1. /\ Ends(r, Verified(rec, rec.keys)) /\ rec.phase = "keysAnswered"
        /\ jwksCache' = [keys |-> rec.keys, expiresAt |-> rec.fetched + CacheLife]
    BY <1>7 DEF KeysArrive, Ends, Phase
  <2>2. Snapshot(rec.keys, rec.fetched)
    BY <1>1, <2>1 DEF KeysKnown
  <2> HIDE DEF rec
  <2>3. Told(config, Verified(rec, rec.keys)) /\ KeysKnown(Verified(rec, rec.keys))
    BY <1>1, <1>2, <2>2, Judging DEF Begun
  <2>4. CacheKnown'
    <3>1. jwksCache'.keys = rec.keys /\ jwksCache'.expiresAt = rec.fetched + CacheLife
      BY <2>1
    <3>2. rec.fetched \in 0..now'
      BY <1>1, <2>2 DEF Snapshot
    <3>3. /\ rec.keys \subseteq Keys
          /\ \A k \in Keys : IF k \in rec.keys THEN WasIn(k, rec.fetched) ELSE WasOut(k, rec.fetched)
      BY <2>2 DEF Snapshot
    <3>4. \A k \in Keys : \A f : (WasIn(k, f) => WasIn(k, f)') /\ (WasOut(k, f) => WasOut(k, f)')
      BY <1>1 DEF WasIn, WasOut
    <3> DEFINE f == rec.fetched
               keys == rec.keys
    <3> HIDE DEF f, keys
    <3>5. \A k \in Keys : IF k \in jwksCache'.keys THEN WasIn(k, rec.fetched) ELSE WasOut(k, rec.fetched)
      BY <3>1, <3>3
    <3> QED BY <1>1, <3>1, <3>2, <3>3, <3>5 DEF CacheKnown, Snapshot, WasIn, WasOut
  <2> QED BY <1>1, <2>1, <2>3, <2>4, AnswersMoved
<1>8. CASE KeysFail(r)
  <2> DEFINE new == Answered(rec, "unauthorized")
  <2>1. Ends(r, new) /\ jwksCache' = jwksCache
    BY <1>8 DEF KeysFail, Ends
  <2> HIDE DEF rec
  <2>2. /\ new.phase = "done" /\ new.keys = {} /\ new.answer = "unauthorized"
        /\ new.verdict = None /\ new.context = None /\ new.heard = {}
    BY <1>2 DEF Begun, Shape, Answered
  <2> HIDE DEF new
  <2>3. Told(config, new) /\ KeysKnown(new)
    BY <2>2, DecisionConstants DEF Told, KeysKnown, Answers, Blames
  <2>4. CacheKnown'
    BY <1>1, <2>1 DEF CacheKnown, Snapshot, WasIn, WasOut
  <2> QED BY <1>1, <2>1, <2>3, <2>4, AnswersMoved
<1> QED BY <1>4, <1>5, <1>6, <1>7, <1>8

LEMMA ArrivesAhead ==
  ASSUME IInv, AnswersInv, NEW r \in Requests, Arrives(r)
  PROVE  AnswersInv'
<1> DEFINE rec == req[r]
<1>1. /\ Sound(config, rec) /\ Told(config, rec) /\ KeysKnown(rec) /\ CacheKnown
      /\ rec.phase = "idle" /\ UNCHANGED World
  BY DEF IInv, AnswersInv, Arrives, Phase, World
<1>2. PICK route \in Offered[r], target \in Projects \cup {None},
           binding \in Bindings \cup {None}, key \in Keys :
        /\ target = None => route \in Global \cup {"ingest"}
        /\ route \in Global => target = None
        /\ route \notin Bound => binding = None
        /\ req' = [req EXCEPT ![r] =
             [@ EXCEPT !.phase = "auth", !.route = route, !.target = target,
                       !.binding = binding, !.key = key]]
  BY DEF Arrives
<1> DEFINE new == [rec EXCEPT !.phase = "auth", !.route = route, !.target = target,
                              !.binding = binding, !.key = key]
<1>4. Ends(r, new)
  BY <1>2 DEF Ends
<1> HIDE DEF rec
<1>5. /\ new.phase = "auth" /\ new.key = key /\ new.verdict = None /\ new.answer = None
      /\ new.context = rec.context /\ new.keys = {} /\ new.heard = rec.heard
  BY <1>1 DEF Sound, Staged, Told, KeysKnown, Shape
<1> HIDE DEF new
<1>6. Told(config, new) /\ KeysKnown(new)
  BY <1>1, <1>5, BlamesNothing DEF Told, KeysKnown
<1>7. CacheKnown'
  BY <1>1 DEF CacheKnown, Snapshot, WasIn, WasOut, World
<1> QED BY <1>1, <1>4, <1>6, <1>7, AnswersMoved DEF World

LEMMA OnwardKeeps ==
  ASSUME IInv, AnswersInv, NEW r \in Requests, Onward(r)
  PROVE  AnswersInv'
<1>1. PICK new : Ends(r, new) /\ Ahead(config, req[r], new)
  BY StepAhead
<1>2. /\ KeysKnown(req[r]) /\ CacheKnown /\ UNCHANGED World /\ req[r].phase # "done"
  BY DEF AnswersInv, World, Onward, authenticateSecurityPreflightRequest,
         loadSecurityPreflightAccessProjection, Handle, ServeProcess, ServeProject,
         ServeCollection, ReadRun, ReadProgress, ReadReport, TriageFinding, ExportReport,
         ExportRemediation, AskRun, PlanScan, QueueScan, Ingest, Handles, LeaveOut, Decide,
         CentralAnswers, CentralFails, Act, askAkb, AkbAnswers, Phase
<1>3. Told(config, new) /\ KeysKnown(new)
  BY <1>1, <1>2 DEF Ahead, KeysKnown, Early
<1>4. CacheKnown'
  BY <1>2 DEF CacheKnown, Snapshot, WasIn, WasOut, World
<1> QED BY <1>1, <1>2, <1>3, <1>4, AnswersMoved DEF World

\* A rotation is remembered, and time only passes: what was known stays so.
LEMMA WorldKeeps ==
  ASSUME AnswersInv, Tick \/ \E k \in Keys : Rotate(k)
  PROVE  AnswersInv'
<1>1. Clock /\ CacheKnown /\ config' = config /\ jwksCache' = jwksCache /\ req' = req
  BY DEF AnswersInv, Tick, Rotate
<1>2. now \in Nat /\ now' \in 0..MaxTime /\ now <= now' /\ 0..now \subseteq 0..now'
  BY <1>1, GovernanceConstants DEF Clock, Tick, Rotate
<1>3. Clock'
  BY <1>1, <1>2, GovernanceConstants DEF Clock, Tick, Rotate
<1>4. \A k \in Keys : \A s \in 0..now : (WasIn(k, s) => WasIn(k, s)') /\ (WasOut(k, s) => WasOut(k, s)')
  <2>1. CASE Tick
    BY <2>1 DEF Tick, WasIn, WasOut
  <2>2. ASSUME NEW j \in Keys, Rotate(j), NEW k \in Keys, NEW s \in 0..now
        PROVE  (WasIn(k, s) => WasIn(k, s)') /\ (WasOut(k, s) => WasOut(k, s)')
    <3>1. CASE k = j
      <4>1. turned'[k] = now
        BY <1>1, <2>2, <3>1 DEF Rotate, Clock
      <4>2. now # None /\ now >= s
        BY <1>2, GovernanceConstants
      <4> QED BY <4>1, <4>2 DEF WasIn, WasOut
    <3>2. CASE k # j
      <4>1. turned'[k] = turned[k] /\ (k \in published' <=> k \in published)
        BY <1>1, <2>2, <3>2 DEF Rotate, Clock
      <4> QED BY <4>1 DEF WasIn, WasOut
    <3> QED BY <3>1, <3>2
  <2> QED BY <2>1, <2>2
<1>5. ASSUME NEW keys, NEW f, Snapshot(keys, f) PROVE Snapshot(keys, f)'
  BY <1>2, <1>4, <1>5 DEF Snapshot
<1>6. CacheKnown'
  BY <1>1, <1>2, <1>5 DEF CacheKnown
<1>7. ASSUME NEW r \in Requests PROVE Told(config, req[r])' /\ KeysKnown(req[r])'
  <2>1. Told(config, req[r]) /\ KeysKnown(req[r]) /\ req'[r] = req[r]
    BY <1>1 DEF AnswersInv
  <2>2. Told(config', req'[r])
    BY <1>1, <2>1
  <2> DEFINE rec == req[r]
  <2>3. req'[r] = rec /\ KeysKnown(rec)
    BY <2>1
  <2> HIDE DEF rec
  <2>4. /\ rec.phase = "keys" => rec.fetched \in 0..now'
        /\ rec.judged \in 0..now => rec.judged \in 0..now'
    BY <1>2, <2>3 DEF KeysKnown
  <2>5. rec.phase = "keysAnswered" => Snapshot(req[r].keys, req[r].fetched)'
    <3> DEFINE keys == rec.keys
               f == rec.fetched
    <3>1. req'[r].keys = keys /\ req'[r].fetched = f
      BY <2>3
    <3>2. rec.phase = "keysAnswered" => Snapshot(keys, f)
      BY <2>3 DEF KeysKnown
    <3> HIDE DEF keys, f
    <3> QED BY <1>2, <1>4, <3>1, <3>2 DEF Snapshot
  <2>6. rec.key \in Keys /\ JudgedIn(rec) => JudgedIn(req[r])'
    BY <1>2, <1>4, <2>3 DEF JudgedIn, JudgedAt
  <2>7. rec.key \in Keys /\ JudgedOut(rec) => JudgedOut(req[r])'
    BY <1>2, <1>4, <2>3 DEF JudgedOut, JudgedAt
  <2>8. KeysKnown(req[r])'
    BY <2>3, <2>4, <2>5, <2>6, <2>7 DEF KeysKnown
  <2> QED BY <2>2, <2>8
<1> QED BY <1>3, <1>6, <1>7 DEF AnswersInv

LEMMA InitAnswers == Init => AnswersInv
<1> SUFFICES ASSUME Init PROVE AnswersInv
  OBVIOUS
<1>1. Clock /\ CacheKnown
  BY GovernanceConstants DEF Init, Clock, CacheKnown
<1>2. \A r \in Requests : Told(config, req[r]) /\ KeysKnown(req[r])
  BY BlamesNothing, DecisionConstants DEF Init, Fresh, Told, KeysKnown
<1> QED BY <1>1, <1>2 DEF AnswersInv

LEMMA StepAnswers == IInv /\ AnswersInv /\ [Next]_vars => AnswersInv'
<1> SUFFICES ASSUME IInv, AnswersInv, [Next]_vars PROVE AnswersInv'
  OBVIOUS
<1>1. ASSUME NEW r \in Requests, Serve(r) PROVE AnswersInv'
  BY <1>1, ArrivesAhead, KeysAhead, OnwardKeeps DEF Serve, Onward
<1>2. ASSUME Tick \/ \E k \in Keys : Rotate(k) PROVE AnswersInv'
  BY <1>2, WorldKeeps
<1>3. ASSUME UNCHANGED vars PROVE AnswersInv'
  <2>1. Clock' /\ CacheKnown'
    BY <1>3 DEF vars, AnswersInv, Clock, CacheKnown, Snapshot, WasIn, WasOut
  <2>2. ASSUME NEW r \in Requests PROVE Told(config, req[r])' /\ KeysKnown(req[r])'
    BY <1>3 DEF vars, AnswersInv, Told, KeysKnown, Snapshot, JudgedIn, JudgedOut, JudgedAt,
                WasIn, WasOut, Blames, accessProjectionEndpoint, Mode
  <2> QED BY <2>1, <2>2 DEF AnswersInv
<1> QED BY <1>1, <1>2, <1>3 DEF Next

\* What every request is told, on what the keys were judged, and what the
\* clock and the key cache of the process hold: inductive beside the first
\* invariant (auth.ts getJwks and verifyJwt, and every reply of server.ts).
THEOREM AnswersInvariant == Spec => []AnswersInv
<1> QED BY GovernanceInvariant, InitAnswers, StepAnswers, PTL DEF Spec

\* Every variable has its type in every reachable state: a finished request has
\* one of the known answers and keys are held only in transit.
THEOREM GovernanceTypes == Spec => []TypeOK
<1>1. IInv /\ AnswersInv => TypeOK
  <2> SUFFICES ASSUME IInv, AnswersInv PROVE TypeOK
    OBVIOUS
  <2>1. \A r \in Requests : Staged(req[r]) /\ Told(config, req[r])
    BY DEF IInv, Sound, AnswersInv
  <2>2. jwksCache = None \/ jwksCache.keys \subseteq Keys
    BY DEF AnswersInv, CacheKnown, Snapshot
  <2>3. Clock
    BY DEF AnswersInv
  <2>4. \A r \in Requests :
          /\ req[r].phase \in Phases
          /\ req[r].stage \in {"hook", "handler", "list"}
          /\ req[r].context \in {None, "shared-token", "oidc"}
          /\ req[r].answer \in IF req[r].phase = "done" THEN Answers ELSE {None}
          /\ req[r].phase \in {"decide", "central"} => req[r].queries # <<>>
          /\ req[r].keys # {} => req[r].phase = "keysAnswered"
    BY <2>1 DEF Staged, Told, Deciding
  <2> QED BY <2>2, <2>3, <2>4 DEF TypeOK, Clock
<1> QED BY <1>1, GovernanceInvariant, AnswersInvariant, PTL

\* A capability that the audit calls ready fails for no request for want of
\* configuration, and GET /ready vouches for the decisions and the execution
\* (buildCapabilityAudit and the ready probe against the code that runs).
THEOREM ReadyMeansConfigured == Spec => []ReadyIsConfigured
<1>1. AnswersInv => ReadyIsConfigured
  <2> SUFFICES ASSUME AnswersInv, NEW r \in Requests PROVE
         LET rec == req[r]
             bearer == rec.context # None
             undecided == rec.answer = "no-governance-config"
                            \/ \E h \in rec.heard : h.outcome = "UNCONFIGURED"
         IN /\ Ready("auth", bearer) => ~undecided /\ rec.answer # "no-identity-config"
            /\ Ready("akb-ai", bearer) => rec.answer # "no-akb"
            /\ ReadyProbe(config) =>
                 /\ config.production => ~undecided
                 /\ config.persistence => Ready("worker-execution", bearer)
    BY DEF ReadyIsConfigured
  <2> DEFINE rec == req[r]
             bearer == rec.context # None
             undecided == rec.answer = "no-governance-config"
                            \/ \E h \in rec.heard : h.outcome = "UNCONFIGURED"
  <2>1. Told(config, rec)
    BY DEF AnswersInv
  <2> HIDE DEF rec
  <2>2. config.decisionUrl => ~undecided
    BY <2>1 DEF Told, Blames, accessProjectionEndpoint
  <2>3. ASSUME Ready("auth", bearer) PROVE ~undecided /\ rec.answer # "no-identity-config"
    <3>1. AuthGaps(config) = {}
      BY <2>3 DEF Ready, buildCapabilityAudit
    <3>2. /\ Missing(Mode(config) # "oidc" \/ ~config.oidc, "oidc-not-configured") = {}
          /\ Missing(~config.decisionUrl, "policy-decision-missing") = {}
      BY <3>1 DEF AuthGaps
    <3>3. Mode(config) = "oidc" /\ config.oidc /\ config.decisionUrl
      BY <3>2 DEF Missing
    <3> QED BY <2>1, <2>2, <3>3 DEF Told, Blames
  <2>4. ASSUME Ready("akb-ai", bearer) PROVE rec.answer # "no-akb"
    <3>1. Missing(~config.rag, "akb-rag-missing") = {}
      BY <2>4 DEF Ready, buildCapabilityAudit
    <3> QED BY <2>1, <3>1 DEF Missing, Told, Blames
  <2>5. ASSUME ReadyProbe(config), config.persistence PROVE Ready("worker-execution", bearer)
    BY <2>5 DEF ReadyProbe, Ready, buildCapabilityAudit, Missing
  <2>6. ReadyProbe(config) /\ config.production => ~undecided
    BY <2>2 DEF ReadyProbe
  <2> QED BY <2>3, <2>4, <2>5, <2>6 DEF rec
<1> QED BY <1>1, AnswersInvariant, PTL

\* A key is accepted only if it was published, and refused only if it was not,
\* less than a cache life before the judgement or since the request's own fetch
\* began: a slow answer of the identity provider does not prolong the cache.
THEOREM RecentKeys == Spec => []KeysAreRecent
<1>1. AnswersInv => KeysAreRecent
  <2> SUFFICES ASSUME AnswersInv, NEW r \in Requests PROVE
         LET rec == req[r]
             Recent(Was(_, _)) ==
               \/ Was(rec.key, IF rec.judged < CacheLife THEN 0 ELSE rec.judged - CacheLife + 1)
               \/ rec.fetched # None /\ Was(rec.key, rec.fetched)
         IN /\ rec.verdict = "accepted" /\ rec.phase = "projection" => Recent(WasIn)
            /\ rec.verdict = "refused" => Recent(WasOut)
    BY DEF KeysAreRecent
  <2> DEFINE rec == req[r]
             since == IF rec.judged < CacheLife THEN 0 ELSE rec.judged - CacheLife + 1
  <2>1. KeysKnown(rec) /\ Clock /\ CacheLife \in Nat /\ None \notin Nat
    BY GovernanceConstants DEF AnswersInv
  <2>2. now \in Nat
    BY <2>1, GovernanceConstants DEF Clock
  <2> HIDE DEF rec
  <2>3. ASSUME NEW k \in Keys, NEW s \in 0..now, NEW t \in Nat, t <= s
        PROVE  (WasIn(k, s) => WasIn(k, t)) /\ (WasOut(k, s) => WasOut(k, t))
    <3>1. turned[k] = None \/ turned[k] \in Nat
      BY <2>1, <2>2 DEF Clock
    <3> QED BY <2>2, <2>3, <3>1 DEF WasIn, WasOut
  <2>4. ASSUME rec.judged \in 0..now, NEW s \in 0..now, JudgedAt(rec, s)
        PROVE  (since \in Nat /\ since <= s) \/ (rec.fetched = s /\ rec.fetched # None)
    BY <2>1, <2>2, <2>4 DEF JudgedAt
  <2> HIDE DEF since
  <2>5. ASSUME rec.phase = "projection"
        PROVE  WasIn(rec.key, since) \/ (rec.fetched # None /\ WasIn(rec.key, rec.fetched))
    <3>1. rec.judged \in 0..now /\ rec.key \in Keys /\ JudgedIn(rec)
      BY <2>1, <2>5 DEF KeysKnown
    <3>2. PICK s \in 0..now : WasIn(rec.key, s) /\ JudgedAt(rec, s)
      BY <3>1 DEF JudgedIn
    <3> QED BY <2>3, <2>4, <3>1, <3>2
  <2>6. ASSUME rec.verdict = "refused"
        PROVE  WasOut(rec.key, since) \/ (rec.fetched # None /\ WasOut(rec.key, rec.fetched))
    <3>1. rec.judged \in 0..now /\ rec.key \in Keys /\ JudgedOut(rec)
      BY <2>1, <2>6 DEF KeysKnown
    <3>2. PICK s \in 0..now : WasOut(rec.key, s) /\ JudgedAt(rec, s)
      BY <3>1 DEF JudgedOut
    <3> QED BY <2>3, <2>4, <3>1, <3>2
  <2> QED BY <2>5, <2>6 DEF rec, since
<1> QED BY <1>1, AnswersInvariant, PTL

-----------------------------------------------------------------------------
(* Lists, item by item                                                      *)

LEMMA Rest ==
  ASSUME NEW S, NEW qs \in Seq(S), qs # <<>>
  PROVE  /\ Tail(qs) \in Seq(S) /\ Head(qs) \in S
         /\ \A n \in DOMAIN qs :
              qs[n] = Head(qs) \/ \E m \in DOMAIN Tail(qs) : qs[n] = Tail(qs)[m]
<1>1. /\ Tail(qs) \in Seq(S) /\ Len(Tail(qs)) = Len(qs) - 1 /\ Head(qs) = qs[1]
      /\ \A i \in 1 .. Len(Tail(qs)) : Tail(qs)[i] = qs[i + 1]
      /\ Len(qs) \in Nat \ {0} /\ DOMAIN qs = 1 .. Len(qs) /\ Head(qs) \in S
  BY HeadTailProperties
<1>2. DOMAIN Tail(qs) = 1 .. Len(qs) - 1
  BY <1>1
<1>3. ASSUME NEW n \in DOMAIN qs, n # 1
      PROVE  \E m \in DOMAIN Tail(qs) : qs[n] = Tail(qs)[m]
  <2>1. n - 1 \in DOMAIN Tail(qs) /\ Tail(qs)[n - 1] = qs[n]
    BY <1>1, <1>2, <1>3
  <2> QED BY <2>1
<1> QED BY <1>1, <1>3

LEMMA ItemScopes ==
  /\ \A p : ItemQuery(p).scope = ProjectScope(p) /\ ItemQuery(p).scope.id = p
          /\ ItemQuery(p).capability = "read_scan"
  /\ \A p, o : ProjectScope(p) = ProjectScope(o) => p = o
  /\ \A p, o : ItemQuery(p) = ItemQuery(o) => p = o
<1>1. \A p : ProjectScope(p).id = p
  BY DEF ProjectScope
<1> QED BY <1>1 DEF ItemQuery, Query

\* The list that an OIDC caller is shown while its items are decided.
InList(rec) ==
  /\ Shape(rec) /\ rec.route \in Lists /\ rec.context = "oidc" /\ rec.stage = "list"
  /\ rec.answer = None /\ rec.phase \in Deciding
  /\ rec.projection # None /\ rec.queries # <<>> /\ Listed(rec)

LEMMA Heading ==
  ASSUME NEW rec, InList(rec)
  PROVE  /\ "read_scan" \in rec.projection.capabilities
         /\ Tail(rec.queries) \in Seq({ItemQuery(p) : p \in All})
         /\ \E p \in All : Head(rec.queries) = ItemQuery(p)
         /\ \A n \in DOMAIN rec.queries :
              \/ rec.queries[n] = Head(rec.queries)
              \/ \E m \in DOMAIN Tail(rec.queries) : rec.queries[n] = Tail(rec.queries)[m]
         /\ \A h \in rec.heard : \E p \in All : h.scope = ProjectScope(p) /\ Granted(rec, p)
         /\ rec.visible \subseteq All
         /\ \A p \in All :
              /\ Granted(rec, p) =>
                   \/ Decided(rec, p)
                   \/ \E n \in DOMAIN rec.queries : rec.queries[n] = ItemQuery(p)
              /\ p \in rec.visible <=> Allowed(rec, p)
<1>1. rec.stage # "hook" /\ ~Failed(rec)
  BY DEF InList, Failed, Deciding
<1>2. /\ "read_scan" \in rec.projection.capabilities
      /\ rec.queries \in Seq({ItemQuery(p) : p \in All})
      /\ \A h \in rec.heard : \E p \in All : h.scope = ProjectScope(p) /\ Granted(rec, p)
      /\ rec.visible \subseteq All
      /\ \A p \in All :
           /\ Granted(rec, p) =>
                \/ Decided(rec, p)
                \/ \E n \in DOMAIN rec.queries : rec.queries[n] = ItemQuery(p)
           /\ p \in rec.visible <=> Allowed(rec, p)
  BY <1>1 DEF InList, Listed
<1>3. rec.queries # <<>>
  BY DEF InList
<1> DEFINE S == {ItemQuery(p) : p \in All}
<1>4. /\ Tail(rec.queries) \in Seq(S) /\ Head(rec.queries) \in S
      /\ \A n \in DOMAIN rec.queries :
           \/ rec.queries[n] = Head(rec.queries)
           \/ \E m \in DOMAIN Tail(rec.queries) : rec.queries[n] = Tail(rec.queries)[m]
  <2>1. rec.queries \in Seq(S)
    BY <1>2
  <2> HIDE DEF S
  <2> QED BY <1>3, <2>1, Rest
<1> QED BY <1>2, <1>4

\* One item is done with: the list goes on, fails, or is complete. What was
\* heard of it decides whether it is shown.
LEMMA ItemDone ==
  ASSUME NEW rec, InList(rec), NEW p \in All, Head(rec.queries) = ItemQuery(p),
         NEW new, SameRequest(new, rec), new.stage = "list", new.queries = Tail(rec.queries),
         NEW more, new.heard = rec.heard \cup more,
         \A h \in more : h.scope = ProjectScope(p) /\ Granted(rec, p),
         \/ new.phase = "done" /\ new.answer \notin {"ok", None}
         \/ /\ new.phase = IF new.queries # <<>> THEN "decide" ELSE "act"
            /\ new.answer = None
            /\ Granted(rec, p) => \E h \in more : h.central /\ h.outcome \notin Outages,
         new.visible = rec.visible \cup
           {o \in {p} : \E h \in more : h.central /\ h.outcome = None}
  PROVE  Listed(new)
<1>1. /\ "read_scan" \in rec.projection.capabilities
      /\ Tail(rec.queries) \in Seq({ItemQuery(o) : o \in All})
      /\ \A n \in DOMAIN rec.queries :
           \/ rec.queries[n] = Head(rec.queries)
           \/ \E m \in DOMAIN Tail(rec.queries) : rec.queries[n] = Tail(rec.queries)[m]
      /\ \A h \in rec.heard : \E o \in All : h.scope = ProjectScope(o) /\ Granted(rec, o)
      /\ rec.visible \subseteq All
      /\ \A o \in All :
           /\ Granted(rec, o) =>
                \/ Decided(rec, o)
                \/ \E n \in DOMAIN rec.queries : rec.queries[n] = ItemQuery(o)
           /\ o \in rec.visible <=> Allowed(rec, o)
  BY Heading
<1>2. \A o : Granted(new, o) <=> Granted(rec, o)
  BY DEF SameRequest, Granted
<1>3. new.phase \in {"act", "decide", "done"} /\ (new.phase = "act" \/ new.answer = "ok" => new.queries = <<>>)
  BY DecisionConstants DEF Answers
<1>4. \A h \in new.heard : \E o \in All : h.scope = ProjectScope(o) /\ Granted(new, o)
  BY <1>1, <1>2
<1>5. ASSUME NEW o \in All, Granted(new, o)
      PROVE  \/ Decided(new, o) \/ Failed(new)
             \/ \E n \in DOMAIN new.queries : new.queries[n] = ItemQuery(o)
  <2>1. CASE Decided(rec, o)
    BY <2>1 DEF Decided
  <2>2. CASE \E n \in DOMAIN rec.queries : rec.queries[n] = ItemQuery(o)
    <3>1. PICK n \in DOMAIN rec.queries : rec.queries[n] = ItemQuery(o)
      BY <2>2
    <3>2. CASE rec.queries[n] = Head(rec.queries)
      <4>1. o = p
        <5>1. ItemQuery(o) = ItemQuery(p)
          BY <3>1, <3>2
        <5> QED BY <5>1, ItemScopes
      <4>2. Failed(new) \/ \E h \in more : h.central /\ h.outcome \notin Outages
        BY <1>2, <1>5, <4>1 DEF Failed
      <4> QED BY <4>1, <4>2 DEF Decided
    <3>3. CASE \E m \in DOMAIN Tail(rec.queries) : rec.queries[n] = Tail(rec.queries)[m]
      BY <3>1, <3>3
    <3> QED BY <1>1, <3>2, <3>3
  <2> QED BY <1>1, <1>2, <1>5, <2>1, <2>2
<1>6. ASSUME NEW o \in All PROVE o \in new.visible <=> Allowed(new, o)
  <2>1. CASE o = p
    BY <1>1, <2>1 DEF Allowed
  <2>2. CASE o # p
    <3>1. \A h \in more : h.scope # ProjectScope(o)
      BY <2>2, ItemScopes
    <3>2. Allowed(new, o) <=> Allowed(rec, o)
      BY <3>1 DEF Allowed
    <3> QED BY <1>1, <2>2, <3>2
  <2> QED BY <2>1, <2>2
<1> QED BY <1>1, <1>3, <1>4, <1>5, <1>6 DEF Listed, SameRequest, Deciding

\* The three ways in which an item is done with.
LEMMA LeftOutListed ==
  ASSUME NEW rec, InList(rec), OutOfScope(rec)
  PROVE  Listed(LeftOut(rec))
<1> DEFINE rest == [rec EXCEPT !.queries = Tail(@)]
           new == LeftOut(rec)
<1>1. PICK p \in All : Head(rec.queries) = ItemQuery(p)
  BY Heading
<1>2. ~Granted(rec, p)
  BY <1>1, ItemScopes DEF OutOfScope, Granted
<1>3. /\ Shape(rest) /\ SameRequest(rest, rec) /\ rest.stage = "list"
      /\ rest.queries = Tail(rec.queries) /\ rest.heard = rec.heard
      /\ rest.visible = rec.visible /\ rest.answer = None
  BY DEF InList, Shape, SameRequest
<1>4. new = Proceed(rest)
  BY DEF LeftOut
<1> HIDE DEF rest, new
<1>5. /\ SameRequest(new, rec) /\ new.stage = "list" /\ new.queries = Tail(rec.queries)
      /\ new.heard = rec.heard \cup {} /\ new.visible = rec.visible /\ new.answer = None
      /\ new.phase = IF new.queries # <<>> THEN "decide" ELSE "act"
  BY <1>3, <1>4, Proceeding DEF SameRequest, Proceed, Shape
<1> DEFINE more == {}
<1>6. /\ new.visible = rec.visible \cup {o \in {p} : \E h \in more : h.central /\ h.outcome = None}
      /\ new.heard = rec.heard \cup more
      /\ \A h \in more : h.scope = ProjectScope(p) /\ Granted(rec, p)
      /\ Granted(rec, p) => \E h \in more : h.central /\ h.outcome \notin Outages
  BY <1>2, <1>5
<1> HIDE DEF more
<1>7. Listed(new)
  BY <1>1, <1>5, <1>6, ItemDone
<1> QED BY <1>7 DEF new

LEMMA SettledListed ==
  ASSUME NEW rec, InList(rec), ~OutOfScope(rec), NEW outcome, NEW central,
         central = TRUE \/ (central = FALSE /\ outcome = "UNCONFIGURED")
  PROVE  Listed(Settled(rec, outcome, central))
<1> DEFINE noted == Noted(rec, outcome, central)
           v == Verdict(rec, outcome, central)
           shown == [noted EXCEPT !.visible = @ \cup {Head(rec.queries).scope.id}]
           new == Settled(rec, outcome, central)
<1>1. PICK p \in All : Head(rec.queries) = ItemQuery(p)
  BY Heading
<1>2. Granted(rec, p) /\ Head(rec.queries).scope = ProjectScope(p) /\ Head(rec.queries).scope.id = p
  BY <1>1, ItemScopes DEF OutOfScope, Granted, InList
<1>3. v.scope = ProjectScope(p) /\ v.outcome = outcome /\ v.central = central
  BY <1>2 DEF Verdict
<1>4. /\ Shape(noted) /\ SameRequest(noted, rec) /\ noted.stage = "list" /\ noted.answer = None
      /\ noted.queries = Tail(rec.queries) /\ noted.heard = rec.heard \cup {v}
      /\ noted.visible = rec.visible
  BY Noting DEF InList
<1>5. new = IF outcome = None THEN Proceed(shown)
            ELSE IF outcome \in Outages THEN Answered(noted, "unavailable")
            ELSE Proceed(noted)
  BY DEF Settled, Noted, Verdict, Outages, InList
<1> HIDE DEF noted, v, new
<1>6. /\ Shape(shown) /\ SameRequest(shown, rec) /\ shown.stage = "list" /\ shown.answer = None
      /\ shown.queries = Tail(rec.queries) /\ shown.heard = rec.heard \cup {v}
      /\ shown.visible = rec.visible \cup {p}
  BY <1>2, <1>4 DEF Shape, SameRequest
<1> HIDE DEF shown
<1>7. /\ SameRequest(new, rec) /\ new.stage = "list" /\ new.queries = Tail(rec.queries)
      /\ new.heard = rec.heard \cup {v}
      /\ new.visible = IF outcome = None THEN rec.visible \cup {p} ELSE rec.visible
      /\ IF outcome \in Outages THEN new.phase = "done" /\ new.answer = "unavailable"
         ELSE /\ new.phase = IF new.queries # <<>> THEN "decide" ELSE "act"
              /\ new.answer = None
  <2>1. None \notin Outages
    BY DecisionConstants DEF Outages, Reasons
  <2>2. CASE outcome = None
    BY <1>5, <1>6, <2>1, <2>2, Proceeding DEF SameRequest, Proceed, Shape
  <2>3. CASE outcome # None /\ outcome \in Outages
    BY <1>4, <1>5, <2>3, Answering DEF SameRequest, Answered, Shape
  <2>4. CASE outcome # None /\ outcome \notin Outages
    BY <1>4, <1>5, <2>4, Proceeding DEF SameRequest, Proceed, Shape
  <2> QED BY <2>2, <2>3, <2>4
<1>8. outcome = None => central = TRUE
  BY DecisionConstants
<1>9. "UNCONFIGURED" \in Outages
  BY DEF Outages
<1>10. new.visible = rec.visible \cup {o \in {p} : \E h \in {v} : h.central /\ h.outcome = None}
  BY <1>3, <1>7, <1>8
<1>11. \/ new.phase = "done" /\ new.answer \notin {"ok", None}
       \/ /\ new.phase = IF new.queries # <<>> THEN "decide" ELSE "act"
          /\ new.answer = None
          /\ Granted(rec, p) => \E h \in {v} : h.central /\ h.outcome \notin Outages
  <2>1. None # "unavailable"
    BY DecisionConstants DEF Answers
  <2> QED BY <1>3, <1>7, <1>9, <2>1
<1>12. \A h \in {v} : h.scope = ProjectScope(p) /\ Granted(rec, p)
  BY <1>2, <1>3
<1>13. Listed(new)
  BY <1>1, <1>7, <1>10, <1>11, <1>12, ItemDone
<1> QED BY <1>13 DEF new

\* What is granted to an OIDC caller is for the central decision point.
LEMMA ItemOutcome ==
  ASSUME NEW rec, InList(rec), ~OutOfScope(rec)
  PROVE  authorizeGovernedRequest(rec, Head(rec.queries)) \in {"CENTRAL", "UNCONFIGURED"}
<1> DEFINE q == Head(rec.queries)
<1>1. PICK p \in All : q = ItemQuery(p)
  BY Heading
<1>2. /\ q.capability \in rec.projection.capabilities
      /\ securityPreflightProjectionScopeMatches(rec.projection, q.scope)
  <2>1. q.capability = "read_scan"
    BY <1>1, ItemScopes
  <2>2. "read_scan" \in rec.projection.capabilities
    BY Heading
  <2>3. securityPreflightProjectionScopeMatches(rec.projection, q.scope)
    BY DEF OutOfScope, InList
  <2> HIDE DEF q
  <2> QED BY <2>1, <2>2, <2>3
<1>3. rec.context = "oidc" /\ rec.projection # None
  BY DEF InList
<1> HIDE DEF q
<1>4. authorizeGovernedRequest(rec, q) = IF config.decisionUrl THEN "CENTRAL" ELSE "UNCONFIGURED"
  BY <1>2, <1>3 DEF authorizeGovernedRequest
<1> QED BY <1>4 DEF q

LEMMA CentralListed ==
  ASSUME NEW rec, InList(rec), ~OutOfScope(rec)
  PROVE  Listed([rec EXCEPT !.phase = "central"])
<1> DEFINE new == [rec EXCEPT !.phase = "central"]
<1>1. PICK p \in All : Head(rec.queries) = ItemQuery(p)
  BY Heading
<1>2. Granted(rec, p)
  BY <1>1, ItemScopes DEF OutOfScope, Granted, InList
<1>3. /\ new.phase = "central" /\ new.route = rec.route /\ new.context = rec.context
      /\ new.stage = "list" /\ new.projection = rec.projection /\ new.queries = rec.queries
      /\ new.heard = rec.heard /\ new.visible = rec.visible /\ new.answer = None
  BY DEF InList, Shape
<1> HIDE DEF new
<1>4. /\ rec.stage # "hook" /\ rec.route \in Lists /\ rec.context = "oidc" /\ Listed(rec)
      /\ rec.answer = None /\ rec.phase \notin {"act", "done"} /\ rec.phase \in Deciding
  BY DEF InList, Deciding
<1>5. \A o : /\ (Granted(new, o) <=> Granted(rec, o)) /\ (Decided(new, o) <=> Decided(rec, o))
             /\ (Allowed(new, o) <=> Allowed(rec, o))
  BY <1>3 DEF Granted, Decided, Allowed
<1>6. ~Failed(rec) /\ ~Failed(new)
  BY <1>3, <1>4 DEF Failed
<1>7. new.answer # "ok"
  BY <1>3, DecisionConstants DEF Answers
<1>8. Listed(new)
  BY <1>1, <1>2, <1>3, <1>4, <1>5, <1>6, <1>7 DEF Listed, Deciding
<1> QED BY <1>8 DEF new

-----------------------------------------------------------------------------
(* Lists, step by step                                                      *)

LEMMA ListMoved ==
  ASSUME IInv, ListInv, NEW r \in Requests, NEW new, Ends(r, new), Unseen(new), Listed(new)
  PROVE  ListInv'
<1>1. \A s \in Requests : req'[s] = IF s = r THEN new ELSE req[s]
  BY DEF IInv, Ends
<1>2. \A s \in Requests : Unseen(req'[s]) /\ Listed(req'[s])
  BY <1>1 DEF ListInv
<1> QED BY <1>2 DEF ListInv

LEMMA NoList ==
  ASSUME NEW new, new.phase \notin Early, new.route \notin Lists \/ new.context # "oidc"
  PROVE  Unseen(new) /\ Listed(new)
BY DEF Unseen, Listed

\* Nothing has been shown or asked.
LEMMA NothingListed ==
  ASSUME NEW new, new.visible = {}, new.context = "oidc" => new.stage = "hook" /\ new.heard = {},
         new.answer # "ok", new.phase \in Early \cup {"handler", "done"}
  PROVE  Unseen(new) /\ Listed(new)
BY DEF Unseen, Listed

LEMMA KeysList ==
  ASSUME IInv, ListInv, NEW r \in Requests,
         Arrives(r) \/ getJwks(r) \/ KeysAnswered(r) \/ KeysArrive(r) \/ KeysFail(r)
  PROVE  ListInv'
<1> DEFINE rec == req[r]
<1>1. /\ Shape(rec) /\ rec.phase \in Early /\ rec.heard = {} /\ rec.stage = "hook"
      /\ rec.visible = {} /\ rec.answer = None /\ rec.context = None
  BY DEF IInv, Sound, Staged, Identified, ListInv, Unseen, Arrives, getJwks, KeysAnswered,
         KeysArrive, KeysFail, Phase, Early
<1> DEFINE Quiet(new) == /\ new.visible = {} /\ new.stage = "hook" /\ new.heard = {}
                         /\ new.answer # "ok" /\ new.phase \in Early \cup {"handler", "done"}
<1>2. ASSUME NEW new, Ends(r, new), Quiet(new) PROVE ListInv'
  BY <1>2, NothingListed, ListMoved
<1>3. None # "ok"
  BY DecisionConstants DEF Answers
<1>4. CASE Arrives(r)
  <2>1. PICK route \in Offered[r], target \in Projects \cup {None},
           binding \in Bindings \cup {None}, key \in Keys :
          /\ target = None => route \in Global \cup {"ingest"}
          /\ route \in Global => target = None
          /\ route \notin Bound => binding = None
          /\ req' = [req EXCEPT ![r] =
               [@ EXCEPT !.phase = "auth", !.route = route, !.target = target,
                         !.binding = binding, !.key = key]]
    BY <1>4 DEF Arrives
  <2> DEFINE new == [rec EXCEPT !.phase = "auth", !.route = route, !.target = target,
                                !.binding = binding, !.key = key]
  <2>2. Ends(r, new)
    BY <2>1 DEF Ends
  <2> HIDE DEF rec
  <2>3. Quiet(new)
    BY <1>1, <1>3 DEF Shape, Early
  <2> HIDE DEF new, Quiet
  <2> QED BY <1>2, <2>2, <2>3
<1>5. \A keys : Quiet(Verified(rec, keys))
  <2> HIDE DEF rec
  <2> QED BY <1>1, <1>3 DEF Verified, Answered, Shape, Early
<1>6. CASE getJwks(r) \/ KeysAnswered(r) \/ KeysArrive(r) \/ KeysFail(r)
  <2> DEFINE fetching == [rec EXCEPT !.phase = "keys", !.fetched = now]
             fetched == [rec EXCEPT !.phase = "keysAnswered", !.keys = published]
  <2>1. \/ \E keys : Ends(r, Verified(rec, keys))
        \/ Ends(r, fetching) \/ Ends(r, fetched) \/ Ends(r, Answered(rec, "unauthorized"))
    BY <1>6 DEF getJwks, KeysAnswered, KeysArrive, KeysFail, Ends
  <2> HIDE DEF rec
  <2>2. Quiet(fetching) /\ Quiet(fetched) /\ Quiet(Answered(rec, "unauthorized"))
    BY <1>1, <1>3 DEF Shape, Answered, Early
  <2> HIDE DEF fetching, fetched, Quiet
  <2> QED BY <1>2, <1>5, <2>1, <2>2
<1> QED BY <1>4, <1>6

LEMMA IdentityList ==
  ASSUME IInv, ListInv, NEW r \in Requests,
         authenticateSecurityPreflightRequest(r) \/ loadSecurityPreflightAccessProjection(r),
         NEW new, Ends(r, new), new.phase \notin Early, new.route = req[r].route
  PROVE  Unseen(new) /\ Listed(new)
<1> DEFINE rec == req[r]
<1>1. /\ Shape(rec) /\ rec.phase \in Early /\ rec.heard = {} /\ rec.stage = "hook"
      /\ rec.visible = {} /\ rec.answer = None /\ Addressed(rec)
  BY DEF IInv, Sound, Staged, ListInv, Unseen, authenticateSecurityPreflightRequest,
         loadSecurityPreflightAccessProjection, Phase, Early
<1>2. req'[r] = new
  BY DEF Ends, IInv
<1>3. CASE authenticateSecurityPreflightRequest(r)
  <2> DEFINE shared == [rec EXCEPT !.context = "shared-token"]
  <2>1. rec.context = None
    BY <1>3 DEF IInv, Sound, Identified, authenticateSecurityPreflightRequest, Phase
  <2>2. \/ new = Governed(rec) \/ new = Governed(shared)
        \/ new = Answered(rec, "unauthorized") \/ new = Answered(rec, "no-identity-config")
    BY <1>2, <1>3 DEF authenticateSecurityPreflightRequest, IInv
  <2> HIDE DEF rec
  <2>3. Shape(shared) /\ shared.context = "shared-token"
    BY <1>1 DEF Shape
  <2> HIDE DEF shared
  <2>4. ASSUME NEW x, Shape(x) PROVE Governed(x).context = x.context
    <3> DEFINE queries == governedOperation(x)
               asked == [x EXCEPT !.queries = queries]
    <3>1. Governed(x) \in {Answered(x, "forbidden"), Proceed(asked)}
      BY DEF Governed
    <3> HIDE DEF queries
    <3>2. Shape(asked) /\ asked.context = x.context
      BY <2>4 DEF Shape
    <3> HIDE DEF asked
    <3> QED BY <2>4, <3>1, <3>2, Answering, Proceeding DEF SameRequest
  <2>5. new.context \in {None, "shared-token"}
    BY <1>1, <2>1, <2>2, <2>3, <2>4, Answering DEF SameRequest
  <2> QED BY <2>5, DecisionConstants, NoList
<1>4. CASE loadSecurityPreflightAccessProjection(r) /\ rec.route \in Lists
  <2> DEFINE verified == [rec EXCEPT !.fetched = None, !.judged = 0]
             with(p) == [verified EXCEPT !.projection = p]
  <2>1. \/ \E a \in {"no-governance-config", "forbidden", "unavailable"} :
             new = Answered(verified, a)
        \/ \E p : new = Governed(with(p))
    BY <1>2, <1>4 DEF loadSecurityPreflightAccessProjection, IInv
  <2> HIDE DEF rec
  <2>2. /\ Shape(verified) /\ verified.heard = {} /\ verified.stage = "hook"
        /\ verified.visible = {} /\ verified.answer = None /\ verified.queries = rec.queries
    BY <1>1 DEF Shape
  <2>3. \A p : /\ Shape(with(p)) /\ with(p).heard = {} /\ with(p).stage = "hook"
               /\ with(p).visible = {} /\ with(p).answer = None
               /\ with(p).route = rec.route /\ with(p).target = rec.target
    BY <1>1 DEF Shape
  <2> HIDE DEF verified, with
  <2>4. ASSUME NEW a \in {"no-governance-config", "forbidden", "unavailable"},
               new = Answered(verified, a)
        PROVE  /\ new.visible = {} /\ new.stage = "hook" /\ new.heard = {}
               /\ new.answer # "ok" /\ new.phase \in Early \cup {"handler", "done"}
    BY <2>2, <2>4 DEF Answered, Shape
  <2>5. ASSUME NEW p, new = Governed(with(p))
        PROVE  /\ new.visible = {} /\ new.stage = "hook" /\ new.heard = {}
               /\ new.answer # "ok" /\ new.phase \in Early \cup {"handler", "done"}
    <3> DEFINE x == with(p)
               asked == [x EXCEPT !.queries = <<>>]
    <3>1. Addressed(x) /\ x.route \notin HookRoutes
      BY <1>1, <1>4, <2>3 DEF Addressed, HookRoutes, Lists
    <3> HIDE DEF x
    <3>2. governedOperation(x) = <<>>
      BY <3>1, Hooked
    <3>3. Governed(x) = Proceed(asked)
      BY <3>2 DEF Governed
    <3>4. /\ asked.queries = <<>> /\ asked.stage = "hook" /\ asked.visible = {}
          /\ asked.heard = {} /\ asked.answer = None /\ Shape(asked)
      BY <2>3 DEF Shape, x
    <3> HIDE DEF asked
    <3>5. None # "ok"
      BY DecisionConstants DEF Answers
    <3>6. new = Proceed(asked)
      BY <2>5, <3>3 DEF x
    <3> QED BY <3>4, <3>5, <3>6 DEF Proceed, Shape
  <2> QED BY <2>1, <2>4, <2>5, NothingListed
<1>5. CASE rec.route \notin Lists
  BY <1>5, NoList
<1> QED BY <1>3, <1>4, <1>5

LEMMA CollectionListed ==
  ASSUME NEW rec, Shape(rec), rec.route \in Lists, rec.context = "oidc", rec.phase = "handler",
         rec.stage = "hook", rec.visible = {}, rec.heard = {}, rec.answer = None
  PROVE  LET new == filterProjectScopedCollection(rec) IN Unseen(new) /\ Listed(new)
<1> DEFINE qs == [n \in DOMAIN Stored |-> ItemQuery(Stored[n])]
           listed == [rec EXCEPT !.stage = "list", !.queries = qs]
           new == filterProjectScopedCollection(rec)
<1>1. \/ new = Answered(rec, "forbidden")
      \/ new = Proceed(listed) /\ "read_scan" \in rec.projection.capabilities
  BY DecisionConstants DEF filterProjectScopedCollection
<1>2. CASE new = Answered(rec, "forbidden")
  <2> HIDE DEF new
  <2>1. /\ new.visible = {} /\ new.stage = "hook" /\ new.heard = {} /\ new.answer # "ok"
        /\ new.phase = "done"
    BY <1>2 DEF Answered, Shape
  <2> QED BY <2>1, NothingListed DEF new
<1>3. CASE new = Proceed(listed) /\ "read_scan" \in rec.projection.capabilities
  <2>1. /\ qs \in Seq({ItemQuery(p) : p \in All})
        /\ \A p \in All : \E n \in DOMAIN qs : qs[n] = ItemQuery(p)
    <3>1. Stored \in Seq(Projects) /\ Len(Stored) \in Nat /\ DOMAIN Stored = 1 .. Len(Stored)
      BY GovernanceConstants
    <3>2. \A n \in 1 .. Len(Stored) : qs[n] \in {ItemQuery(p) : p \in All}
      BY <3>1 DEF All
    <3>3. qs \in Seq({ItemQuery(p) : p \in All})
      <4> DEFINE S == {ItemQuery(p) : p \in All}
                 m == Len(Stored)
      <4>1. qs = [n \in 1 .. m |-> qs[n]]
        BY <3>1
      <4>2. m \in Nat /\ \A n \in 1 .. m : qs[n] \in S
        BY <3>1, <3>2
      <4> HIDE DEF qs, S, m
      <4> QED BY <4>1, <4>2, SeqDef DEF S
    <3> QED BY <3>3 DEF All
  <2> HIDE DEF qs, new
  <2>2. /\ Shape(listed) /\ listed.stage = "list" /\ listed.queries = qs
        /\ listed.visible = {} /\ listed.heard = {} /\ listed.answer = None
        /\ listed.route = rec.route /\ listed.context = "oidc"
        /\ listed.projection = rec.projection
    BY DEF Shape
  <2> HIDE DEF listed
  <2>3. /\ new.stage = "list" /\ new.queries = qs /\ new.visible = {} /\ new.heard = {}
        /\ new.answer = None /\ new.route \in Lists /\ new.context = "oidc"
        /\ new.projection = rec.projection
        /\ new.phase = IF qs # <<>> THEN "decide" ELSE "act"
    BY <1>3, <2>2 DEF Proceed, Shape
  <2>4. None # "ok"
    BY DecisionConstants DEF Answers
  <2> QED BY <1>3, <2>1, <2>3, <2>4 DEF Unseen, Listed, Early, Deciding, Allowed, new
<1> QED BY <1>1, <1>2, <1>3

LEMMA OnwardList ==
  ASSUME IInv, ListInv, NEW r \in Requests, Onward(r),
         NEW new, Ends(r, new), new.phase \notin Early, new.route = req[r].route
  PROVE  Unseen(new) /\ Listed(new)
<1> DEFINE rec == req[r]
<1>1. Sound(config, rec) /\ Unseen(rec) /\ Listed(rec) /\ req'[r] = new
  BY DEF IInv, ListInv, Ends
<1>2. CASE rec.route \notin Lists
  BY <1>2, NoList
<1>3. CASE authenticateSecurityPreflightRequest(r) \/ loadSecurityPreflightAccessProjection(r)
  BY <1>3, IdentityList
<1>4. ASSUME rec.phase \in Deciding \cup {"handler", "act"}, rec.context # "oidc",
             SameRequest(new, rec)
      PROVE  Unseen(new) /\ Listed(new)
  BY <1>4, NoList DEF SameRequest
<1>5. CASE Handle(r) /\ rec.route \in Lists
  <2>1. /\ rec.phase = "handler" /\ new \in {Answered(rec, "rejected"), filterProjectScopedCollection(rec)}
    BY <1>1, <1>5 DEF Handle, ServeProcess, ServeProject, ServeCollection, ReadRun, ReadProgress,
         ReadReport, TriageFinding, ExportReport, ExportRemediation, AskRun, PlanScan,
         QueueScan, Ingest, Handles, Phase, Lists, IInv
  <2>2. rec.stage = "hook" /\ rec.answer = None /\ Shape(rec)
    BY <1>1, <2>1 DEF Sound, Staged
  <2> HIDE DEF rec
  <2>3. CASE rec.context = "oidc"
    <3>1. rec.visible = {} /\ rec.heard = {}
      BY <1>1, <1>5, <2>2, <2>3 DEF Listed
    <3>2. CASE new = Answered(rec, "rejected")
      <4>1. /\ new.visible = {} /\ new.stage = "hook" /\ new.heard = {} /\ new.answer # "ok"
            /\ new.phase = "done"
        BY <2>2, <3>1, <3>2 DEF Answered, Shape
      <4> QED BY <4>1, NothingListed
    <3>3. CASE new = filterProjectScopedCollection(rec)
      BY <1>5, <2>1, <2>2, <2>3, <3>1, <3>3, CollectionListed
    <3> QED BY <2>1, <3>2, <3>3
  <2>4. CASE rec.context # "oidc"
    <3> DEFINE q == <<Query("read_scan", "access", OrganizationScope, None, FALSE)>>
               whole == [rec EXCEPT !.visible = All]
               asked == [rec EXCEPT !.stage = "handler", !.queries = q]
    <3>1. new \in {Answered(rec, "rejected"), Answered(whole, "ok"), Proceed(asked)}
      BY <2>1, <2>4 DEF filterProjectScopedCollection, Asking
    <3> HIDE DEF q
    <3>2. Shape(whole) /\ SameRequest(whole, rec) /\ Shape(asked) /\ SameRequest(asked, rec)
      BY <2>2 DEF Shape, SameRequest
    <3> HIDE DEF whole, asked
    <3>3. SameRequest(new, rec)
      BY <2>2, <3>1, <3>2, Answering, Proceeding DEF SameRequest
    <3> QED BY <1>4, <2>1, <2>4, <3>3 DEF rec
  <2> QED BY <2>3, <2>4
<1>6. CASE (LeaveOut(r) \/ Decide(r) \/ CentralAnswers(r) \/ CentralFails(r)) /\ rec.route \in Lists
  <2> DEFINE q == Head(rec.queries)
             outcome == authorizeGovernedRequest(rec, q)
             central == [rec EXCEPT !.phase = "central"]
  <2>1. /\ rec.phase \in Deciding
        /\ \/ rec.phase = "decide" /\ OutOfScope(rec) /\ new = LeftOut(rec)
           \/ rec.phase = "decide" /\ ~OutOfScope(rec) /\ outcome = "CENTRAL" /\ new = central
           \/ rec.phase = "decide" /\ ~OutOfScope(rec) /\ outcome # "CENTRAL"
                /\ new = Settled(rec, outcome, FALSE)
           \/ rec.phase = "central" /\ \E o : new = Settled(rec, o, TRUE)
    BY <1>1, <1>6 DEF LeaveOut, Decide, CentralAnswers, CentralFails, Phase, Deciding, IInv
  <2>2. /\ Shape(rec) /\ rec.queries # <<>> /\ rec.answer = None
    BY <1>1, <2>1 DEF Sound, Staged, Deciding
  <2> HIDE DEF rec
  <2>3. CASE rec.context = "oidc"
    <3>1. rec.stage = "list" /\ rec.projection # None
      BY <1>1, <1>6, <2>1, <2>3, DecisionConstants DEF Listed, Deciding, Early, Sound, Identified, Past
    <3>2. InList(rec)
      BY <1>1, <1>6, <2>1, <2>2, <2>3, <3>1 DEF InList
    <3>3. rec.phase = "central" => ~OutOfScope(rec)
      <4> SUFFICES ASSUME rec.phase = "central" PROVE ~OutOfScope(rec)
        OBVIOUS
      <4>1. PICK p \in All : Head(rec.queries) = ItemQuery(p) /\ Granted(rec, p)
        BY <1>1, <1>6, <2>3, <3>1 DEF Listed
      <4> QED BY <4>1, ItemScopes DEF OutOfScope, Granted
    <3>4. Listed(new)
      <4>1. CASE OutOfScope(rec) /\ new = LeftOut(rec)
        BY <3>2, <4>1, LeftOutListed
      <4>2. CASE ~OutOfScope(rec) /\ new = central
        BY <3>2, <4>2, CentralListed
      <4>3. CASE ~OutOfScope(rec) /\ outcome # "CENTRAL" /\ new = Settled(rec, outcome, FALSE)
        BY <3>2, <4>3, ItemOutcome, SettledListed
      <4>4. CASE rec.phase = "central" /\ \E o : new = Settled(rec, o, TRUE)
        BY <3>2, <3>3, <4>4, SettledListed
      <4> QED BY <2>1, <4>1, <4>2, <4>3, <4>4
    <3> QED BY <3>4 DEF Unseen
  <2>4. CASE rec.context # "oidc"
    <3>1. SameRequest(new, rec)
      <4>1. SameRequest(LeftOut(rec), rec)
        <5> DEFINE rest == [rec EXCEPT !.queries = Tail(@)]
        <5>1. Shape(rest) /\ SameRequest(rest, rec) /\ LeftOut(rec) = Proceed(rest)
          BY <2>2 DEF Shape, SameRequest, LeftOut
        <5> HIDE DEF rest
        <5> QED BY <5>1, Proceeding DEF SameRequest
      <4>2. SameRequest(central, rec)
        BY <2>2 DEF Shape, SameRequest
      <4>3. ASSUME NEW o, NEW c PROVE SameRequest(Settled(rec, o, c), rec)
        <5> DEFINE noted == Noted(rec, o, c)
                   shown == [noted EXCEPT !.visible = @ \cup {Head(rec.queries).scope.id}]
        <5>1. Settled(rec, o, c) \in {Answered(noted, "denied"), Answered(noted, "unavailable"),
                                     Proceed(noted), Proceed(shown)}
          BY DEF Settled, Noted, Verdict
        <5>2. Shape(noted) /\ SameRequest(noted, rec)
          BY <2>2, Noting
        <5> HIDE DEF noted
        <5>3. Shape(shown) /\ SameRequest(shown, rec)
          BY <5>2 DEF Shape, SameRequest
        <5> HIDE DEF shown
        <5> QED BY <5>1, <5>2, <5>3, Answering, Proceeding DEF SameRequest
      <4> HIDE DEF central
      <4> QED BY <2>1, <4>1, <4>2, <4>3
    <3> QED BY <1>4, <2>1, <2>4, <3>1 DEF rec
  <2> QED BY <2>3, <2>4
<1>7. CASE Act(r) /\ rec.route \in Lists
  <2> DEFINE pre == Shown(rec)
  <2>1. rec.phase = "act" /\ new = Answered(pre, "ok")
    BY <1>1, <1>7 DEF Act, Phase, IInv
  <2>2. Shape(rec)
    BY <1>1 DEF Sound
  <2> HIDE DEF rec
  <2>3. Shape(pre) /\ SameRequest(pre, rec)
    BY <2>2 DEF Shown, Shape, SameRequest
  <2>4. SameRequest(new, rec)
    BY <2>1, <2>3, Answering DEF SameRequest
  <2>5. CASE rec.context # "oidc"
    BY <1>4, <2>1, <2>4, <2>5 DEF rec
  <2>6. CASE rec.context = "oidc"
    <3>1. rec.stage = "list" /\ rec.queries = <<>>
      BY <1>1, <1>7, <2>1, <2>6 DEF Listed, Early
    <3>2. new = Answered(rec, "ok")
      BY <2>1, <3>1 DEF Shown
    <3>3. /\ new.phase = "done" /\ new.route = rec.route /\ new.context = "oidc"
          /\ new.stage = "list" /\ new.projection = rec.projection /\ new.queries = <<>>
          /\ new.heard = rec.heard /\ new.visible = rec.visible /\ new.answer = "ok"
      BY <2>2, <2>6, <3>1, <3>2 DEF Answered, Shape
    <3>4. \A o : /\ (Granted(new, o) <=> Granted(rec, o)) /\ (Decided(new, o) <=> Decided(rec, o))
                 /\ (Allowed(new, o) <=> Allowed(rec, o))
      BY <3>3 DEF Granted, Decided, Allowed
    <3>5. ~Failed(rec)
      BY <2>1 DEF Failed
    <3>6. Listed(new)
      BY <1>1, <1>7, <2>6, <3>1, <3>3, <3>4, <3>5 DEF Listed
    <3> QED BY <3>3, <3>6 DEF Unseen, Early
  <2> QED BY <2>5, <2>6
<1>8. CASE (askAkb(r) \/ AkbAnswers(r)) /\ rec.route \in Lists
  BY <1>1, <1>8 DEF askAkb, AkbAnswers, Phase, Sound, Staged, Lists
<1> QED BY <1>2, <1>3, <1>5, <1>6, <1>7, <1>8 DEF Onward

LEMMA InitList == Init => ListInv
<1> SUFFICES ASSUME Init, NEW r \in Requests PROVE Unseen(req[r]) /\ Listed(req[r])
  BY DEF ListInv
<1>1. /\ req[r].visible = {} /\ req[r].stage = "hook" /\ req[r].heard = {}
      /\ req[r].answer = None /\ req[r].phase = "idle"
  BY DEF Init, Fresh
<1>2. None # "ok"
  BY DecisionConstants DEF Answers
<1> QED BY <1>1, <1>2, NothingListed DEF Early

LEMMA StepList == IInv /\ AnswersInv /\ ListInv /\ [Next]_vars => ListInv'
<1> SUFFICES ASSUME IInv, AnswersInv, ListInv, [Next]_vars PROVE ListInv'
  OBVIOUS
<1>1. ASSUME NEW r \in Requests, Onward(r) PROVE ListInv'
  <2>1. PICK new : Ends(r, new) /\ Ahead(config, req[r], new)
    BY <1>1, StepAhead
  <2>2. Unseen(new) /\ Listed(new)
    BY <1>1, <2>1, OnwardList DEF Ahead
  <2> QED BY <2>1, <2>2, ListMoved
<1>2. ASSUME NEW r \in Requests, Serve(r) PROVE ListInv'
  BY <1>1, <1>2, KeysList DEF Serve, Onward
<1>3. ASSUME req' = req PROVE ListInv'
  BY <1>3 DEF ListInv
<1> QED BY <1>2, <1>3 DEF Next, Tick, Rotate, vars

\* How far a list has come: every item in the caller's scopes is decided or
\* still to be, and what is shown so far is what was allowed (the loop of
\* filterProjectScopedCollection).
THEOREM ListInvariant == Spec => []ListInv
<1> QED BY GovernanceInvariant, AnswersInvariant, InitList, StepList, PTL DEF Spec

\* A list that is answered under OIDC went through every stored item: each one
\* in the caller's scopes got a central verdict and is shown exactly if that
\* was an ALLOW, whatever fails between two items.
THEOREM ExactLists == Spec => []ListsAreExact
<1>1. ListInv => ListsAreExact
  <2> SUFFICES ASSUME ListInv, NEW r \in Requests, req[r].context = "oidc",
                      req[r].route \in Lists, req[r].answer = "ok", NEW p \in All
               PROVE  LET rec == req[r]
                          about == {h \in rec.heard : h.scope = ProjectScope(p)}
                      IN IF securityPreflightProjectionScopeMatches(rec.projection, ProjectScope(p))
                         THEN /\ \E h \in about : h.central
                                   /\ h.outcome \notin {"POLICY_UNAVAILABLE", "UNCONFIGURED"}
                              /\ p \in rec.visible <=> \E h \in about : h.central /\ h.outcome = None
                         ELSE p \notin rec.visible
    BY DEF ListsAreExact
  <2> DEFINE rec == req[r]
  <2>1. Listed(rec)
    BY DEF ListInv
  <2> HIDE DEF rec
  <2>2. rec.stage # "hook"
    BY <2>1 DEF Listed, rec
  <2>3. /\ rec.queries = <<>>
        /\ \A h \in rec.heard : \E o \in All : h.scope = ProjectScope(o) /\ Granted(rec, o)
        /\ Granted(rec, p) =>
             \/ Decided(rec, p) \/ Failed(rec)
             \/ \E n \in DOMAIN rec.queries : rec.queries[n] = ItemQuery(p)
        /\ p \in rec.visible <=> Allowed(rec, p)
    BY <2>1, <2>2 DEF Listed, rec
  <2>4. ~Failed(rec)
    BY DEF Failed, rec
  <2>5. Granted(rec, p) => Decided(rec, p)
    BY <2>3, <2>4
  <2>6. ~Granted(rec, p) => ~Allowed(rec, p)
    BY <2>3, ItemScopes DEF Allowed
  <2> QED BY <2>3, <2>5, <2>6 DEF Granted, Decided, Allowed, Outages, rec
<1> QED BY <1>1, ListInvariant, PTL

=============================================================================
