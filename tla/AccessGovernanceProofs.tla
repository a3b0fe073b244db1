----------------------- MODULE AccessGovernanceProofs -----------------------
(***************************************************************************)
(* Proofs about AccessGovernance for any number of requests, keys,         *)
(* configurations and answers. The invariant is a predicate on one         *)
(* request, Sound, because a request changes no other: it says where the   *)
(* request is (Staged), who asks (Identified), who decided what (Judged),  *)
(* which of the route's demands was allowed, is asked for or is still the  *)
(* handler's to ask (Owed), and under which label it goes out (Labelled).  *)
(***************************************************************************)
EXTENDS AccessGovernance, SequenceTheorems, TLAPS

-----------------------------------------------------------------------------
(* The invariant                                                            *)

\* A request has the fields of Fresh and no others.
Shape(rec) ==
  rec \in [phase : {rec.phase}, stage : {rec.stage}, context : {rec.context},
           route : {rec.route}, target : {rec.target}, binding : {rec.binding},
           key : {rec.key}, fetched : {rec.fetched}, keys : {rec.keys},
           verdict : {rec.verdict}, judged : {rec.judged},
           projection : {rec.projection}, queries : {rec.queries},
           visible : {rec.visible}, heard : {rec.heard}, sent : {rec.sent},
           answer : {rec.answer}]

Early == {"idle", "auth", "keys", "keysAnswered", "projection"}
Deciding == {"decide", "central"}

\* The routes whose decision is made before the handler.
HookRoutes ==
  {"profiles", "ingest", "project.create", "project.write", "audit", "project.read"}

IsQuery(q) ==
  q \in [capability : {q.capability}, operation : {q.operation}, scope : {q.scope},
         binding : {q.binding}, cyber : {q.cyber}]

\* At most two decisions are asked for, lists apart.
Short(qs) ==
  \/ qs = <<>>
  \/ \E q : IsQuery(q) /\ qs = <<q>>
  \/ \E p, q : IsQuery(p) /\ IsQuery(q) /\ qs = <<p, q>>

\* A request without a project is one about the organization.
Addressed(rec) == rec.target = None => rec.route \in Global \cup {"ingest"}

\* Where a request is in its life.
Staged(rec) ==
  /\ rec.phase \in Phases /\ rec.stage \in {"hook", "handler", "list"}
  /\ rec.phase \in Early => rec.heard = {} /\ rec.queries = <<>> /\ rec.stage = "hook"
  /\ rec.phase = "handler" => rec.queries = <<>> /\ rec.stage = "hook"
  /\ rec.phase # "done" => rec.answer = None
  /\ rec.sent \in BOOLEAN
  /\ rec.sent => rec.route = "ask" /\ rec.phase \in {"akb", "done"}
  /\ rec.phase \in {"act", "akb"} \/ Effective(rec) =>
       rec.stage # "hook" \/ rec.route \in Lists
  /\ rec.stage = "list" => rec.route \in Lists /\ rec.context = "oidc"
  /\ rec.stage # "list" => Short(rec.queries)
  /\ rec.phase \in Deciding =>
       rec.queries # <<>> /\ (rec.stage # "hook" => rec.route \notin HookRoutes)
  /\ rec.phase = "akb" => rec.route = "ask"
  /\ rec.phase # "idle" => Addressed(rec)

Past(rec) == rec.phase \in {"decide", "central", "handler", "act", "akb"} \/ Effective(rec)

\* Who is asking is known before anything is decided.
Identified(c, rec) ==
  /\ rec.phase \in {"idle", "auth", "keys", "keysAnswered"} => rec.context = None
  /\ rec.phase = "projection" =>
       rec.context = "oidc" /\ rec.verdict = "accepted" /\ Mode(c) = "oidc"
  /\ rec.phase \in {"keys", "keysAnswered"} => Mode(c) = "oidc"
  /\ Past(rec) \/ rec.heard # {} =>
       \/ rec.context = None /\ Mode(c) = "disabled"
       \/ rec.context = "shared-token" /\ Mode(c) = "shared-token"
       \/ /\ rec.context = "oidc" /\ Mode(c) = "oidc"
          /\ rec.verdict = "accepted" /\ rec.projection # None

\* What was decided by whom.
Judged(c, rec) ==
  /\ \A h \in rec.heard :
       /\ h.central => rec.context = "oidc" /\ h.capability \in rec.projection.capabilities
       /\ h.outcome = None /\ ~h.central =>
            rec.context # "oidc" /\ localGovernanceBypassAllowed(c, rec.context)
  /\ rec.phase = "central" =>
       rec.context = "oidc" /\ Head(rec.queries).capability \in rec.projection.capabilities

Met(d, h) ==
  /\ h.central /\ h.outcome = None /\ h.capability = d.capability
  /\ d.scope \in {None, h.scope}
Wanted(d, q) == q.capability = d.capability /\ d.scope \in {None, q.scope}

\* What the route demands was allowed, is asked for, or will be by the handler.
Owed(rec) ==
  Past(rec) /\ rec.context = "oidc" =>
    \A d \in Demand(rec) :
      \/ \E h \in rec.heard : Met(d, h)
      \/ /\ rec.phase \in Deciding
         /\ \E n \in DOMAIN rec.queries : Wanted(d, rec.queries[n])
      \/ /\ rec.phase \in {"decide", "central", "handler"} /\ rec.stage = "hook"
         /\ rec.route \notin HookRoutes

Outward(rec, q) == q.cyber = TRUE /\ q.operation \in OutwardOperations /\ q.binding = rec.binding

\* What goes out has a label, or the query that asks for one is still to come.
Labelled(rec) ==
  /\ /\ rec.route \in {"export", "remediation", "ask", "queue.external"}
     /\ Past(rec) /\ rec.stage # "hook"
     => /\ rec.binding # None /\ rec.binding.registered
        /\ \/ rec.binding.pap # None
           \/ /\ rec.phase \in Deciding
              /\ \E n \in DOMAIN rec.queries : Outward(rec, rec.queries[n])
  /\ rec.route = "ingest" /\ (rec.phase = "act" \/ Effective(rec)) =>
       rec.binding # None /\ rec.binding.registered /\ rec.binding.pap # None

Sound(c, rec) ==
  /\ Shape(rec) /\ Staged(rec) /\ Identified(c, rec) /\ Judged(c, rec)
  /\ Owed(rec) /\ Labelled(rec)

IInv == req = [r \in Requests |-> req[r]] /\ \A r \in Requests : Sound(config, req[r])

-----------------------------------------------------------------------------
(* The local table                                                          *)

\* A set of the first eleven numbers has a least element.
LEMMA LeastTest ==
  ASSUME NEW D \in SUBSET (1..11), NEW k \in D
  PROVE  \E n \in D : \A m \in D : n <= m
<1>1. CASE D \cap (1..5) # {}
  <2>1. CASE 1 \in D
    BY <2>1
  <2>2. CASE 1 \notin D /\ 2 \in D
    BY <2>2
  <2>3. CASE D \cap (1..2) = {} /\ 3 \in D
    BY <2>3
  <2>4. CASE D \cap (1..3) = {} /\ 4 \in D
    BY <2>4
  <2>5. CASE D \cap (1..4) = {} /\ 5 \in D
    BY <2>5
  <2> QED BY <1>1, <2>1, <2>2, <2>3, <2>4, <2>5
<1>2. CASE D \cap (1..5) = {}
  <2>1. CASE 6 \in D
    BY <1>2, <2>1
  <2>2. CASE 6 \notin D /\ 7 \in D
    BY <1>2, <2>2
  <2>3. CASE D \cap (6..7) = {} /\ 8 \in D
    BY <1>2, <2>3
  <2>4. CASE D \cap (6..8) = {} /\ 9 \in D
    BY <1>2, <2>4
  <2>5. CASE D \cap (6..9) = {} /\ 10 \in D
    BY <1>2, <2>5
  <2>6. CASE D \subseteq {11}
    BY <2>6
  <2> QED BY <1>2, <2>1, <2>2, <2>3, <2>4, <2>5, <2>6
<1> QED BY <1>1, <1>2

\* The table denies with one of its reasons, and always when a label is missing.
LEMMA Tested ==
  ASSUME NEW b, NEW operation, NEW cyber
  PROVE  /\ FirstReason(BindingTests(b, operation, cyber)) \in Reasons \cup {None}
         /\ cyber = TRUE /\ operation \in OutwardOperations /\ b.pap = None =>
              FirstReason(BindingTests(b, operation, cyber)) \in Reasons
<1> DEFINE tests == BindingTests(b, operation, cyber)
           denying == {n \in DOMAIN tests : tests[n][1]}
<1>1. DOMAIN tests = 1..11
  BY DEF BindingTests
<1>2. \A n \in 1..11 : tests[n][2] \in Reasons
  <2>1. /\ tests[1][2] \in Reasons /\ tests[2][2] \in Reasons /\ tests[3][2] \in Reasons
        /\ tests[4][2] \in Reasons /\ tests[5][2] \in Reasons /\ tests[6][2] \in Reasons
        /\ tests[7][2] \in Reasons /\ tests[8][2] \in Reasons /\ tests[9][2] \in Reasons
        /\ tests[10][2] \in Reasons /\ tests[11][2] \in Reasons
    BY DEF BindingTests, Reasons
  <2> HIDE DEF tests
  <2> QED BY <2>1
<1>3. cyber = TRUE /\ operation \in OutwardOperations /\ b.pap = None => tests[11][1]
  BY DEF BindingTests
<1> HIDE DEF tests
<1>4. ASSUME NEW k \in denying PROVE FirstReason(tests) \in Reasons
  <2>1. denying \subseteq 1..11
    BY <1>1
  <2> HIDE DEF denying
  <2>2. PICK first \in denying : \A m \in denying : first <= m
    BY <1>4, <2>1, LeastTest
  <2>3. (CHOOSE n \in denying : \A m \in denying : n <= m) \in 1..11
    BY <2>1, <2>2
  <2>4. FirstReason(tests) = tests[CHOOSE n \in denying : \A m \in denying : n <= m][2]
    BY <1>4 DEF FirstReason, denying
  <2> QED BY <1>2, <2>3, <2>4
<1>5. denying = {} => FirstReason(tests) = None
  BY DEF FirstReason
<1>6. cyber = TRUE /\ operation \in OutwardOperations /\ b.pap = None => denying # {}
  BY <1>1, <1>3
<1> QED BY <1>4, <1>5, <1>6 DEF tests

LEMMA PolicyReasons ==
  ASSUME NEW access \in BOOLEAN, NEW capability \in BOOLEAN, NEW matches \in BOOLEAN, NEW q
  PROVE  /\ decidePolicy(access, capability, matches, q) \in Reasons \cup {None}
         /\ ~(access /\ capability /\ matches) =>
              decidePolicy(access, capability, matches, q) \in Reasons
BY Tested DEF decidePolicy, Reasons

\* Cyber information does not leave under a binding without a label.
LEMMA PapAsked ==
  ASSUME NEW q, q.cyber = TRUE, q.operation \in OutwardOperations,
         q.binding # None, q.binding.pap = None
  PROVE  decidePolicy(TRUE, TRUE, TRUE, q) # None
BY Tested, DecisionConstants DEF decidePolicy

-----------------------------------------------------------------------------
(* Queries                                                                  *)

\* The rest of the queries after the first has been decided.
LEMMA Popped ==
  ASSUME NEW qs, Short(qs), qs # <<>>
  PROVE  /\ Short(Tail(qs))
         /\ \A n \in DOMAIN qs :
              qs[n] = Head(qs) \/ \E m \in DOMAIN Tail(qs) : qs[n] = Tail(qs)[m]
         /\ IsQuery(Head(qs))
<1>1. CASE \E q : IsQuery(q) /\ qs = <<q>>
  <2>1. PICK q : IsQuery(q) /\ qs = <<q>>
    BY <1>1
  <2>2. Tail(<<q>>) = <<>> /\ Head(<<q>>) = q
    OBVIOUS
  <2>3. \A n \in DOMAIN <<q>> : <<q>>[n] = q
    OBVIOUS
  <2> QED BY <2>1, <2>2, <2>3 DEF Short
<1>2. CASE \E p, q : IsQuery(p) /\ IsQuery(q) /\ qs = <<p, q>>
  <2>1. PICK p, q : IsQuery(p) /\ IsQuery(q) /\ qs = <<p, q>>
    BY <1>2
  <2>2. Tail(<<p, q>>) = <<q>> /\ Head(<<p, q>>) = p
    OBVIOUS
  <2>3. \A n \in DOMAIN <<p, q>> : <<p, q>>[n] = p \/ <<p, q>>[n] = q
    OBVIOUS
  <2>4. 1 \in DOMAIN <<q>> /\ <<q>>[1] = q
    OBVIOUS
  <2> QED BY <2>1, <2>2, <2>3, <2>4 DEF Short
<1> QED BY <1>1, <1>2 DEF Short

-----------------------------------------------------------------------------
(* Steps of a request                                                       *)

\* What a step in the handlers never changes.
SameRequest(new, rec) ==
  /\ new.context = rec.context /\ new.route = rec.route /\ new.target = rec.target
  /\ new.binding = rec.binding /\ new.verdict = rec.verdict
  /\ new.projection = rec.projection

LEMMA Answering ==
  ASSUME NEW rec, Shape(rec), NEW a
  PROVE  /\ Shape(Answered(rec, a)) /\ SameRequest(Answered(rec, a), rec)
         /\ Answered(rec, a).phase = "done" /\ Answered(rec, a).answer = a
         /\ Answered(rec, a).heard = rec.heard /\ Answered(rec, a).queries = rec.queries
         /\ Answered(rec, a).stage = rec.stage /\ Answered(rec, a).sent = rec.sent
BY DEF Shape, Answered, SameRequest

LEMMA Proceeding ==
  ASSUME NEW rec, Shape(rec)
  PROVE  /\ Shape(Proceed(rec)) /\ SameRequest(Proceed(rec), rec)
         /\ Proceed(rec).phase = IF rec.queries # <<>> THEN "decide"
                                 ELSE IF rec.stage = "hook" THEN "handler" ELSE "act"
         /\ Proceed(rec).answer = rec.answer /\ Proceed(rec).sent = rec.sent
         /\ Proceed(rec).heard = rec.heard /\ Proceed(rec).queries = rec.queries
         /\ Proceed(rec).stage = rec.stage
BY DEF Shape, Proceed, SameRequest

\* A request that ends without effect keeps the invariant.
LEMMA EndsSound ==
  ASSUME NEW c, NEW rec, Sound(c, rec), rec.phase \notin {"idle", "done"}, ~rec.sent,
         NEW a, a \notin {"ok", "no-answer"}
  PROVE  Sound(c, Answered(rec, a))
<1> DEFINE new == Answered(rec, a)
<1>1. /\ Shape(new) /\ SameRequest(new, rec) /\ new.phase = "done" /\ new.answer = a
      /\ new.heard = rec.heard /\ new.queries = rec.queries
      /\ new.stage = rec.stage /\ new.sent = rec.sent
  BY Answering DEF Sound
<1> HIDE DEF new
<1>2. ~Effective(new) /\ ~Past(new)
  BY <1>1 DEF Effective, Past
<1>3. Staged(new)
  BY <1>1, <1>2 DEF Sound, Staged, SameRequest, Phases, Early, Deciding, Addressed
<1>4. Identified(c, new)
  BY <1>1, <1>2 DEF Sound, Identified, SameRequest
<1>5. Judged(c, new)
  BY <1>1 DEF Sound, Judged, SameRequest
<1>6. Owed(new) /\ Labelled(new)
  BY <1>1, <1>2 DEF Owed, Labelled
<1> QED BY <1>1, <1>3, <1>4, <1>5, <1>6 DEF Sound, new

\* What is noted of a decision.
Verdict(rec, outcome, central) ==
  [capability |-> Head(rec.queries).capability, scope |-> Head(rec.queries).scope,
   outcome |-> outcome, central |-> central]
Noted(rec, outcome, central) ==
  [rec EXCEPT !.queries = Tail(@), !.heard = @ \cup {Verdict(rec, outcome, central)}]

LEMMA Noting ==
  ASSUME NEW rec, Shape(rec), NEW outcome, NEW central
  PROVE  /\ Shape(Noted(rec, outcome, central))
         /\ SameRequest(Noted(rec, outcome, central), rec)
         /\ Noted(rec, outcome, central).phase = rec.phase
         /\ Noted(rec, outcome, central).stage = rec.stage
         /\ Noted(rec, outcome, central).answer = rec.answer
         /\ Noted(rec, outcome, central).sent = rec.sent
         /\ Noted(rec, outcome, central).visible = rec.visible
         /\ Noted(rec, outcome, central).queries = Tail(rec.queries)
         /\ Noted(rec, outcome, central).heard = rec.heard \cup {Verdict(rec, outcome, central)}
BY DEF Shape, Noted, SameRequest

\* A decision that the local table makes, or that comes from the centre.
Fair(c, rec, outcome, central) ==
  LET q == Head(rec.queries)
  IN /\ central \in BOOLEAN
     /\ central => rec.context = "oidc" /\ q.capability \in rec.projection.capabilities
     /\ outcome = None /\ ~central =>
          rec.context # "oidc" /\ localGovernanceBypassAllowed(c, rec.context)
     /\ /\ outcome = None /\ q.cyber = TRUE /\ q.operation \in OutwardOperations
        /\ q.binding # None
        => q.binding.pap # None

LEMMA SettledSound ==
  ASSUME NEW c, NEW rec, Sound(c, rec), rec.phase \in Deciding,
         NEW outcome, NEW central, Fair(c, rec, outcome, central)
  PROVE  Sound(c, Settled(rec, outcome, central))
<1> DEFINE noted == Noted(rec, outcome, central)
           v == Verdict(rec, outcome, central)
           shown == [noted EXCEPT !.visible = @ \cup {Head(rec.queries).scope.id}]
           new == Settled(rec, outcome, central)
<1>1. /\ Shape(noted) /\ SameRequest(noted, rec)
      /\ noted.phase = rec.phase /\ noted.stage = rec.stage /\ noted.answer = rec.answer
      /\ noted.sent = rec.sent /\ noted.queries = Tail(rec.queries)
      /\ noted.heard = rec.heard \cup {v}
  BY Noting DEF Sound
<1>2. /\ Shape(shown) /\ SameRequest(shown, noted)
      /\ shown.phase = rec.phase /\ shown.stage = rec.stage /\ shown.answer = rec.answer
      /\ shown.sent = rec.sent /\ shown.queries = Tail(rec.queries)
      /\ shown.heard = rec.heard \cup {v}
  <2> HIDE DEF noted, v
  <2> QED BY <1>1 DEF Shape, SameRequest
<1>3. /\ v.capability = Head(rec.queries).capability /\ v.scope = Head(rec.queries).scope
      /\ v.outcome = outcome /\ v.central = central
  BY DEF Verdict
<1>4. \/ outcome # None /\ \E a \in {"denied", "unavailable"} : new = Answered(noted, a)
      \/ rec.stage # "list" /\ outcome = None /\ new = Proceed(noted)
      \/ rec.stage = "list" /\ new \in {Proceed(noted), Proceed(shown)}
  BY DEF Settled, Noted, Verdict
<1>5. /\ Shape(new) /\ SameRequest(new, rec) /\ new.heard = rec.heard \cup {v}
      /\ new.queries = Tail(rec.queries) /\ new.stage = rec.stage
      /\ new.sent = FALSE
      /\ \/ new.phase = "done" /\ new.answer \in {"denied", "unavailable"}
         \/ /\ new.answer = None /\ (rec.stage # "list" => outcome = None)
            /\ new.phase = IF new.queries # <<>> THEN "decide"
                           ELSE IF new.stage = "hook" THEN "handler" ELSE "act"
  <2>1. rec.sent = FALSE /\ rec.answer = None
    BY DEF Sound, Staged, Deciding, Addressed
  <2> HIDE DEF noted, shown, v, new
  <2>2. CASE outcome # None /\ \E a \in {"denied", "unavailable"} : new = Answered(noted, a)
    BY <1>1, <2>1, <2>2, Answering DEF SameRequest
  <2>3. CASE rec.stage # "list" /\ outcome = None /\ new = Proceed(noted)
    BY <1>1, <2>1, <2>3, Proceeding DEF SameRequest
  <2>4. CASE rec.stage = "list" /\ new \in {Proceed(noted), Proceed(shown)}
    BY <1>1, <1>2, <2>1, <2>4, Proceeding DEF SameRequest
  <2> QED BY <1>4, <2>2, <2>3, <2>4
<1> HIDE DEF noted, shown, v, new
<1>6. rec.stage # "list" => Short(Tail(rec.queries))
  BY Popped DEF Sound, Staged, Addressed
<1>7. Staged(new)
  BY <1>5, <1>6 DEF Sound, Staged, SameRequest, Phases, Early, Deciding, Effective, Addressed
<1>8. Identified(c, new)
  BY <1>5 DEF Sound, Identified, SameRequest, Past, Deciding
<1>9. Judged(c, new)
  BY <1>3, <1>5 DEF Sound, Judged, SameRequest, Fair
<1>10. Owed(new)
  <2> SUFFICES ASSUME Past(new), new.context = "oidc", NEW d \in Demand(new)
               PROVE  \/ \E h \in new.heard : Met(d, h)
                      \/ /\ new.phase \in Deciding
                         /\ \E n \in DOMAIN new.queries : Wanted(d, new.queries[n])
                      \/ /\ new.phase \in {"decide", "central", "handler"}
                         /\ new.stage = "hook" /\ new.route \notin HookRoutes
    BY DEF Owed
  <2>1. new.phase # "done" /\ d \in Demand(rec) /\ rec.context = "oidc" /\ Past(rec)
    BY <1>5 DEF Past, Effective, SameRequest, Demand, Deciding
  <2>2. rec.stage # "list" /\ outcome = None /\ central = TRUE
    BY <1>5, <2>1 DEF Sound, Staged, Demand, Lists, Fair, Addressed
  <2>3. CASE \E h \in rec.heard : Met(d, h)
    BY <1>5, <2>3
  <2>4. CASE \E n \in DOMAIN rec.queries : Wanted(d, rec.queries[n])
    <3>1. PICK n \in DOMAIN rec.queries : Wanted(d, rec.queries[n])
      BY <2>4
    <3> Short(rec.queries) /\ rec.queries # <<>> /\ new.queries = Tail(rec.queries)
      BY <1>5, <2>2 DEF Sound, Staged, Addressed
    <3>2. rec.queries[n] = Head(rec.queries)
          \/ \E m \in DOMAIN new.queries : rec.queries[n] = new.queries[m]
      BY Popped
    <3>3. CASE rec.queries[n] = Head(rec.queries)
      BY <1>3, <1>5, <2>2, <3>1, <3>3 DEF Met, Wanted
    <3>4. CASE \E m \in DOMAIN new.queries : rec.queries[n] = new.queries[m]
      BY <1>5, <2>1, <3>1, <3>4 DEF Deciding
    <3> QED BY <3>2, <3>3, <3>4
  <2>5. CASE rec.stage = "hook" /\ rec.route \notin HookRoutes
    BY <1>5, <2>1, <2>5 DEF SameRequest
  <2> QED BY <2>1, <2>3, <2>4, <2>5 DEF Sound, Owed
<1>11. Labelled(new)
  <2>1. ASSUME new.route \in {"export", "remediation", "ask", "queue.external"},
               Past(new), new.stage # "hook"
        PROVE  /\ new.binding # None /\ new.binding.registered
               /\ \/ new.binding.pap # None
                  \/ /\ new.phase \in Deciding
                     /\ \E n \in DOMAIN new.queries : Outward(new, new.queries[n])
    <3>1. /\ new.phase # "done" /\ new.binding = rec.binding
          /\ rec.route = new.route /\ rec.stage # "hook" /\ Past(rec)
      BY <1>5, <2>1 DEF Past, Effective, SameRequest, Deciding
    <3>2. rec.stage # "list" /\ outcome = None
      BY <1>5, <2>1, <3>1 DEF Sound, Staged, Lists, Addressed
    <3>3. /\ rec.binding # None /\ rec.binding.registered
          /\ \/ rec.binding.pap # None
             \/ \E n \in DOMAIN rec.queries : Outward(rec, rec.queries[n])
      BY <2>1, <3>1 DEF Sound, Labelled
    <3>4. CASE \E n \in DOMAIN rec.queries : Outward(rec, rec.queries[n])
      <4>1. PICK n \in DOMAIN rec.queries : Outward(rec, rec.queries[n])
        BY <3>4
      <4> Short(rec.queries) /\ rec.queries # <<>>
        BY <3>2 DEF Sound, Staged, Addressed
      <4>2. rec.queries[n] = Head(rec.queries)
            \/ \E m \in DOMAIN new.queries : rec.queries[n] = new.queries[m]
        BY <1>5, Popped
      <4>3. CASE rec.queries[n] = Head(rec.queries)
        BY <3>1, <3>2, <3>3, <4>1, <4>3 DEF Fair, Outward
      <4>4. CASE \E m \in DOMAIN new.queries : rec.queries[n] = new.queries[m]
        BY <1>5, <3>1, <3>3, <4>1, <4>4 DEF Outward, Deciding
      <4> QED BY <4>2, <4>3, <4>4
    <3> QED BY <3>1, <3>3, <3>4
  <2>2. ASSUME new.route = "ingest", new.phase = "act" \/ Effective(new)
        PROVE  FALSE
    BY <1>5, <2>2 DEF Sound, Staged, SameRequest, HookRoutes, Lists, Deciding, Effective, Addressed
  <2> QED BY <2>1, <2>2 DEF Labelled
<1> QED BY <1>5, <1>7, <1>8, <1>9, <1>10, <1>11 DEF Sound, new

\* A step of one request that ends in a sound one.
LEMMA Moved ==
  ASSUME IInv, NEW r \in Requests, NEW new, Sound(config, new),
         req' = [req EXCEPT ![r] = new], config' = config
  PROVE  IInv'
<1>1. req' = [s \in Requests |-> IF s = r THEN new ELSE req[s]]
  BY DEF IInv
<1>2. \A s \in Requests : Sound(config, req'[s])
  BY <1>1 DEF IInv
<1>3. req' = [s \in Requests |-> req'[s]]
  BY <1>1
<1> QED BY <1>2, <1>3 DEF IInv

-----------------------------------------------------------------------------
(* Decisions                                                                *)

\* The local table refuses what OIDC does not grant and allows nothing under
\* OIDC; what it leaves to the central decision point is granted.
LEMMA Authorizing ==
  ASSUME NEW rec, NEW q, rec.context = "oidc" => rec.projection # None
  PROVE  /\ authorizeGovernedRequest(rec, q) = "CENTRAL" =>
              rec.context = "oidc" /\ q.capability \in rec.projection.capabilities
         /\ authorizeGovernedRequest(rec, q) = None =>
              /\ rec.context # "oidc" /\ localGovernanceBypassAllowed(config, rec.context)
              /\ decidePolicy(TRUE, TRUE, TRUE,
                   [q EXCEPT !.binding = IF @ = None
                      THEN policyBindingForClassification("internal") ELSE @]) = None
<1> DEFINE capability == q.capability \in rec.projection.capabilities
           matches == securityPreflightProjectionScopeMatches(rec.projection, q.scope)
           defaulted == [q EXCEPT !.binding = IF @ = None
                           THEN policyBindingForClassification("internal") ELSE @]
           answer == authorizeGovernedRequest(rec, q)
<1>1. /\ {"CENTRAL", "UNCONFIGURED"} \cap Reasons = {} /\ "POLICY_UNAVAILABLE" \in Reasons
      /\ None \notin Reasons \cup {"CENTRAL", "UNCONFIGURED"}
  BY DecisionConstants DEF Reasons
<1>2. matches \in BOOLEAN /\ capability \in BOOLEAN
  BY DEF securityPreflightProjectionScopeMatches
<1>3. /\ ~(capability /\ matches) => decidePolicy(TRUE, capability, matches, q) \in Reasons
      /\ decidePolicy(TRUE, TRUE, TRUE, defaulted) \in Reasons \cup {None}
  <2> HIDE DEF capability, matches, defaulted
  <2> QED BY <1>2, PolicyReasons
<1>4. answer = IF rec.context = "oidc" /\ ~(capability /\ matches)
                 THEN decidePolicy(TRUE, capability, matches, q)
               ELSE IF rec.context # "oidc"
                 THEN IF localGovernanceBypassAllowed(config, rec.context)
                      THEN decidePolicy(TRUE, TRUE, TRUE, defaulted) ELSE "POLICY_UNAVAILABLE"
               ELSE IF config.decisionUrl THEN "CENTRAL" ELSE "UNCONFIGURED"
  BY DEF authorizeGovernedRequest
<1> HIDE DEF matches, defaulted, answer
<1> QED BY <1>1, <1>3, <1>4 DEF answer, defaulted

LEMMA DecideKeeps ==
  ASSUME IInv, NEW r \in Requests, Decide(r)
  PROVE  IInv'
<1> DEFINE rec == req[r]
           q == Head(rec.queries)
           outcome == authorizeGovernedRequest(rec, q)
<1>1. Sound(config, rec) /\ rec.phase = "decide" /\ config' = config
  BY DEF IInv, Decide, Phase
<1>2. req' = [req EXCEPT ![r] = IF outcome = "CENTRAL" THEN [rec EXCEPT !.phase = "central"]
                                 ELSE Settled(rec, outcome, FALSE)]
  BY DEF Decide
<1>3. rec.context = "oidc" => rec.projection # None
  BY <1>1, DecisionConstants DEF Sound, Identified, Past
<1>4. CASE outcome = "CENTRAL"
  <2> DEFINE new == [rec EXCEPT !.phase = "central"]
  <2>1. /\ Shape(new) /\ SameRequest(new, rec) /\ new.phase = "central"
        /\ new.stage = rec.stage /\ new.queries = rec.queries /\ new.heard = rec.heard
        /\ new.sent = rec.sent /\ new.answer = rec.answer
    <3> HIDE DEF rec
    <3> QED BY <1>1 DEF Sound, Shape, SameRequest
  <2>2. rec.context = "oidc" /\ q.capability \in rec.projection.capabilities
    <3> HIDE DEF rec, q
    <3> QED BY <1>3, <1>4, Authorizing
  <2> HIDE DEF new
  <2>3. ~Effective(new) /\ Past(rec) /\ ~Effective(rec)
    BY <1>1, <2>1, DecisionConstants DEF Answers, Sound, Staged, Effective, Past, Addressed
  <2> HIDE DEF rec
  <2>4. Staged(new) /\ Identified(config, new)
    BY <1>1, <2>1, <2>3 DEF Sound, Staged, Identified, SameRequest, Past, Deciding, Phases, Early, Addressed
  <2>5. Judged(config, new)
    BY <1>1, <2>1, <2>2 DEF Sound, Judged, SameRequest
  <2>6. Owed(new)
    BY <1>1, <2>1, <2>3 DEF Sound, Owed, SameRequest, Deciding, Demand
  <2>7. Labelled(new)
    BY <1>1, <2>1, <2>3 DEF Sound, Labelled, SameRequest, Deciding, Outward
  <2>8. Sound(config, new)
    BY <2>1, <2>4, <2>5, <2>6, <2>7 DEF Sound
  <2>9. req' = [req EXCEPT ![r] = new]
    BY <1>2, <1>4 DEF new, rec
  <2> QED BY <1>1, <2>8, <2>9, Moved
<1>5. CASE outcome # "CENTRAL"
  <2>1. Fair(config, rec, outcome, FALSE)
    <3>1. outcome = None => rec.context # "oidc" /\ localGovernanceBypassAllowed(config, rec.context)
      <4> HIDE DEF rec, q
      <4> QED BY <1>3, Authorizing
    <3>2. ASSUME outcome = None, q.cyber = TRUE, q.operation \in OutwardOperations, q.binding # None
          PROVE  q.binding.pap # None
      <4>1. IsQuery(q)
        BY <1>1, <3>1, <3>2, Popped DEF Sound, Staged, Deciding, Addressed
      <4> HIDE DEF rec, q
      <4> DEFINE defaulted == [q EXCEPT !.binding = IF @ = None
                      THEN policyBindingForClassification("internal") ELSE @]
      <4>2. defaulted.binding = q.binding /\ defaulted.cyber = q.cyber /\ defaulted.operation = q.operation
        BY <3>2, <4>1 DEF IsQuery
      <4>3. decidePolicy(TRUE, TRUE, TRUE, defaulted) = None
        BY <1>3, <3>2, Authorizing
      <4> HIDE DEF defaulted
      <4> QED BY <3>2, <4>2, <4>3, PapAsked
    <3> QED BY <3>1, <3>2 DEF Fair
  <2>2. Sound(config, Settled(rec, outcome, FALSE))
    BY <1>1, <2>1, SettledSound DEF Deciding
  <2> QED BY <1>1, <1>2, <1>5, <2>2, Moved
<1> QED BY <1>4, <1>5

\* The routes about a project demand one capability on it.
LEMMA Demanded ==
  ASSUME NEW rec
  PROVE  LET one(capability) == {[capability |-> capability, scope |-> ProjectScope(rec.target)]}
         IN /\ rec.route \in {"run.read", "run.progress", "run.report"} => Demand(rec) = one("read_scan")
            /\ rec.route \in {"plan", "queue", "triage"} => Demand(rec) = one("submit_scan")
            /\ rec.route = "queue.external" =>
                 Demand(rec) = one("submit_scan") \cup one("external_operation")
            /\ rec.route \in {"export", "remediation"} => Demand(rec) = one("export")
            /\ rec.route = "ask" => Demand(rec) = one("external_operation")
            /\ rec.route \in Lists => Demand(rec) = {}
BY DEF Demand, Lists

\* An item that is left out: lists demand nothing of their own.
LEMMA LeaveOutKeeps ==
  ASSUME IInv, NEW r \in Requests, LeaveOut(r)
  PROVE  IInv'
<1> DEFINE rec == req[r]
           rest == [rec EXCEPT !.queries = Tail(@)]
           new == LeftOut(rec)
<1>1. /\ Sound(config, rec) /\ rec.phase = "decide" /\ config' = config
      /\ rec.stage = "list" /\ req' = [req EXCEPT ![r] = new]
  BY DEF IInv, LeaveOut, OutOfScope, Phase
<1> HIDE DEF rec
<1>2. /\ Shape(rest) /\ SameRequest(rest, rec) /\ rest.heard = rec.heard
      /\ rest.queries = Tail(rec.queries) /\ rest.stage = rec.stage
      /\ rest.sent = rec.sent /\ rest.answer = rec.answer
  BY <1>1 DEF Sound, Shape, SameRequest
<1> HIDE DEF rest
<1>3. /\ Shape(new) /\ SameRequest(new, rec) /\ new.heard = rec.heard
      /\ new.stage = "list" /\ new.sent = rec.sent /\ new.answer = rec.answer
      /\ new.phase = IF new.queries # <<>> THEN "decide" ELSE "act"
  <2>1. new = Proceed(rest)
    BY DEF LeftOut, rest
  <2> HIDE DEF new
  <2> QED BY <1>1, <1>2, <2>1, Proceeding DEF SameRequest
<1> HIDE DEF new
<1>4. /\ rec.route \in Lists /\ rec.context = "oidc" /\ rec.answer = None
      /\ rec.sent = FALSE /\ Past(rec) /\ Addressed(rec)
  BY <1>1 DEF Sound, Staged, Past, Lists
<1>5. Staged(new)
  BY <1>3, <1>4, DecisionConstants
     DEF Staged, SameRequest, Phases, Early, Deciding, Addressed, HookRoutes, Lists, Effective
<1>6. Identified(config, new) /\ Judged(config, new)
  BY <1>1, <1>3, <1>4 DEF Sound, Identified, Judged, SameRequest
<1>7. Owed(new)
  <2>1. Demand(new) = {}
    BY <1>3, <1>4, Demanded DEF SameRequest
  <2> QED BY <2>1 DEF Owed
<1>8. Labelled(new)
  BY <1>3, <1>4 DEF Labelled, SameRequest, Lists
<1>9. Sound(config, new)
  BY <1>3, <1>5, <1>6, <1>7, <1>8 DEF Sound
<1> QED BY <1>1, <1>9, Moved DEF rec

LEMMA CentralKeeps ==
  ASSUME IInv, NEW r \in Requests, CentralAnswers(r) \/ CentralFails(r)
  PROVE  IInv'
<1> DEFINE rec == req[r]
           q == Head(rec.queries)
<1>1. /\ Sound(config, rec) /\ rec.phase = "central" /\ config' = config
      /\ rec.context = "oidc" /\ q.capability \in rec.projection.capabilities
  BY DEF IInv, CentralAnswers, CentralFails, Phase, Sound, Judged
<1>2. CASE CentralAnswers(r)
  <2>1. PICK a \in Decisions :
          req' = [req EXCEPT ![r] = Settled(rec, CentralOutcome(a, q), TRUE)]
    BY <1>2 DEF CentralAnswers
  <2>2. Fair(config, rec, CentralOutcome(a, q), TRUE)
    <3> HIDE DEF rec, q
    <3>1. ASSUME CentralOutcome(a, q) = None, q.cyber = TRUE,
                 q.operation \in OutwardOperations, q.binding # None
          PROVE  q.binding.pap # None
      BY <3>1, PapAsked, DecisionConstants DEF CentralOutcome, Reasons
    <3> QED BY <1>1, <3>1 DEF Fair, q
  <2>3. Sound(config, Settled(rec, CentralOutcome(a, q), TRUE))
    BY <1>1, <2>2, SettledSound DEF Deciding
  <2> QED BY <1>1, <2>1, <2>3, Moved
<1>3. CASE CentralFails(r)
  <2>1. Fair(config, rec, "POLICY_UNAVAILABLE", TRUE)
    BY <1>1, DecisionConstants DEF Fair, Reasons
  <2>2. Sound(config, Settled(rec, "POLICY_UNAVAILABLE", TRUE))
    BY <1>1, <2>1, SettledSound DEF Deciding
  <2> QED BY <1>1, <1>3, <2>2, Moved DEF CentralFails
<1> QED BY <1>2, <1>3

-----------------------------------------------------------------------------
(* Identity                                                                 *)

\* A request that has not been decided about yet.
Begun(rec) ==
  /\ Shape(rec) /\ rec.heard = {} /\ rec.queries = <<>> /\ rec.stage = "hook"
  /\ rec.answer = None /\ rec.sent = FALSE /\ Addressed(rec)

Known(c, rec) ==
  \/ rec.context = None /\ Mode(c) = "disabled"
  \/ rec.context = "shared-token" /\ Mode(c) = "shared-token"
  \/ /\ rec.context = "oidc" /\ Mode(c) = "oidc"
     /\ rec.verdict = "accepted" /\ rec.projection # None

\* One decision before the handler on the routes that have it, none on others.
LEMMA Hooked ==
  ASSUME NEW rec, Addressed(rec)
  PROVE  /\ rec.route \notin HookRoutes => governedOperation(rec) = <<>>
         /\ rec.route \in HookRoutes =>
              \E q : /\ IsQuery(q) /\ governedOperation(rec) = <<q>>
                    /\ \A d \in Demand(rec) : Wanted(d, q)
<1> DEFINE scope == IF rec.target = None THEN OrganizationScope ELSE ProjectScope(rec.target)
           any == IF rec.projection = None THEN scope
                  ELSE securityPreflightProjectionDefaultScope(rec.projection)
<1>2. CASE rec.route \notin HookRoutes
  BY <1>2 DEF governedOperation, HookRoutes
<1>3. CASE rec.route = "profiles"
  <2> DEFINE q == Query("access", "access", any, None, FALSE)
  <2>1. governedOperation(rec) = <<q>>
    BY <1>3 DEF governedOperation
  <2>2. Demand(rec) = {[capability |-> "access", scope |-> None]}
    BY <1>3 DEF Demand, Addressed, Global, Lists
  <2> HIDE DEF scope, any
  <2>3. IsQuery(q) /\ q.capability = "access" /\ q.scope = any
    BY DEF Query, IsQuery
  <2> HIDE DEF q
  <2>4. \A d \in Demand(rec) : Wanted(d, q)
    BY <2>2, <2>3 DEF Wanted
  <2> QED BY <1>3, <2>1, <2>3, <2>4 DEF HookRoutes
<1>4. CASE rec.route = "ingest"
  <2> DEFINE q == Query("external_operation", "external_operation", scope, rec.binding, TRUE)
  <2>1. governedOperation(rec) = <<q>>
    BY <1>4 DEF governedOperation
  <2>2. Demand(rec) = {[capability |-> "external_operation", scope |-> scope]}
    BY <1>4 DEF Demand, Addressed, Global, Lists
  <2> HIDE DEF scope, any
  <2>3. IsQuery(q) /\ q.capability = "external_operation" /\ q.scope = scope
    BY DEF Query, IsQuery
  <2> HIDE DEF q
  <2>4. \A d \in Demand(rec) : Wanted(d, q)
    BY <2>2, <2>3 DEF Wanted
  <2> QED BY <1>4, <2>1, <2>3, <2>4 DEF HookRoutes
<1>5. CASE rec.route = "project.create"
  <2> DEFINE q == Query("manage_access", "access", OrganizationScope, None, FALSE)
  <2>1. governedOperation(rec) = <<q>>
    BY <1>5 DEF governedOperation
  <2>2. Demand(rec) = {[capability |-> "manage_access", scope |-> OrganizationScope]}
    BY <1>5 DEF Demand, Addressed, Global, Lists
  <2> HIDE DEF scope, any
  <2>3. IsQuery(q) /\ q.capability = "manage_access" /\ q.scope = OrganizationScope
    BY DEF Query, IsQuery
  <2> HIDE DEF q
  <2>4. \A d \in Demand(rec) : Wanted(d, q)
    BY <2>2, <2>3 DEF Wanted
  <2> QED BY <1>5, <2>1, <2>3, <2>4 DEF HookRoutes
<1>6. CASE rec.route = "project.write"
  <2> DEFINE q == Query("manage_access", "access", scope, None, FALSE)
  <2>1. governedOperation(rec) = <<q>>
    BY <1>6 DEF governedOperation
  <2>2. Demand(rec) = {[capability |-> "manage_access", scope |-> scope]}
    BY <1>6 DEF Demand, Addressed, Global, Lists
  <2> HIDE DEF scope, any
  <2>3. IsQuery(q) /\ q.capability = "manage_access" /\ q.scope = scope
    BY DEF Query, IsQuery
  <2> HIDE DEF q
  <2>4. \A d \in Demand(rec) : Wanted(d, q)
    BY <2>2, <2>3 DEF Wanted
  <2> QED BY <1>6, <2>1, <2>3, <2>4 DEF HookRoutes
<1>7. CASE rec.route = "audit"
  <2> DEFINE q == Query("read_audit", "access", OrganizationScope, None, FALSE)
  <2>1. governedOperation(rec) = <<q>>
    BY <1>7 DEF governedOperation
  <2>2. Demand(rec) = {[capability |-> "read_audit", scope |-> OrganizationScope]}
    BY <1>7 DEF Demand, Addressed, Global, Lists
  <2> HIDE DEF scope, any
  <2>3. IsQuery(q) /\ q.capability = "read_audit" /\ q.scope = OrganizationScope
    BY DEF Query, IsQuery
  <2> HIDE DEF q
  <2>4. \A d \in Demand(rec) : Wanted(d, q)
    BY <2>2, <2>3 DEF Wanted
  <2> QED BY <1>7, <2>1, <2>3, <2>4 DEF HookRoutes
<1>8. CASE rec.route = "project.read"
  <2> DEFINE q == Query("read_scan", "access", scope, None, FALSE)
  <2>1. governedOperation(rec) = <<q>>
    BY <1>8 DEF governedOperation
  <2>2. Demand(rec) = {[capability |-> "read_scan", scope |-> scope]}
    BY <1>8 DEF Demand, Addressed, Global, Lists
  <2> HIDE DEF scope, any
  <2>3. IsQuery(q) /\ q.capability = "read_scan" /\ q.scope = scope
    BY DEF Query, IsQuery
  <2> HIDE DEF q
  <2>4. \A d \in Demand(rec) : Wanted(d, q)
    BY <2>2, <2>3 DEF Wanted
  <2> QED BY <1>8, <2>1, <2>3, <2>4 DEF HookRoutes
<1> QED BY <1>2, <1>3, <1>4, <1>5, <1>6, <1>7, <1>8 DEF HookRoutes

LEMMA GovernedSound ==
  ASSUME NEW c, NEW rec, Begun(rec), Known(c, rec)
  PROVE  Sound(c, Governed(rec))
<1> DEFINE queries == governedOperation(rec)
           asked == [rec EXCEPT !.queries = queries]
           new == Governed(rec)
<1>1. /\ Shape(asked) /\ SameRequest(asked, rec) /\ asked.heard = {} /\ asked.queries = queries
      /\ asked.stage = "hook" /\ asked.answer = None /\ asked.sent = FALSE
  <2> HIDE DEF queries
  <2> QED BY DEF Begun, Shape, SameRequest, Addressed
<1> Addressed(rec)
  BY DEF Begun
<1>2. new = Answered(rec, "forbidden") \/ new = Proceed(asked)
  BY DEF Governed
<1>3. CASE new = Answered(rec, "forbidden")
  <2> HIDE DEF new
  <2>1. /\ Shape(new) /\ SameRequest(new, rec) /\ new.phase = "done" /\ new.answer = "forbidden"
        /\ new.heard = {} /\ new.queries = <<>> /\ new.stage = "hook" /\ new.sent = FALSE
    BY <1>3, Answering DEF Begun
  <2>2. ~Effective(new) /\ ~Past(new)
    BY <2>1 DEF Effective, Past
  <2> QED BY <2>1, <2>2
          DEF Sound, Staged, Identified, Judged, Owed, Labelled, Phases, Early, Deciding, Short, new, Addressed,
              SameRequest
<1>4. CASE new = Proceed(asked)
  <2> HIDE DEF new, asked
  <2>1. /\ Shape(new) /\ SameRequest(new, rec) /\ new.answer = None
        /\ new.heard = {} /\ new.queries = queries /\ new.stage = "hook" /\ new.sent = FALSE
        /\ new.phase = IF queries # <<>> THEN "decide" ELSE "handler"
    BY <1>1, <1>4, Proceeding DEF SameRequest
  <2>2. /\ ~Effective(new) /\ Demand(new) = Demand(rec)
    BY <2>1, DecisionConstants DEF Answers, Effective, Demand, SameRequest
  <2> HIDE DEF queries
  <2>3. Short(queries)
    BY Hooked DEF Short, queries
  <2>4. Staged(new)
    BY <2>1, <2>2, <2>3 DEF Staged, Phases, Early, Deciding, Addressed, SameRequest
  <2>5. Identified(c, new) /\ Judged(c, new) /\ Labelled(new)
    BY <2>1, <2>2 DEF Known, Identified, Judged, Labelled, SameRequest
  <2>6. Owed(new)
    <3>1. CASE rec.route \notin HookRoutes
      BY <2>1, <3>1 DEF Owed, SameRequest
    <3>2. CASE rec.route \in HookRoutes
      <4>1. PICK q : queries = <<q>> /\ \A d \in Demand(rec) : Wanted(d, q)
        BY <3>2, Hooked DEF queries
      <4>2. 1 \in DOMAIN queries /\ queries[1] = q /\ queries # <<>>
        BY <4>1
      <4>3. new.phase = "decide" /\ Demand(new) = Demand(rec) /\ new.queries = queries
        BY <2>1, <2>2, <4>2
      <4> QED BY <4>1, <4>2, <4>3 DEF Owed, Deciding
    <3> QED BY <3>1, <3>2
  <2> QED BY <2>1, <2>4, <2>5, <2>6 DEF Sound, new
<1> QED BY <1>2, <1>3, <1>4

LEMMA ArrivesKeeps ==
  ASSUME IInv, NEW r \in Requests, Arrives(r)
  PROVE  IInv'
<1> DEFINE rec == req[r]
<1>1. /\ Sound(config, rec) /\ config' = config /\ rec.phase = "idle"
  BY DEF IInv, Arrives, Phase
<1>2. PICK route \in Offered[r], target \in Projects \cup {None},
           binding \in Bindings \cup {None}, key \in Keys :
        /\ target = None => route \in Global \cup {"ingest"}
        /\ route \in Global => target = None
        /\ route \notin Bound => binding = None
        /\ req' = [req EXCEPT ![r] =
             [@ EXCEPT !.phase = "auth", !.route = route, !.target = target,
                       !.binding = binding, !.key = key]]
  BY DEF Arrives
<1> DEFINE new == [rec EXCEPT !.phase = "auth", !.route = route, !.target = target,
                              !.binding = binding, !.key = key]
<1>6. req' = [req EXCEPT ![r] = new]
  BY <1>2
<1> HIDE DEF rec
<1>3. /\ Shape(new) /\ new.phase = "auth" /\ new.stage = rec.stage /\ new.heard = rec.heard
      /\ new.queries = rec.queries /\ new.answer = rec.answer /\ new.sent = rec.sent
      /\ new.context = rec.context /\ new.route = route /\ new.target = target
  BY <1>1 DEF Sound, Shape
<1>4. /\ new.heard = {} /\ new.queries = <<>> /\ new.stage = "hook" /\ new.answer = None
      /\ new.sent = FALSE /\ new.context = None /\ Addressed(new)
  BY <1>1, <1>2, <1>3 DEF Sound, Staged, Identified, Early, Addressed
<1>5. Sound(config, new)
  <2> HIDE DEF new
  <2>1. ~Effective(new) /\ ~Past(new)
    BY <1>3, <1>4, DecisionConstants DEF Answers, Effective, Past
  <2> QED BY <1>3, <1>4, <2>1
          DEF Sound, Staged, Identified, Judged, Owed, Labelled, Phases, Early, Deciding, Short
<1> QED BY <1>1, <1>5, <1>6, Moved

\* Waiting for keys or for the projection.
LEMMA WaitsSound ==
  ASSUME NEW c, NEW rec, Begun(rec), rec.phase \in {"keys", "keysAnswered", "projection"},
         Mode(c) = "oidc",
         IF rec.phase = "projection" THEN rec.context = "oidc" /\ rec.verdict = "accepted"
         ELSE rec.context = None
  PROVE  Sound(c, rec)
<1>1. ~Effective(rec) /\ ~Past(rec)
  BY DecisionConstants DEF Answers, Begun, Effective, Past
<1> QED BY <1>1 DEF Begun, Sound, Staged, Identified, Judged, Owed, Labelled, Phases, Early, Addressed,
                    Deciding, Short

\* A request that was not decided about ends.
LEMMA RefusedSound ==
  ASSUME NEW c, NEW rec, Begun(rec), NEW a, a \notin {"ok", "no-answer"}
  PROVE  Sound(c, Answered(rec, a))
<1> DEFINE new == Answered(rec, a)
<1>1. /\ Shape(new) /\ new.phase = "done" /\ new.answer = a /\ new.heard = {}
      /\ new.queries = <<>> /\ new.stage = "hook" /\ new.sent = FALSE /\ Addressed(new)
  BY Answering DEF Begun, SameRequest, Addressed
<1> HIDE DEF new
<1>2. ~Effective(new) /\ ~Past(new)
  BY <1>1 DEF Effective, Past
<1> QED BY <1>1, <1>2
        DEF Sound, Staged, Identified, Judged, Owed, Labelled, Phases, Early, Deciding, Short, new, Addressed

LEMMA VerifiedSound ==
  ASSUME NEW rec, Begun(rec), rec.context = None, Mode(config) = "oidc", NEW keys
  PROVE  Sound(config, Verified(rec, keys))
<1> DEFINE judged == [rec EXCEPT !.judged = now, !.keys = {}]
           accepted == [judged EXCEPT !.verdict = "accepted", !.context = "oidc",
                                      !.phase = "projection"]
           refused == [judged EXCEPT !.verdict = "refused"]
<1>1. /\ Begun(accepted) /\ accepted.phase = "projection" /\ accepted.context = "oidc"
      /\ accepted.verdict = "accepted"
  BY DEF Begun, Shape, Addressed
<1>2. Begun(refused)
  BY DEF Begun, Shape, Addressed
<1>3. Verified(rec, keys) \in {accepted, Answered(refused, "unauthorized")}
  BY DEF Verified
<1> HIDE DEF accepted, refused
<1> QED BY <1>1, <1>2, <1>3, WaitsSound, RefusedSound

LEMMA BegunEarly ==
  ASSUME NEW c, NEW rec, Sound(c, rec), rec.phase \in Early \ {"idle"}
  PROVE  Begun(rec)
BY DEF Sound, Staged, Begun, Early, Addressed

LEMMA AuthenticateKeeps ==
  ASSUME IInv, NEW r \in Requests, authenticateSecurityPreflightRequest(r)
  PROVE  IInv'
<1> DEFINE rec == req[r]
<1>1. Sound(config, rec) /\ config' = config /\ rec.phase = "auth"
  BY DEF IInv, authenticateSecurityPreflightRequest, Phase
<1>2. Begun(rec) /\ rec.context = None
  BY <1>1, BegunEarly DEF Early, Sound, Identified
<1> DEFINE shared == [rec EXCEPT !.context = "shared-token"]
<1>3. Begun(shared) /\ shared.context = "shared-token"
  <2> HIDE DEF rec
  <2> QED BY <1>2 DEF Begun, Shape, Addressed
<1>4. \/ Mode(config) = "disabled" /\ req' = [req EXCEPT ![r] = Governed(rec)]
      \/ \E a \in {"unauthorized", "no-identity-config"} : req' = [req EXCEPT ![r] = Answered(rec, a)]
      \/ Mode(config) = "shared-token" /\ req' = [req EXCEPT ![r] = Governed(shared)]
  BY DEF authenticateSecurityPreflightRequest
<1> HIDE DEF rec, shared
<1>5. CASE Mode(config) = "disabled" /\ req' = [req EXCEPT ![r] = Governed(rec)]
  <2>1. Sound(config, Governed(rec))
    BY <1>2, <1>5, GovernedSound DEF Known
  <2> QED BY <1>1, <1>5, <2>1, Moved
<1>6. CASE \E a \in {"unauthorized", "no-identity-config"} : req' = [req EXCEPT ![r] = Answered(rec, a)]
  <2>1. \A a \in {"unauthorized", "no-identity-config"} : Sound(config, Answered(rec, a))
    BY <1>2, RefusedSound
  <2> QED BY <1>1, <1>6, <2>1, Moved
<1>7. CASE Mode(config) = "shared-token" /\ req' = [req EXCEPT ![r] = Governed(shared)]
  <2>1. Sound(config, Governed(shared))
    BY <1>3, <1>7, GovernedSound DEF Known
  <2> QED BY <1>1, <1>7, <2>1, Moved
<1> QED BY <1>4, <1>5, <1>6, <1>7

LEMMA KeysKeep ==
  ASSUME IInv, NEW r \in Requests,
         getJwks(r) \/ KeysAnswered(r) \/ KeysArrive(r) \/ KeysFail(r)
  PROVE  IInv'
<1> DEFINE rec == req[r]
           fetching == [rec EXCEPT !.phase = "keys", !.fetched = now]
           fetched == [rec EXCEPT !.phase = "keysAnswered", !.keys = published]
<1>1. /\ Sound(config, rec) /\ config' = config
      /\ rec.phase \in {"auth", "keys", "keysAnswered"} /\ Mode(config) = "oidc"
  BY DEF IInv, getJwks, KeysAnswered, KeysArrive, KeysFail, Phase, Sound, Identified
<1>2. Begun(rec) /\ rec.context = None
  BY <1>1, BegunEarly DEF Early, Sound, Identified
<1>3. /\ Begun(fetching) /\ fetching.phase = "keys" /\ fetching.context = None
      /\ Begun(fetched) /\ fetched.phase = "keysAnswered" /\ fetched.context = None
  <2> HIDE DEF rec
  <2> QED BY <1>2 DEF Begun, Shape, Addressed
<1>4. \/ \E keys : req' = [req EXCEPT ![r] = Verified(rec, keys)]
      \/ req' = [req EXCEPT ![r] = fetching]
      \/ req' = [req EXCEPT ![r] = fetched]
      \/ req' = [req EXCEPT ![r] = Answered(rec, "unauthorized")]
  BY DEF getJwks, KeysAnswered, KeysArrive, KeysFail
<1> HIDE DEF rec, fetching, fetched
<1>5. \A keys : Sound(config, Verified(rec, keys))
  BY <1>1, <1>2, VerifiedSound
<1>6. Sound(config, fetching) /\ Sound(config, fetched)
  BY <1>1, <1>3, WaitsSound
<1>7. Sound(config, Answered(rec, "unauthorized"))
  BY <1>2, RefusedSound
<1> QED BY <1>1, <1>4, <1>5, <1>6, <1>7, Moved

LEMMA ProjectionKeeps ==
  ASSUME IInv, NEW r \in Requests, loadSecurityPreflightAccessProjection(r)
  PROVE  IInv'
<1> DEFINE rec == req[r]
           verified == [rec EXCEPT !.fetched = None, !.judged = 0]
           with(projection) == [verified EXCEPT !.projection = projection]
<1>1. Sound(config, rec) /\ config' = config /\ rec.phase = "projection"
  BY DEF IInv, loadSecurityPreflightAccessProjection, Phase
<1>2. /\ Begun(rec) /\ rec.context = "oidc" /\ rec.verdict = "accepted"
      /\ Mode(config) = "oidc"
  BY <1>1, BegunEarly DEF Early, Sound, Identified
<1>3. /\ Begun(verified)
      /\ \A p : /\ Begun(with(p)) /\ with(p).context = "oidc" /\ with(p).verdict = "accepted"
               /\ with(p).projection = p
  <2> HIDE DEF rec
  <2> QED BY <1>2 DEF Begun, Shape, Addressed
<1>4. \/ \E a \in {"no-governance-config", "forbidden", "unavailable"} :
           req' = [req EXCEPT ![r] = Answered(verified, a)]
      \/ \E p : p # None /\ req' = [req EXCEPT ![r] = Governed(with(p))]
  BY DEF loadSecurityPreflightAccessProjection
<1> HIDE DEF rec, verified, with
<1>5. \A a \in {"no-governance-config", "forbidden", "unavailable"} :
        Sound(config, Answered(verified, a))
  BY <1>3, RefusedSound
<1>6. \A p : p # None => Sound(config, Governed(with(p)))
  BY <1>2, <1>3, GovernedSound DEF Known
<1> QED BY <1>1, <1>4, <1>5, <1>6, Moved

-----------------------------------------------------------------------------
(* Handlers                                                                 *)

\* A handler asks for what its route demands, on the binding it goes out under.
Suits(rec, qs) ==
  /\ Short(qs)
  /\ rec.route \in HookRoutes => qs = <<>>
  /\ rec.route \notin HookRoutes /\ rec.context = "oidc" =>
       \A d \in Demand(rec) : \E n \in DOMAIN qs : Wanted(d, qs[n])
  /\ rec.route \in {"export", "remediation", "ask", "queue.external"} =>
       /\ rec.binding # None /\ rec.binding.registered
       /\ \E n \in DOMAIN qs : Outward(rec, qs[n])
  /\ rec.route = "ingest" =>
       rec.binding # None /\ rec.binding.registered /\ rec.binding.pap # None

LEMMA AskingSound ==
  ASSUME NEW c, NEW rec, Sound(c, rec), rec.phase = "handler", NEW qs, Suits(rec, qs)
  PROVE  Sound(c, Asking(rec, qs))
<1> DEFINE asked == [rec EXCEPT !.stage = "handler", !.queries = qs]
           new == Asking(rec, qs)
<1>1. /\ Shape(asked) /\ SameRequest(asked, rec) /\ asked.stage = "handler"
      /\ asked.queries = qs /\ asked.heard = rec.heard /\ asked.answer = rec.answer
      /\ asked.sent = rec.sent
  BY DEF Sound, Shape, SameRequest
<1>2. new = Proceed(asked)
  BY DEF Asking
<1> HIDE DEF new, asked
<1>3. /\ Shape(new) /\ SameRequest(new, rec) /\ new.stage = "handler" /\ new.queries = qs
      /\ new.heard = rec.heard /\ new.answer = rec.answer /\ new.sent = rec.sent
      /\ new.phase = IF qs # <<>> THEN "decide" ELSE "act"
  BY <1>1, <1>2, Proceeding DEF SameRequest
<1>4. /\ rec.sent = FALSE /\ rec.answer = None /\ ~Effective(new) /\ Past(rec)
      /\ Addressed(rec) /\ Demand(new) = Demand(rec)
  BY <1>3, DecisionConstants DEF Answers, Sound, Staged, Effective, Past, SameRequest, Demand
<1>5. Staged(new)
  BY <1>3, <1>4 DEF Staged, Suits, Phases, Early, Deciding, Addressed, SameRequest
<1>6. Identified(c, new) /\ Judged(c, new)
  BY <1>3, <1>4 DEF Sound, Identified, Judged, SameRequest
<1>7. Owed(new)
  <2> SUFFICES ASSUME new.context = "oidc", NEW d \in Demand(rec)
               PROVE  \/ \E h \in new.heard : Met(d, h)
                      \/ /\ new.phase \in Deciding
                         /\ \E n \in DOMAIN new.queries : Wanted(d, new.queries[n])
    BY <1>4 DEF Owed
  <2>1. CASE rec.route \in HookRoutes
    BY <1>3, <1>4, <2>1 DEF Sound, Owed, SameRequest, Deciding
  <2>2. CASE rec.route \notin HookRoutes
    <3>1. PICK n \in DOMAIN qs : Wanted(d, qs[n])
      BY <1>3, <2>2 DEF Suits, SameRequest
    <3>2. qs # <<>>
      BY <3>1
    <3> QED BY <1>3, <3>1, <3>2 DEF Deciding
  <2> QED BY <2>1, <2>2
<1>8. Labelled(new)
  <2>1. ASSUME rec.route \in {"export", "remediation", "ask", "queue.external"}
        PROVE  /\ new.phase = "decide"
               /\ \E n \in DOMAIN new.queries : Outward(new, new.queries[n])
    <3>1. PICK n \in DOMAIN qs : Outward(rec, qs[n])
      BY <2>1 DEF Suits
    <3>2. qs # <<>>
      BY <3>1
    <3> QED BY <1>3, <3>1, <3>2 DEF Outward, SameRequest
  <2> QED BY <1>3, <1>4, <2>1 DEF Labelled, Suits, SameRequest, Deciding
<1> QED BY <1>3, <1>5, <1>6, <1>7, <1>8 DEF Sound, new

\* The effect: the request ends, whatever the answer.
LEMMA FinishedSound ==
  ASSUME NEW c, NEW rec, Sound(c, rec), rec.phase \in {"act", "akb"}, NEW pre,
         Shape(pre), SameRequest(pre, rec), pre.heard = rec.heard,
         pre.queries = rec.queries, pre.stage = rec.stage, pre.sent = rec.sent, NEW a
  PROVE  Sound(c, Answered(pre, a))
<1> DEFINE new == Answered(pre, a)
<1>1. /\ Shape(new) /\ SameRequest(new, rec) /\ new.phase = "done"
      /\ new.heard = rec.heard /\ new.queries = rec.queries
      /\ new.stage = rec.stage /\ new.sent = rec.sent
  BY Answering DEF SameRequest
<1> HIDE DEF new
<1>2. Past(rec) /\ rec.phase \notin Deciding \cup {"handler"}
  BY DEF Past, Deciding
<1>3. Staged(new)
  BY <1>1 DEF Sound, Staged, SameRequest, Phases, Early, Deciding, Addressed
<1>4. Identified(c, new) /\ Judged(c, new)
  BY <1>1, <1>2 DEF Sound, Identified, Judged, SameRequest
<1>5. Owed(new)
  <2>1. Demand(new) = Demand(rec) /\ new.context = rec.context
    BY <1>1 DEF SameRequest, Demand
  <2> QED BY <1>1, <1>2, <2>1 DEF Sound, Owed, Deciding
<1>6. Labelled(new)
  BY <1>1, <1>2 DEF Sound, Staged, Labelled, SameRequest, HookRoutes, Lists
<1> QED BY <1>1, <1>3, <1>4, <1>5, <1>6 DEF Sound, new

\* One or two queries, and the demands they meet.
LEMMA Single ==
  ASSUME NEW q, IsQuery(q)
  PROVE  /\ Short(<<q>>) /\ 1 \in DOMAIN <<q>> /\ <<q>>[1] = q
BY DEF Short

LEMMA Pair ==
  ASSUME NEW p, NEW q, IsQuery(p), IsQuery(q)
  PROVE  /\ Short(<<p>> \o <<q>>) /\ 1 \in DOMAIN (<<p>> \o <<q>>) /\ 2 \in DOMAIN (<<p>> \o <<q>>)
         /\ (<<p>> \o <<q>>)[1] = p /\ (<<p>> \o <<q>>)[2] = q
<1>1. <<p>> \o <<q>> = <<p, q>>
  <2> DEFINE both == <<p>> \o <<q>>
  <2>1. /\ <<p>> \in Seq({p, q}) /\ <<q>> \in Seq({p, q}) /\ <<p, q>> \in Seq({p, q})
        /\ Len(<<p>>) = 1 /\ Len(<<q>>) = 1 /\ Len(<<p, q>>) = 2
    OBVIOUS
  <2>2. /\ both \in Seq({p, q}) /\ Len(both) = 2
        /\ \A i \in 1..2 : both[i] = IF i <= 1 THEN <<p>>[i] ELSE <<q>>[i - 1]
    <3> DEFINE s == <<p>>
               t == <<q>>
    <3> HIDE DEF s, t
    <3>1. /\ s \o t \in Seq({p, q}) /\ Len(s \o t) = Len(s) + Len(t)
          /\ \A i \in 1 .. Len(s) + Len(t) :
               (s \o t)[i] = IF i <= Len(s) THEN s[i] ELSE t[i - Len(s)]
      BY <2>1, ConcatProperties DEF s, t
    <3>2. Len(s) = 1 /\ Len(t) = 1
      BY <2>1 DEF s, t
    <3>3. both = s \o t
      BY DEF s, t
    <3> HIDE DEF both
    <3>4. \A i \in 1..2 : both[i] = IF i <= 1 THEN s[i] ELSE t[i - 1]
      BY <3>1, <3>2, <3>3
    <3> QED BY <3>1, <3>2, <3>3, <3>4 DEF s, t
  <2> HIDE DEF both
  <2>3. \A i \in 1..2 : both[i] = <<p, q>>[i]
    BY <2>2
  <2>4. both = <<p, q>>
    BY <2>1, <2>2, <2>3, SeqEqual
  <2> QED BY <2>4 DEF both
<1>2. /\ 1 \in DOMAIN <<p, q>> /\ 2 \in DOMAIN <<p, q>>
      /\ <<p, q>>[1] = p /\ <<p, q>>[2] = q
  OBVIOUS
<1> QED BY <1>1, <1>2 DEF Short

LEMMA AccessAsked ==
  ASSUME NEW rec, NEW capability,
         \/ rec.route \in {"run.read", "run.progress", "run.report"} /\ capability = "read_scan"
         \/ rec.route = "triage" /\ capability = "submit_scan"
  PROVE  Suits(rec, <<RunQuery(rec, capability, "access", None, FALSE)>>)
<1> DEFINE q == RunQuery(rec, capability, "access", None, FALSE)
<1>1. /\ IsQuery(q) /\ q.capability = capability /\ q.scope = ProjectScope(rec.target)
  BY DEF RunQuery, Query, IsQuery
<1>2. Demand(rec) = {[capability |-> capability, scope |-> ProjectScope(rec.target)]}
  BY Demanded
<1> HIDE DEF q
<1>3. Short(<<q>>) /\ 1 \in DOMAIN <<q>> /\ <<q>>[1] = q
  BY <1>1, Single
<1>4. \A d \in Demand(rec) : Wanted(d, q)
  BY <1>1, <1>2 DEF Wanted
<1> QED BY <1>3, <1>4 DEF Suits, HookRoutes, q

LEMMA PolicyAsked ==
  ASSUME NEW rec, ~Unregistered(rec.binding), NEW capability, NEW operation,
         \/ /\ rec.route \in {"export", "remediation"}
            /\ capability = "export" /\ operation = "export"
         \/ /\ rec.route = "ask"
            /\ capability = "external_operation" /\ operation = "external_ai"
  PROVE  Suits(rec, <<RunQuery(rec, capability, operation, rec.binding, TRUE)>>)
<1> DEFINE q == RunQuery(rec, capability, operation, rec.binding, TRUE)
<1>1. /\ IsQuery(q) /\ q.capability = capability /\ q.scope = ProjectScope(rec.target)
      /\ q.operation = operation /\ q.binding = rec.binding /\ q.cyber = TRUE
  BY DEF RunQuery, Query, IsQuery
<1>2. Demand(rec) = {[capability |-> capability, scope |-> ProjectScope(rec.target)]}
  BY Demanded
<1> HIDE DEF q
<1>3. Short(<<q>>) /\ 1 \in DOMAIN <<q>> /\ <<q>>[1] = q
  BY <1>1, Single
<1>4. (\A d \in Demand(rec) : Wanted(d, q)) /\ Outward(rec, q)
  BY <1>1, <1>2 DEF Wanted, Outward, OutwardOperations
<1> QED BY <1>3, <1>4 DEF Suits, HookRoutes, Unregistered, q

LEMMA PlanAsked ==
  ASSUME NEW rec, ~Unregistered(rec.binding), rec.route \in {"plan", "queue"}
  PROVE  Suits(rec, <<RunQuery(rec, "submit_scan", "create", rec.binding, FALSE)>> \o <<>>)
<1> DEFINE q == RunQuery(rec, "submit_scan", "create", rec.binding, FALSE)
<1>1. /\ IsQuery(q) /\ q.capability = "submit_scan" /\ q.scope = ProjectScope(rec.target)
  BY DEF RunQuery, Query, IsQuery
<1>2. Demand(rec) = {[capability |-> "submit_scan", scope |-> ProjectScope(rec.target)]}
  BY Demanded
<1> HIDE DEF q
<1>3. Short(<<q>>) /\ 1 \in DOMAIN <<q>> /\ <<q>>[1] = q /\ <<q>> \o <<>> = <<q>>
  BY <1>1, Single
<1>4. \A d \in Demand(rec) : Wanted(d, q)
  BY <1>1, <1>2 DEF Wanted
<1> QED BY <1>3, <1>4 DEF Suits, HookRoutes, q

LEMMA ExternalAsked ==
  ASSUME NEW rec, ~Unregistered(rec.binding), rec.route = "queue.external"
  PROVE  Suits(rec, <<RunQuery(rec, "submit_scan", "create", rec.binding, FALSE)>>
                      \o <<ExternalQuery(rec)>>)
<1> DEFINE p == RunQuery(rec, "submit_scan", "create", rec.binding, FALSE)
           q == ExternalQuery(rec)
<1>1. /\ IsQuery(p) /\ p.capability = "submit_scan" /\ p.scope = ProjectScope(rec.target)
      /\ IsQuery(q) /\ q.capability = "external_operation" /\ q.scope = ProjectScope(rec.target)
      /\ q.operation = "external_operation" /\ q.binding = rec.binding /\ q.cyber = TRUE
  BY DEF ExternalQuery, RunQuery, Query, IsQuery
<1>2. Demand(rec) = {[capability |-> "submit_scan", scope |-> ProjectScope(rec.target)]}
        \cup {[capability |-> "external_operation", scope |-> ProjectScope(rec.target)]}
  BY Demanded
<1> HIDE DEF p, q
<1> DEFINE qs == <<p>> \o <<q>>
<1>3. Short(qs) /\ 1 \in DOMAIN qs /\ 2 \in DOMAIN qs /\ qs[1] = p /\ qs[2] = q
  BY <1>1, Pair
<1> HIDE DEF qs
<1>4. (\A d \in Demand(rec) : Wanted(d, p) \/ Wanted(d, q)) /\ Outward(rec, q)
  BY <1>1, <1>2 DEF Wanted, Outward, OutwardOperations
<1>5. Suits(rec, qs)
  BY <1>3, <1>4 DEF Suits, HookRoutes, Unregistered
<1> QED BY <1>5 DEF qs, p, q

\* Without a query: the hook has decided, or nobody was identified.
LEMMA NothingAsked ==
  ASSUME NEW rec,
         \/ rec.route \in HookRoutes \ {"ingest"}
         \/ rec.route = "ingest" /\ BindingMatches(rec.binding)
         \/ rec.route = "triage" /\ rec.context = None
  PROVE  Suits(rec, <<>>)
<1>1. BindingMatches(rec.binding) =>
        rec.binding # None /\ rec.binding.registered /\ rec.binding.pap # None
  BY DecisionConstants DEF BindingMatches, policyBindingForClassification, papValues
<1> QED BY <1>1, DecisionConstants DEF Suits, Short, HookRoutes

\* A list: whole without an identity, asked for once, or decided item by item.
LEMMA CollectionSound ==
  ASSUME NEW c, NEW rec, Sound(c, rec), rec.phase = "handler", rec.route \in Lists
  PROVE  Sound(c, filterProjectScopedCollection(rec))
<1> DEFINE q == Query("read_scan", "access", OrganizationScope, None, FALSE)
           qs == [n \in DOMAIN Stored |-> ItemQuery(Stored[n])]
           listed == [rec EXCEPT !.stage = "list", !.queries = qs]
           whole == [rec EXCEPT !.visible = All]
           new == filterProjectScopedCollection(rec)
<1>0. /\ rec.sent = FALSE /\ rec.answer = None /\ Past(rec) /\ Addressed(rec)
      /\ rec.stage = "hook" /\ rec.queries = <<>>
  BY DEF Sound, Staged, Past
<1>1. CASE rec.context = None
  <2>1. /\ Shape(whole) /\ SameRequest(whole, rec) /\ whole.heard = rec.heard
        /\ whole.queries = rec.queries /\ whole.stage = rec.stage /\ whole.sent = rec.sent
    BY DEF Sound, Shape, SameRequest
  <2>2. new = Answered(whole, "ok")
    BY <1>1 DEF filterProjectScopedCollection
  <2> HIDE DEF new, whole
  <2>3. /\ Shape(new) /\ SameRequest(new, rec) /\ new.phase = "done" /\ new.answer = "ok"
        /\ new.heard = rec.heard /\ new.queries = <<>> /\ new.stage = "hook"
        /\ new.sent = FALSE
    BY <1>0, <2>1, <2>2, Answering DEF SameRequest
  <2>4. Staged(new) /\ Identified(c, new) /\ Judged(c, new)
    BY <1>0, <2>3 DEF Sound, Staged, Identified, Judged, SameRequest, Phases, Early,
                      Deciding, Addressed, Effective, Short
  <2>5. Owed(new) /\ Labelled(new)
    BY <1>1, <2>3, DecisionConstants DEF Owed, Labelled, SameRequest, Lists
  <2> QED BY <2>3, <2>4, <2>5 DEF Sound, new
<1>2. CASE rec.context \notin {None, "oidc"}
  <2>1. new = Asking(rec, <<q>>)
    BY <1>2 DEF filterProjectScopedCollection
  <2>2. IsQuery(q)
    BY DEF Query, IsQuery
  <2> HIDE DEF q
  <2>3. Suits(rec, <<q>>)
    BY <1>2, <2>2, Single DEF Suits, HookRoutes, Lists
  <2> QED BY <2>1, <2>3, AskingSound
<1>3. CASE rec.context = "oidc" /\ new = Answered(rec, "forbidden")
  BY <1>0, <1>3, EndsSound
<1>4. CASE rec.context = "oidc" /\ new = Proceed(listed)
  <2>1. /\ Shape(listed) /\ SameRequest(listed, rec) /\ listed.heard = rec.heard
        /\ listed.queries = qs /\ listed.stage = "list" /\ listed.sent = rec.sent
        /\ listed.answer = rec.answer
    <3> HIDE DEF qs
    <3> QED BY DEF Sound, Shape, SameRequest
  <2> HIDE DEF listed, new, qs
  <2>2. /\ Shape(new) /\ SameRequest(new, rec) /\ new.heard = rec.heard /\ new.queries = qs
        /\ new.stage = "list" /\ new.sent = FALSE /\ new.answer = None
        /\ new.phase = IF qs # <<>> THEN "decide" ELSE "act"
    BY <1>0, <1>4, <2>1, Proceeding DEF SameRequest
  <2>3. ~Effective(new)
    BY <2>2, DecisionConstants DEF Answers, Effective
  <2>4. Staged(new)
    BY <1>0, <1>4, <2>2, <2>3 DEF Staged, SameRequest, Phases, Early, Deciding, Addressed,
                                  HookRoutes, Lists
  <2>5. Identified(c, new) /\ Judged(c, new)
    BY <1>0, <2>2 DEF Sound, Identified, Judged, SameRequest
  <2>6. Owed(new)
    <3>1. Demand(new) = {}
      BY <2>2, Demanded DEF SameRequest
    <3> QED BY <3>1 DEF Owed
  <2>7. Labelled(new)
    BY <2>2 DEF Labelled, SameRequest, Lists
  <2> QED BY <2>2, <2>4, <2>5, <2>6, <2>7 DEF Sound, new
<1>5. rec.context = "oidc" => new \in {Answered(rec, "forbidden"), Proceed(listed)}
  BY DecisionConstants DEF filterProjectScopedCollection
<1> QED BY <1>1, <1>2, <1>3, <1>4, <1>5

LEMMA HandlesKeeps ==
  ASSUME IInv, NEW r \in Requests, NEW routes, NEW next, Handles(r, routes, next),
         Sound(config, next)
  PROVE  IInv'
<1>1. /\ Sound(config, req[r]) /\ req[r].phase = "handler" /\ ~req[r].sent
      /\ config' = config
  BY DEF IInv, Handles, Phase, Sound, Staged
<1>2. Sound(config, Answered(req[r], "rejected"))
  BY <1>1, EndsSound
<1>3. \/ req' = [req EXCEPT ![r] = Answered(req[r], "rejected")]
      \/ req' = [req EXCEPT ![r] = next]
  BY DEF Handles
<1> QED BY <1>1, <1>2, <1>3, Moved

LEMMA HandleKeeps ==
  ASSUME IInv, NEW r \in Requests, Handle(r)
  PROVE  IInv'
<1> DEFINE rec == req[r]
<1>1. /\ Sound(config, rec) /\ rec.phase = "handler" /\ ~rec.sent
  BY DEF IInv, Handle, ServeProcess, ServeProject, ServeCollection, ReadRun, ReadProgress,
         ReadReport, TriageFinding, ExportReport, ExportRemediation, AskRun, PlanScan,
         QueueScan, Ingest, Handles, Phase, Sound, Staged
<1>2. CASE ServeProcess(r)
  <2>1. rec.route \in HookRoutes \ {"ingest"} /\ config' = config
        /\ req' = [req EXCEPT ![r] = Asking(rec, <<>>)]
    BY <1>2 DEF ServeProcess, HookRoutes
  <2> HIDE DEF rec
  <2>2. Sound(config, Asking(rec, <<>>))
    BY <1>1, <2>1, NothingAsked, AskingSound
  <2> QED BY <2>1, <2>2, Moved
<1>3. CASE ServeProject(r)
  <2>1. rec.route \in HookRoutes \ {"ingest"}
    BY <1>3 DEF ServeProject, Handles, HookRoutes
  <2> HIDE DEF rec
  <2>2. Sound(config, Asking(rec, <<>>))
    BY <1>1, <2>1, NothingAsked, AskingSound
  <2> QED BY <1>3, <2>2, HandlesKeeps DEF ServeProject, rec
<1>4. CASE ServeCollection(r)
  <2>1. Sound(config, filterProjectScopedCollection(rec))
    BY <1>1, <1>4, CollectionSound DEF ServeCollection, Handles
  <2> QED BY <1>4, <2>1, HandlesKeeps DEF ServeCollection
<1>5. CASE ReadRun(r) \/ ReadProgress(r) \/ ReadReport(r)
  <2>1. rec.route \in {"run.read", "run.progress", "run.report"}
    BY <1>5 DEF ReadRun, ReadProgress, ReadReport, Handles
  <2> HIDE DEF rec
  <2>2. Sound(config, enforceRunAccessPolicy(rec, "read_scan"))
    BY <1>1, <2>1, AccessAsked, AskingSound DEF enforceRunAccessPolicy
  <2> QED BY <1>5, <2>2, HandlesKeeps DEF ReadRun, ReadProgress, ReadReport, rec
<1>6. CASE TriageFinding(r)
  <2> DEFINE next == IF rec.context = None THEN Asking(rec, <<>>)
                     ELSE enforceRunAccessPolicy(rec, "submit_scan")
  <2>1. rec.route = "triage"
    BY <1>6 DEF TriageFinding, Handles
  <2> HIDE DEF rec
  <2>2. Sound(config, next)
    BY <1>1, <2>1, NothingAsked, AccessAsked, AskingSound DEF enforceRunAccessPolicy
  <2>3. Handles(r, {"triage"}, next)
    BY <1>6 DEF TriageFinding, rec
  <2> HIDE DEF next
  <2> QED BY <2>2, <2>3, HandlesKeeps
<1>7. CASE ExportReport(r) \/ ExportRemediation(r)
  <2>1. rec.route \in {"export", "remediation"}
    BY <1>7 DEF ExportReport, ExportRemediation, Handles
  <2> HIDE DEF rec
  <2>2. Sound(config, enforceRunPolicy(rec, "export", "export"))
    BY <1>1, <2>1, PolicyAsked, AskingSound, EndsSound DEF enforceRunPolicy
  <2> QED BY <1>7, <2>2, HandlesKeeps DEF ExportReport, ExportRemediation, rec
<1>8. CASE AskRun(r)
  <2>1. rec.route = "ask"
    BY <1>8 DEF AskRun, Handles
  <2> HIDE DEF rec
  <2>2. Sound(config, enforceRunPolicy(rec, "external_operation", "external_ai"))
    BY <1>1, <2>1, PolicyAsked, AskingSound, EndsSound DEF enforceRunPolicy
  <2> QED BY <1>8, <2>2, HandlesKeeps DEF AskRun, rec
<1>9. ASSUME rec.route \in {"plan", "queue"} PROVE Sound(config, enforcePlanPolicy(rec, <<>>))
  <2> HIDE DEF rec
  <2> QED BY <1>1, <1>9, PlanAsked, AskingSound, EndsSound DEF enforcePlanPolicy
<1>10. CASE PlanScan(r)
  BY <1>9, <1>10, HandlesKeeps DEF PlanScan, Handles
<1>11. CASE QueueScan(r)
  <2>1. CASE Handles(r, {"queue"}, enforcePlanPolicy(rec, <<>>))
    BY <1>9, <2>1, HandlesKeeps DEF Handles
  <2>2. CASE Handles(r, {"queue.external"}, enforcePlanPolicy(rec, <<ExternalQuery(rec)>>))
    <3>1. rec.route = "queue.external"
      BY <2>2 DEF Handles
    <3> HIDE DEF rec
    <3>2. Sound(config, enforcePlanPolicy(rec, <<ExternalQuery(rec)>>))
      BY <1>1, <3>1, ExternalAsked, AskingSound, EndsSound DEF enforcePlanPolicy
    <3> QED BY <2>2, <3>2, HandlesKeeps
  <2> QED BY <1>11, <2>1, <2>2 DEF QueueScan
<1>12. CASE Ingest(r)
  <2> DEFINE next == IF BindingMatches(rec.binding) THEN Asking(rec, <<>>)
                     ELSE Answered(rec, "mismatch")
  <2>1. rec.route = "ingest"
    BY <1>12 DEF Ingest, Handles
  <2> HIDE DEF rec
  <2>2. Sound(config, next)
    BY <1>1, <2>1, NothingAsked, AskingSound, EndsSound
  <2>3. Handles(r, {"ingest"}, next)
    BY <1>12 DEF Ingest, rec
  <2> HIDE DEF next
  <2> QED BY <2>2, <2>3, HandlesKeeps
<1> QED BY <1>2, <1>3, <1>4, <1>5, <1>6, <1>7, <1>8, <1>10, <1>11, <1>12 DEF Handle

-----------------------------------------------------------------------------
(* Effects                                                                  *)

LEMMA ActKeeps ==
  ASSUME IInv, NEW r \in Requests, Act(r)
  PROVE  IInv'
<1> DEFINE rec == req[r]
<1>1. Sound(config, rec) /\ rec.phase = "act" /\ config' = config
  BY DEF IInv, Act, Phase
<1> DEFINE pre == Shown(rec)
<1>3. req' = [req EXCEPT ![r] = Answered(pre, "ok")]
  BY DEF Act
<1> HIDE DEF rec
<1>4. /\ Shape(pre) /\ SameRequest(pre, rec) /\ pre.heard = rec.heard
      /\ pre.queries = rec.queries /\ pre.stage = rec.stage /\ pre.sent = rec.sent
  BY <1>1 DEF Sound, Shape, SameRequest, Shown
<1> HIDE DEF pre
<1>5. Sound(config, Answered(pre, "ok"))
  BY <1>1, <1>4, FinishedSound
<1> QED BY <1>1, <1>3, <1>5, Moved

LEMMA AskAkbKeeps ==
  ASSUME IInv, NEW r \in Requests, askAkb(r)
  PROVE  IInv'
<1> DEFINE rec == req[r]
           asked == [rec EXCEPT !.phase = "akb", !.sent = TRUE]
<1>1. /\ Sound(config, rec) /\ rec.phase = "act" /\ rec.route = "ask" /\ config' = config
  BY DEF IInv, askAkb, Phase
<1>2. \/ \E a \in {"no-akb", "akb-failed", "rejected"} : req' = [req EXCEPT ![r] = Answered(rec, a)]
      \/ req' = [req EXCEPT ![r] = asked]
  BY DEF askAkb
<1> HIDE DEF rec
<1>3. ~rec.sent
  BY <1>1 DEF Sound, Staged
<1>4. \A a \in {"no-akb", "akb-failed", "rejected"} : Sound(config, Answered(rec, a))
  BY <1>1, <1>3, EndsSound
<1>5. /\ Shape(asked) /\ SameRequest(asked, rec) /\ asked.phase = "akb" /\ asked.sent = TRUE
      /\ asked.heard = rec.heard /\ asked.queries = rec.queries /\ asked.stage = rec.stage
      /\ asked.answer = rec.answer
  BY <1>1 DEF Sound, Shape, SameRequest
<1> HIDE DEF asked
<1>6. Past(rec) /\ rec.phase \notin Deciding \cup {"handler"}
  BY <1>1 DEF Past, Deciding
<1>7. Staged(asked)
  BY <1>1, <1>5 DEF Sound, Staged, SameRequest, Phases, Early, Deciding, Addressed
<1>8. Identified(config, asked) /\ Judged(config, asked)
  BY <1>1, <1>5, <1>6 DEF Sound, Identified, Judged, SameRequest
<1>9. Owed(asked)
  <2>1. Demand(asked) = Demand(rec) /\ asked.context = rec.context
    BY <1>5 DEF SameRequest, Demand
  <2> QED BY <1>1, <1>5, <1>6, <2>1 DEF Sound, Owed, Deciding
<1>10. Labelled(asked)
  BY <1>1, <1>5, <1>6 DEF Sound, Staged, Labelled, SameRequest, Lists
<1>11. Sound(config, asked)
  BY <1>5, <1>7, <1>8, <1>9, <1>10 DEF Sound
<1> QED BY <1>1, <1>2, <1>4, <1>11, Moved

LEMMA AkbAnswersKeeps ==
  ASSUME IInv, NEW r \in Requests, AkbAnswers(r)
  PROVE  IInv'
<1> DEFINE rec == req[r]
<1>1. Sound(config, rec) /\ rec.phase = "akb" /\ config' = config
  BY DEF IInv, AkbAnswers, Phase
<1>2. \E a : req' = [req EXCEPT ![r] = Answered(rec, a)]
  BY DEF AkbAnswers
<1> HIDE DEF rec
<1>3. \A a : Sound(config, Answered(rec, a))
  BY <1>1, FinishedSound DEF Sound, SameRequest
<1> QED BY <1>1, <1>2, <1>3, Moved

-----------------------------------------------------------------------------
(* The theorems                                                             *)

LEMMA InitSound == Init => IInv
<1> SUFFICES ASSUME Init PROVE IInv
  OBVIOUS
<1>1. /\ Shape(Fresh) /\ Fresh.phase = "idle" /\ Fresh.stage = "hook" /\ Fresh.heard = {}
      /\ Fresh.queries = <<>> /\ Fresh.answer = None /\ Fresh.sent = FALSE
      /\ Fresh.context = None /\ Fresh.route = None
  BY DEF Fresh, Shape
<1>2. \A r \in Requests : req[r] = Fresh
  BY DEF Init
<1>3. req = [r \in Requests |-> req[r]]
  BY DEF Init
<1>4. Sound(config, Fresh)
  <2>1. ~Effective(Fresh) /\ ~Past(Fresh)
    BY <1>1, DecisionConstants DEF Answers, Effective, Past
  <2> QED BY <1>1, <2>1 DEF Sound, Staged, Identified, Judged, Owed, Labelled, Phases, Early,
                            Deciding, Short
<1> QED BY <1>2, <1>3, <1>4 DEF IInv

LEMMA StepSound == IInv /\ [Next]_vars => IInv'
<1> SUFFICES ASSUME IInv, [Next]_vars PROVE IInv'
  OBVIOUS
<1>1. ASSUME NEW r \in Requests, Serve(r) PROVE IInv'
  BY <1>1, ArrivesKeeps, AuthenticateKeeps, KeysKeep, ProjectionKeeps, HandleKeeps,
     LeaveOutKeeps, DecideKeeps, CentralKeeps, ActKeeps, AskAkbKeeps, AkbAnswersKeeps DEF Serve
<1>2. ASSUME UNCHANGED <<config, req>> PROVE IInv'
  BY <1>2 DEF IInv
<1>3. CASE Tick
  BY <1>2, <1>3 DEF Tick
<1>4. ASSUME NEW k \in Keys, Rotate(k) PROVE IInv'
  BY <1>2, <1>4 DEF Rotate
<1>5. CASE UNCHANGED vars
  BY <1>2, <1>5 DEF vars
<1> QED BY <1>1, <1>3, <1>4, <1>5 DEF Next

\* The inductive invariant: at every moment of every request the identity, the
\* verdicts heard and the queries still to come account for what it may do.
THEOREM GovernanceInvariant == Spec => []IInv
<1> QED BY InitSound, StepSound, PTL DEF Spec

\* The local decision table allows nothing in production, and elsewhere only
\* for a process without authentication or under the bypass switch
\* (localGovernanceBypassAllowed).
THEOREM LocalOnlyLocally == Spec => []LocalAllowsOnlyLocally
<1>1. IInv => LocalAllowsOnlyLocally
  <2> SUFFICES ASSUME IInv, NEW r \in Requests, NEW h \in req[r].heard,
                      h.outcome = None, ~h.central
               PROVE  /\ ~config.production
                      /\ IF req[r].context = None THEN Mode(config) = "disabled"
                         ELSE req[r].context = "shared-token" /\ config.bypass
    BY DEF LocalAllowsOnlyLocally
  <2>1. localGovernanceBypassAllowed(config, req[r].context)
    BY DEF IInv, Sound, Judged
  <2> QED BY <2>1, DecisionConstants DEF localGovernanceBypassAllowed, Mode
<1> QED BY <1>1, GovernanceInvariant, PTL

\* Under OIDC no handler takes effect and nothing is sent to AKB without a
\* verified token and a central ALLOW of every capability that the route needs
\* on the project it acts on (the preHandler hook and the enforce functions of
\* server.ts together).
THEOREM EffectsDecided == Spec => []EffectsAreDecided
<1>1. IInv => EffectsAreDecided
  <2> SUFFICES ASSUME IInv, NEW r \in Requests, Mode(config) = "oidc", Effective(req[r])
               PROVE  /\ req[r].verdict = "accepted" /\ req[r].projection # None
                      /\ \A d \in Demand(req[r]) :
                           /\ d.capability \in req[r].projection.capabilities
                           /\ \E h \in req[r].heard :
                                /\ h.central /\ h.outcome = None
                                /\ h.capability = d.capability
                                /\ d.scope \in {None, h.scope}
    BY DEF EffectsAreDecided
  <2> DEFINE rec == req[r]
  <2>1. Sound(config, rec) /\ Past(rec)
    BY DEF IInv, Past
  <2>2. rec.context = "oidc" /\ rec.verdict = "accepted" /\ rec.projection # None
    BY <2>1 DEF Sound, Identified
  <2>3. rec.phase \notin {"decide", "central", "handler"}
    BY <2>1, DecisionConstants DEF Answers, Sound, Staged, Effective
  <2> HIDE DEF rec
  <2>4. \A d \in Demand(rec) : \E h \in rec.heard : Met(d, h)
    BY <2>1, <2>2, <2>3 DEF Sound, Owed, Deciding
  <2>5. \A d \in Demand(rec) : d.capability \in rec.projection.capabilities
    BY <2>1, <2>4 DEF Sound, Judged, Met
  <2> QED BY <2>2, <2>4, <2>5 DEF Met, rec
<1> QED BY <1>1, GovernanceInvariant, PTL

\* Whatever leaves the application leaves under a registered binding with a PAP
\* label, whichever table decided (enforceRunPolicy, enforcePlanPolicy, the
\* ingest route and decidePolicy together).
THEOREM OutwardLabelled == Spec => []OutwardHasPap
<1>1. IInv => OutwardHasPap
  <2> SUFFICES ASSUME IInv, NEW r \in Requests, req[r].route \in Bound \ {"plan", "queue"},
                      Effective(req[r])
               PROVE  /\ req[r].binding # None /\ req[r].binding.registered
                      /\ req[r].binding.pap # None
    BY DEF OutwardHasPap
  <2> DEFINE rec == req[r]
  <2>1. Sound(config, rec) /\ Past(rec)
    BY DEF IInv, Past
  <2>2. rec.phase \notin Deciding
    BY <2>1, DecisionConstants DEF Answers, Sound, Staged, Effective, Deciding
  <2> HIDE DEF rec
  <2>3. CASE rec.route = "ingest"
    BY <2>1, <2>3 DEF Sound, Labelled, rec
  <2>4. CASE rec.route \in {"export", "remediation", "ask", "queue.external"}
    <3>1. rec.stage # "hook"
      BY <2>1, <2>4 DEF Sound, Staged, Lists, rec
    <3> QED BY <2>1, <2>2, <2>4, <3>1 DEF Sound, Labelled, rec
  <2> QED BY <2>3, <2>4 DEF Bound, rec
<1> QED BY <1>1, GovernanceInvariant, PTL

=============================================================================
