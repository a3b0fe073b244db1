----------------------------- MODULE WebConsole -----------------------------
(***************************************************************************)
(* The web console (apps/web/src/app/page.tsx, oidc.ts): one browser tab,  *)
(* its storage, and the asynchronous functions of the page that are under  *)
(* way. Every function works with the token of the render it was started   *)
(* in, and what it does after an await meets the page as it is then.       *)
(*                                                                         *)
(* A step is the code between two awaits with the effects of React that    *)
(* the change of state sets off. The API forms an answer and the page      *)
(* receives it in one step. Loading flags are left out: they disable some  *)
(* buttons while a call is under way, the command palette starts the same  *)
(* functions without them. The page leaves with the calls of its render.   *)
(***************************************************************************)
EXTENDS Integers, FiniteSets, Bags

CONSTANTS
  None,
  Issued,    \* tokens the identity provider gives to this browser
  Pasted,    \* tokens typed into the form
  Settings,  \* how API and web build are configured, and what may happen
  MaxRuns,   \* bound on the runs started from the page
  Attempts   \* how often a run is polled, 20 in the code

Tokens == Issued \cup Pasted
Runs == 1..MaxRuns
Pieces == {"profiles", "projects", "runs", "progress", "doctor", "akbStatus",
           "akbAnswer", "capabilityAudit"}

Reloads == {"loadProfiles", "refreshProjects", "refreshScanRuns",
            "refreshAkbStatus", "refreshCapabilityAudit"}
Controls == {"registerProject", "refreshDoctor", "askAkb", "exportLatestRun",
             "exportCodexRemediation", "selectProfile",
             "openScanLog", "updateFindingTriageState", "runScan.plan",
             "runScan.queue", "saveProjectPublicUrl", "signIn", "signOut",
             "paste", "changeLocale"} \cup Reloads

\* `mode` and `configured` are the API's /auth/status, `client` says whether
\* the web build has an OIDC client, `database` whether
\* the API keeps runs that are under way. The rest bounds what happens: the
\* panels that are loaded with a session, the controls the user works, how
\* often, the runs started, the loads of the page, the tokens in storage, what tokens are good
\* for and how often that changes, and what else an answer can be.
Setting == [mode : {"disabled", "shared-token", "oidc"}, configured : BOOLEAN,
            client : BOOLEAN, database : BOOLEAN, panels : SUBSET Reloads, controls : SUBSET Controls,
            clicks : Nat, runs : Nat, visits : Nat, stored : SUBSET (Tokens \cup {None}),
            good : SUBSET {"200", "401", "403"}, changes : Nat, faults : SUBSET {"error", "403", "login"}]

ASSUME WebConstants ==
  /\ Settings \subseteq Setting
  /\ {MaxRuns, Attempts} \subseteq Nat \ {0}
  /\ None \notin Tokens \cup Runs
  /\ None \notin {"finished", "noEvidence"}
  /\ Issued \cap Pasted = {}

VARIABLES
  setting,  \* one of Settings, for good
  api,   \* what the API knows: what tokens are good for, and the runs
  web,   \* the tab: its storage and the state of the page
  tasks, \* functions of the page that await something, a bag
  left   \* how often the bounded actions may still happen

vars == <<setting, api, web, tasks, left>>

Says == {"ready", "error", "denied", "loading", "planned", "blocked", "queued",
         "progress", "finished", "noEvidence", "triaged"}
Result == [says : Says, about : Runs \cup {None}]
Said(says) == [says |-> says, about |-> None]

Web == [at : {"elsewhere", "open"},
        \* local and session storage
        stored : Tokens \cup {None}, skip : BOOLEAN, login : BOOLEAN,
        \* the state of the page; `code` is what its URL carries, `leaving`
        \* counts the sign-ins that have been started and did not fail yet,
        \* `failed` is history: one has failed since the effect last ran
        code : {"none", "good", "bad"}, status : BOOLEAN, leaving : Nat, failed : BOOLEAN,
        token : Tokens \cup {None}, denied : BOOLEAN, shown : SUBSET Pieces,
        newest : Runs \cup {None}, selected : Runs \cup {None}, result : Result]

\* The functions with one fetch, and those with several.
Single == {"loadProfiles", "refreshProjects", "registerProject", "refreshDoctor",
           "refreshAkbStatus", "refreshCapabilityAudit", "exportLatestRun",
           "exportCodexRemediation", "askAkb", "saveProjectPublicUrl",
           "runScan.plan", "runScan.queue"}
Functions == Single \cup
  {"initializeAuth", "refreshAuthStatus", "refreshScanRuns", "pollScanRun",
   "loadScanRunDetail", "updateFindingTriageState", "remainder"}

Task == [fn : Functions, token : Tokens \cup {None}, run : Runs \cup {None},
         at : {"fetch", "wait", "list", "both", "detail", "progress"},
         open : SUBSET {"detail", "progress"}, said : BOOLEAN,
         attempt : 0..Attempts, then : {"finished", "noEvidence", None}]

Start(fn, token, run, at) ==
  [fn |-> fn, token |-> token, run |-> run, at |-> at, open |-> {},
   said |-> FALSE, attempt |-> 0, then |-> None]

TypeOK ==
  /\ setting \in Settings
  /\ api \in [good : [Tokens -> {"200", "401", "403"}],
              runs : [Runs -> {"none", "queued", "running", "ended"}]]
  /\ web \in Web
  /\ IsABag(tasks) /\ BagToSet(tasks) \subseteq Task
  /\ left \in [clicks : Nat, visits : Nat, changes : Nat]

Required == setting.mode # "disabled"
AuthReady(w) == w.status /\ ~w.denied /\ (Required => w.token # None)

-----------------------------------------------------------------------------
(* What the page keeps                                                      *)

\* A page that has just been loaded, over the storage of the tab.
Loaded(w, code) ==
  [w EXCEPT !.at = "open", !.code = code, !.status = FALSE, !.leaving = 0, !.failed = FALSE,
            !.token = w.stored, !.denied = FALSE, !.shown = {}, !.newest = None,
            !.selected = None, !.result = Said("ready")]

Closed(w) == [Loaded(w, "none") EXCEPT !.at = "elsewhere", !.token = None]

Init ==
  /\ setting \in Settings
  /\ api \in [good : [Tokens -> setting.good],
              runs : {[r \in Runs |-> "none"]}]
  /\ \E stored \in setting.stored, skip \in BOOLEAN :
       web = [at |-> "elsewhere", stored |-> stored, skip |-> skip, login |-> FALSE,
              code |-> "none", status |-> FALSE, leaving |-> 0, failed |-> FALSE, token |-> None,
              denied |-> FALSE, shown |-> {}, newest |-> None, selected |-> None,
              result |-> Said("ready")]
  /\ tasks = EmptyBag
  /\ left = [clicks |-> setting.clicks, visits |-> setting.visits, changes |-> setting.changes]

latestRun(w) == IF w.selected # None THEN w.selected ELSE w.newest

clearWorkspaceData(w) == [w EXCEPT !.shown = {}, !.newest = None, !.selected = None]
setAccessDeniedMode(w, on) == [w EXCEPT !.denied = on]

persistAuthToken(w, token) ==
  [setAccessDeniedMode(w, FALSE) EXCEPT
     !.stored = token, !.skip = FALSE, !.token = token]

clearAuthToken(w) ==
  [clearWorkspaceData(setAccessDeniedMode(w, FALSE)) EXCEPT
     !.stored = None, !.token = None]

activateAccessDenied(w) ==
  [setAccessDeniedMode(clearWorkspaceData(w), TRUE) EXCEPT !.result = Said("denied")]

Refused(a) == a \in {"401", "403"}
handleApiAccessFailure(w, a) ==
  IF a = "401" THEN clearAuthToken(w) ELSE activateAccessDenied(w)

Show(w, piece) == [w EXCEPT !.shown = @ \cup {piece}]
Hide(w, piece) == [w EXCEPT !.shown = @ \ {piece}]
Saying(w, says) == [w EXCEPT !.result = Said(says)]
About(w, r, says) == [w EXCEPT !.result = [says |-> says, about |-> r]]

\* Mutant: the run's identifier is not compared.
UpdatingAny(w, r, says) == [w EXCEPT !.result.says = says]

\* setScanResult with `current.scanRunId === scanRunId ? ... : current`
Updating(w, r, says) == IF w.result.about = r THEN About(w, r, says) ELSE w

\* Mutant: the workspace is filled although it was closed meanwhile.
SettleLate(w, a, ok, failed) ==
  IF Refused(a) THEN handleApiAccessFailure(w, a) ELSE IF a # "200" THEN failed ELSE ok

\* After the await of a function: a refusal ends the session or closes the
\* workspace, an answer counts unless the workspace was closed meanwhile.
Settle(w, a, ok, failed) ==
  IF Refused(a) THEN handleApiAccessFailure(w, a)
  ELSE IF a # "200" THEN failed
  ELSE IF w.denied THEN w ELSE ok

-----------------------------------------------------------------------------
(* Answers of the API                                                       *)

\* What a call under a token can be answered: a token that is good may still
\* lack a permission ("403" in setting.faults), and any call can fail.
fetchJson(token) ==
  (setting.faults \cap {"error"}) \cup
  (IF ~Required THEN {"200"}
   ELSE IF token = None THEN {"401"}
   ELSE IF api.good[token] = "200" THEN {"200"} \cup (setting.faults \cap {"403"})
   ELSE {api.good[token]})

\* A run is found once the API knows it; without a database only its
\* evidence tells, which is there when the run has ended.
fetchOptionalJson(token, r) ==
  UNION {IF a # "200" THEN {a}
         ELSE IF api.runs[r] = "none" THEN {"404"}
         ELSE IF setting.database \/ api.runs[r] = "ended" THEN {"200"} ELSE {"404"}
         : a \in fetchJson(token)}

\* The list comes newest first, runs are numbered as they are started.
Listed == {r \in Runs : api.runs[r] # "none"}
Newest == IF Listed = {} THEN None ELSE CHOOSE r \in Listed : \A s \in Listed : s <= r

-----------------------------------------------------------------------------
(* Effects of a change                                                      *)

SignInWanted(w) ==
  /\ w.at = "open" /\ w.status /\ w.token = None /\ ~w.denied
  /\ setting.mode = "oidc" /\ setting.configured /\ setting.client
  /\ w.code = "none"
  /\ ~w.skip

\* The effect of its own: a sign-in is started.
signInEffect(w) ==
  IF SignInWanted(w) THEN [w EXCEPT !.leaving = @ + 1, !.failed = FALSE]
  ELSE [w EXCEPT !.failed = FALSE]

\* Mutant: the effect does not depend on the token.
autoLoginOnce(old, w) ==
  IF <<old.status, old.denied>> # <<w.status, w.denied>> THEN signInEffect(w) ELSE w

\* It runs again when the session has changed, and with the language.
autoLogin(old, w) ==
  IF <<old.status, old.token, old.denied>> # <<w.status, w.token, w.denied>>
  THEN signInEffect(w) ELSE w

SessionChanged(old, w) == <<AuthReady(old), old.token>> # <<AuthReady(w), w.token>>

\* The effects on [authReady, authToken].
refreshEffects(old, w) ==
  IF SessionChanged(old, w) /\ AuthReady(w)
  THEN SetToBag({IF fn = "refreshScanRuns" THEN Start(fn, w.token, w.selected, "list")
                 ELSE Start(fn, w.token, None, "fetch")
                 : fn \in setting.panels \ {"loadProfiles"}})
  ELSE EmptyBag

\* loadProfiles also depends on accessDenied and authStatus, and its cleanup
\* makes the one before ineffective.
ProfilesChanged(old, w) ==
  <<AuthReady(old), old.token, old.denied, old.status>> # <<AuthReady(w), w.token, w.denied, w.status>>
Superseded(bag) == [t \in {t \in BagToSet(bag) : t.fn # "loadProfiles"} |-> bag[t]]
profileEffect(bag, w) ==
  Superseded(bag) (+)
  IF AuthReady(w) /\ "loadProfiles" \in setting.panels
  THEN SetToBag({Start("loadProfiles", w.token, None, "fetch")}) ELSE EmptyBag

\* The page becomes w and the awaiting functions become bag.
Commit(w, bag) ==
  /\ web' = autoLogin(web, w)
  /\ tasks' = refreshEffects(web, w) (+)
                (IF ProfilesChanged(web, w) THEN profileEffect(bag, w) ELSE bag)

Resume(t, w, more) ==
  /\ Commit(w, (tasks (-) SetToBag({t})) (+) SetToBag(more))
  /\ UNCHANGED left

-----------------------------------------------------------------------------
(* Loading the page and signing in                                          *)

\* Mutant: the mode is asked for while the code is being exchanged.
VisitAsking(code) ==
  /\ left.visits > 0
  /\ code = "good" => web.at = "elsewhere" /\ web.login
  /\ left' = [left EXCEPT !.visits = @ - 1]
  /\ web' = [Loaded(web, code) EXCEPT !.login = @ /\ code = "none"]
  /\ tasks' = SetToBag({Start(fn, None, None, "fetch") :
                          fn \in {"refreshAuthStatus"} \cup IF code = "good" THEN {"initializeAuth"} ELSE {}})
  /\ UNCHANGED <<setting, api>>

\* The page is loaded: plainly, by the return from the identity provider
\* with the state of the login that is pending, or with an old callback.
\* A callback is used up whatever comes of it.
Visit(code) ==
  /\ left.visits > 0
  /\ code = "good" => web.at = "elsewhere" /\ web.login
  /\ left' = [left EXCEPT !.visits = @ - 1]
  /\ LET client == setting.client
         exchanges == client /\ code = "good"
     IN /\ web' = [Loaded(web, code) EXCEPT !.login = @ /\ ~(client /\ code # "none")]
        /\ tasks' = SetToBag({Start(IF exchanges THEN "initializeAuth" ELSE "refreshAuthStatus",
                                    None, None, "fetch")})
  /\ UNCHANGED <<setting, api>>

Leave ==
  /\ web.at = "open"
  /\ web' = Closed(web)
  /\ tasks' = EmptyBag
  /\ UNCHANGED <<setting, api, left>>

\* The code is exchanged for a token, or the exchange fails and the code
\* stays in the URL; the API is asked for its mode after that only.
initializeAuth(t) ==
  /\ t.fn = "initializeAuth"
  /\ \E w \in {[persistAuthToken(web, token) EXCEPT !.code = "none"] : token \in Issued} \cup {web} :
       Resume(t, w, {Start("refreshAuthStatus", None, None, "fetch")})
  /\ UNCHANGED <<setting, api>>

refreshAuthStatus(t) ==
  /\ t.fn = "refreshAuthStatus"
  /\ \E known \in {TRUE} \cup {"error" \notin setting.faults} :
       Resume(t, [web EXCEPT !.status = known], {})
  /\ UNCHANGED <<setting, api>>

\* startOidcLogin has computed its challenge: verifier and state are stored
\* and the tab goes to the identity provider.
startOidcLogin ==
  /\ web.leaving > 0
  /\ web' = [Closed(web) EXCEPT !.login = TRUE]
  /\ tasks' = EmptyBag
  /\ UNCHANGED <<setting, api, left>>

\* It is rejected: no storage, no digest in an insecure context, an issuer
\* that is no URL. The page stays as it is but for a message, and the effect
\* does not run again for it. The state of a login that is still pending may
\* have been overwritten by then.
startOidcLoginFails ==
  /\ "login" \in setting.faults
  /\ web.leaving > 0
  /\ \E login \in {web.login, FALSE} :
       web' = [web EXCEPT !.leaving = @ - 1, !.failed = TRUE, !.login = login]
  /\ UNCHANGED <<setting, api, tasks, left>>

-----------------------------------------------------------------------------
(* Functions with one fetch                                                 *)

loadProfiles(w, t, a) == Settle(w, a, Show(w, "profiles"), Saying(w, "error"))
refreshProjects(w, t, a) == Settle(w, a, Show(w, "projects"), w)
registerProject(w, t, a) == Settle(w, a, Show(w, "projects"), w)
\* An update of a project that is no longer shown changes nothing.
saveProjectPublicUrl(w, t, a) == Settle(w, a, w, w)
refreshDoctor(w, t, a) == Settle(w, a, Show(w, "doctor"), Saying(w, "error"))
refreshAkbStatus(w, t, a) == Settle(w, a, Show(w, "akbStatus"), Hide(w, "akbStatus"))
refreshCapabilityAudit(w, t, a) ==
  Settle(w, a, Show(w, "capabilityAudit"), Hide(w, "capabilityAudit"))
\* The file goes to the user's downloads.
exportLatestRun(w, t, a) == Settle(w, a, w, w)
exportCodexRemediation(w, t, a) == Settle(w, a, w, w)
askAkb(w, t, a) == Settle(w, a, Show(w, "akbAnswer"), w)

Fetched(w, t, a) ==
  CASE t.fn = "loadProfiles" -> loadProfiles(w, t, a)
    [] t.fn = "refreshProjects" -> refreshProjects(w, t, a)
    [] t.fn = "registerProject" -> registerProject(w, t, a)
    [] t.fn = "saveProjectPublicUrl" -> saveProjectPublicUrl(w, t, a)
    [] t.fn = "refreshDoctor" -> refreshDoctor(w, t, a)
    [] t.fn = "refreshAkbStatus" -> refreshAkbStatus(w, t, a)
    [] t.fn = "refreshCapabilityAudit" -> refreshCapabilityAudit(w, t, a)
    [] t.fn = "exportLatestRun" -> exportLatestRun(w, t, a)
    [] t.fn = "exportCodexRemediation" -> exportCodexRemediation(w, t, a)
    [] t.fn = "askAkb" -> askAkb(w, t, a)

Receive(t) ==
  /\ t.fn \in Single \ {"runScan.plan", "runScan.queue"}
  /\ \E a \in fetchJson(t.token) : Resume(t, Fetched(web, t, a), {})
  /\ UNCHANGED <<setting, api>>

-----------------------------------------------------------------------------
(* runScan                                                                  *)

planAnswered(t) ==
  /\ t.fn = "runScan.plan"
  /\ \E a \in fetchJson(t.token), says \in {"planned", "blocked"} :
       Resume(t, Settle(web, a, About(web, t.run, says), About(web, t.run, "error")), {})
  /\ UNCHANGED <<setting, api>>

Queued(t) == UNCHANGED setting /\ api' = [api EXCEPT !.runs[t.run] = "queued"]

\* The API queued the run and says so; the poll goes on with the token of
\* the render in which the scan was started.
queueAnswered(t) ==
  /\ t.fn = "runScan.queue"
  /\ "200" \in fetchJson(t.token)
  /\ Queued(t)
  /\ IF web.denied THEN Resume(t, web, {})
     ELSE Resume(t, About(web, t.run, "queued"), {Start("pollScanRun", t.token, t.run, "wait")})

\* It answered otherwise: SCAN_PLAN_BLOCKED, a refusal, or an error after
\* which the run can be queued all the same.
queueFailed(t) ==
  /\ t.fn = "runScan.queue"
  /\ \E a \in (fetchJson(t.token) \ {"200"})
               \cup IF "200" \in fetchJson(t.token) THEN {"409"} ELSE {} :
       /\ Resume(t, Settle(web, a, web, About(web, t.run, IF a = "409" THEN "blocked" ELSE "error")), {})
       /\ IF a = "error" THEN Queued(t) \/ UNCHANGED <<setting, api>> ELSE UNCHANGED <<setting, api>>

-----------------------------------------------------------------------------
(* refreshScanRuns and pollScanRun                                          *)

\* What the call of refreshScanRuns was for, once it has returned.
Returned(w, t) == IF t.then = None THEN w ELSE Updating(w, t.run, t.then)

listAnswered(t) ==
  /\ t.at = "list"
  /\ \E a \in fetchJson(t.token) :
       LET listed == Show([web EXCEPT !.newest = Newest], "runs")
           next == IF t.run # None THEN t.run ELSE Newest
       IN IF a = "200" /\ ~web.denied /\ next # None
          THEN Resume(t, listed, {[t EXCEPT !.at = "both", !.run = next, !.open = {"detail", "progress"}]})
          ELSE Resume(t, Returned(Settle(web, a, [listed EXCEPT !.selected = None], Saying(web, "error")), t), {})
  /\ UNCHANGED <<setting, api>>

loadScanRunDetail(w, r) == IF w.denied THEN w ELSE [w EXCEPT !.selected = r]
loadScanRunProgress(w, r) == IF w.denied THEN w ELSE Show(w, "progress")
Part(w, r, part) == IF part = "detail" THEN loadScanRunDetail(w, r) ELSE loadScanRunProgress(w, r)

Polling(t) == t.fn = "pollScanRun" /\ t.then = None

LastLook(t) == [t EXCEPT !.attempt = @ + 1, !.at = "list", !.then = "noEvidence"]
Waiting(t) == [t EXCEPT !.attempt = @ + 1, !.at = "wait"]

\* Mutant: nothing is said after the last attempt.
NextRoundIfAny(t) == IF t.attempt + 1 = Attempts THEN {} ELSE {Waiting(t)}

\* Mutant: one attempt too many.
NextRoundOnceMore(t) == {IF t.attempt = Attempts THEN LastLook(t) ELSE Waiting(t)}

\* The page waits for the next round; after the last one it reads the list.
NextRound(t) == {IF t.attempt + 1 = Attempts THEN LastLook(t) ELSE Waiting(t)}

\* One round of the poll is over.
Polled(w, t) ==
  IF t.said THEN [w |-> w, more |-> {[t EXCEPT !.at = "list", !.then = "finished"]}]
  ELSE [w |-> Updating(w, t.run, "progress"), more |-> NextRound(t)]

Joined(w, t) == IF Polling(t) THEN Polled(w, t) ELSE [w |-> Returned(w, t), more |-> {}]

pollScanRun(t) ==
  /\ t.at = "wait"
  /\ Resume(t, web, {[t EXCEPT !.at = "both", !.open = {"detail", "progress"}]})
  /\ UNCHANGED <<setting, api>>

\* Promise.all: both parts take effect when they arrive, the first failure
\* ends the wait and the other part goes on unattended.
partArrives(t) ==
  /\ t.at = "both"
  /\ \E part \in t.open :
     LET rest == t.open \ {part} IN
     \/ \E a \in fetchOptionalJson(t.token, t.run) \cap {"200", "404"} :
          LET w == IF a = "200" THEN Part(web, t.run, part) ELSE web
              ended == part = "detail" /\ a = "200" /\ ~web.denied /\ api.runs[t.run] = "ended"
              heard == [t EXCEPT !.open = rest, !.said = @ \/ ended]
              join == Joined(w, heard)
          IN IF rest = {} THEN Resume(t, join.w, join.more) ELSE Resume(t, w, {heard})
     \/ \E a \in fetchOptionalJson(t.token, t.run) \ {"200", "404"} :
          LET failed == IF Polling(t) THEN Updating(web, t.run, "error") ELSE Saying(web, "error") IN
          Resume(t, Returned(Settle(web, a, web, failed), t),
                 IF rest = {} THEN {}
                 ELSE {[Start("remainder", t.token, t.run, "both") EXCEPT !.open = rest]})
  /\ t.fn # "remainder"
  /\ UNCHANGED <<setting, api>>

\* The other part of a Promise.all that has failed: its own failure, a
\* refusal included, is heard by nobody.
remainderArrives(t) ==
  /\ t.fn = "remainder"
  /\ \E part \in t.open, a \in fetchOptionalJson(t.token, t.run) :
       Resume(t, IF a = "200" THEN Part(web, t.run, part) ELSE web, {})
  /\ UNCHANGED <<setting, api>>

-----------------------------------------------------------------------------
(* loadScanRunDetail by itself and after a triage                           *)

Triaging(t) == t.fn = "updateFindingTriageState"
Triaged(w, t) == IF Triaging(t) THEN [w EXCEPT !.result.says = "triaged"] ELSE w

\* openScanLog does not look at what loadScanRunDetail throws.
Threw(w, t, a) ==
  IF Triaging(t) THEN Settle(w, a, w, [w EXCEPT !.result.says = "error"]) ELSE w

updateFindingTriageState(t) ==
  /\ Triaging(t) /\ t.at = "fetch"
  /\ \E a \in fetchJson(t.token) :
       IF a = "200" /\ ~web.denied THEN Resume(t, web, {[t EXCEPT !.at = "detail"]})
       ELSE Resume(t, IF a = "200" THEN web ELSE Threw(web, t, a), {})
  /\ UNCHANGED <<setting, api>>

detailArrives(t) ==
  /\ t.at = "detail"
  /\ \E a \in fetchOptionalJson(t.token, t.run) :
       IF a = "200" /\ ~web.denied
       THEN Resume(t, loadScanRunDetail(web, t.run), {[t EXCEPT !.at = "progress"]})
       ELSE Resume(t, IF a \in {"200", "404"} THEN Triaged(web, t) ELSE Threw(web, t, a), {})
  /\ UNCHANGED <<setting, api>>

\* Progress that cannot be read is no reason to fail, a refusal is.
progressArrives(t) ==
  /\ t.at = "progress"
  /\ \E a \in fetchOptionalJson(t.token, t.run) :
       Resume(t, IF Refused(a) THEN Threw(web, t, a)
                 ELSE Triaged(IF a = "200" THEN loadScanRunProgress(web, t.run) ELSE web, t), {})
  /\ UNCHANGED <<setting, api>>

-----------------------------------------------------------------------------
(* What the user does                                                       *)

Workspace == web.at = "open" /\ ~web.denied

Click(fn, w, more) ==
  /\ fn \in setting.controls
  /\ left.clicks > 0
  /\ left' = [left EXCEPT !.clicks = @ - 1]
  /\ Commit(w, tasks (+) SetToBag(more))
  /\ UNCHANGED <<setting, api>>

\* Functions that refuse to start without a session, or do not ask for one.
StartSingle(fn) ==
  /\ Workspace
  /\ AuthReady(web) \/ fn = "refreshAkbStatus"
  /\ fn \in {"exportLatestRun", "exportCodexRemediation", "askAkb"} => latestRun(web) # None
  /\ Click(fn, IF fn = "askAkb" THEN Hide(web, "akbAnswer") ELSE web,
           {Start(fn, web.token, None, "fetch")})

\* The doctor's button is there without a session, too.
refuseDoctor ==
  /\ Workspace /\ ~AuthReady(web)
  /\ Click("refreshDoctor", Saying(web, "error"), {})

\* Another profile is chosen: the profiles are loaded again.
SelectProfile ==
  /\ Workspace /\ "selectProfile" \in setting.controls
  /\ left.clicks > 0
  /\ left' = [left EXCEPT !.clicks = @ - 1]
  /\ tasks' = profileEffect(tasks, web)
  /\ UNCHANGED <<setting, api, web>>

\* The run of the list's button, of the latest run, or the one shown.
StartRefresh ==
  /\ Workspace
  /\ \E r \in {None, latestRun(web)} :
       Click("refreshScanRuns", web,
             {Start("refreshScanRuns", web.token, IF r # None THEN r ELSE web.selected, "list")})

openScanLog ==
  /\ Workspace
  /\ \/ /\ web.result.about # None
        /\ Click("openScanLog", web, {Start("refreshScanRuns", web.token, web.result.about, "list")})
     \/ /\ web.result.about = None /\ latestRun(web) # None
        /\ Click("openScanLog", web, {Start("loadScanRunDetail", web.token, latestRun(web), "detail")})

StartTriage ==
  /\ Workspace /\ AuthReady(web) /\ web.selected # None
  /\ Click("updateFindingTriageState", web,
           {Start("updateFindingTriageState", web.token, web.selected, "fetch")})

\* The next run's number; another web target is saved with the project.
runScan(fn) ==
  /\ Workspace /\ AuthReady(web)
  /\ \E r \in Runs, target \in {"same", "other"} :
       /\ r <= setting.runs /\ api.runs[r] = "none"
       /\ \A t \in BagToSet(tasks) : t.run # r
       /\ web.result.about # r
       /\ \A s \in 1..(r - 1) : api.runs[s] # "none" \/ web.result.about = s
       /\ Click(fn, About(web, r, "loading"),
                {Start(fn, web.token, r, "fetch")} \cup
                IF target = "same" \/ "saveProjectPublicUrl" \notin setting.controls THEN {}
                ELSE {Start("saveProjectPublicUrl", web.token, None, "fetch")})

\* A target that is missing or malformed.
runScanRefused ==
  /\ Workspace /\ AuthReady(web)
  /\ \E says \in {"error", "blocked"} : Click("runScan.queue", Saying(web, says), {})

signInWithOidc ==
  /\ web.at = "open" /\ setting.client
  /\ Click("signIn", [setAccessDeniedMode(web, FALSE) EXCEPT !.skip = FALSE, !.leaving = @ + 1], {})

\* The effect that signs in depends on the texts it shows.
changeLocale == web.at = "open" /\ Click("changeLocale", signInEffect(web), {})

\* Under OIDC the tab goes to the provider's logout page.
signOut ==
  /\ web.at = "open"
  /\ LET w == [clearAuthToken(web) EXCEPT !.skip = TRUE] IN
     IF setting.client /\ setting.mode = "oidc" /\ web.status
     THEN /\ "signOut" \in setting.controls /\ left.clicks > 0
          /\ left' = [left EXCEPT !.clicks = @ - 1]
          /\ web' = Closed(w) /\ tasks' = EmptyBag
          /\ UNCHANGED <<setting, api>>
     ELSE Click("signOut", w, {})

pasteToken ==
  /\ Workspace /\ web.status /\ Required /\ web.token = None
  /\ \E token \in Pasted : Click("paste", persistAuthToken(web, token), {})

-----------------------------------------------------------------------------
(* The API                                                                  *)

\* A worker takes the run, and ends it.
Work(r) ==
  /\ \/ api.runs[r] = "queued" /\ api' = [api EXCEPT !.runs[r] = "running"]
     \/ api.runs[r] = "running" /\ api' = [api EXCEPT !.runs[r] = "ended"]
  /\ UNCHANGED <<setting, web, tasks, left>>

\* A token expires, a role is given or taken.
Change(token) ==
  /\ left.changes > 0
  /\ left' = [left EXCEPT !.changes = @ - 1]
  /\ \E g \in {"200", "401", "403"} \ {api.good[token]} :
       api' = [api EXCEPT !.good[token] = g]
  /\ UNCHANGED <<setting, web, tasks>>

Answer(t) ==
  \/ initializeAuth(t) \/ refreshAuthStatus(t) \/ Receive(t)
  \/ planAnswered(t) \/ queueAnswered(t) \/ queueFailed(t)
  \/ listAnswered(t) \/ pollScanRun(t) \/ partArrives(t) \/ remainderArrives(t)
  \/ updateFindingTriageState(t) \/ detailArrives(t) \/ progressArrives(t)

Use ==
  \/ \E fn \in Single \ {"loadProfiles", "saveProjectPublicUrl", "runScan.plan", "runScan.queue"} : StartSingle(fn)
  \/ refuseDoctor \/ SelectProfile \/ StartRefresh \/ openScanLog \/ StartTriage
  \/ \E fn \in {"runScan.plan", "runScan.queue"} : runScan(fn)
  \/ runScanRefused \/ signInWithOidc \/ signOut \/ pasteToken \/ changeLocale

Next ==
  \/ \E code \in {"none", "good", "bad"} : Visit(code)
  \/ Leave \/ startOidcLogin \/ startOidcLoginFails
  \/ \E t \in BagToSet(tasks) : Answer(t)
  \/ Use
  \/ \E r \in Runs : Work(r)
  \/ \E token \in Tokens : Change(token)

Spec == Init /\ [][Next]_vars

\* Calls are answered, timers run out and workers work.
FairSpec ==
  Spec /\ WF_vars((\E t \in BagToSet(tasks) : Answer(t)) \/ (\E r \in Runs : Work(r)))

-----------------------------------------------------------------------------
(* Properties                                                               *)

\* docs/security.md:31-35: while access is denied the page holds nothing of
\* the workspace, whatever was under way when the refusal came.
DeniedShowsNothing ==
  web.denied => /\ web.shown = {} /\ web.newest = None /\ web.selected = None

\* A session that came from a sign-in has no function under way that works
\* with another token: only its own refusals can end it. The buttons that
\* read the runs and the state of AKB again do not wait for a session, and
\* of a run's detail, opened by itself, a refusal is heard by nobody.
SessionsDoNotMix ==
  web.token \in Issued =>
    \A t \in BagToSet(tasks) :
      \/ t.fn \in {"initializeAuth", "refreshAuthStatus", "refreshAkbStatus", "refreshScanRuns"}
      \/ t.fn \in {"loadScanRunDetail", "remainder"}
      \/ t.token = web.token

\* docs/security.md:27-31: without a token, and unless the user signed out,
\* the sign-in is on its way. If not, it has failed to start since the session
\* or the language last changed: no other change of the page leaves it without.
SignInFollows == SignInWanted(web) => web.leaving > 0 \/ web.failed

\* A run the page calls finished has ended, and no late answer of an older
\* function makes it queued or running again.
FinishedStays ==
  [][web.result.says = "finished" =>
       /\ web.result.about \in Runs /\ api.runs[web.result.about] = "ended"
       /\ web'.result.about = web.result.about => web'.result.says \notin {"queued", "progress", "loading"}]_vars

\* What the page says of a run that was queued changes in the end, unless
\* the session ends or the page is left.
QueuedIsFollowed ==
  \A r \in Runs :
    (web.result.about = r /\ web.result.says \in {"queued", "progress"}) ~>
      \/ web.result.about # r \/ web.result.says \notin {"queued", "progress"}
      \/ web.at = "elsewhere" \/ (Required /\ web.token = None)
=============================================================================
