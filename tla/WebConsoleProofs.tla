-------------------------- MODULE WebConsoleProofs --------------------------
(***************************************************************************)
(* Proofs about WebConsole, for any tokens, settings and bounds.           *)
(*                                                                         *)
(* The first part is about one transition of the page: a page that was     *)
(* denied access holds nothing of the workspace, and a sign-in that is     *)
(* wanted is on its way, or has failed to start. It follows the page       *)
(* through the operators of a step up to Commit, and the bag of awaiting   *)
(* functions plays no part.                                                *)
(*                                                                         *)
(* The second part is about the functions under way: what each of them     *)
(* presumes of the page and of the runs (Sound) is kept by every step of   *)
(* the others, because one function loads the session and one speaks of a  *)
(* run (Rivals). The types, the session that is not mixed with another     *)
(* and the run that stays finished follow from it.                         *)
(***************************************************************************)
EXTENDS WebConsole, WellFoundedInduction, TLAPS

\* A page has the fields of a page.
Page(w) ==
  /\ w \in [at : {w.at}, stored : {w.stored}, skip : {w.skip}, login : {w.login},
            code : {w.code}, status : {w.status}, leaving : {w.leaving},
            failed : {w.failed},
            token : {w.token}, denied : {w.denied}, shown : {w.shown},
            newest : {w.newest}, selected : {w.selected}, result : {w.result}]
  /\ w.denied \in BOOLEAN /\ w.leaving \in Nat /\ w.failed \in BOOLEAN

Clean(w) ==
  /\ Page(w)
  /\ w.denied => w.shown = {} /\ w.newest = None /\ w.selected = None

\* What decides whether a sign-in is wanted, apart from the session.
Kept(old, w) ==
  /\ w.at = old.at /\ w.code = old.code /\ w.skip = old.skip
  /\ w.leaving = old.leaving /\ w.failed = old.failed

\* No sign-in is wanted that was not wanted before, but by a change of session.
Settled(old, w) ==
  \/ Kept(old, w)
  \/ w.leaving > 0
  \/ ~SignInWanted(w)

IInv == Clean(web) /\ SignInFollows

-----------------------------------------------------------------------------
(* Operators on the page                                                    *)

LEMMA Talking ==
  ASSUME NEW w, Clean(w)
  PROVE  /\ \A says : Clean(Saying(w, says)) /\ Kept(w, Saying(w, says))
         /\ \A r, says : Clean(About(w, r, says)) /\ Kept(w, About(w, r, says))
         /\ \A r, says : Clean(Updating(w, r, says)) /\ Kept(w, Updating(w, r, says))
         /\ \A says : /\ Clean([w EXCEPT !.result.says = says])
                      /\ Kept(w, [w EXCEPT !.result.says = says])
<1>1. \A new : Clean([w EXCEPT !.result = new]) /\ Kept(w, [w EXCEPT !.result = new])
  BY DEF Clean, Page, Kept
<1>2. Clean(w) /\ Kept(w, w)
  BY DEF Kept
<1> QED BY <1>1, <1>2 DEF Saying, About, Updating

LEMMA Showing ==
  ASSUME NEW w, Clean(w)
  PROVE  /\ \A piece : Clean(Hide(w, piece)) /\ Kept(w, Hide(w, piece))
         /\ ~w.denied => \A piece : Clean(Show(w, piece)) /\ Kept(w, Show(w, piece))
         /\ ~w.denied => \A r : /\ Clean([w EXCEPT !.newest = r]) /\ ~[w EXCEPT !.newest = r].denied
                              /\ Kept(w, [w EXCEPT !.newest = r])
         /\ ~w.denied => \A r : /\ Clean([w EXCEPT !.selected = r])
                              /\ Kept(w, [w EXCEPT !.selected = r])
BY DEF Clean, Page, Kept, Hide, Show

LEMMA Refusing ==
  ASSUME NEW w, Clean(w), NEW a
  PROVE  Clean(handleApiAccessFailure(w, a)) /\ Kept(w, handleApiAccessFailure(w, a))
<1> DEFINE cleared(on) == clearWorkspaceData(setAccessDeniedMode(w, on))
<1>1. Clean(clearAuthToken(w)) /\ Kept(w, clearAuthToken(w))
  BY DEF clearAuthToken, clearWorkspaceData, setAccessDeniedMode, Clean, Page, Kept
<1>2. Clean(activateAccessDenied(w)) /\ Kept(w, activateAccessDenied(w))
  BY DEF activateAccessDenied, clearWorkspaceData, setAccessDeniedMode, Clean, Page, Kept
<1> QED BY <1>1, <1>2 DEF handleApiAccessFailure

\* An answer is looked at only while the workspace is open.
LEMMA Settling ==
  ASSUME NEW w, Clean(w), NEW a, NEW ok, NEW failed,
         ~w.denied => Clean(ok) /\ Kept(w, ok),
         Clean(failed) /\ Kept(w, failed)
  PROVE  Clean(Settle(w, a, ok, failed)) /\ Kept(w, Settle(w, a, ok, failed))
BY Refusing DEF Settle, Kept

LEMMA FetchedClean ==
  ASSUME NEW w, Clean(w), NEW t, t.fn \in Single \ {"runScan.plan", "runScan.queue"}, NEW a
  PROVE  Clean(Fetched(w, t, a)) /\ Kept(w, Fetched(w, t, a))
<1>1. Clean(w) /\ Kept(w, w)
  BY DEF Kept
<1>2. \A piece : Clean(Settle(w, a, Show(w, piece), Saying(w, "error")))
                 /\ Kept(w, Settle(w, a, Show(w, piece), Saying(w, "error")))
  BY Talking, Showing, Settling
<1>3. \A piece : Clean(Settle(w, a, Show(w, piece), w)) /\ Kept(w, Settle(w, a, Show(w, piece), w))
  BY <1>1, Showing, Settling
<1>4. Clean(Settle(w, a, w, w)) /\ Kept(w, Settle(w, a, w, w))
  BY <1>1, Settling
<1>5. \A piece : Clean(Settle(w, a, Show(w, piece), Hide(w, piece)))
                 /\ Kept(w, Settle(w, a, Show(w, piece), Hide(w, piece)))
  BY Showing, Settling
<1> QED BY <1>2, <1>3, <1>4, <1>5
        DEF Fetched, Single, loadProfiles, refreshProjects, registerProject, saveProjectPublicUrl,
            refreshDoctor, refreshAkbStatus, refreshCapabilityAudit, exportLatestRun,
            exportCodexRemediation, askAkb

LEMMA PartClean ==
  ASSUME NEW w, Clean(w), NEW r, NEW part
  PROVE  Clean(Part(w, r, part)) /\ Kept(w, Part(w, r, part))
BY Showing DEF Part, loadScanRunDetail, loadScanRunProgress, Kept

-----------------------------------------------------------------------------
(* Steps                                                                    *)

\* The count of the sign-ins does not matter to the rest of the page.
LEMMA Recounted ==
  ASSUME NEW w, Clean(w), NEW n \in Nat, NEW failed \in BOOLEAN
  PROVE  /\ Clean([w EXCEPT !.leaving = n, !.failed = failed])
         /\ \A login : Clean([w EXCEPT !.leaving = n, !.failed = failed, !.login = login])
         /\ \A skip : Clean([w EXCEPT !.skip = skip, !.leaving = n])
BY DEF Clean, Page

\* The effect starts a sign-in when one is wanted.
LEMMA EffectClean ==
  ASSUME NEW w, Clean(w)
  PROVE  /\ Clean(signInEffect(w))
         /\ SignInWanted(signInEffect(w)) => signInEffect(w).leaving > 0
<1> DEFINE going == [w EXCEPT !.leaving = @ + 1, !.failed = FALSE]
           told == [w EXCEPT !.failed = FALSE]
<1>1. Clean(going) /\ going.leaving > 0
  <2>1. w.leaving \in Nat
    BY DEF Clean, Page
  <2>2. PICK n \in Nat : n = w.leaving + 1 /\ n > 0
    BY <2>1
  <2>3. going = [w EXCEPT !.leaving = n, !.failed = FALSE]
    BY <2>2
  <2>4. [w EXCEPT !.leaving = n, !.failed = FALSE].leaving = n
    BY DEF Clean, Page
  <2> HIDE DEF going
  <2> QED BY <2>2, <2>3, <2>4, Recounted
<1>2. Clean(told)
  BY DEF Clean, Page
<1>3. SignInWanted(told) => SignInWanted(w)
  BY DEF SignInWanted, Clean, Page
<1> HIDE DEF going, told
<1>4. signInEffect(w) = IF SignInWanted(w) THEN going ELSE told
  BY DEF signInEffect, going, told
<1> QED BY <1>1, <1>2, <1>3, <1>4

LEMMA Committed ==
  ASSUME IInv, NEW w, Clean(w), Settled(web, w), web' = autoLogin(web, w), setting' = setting
  PROVE  IInv'
<1>1. ASSUME Clean(web'), SignInWanted(web)' => web'.leaving > 0 \/ web'.failed
      PROVE  IInv'
  BY <1>1 DEF IInv, Clean, Page, SignInFollows, SignInWanted
<1>2. CASE web' = signInEffect(w)
  <2>1. PICK v : v = signInEffect(w)
    OBVIOUS
  <2>2. Clean(v) /\ (SignInWanted(v) => v.leaving > 0)
    BY <2>1, EffectClean
  <2>3. SignInWanted(web)' => SignInWanted(v)
    BY <1>2, <2>1 DEF SignInWanted
  <2>4. web' = v
    BY <1>2, <2>1
  <2> QED BY <1>1, <2>2, <2>3, <2>4
<1>3. CASE web' = w /\ w.status = web.status /\ w.token = web.token /\ w.denied = web.denied
  <2>1. SUFFICES ASSUME SignInWanted(w), Kept(web, w)
                 PROVE  w.leaving > 0 \/ w.failed
    <3>1. SignInWanted(web)' => SignInWanted(w)
      BY <1>3 DEF SignInWanted
    <3> QED BY <1>1, <1>3, <2>1, <3>1 DEF Settled
  <2>2. SignInWanted(web)
    BY <1>3, <2>1 DEF SignInWanted, Kept
  <2> QED BY <2>1, <2>2 DEF IInv, SignInFollows, Kept
<1> QED BY <1>2, <1>3 DEF autoLogin

\* A function that goes on leaves a clean page behind.
LEMMA Resuming ==
  ASSUME IInv, NEW t, NEW w, NEW more, Resume(t, w, more), Clean(w), Kept(web, w),
         setting' = setting
  PROVE  IInv'
BY Committed DEF Resume, Commit, Settled

LEMMA LoadedClean ==
  ASSUME NEW w, Page(w), NEW code
  PROVE  /\ Clean(Loaded(w, code)) /\ Loaded(w, code).status = FALSE
         /\ Clean(Closed(w)) /\ Closed(w).at = "elsewhere"
BY DEF Loaded, Closed, Clean, Page

\* A page that is replaced, where no sign-in is wanted.
LEMMA Replaced ==
  ASSUME Clean(web'), web'.status = FALSE \/ web'.at = "elsewhere"
  PROVE  IInv'
BY DEF IInv, Clean, SignInFollows, SignInWanted

LEMMA VisitKeeps ==
  ASSUME IInv, NEW code, Visit(code)
  PROVE  IInv'
<1>1. PICK login : web' = [Loaded(web, code) EXCEPT !.login = login]
  BY DEF Visit
<1>2. Clean(Loaded(web, code)) /\ Loaded(web, code).status = FALSE
  BY LoadedClean DEF IInv, Clean
<1>3. Clean(web') /\ web'.status = FALSE
  BY <1>1, <1>2 DEF Clean, Page
<1> QED BY <1>3, Replaced

LEMMA AwayKeeps ==
  ASSUME IInv, Leave \/ startOidcLogin \/ startOidcLoginFails
  PROVE  IInv'
<1>1. Clean(Closed(web)) /\ Closed(web).at = "elsewhere"
  BY LoadedClean DEF IInv, Clean
<1>2. CASE Leave \/ startOidcLogin
  <2>1. web' = Closed(web) \/ web' = [Closed(web) EXCEPT !.login = TRUE]
    BY <1>2 DEF Leave, startOidcLogin
  <2>2. Clean(web') /\ web'.at = "elsewhere"
    BY <1>1, <2>1 DEF Clean, Page
  <2> QED BY <2>2, Replaced
<1>3. CASE startOidcLoginFails
  <2>1. PICK login : web' = [web EXCEPT !.leaving = @ - 1, !.failed = TRUE, !.login = login]
    BY <1>3 DEF startOidcLoginFails
  <2>2. web.leaving > 0 /\ web.leaving \in Nat
    BY <1>3 DEF startOidcLoginFails, IInv, Clean, Page
  <2>3. PICK n \in Nat : n = web.leaving - 1
    BY <2>2
  <2>4. web' = [web EXCEPT !.leaving = n, !.failed = TRUE, !.login = login]
    BY <2>1, <2>3
  <2>5. Clean(web') /\ web'.failed
    <3>1. Clean(web)
      BY DEF IInv
    <3>2. Clean(web')
      BY <2>4, <3>1, Recounted
    <3>3. web'.failed
      BY <2>4, <3>1 DEF Clean, Page
    <3> QED BY <3>2, <3>3
  <2> QED BY <2>5 DEF IInv, Clean, SignInFollows
<1> QED BY <1>2, <1>3

LEMMA Persisting ==
  ASSUME NEW w, Clean(w), NEW token \in Tokens
  PROVE  Clean(persistAuthToken(w, token)) /\ persistAuthToken(w, token).token = token
BY DEF Clean, Page, persistAuthToken, setAccessDeniedMode

LEMMA AuthKeeps ==
  ASSUME IInv, NEW t, initializeAuth(t) \/ refreshAuthStatus(t)
  PROVE  IInv'
<1>1. PICK w, more : /\ Resume(t, w, more)
                     /\ \/ \E token \in Issued : w = [persistAuthToken(web, token) EXCEPT !.code = "none"]
                        \/ w = web
                        \/ \E known : w = [web EXCEPT !.status = known]
  BY DEF initializeAuth, refreshAuthStatus
<1>2. setting' = setting /\ web' = autoLogin(web, w)
  BY <1>1 DEF initializeAuth, refreshAuthStatus, Resume, Commit
<1>3. CASE \E token \in Issued : w = [persistAuthToken(web, token) EXCEPT !.code = "none"]
  <2>1. PICK token \in Issued : w = [persistAuthToken(web, token) EXCEPT !.code = "none"]
    BY <1>3
  <2> DEFINE new == persistAuthToken(web, token)
  <2>2. Clean(new) /\ new.token # None
    BY Persisting, WebConstants DEF IInv, Tokens
  <2> HIDE DEF new
  <2>3. Clean(w) /\ w.token # None
    BY <2>1, <2>2 DEF Clean, Page, new
  <2> QED BY <1>2, <2>3, Committed DEF Settled, SignInWanted
<1>4. CASE w = web
  BY <1>2, <1>4, Committed DEF IInv, Settled, Kept
<1>5. CASE \E known : w = [web EXCEPT !.status = known]
  <2>1. Clean(w) /\ Kept(web, w)
    BY <1>5 DEF IInv, Clean, Page, Kept
  <2> QED BY <1>2, <2>1, Committed DEF Settled
<1> QED BY <1>1, <1>3, <1>4, <1>5

LEMMA ScanKeeps ==
  ASSUME IInv, NEW t, Receive(t) \/ planAnswered(t) \/ queueAnswered(t) \/ queueFailed(t)
  PROVE  IInv'
<1>0. Clean(web) /\ Kept(web, web)
  BY DEF IInv, Kept
<1>1. ASSUME NEW a, NEW says, NEW other
      PROVE  /\ Clean(Settle(web, a, About(web, t.run, says), About(web, t.run, other)))
             /\ Kept(web, Settle(web, a, About(web, t.run, says), About(web, t.run, other)))
             /\ Clean(Settle(web, a, web, About(web, t.run, other)))
             /\ Kept(web, Settle(web, a, web, About(web, t.run, other)))
  <2>1. \A what : Clean(About(web, t.run, what)) /\ Kept(web, About(web, t.run, what))
    BY <1>0, Talking
  <2> QED BY <1>0, <2>1, Settling
<1>2. CASE Receive(t)
  <2>1. PICK a : Resume(t, Fetched(web, t, a), {})
    BY <1>2 DEF Receive
  <2>2. Clean(Fetched(web, t, a)) /\ Kept(web, Fetched(web, t, a))
    BY <1>0, <1>2, FetchedClean DEF Receive
  <2>3. setting' = setting
    BY <1>2 DEF Receive
  <2> QED BY <2>1, <2>2, <2>3, Resuming
<1>3. CASE planAnswered(t)
  <2>1. PICK a, says : Resume(t, Settle(web, a, About(web, t.run, says), About(web, t.run, "error")), {})
    BY <1>3 DEF planAnswered
  <2>2. setting' = setting
    BY <1>3 DEF planAnswered
  <2> QED BY <1>1, <2>1, <2>2, Resuming
<1>4. CASE queueAnswered(t)
  <2>1. \/ Resume(t, web, {})
        \/ \E more : Resume(t, About(web, t.run, "queued"), more)
    BY <1>4 DEF queueAnswered
  <2>2. setting' = setting
    BY <1>4 DEF queueAnswered, Queued
  <2>3. Clean(About(web, t.run, "queued")) /\ Kept(web, About(web, t.run, "queued"))
    BY <1>0, Talking
  <2> QED BY <1>0, <2>1, <2>2, <2>3, Resuming
<1>5. CASE queueFailed(t)
  <2>1. PICK a, other : Resume(t, Settle(web, a, web, About(web, t.run, other)), {})
    BY <1>5 DEF queueFailed
  <2>2. setting' = setting
    BY <1>5 DEF queueFailed, Queued
  <2> QED BY <1>1, <2>1, <2>2, Resuming
<1> QED BY <1>2, <1>3, <1>4, <1>5

LEMMA Returning ==
  ASSUME NEW w, Clean(w), NEW t
  PROVE  /\ Clean(Returned(w, t)) /\ Kept(w, Returned(w, t))
         /\ Clean(Joined(w, t).w) /\ Kept(w, Joined(w, t).w)
         /\ Clean(Triaged(w, t)) /\ Kept(w, Triaged(w, t))
         /\ \A a : Clean(Threw(w, t, a)) /\ Kept(w, Threw(w, t, a))
<1>0. Clean(w) /\ Kept(w, w)
  BY DEF Kept
<1>1. Clean(Returned(w, t)) /\ Kept(w, Returned(w, t))
  BY <1>0, Talking DEF Returned
<1>2. Clean(Updating(w, t.run, "progress")) /\ Kept(w, Updating(w, t.run, "progress"))
  BY Talking
<1>3. Clean(Joined(w, t).w) /\ Kept(w, Joined(w, t).w)
  BY <1>0, <1>1, <1>2 DEF Joined, Polled
<1>4. Clean(Triaged(w, t)) /\ Kept(w, Triaged(w, t))
  BY <1>0, Talking DEF Triaged
<1>5. \A says : /\ Clean([w EXCEPT !.result.says = says])
                /\ Kept(w, [w EXCEPT !.result.says = says])
  BY Talking
<1>6. \A a : Clean(Threw(w, t, a)) /\ Kept(w, Threw(w, t, a))
  BY <1>0, <1>5, Settling DEF Threw
<1> QED BY <1>1, <1>3, <1>4, <1>6

LEMMA ListKeeps ==
  ASSUME IInv, NEW t, listAnswered(t) \/ pollScanRun(t)
  PROVE  IInv'
<1> DEFINE listed == Show([web EXCEPT !.newest = Newest], "runs")
           none == [listed EXCEPT !.selected = None]
<1>0. Clean(web) /\ Kept(web, web) /\ setting' = setting
  BY DEF IInv, Kept, listAnswered, pollScanRun
<1>1. ~web.denied => Clean(listed) /\ Kept(web, listed) /\ Clean(none) /\ Kept(web, none)
  <2> DEFINE first == [web EXCEPT !.newest = Newest]
  <2> SUFFICES ASSUME ~web.denied
               PROVE Clean(listed) /\ Kept(web, listed) /\ Clean(none) /\ Kept(web, none)
    OBVIOUS
  <2>1. Clean(first) /\ Kept(web, first) /\ ~first.denied
    BY <1>0, Showing
  <2> HIDE DEF first
  <2>2. Clean(Show(first, "runs")) /\ Kept(first, Show(first, "runs")) /\ ~Show(first, "runs").denied
    BY <2>1, Showing DEF Show, Clean, Page
  <2> DEFINE shown == Show(first, "runs")
  <2> HIDE DEF shown
  <2>3. Clean([shown EXCEPT !.selected = None]) /\ Kept(shown, [shown EXCEPT !.selected = None])
    BY <2>2, Showing DEF shown
  <2> QED BY <2>1, <2>2, <2>3 DEF Kept, shown, first
<1>2. \A a : /\ Clean(Settle(web, a, none, Saying(web, "error")))
             /\ Kept(web, Settle(web, a, none, Saying(web, "error")))
  <2> HIDE DEF none, listed
  <2>1. Clean(Saying(web, "error")) /\ Kept(web, Saying(web, "error"))
    BY <1>0, Talking
  <2> QED BY <1>0, <1>1, <2>1, Settling
<1>3. CASE pollScanRun(t)
  <2>1. \E more : Resume(t, web, more)
    BY <1>3 DEF pollScanRun
  <2> QED BY <1>0, <2>1, Resuming
<1>4. CASE listAnswered(t)
  <2>1. PICK a : \/ ~web.denied /\ \E more : Resume(t, listed, more)
                 \/ Resume(t, Returned(Settle(web, a, none, Saying(web, "error")), t), {})
    BY <1>4 DEF listAnswered
  <2> HIDE DEF none, listed
  <2> DEFINE w == Settle(web, a, none, Saying(web, "error"))
  <2>2. Clean(w) /\ Kept(web, w)
    BY <1>2
  <2> HIDE DEF w
  <2>3. Clean(Returned(w, t)) /\ Kept(web, Returned(w, t))
    BY <2>2, Returning DEF Kept
  <2>4. \/ ~web.denied /\ \E more : Resume(t, listed, more)
        \/ Resume(t, Returned(w, t), {})
    BY <2>1 DEF w
  <2> QED BY <1>0, <1>1, <2>3, <2>4, Resuming
<1> QED BY <1>3, <1>4

LEMMA PartKeeps ==
  ASSUME IInv, NEW t, partArrives(t) \/ remainderArrives(t)
  PROVE  IInv'
<1>0. Clean(web) /\ Kept(web, web) /\ setting' = setting
  BY DEF IInv, Kept, partArrives, remainderArrives
<1>1. \A part : Clean(Part(web, t.run, part)) /\ Kept(web, Part(web, t.run, part))
  BY <1>0, PartClean
<1>2. CASE remainderArrives(t)
  <2>1. \E part, w : w \in {Part(web, t.run, part), web} /\ Resume(t, w, {})
    BY <1>2 DEF remainderArrives
  <2> QED BY <1>0, <1>1, <2>1, Resuming
<1>3. CASE partArrives(t)
  <2>1. \/ \E part, w, heard, more :
             /\ w \in {Part(web, t.run, part), web}
             /\ Resume(t, Joined(w, heard).w, more) \/ Resume(t, w, more)
        \/ \E a, failed, more :
             /\ failed \in {Updating(web, t.run, "error"), Saying(web, "error")}
             /\ Resume(t, Returned(Settle(web, a, web, failed), t), more)
    <3>1. PICK part \in t.open :
            LET rest == t.open \ {part} IN
            \/ \E a \in fetchOptionalJson(t.token, t.run) \cap {"200", "404"} :
                 LET w == IF a = "200" THEN Part(web, t.run, part) ELSE web
                     ended == part = "detail" /\ a = "200" /\ ~web.denied /\ api.runs[t.run] = "ended"
                     heard == [t EXCEPT !.open = rest, !.said = @ \/ ended]
                     join == Joined(w, heard)
                 IN IF rest = {} THEN Resume(t, join.w, join.more) ELSE Resume(t, w, {heard})
            \/ \E a \in fetchOptionalJson(t.token, t.run) \ {"200", "404"} :
                 LET failed == IF Polling(t) THEN Updating(web, t.run, "error") ELSE Saying(web, "error") IN
                 Resume(t, Returned(Settle(web, a, web, failed), t),
                        IF rest = {} THEN {}
                        ELSE {[Start("remainder", t.token, t.run, "both") EXCEPT !.open = rest]})
      BY <1>3, Zenon DEF partArrives
    <3>2. CASE \E a \in fetchOptionalJson(t.token, t.run) \cap {"200", "404"} :
                 LET w == IF a = "200" THEN Part(web, t.run, part) ELSE web
                     ended == part = "detail" /\ a = "200" /\ ~web.denied /\ api.runs[t.run] = "ended"
                     heard == [t EXCEPT !.open = t.open \ {part}, !.said = @ \/ ended]
                     join == Joined(w, heard)
                 IN IF t.open \ {part} = {} THEN Resume(t, join.w, join.more) ELSE Resume(t, w, {heard})
      BY <3>2
    <3>3. CASE \E a \in fetchOptionalJson(t.token, t.run) \ {"200", "404"} :
                 LET failed == IF Polling(t) THEN Updating(web, t.run, "error") ELSE Saying(web, "error") IN
                 Resume(t, Returned(Settle(web, a, web, failed), t),
                        IF t.open \ {part} = {} THEN {}
                        ELSE {[Start("remainder", t.token, t.run, "both") EXCEPT !.open = t.open \ {part}]})
      BY <3>3
    <3> QED BY <3>1, <3>2, <3>3
  <2>2. ASSUME NEW part, NEW w \in {Part(web, t.run, part), web}, NEW heard, NEW more,
               Resume(t, Joined(w, heard).w, more) \/ Resume(t, w, more)
        PROVE  IInv'
    <3>1. Clean(w) /\ Kept(web, w)
      BY <1>0, <1>1, <2>2
    <3>2. Clean(Joined(w, heard).w) /\ Kept(web, Joined(w, heard).w)
      BY <3>1, Returning DEF Kept
    <3> QED BY <1>0, <2>2, <3>1, <3>2, Resuming
  <2>3. ASSUME NEW a, NEW failed \in {Updating(web, t.run, "error"), Saying(web, "error")},
               NEW more, Resume(t, Returned(Settle(web, a, web, failed), t), more)
        PROVE  IInv'
    <3>1. Clean(failed) /\ Kept(web, failed)
      BY <1>0, <2>3, Talking
    <3> DEFINE w == Settle(web, a, web, failed)
    <3>2. Clean(w) /\ Kept(web, w)
      BY <1>0, <3>1, Settling
    <3> HIDE DEF w
    <3>3. Clean(Returned(w, t)) /\ Kept(web, Returned(w, t))
      BY <3>2, Returning DEF Kept
    <3>4. Resume(t, Returned(w, t), more)
      BY <2>3 DEF w
    <3> QED BY <1>0, <3>3, <3>4, Resuming
  <2> QED BY <2>1, <2>2, <2>3
<1> QED BY <1>2, <1>3

LEMMA DetailKeeps ==
  ASSUME IInv, NEW t,
         updateFindingTriageState(t) \/ detailArrives(t) \/ progressArrives(t)
  PROVE  IInv'
<1>0. Clean(web) /\ Kept(web, web) /\ setting' = setting
  BY DEF IInv, Kept, updateFindingTriageState, detailArrives, progressArrives
<1>1. Clean(loadScanRunDetail(web, t.run)) /\ Kept(web, loadScanRunDetail(web, t.run))
  BY <1>0, Showing DEF loadScanRunDetail
<1>2. \A a : Clean(Threw(web, t, a)) /\ Kept(web, Threw(web, t, a))
  BY <1>0, Returning
<1>3. Clean(Triaged(web, t)) /\ Kept(web, Triaged(web, t))
  BY <1>0, Returning
<1>4. LET loaded == loadScanRunProgress(web, t.run)
      IN Clean(Triaged(loaded, t)) /\ Kept(web, Triaged(loaded, t))
  <2> DEFINE loaded == loadScanRunProgress(web, t.run)
  <2>1. Clean(loaded) /\ Kept(web, loaded)
    BY <1>0, Showing DEF loadScanRunProgress
  <2> HIDE DEF loaded
  <2>2. Clean(Triaged(loaded, t)) /\ Kept(web, Triaged(loaded, t))
    BY <2>1, Returning DEF Kept
  <2> QED BY <2>2 DEF loaded
<1>5. \E a, more, w :
        /\ w \in {web, loadScanRunDetail(web, t.run), Threw(web, t, a), Triaged(web, t),
                  Triaged(loadScanRunProgress(web, t.run), t)}
        /\ Resume(t, w, more)
  <2>1. CASE updateFindingTriageState(t)
    BY <2>1 DEF updateFindingTriageState
  <2>2. CASE detailArrives(t)
    BY <2>2 DEF detailArrives
  <2>3. CASE progressArrives(t)
    BY <2>3 DEF progressArrives
  <2> QED BY <2>1, <2>2, <2>3
<1> QED BY <1>0, <1>1, <1>2, <1>3, <1>4, <1>5, Resuming

-----------------------------------------------------------------------------
(* What the user does                                                       *)

LEMMA Clicking ==
  ASSUME IInv, NEW fn, NEW w, NEW more, Click(fn, w, more), Clean(w), Settled(web, w)
  PROVE  IInv'
BY Committed DEF Click, Commit

LEMMA SingleKeeps ==
  ASSUME IInv, NEW fn, StartSingle(fn)
  PROVE  IInv'
<1>1. Clean(web) /\ Settled(web, web)
  BY DEF IInv, Settled, Kept
<1>2. Clean(Hide(web, "akbAnswer")) /\ Settled(web, Hide(web, "akbAnswer"))
  BY <1>1, Showing DEF Settled
<1>3. \E w, more : w \in {web, Hide(web, "akbAnswer")} /\ Click(fn, w, more)
  BY DEF StartSingle
<1> QED BY <1>1, <1>2, <1>3, Clicking

LEMMA ReadingKeeps ==
  ASSUME IInv, refuseDoctor \/ SelectProfile \/ StartRefresh \/ openScanLog \/ StartTriage
               \/ runScanRefused
  PROVE  IInv'
<1>1. Clean(web) /\ Settled(web, web)
  BY DEF IInv, Settled, Kept
<1>2. \A says : Clean(Saying(web, says)) /\ Settled(web, Saying(web, says))
  BY <1>1, Talking DEF Settled
<1>3. CASE SelectProfile
  BY <1>3 DEF SelectProfile, IInv, SignInFollows, SignInWanted
<1>4. ASSUME refuseDoctor \/ StartRefresh \/ openScanLog \/ StartTriage \/ runScanRefused
      PROVE  \E fn, says, w, more : w \in {web, Saying(web, says)} /\ Click(fn, w, more)
  <2>1. CASE refuseDoctor
    BY <2>1 DEF refuseDoctor
  <2>2. CASE StartRefresh
    BY <2>2 DEF StartRefresh
  <2>3. CASE openScanLog
    BY <2>3 DEF openScanLog
  <2>4. CASE StartTriage
    BY <2>4 DEF StartTriage
  <2>5. CASE runScanRefused
    BY <2>5 DEF runScanRefused
  <2> QED BY <1>4, <2>1, <2>2, <2>3, <2>4, <2>5
<1> QED BY <1>1, <1>2, <1>3, <1>4, Clicking

LEMMA RunScanKeeps ==
  ASSUME IInv, NEW fn, runScan(fn)
  PROVE  IInv'
<1>1. \E r, more : Click(fn, About(web, r, "loading"), more)
  BY DEF runScan
<1>2. \A r : Clean(About(web, r, "loading")) /\ Settled(web, About(web, r, "loading"))
  BY Talking DEF IInv, Settled
<1> QED BY <1>1, <1>2, Clicking

LEMMA SessionKeeps ==
  ASSUME IInv, signInWithOidc \/ signOut \/ pasteToken \/ changeLocale
  PROVE  IInv'
<1>1. Clean(web)
  BY DEF IInv
<1>2. CASE signInWithOidc
  <2> DEFINE open == setAccessDeniedMode(web, FALSE)
             w == [open EXCEPT !.skip = FALSE, !.leaving = @ + 1]
  <2>0. Clean(open)
    BY <1>1 DEF setAccessDeniedMode, Clean, Page
  <2>1. Clean(w) /\ w.leaving > 0
    <3> HIDE DEF open
    <3>1. open.leaving \in Nat
      BY <2>0 DEF Clean, Page
    <3>2. PICK n \in Nat : n = open.leaving + 1 /\ n > 0
      BY <3>1
    <3>3. w = [open EXCEPT !.skip = FALSE, !.leaving = n]
      BY <3>2
    <3>4. [open EXCEPT !.skip = FALSE, !.leaving = n].leaving = n
      BY <2>0 DEF Clean, Page
    <3> HIDE DEF w
    <3> QED BY <2>0, <3>2, <3>3, <3>4, Recounted
  <2>2. \E more : Click("signIn", w, more)
    BY <1>2 DEF signInWithOidc
  <2> HIDE DEF w
  <2> QED BY <2>1, <2>2, Clicking DEF Settled
<1>3. CASE signOut
  <2> DEFINE cleared == clearAuthToken(web)
             w == [cleared EXCEPT !.skip = TRUE]
  <2>1. Clean(cleared)
    BY <1>1 DEF clearAuthToken, clearWorkspaceData, setAccessDeniedMode, Clean, Page
  <2>2. \/ Click("signOut", w, {})
        \/ web' = Closed(w)
    BY <1>3 DEF signOut
  <2> HIDE DEF cleared
  <2>3. Clean(w) /\ w.skip = TRUE
    BY <2>1 DEF Clean, Page
  <2> HIDE DEF w
  <2>4. Clean(Closed(w)) /\ Closed(w).at = "elsewhere"
    BY <2>3, LoadedClean DEF Clean
  <2> QED BY <2>2, <2>3, <2>4, Clicking, Replaced DEF Settled, SignInWanted
<1>4. CASE pasteToken
  <2>1. PICK token \in Pasted : Click("paste", persistAuthToken(web, token), {})
    BY <1>4 DEF pasteToken
  <2>2. Clean(persistAuthToken(web, token)) /\ persistAuthToken(web, token).token # None
    BY <1>1, Persisting, WebConstants DEF Tokens
  <2> QED BY <2>1, <2>2, Clicking DEF Settled, SignInWanted
<1>5. CASE changeLocale
  <2>1. \E more : Click("changeLocale", signInEffect(web), more)
    BY <1>5 DEF changeLocale
  <2> QED BY <1>1, <2>1, EffectClean, Clicking DEF Settled
<1> QED BY <1>2, <1>3, <1>4, <1>5

-----------------------------------------------------------------------------
(* The theorems                                                             *)

LEMMA InitClean == Init => IInv
<1> SUFFICES ASSUME Init PROVE IInv
  OBVIOUS
<1>1. PICK stored \in setting.stored, skip \in BOOLEAN :
        web = [at |-> "elsewhere", stored |-> stored, skip |-> skip, login |-> FALSE,
               code |-> "none", status |-> FALSE, leaving |-> 0, failed |-> FALSE, token |-> None,
               denied |-> FALSE, shown |-> {}, newest |-> None, selected |-> None,
               result |-> Said("ready")]
  BY Zenon DEF Init
<1> DEFINE said == Said("ready")
<1> HIDE DEF said
<1>2. web = [at |-> "elsewhere", stored |-> stored, skip |-> skip, login |-> FALSE,
             code |-> "none", status |-> FALSE, leaving |-> 0, failed |-> FALSE, token |-> None,
             denied |-> FALSE, shown |-> {}, newest |-> None, selected |-> None,
             result |-> said]
  BY <1>1 DEF said
<1> QED BY <1>2 DEF IInv, Clean, Page, SignInFollows, SignInWanted

LEMMA StepClean == IInv /\ [Next]_vars => IInv'
<1> SUFFICES ASSUME IInv, [Next]_vars PROVE IInv'
  OBVIOUS
<1>1. ASSUME UNCHANGED <<setting, web>> PROVE IInv'
  BY <1>1 DEF IInv, Clean, Page, SignInFollows, SignInWanted
<1>2. ASSUME NEW code, Visit(code) PROVE IInv'
  BY <1>2, VisitKeeps
<1>3. CASE Leave \/ startOidcLogin \/ startOidcLoginFails
  BY <1>3, AwayKeeps
<1>4. ASSUME NEW t \in BagToSet(tasks), Answer(t) PROVE IInv'
  BY <1>4, AuthKeeps, ScanKeeps, ListKeeps, PartKeeps, DetailKeeps DEF Answer
<1>5. CASE Use
  BY <1>5, SingleKeeps, ReadingKeeps, RunScanKeeps, SessionKeeps DEF Use
<1>6. ASSUME NEW r \in Runs, Work(r) PROVE IInv'
  BY <1>1, <1>6 DEF Work
<1>7. ASSUME NEW token \in Tokens, Change(token) PROVE IInv'
  BY <1>1, <1>7 DEF Change
<1>8. CASE UNCHANGED vars
  BY <1>1, <1>8 DEF vars
<1> QED BY <1>2, <1>3, <1>4, <1>5, <1>6, <1>7, <1>8 DEF Next

\* The page is clean, and it goes to the identity provider when it should, or
\* failed to, at every step of every function of the page.
THEOREM ConsoleInvariant == Spec => []IInv
<1> QED BY InitClean, StepClean, PTL DEF Spec

\* While access is denied the page holds no workspace data, whichever answers
\* arrive after the refusal (activateAccessDenied and the accessDeniedRef
\* checks of page.tsx).
THEOREM DeniedIsEmpty == Spec => []DeniedShowsNothing
<1>1. IInv => DeniedShowsNothing
  BY DEF IInv, Clean, DeniedShowsNothing
<1> QED BY <1>1, ConsoleInvariant, PTL

\* Whenever a sign-in is wanted it is on its way, or has failed to start since
\* the session or the language last changed: no change of the page slips past
\* the dependencies of the auto-login effect (page.tsx:1646-1658).
THEOREM SignInIsStarted == Spec => []SignInFollows
<1>1. IInv => SignInFollows
  BY DEF IInv
<1> QED BY <1>1, ConsoleInvariant, PTL

-----------------------------------------------------------------------------
(* The functions under way                                                  *)

\* The functions that load the session, those that a session is not asked
\* for, those that speak of a run of their own, and what they say of it.
Auth == {"initializeAuth", "refreshAuthStatus"}
Loose == Auth \cup {"refreshAkbStatus", "refreshScanRuns", "loadScanRunDetail", "remainder"}
Scans == {"runScan.plan", "runScan.queue", "pollScanRun"}
Lively == {"finished", "queued", "progress", "loading"}

\* A function under way beside the page w and the runs of the API: a poll has
\* attempts left, only a session that is there is used, a run is polled after
\* it was queued, and what a poll has heard of the end of its run is so.
Sound(t, w, runs) ==
  /\ t \in Task
  /\ Polling(t) => t.attempt < Attempts
  /\ t.then # None => t.fn = "pollScanRun"
  /\ t.fn \in Auth => ~w.status
  /\ ~w.status => t.fn \in Loose
  /\ w.token \in Issued => t.fn \in Loose \/ t.token = w.token
  /\ t.fn \in Scans => t.run \in Runs /\ (t.fn # "pollScanRun" => runs[t.run] = "none")
  /\ t.at \in {"wait", "both"} => t.run \in Runs
  /\ t.said \/ t.then = "finished" => t.run \in Runs /\ runs[t.run] = "ended"
  /\ w.result.says = "finished" /\ t.fn \in Scans => t.run # w.result.about

\* One function loads the session, and one speaks of a run.
Rivals(t, u) ==
  \/ t.fn \in Auth /\ u.fn \in Auth
  \/ t.fn \in Scans /\ u.fn \in Scans /\ t.run = u.run

Orderly(bag, w, runs) ==
  /\ IsABag(bag)
  /\ \A t \in BagToSet(bag) :
       Sound(t, w, runs) /\ (t.fn \in Auth \cup Scans => bag[t] = 1)
  /\ \A t, u \in BagToSet(bag) : Rivals(t, u) => t = u

\* A run that is called finished has ended.
Done(w, runs) ==
  w.result.says = "finished" => w.result.about \in Runs /\ runs[w.result.about] = "ended"

Surroundings ==
  /\ setting \in Settings
  /\ api \in [good : [Tokens -> {"200", "401", "403"}],
              runs : [Runs -> {"none", "queued", "running", "ended"}]]
  /\ left \in [clicks : Nat, visits : Nat, changes : Nat]

TasksInv ==
  /\ Surroundings
  /\ web \in Web /\ Done(web, api.runs)
  /\ Orderly(tasks, web, api.runs)

\* What FinishedStays says of the page of a step.
Stays(w) ==
  web.result.says = "finished" /\ w.result.about = web.result.about
    => w.result.says \notin {"queued", "progress", "loading"}

-----------------------------------------------------------------------------
(* Bags                                                                     *)

LEMMA BagOfSet ==
  ASSUME NEW S
  PROVE  /\ BagToSet(SetToBag(S)) = S /\ IsABag(SetToBag(S))
         /\ \A e \in S : SetToBag(S)[e] = 1
         /\ BagToSet(EmptyBag) = {} /\ IsABag(EmptyBag)
BY DEF BagToSet, SetToBag, IsABag, EmptyBag

LEMMA BagSum ==
  ASSUME NEW B1, NEW B2, IsABag(B1), IsABag(B2)
  PROVE  /\ IsABag(B1 (+) B2)
         /\ BagToSet(B1 (+) B2) = BagToSet(B1) \cup BagToSet(B2)
         /\ \A e \in BagToSet(B1) : e \notin BagToSet(B2) => (B1 (+) B2)[e] = B1[e]
         /\ \A e \in BagToSet(B2) : e \notin BagToSet(B1) => (B1 (+) B2)[e] = B2[e]
BY DEF BagToSet, IsABag, (+)

LEMMA BagTaken ==
  ASSUME NEW B, IsABag(B), NEW t \in BagToSet(B)
  PROVE  /\ IsABag(B (-) SetToBag({t}))
         /\ BagToSet(B (-) SetToBag({t})) = {e \in BagToSet(B) : e # t \/ B[e] > 1}
         /\ \A e \in BagToSet(B (-) SetToBag({t})) : e # t => (B (-) SetToBag({t}))[e] = B[e]
BY DEF BagToSet, IsABag, (-), SetToBag

\* What an effect starts when the page becomes w.
Fresh(t, w) ==
  \E fn \in Reloads, run \in {None, w.selected}, at \in {"fetch", "list"} :
    t = Start(fn, w.token, run, at)

\* The profiles are loaded again, if there is a session.
LEMMA Reloading ==
  ASSUME NEW w, NEW bag, IsABag(bag)
  PROVE  /\ IsABag(profileEffect(bag, w))
         /\ \A t \in BagToSet(profileEffect(bag, w)) :
              \/ t \in BagToSet(bag) /\ (t.fn \notin Reloads => profileEffect(bag, w)[t] = bag[t])
              \/ AuthReady(w) /\ Fresh(t, w) /\ t.fn \in Reloads
<1> DEFINE profiles == {Start("loadProfiles", w.token, None, "fetch")}
           kept == profileEffect(bag, w)
<1>1. \A t \in profiles : Fresh(t, w) /\ t.fn \in Reloads
  BY DEF Fresh, Start, Reloads
<1>2. /\ IsABag(Superseded(bag)) /\ BagToSet(Superseded(bag)) \subseteq BagToSet(bag)
      /\ \A t \in BagToSet(Superseded(bag)) : Superseded(bag)[t] = bag[t]
  BY DEF Superseded, IsABag, BagToSet
<1>3. PICK S \in SUBSET profiles :
        kept = Superseded(bag) (+) SetToBag(S) /\ (S # {} => AuthReady(w))
  BY DEF profileEffect, EmptyBag
<1> HIDE DEF profiles
<1> DEFINE some == SetToBag(S)
<1>4. IsABag(some) /\ BagToSet(some) = S /\ kept = Superseded(bag) (+) some
  BY <1>3, BagOfSet
<1> HIDE DEF some, kept
<1>5. /\ IsABag(kept) /\ BagToSet(kept) = BagToSet(Superseded(bag)) \cup S
      /\ \A t \in BagToSet(Superseded(bag)) : t \notin S => kept[t] = Superseded(bag)[t]
  BY <1>2, <1>4, BagSum
<1>6. /\ IsABag(kept)
      /\ \A t \in BagToSet(kept) :
           \/ t \in BagToSet(bag) /\ (t.fn \notin Reloads => kept[t] = bag[t])
           \/ AuthReady(w) /\ Fresh(t, w) /\ t.fn \in Reloads
  BY <1>1, <1>2, <1>3, <1>5
<1> QED BY <1>6 DEF kept

LEMMA Committing ==
  ASSUME Surroundings, NEW w, NEW bag, IsABag(bag), Commit(w, bag)
  PROVE  /\ IsABag(tasks')
         /\ \A t \in BagToSet(tasks') :
              \/ t \in BagToSet(bag) /\ (t.fn \notin Reloads => tasks'[t] = bag[t])
              \/ AuthReady(w) /\ Fresh(t, w)
<1> DEFINE panels == {IF fn = "refreshScanRuns" THEN Start(fn, w.token, w.selected, "list")
                      ELSE Start(fn, w.token, None, "fetch")
                      : fn \in setting.panels \ {"loadProfiles"}}
           kept == IF ProfilesChanged(web, w) THEN profileEffect(bag, w) ELSE bag
<1>0. setting.panels \subseteq Reloads
  BY WebConstants DEF Surroundings, Setting
<1>1. \A t \in panels : Fresh(t, w) /\ t.fn \in Reloads
  BY <1>0 DEF Fresh, Start, Reloads
<1>2. PICK S \in SUBSET panels : refreshEffects(web, w) = SetToBag(S) /\ (S # {} => AuthReady(w))
  BY DEF refreshEffects, EmptyBag
<1>3. /\ IsABag(kept)
      /\ \A t \in BagToSet(kept) :
           \/ t \in BagToSet(bag) /\ (t.fn \notin Reloads => kept[t] = bag[t])
           \/ AuthReady(w) /\ Fresh(t, w) /\ t.fn \in Reloads
  BY Reloading
<1> DEFINE some == SetToBag(S)
<1>4. IsABag(some) /\ BagToSet(some) = S /\ tasks' = some (+) kept
  BY <1>2, BagOfSet DEF Commit
<1> HIDE DEF panels, kept, some
<1>5. /\ IsABag(tasks') /\ BagToSet(tasks') = S \cup BagToSet(kept)
      /\ \A t \in BagToSet(kept) : t \notin S => tasks'[t] = kept[t]
  BY <1>3, <1>4, BagSum
<1> QED BY <1>1, <1>2, <1>3, <1>5

\* What a function is held to depends on the page by its session and by what
\* it says of a run.
LEMMA SoundCong ==
  ASSUME NEW w, NEW v, v.status = w.status, v.token = w.token, v.result = w.result,
         NEW t, NEW runs, Sound(t, w, runs)
  PROVE  Sound(t, v, runs)
BY DEF Sound

LEMMA FreshSound ==
  ASSUME NEW w \in Web, AuthReady(w), NEW t, Fresh(t, w), NEW runs
  PROVE  Sound(t, w, runs) /\ t.fn \notin Auth \cup Scans
<1>1. PICK fn \in Reloads, run \in {None, w.selected}, at \in {"fetch", "list"} :
        t = Start(fn, w.token, run, at)
  BY DEF Fresh
<1>2. run \in Runs \cup {None} /\ w.token \in Tokens \cup {None} /\ w.status = TRUE
  BY DEF Web, AuthReady
<1>3. fn \in Functions /\ fn \notin Auth \cup Scans
  BY DEF Reloads, Functions, Single, Auth, Scans
<1>4. t \in Task
  BY <1>1, <1>2, <1>3, WebConstants DEF Start, Task
<1>5. t.fn = fn /\ t.token = w.token /\ t.at = at /\ ~t.said /\ t.then = None
  BY <1>1 DEF Start
<1>6. t.then # "finished"
  <2>1. None # "finished"
    BY WebConstants
  <2> QED BY <1>5, <2>1
<1> QED BY <1>2, <1>3, <1>4, <1>5, <1>6 DEF Sound, Polling, Scans

\* The functions under way are those of the bag, and what the effects start.
LEMMA Joining ==
  ASSUME NEW w \in Web, NEW bag, Surroundings', Done(w, api'.runs), Orderly(bag, w, api'.runs),
         web' \in Web, web'.status = w.status, web'.token = w.token, web'.result = w.result,
         IsABag(tasks'),
         \A t \in BagToSet(tasks') :
           \/ t \in BagToSet(bag) /\ (t.fn \notin Reloads => tasks'[t] = bag[t])
           \/ AuthReady(w) /\ Fresh(t, w)
  PROVE  TasksInv'
<1>1. \A fn \in Auth \cup Scans : fn \notin Reloads
  BY DEF Auth, Scans, Reloads
<1>2. ASSUME NEW t \in BagToSet(tasks')
      PROVE  /\ Sound(t, web', api'.runs)
             /\ t.fn \in Auth \cup Scans => t \in BagToSet(bag) /\ tasks'[t] = 1
  <2>1. Sound(t, w, api'.runs) /\ (t.fn \in Auth \cup Scans => t \in BagToSet(bag) /\ tasks'[t] = 1)
    BY <1>1, FreshSound DEF Orderly
  <2> QED BY <2>1, SoundCong
<1>3. ASSUME NEW t \in BagToSet(tasks'), NEW u \in BagToSet(tasks'), Rivals(t, u)
      PROVE  t = u
  BY <1>2, <1>3 DEF Orderly, Rivals
<1>4. Orderly(tasks', web', api'.runs) /\ Done(web', api'.runs)
  BY <1>2, <1>3 DEF Orderly, Done
<1> QED BY <1>4 DEF TasksInv

\* The count of the sign-ins is nothing that a function speaks of.
Alike(w, v) ==
  /\ v \in Web /\ v.status = w.status /\ v.token = w.token
  /\ v.denied = w.denied /\ v.result = w.result

LEMMA RecountedTyped ==
  ASSUME NEW w \in Web, NEW n \in Nat
  PROVE  /\ Alike(w, [w EXCEPT !.leaving = n, !.failed = FALSE])
         /\ \A login \in BOOLEAN :
              Alike(w, [w EXCEPT !.leaving = n, !.failed = TRUE, !.login = login])
         /\ Alike(w, [w EXCEPT !.skip = FALSE, !.leaving = n])
BY DEF Alike, Web

\* The effect that signs in changes nothing that a function speaks of.
LEMMA EffectTyped ==
  ASSUME NEW w \in Web
  PROVE  LET v == signInEffect(w)
         IN  /\ v \in Web /\ v.status = w.status /\ v.token = w.token
             /\ v.denied = w.denied /\ v.result = w.result
<1> DEFINE going == [w EXCEPT !.leaving = @ + 1, !.failed = FALSE]
           told == [w EXCEPT !.failed = FALSE]
<1>1. going \in Web /\ going.status = w.status /\ going.token = w.token
      /\ going.denied = w.denied /\ going.result = w.result
  <2>1. w.leaving \in Nat
    BY DEF Web
  <2>2. PICK n \in Nat : n = w.leaving + 1
    BY <2>1
  <2>3. going = [w EXCEPT !.leaving = n, !.failed = FALSE]
    BY <2>2
  <2> HIDE DEF going
  <2>4. Alike(w, going)
    BY <2>2, <2>3, RecountedTyped
  <2> QED BY <2>4 DEF Alike
<1>2. told \in Web /\ told.status = w.status /\ told.token = w.token
      /\ told.denied = w.denied /\ told.result = w.result
  BY DEF Web
<1> HIDE DEF going, told
<1>3. signInEffect(w) \in {going, told}
  BY DEF signInEffect, going, told
<1> QED BY <1>1, <1>2, <1>3

\* The page and the functions under way after a step that commits.
LEMMA Landing ==
  ASSUME TasksInv, NEW w \in Web, NEW bag, Commit(w, bag), Surroundings',
         Done(w, api'.runs), Orderly(bag, w, api'.runs)
  PROVE  TasksInv' /\ (Stays(w) => Stays(web'))
<1>1. web' \in {w, signInEffect(w)}
  BY DEF Commit, autoLogin
<1>2. /\ signInEffect(w) \in Web /\ signInEffect(w).status = w.status
      /\ signInEffect(w).token = w.token /\ signInEffect(w).result = w.result
  BY EffectTyped
<1>3. web' \in Web /\ web'.status = w.status /\ web'.token = w.token /\ web'.result = w.result
  BY <1>1, <1>2
<1>4. /\ IsABag(tasks')
      /\ \A t \in BagToSet(tasks') :
           \/ t \in BagToSet(bag) /\ (t.fn \notin Reloads => tasks'[t] = bag[t])
           \/ AuthReady(w) /\ Fresh(t, w)
  BY Committing DEF TasksInv, Orderly
<1> QED BY <1>3, <1>4, Joining DEF Stays

\* What a function leaves to go on with: one function, of its own kind.
Follows(t, m) ==
  /\ m.fn \in Auth => t.fn \in Auth
  /\ m.fn \in Scans => t.fn \in Scans /\ m.run = t.run

\* Whatever a function does with the page, the others are as before.
LEMMA Continuing ==
  ASSUME TasksInv, NEW t \in BagToSet(tasks), NEW w \in Web, NEW more, Resume(t, w, more),
         Surroundings', Done(w, api'.runs),
         \A m \in more : Sound(m, w, api'.runs) /\ Follows(t, m),
         \A m, n \in more : m = n,
         \A u \in BagToSet(tasks) :
           Sound(u, w, api'.runs) \/ (u = t /\ t.fn \in Auth \cup Scans)
  PROVE  TasksInv' /\ (Stays(w) => Stays(web'))
<1> DEFINE rest == tasks (-) SetToBag({t})
           new == SetToBag(more)
           bag == rest (+) new
<1>1. /\ IsABag(rest)
      /\ BagToSet(rest) = {e \in BagToSet(tasks) : e # t \/ tasks[e] > 1}
      /\ \A e \in BagToSet(rest) : e # t => rest[e] = tasks[e]
  BY BagTaken DEF TasksInv, Orderly
<1>2. IsABag(new) /\ BagToSet(new) = more /\ \A m \in more : new[m] = 1
  BY BagOfSet
<1>3. Commit(w, bag)
  BY DEF Resume
<1> HIDE DEF rest, new
<1>4. /\ IsABag(bag) /\ BagToSet(bag) = BagToSet(rest) \cup more
      /\ \A e \in BagToSet(rest) : e \notin more => bag[e] = rest[e]
      /\ \A e \in more : e \notin BagToSet(rest) => bag[e] = new[e]
  BY <1>1, <1>2, BagSum
<1> HIDE DEF bag
<1>5. t.fn \in Auth \cup Scans => t \notin BagToSet(rest)
  BY <1>1 DEF TasksInv, Orderly
<1>6. \A m \in more : m.fn \in Auth \cup Scans => m \notin BagToSet(rest)
  <2> SUFFICES ASSUME NEW m \in more, m.fn \in Auth \cup Scans, m \in BagToSet(rest) PROVE FALSE
    OBVIOUS
  <2>1. t.fn \in Auth \cup Scans /\ Rivals(m, t)
    BY DEF Follows, Rivals
  <2>2. m = t
    BY <1>1, <2>1 DEF TasksInv, Orderly
  <2> QED BY <1>5, <2>1, <2>2
<1>7. \A u \in BagToSet(bag) : Sound(u, w, api'.runs) /\ (u.fn \in Auth \cup Scans => bag[u] = 1)
  <2> SUFFICES ASSUME NEW u \in BagToSet(bag)
               PROVE  Sound(u, w, api'.runs) /\ (u.fn \in Auth \cup Scans => bag[u] = 1)
    OBVIOUS
  <2>1. CASE u \in more
    BY <1>2, <1>4, <1>6, <2>1
  <2>2. CASE u \notin more
    <3>1. u \in BagToSet(rest) /\ u \in BagToSet(tasks) /\ bag[u] = rest[u]
      BY <1>1, <1>4, <2>2
    <3> QED BY <1>1, <1>5, <3>1 DEF TasksInv, Orderly
  <2> QED BY <2>1, <2>2
<1>8. \A u, v \in BagToSet(bag) : Rivals(u, v) => u = v
  <2> SUFFICES ASSUME NEW u \in BagToSet(bag), NEW v \in BagToSet(bag), Rivals(u, v) PROVE u = v
    OBVIOUS
  <2>1. ASSUME NEW m \in more, NEW e \in BagToSet(rest), Rivals(m, e) \/ Rivals(e, m) PROVE FALSE
    <3>1. Rivals(t, e) /\ e.fn \in Auth \cup Scans /\ t.fn \in Auth \cup Scans
      BY <2>1 DEF Rivals, Follows
    <3>2. e = t
      BY <1>1, <3>1 DEF TasksInv, Orderly
    <3> QED BY <1>5, <3>1, <3>2
  <2>2. CASE u \in more /\ v \in more
    BY <2>2
  <2>3. CASE u \in BagToSet(rest) /\ v \in BagToSet(rest)
    BY <1>1, <2>3 DEF TasksInv, Orderly
  <2> QED BY <1>4, <2>1, <2>2, <2>3
<1>9. Orderly(bag, w, api'.runs)
  BY <1>4, <1>7, <1>8 DEF Orderly
<1> QED BY <1>3, <1>9, Landing

\* A control adds functions that no other is a rival of.
LEMMA Adding ==
  ASSUME TasksInv, NEW w \in Web, NEW more, Commit(w, tasks (+) SetToBag(more)),
         Surroundings', Done(w, api'.runs),
         \A m \in more : Sound(m, w, api'.runs),
         \A m, n \in more : Rivals(m, n) => m = n,
         \A m \in more, u \in BagToSet(tasks) : ~Rivals(m, u) /\ ~Rivals(u, m),
         \A u \in BagToSet(tasks) : Sound(u, w, api'.runs)
  PROVE  TasksInv' /\ (Stays(w) => Stays(web'))
<1> DEFINE new == SetToBag(more)
           bag == tasks (+) new
<1>1. IsABag(new) /\ BagToSet(new) = more /\ \A m \in more : new[m] = 1
  BY BagOfSet
<1> HIDE DEF new
<1>2. /\ IsABag(bag) /\ BagToSet(bag) = BagToSet(tasks) \cup more
      /\ \A e \in BagToSet(tasks) : e \notin more => bag[e] = tasks[e]
      /\ \A e \in more : e \notin BagToSet(tasks) => bag[e] = new[e]
  BY <1>1, BagSum DEF TasksInv, Orderly
<1>3. Commit(w, bag)
  BY DEF new
<1> HIDE DEF bag
<1>4. \A m \in more : m.fn \in Auth \cup Scans => m \notin BagToSet(tasks)
  BY DEF Rivals
<1>5. \A u \in BagToSet(bag) : Sound(u, w, api'.runs) /\ (u.fn \in Auth \cup Scans => bag[u] = 1)
  BY <1>1, <1>2, <1>4 DEF TasksInv, Orderly
<1>6. \A u, v \in BagToSet(bag) : Rivals(u, v) => u = v
  BY <1>2 DEF TasksInv, Orderly
<1>7. Orderly(bag, w, api'.runs)
  BY <1>2, <1>5, <1>6 DEF Orderly
<1> QED BY <1>3, <1>7, Landing

-----------------------------------------------------------------------------
(* What the functions do with the page                                      *)

\* The page v keeps the session of w or loses it, and says of a run what w
\* says or nothing that another function would have to follow.
Moves(w, v) ==
  /\ v \in Web /\ v.status = w.status /\ v.token \in {w.token, None}
  /\ v.result = w.result \/ v.result.says \notin Lively

LEMMA MovesOn ==
  ASSUME NEW w, NEW v, Moves(w, v), NEW runs
  PROVE  /\ \A t : Sound(t, w, runs) => Sound(t, v, runs)
         /\ Done(w, runs) => Done(v, runs)
         /\ \A u : Moves(v, u) => Moves(w, u)
<1>1. None \notin Issued
  BY WebConstants DEF Tokens
<1>2. ASSUME NEW t, Sound(t, w, runs) PROVE Sound(t, v, runs)
  BY <1>1, <1>2 DEF Sound, Moves, Lively
<1>3. Done(w, runs) => Done(v, runs)
  BY DEF Done, Moves, Lively
<1>4. ASSUME NEW u, Moves(v, u) PROVE Moves(w, u)
  BY <1>4 DEF Moves
<1> QED BY <1>2, <1>3, <1>4

\* A page of the type, field by field.
LEMMA WebFields ==
  ASSUME NEW w \in Web
  PROVE  /\ w.token \in Tokens \cup {None} /\ w.stored \in Tokens \cup {None}
         /\ w.shown \in SUBSET Pieces /\ w.result \in Result
         /\ w.newest \in Runs \cup {None} /\ w.selected \in Runs \cup {None}
         /\ w.status \in BOOLEAN /\ w.denied \in BOOLEAN /\ Moves(w, w)
BY DEF Web, Moves

LEMMA ResultMoves ==
  ASSUME NEW w \in Web, NEW new \in Result, new = w.result \/ new.says \notin Lively
  PROVE  Moves(w, [w EXCEPT !.result = new])
BY DEF Web, Moves

LEMMA DataMoves ==
  ASSUME NEW w \in Web
  PROVE  /\ \A s \in SUBSET Pieces : Moves(w, [w EXCEPT !.shown = s])
         /\ \A r \in Runs \cup {None} : /\ Moves(w, [w EXCEPT !.newest = r])
                                        /\ Moves(w, [w EXCEPT !.selected = r])
BY DEF Web, Moves

LEMMA TalkingMoves ==
  ASSUME NEW w \in Web, NEW r \in Runs \cup {None}, NEW says \in Says \ Lively
  PROVE  /\ Moves(w, Saying(w, says)) /\ Moves(w, About(w, r, says)) /\ Moves(w, Updating(w, r, says))
         /\ Moves(w, [w EXCEPT !.result.says = says])
<1>1. Said(says) \in Result /\ Said(says).says = says
  BY DEF Said, Result
<1>2. [says |-> says, about |-> r] \in Result /\ [says |-> says, about |-> r].says = says
  BY DEF Result
<1>3. Moves(w, Saying(w, says))
  BY <1>1, ResultMoves DEF Saying
<1>4. Moves(w, About(w, r, says)) /\ Moves(w, Updating(w, r, says))
  BY <1>2, ResultMoves, WebFields DEF About, Updating
<1>5. Moves(w, [w EXCEPT !.result.says = says])
  <2> DEFINE new == [w.result EXCEPT !.says = says]
  <2>1. new \in Result /\ new.says = says
    BY WebFields DEF Result
  <2>2. [w EXCEPT !.result.says = says] = [w EXCEPT !.result = new]
    OBVIOUS
  <2> HIDE DEF new
  <2> QED BY <2>1, <2>2, ResultMoves
<1> QED BY <1>3, <1>4, <1>5

LEMMA ShowingMoves ==
  ASSUME NEW w \in Web, NEW piece \in Pieces
  PROVE  Moves(w, Show(w, piece)) /\ Moves(w, Hide(w, piece))
<1>1. w.shown \cup {piece} \in SUBSET Pieces /\ w.shown \ {piece} \in SUBSET Pieces
  BY WebFields
<1> QED BY <1>1, DataMoves DEF Show, Hide

LEMMA SessionTyped ==
  ASSUME NEW w \in Web
  PROVE  /\ \A on \in BOOLEAN : Moves(w, setAccessDeniedMode(w, on))
         /\ Moves(w, clearWorkspaceData(w))
         /\ Moves(w, clearAuthToken(w))
         /\ Moves(w, activateAccessDenied(w))
<1>1. \A v \in Web : /\ \A on \in BOOLEAN : Moves(v, setAccessDeniedMode(v, on))
                     /\ Moves(v, clearWorkspaceData(v))
                     /\ Moves(v, [v EXCEPT !.stored = None, !.token = None])
  <2> TAKE v \in Web
  <2>1. ASSUME NEW on \in BOOLEAN PROVE Moves(v, [v EXCEPT !.denied = on])
    BY DEF Web, Moves
  <2>2. Moves(v, [v EXCEPT !.shown = {}, !.newest = None, !.selected = None])
    BY DEF Web, Moves
  <2>3. Moves(v, [v EXCEPT !.stored = None, !.token = None])
    BY DEF Web, Moves
  <2> QED BY <2>1, <2>2, <2>3 DEF setAccessDeniedMode, clearWorkspaceData
<1>2. Moves(w, clearAuthToken(w))
  <2> DEFINE open == setAccessDeniedMode(w, FALSE)
             bare == clearWorkspaceData(open)
  <2>1. Moves(w, open)
    BY <1>1
  <2> HIDE DEF open
  <2>2. Moves(w, bare)
    BY <1>1, <2>1, MovesOn DEF Moves
  <2>3. clearAuthToken(w) = [bare EXCEPT !.stored = None, !.token = None]
    BY DEF clearAuthToken, open
  <2> HIDE DEF bare
  <2>4. Moves(bare, [bare EXCEPT !.stored = None, !.token = None])
    BY <1>1, <2>2 DEF Moves
  <2> QED BY <2>2, <2>3, <2>4, MovesOn
<1>3. Moves(w, activateAccessDenied(w))
  <2> DEFINE bare == clearWorkspaceData(w)
             shut == setAccessDeniedMode(bare, TRUE)
  <2>1. Moves(w, bare)
    BY <1>1
  <2> HIDE DEF bare
  <2>2. Moves(w, shut)
    BY <1>1, <2>1, MovesOn DEF Moves
  <2>3. activateAccessDenied(w) = Saying(shut, "denied")
    BY DEF activateAccessDenied, Saying, bare
  <2> HIDE DEF shut
  <2>4. Moves(shut, Saying(shut, "denied"))
    BY <2>2, TalkingMoves DEF Moves, Says, Lively
  <2> QED BY <2>2, <2>3, <2>4, MovesOn
<1> QED BY <1>1, <1>2, <1>3

LEMMA SettlingMoves ==
  ASSUME NEW w \in Web, NEW a, NEW ok, NEW failed, Moves(w, ok), Moves(w, failed)
  PROVE  Moves(w, Settle(w, a, ok, failed)) /\ Moves(w, handleApiAccessFailure(w, a))
BY WebFields, SessionTyped DEF Settle, handleApiAccessFailure

LEMMA FetchedMoves ==
  ASSUME NEW w \in Web, NEW t, t.fn \in Single \ {"runScan.plan", "runScan.queue"}, NEW a
  PROVE  Moves(w, Fetched(w, t, a))
<1>1. Moves(w, w) /\ Moves(w, Saying(w, "error"))
  BY WebFields, TalkingMoves DEF Says, Lively
<1>2. \A piece \in Pieces : Moves(w, Show(w, piece)) /\ Moves(w, Hide(w, piece))
  BY ShowingMoves
<1>3. \A piece \in Pieces : /\ Moves(w, Settle(w, a, Show(w, piece), Saying(w, "error")))
                            /\ Moves(w, Settle(w, a, Show(w, piece), w))
                            /\ Moves(w, Settle(w, a, Show(w, piece), Hide(w, piece)))
  BY <1>1, <1>2, SettlingMoves
<1>4. Moves(w, Settle(w, a, w, w))
  BY <1>1, SettlingMoves
<1> QED BY <1>3, <1>4
        DEF Fetched, Single, Pieces, loadProfiles, refreshProjects, registerProject,
            saveProjectPublicUrl, refreshDoctor, refreshAkbStatus, refreshCapabilityAudit,
            exportLatestRun, exportCodexRemediation, askAkb

LEMMA PartMoves ==
  ASSUME NEW w \in Web, NEW r \in Runs \cup {None}, NEW part
  PROVE  Moves(w, Part(w, r, part)) /\ Moves(w, loadScanRunDetail(w, r))
         /\ Moves(w, loadScanRunProgress(w, r))
BY WebFields, DataMoves, ShowingMoves DEF Part, loadScanRunDetail, loadScanRunProgress, Pieces

LEMMA TriagedMoves ==
  ASSUME NEW w \in Web, NEW t, NEW a
  PROVE  Moves(w, Triaged(w, t)) /\ Moves(w, Threw(w, t, a))
<1>1. /\ Moves(w, w) /\ Moves(w, [w EXCEPT !.result.says = "triaged"])
      /\ Moves(w, [w EXCEPT !.result.says = "error"])
  BY WebFields, TalkingMoves DEF Says, Lively
<1> QED BY <1>1, SettlingMoves DEF Triaged, Threw

\* The list of the runs tells the newest.
LEMMA NewestTyped == Newest \in Runs \cup {None}
<1> SUFFICES ASSUME Listed # {} PROVE \E r \in Listed : \A s \in Listed : s <= r
  BY DEF Newest, Listed
<1> DEFINE T == {n \in Nat : MaxRuns - n \in Listed}
           R == OpToRel(<, Nat)
<1>0. MaxRuns \in Nat /\ Listed \subseteq 1..MaxRuns
  BY WebConstants DEF Listed, Runs
<1>1. IsWellFoundedOn(R, Nat)
  BY NatLessThanWellFounded
<1>2. T \subseteq Nat /\ T # {}
  <2>1. PICK s \in Listed : TRUE
    OBVIOUS
  <2>2. MaxRuns - s \in T
    BY <1>0, <2>1
  <2> QED BY <2>2
<1>3. PICK n \in T : \A m \in T : <<m, n>> \notin R
  <2> HIDE DEF T, R
  <2> QED BY <1>1, <1>2, WFMin
<1>4. \A m \in T : ~(m < n)
  BY <1>3 DEF OpToRel
<1>5. ASSUME NEW s \in Listed PROVE s <= MaxRuns - n
  <2>1. MaxRuns - s \in T
    BY <1>0
  <2> QED BY <1>0, <1>4, <2>1
<1> QED BY <1>5

-----------------------------------------------------------------------------
(* Steps of the functions under way                                         *)

LEMMA MovesStay ==
  ASSUME NEW w, Moves(web, w)
  PROVE  Stays(w)
BY DEF Moves, Stays, Lively

\* A step with which the API has nothing to do.
LEMMA Continued ==
  ASSUME TasksInv, NEW t \in BagToSet(tasks), NEW w, Moves(web, w), NEW more, Resume(t, w, more),
         UNCHANGED <<setting, api>>,
         \A m \in more : Sound(m, web, api.runs) /\ Follows(t, m),
         \A m, n \in more : m = n
  PROVE  TasksInv' /\ Stays(web')
<1>1. w \in Web /\ api'.runs = api.runs /\ left' = left /\ Surroundings'
  BY DEF Moves, Resume, TasksInv, Surroundings
<1>2. Done(w, api.runs) /\ \A u : Sound(u, web, api.runs) => Sound(u, w, api.runs)
  BY MovesOn DEF TasksInv
<1>3. \A u \in BagToSet(tasks) : Sound(u, w, api.runs)
  BY <1>2 DEF TasksInv, Orderly
<1>4. \A m \in more : Sound(m, w, api.runs) /\ Follows(t, m)
  BY <1>2
<1> QED BY <1>1, <1>2, <1>3, <1>4, Continuing, MovesStay

\* A step after which the function is over.
LEMMA Over ==
  ASSUME TasksInv, NEW t \in BagToSet(tasks), NEW w, Moves(web, w), Resume(t, w, {}),
         UNCHANGED <<setting, api>>
  PROVE  TasksInv' /\ Stays(web')
<1> DEFINE more == {}
<1>1. \A m \in more : Sound(m, web, api.runs) /\ Follows(t, m)
  OBVIOUS
<1>2. \A m, n \in more : m = n
  OBVIOUS
<1>3. Resume(t, w, more)
  OBVIOUS
<1> HIDE DEF more
<1> QED BY <1>1, <1>2, <1>3, Continued

LEMMA TaskFields ==
  ASSUME TasksInv, NEW t \in BagToSet(tasks)
  PROVE  /\ t \in Task /\ Sound(t, web, api.runs)
         /\ t.run \in Runs \cup {None} /\ t.token \in Tokens \cup {None}
         /\ web \in Web /\ Moves(web, web)
BY WebFields DEF TasksInv, Orderly, Sound, Task

LEMMA AuthTasks ==
  ASSUME TasksInv, NEW t \in BagToSet(tasks), initializeAuth(t) \/ refreshAuthStatus(t)
  PROVE  TasksInv' /\ Stays(web')
<1>1. t.fn \in Auth /\ web.status = FALSE
  BY TaskFields, WebFields DEF initializeAuth, refreshAuthStatus, Auth, Sound
<1>2. ASSUME NEW u \in BagToSet(tasks), u # t PROVE u.fn \in Loose \ Auth /\ Sound(u, web, api.runs)
  BY <1>1, <1>2 DEF TasksInv, Orderly, Sound, Rivals
<1>3. Surroundings' /\ api' = api
  BY DEF initializeAuth, refreshAuthStatus, Resume, TasksInv, Surroundings
<1>4. CASE initializeAuth(t)
  <2> DEFINE m == Start("refreshAuthStatus", None, None, "fetch")
             more == {m}
  <2>1. PICK w : /\ Resume(t, w, more)
                 /\ \/ \E token \in Issued : w = [persistAuthToken(web, token) EXCEPT !.code = "none"]
                    \/ w = web
    BY <1>4 DEF initializeAuth
  <2>2. w \in Web /\ w.status = FALSE /\ w.result = web.result
    <3>1. CASE w = web
      BY <1>1, <3>1, TaskFields
    <3>2. CASE \E token \in Issued : w = [persistAuthToken(web, token) EXCEPT !.code = "none"]
      <4>1. PICK token \in Tokens : w = [persistAuthToken(web, token) EXCEPT !.code = "none"]
        BY <3>2 DEF Tokens
      <4> DEFINE new == persistAuthToken(web, token)
      <4>2. new \in Web /\ new.status = FALSE /\ new.result = web.result
        BY <1>1, TaskFields DEF Web, persistAuthToken, setAccessDeniedMode
      <4> HIDE DEF new
      <4>3. w = [new EXCEPT !.code = "none"]
        BY <4>1 DEF new
      <4> QED BY <4>2, <4>3 DEF Web
    <3> QED BY <2>1, <3>1, <3>2
  <2>3. Done(w, api'.runs)
    BY <1>3, <2>2 DEF TasksInv, Done
  <2>4. /\ m \in Task /\ m.fn = "refreshAuthStatus" /\ m.at = "fetch" /\ ~m.said /\ m.then = None
    BY WebConstants DEF Start, Task, Functions
  <2> HIDE DEF m
  <2>5. m.fn \in Auth /\ m.fn \in Loose /\ m.fn \notin Scans /\ ~Polling(m) /\ m.then # "finished"
    BY <2>4, WebConstants DEF Auth, Loose, Scans, Polling
  <2>6. Sound(m, w, api'.runs) /\ Follows(t, m)
    BY <1>1, <2>2, <2>4, <2>5 DEF Sound, Follows
  <2>7. \A u \in BagToSet(tasks) : Sound(u, w, api'.runs) \/ (u = t /\ t.fn \in Auth \cup Scans)
    BY <1>1, <1>2, <1>3, <2>2 DEF Sound
  <2>8. /\ \A n \in more : Sound(n, w, api'.runs) /\ Follows(t, n)
        /\ \A n, o \in more : n = o
    BY <2>6
  <2> HIDE DEF more
  <2>9. TasksInv' /\ (Stays(w) => Stays(web'))
    BY <1>3, <2>1, <2>2, <2>3, <2>7, <2>8, Continuing
  <2> QED BY <2>2, <2>9 DEF Stays
<1>5. CASE refreshAuthStatus(t)
  <2> DEFINE more == {}
  <2>1. PICK known \in BOOLEAN : Resume(t, [web EXCEPT !.status = known], more)
    BY <1>5 DEF refreshAuthStatus
  <2> DEFINE w == [web EXCEPT !.status = known]
  <2>2. w \in Web /\ w.result = web.result /\ w.token = web.token
    BY TaskFields DEF Web
  <2>3. Resume(t, w, more)
    BY <2>1
  <2> HIDE DEF w
  <2>4. Done(w, api'.runs)
    BY <1>3, <2>2 DEF TasksInv, Done
  <2>5. \A u \in BagToSet(tasks) : Sound(u, w, api'.runs) \/ (u = t /\ t.fn \in Auth \cup Scans)
    BY <1>1, <1>2, <1>3, <2>2 DEF Sound
  <2>6. /\ \A n \in more : Sound(n, w, api'.runs) /\ Follows(t, n)
        /\ \A n, o \in more : n = o
    OBVIOUS
  <2> HIDE DEF more
  <2>7. TasksInv' /\ (Stays(w) => Stays(web'))
    BY <1>3, <2>2, <2>3, <2>4, <2>5, <2>6, Continuing
  <2> QED BY <2>2, <2>7 DEF Stays
<1> QED BY <1>4, <1>5

\* The API queues the run of a function; what the others know stays so.
LEMMA QueuedSound ==
  ASSUME TasksInv, NEW t \in BagToSet(tasks), t.fn = "runScan.queue", Queued(t), left' = left
  PROVE  /\ Surroundings' /\ Done(web, api'.runs)
         /\ t.run \in Runs /\ api.runs[t.run] = "none"
         /\ \A u \in BagToSet(tasks) : u = t \/ Sound(u, web, api'.runs)
<1>1. t.run \in Runs /\ api.runs[t.run] = "none" /\ t.fn \in Scans
  BY TaskFields DEF Sound, Scans
<1>2. /\ api'.runs = [api.runs EXCEPT ![t.run] = "queued"] /\ Surroundings'
      /\ api.runs \in [Runs -> {"none", "queued", "running", "ended"}]
  BY DEF Queued, TasksInv, Surroundings
<1>3. \A r \in Runs : r # t.run => api'.runs[r] = api.runs[r]
  BY <1>2
<1>4. Done(web, api'.runs)
  BY <1>1, <1>3 DEF TasksInv, Done
<1>5. ASSUME NEW u \in BagToSet(tasks), u # t PROVE Sound(u, web, api'.runs)
  <2>1. Sound(u, web, api.runs) /\ (u.fn \in Scans => u.run # t.run)
    BY <1>1, <1>5 DEF TasksInv, Orderly, Rivals
  <2> QED BY <1>1, <1>3, <2>1 DEF Sound
<1> QED BY <1>1, <1>2, <1>4, <1>5

LEMMA QueuedOver ==
  ASSUME TasksInv, NEW t \in BagToSet(tasks), t.fn = "runScan.queue", Queued(t),
         NEW w, Moves(web, w), Resume(t, w, {})
  PROVE  TasksInv' /\ Stays(web')
<1> DEFINE more == {}
<1>0. w \in Web /\ left' = left
  BY DEF Moves, Resume
<1>1. Surroundings' /\ Done(web, api'.runs) /\ \A u \in BagToSet(tasks) : u = t \/ Sound(u, web, api'.runs)
  BY <1>0, QueuedSound
<1>2. Done(w, api'.runs) /\ \A u \in BagToSet(tasks) : u = t \/ Sound(u, w, api'.runs)
  BY <1>1, MovesOn
<1>3. \A u \in BagToSet(tasks) : Sound(u, w, api'.runs) \/ (u = t /\ t.fn \in Auth \cup Scans)
  BY <1>2 DEF Scans
<1>4. /\ \A n \in more : Sound(n, w, api'.runs) /\ Follows(t, n)
      /\ \A n, o \in more : n = o
      /\ Resume(t, w, more)
  OBVIOUS
<1> HIDE DEF more
<1> QED BY <1>0, <1>1, <1>2, <1>3, <1>4, Continuing, MovesStay

LEMMA ScanTasks ==
  ASSUME TasksInv, NEW t \in BagToSet(tasks),
         Receive(t) \/ planAnswered(t) \/ queueAnswered(t) \/ queueFailed(t)
  PROVE  TasksInv' /\ Stays(web')
<1>1. ASSUME NEW a, NEW says \in {"planned", "blocked"}, NEW other \in {"blocked", "error"}
      PROVE  /\ Moves(web, Settle(web, a, About(web, t.run, says), About(web, t.run, "error")))
             /\ Moves(web, Settle(web, a, web, About(web, t.run, other)))
  <2>1. \A what \in {"planned", "blocked", "error"} : Moves(web, About(web, t.run, what))
    BY TaskFields, TalkingMoves DEF Says, Lively
  <2> QED BY <2>1, TaskFields, SettlingMoves
<1>2. CASE Receive(t)
  <2>1. PICK a : Resume(t, Fetched(web, t, a), {})
    BY <1>2 DEF Receive
  <2>2. Moves(web, Fetched(web, t, a)) /\ UNCHANGED <<setting, api>>
    BY <1>2, TaskFields, FetchedMoves DEF Receive
  <2> QED BY <2>1, <2>2, Over
<1>3. CASE planAnswered(t)
  <2>1. PICK a \in fetchJson(t.token), says \in {"planned", "blocked"} :
          Resume(t, Settle(web, a, About(web, t.run, says), About(web, t.run, "error")), {})
    BY <1>3 DEF planAnswered
  <2>2. UNCHANGED <<setting, api>>
    BY <1>3 DEF planAnswered
  <2> QED BY <1>1, <2>1, <2>2, Over
<1>4. CASE queueAnswered(t)
  <2>1. t.fn = "runScan.queue" /\ Queued(t)
    BY <1>4 DEF queueAnswered
  <2>2. CASE web.denied
    <3>1. Resume(t, web, {})
      BY <1>4, <2>2 DEF queueAnswered
    <3> QED BY <2>1, <3>1, QueuedOver, TaskFields
  <2>3. CASE ~web.denied
    <3> DEFINE m == Start("pollScanRun", t.token, t.run, "wait")
               more == {m}
               w == About(web, t.run, "queued")
    <3>1. Resume(t, w, more)
      BY <1>4, <2>3 DEF queueAnswered
    <3>2. /\ Surroundings' /\ t.run \in Runs /\ api.runs[t.run] = "none"
          /\ \A u \in BagToSet(tasks) : u = t \/ Sound(u, web, api'.runs)
      BY <2>1, <3>1, QueuedSound DEF Resume
    <3>3. /\ w \in Web /\ w.token = web.token /\ w.status = web.status
          /\ w.result.says = "queued" /\ w.result.about = t.run
      BY <3>2, TaskFields DEF About, Web, Result, Says
    <3>4. /\ m \in Task /\ m.fn = "pollScanRun" /\ m.token = t.token /\ m.run = t.run
          /\ ~m.said /\ m.then = None /\ m.attempt = 0
      BY <3>2, TaskFields, WebConstants DEF Start, Task, Functions
    <3> HIDE DEF m, w
    <3>5. /\ t.fn \in Scans /\ t.fn \notin Loose
          /\ m.fn \in Scans /\ m.fn \notin Auth /\ m.then # "finished" /\ 0 < Attempts
      BY <2>1, <3>4, WebConstants DEF Scans, Loose, Auth
    <3>6. Sound(m, w, api'.runs) /\ Follows(t, m)
      <4>1. Sound(t, web, api.runs)
        BY TaskFields
      <4> QED BY <3>2, <3>3, <3>4, <3>5, <4>1 DEF Sound, Follows, Loose
    <3>7. Done(w, api'.runs)
      BY <3>3 DEF Done
    <3>8. \A u \in BagToSet(tasks) : Sound(u, w, api'.runs) \/ (u = t /\ t.fn \in Auth \cup Scans)
      BY <3>2, <3>3, <3>5 DEF Sound
    <3>9. /\ \A n \in more : Sound(n, w, api'.runs) /\ Follows(t, n)
          /\ \A n, o \in more : n = o
      BY <3>6
    <3> HIDE DEF more
    <3>10. TasksInv' /\ (Stays(w) => Stays(web'))
      BY <3>1, <3>2, <3>3, <3>7, <3>8, <3>9, Continuing
    <3>11. Stays(w)
      BY <3>3, <3>5, TaskFields DEF Stays, Sound
    <3> QED BY <3>10, <3>11
  <2> QED BY <2>2, <2>3
<1>5. CASE queueFailed(t)
  <2>1. PICK a : Resume(t, Settle(web, a, web, About(web, t.run, IF a = "409" THEN "blocked" ELSE "error")), {})
    BY <1>5 DEF queueFailed
  <2> DEFINE other == IF a = "409" THEN "blocked" ELSE "error"
  <2>2. t.fn = "runScan.queue" /\ (Queued(t) \/ UNCHANGED <<setting, api>>)
    BY <1>5 DEF queueFailed
  <2> DEFINE w == Settle(web, a, web, About(web, t.run, other))
  <2>3. Moves(web, w)
    BY <1>1, other \in {"blocked", "error"}
  <2> HIDE DEF w
  <2>4. Resume(t, w, {})
    BY <2>1 DEF w
  <2> QED BY <2>2, <2>3, <2>4, Over, QueuedOver
<1> QED BY <1>2, <1>3, <1>4, <1>5

\* A function that goes on with what it knows.
LEMMA GoingOn ==
  ASSUME TasksInv, NEW t \in BagToSet(tasks), NEW m \in Task,
         m.fn = t.fn, m.token = t.token, t.run # None => m.run = t.run,
         m.said = t.said, m.then = t.then, m.attempt = t.attempt,
         m.at \in {"wait", "both"} => m.run \in Runs
  PROVE  Sound(m, web, api.runs) /\ Follows(t, m)
<1>1. Sound(t, web, api.runs) /\ None \notin Runs
  BY TaskFields, WebConstants
<1> QED BY <1>1 DEF Sound, Follows, Polling

\* A function speaks of its run, and of its end only when it is over.
LEMMA Speaking ==
  ASSUME TasksInv, NEW t \in BagToSet(tasks), t.fn \in Scans, NEW v, Moves(web, v),
         NEW says \in {"progress", "finished"}, says = "finished" => t.then = "finished",
         NEW more, Resume(t, Updating(v, t.run, says), more), UNCHANGED <<setting, api>>,
         \A m \in more : /\ Sound(m, web, api.runs) /\ Follows(t, m)
                         /\ says = "finished" => m.fn \notin Scans,
         \A m, n \in more : m = n
  PROVE  TasksInv' /\ Stays(web')
<1>1. CASE v.result.about # t.run
  <2>1. Resume(t, v, more)
    BY <1>1 DEF Updating
  <2> QED BY <2>1, Continued
<1>2. CASE v.result.about = t.run
  <2> DEFINE w == About(v, t.run, says)
  <2>1. Resume(t, w, more)
    BY <1>2 DEF Updating
  <2>2. Sound(t, web, api.runs) /\ t.run \in Runs
    BY TaskFields DEF Sound
  <2>3. /\ w \in Web /\ w.token = v.token /\ w.status = v.status
        /\ w.result.says = says /\ w.result.about = t.run
    BY <2>2 DEF Moves, About, Web, Result, Says
  <2> HIDE DEF w
  <2>4. Surroundings' /\ api' = api
    BY <2>1 DEF Resume, TasksInv, Surroundings
  <2>5. Done(w, api'.runs)
    BY <2>2, <2>3, <2>4 DEF Done, Sound
  <2>6. \A u : Sound(u, web, api.runs) => Sound(u, v, api.runs)
    BY MovesOn
  <2>7. \A m \in more : Sound(m, w, api'.runs) /\ Follows(t, m)
    BY <2>3, <2>4, <2>6 DEF Sound
  <2>8. ASSUME NEW u \in BagToSet(tasks), u # t PROVE Sound(u, w, api'.runs)
    <3>1. Sound(u, v, api.runs) /\ (u.fn \in Scans => u.run # t.run)
      BY <2>6, <2>8 DEF TasksInv, Orderly, Rivals
    <3> QED BY <2>3, <2>4, <3>1 DEF Sound
  <2>9. \A u \in BagToSet(tasks) : Sound(u, w, api'.runs) \/ (u = t /\ t.fn \in Auth \cup Scans)
    BY <2>8
  <2>10. TasksInv' /\ (Stays(w) => Stays(web'))
    BY <2>1, <2>3, <2>4, <2>5, <2>7, <2>9, Continuing
  <2>11. Stays(w)
    BY <2>2, <2>3 DEF Stays, Sound
  <2> QED BY <2>10, <2>11
<1> QED BY <1>1, <1>2

LEMMA ReturnedOver ==
  ASSUME TasksInv, NEW t \in BagToSet(tasks), NEW v, Moves(web, v),
         NEW more, Resume(t, Returned(v, t), more), UNCHANGED <<setting, api>>,
         \A m \in more : Sound(m, web, api.runs) /\ Follows(t, m) /\ m.fn \notin Scans,
         \A m, n \in more : m = n
  PROVE  TasksInv' /\ Stays(web')
<1>1. CASE t.then = None
  <2>1. Resume(t, v, more)
    BY <1>1 DEF Returned
  <2> QED BY <2>1, Continued
<1>2. CASE t.then = "noEvidence"
  <2> DEFINE w == Updating(v, t.run, "noEvidence")
  <2>1. Resume(t, w, more)
    BY <1>2, WebConstants DEF Returned
  <2>2. Moves(v, w)
    <3>1. v \in Web /\ t.run \in Runs \cup {None} /\ "noEvidence" \in Says \ Lively
      BY TaskFields DEF Moves, Says, Lively
    <3> QED BY <3>1, TalkingMoves
  <2> HIDE DEF w
  <2>3. Moves(web, w)
    BY <2>2, MovesOn
  <2> QED BY <2>1, <2>3, Continued
<1>3. CASE t.then = "finished"
  <2>1. Resume(t, Updating(v, t.run, "finished"), more)
    BY <1>3, WebConstants DEF Returned
  <2>2. t.fn \in Scans
    BY <1>3, TaskFields, WebConstants DEF Sound, Scans
  <2> QED BY <1>3, <2>1, <2>2, Speaking
<1>4. t.then \in {"finished", "noEvidence", None}
  BY TaskFields DEF Task
<1> QED BY <1>1, <1>2, <1>3, <1>4

LEMMA ReturnedLast ==
  ASSUME TasksInv, NEW t \in BagToSet(tasks), NEW v, Moves(web, v),
         Resume(t, Returned(v, t), {}), UNCHANGED <<setting, api>>
  PROVE  TasksInv' /\ Stays(web')
<1> DEFINE more == {}
<1>1. /\ \A m \in more : Sound(m, web, api.runs) /\ Follows(t, m) /\ m.fn \notin Scans
      /\ \A m, n \in more : m = n
      /\ Resume(t, Returned(v, t), more)
  OBVIOUS
<1> HIDE DEF more
<1> QED BY <1>1, ReturnedOver

\* A function goes on as m.
LEMMA ContinuedAs ==
  ASSUME TasksInv, NEW t \in BagToSet(tasks), NEW w, Moves(web, w), NEW m, Resume(t, w, {m}),
         UNCHANGED <<setting, api>>, Sound(m, web, api.runs) /\ Follows(t, m)
  PROVE  TasksInv' /\ Stays(web')
<1> DEFINE more == {m}
<1>1. /\ \A n \in more : Sound(n, web, api.runs) /\ Follows(t, n)
      /\ \A n, o \in more : n = o
      /\ Resume(t, w, more)
  OBVIOUS
<1> HIDE DEF more
<1> QED BY <1>1, Continued

LEMMA ListTasks ==
  ASSUME TasksInv, NEW t \in BagToSet(tasks), listAnswered(t) \/ pollScanRun(t)
  PROVE  TasksInv' /\ Stays(web')
<1>1. UNCHANGED <<setting, api>> /\ t \in Task
  BY TaskFields DEF listAnswered, pollScanRun
<1>2. CASE pollScanRun(t)
  <2> DEFINE m == [t EXCEPT !.at = "both", !.open = {"detail", "progress"}]
  <2>1. Resume(t, web, {m}) /\ t.at = "wait"
    BY <1>2 DEF pollScanRun
  <2>2. t.run \in Runs
    BY <2>1, TaskFields DEF Sound
  <2>3. /\ m \in Task /\ m.fn = t.fn /\ m.token = t.token /\ m.run = t.run
        /\ m.said = t.said /\ m.then = t.then /\ m.attempt = t.attempt
    BY <1>1 DEF Task
  <2> HIDE DEF m
  <2>4. Sound(m, web, api.runs) /\ Follows(t, m)
    BY <2>2, <2>3, GoingOn
  <2> QED BY <1>1, <2>1, <2>4, ContinuedAs, TaskFields
<1>3. CASE listAnswered(t)
  <2> DEFINE first == [web EXCEPT !.newest = Newest]
             listed == Show(first, "runs")
             none == [listed EXCEPT !.selected = None]
             next == IF t.run # None THEN t.run ELSE Newest
             m == [t EXCEPT !.at = "both", !.run = next, !.open = {"detail", "progress"}]
  <2>1. Moves(web, first)
    BY TaskFields, NewestTyped, DataMoves
  <2>2. Moves(first, listed)
    <3> HIDE DEF first
    <3> QED BY <2>1, ShowingMoves DEF Moves, Pieces
  <2>3. Moves(web, listed)
    <3> HIDE DEF first, listed
    <3> QED BY <2>1, <2>2, MovesOn
  <2>4. Moves(web, none)
    <3> HIDE DEF listed
    <3>1. Moves(listed, none)
      BY <2>3, DataMoves DEF Moves
    <3> QED BY <2>3, <3>1, MovesOn
  <2>5. Moves(web, Saying(web, "error"))
    BY TaskFields, TalkingMoves DEF Says, Lively
  <2>6. PICK a : \/ next # None /\ Resume(t, listed, {m})
                 \/ Resume(t, Returned(Settle(web, a, none, Saying(web, "error")), t), {})
    BY <1>3 DEF listAnswered
  <2>7. CASE next # None /\ Resume(t, listed, {m})
    <3>1. next \in Runs /\ (t.run # None => next = t.run)
      BY <2>7, NewestTyped, TaskFields
    <3> HIDE DEF next
    <3>2. /\ m \in Task /\ m.fn = t.fn /\ m.token = t.token /\ m.run = next
          /\ m.said = t.said /\ m.then = t.then /\ m.attempt = t.attempt
      BY <1>1, <3>1 DEF Task
    <3> HIDE DEF m
    <3>3. Sound(m, web, api.runs) /\ Follows(t, m)
      BY <3>1, <3>2, GoingOn
    <3> HIDE DEF listed
    <3> QED BY <1>1, <2>3, <2>7, <3>3, ContinuedAs
  <2>8. CASE Resume(t, Returned(Settle(web, a, none, Saying(web, "error")), t), {})
    <3> HIDE DEF none
    <3> DEFINE v == Settle(web, a, none, Saying(web, "error"))
    <3>1. Moves(web, v)
      BY <2>4, <2>5, TaskFields, SettlingMoves
    <3>2. Resume(t, Returned(v, t), {})
      BY <2>8
    <3> HIDE DEF v
    <3> QED BY <1>1, <3>1, <3>2, ReturnedLast
  <2> QED BY <2>6, <2>7, <2>8
<1> QED BY <1>2, <1>3

LEMMA PartTasks ==
  ASSUME TasksInv, NEW t \in BagToSet(tasks), partArrives(t) \/ remainderArrives(t)
  PROVE  TasksInv' /\ Stays(web')
<1>1. UNCHANGED <<setting, api>> /\ t \in Task /\ Sound(t, web, api.runs)
  BY TaskFields DEF partArrives, remainderArrives
<1>2. \A part : Moves(web, Part(web, t.run, part))
  BY TaskFields, PartMoves
<1>3. Moves(web, web)
  BY TaskFields
<1>4. CASE remainderArrives(t)
  <2>1. \E part, w : w \in {Part(web, t.run, part), web} /\ Resume(t, w, {})
    BY <1>4 DEF remainderArrives
  <2> QED BY <1>1, <1>2, <1>3, <2>1, Over
<1>5. CASE partArrives(t)
  <2>0. t.run \in Runs /\ t.open \in SUBSET {"detail", "progress"} /\ t.said \in BOOLEAN
    BY <1>1, <1>5 DEF partArrives, Sound, Task
  <2>1. PICK part \in t.open :
          LET rest == t.open \ {part} IN
          \/ \E a \in fetchOptionalJson(t.token, t.run) \cap {"200", "404"} :
               LET w == IF a = "200" THEN Part(web, t.run, part) ELSE web
                   ended == part = "detail" /\ a = "200" /\ ~web.denied /\ api.runs[t.run] = "ended"
                   heard == [t EXCEPT !.open = rest, !.said = @ \/ ended]
                   join == Joined(w, heard)
               IN IF rest = {} THEN Resume(t, join.w, join.more) ELSE Resume(t, w, {heard})
          \/ \E a \in fetchOptionalJson(t.token, t.run) \ {"200", "404"} :
               LET failed == IF Polling(t) THEN Updating(web, t.run, "error") ELSE Saying(web, "error") IN
               Resume(t, Returned(Settle(web, a, web, failed), t),
                      IF rest = {} THEN {}
                      ELSE {[Start("remainder", t.token, t.run, "both") EXCEPT !.open = rest]})
    BY <1>5, Zenon DEF partArrives
  <2>2. CASE \E a \in fetchOptionalJson(t.token, t.run) \cap {"200", "404"} :
               LET w == IF a = "200" THEN Part(web, t.run, part) ELSE web
                   ended == part = "detail" /\ a = "200" /\ ~web.denied /\ api.runs[t.run] = "ended"
                   heard == [t EXCEPT !.open = t.open \ {part}, !.said = @ \/ ended]
                   join == Joined(w, heard)
               IN IF t.open \ {part} = {} THEN Resume(t, join.w, join.more) ELSE Resume(t, w, {heard})
    <3>1. PICK a \in fetchOptionalJson(t.token, t.run) \cap {"200", "404"} :
               LET w == IF a = "200" THEN Part(web, t.run, part) ELSE web
                   ended == part = "detail" /\ a = "200" /\ ~web.denied /\ api.runs[t.run] = "ended"
                   heard == [t EXCEPT !.open = t.open \ {part}, !.said = @ \/ ended]
                   join == Joined(w, heard)
               IN IF t.open \ {part} = {} THEN Resume(t, join.w, join.more) ELSE Resume(t, w, {heard})
      BY <2>2, Zenon
    <3> DEFINE w == IF a = "200" THEN Part(web, t.run, part) ELSE web
               ended == part = "detail" /\ a = "200" /\ ~web.denied /\ api.runs[t.run] = "ended"
               rest == t.open \ {part}
               heard == [t EXCEPT !.open = rest, !.said = t.said \/ ended]
    <3>2. Moves(web, w)
      BY <1>2, <1>3
    <3>3. \/ Resume(t, Joined(w, heard).w, Joined(w, heard).more)
          \/ Resume(t, w, {heard})
      BY <3>1
    <3>4. /\ ended \in BOOLEAN /\ (ended => api.runs[t.run] = "ended")
          /\ rest \in SUBSET {"detail", "progress"}
      BY <2>0
    <3> HIDE DEF w, ended, rest
    <3>5. /\ heard \in Task /\ heard.fn = t.fn /\ heard.token = t.token /\ heard.run = t.run
          /\ heard.then = t.then /\ heard.attempt = t.attempt /\ heard.at = t.at
          /\ heard.said = (t.said \/ ended)
      BY <1>1, <2>0, <3>4 DEF Task
    <3> HIDE DEF heard
    <3>6. Sound(heard, web, api.runs) /\ Follows(t, heard) /\ (heard.said => api.runs[t.run] = "ended")
      BY <1>1, <2>0, <3>4, <3>5 DEF Sound, Follows, Polling
    <3>7. CASE Resume(t, w, {heard})
      BY <1>1, <3>2, <3>6, <3>7, ContinuedAs
    <3>8. CASE Resume(t, Joined(w, heard).w, Joined(w, heard).more) /\ ~Polling(heard)
      <4>1. Resume(t, Returned(w, t), {})
        BY <3>5, <3>8 DEF Joined, Returned
      <4> QED BY <1>1, <3>2, <4>1, ReturnedLast
    <3>9. CASE Resume(t, Joined(w, heard).w, Joined(w, heard).more) /\ Polling(heard) /\ heard.said
      <4> DEFINE m == [heard EXCEPT !.at = "list", !.then = "finished"]
      <4>1. Resume(t, w, {m})
        BY <3>9 DEF Joined, Polled
      <4>2. /\ m \in Task /\ m.fn = t.fn /\ m.token = t.token /\ m.run = t.run
            /\ m.said = heard.said /\ m.then = "finished" /\ m.at = "list"
        BY <3>5 DEF Task
      <4> HIDE DEF m
      <4>3. Sound(m, web, api.runs) /\ Follows(t, m)
        BY <2>0, <3>5, <3>6, <3>9, <4>2, WebConstants DEF Sound, Follows, Polling
      <4> QED BY <1>1, <3>2, <4>1, <4>3, ContinuedAs
    <3>10. CASE Resume(t, Joined(w, heard).w, Joined(w, heard).more) /\ Polling(heard) /\ ~heard.said
      <4> DEFINE m == IF heard.attempt + 1 = Attempts THEN LastLook(heard) ELSE Waiting(heard)
                 more == {m}
      <4>1. Resume(t, Updating(w, t.run, "progress"), more)
        BY <3>5, <3>10 DEF Joined, Polled, NextRound
      <4>2. /\ heard.attempt < Attempts /\ heard.attempt \in 0..Attempts /\ Attempts \in Nat
            /\ heard.fn = "pollScanRun"
        BY <3>5, <3>6, <3>10, WebConstants DEF Sound, Polling, Task
      <4>3. /\ m \in Task /\ m.fn = t.fn /\ m.token = t.token /\ m.run = t.run /\ m.said = heard.said
            /\ m.then \in {heard.then, "noEvidence"} /\ m.at \in {"wait", "list"}
            /\ m.then = heard.then => m.attempt < Attempts
        <5>0. heard.then = None /\ None # "noEvidence" /\ heard.attempt + 1 \in 1..(Attempts + 1)
          BY <3>10, <4>2, WebConstants DEF Polling
        <5>1. CASE heard.attempt + 1 = Attempts
          <6>1. m = [heard EXCEPT !.attempt = heard.attempt + 1, !.at = "list", !.then = "noEvidence"]
            BY <5>1 DEF LastLook
          <6>2. heard.attempt + 1 \in 0..Attempts
            BY <4>2, <5>1
          <6> QED BY <3>5, <5>0, <6>1, <6>2 DEF Task
        <5>2. CASE heard.attempt + 1 # Attempts
          <6>1. m = [heard EXCEPT !.attempt = heard.attempt + 1, !.at = "wait"]
            BY <5>2 DEF Waiting
          <6>2. heard.attempt + 1 \in 0..Attempts /\ heard.attempt + 1 < Attempts
            BY <4>2, <5>2
          <6> QED BY <3>5, <5>0, <6>1, <6>2 DEF Task
        <5> QED BY <5>1, <5>2
      <4> HIDE DEF m
      <4>4. Sound(m, web, api.runs) /\ Follows(t, m)
        BY <2>0, <3>5, <3>6, <3>10, <4>2, <4>3, WebConstants DEF Sound, Follows, Polling
      <4>5. /\ \A n \in more : /\ Sound(n, web, api.runs) /\ Follows(t, n)
                               /\ "progress" = "finished" => n.fn \notin Scans
            /\ \A n, o \in more : n = o
        BY <4>4
      <4> HIDE DEF more
      <4>6. t.fn \in Scans
        BY <3>5, <4>2 DEF Scans
      <4> QED BY <1>1, <3>2, <4>1, <4>5, <4>6, Speaking
    <3> QED BY <3>3, <3>7, <3>8, <3>9, <3>10
  <2>3. CASE \E a \in fetchOptionalJson(t.token, t.run) \ {"200", "404"} :
               LET failed == IF Polling(t) THEN Updating(web, t.run, "error") ELSE Saying(web, "error") IN
               Resume(t, Returned(Settle(web, a, web, failed), t),
                      IF t.open \ {part} = {} THEN {}
                      ELSE {[Start("remainder", t.token, t.run, "both") EXCEPT !.open = t.open \ {part}]})
    <3> DEFINE failed == IF Polling(t) THEN Updating(web, t.run, "error") ELSE Saying(web, "error")
               rest == t.open \ {part}
               start == Start("remainder", t.token, t.run, "both")
               m == [start EXCEPT !.open = rest]
               more == IF rest = {} THEN {} ELSE {m}
    <3>1. PICK a : Resume(t, Returned(Settle(web, a, web, failed), t), more)
      BY <2>3
    <3>2. Moves(web, failed)
      <4>1. "error" \in Says \ Lively
        BY DEF Says, Lively
      <4> QED BY <4>1, TaskFields, TalkingMoves
    <3> HIDE DEF failed
    <3> DEFINE v == Settle(web, a, web, failed)
    <3>3. Moves(web, v)
      BY <1>3, <3>2, TaskFields, SettlingMoves
    <3>4. /\ m \in Task /\ m.fn = "remainder" /\ m.run = t.run /\ m.then = None /\ ~m.said
          /\ m.then # "finished"
      <4>1. start \in Task /\ start.fn = "remainder" /\ start.run = t.run /\ start.then = None /\ ~start.said
        BY <2>0, TaskFields, WebConstants DEF Start, Task, Functions
      <4>2. rest \in SUBSET {"detail", "progress"}
        BY <2>0
      <4> HIDE DEF start, rest
      <4> QED BY <4>1, <4>2, WebConstants DEF Task
    <3> HIDE DEF m
    <3>5. Sound(m, web, api.runs) /\ Follows(t, m) /\ m.fn \notin Scans
      BY <2>0, <3>4 DEF Sound, Follows, Polling, Loose, Auth, Scans
    <3>6. /\ \A n \in more : Sound(n, web, api.runs) /\ Follows(t, n) /\ n.fn \notin Scans
          /\ \A n, o \in more : n = o
      BY <3>5
    <3>7. Resume(t, Returned(v, t), more)
      BY <3>1
    <3> HIDE DEF v, more
    <3> QED BY <1>1, <3>3, <3>6, <3>7, ReturnedOver
  <2> QED BY <2>1, <2>2, <2>3
<1> QED BY <1>4, <1>5

LEMMA DetailTasks ==
  ASSUME TasksInv, NEW t \in BagToSet(tasks),
         updateFindingTriageState(t) \/ detailArrives(t) \/ progressArrives(t)
  PROVE  TasksInv' /\ Stays(web')
<1>1. UNCHANGED <<setting, api>> /\ t \in Task
  BY TaskFields DEF updateFindingTriageState, detailArrives, progressArrives
<1>2. /\ Moves(web, web) /\ Moves(web, loadScanRunDetail(web, t.run))
      /\ Moves(web, Triaged(web, t)) /\ \A a : Moves(web, Threw(web, t, a))
  BY TaskFields, PartMoves, TriagedMoves
<1>3. Moves(web, Triaged(loadScanRunProgress(web, t.run), t))
  <2> DEFINE loaded == loadScanRunProgress(web, t.run)
  <2>1. Moves(web, loaded)
    BY TaskFields, PartMoves
  <2> HIDE DEF loaded
  <2>2. loaded \in Web
    BY <2>1 DEF Moves
  <2>3. Moves(loaded, Triaged(loaded, t))
    BY <2>2, TriagedMoves
  <2> QED BY <2>1, <2>3, MovesOn DEF loaded
<1>4. ASSUME NEW at \in {"detail", "progress"}
      PROVE  Sound([t EXCEPT !.at = at], web, api.runs) /\ Follows(t, [t EXCEPT !.at = at])
  <2> DEFINE m == [t EXCEPT !.at = at]
  <2>1. /\ m \in Task /\ m.fn = t.fn /\ m.token = t.token /\ m.run = t.run /\ m.at = at
        /\ m.said = t.said /\ m.then = t.then /\ m.attempt = t.attempt
    BY <1>1 DEF Task
  <2> HIDE DEF m
  <2>2. Sound(m, web, api.runs) /\ Follows(t, m)
    BY <2>1, GoingOn
  <2> QED BY <2>2 DEF m
<1>5. \/ \E w \in {web, loadScanRunDetail(web, t.run)}, at \in {"detail", "progress"} :
           Resume(t, w, {[t EXCEPT !.at = at]})
      \/ \E a : \E w \in {web, Threw(web, t, a), Triaged(web, t),
                          Triaged(loadScanRunProgress(web, t.run), t)} : Resume(t, w, {})
  <2>1. CASE updateFindingTriageState(t)
    BY <2>1 DEF updateFindingTriageState
  <2>2. CASE detailArrives(t)
    BY <2>2 DEF detailArrives
  <2>3. CASE progressArrives(t)
    BY <2>3 DEF progressArrives
  <2> QED BY <2>1, <2>2, <2>3
<1>6. ASSUME NEW w \in {web, loadScanRunDetail(web, t.run)}, NEW at \in {"detail", "progress"},
             Resume(t, w, {[t EXCEPT !.at = at]})
      PROVE  TasksInv' /\ Stays(web')
  BY <1>1, <1>2, <1>4, <1>6, ContinuedAs
<1>7. ASSUME NEW a, NEW w \in {web, Threw(web, t, a), Triaged(web, t),
                               Triaged(loadScanRunProgress(web, t.run), t)}, Resume(t, w, {})
      PROVE  TasksInv' /\ Stays(web')
  BY <1>1, <1>2, <1>3, <1>7, Over
<1> QED BY <1>5, <1>6, <1>7

-----------------------------------------------------------------------------
(* Steps of the user, of the browser and of the API                         *)

LEMMA StartSound ==
  ASSUME TasksInv, NEW fn \in Functions \ (Auth \cup Scans), fn \in Loose \/ web.status,
         NEW run \in Runs \cup {None}, NEW at \in {"fetch", "list", "detail"}
  PROVE  /\ Sound(Start(fn, web.token, run, at), web, api.runs)
         /\ Start(fn, web.token, run, at).fn = fn
<1> DEFINE t == Start(fn, web.token, run, at)
<1>1. /\ t \in Task /\ t.fn = fn /\ t.token = web.token /\ t.at = at /\ ~t.said /\ t.then = None
      /\ t.then # "finished"
  BY WebFields, WebConstants DEF TasksInv, Start, Task
<1>2. fn \notin Auth /\ fn \notin Scans /\ fn # "pollScanRun"
  BY DEF Scans
<1> HIDE DEF t
<1>3. Sound(t, web, api.runs) /\ t.fn = fn
  BY <1>1, <1>2 DEF Sound, Polling
<1> QED BY <1>3 DEF t

\* A control that starts functions without rivals.
LEMMA Clicked ==
  ASSUME TasksInv, NEW fn, NEW w, Moves(web, w), NEW more, Click(fn, w, more),
         \A m \in more : Sound(m, web, api.runs) /\ m.fn \notin Auth \cup Scans
  PROVE  TasksInv' /\ Stays(web')
<1>1. w \in Web /\ api' = api /\ Surroundings'
  BY DEF Moves, Click, TasksInv, Surroundings
<1>2. Done(w, api'.runs) /\ \A u : Sound(u, web, api.runs) => Sound(u, w, api'.runs)
  BY <1>1, MovesOn DEF TasksInv
<1>3. \A u \in BagToSet(tasks) : Sound(u, w, api'.runs)
  BY <1>2 DEF TasksInv, Orderly
<1>4. /\ \A m, n \in more : Rivals(m, n) => m = n
      /\ \A m \in more, u \in BagToSet(tasks) : ~Rivals(m, u) /\ ~Rivals(u, m)
  BY DEF Rivals
<1>5. \A m \in more : Sound(m, w, api'.runs)
  BY <1>2
<1>6. Commit(w, tasks (+) SetToBag(more))
  BY DEF Click
<1> QED BY <1>1, <1>2, <1>3, <1>4, <1>5, <1>6, Adding, MovesStay

LEMMA ClickedOnly ==
  ASSUME TasksInv, NEW fn, NEW w, Moves(web, w), Click(fn, w, {})
  PROVE  TasksInv' /\ Stays(web')
<1> DEFINE more == {}
<1>1. (\A m \in more : Sound(m, web, api.runs) /\ m.fn \notin Auth \cup Scans) /\ Click(fn, w, more)
  OBVIOUS
<1> HIDE DEF more
<1> QED BY <1>1, Clicked

LEMMA ClickedOne ==
  ASSUME TasksInv, NEW control, NEW w, Moves(web, w),
         NEW fn \in Functions \ (Auth \cup Scans), fn \in Loose \/ web.status,
         NEW run \in Runs \cup {None}, NEW at \in {"fetch", "list", "detail"},
         Click(control, w, {Start(fn, web.token, run, at)})
  PROVE  TasksInv' /\ Stays(web')
<1> DEFINE m == Start(fn, web.token, run, at)
           more == {m}
<1>1. Sound(m, web, api.runs) /\ m.fn \notin Auth \cup Scans
  BY StartSound
<1> HIDE DEF m
<1>2. \A n \in more : Sound(n, web, api.runs) /\ n.fn \notin Auth \cup Scans
  BY <1>1
<1>3. Click(control, w, more)
  BY DEF m
<1> HIDE DEF more
<1> QED BY <1>2, <1>3, Clicked

LEMMA ReadyStatus == AuthReady(web) => web.status
BY DEF AuthReady

LEMMA StartTasks ==
  ASSUME TasksInv,
         \/ \E fn \in Single \ {"loadProfiles", "saveProjectPublicUrl", "runScan.plan", "runScan.queue"} :
              StartSingle(fn)
         \/ refuseDoctor \/ StartRefresh \/ openScanLog \/ StartTriage \/ runScanRefused
  PROVE  TasksInv' /\ Stays(web')
<1>0. web \in Web /\ Moves(web, web)
  BY WebFields DEF TasksInv
<1>1. web.newest \in Runs \cup {None} /\ web.selected \in Runs \cup {None}
      /\ web.result.about \in Runs \cup {None}
  BY <1>0, WebFields DEF Result
<1>2. latestRun(web) \in Runs \cup {None}
  BY <1>1 DEF latestRun
<1>3. ASSUME NEW fn \in Single \ {"loadProfiles", "saveProjectPublicUrl", "runScan.plan", "runScan.queue"},
             StartSingle(fn)
      PROVE  TasksInv' /\ Stays(web')
  <2>1. fn \in Functions \ (Auth \cup Scans) /\ (fn \in Loose \/ web.status)
    BY <1>3, ReadyStatus DEF StartSingle, Single, Functions, Auth, Scans, Loose
  <2>2. PICK w \in {web, Hide(web, "akbAnswer")} : Click(fn, w, {Start(fn, web.token, None, "fetch")})
    BY <1>3 DEF StartSingle
  <2>3. Moves(web, w)
    BY <1>0, ShowingMoves DEF Pieces
  <2> QED BY <2>1, <2>2, <2>3, ClickedOne
<1>4. CASE refuseDoctor \/ runScanRefused
  <2>1. PICK fn, says : says \in {"error", "blocked"} /\ Click(fn, Saying(web, says), {})
    BY <1>4 DEF refuseDoctor, runScanRefused
  <2>2. says \in Says \ Lively
    BY <2>1 DEF Says, Lively
  <2>3. Moves(web, Saying(web, says))
    BY <1>0, <2>2, TalkingMoves
  <2> QED BY <2>1, <2>3, ClickedOnly
<1>5. {"refreshScanRuns", "loadScanRunDetail"} \subseteq Loose \cap (Functions \ (Auth \cup Scans))
  BY DEF Loose, Functions, Auth, Scans
<1>6. CASE StartRefresh
  <2>1. PICK r \in Runs \cup {None} :
          Click("refreshScanRuns", web, {Start("refreshScanRuns", web.token, r, "list")})
    BY <1>1, <1>2, <1>6 DEF StartRefresh
  <2> QED BY <1>0, <1>5, <2>1, ClickedOne
<1>7. CASE openScanLog
  <2>1. \/ Click("openScanLog", web, {Start("refreshScanRuns", web.token, web.result.about, "list")})
        \/ Click("openScanLog", web, {Start("loadScanRunDetail", web.token, latestRun(web), "detail")})
    BY <1>7 DEF openScanLog
  <2> QED BY <1>0, <1>1, <1>2, <1>5, <2>1, ClickedOne
<1>8. CASE StartTriage
  <2>1. /\ web.status
        /\ Click("updateFindingTriageState", web,
                 {Start("updateFindingTriageState", web.token, web.selected, "fetch")})
    BY <1>8, ReadyStatus DEF StartTriage
  <2>2. "updateFindingTriageState" \in Functions \ (Auth \cup Scans)
    BY DEF Functions, Auth, Scans
  <2> QED BY <1>0, <1>1, <2>1, <2>2, ClickedOne
<1> QED BY <1>3, <1>4, <1>6, <1>7, <1>8

LEMMA RunScanTasks ==
  ASSUME TasksInv, NEW fn \in {"runScan.plan", "runScan.queue"}, runScan(fn)
  PROVE  TasksInv' /\ Stays(web')
<1>1. PICK r \in Runs, target \in {"same", "other"} :
        /\ api.runs[r] = "none" /\ \A t \in BagToSet(tasks) : t.run # r
        /\ web.result.about # r
        /\ Click(fn, About(web, r, "loading"),
                 {Start(fn, web.token, r, "fetch")} \cup
                 IF target = "same" \/ "saveProjectPublicUrl" \notin setting.controls THEN {}
                 ELSE {Start("saveProjectPublicUrl", web.token, None, "fetch")})
  BY DEF runScan
<1> DEFINE w == About(web, r, "loading")
           m == Start(fn, web.token, r, "fetch")
           save == Start("saveProjectPublicUrl", web.token, None, "fetch")
<1>2. PICK more : more \in {{m}, {m, save}} /\ Click(fn, w, more)
  BY <1>1
<1>3. web.status
  BY ReadyStatus DEF runScan
<1>4. /\ w \in Web /\ w.token = web.token /\ w.status = web.status
      /\ w.result.says = "loading" /\ w.result.about = r
  BY DEF TasksInv, About, Web, Result, Says
<1>5. Sound(save, web, api.runs) /\ save.fn = "saveProjectPublicUrl"
  <2>1. "saveProjectPublicUrl" \in Functions \ (Auth \cup Scans)
    BY DEF Functions, Single, Auth, Scans
  <2> QED BY <1>3, <2>1, StartSound
<1>6. /\ m \in Task /\ m.fn = fn /\ m.token = web.token /\ m.run = r /\ m.at = "fetch"
      /\ ~m.said /\ m.then = None /\ m.then # "finished"
  BY WebFields, WebConstants DEF TasksInv, Start, Task, Functions, Single
<1> HIDE DEF w, m, save
<1>7. fn \in Scans /\ fn \notin Auth /\ fn # "pollScanRun" /\ "saveProjectPublicUrl" \notin Auth \cup Scans
  BY DEF Scans, Auth
<1>8. api' = api /\ Surroundings'
  BY <1>2 DEF Click, TasksInv, Surroundings
<1>9. Sound(m, w, api'.runs) /\ Sound(save, w, api'.runs)
  BY <1>1, <1>3, <1>4, <1>5, <1>6, <1>7, <1>8 DEF Sound, Polling
<1>10. \A u \in BagToSet(tasks) : Sound(u, w, api'.runs)
  BY <1>4, <1>8 DEF TasksInv, Orderly, Sound
<1>11. \A n \in more : Sound(n, w, api'.runs) /\ (n = m \/ n.fn \notin Auth \cup Scans)
  BY <1>2, <1>5, <1>7, <1>9
<1>12. \A n, o \in more : Rivals(n, o) => n = o
  BY <1>11 DEF Rivals
<1>13. \A n \in more, u \in BagToSet(tasks) : ~Rivals(n, u) /\ ~Rivals(u, n)
  BY <1>1, <1>6, <1>7, <1>11 DEF Rivals
<1>14. Commit(w, tasks (+) SetToBag(more)) /\ Done(w, api'.runs) /\ Stays(w)
  BY <1>1, <1>2, <1>4 DEF Click, Done, Stays
<1> QED BY <1>4, <1>8, <1>10, <1>11, <1>12, <1>13, <1>14, Adding

\* The tab leaves, or a page is loaded.
LEMMA LoadedTyped ==
  ASSUME NEW w \in Web, NEW code \in {"none", "good", "bad"}
  PROVE  /\ Loaded(w, code) \in Web /\ Closed(w) \in Web
         /\ Loaded(w, code).status = FALSE /\ Loaded(w, code).result.says = "ready"
         /\ Closed(w).result.says = "ready"
<1>1. \A c \in {"none", "good", "bad"} :
        Loaded(w, c) \in Web /\ Loaded(w, c).status = FALSE /\ Loaded(w, c).result = Said("ready")
  <2> DEFINE said == Said("ready")
  <2>1. said \in Result
    BY DEF Said, Result, Says
  <2> HIDE DEF said
  <2>2. \A c \in {"none", "good", "bad"} :
          LET v == [w EXCEPT !.at = "open", !.code = c, !.status = FALSE, !.leaving = 0, !.failed = FALSE,
                             !.token = w.stored, !.denied = FALSE, !.shown = {}, !.newest = None,
                             !.selected = None, !.result = said]
          IN v \in Web /\ v.status = FALSE /\ v.result = said
    BY <2>1 DEF Web
  <2> QED BY <2>2 DEF Loaded, said
<1> DEFINE bare == Loaded(w, "none")
<1>2. bare \in Web /\ bare.result = Said("ready")
  BY <1>1
<1> HIDE DEF bare
<1>3. Closed(w) = [bare EXCEPT !.at = "elsewhere", !.token = None]
  BY DEF Closed, bare
<1>4. Closed(w) \in Web /\ Closed(w).result = Said("ready")
  BY <1>2, <1>3 DEF Web
<1>5. Said("ready").says = "ready"
  BY DEF Said
<1> QED BY <1>1, <1>4, <1>5

\* A page with one function or none.
LEMMA Anew ==
  ASSUME web' \in Web, web'.result.says = "ready", Surroundings', NEW ms, tasks' = SetToBag(ms),
         \A m \in ms : Sound(m, web', api'.runs), \A m, n \in ms : m = n
  PROVE  TasksInv' /\ Stays(web')
<1>1. IsABag(tasks') /\ BagToSet(tasks') = ms /\ \A m \in ms : tasks'[m] = 1
  BY BagOfSet
<1>2. Done(web', api'.runs) /\ Stays(web')
  BY DEF Done, Stays
<1>3. Orderly(tasks', web', api'.runs)
  BY <1>1 DEF Orderly
<1> QED BY <1>2, <1>3 DEF TasksInv

LEMMA AwayTasks ==
  ASSUME TasksInv, NEW w \in Web, web' = w, w.result.says = "ready", tasks' = EmptyBag, Surroundings'
  PROVE  TasksInv' /\ Stays(web')
<1> DEFINE ms == {}
<1>1. /\ \A m \in ms : Sound(m, web', api'.runs)
      /\ \A m, n \in ms : m = n
      /\ tasks' = SetToBag(ms)
  BY DEF EmptyBag
<1> HIDE DEF ms
<1> QED BY <1>1, Anew

LEMMA BrowserTasks ==
  ASSUME TasksInv,
         \/ Leave \/ startOidcLogin
         \/ \E code \in {"none", "good", "bad"} : Visit(code)
  PROVE  TasksInv' /\ Stays(web')
<1>0. web \in Web /\ Surroundings'
  BY DEF Leave, startOidcLogin, Visit, TasksInv, Surroundings
<1>1. CASE Leave
  BY <1>0, <1>1, LoadedTyped, AwayTasks DEF Leave
<1>2. CASE startOidcLogin
  <2> DEFINE bare == Closed(web)
  <2>1. bare \in Web /\ bare.result.says = "ready"
    BY <1>0, LoadedTyped
  <2>2. web' = [bare EXCEPT !.login = TRUE] /\ tasks' = EmptyBag
    BY <1>2 DEF startOidcLogin
  <2> HIDE DEF bare
  <2>3. web' \in Web /\ web'.result.says = "ready"
    BY <2>1, <2>2 DEF Web
  <2> QED BY <1>0, <2>2, <2>3, AwayTasks
<1>3. ASSUME NEW code \in {"none", "good", "bad"}, Visit(code)
      PROVE  TasksInv' /\ Stays(web')
  <2> DEFINE new == Loaded(web, code)
  <2>1. new \in Web /\ new.status = FALSE /\ new.result.says = "ready"
    BY <1>0, LoadedTyped
  <2>2. PICK fn \in Auth, login \in BOOLEAN :
          /\ web' = [new EXCEPT !.login = login]
          /\ tasks' = SetToBag({Start(fn, None, None, "fetch")})
    <3>1. web.login \in BOOLEAN
      BY <1>0 DEF Web
    <3> HIDE DEF new
    <3>2. [new EXCEPT !.login = @ /\ ~(setting.client /\ code # "none")]
             = [new EXCEPT !.login = new.login /\ ~(setting.client /\ code # "none")]
      OBVIOUS
    <3> QED BY <1>3, <3>2 DEF Visit, Auth, new
  <2> HIDE DEF new
  <2>3. web' \in Web /\ web'.result.says = "ready" /\ web'.status = FALSE
    BY <2>1, <2>2 DEF Web
  <2> DEFINE m == Start(fn, None, None, "fetch")
             ms == {m}
  <2>4. m \in Task /\ m.fn = fn /\ ~m.said /\ m.then = None /\ m.then # "finished" /\ m.at = "fetch"
    BY WebConstants DEF Start, Task, Functions, Auth
  <2> HIDE DEF m
  <2>5. Sound(m, web', api'.runs)
    BY <2>3, <2>4 DEF Sound, Polling, Auth, Loose, Scans
  <2>6. /\ \A n \in ms : Sound(n, web', api'.runs)
        /\ \A n, o \in ms : n = o
        /\ tasks' = SetToBag(ms)
    BY <2>2, <2>5 DEF m
  <2> HIDE DEF ms
  <2> QED BY <1>0, <2>3, <2>6, Anew
<1> QED BY <1>1, <1>2, <1>3

\* A page with another session, or none, and the same functions.
LEMMA SessionTasks ==
  ASSUME TasksInv, signInWithOidc \/ signOut \/ pasteToken \/ SelectProfile \/ changeLocale
  PROVE  TasksInv' /\ Stays(web')
<1>0. web \in Web /\ Moves(web, web)
  BY WebFields DEF TasksInv
<1>1. CASE signInWithOidc
  <2> DEFINE open == setAccessDeniedMode(web, FALSE)
             w == [open EXCEPT !.skip = FALSE, !.leaving = @ + 1]
  <2>1. Moves(web, open)
    BY <1>0, SessionTyped
  <2>2. Click("signIn", w, {})
    BY <1>1 DEF signInWithOidc
  <2> HIDE DEF open
  <2>3. Moves(web, w)
    <3>1. open \in Web /\ open.leaving \in Nat
      BY <2>1 DEF Moves, Web
    <3>2. PICK n \in Nat : n = open.leaving + 1
      BY <3>1
    <3>3. w = [open EXCEPT !.skip = FALSE, !.leaving = n]
      BY <3>2
    <3> HIDE DEF w
    <3>4. Alike(open, w)
      BY <3>1, <3>3, RecountedTyped
    <3> QED BY <2>1, <3>4 DEF Moves, Alike
  <2> HIDE DEF w
  <2> QED BY <2>2, <2>3, ClickedOnly
<1>2. CASE signOut
  <2> DEFINE cleared == clearAuthToken(web)
             w == [cleared EXCEPT !.skip = TRUE]
  <2>1. Moves(web, cleared)
    BY <1>0, SessionTyped
  <2>2. \/ Click("signOut", w, {})
        \/ web' = Closed(w) /\ tasks' = EmptyBag /\ Surroundings'
    BY <1>2 DEF signOut, TasksInv, Surroundings
  <2> HIDE DEF cleared
  <2>3. Moves(web, w)
    BY <2>1 DEF Moves, Web
  <2> HIDE DEF w
  <2>4. Closed(w) \in Web /\ Closed(w).result.says = "ready"
    BY <2>3, LoadedTyped DEF Moves
  <2> QED BY <2>2, <2>3, <2>4, ClickedOnly, AwayTasks
<1>3. CASE pasteToken
  <2> DEFINE more == {}
  <2>1. PICK token \in Pasted : Click("paste", persistAuthToken(web, token), more)
    BY <1>3 DEF pasteToken
  <2> DEFINE w == persistAuthToken(web, token)
  <2>2. token \in Tokens /\ token \notin Issued
    BY WebConstants DEF Tokens
  <2>3. w \in Web /\ w.status = web.status /\ w.result = web.result /\ w.token = token
    BY <1>0, <2>2 DEF persistAuthToken, setAccessDeniedMode, Web
  <2>4. Click("paste", w, more)
    BY <2>1
  <2> HIDE DEF w
  <2>5. api' = api /\ Surroundings' /\ Commit(w, tasks (+) SetToBag(more))
    BY <2>4 DEF Click, TasksInv, Surroundings
  <2>6. \A u \in BagToSet(tasks) : Sound(u, w, api'.runs)
    BY <2>2, <2>3, <2>5 DEF TasksInv, Orderly, Sound
  <2>7. Done(w, api'.runs) /\ Stays(w)
    BY <2>3, <2>5 DEF TasksInv, Done, Stays
  <2>8. /\ \A m \in more : Sound(m, w, api'.runs)
        /\ \A m, n \in more : Rivals(m, n) => m = n
        /\ \A m \in more, u \in BagToSet(tasks) : ~Rivals(m, u) /\ ~Rivals(u, m)
    OBVIOUS
  <2> HIDE DEF more
  <2> QED BY <2>3, <2>5, <2>6, <2>7, <2>8, Adding
<1>4. CASE SelectProfile
  <2>1. web' = web /\ api' = api /\ Surroundings' /\ tasks' = profileEffect(tasks, web)
    BY <1>4 DEF SelectProfile, TasksInv, Surroundings
  <2>2. Orderly(tasks, web, api'.runs) /\ Done(web, api'.runs)
    BY <2>1 DEF TasksInv
  <2>3. /\ IsABag(tasks')
        /\ \A t \in BagToSet(tasks') :
             \/ t \in BagToSet(tasks) /\ (t.fn \notin Reloads => tasks'[t] = tasks[t])
             \/ AuthReady(web) /\ Fresh(t, web)
    BY <2>1, <2>2, Reloading DEF Orderly
  <2>4. TasksInv'
    BY <1>0, <2>1, <2>2, <2>3, Joining
  <2> QED BY <1>0, <2>1, <2>4, MovesStay
<1>5. CASE changeLocale
  <2>1. Click("changeLocale", signInEffect(web), {})
    BY <1>5 DEF changeLocale
  <2>2. Moves(web, signInEffect(web))
    BY <1>0, EffectTyped DEF Moves
  <2> QED BY <2>1, <2>2, ClickedOnly
<1> QED BY <1>1, <1>2, <1>3, <1>4, <1>5

\* A sign-in that fails to start leaves session and runs as they are.
LEMMA FailedStart ==
  ASSUME TasksInv, startOidcLoginFails
  PROVE  TasksInv' /\ Stays(web')
<1>1. /\ web \in Web /\ tasks' = tasks /\ api' = api /\ Surroundings'
      /\ web.leaving > 0 /\ web.leaving \in Nat /\ web.login \in BOOLEAN
  BY DEF startOidcLoginFails, TasksInv, Surroundings, Web
<1>2. PICK login \in BOOLEAN :
        web' = [web EXCEPT !.leaving = @ - 1, !.failed = TRUE, !.login = login]
  BY <1>1 DEF startOidcLoginFails
<1>3. web' \in Web /\ web'.status = web.status /\ web'.token = web.token
      /\ web'.result = web.result
  <2>1. PICK n \in Nat : n = web.leaving - 1
    BY <1>1
  <2>2. web' = [web EXCEPT !.leaving = n, !.failed = TRUE, !.login = login]
    BY <1>2, <2>1
  <2>3. Alike(web, web')
    BY <1>1, <2>2, RecountedTyped
  <2> QED BY <2>3 DEF Alike
<1>4. \A t \in BagToSet(tasks) : Sound(t, web', api'.runs)
  BY <1>1, <1>3 DEF TasksInv, Orderly, Sound
<1>5. Orderly(tasks', web', api'.runs) /\ Done(web', api'.runs)
  BY <1>1, <1>3, <1>4 DEF TasksInv, Orderly, Done
<1> QED BY <1>1, <1>3, <1>5 DEF TasksInv, Stays

LEMMA ApiTasks ==
  ASSUME TasksInv, (\E r \in Runs : Work(r)) \/ (\E token \in Tokens : Change(token)) \/ UNCHANGED vars
  PROVE  TasksInv' /\ Stays(web')
<1>1. web' = web /\ tasks' = tasks /\ Surroundings'
      /\ \A r \in Runs : /\ api.runs[r] = "none" => api'.runs[r] = "none"
                         /\ api.runs[r] = "ended" => api'.runs[r] = "ended"
  <2>1. ASSUME NEW r \in Runs, Work(r) 
        PROVE  /\ web' = web /\ tasks' = tasks /\ Surroundings'
               /\ \A s \in Runs : /\ api.runs[s] = "none" => api'.runs[s] = "none"
                                  /\ api.runs[s] = "ended" => api'.runs[s] = "ended"
    BY <2>1 DEF Work, TasksInv, Surroundings
  <2>2. ASSUME NEW token \in Tokens, Change(token)
        PROVE  web' = web /\ tasks' = tasks /\ Surroundings' /\ api'.runs = api.runs
    BY <2>2 DEF Change, TasksInv, Surroundings
  <2>3. CASE UNCHANGED vars
    BY <2>3 DEF vars, TasksInv, Surroundings
  <2> QED BY <2>1, <2>2, <2>3
<1>2. \A t \in BagToSet(tasks) : Sound(t, web, api.runs) => Sound(t, web, api'.runs)
  BY <1>1 DEF Sound
<1>3. Orderly(tasks, web, api'.runs) /\ Done(web, api'.runs)
  BY <1>1, <1>2 DEF TasksInv, Orderly, Done
<1>4. Stays(web)
  BY WebFields, MovesStay DEF TasksInv
<1> QED BY <1>1, <1>3, <1>4 DEF TasksInv

LEMMA InitTasks == Init => TasksInv
<1> SUFFICES ASSUME Init PROVE TasksInv
  OBVIOUS
<1>1. setting \in Setting
  BY WebConstants DEF Init
<1>2. Surroundings
  BY <1>1 DEF Init, Surroundings, Setting
<1> DEFINE said == Said("ready")
<1>3. said \in Result /\ said.says = "ready"
  BY DEF Said, Result, Says
<1> HIDE DEF said
<1>4. PICK stored \in setting.stored, skip \in BOOLEAN :
        web = [at |-> "elsewhere", stored |-> stored, skip |-> skip, login |-> FALSE,
               code |-> "none", status |-> FALSE, leaving |-> 0, failed |-> FALSE, token |-> None,
               denied |-> FALSE, shown |-> {}, newest |-> None, selected |-> None,
               result |-> said]
  BY Zenon DEF Init, said
<1>5. web \in Web /\ web.result.says = "ready"
  BY <1>1, <1>3, <1>4 DEF Web, Setting
<1>6. Done(web, api.runs)
  BY <1>5 DEF Done
<1>7. Orderly(tasks, web, api.runs)
  BY BagOfSet DEF Init, Orderly
<1> QED BY <1>2, <1>5, <1>6, <1>7 DEF TasksInv

LEMMA StepTasks == TasksInv /\ [Next]_vars => TasksInv' /\ Stays(web')
<1> SUFFICES ASSUME TasksInv, [Next]_vars PROVE TasksInv' /\ Stays(web')
  OBVIOUS
<1>1. CASE Leave \/ startOidcLogin \/ (\E code \in {"none", "good", "bad"} : Visit(code))
  BY <1>1, BrowserTasks
<1>2. ASSUME NEW t \in BagToSet(tasks), Answer(t) PROVE TasksInv' /\ Stays(web')
  BY <1>2, AuthTasks, ScanTasks, ListTasks, PartTasks, DetailTasks DEF Answer
<1>3. CASE Use
  BY <1>3, StartTasks, RunScanTasks, SessionTasks DEF Use
<1>4. CASE (\E r \in Runs : Work(r)) \/ (\E token \in Tokens : Change(token)) \/ UNCHANGED vars
  BY <1>4, ApiTasks
<1> QED BY <1>1, <1>2, <1>3, <1>4, FailedStart DEF Next

\* Beside the page there are only the functions its session and its runs
\* call for, and what they know is so.
THEOREM TasksInvariant == Spec => []TasksInv
<1>1. TasksInv /\ [Next]_vars => TasksInv'
  BY StepTasks
<1> QED BY InitTasks, <1>1, PTL DEF Spec

\* The page, its storage and the functions under way keep their types; a poll
\* never counts beyond its attempts (pollScanRun of page.tsx).
THEOREM ConsoleTypes == Spec => []TypeOK
<1>1. TasksInv => TypeOK
  BY DEF TasksInv, TypeOK, Surroundings, Orderly, Sound
<1> QED BY <1>1, TasksInvariant, PTL

\* Under a session that came from a sign-in no function works with another
\* token, so that only its own refusals can end it: the mode is asked for
\* after the code was exchanged, and nothing else starts before
\* (initializeAuth and the effects on authReady of page.tsx).
THEOREM OneSession == Spec => []SessionsDoNotMix
<1>1. TasksInv => SessionsDoNotMix
  BY DEF TasksInv, SessionsDoNotMix, Orderly, Sound, Loose, Auth
<1> QED BY <1>1, TasksInvariant, PTL

\* A run the page calls finished has ended and is not called queued or
\* running again, whichever answers are late (pollScanRun of page.tsx).
THEOREM FinishedForGood == Spec => FinishedStays
<1>1. TasksInv => (web.result.says = "finished" =>
                     /\ web.result.about \in Runs /\ api.runs[web.result.about] = "ended")
  BY DEF TasksInv, Done
<1>2. TasksInv /\ [Next]_vars =>
        [web.result.says = "finished" =>
           /\ web.result.about \in Runs /\ api.runs[web.result.about] = "ended"
           /\ web'.result.about = web.result.about => web'.result.says \notin {"queued", "progress", "loading"}]_vars
  BY <1>1, StepTasks DEF Stays
<1> QED BY <1>2, TasksInvariant, PTL DEF Spec, FinishedStays

=============================================================================
