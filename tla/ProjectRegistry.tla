--------------------------- MODULE ProjectRegistry ---------------------------
(***************************************************************************)
(* The project registry of the API (apps/api/src/projects.ts) together     *)
(* with the two central services it drives: the STRATOS Scope Registry     *)
(* (scope-registry.ts) and Policy Registry (policy-registry.ts).           *)
(*                                                                         *)
(* One Node process serves every request and no lock covers a handler: a   *)
(* handler reads projects.json once, awaits the central calls one by one,  *)
(* and writes the whole list back with a temporary file and a rename.      *)
(* Each action below is the code between two awaits; the effect of a       *)
(* central call and the arrival of its answer are one step, and a call     *)
(* that times out stays in flight, so that it may still take effect.       *)
(*                                                                         *)
(* Only governed mode is modelled (localGovernanceMode makes no calls).    *)
(* Names, URLs, stack and timestamps of a project are left out.            *)
(***************************************************************************)
EXTENDS FiniteSets

CONSTANTS
  Handlers,    \* requests the API can be serving at the same time
  Ids,         \* project identifiers
  Paths,       \* mounted project directories that pass validation
  Classes,     \* data classifications
  Candidates,  \* directories auto-discovery finds; {} when it is disabled
  Stamps,      \* Date.now() values a temporary file name can carry
  Faults,      \* what can go wrong: "reject", "timeout", "disk", "crash"
  NoProject,   \* the identifier is not in the list
  NoFile,      \* there is no temporary file of that name
  Unbound      \* no binding, or a legacy one that does not validate

Candidate == [id: Ids, path: Paths, class: Classes]
Entry     == [path: Paths, class: Classes, binding: Classes \cup {Unbound}]
Registry  == [Ids -> Entry \cup {NoProject}]

ASSUME RegistryConstants ==
  /\ Candidates \subseteq Candidate
  /\ NoProject \notin Entry
  /\ NoFile \notin Registry
  /\ Unbound \notin Classes

Empty == [p \in Ids |-> NoProject]

Phases == {"idle", "ensureScope", "ensureBinding", "addScope", "addBinding",
           "undoOwn", "rollback", "deactivate", "reactivate", "write", "rename"}
\* "discover" is the second half of a listing
Operations == {"none", "list", "discover", "get", "create", "update", "delete"}

Task == [pc: Phases, op: Operations, id: Ids \cup {NoProject},
         work: Registry, refresh: SUBSET Ids, adding: SUBSET Candidate,
         undo: SUBSET Ids,    \* newProjectScopes, still to be tried
         failed: SUBSET Ids,  \* of those, the ones that could not be undone
         own: SUBSET Ids,     \* the project registerNewProjectGovernance could not undo
         dirty: BOOLEAN, stamp: Stamps \cup {NoFile}]

IdleTask == [pc |-> "idle", op |-> "none", id |-> NoProject, work |-> Empty,
             refresh |-> {}, adding |-> {}, undo |-> {}, failed |-> {}, own |-> {},
             dirty |-> FALSE, stamp |-> NoFile]

VARIABLES
  file,      \* projects.json
  temps,     \* temporary files, by the time stamp in their name
  scopes,    \* project scopes the Scope Registry holds active
  bindings,  \* <<project, classification>> the Policy Registry has registered
  inflight,  \* scope calls that timed out here and may still be applied
  task,      \* the local state of each handler
  flagged,   \* projects named by a PROJECT_GOVERNANCE_RECONCILIATION_REQUIRED
             \* and not settled by a later successful scope call
  unnamed    \* history: projects such an answer was about and did not name

reports == <<flagged, unnamed>>
vars == <<file, temps, scopes, bindings, inflight, task, flagged, unnamed>>
central == <<scopes, bindings, inflight, flagged, unnamed>>
disk == <<file, temps>>

TypeOK ==
  /\ file \in Registry
  /\ temps \in [Stamps -> Registry \cup {NoFile}]
  /\ scopes \subseteq Ids
  /\ bindings \subseteq Ids \X Classes
  /\ inflight \subseteq Ids \X BOOLEAN
  /\ task \in [Handlers -> Task]
  /\ flagged \subseteq Ids /\ unnamed \subseteq Ids

Present(reg) == {p \in Ids : reg[p] # NoProject}

\* Mutant: the check looks at nobody.
PathUnchecked(reg, path, others) == FALSE

PathTaken(reg, path, others) == \E p \in others : reg[p] # NoProject /\ reg[p].path = path
UniquePathsIn(reg) ==
  \A p, q \in Present(reg) : p # q => reg[p].path # reg[q].path

\* A registry file written before governance existed: no entry has a
\* binding that validates and no scope is registered.
LegacyFile(reg) == \A p \in Present(reg) : reg[p].binding = Unbound

Init ==
  /\ file \in {reg \in Registry : LegacyFile(reg) /\ UniquePathsIn(reg)}
  /\ temps = [s \in Stamps |-> NoFile]
  /\ scopes = {}
  /\ bindings = {}
  /\ inflight = {}
  /\ task = [h \in Handlers |-> IdleTask]
  /\ flagged = {} /\ unnamed = {}

-----------------------------------------------------------------------------
(* Central calls: setProjectGovernanceScopeActive, registerProjectPolicyBinding *)

\* The PUT was applied and its answer passed the response check.
ScopeSet(p, on) ==
  /\ scopes' = IF on THEN scopes \cup {p} ELSE scopes \ {p}
  /\ flagged' = flagged \ {p} /\ unnamed' = unnamed \ {p}
  /\ UNCHANGED <<bindings, inflight>>

\* The call threw: refused, or timed out with the PUT still on its way.
ScopeThrows(p, on) ==
  /\ \/ "reject" \in Faults /\ UNCHANGED inflight
     \/ "timeout" \in Faults /\ inflight' = inflight \cup {<<p, on>>}
  /\ UNCHANGED <<scopes, bindings>>

ScopeFails(p, on) == ScopeThrows(p, on) /\ UNCHANGED reports

\* Mutant: the local fallback binding is used although governance is on.
BindingMadeLocally(p, class) == UNCHANGED central

\* Mutant: the registration forgets the classification.
BindingWithoutClass(p, class) ==
  bindings' = bindings \cup {p} /\ UNCHANGED <<scopes, inflight, reports>>

BindingRegistered(p, class) ==
  /\ bindings' = bindings \cup {<<p, class>>}
  /\ UNCHANGED <<scopes, inflight, reports>>

\* The POST threw; a timed-out one may have been recorded all the same.
BindingFails(p, class) ==
  /\ \/ "reject" \in Faults /\ UNCHANGED bindings
     \/ "timeout" \in Faults /\ bindings' = bindings \cup {<<p, class>>}
  /\ UNCHANGED <<scopes, inflight, reports>>

\* The next element a loop of the code visits; its order is fixed.
First(S) == CHOOSE x \in S : TRUE

-----------------------------------------------------------------------------
(* Control shared by the handlers                                           *)

At(h, phase) == task[h].pc = phase
Set(h, t) == task' = [task EXCEPT ![h] = t]
Reply(h) == Set(h, IdleTask)

\* Where a handler goes when its loop over `refresh` or `adding` is over:
\* the list is written only when it changed, and a listing goes on from the
\* binding migration to auto-discovery.
Discovering(t) ==
  [t EXCEPT !.op = "discover", !.pc = "addScope", !.adding = Candidates,
            !.dirty = FALSE, !.stamp = NoFile]

\* Mutant: the second half of a listing starts itself again.
FinishedAgain(t) == IF t.op \in {"list", "discover"} THEN Discovering(t) ELSE IdleTask

Finished(t) == IF t.op = "list" THEN Discovering(t) ELSE IdleTask
AfterLoop(t) == IF t.dirty THEN [t EXCEPT !.pc = "write"] ELSE Finished(t)

\* Mutant: no compensation.
AbandonAsIs(t) == IdleTask

\* A handler that fails before its commit: the scopes of the new projects it
\* has finished with are undone.
Abandon(t) ==
  IF t.undo \cup t.own = {} THEN IdleTask ELSE [t EXCEPT !.pc = "rollback"]

-----------------------------------------------------------------------------
(* Requests: readRegistry and every check made on the list it returned      *)

Begin(op, id) ==
  [IdleTask EXCEPT !.op = op, !.id = id, !.work = file]

List(h) ==
  /\ At(h, "idle")
  /\ Set(h, [Begin("list", NoProject) EXCEPT
               !.pc = "ensureScope", !.refresh = Present(file)])
  /\ UNCHANGED <<disk, central>>

Get(h, p) ==
  /\ At(h, "idle")
  /\ file[p] # NoProject
  /\ Set(h, [Begin("get", p) EXCEPT !.pc = "ensureScope", !.refresh = {p}])
  /\ UNCHANGED <<disk, central>>

Create(h, c) ==
  /\ At(h, "idle")
  /\ file[c.id] = NoProject
  /\ ~PathTaken(file, c.path, Ids)
  /\ Set(h, [Begin("create", c.id) EXCEPT !.pc = "addScope", !.adding = {c}])
  /\ UNCHANGED <<disk, central>>

\* Mutant: the binding is kept whatever the classification becomes.
BindingKept(current, class) == current.binding

\* A changed classification makes the stored binding unusable.
BindingToKeep(current, class) ==
  IF class = current.class THEN current.binding ELSE Unbound

Update(h, c) ==
  LET current == file[c.id]
      next == [path |-> c.path, class |-> c.class,
               binding |-> BindingToKeep(current, c.class)]
  IN
  /\ At(h, "idle")
  /\ current # NoProject
  /\ c.path # current.path => ~PathTaken(file, c.path, Ids \ {c.id})
  /\ Set(h, [Begin("update", c.id) EXCEPT
               !.pc = "ensureScope", !.refresh = {c.id}, !.dirty = TRUE,
               !.work[c.id] = next])
  /\ UNCHANGED <<disk, central>>

Delete(h, p) ==
  /\ At(h, "idle")
  /\ file[p] # NoProject
  /\ Set(h, [Begin("delete", p) EXCEPT
               !.pc = "deactivate", !.dirty = TRUE, !.work[p] = NoProject])
  /\ UNCHANGED <<disk, central>>

-----------------------------------------------------------------------------
(* getProject, updateProject, ensureProjectBindings: refresh the scope of   *)
(* every listed project, register a binding where there is none that counts *)

EnsureScope(h) ==
  LET t == task[h]
      p == First(t.refresh)
      refreshed == [t EXCEPT !.refresh = @ \ {p}]
  IN
  /\ At(h, "ensureScope")
  /\ t.refresh # {}
  /\ \/ /\ ScopeSet(p, TRUE)
        /\ Set(h, IF t.work[p].binding = Unbound
                  THEN [t EXCEPT !.pc = "ensureBinding"] ELSE refreshed)
     \/ ScopeFails(p, TRUE) /\ Reply(h)
  /\ UNCHANGED disk

EnsureBinding(h) ==
  LET t == task[h]
      p == First(t.refresh)
      class == t.work[p].class
  IN
  /\ At(h, "ensureBinding")
  /\ \/ /\ BindingRegistered(p, class)
        /\ Set(h, [t EXCEPT !.pc = "ensureScope", !.refresh = @ \ {p},
                            !.work[p].binding = class, !.dirty = TRUE])
     \/ BindingFails(p, class) /\ Reply(h)
  /\ UNCHANGED disk

EnsureDone(h) ==
  /\ At(h, "ensureScope")
  /\ task[h].refresh = {}
  /\ Set(h, AfterLoop(task[h]))
  /\ UNCHANGED <<disk, central>>

-----------------------------------------------------------------------------
(* createProject, syncAutoDiscoveredProjects, registerNewProjectGovernance  *)

Matches(t, c) ==
  {p \in Present(t.work) : p = c.id \/ t.work[p].path = c.path}

\* A discovered directory that is already listed, by identifier or by path,
\* keeps its entry but takes the discovered path. The first match in list
\* order wins; list order is not kept here, so it can be any match. The
\* detected stack, not modelled, may be what changed.
AdoptCandidate(h) ==
  LET t == task[h]
      c == First(t.adding)
  IN
  /\ At(h, "addScope")
  /\ t.adding # {}
  /\ \E p \in Matches(t, c), detected \in BOOLEAN :
       Set(h, [t EXCEPT !.adding = @ \ {c}, !.work[p].path = c.path,
                        !.dirty = @ \/ t.work[p].path # c.path \/ detected])
  /\ UNCHANGED <<disk, central>>

AddScope(h) ==
  LET t == task[h]
      c == First(t.adding)
  IN
  /\ At(h, "addScope")
  /\ t.adding # {}
  /\ Matches(t, c) = {}
  /\ \/ ScopeSet(c.id, TRUE) /\ Set(h, [t EXCEPT !.pc = "addBinding"])
     \/ ScopeFails(c.id, TRUE) /\ Set(h, Abandon(t))
  /\ UNCHANGED disk

AddBinding(h) ==
  LET t == task[h]
      c == First(t.adding)
      entry == [path |-> c.path, class |-> c.class, binding |-> c.class]
  IN
  /\ At(h, "addBinding")
  /\ \/ /\ BindingRegistered(c.id, c.class)
        /\ Set(h, [t EXCEPT !.pc = "addScope", !.adding = @ \ {c}, !.undo = @ \cup {c.id},
                            !.work[c.id] = entry, !.dirty = TRUE])
     \/ BindingFails(c.id, c.class) /\ Set(h, [t EXCEPT !.pc = "undoOwn"])
  /\ UNCHANGED disk

\* registerNewProjectGovernance undoes the scope it has just activated, before
\* its caller undoes those of earlier projects.
UndoOwn(h) ==
  LET t == task[h]
      p == First(t.adding).id
  IN
  /\ At(h, "undoOwn")
  /\ \/ ScopeSet(p, FALSE) /\ Set(h, Abandon(t))
     \/ ScopeFails(p, FALSE) /\ Set(h, Abandon([t EXCEPT !.own = {p}]))
  /\ UNCHANGED disk

AddDone(h) ==
  /\ At(h, "addScope")
  /\ task[h].adding = {}
  /\ Set(h, AfterLoop(task[h]))
  /\ UNCHANGED <<disk, central>>

\* rollbackNewProjectScopes: every new scope is tried; the ones that could
\* not be deactivated are reported together once all have been tried.
Rollback(h) ==
  LET t == task[h]
      p == First(t.undo)
      tried == [t EXCEPT !.undo = @ \ {p}]
  IN
  /\ At(h, "rollback")
  /\ t.undo # {}
  /\ \/ ScopeSet(p, FALSE) /\ Set(h, tried)
     \/ ScopeFails(p, FALSE) /\ Set(h, [tried EXCEPT !.failed = @ \cup {p}])
  /\ UNCHANGED disk

\* The error of the outer compensation replaces the one of the inner, of which
\* it keeps a name and a code.
Named(t) == IF t.failed = {} THEN t.own ELSE t.failed

RollbackDone(h) ==
  LET t == task[h] IN
  /\ At(h, "rollback")
  /\ t.undo = {}
  /\ flagged' = flagged \cup Named(t)
  /\ unnamed' = unnamed \cup (IF t.failed = {} THEN {} ELSE t.own)
  /\ Reply(h)
  /\ UNCHANGED <<disk, scopes, bindings, inflight>>

-----------------------------------------------------------------------------
(* deleteProject                                                            *)

Deactivate(h) ==
  LET t == task[h] IN
  /\ At(h, "deactivate")
  /\ \/ ScopeSet(t.id, FALSE) /\ Set(h, [t EXCEPT !.pc = "write"])
     \/ ScopeFails(t.id, FALSE) /\ Reply(h)
  /\ UNCHANGED disk

Reactivate(h) ==
  LET p == task[h].id IN
  /\ At(h, "reactivate")
  /\ \/ ScopeSet(p, TRUE)
     \/ ScopeThrows(p, TRUE) /\ flagged' = flagged \cup {p} /\ UNCHANGED unnamed
  /\ Reply(h)
  /\ UNCHANGED disk

-----------------------------------------------------------------------------
(* writeRegistry: a temporary file named by process and millisecond, renamed *)
(* over projects.json                                                       *)

WriteFails(h) ==
  Set(h, IF task[h].op = "delete" THEN [task[h] EXCEPT !.pc = "reactivate"]
         ELSE Abandon(task[h]))

WriteTemp(h) ==
  /\ At(h, "write")
  /\ \/ \E s \in Stamps :
          /\ temps' = [temps EXCEPT ![s] = task[h].work]
          /\ Set(h, [task[h] EXCEPT !.pc = "rename", !.stamp = s])
     \/ /\ "disk" \in Faults
        /\ WriteFails(h)
        /\ UNCHANGED temps
  /\ UNCHANGED <<file, central>>

\* Two handlers with one name: the first rename installs the last content
\* written, the second finds no file and fails.
Rename(h) ==
  LET t == task[h]
      content == temps[t.stamp]
  IN
  /\ At(h, "rename")
  /\ \/ /\ content # NoFile
        /\ file' = content
        /\ temps' = [temps EXCEPT ![t.stamp] = NoFile]
        /\ Set(h, Finished(t))
     \/ /\ content = NoFile \/ "disk" \in Faults
        /\ WriteFails(h)
        /\ UNCHANGED disk
  /\ UNCHANGED central

-----------------------------------------------------------------------------
(* The environment                                                          *)

\* A PUT whose caller gave up takes effect, or is dropped on the way.
LateScope(call) ==
  /\ call \in inflight
  /\ inflight' = inflight \ {call}
  /\ \/ scopes' = IF call[2] THEN scopes \cup {call[1]} ELSE scopes \ {call[1]}
     \/ UNCHANGED scopes
  /\ UNCHANGED <<disk, bindings, task, reports>>

\* The API process stops and comes back: every handler is gone, and no one
\* renames the temporary files it left.
Crash ==
  /\ "crash" \in Faults
  /\ \E h \in Handlers : ~At(h, "idle")
  /\ task' = [h \in Handlers |-> IdleTask]
  /\ temps' = [s \in Stamps |-> NoFile]
  /\ UNCHANGED <<file, central>>

Request(h) ==
  \/ List(h)
  \/ \E p \in Ids : Get(h, p) \/ Delete(h, p)
  \/ \E c \in Candidate : Create(h, c) \/ Update(h, c)

Step(h) ==
  \/ EnsureScope(h) \/ EnsureBinding(h) \/ EnsureDone(h)
  \/ AdoptCandidate(h) \/ AddScope(h) \/ AddBinding(h) \/ AddDone(h)
  \/ UndoOwn(h) \/ Rollback(h) \/ RollbackDone(h)
  \/ Deactivate(h) \/ Reactivate(h)
  \/ WriteTemp(h) \/ Rename(h)

Next ==
  \/ \E h \in Handlers : Request(h) \/ Step(h)
  \/ \E call \in inflight : LateScope(call)
  \/ Crash

Spec == Init /\ [][Next]_vars

\* Every await of a handler ends: the central calls carry an abort signal
\* and the file system answers. Clients owe nothing.
FairSpec == Spec /\ \A h \in Handlers : WF_vars(Step(h))

-----------------------------------------------------------------------------
(* Properties                                                               *)

Lists == {file} \cup {temps[s] : s \in Stamps} \cup {task[h].work : h \in Handlers}

\* A binding that validates is the one of the project's own classification,
\* in the stored list and in every list on its way there, so a scan plan
\* never carries the binding of a classification the project has left
\* (updateProject registers again when the classification changes).
BindingMatchesClassification ==
  \A reg \in Lists \ {NoFile} : \A p \in Present(reg) :
    reg[p].binding \in {Unbound, reg[p].class}

\* A stored binding was answered by the Policy Registry for that project and
\* classification, whatever handler, crash or lost update stored it.
StoredBindingsRegistered ==
  \A p \in Present(file) :
    file[p].binding # Unbound => <<p, file[p].binding>> \in bindings

\* No two listed projects share a directory (PROJECT_PATH_EXISTS). It holds
\* under any interleaving because each list written was checked as a whole;
\* auto-discovery moves a path without the check.
UniquePaths == UniquePathsIn(file)

Quiet == inflight = {} /\ \A h \in Handlers : At(h, "idle")

\* Between requests the list and the Scope Registry agree, or an operator was
\* told to reconcile: a governed project has its scope active, and an active
\* scope has its project (docs/api.md: 101-106). The answer names the project,
\* unless a listing failed to undo it and an earlier one as well: of the two
\* errors only the outer one lists its projects (projects.ts:449, 454-464).
ScopesAgree ==
  Quiet => \A p \in Ids \ (flagged \cup unnamed) :
    /\ p \in scopes => file[p] # NoProject
    /\ file[p] # NoProject /\ file[p].binding # Unbound => p \in scopes

\* The registry implements the catalogue of ProjectCatalog: every commit is
\* one request applied to the current list. True when requests do not overlap.
Catalog == INSTANCE ProjectCatalog WITH catalog <- file, active <- scopes
ImplementsCatalog == Catalog!Spec

\* Every request is answered.
RequestsEnd == \A h \in Handlers : []<>At(h, "idle")
=============================================================================
