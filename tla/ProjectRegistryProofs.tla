------------------------ MODULE ProjectRegistryProofs ------------------------
(***************************************************************************)
(* Proofs about ProjectRegistry, for any number of overlapping requests,   *)
(* any projects, paths and classifications, and every combination of       *)
(* faults.                                                                 *)
(*                                                                         *)
(* A handler carries its own copy of the list across its awaits, so an     *)
(* invariant about projects.json must also hold of every copy and of every *)
(* temporary file that may still become projects.json. IInv says that, and *)
(* what each phase of a handler relies on.                                 *)
(***************************************************************************)
EXTENDS ProjectRegistry, TLAPS

\* Every binding of a list belongs to its project's classification and was
\* registered.
Sound(reg, known) ==
  \A p \in Ids : reg[p] # NoProject =>
    /\ reg[p].binding \in {Unbound, reg[p].class}
    /\ reg[p].binding # Unbound => <<p, reg[p].binding>> \in known

\* What the current phase of a handler relies on.
Staged(t) ==
  /\ t.pc \in {"ensureScope", "ensureBinding"} =>
       \A p \in t.refresh : t.work[p] # NoProject
  /\ t.pc = "ensureBinding" => t.refresh # {}
  /\ t.pc \in {"addBinding", "undoOwn"} => t.adding # {}
  /\ t.pc = "rename" => t.stamp \in Stamps
  /\ t.pc \in {"deactivate", "reactivate"} => t.op = "delete"
  /\ t.op = "delete" =>
       t.id \in Ids /\ t.pc \in {"deactivate", "reactivate", "write", "rename"}

Fit(t, known) == t \in Task /\ Staged(t) /\ Sound(t.work, known)

CentralOK ==
  /\ scopes \subseteq Ids
  /\ bindings \subseteq Ids \X Classes
  /\ inflight \subseteq Ids \X BOOLEAN
  /\ flagged \subseteq Ids /\ unnamed \subseteq Ids

DiskOK(known) ==
  /\ file \in Registry /\ Sound(file, known)
  /\ temps \in [Stamps -> Registry \cup {NoFile}]
  /\ \A s \in Stamps : temps[s] # NoFile => Sound(temps[s], known)

IInv ==
  /\ CentralOK
  /\ DiskOK(bindings)
  /\ task \in [Handlers -> Task]
  /\ \A h \in Handlers : Fit(task[h], bindings)

\* Central state stays well formed and the Policy Registry forgets nothing.
CentralStep == CentralOK' /\ bindings \subseteq bindings'

-----------------------------------------------------------------------------
\* A loop visits an element of the set it has left.
LEMMA FirstIn == ASSUME NEW S, S # {} PROVE First(S) \in S
BY DEF First

\* Adding registrations keeps a list sound.
LEMMA SoundMonotone ==
  ASSUME NEW reg, NEW known, NEW more, known \subseteq more, Sound(reg, known)
  PROVE  Sound(reg, more)
BY DEF Sound

\* A handler that has answered is fit.
LEMMA IdleFit == ASSUME NEW known PROVE Fit(IdleTask, known)
<1>1. Empty \in Registry /\ \A p \in Ids : Empty[p] = NoProject
  BY DEF Empty, Registry
<1>2. IdleTask \in Task
  BY <1>1 DEF IdleTask, Task, Phases, Operations
<1>3. Staged(IdleTask)
  BY DEF Staged, IdleTask
<1>4. Sound(IdleTask.work, known)
  BY <1>1 DEF Sound, IdleTask
<1> QED BY <1>2, <1>3, <1>4 DEF Fit

\* Scope calls keep central state well formed, whatever their outcome.
LEMMA ScopeCalls ==
  ASSUME CentralOK, NEW p \in Ids, NEW on \in BOOLEAN
  PROVE  /\ ScopeSet(p, on) => CentralStep /\ bindings' = bindings
         /\ ScopeFails(p, on) => CentralStep /\ bindings' = bindings
         /\ ScopeThrows(p, on) /\ flagged' = flagged \cup {p} /\ UNCHANGED unnamed
            => CentralStep /\ bindings' = bindings
<1>1. ScopeSet(p, on) => CentralStep /\ bindings' = bindings
  BY DEF CentralOK, CentralStep, ScopeSet
<1>2. ScopeThrows(p, on) =>
        /\ inflight' \subseteq Ids \X BOOLEAN
        /\ scopes' = scopes /\ bindings' = bindings
  BY DEF CentralOK, ScopeThrows
<1>3. ScopeFails(p, on) => CentralStep /\ bindings' = bindings
  BY <1>2 DEF CentralOK, CentralStep, ScopeFails, reports
<1>4. ScopeThrows(p, on) /\ flagged' = flagged \cup {p} /\ UNCHANGED unnamed
      => CentralStep /\ bindings' = bindings
  BY <1>2 DEF CentralOK, CentralStep
<1> QED BY <1>1, <1>3, <1>4

\* So do binding calls; one that is answered is on record.
LEMMA BindingCalls ==
  ASSUME CentralOK, NEW p \in Ids, NEW c \in Classes
  PROVE  /\ BindingRegistered(p, c) => CentralStep /\ <<p, c>> \in bindings'
         /\ BindingFails(p, c) => CentralStep
<1>1. BindingRegistered(p, c) => CentralStep /\ <<p, c>> \in bindings'
  BY DEF CentralOK, CentralStep, BindingRegistered, reports
<1>2. BindingFails(p, c) => CentralStep
  BY DEF CentralOK, CentralStep, BindingFails, reports
<1> QED BY <1>1, <1>2

\* A step that moves one handler to a fit task, registers at most more
\* bindings and leaves the disk alone keeps the invariant.
LEMMA TaskStep ==
  ASSUME IInv, CentralStep, UNCHANGED disk,
         NEW h \in Handlers, NEW t, Fit(t, bindings'), Set(h, t)
  PROVE  IInv'
<1>1. bindings \subseteq bindings' /\ CentralOK'
  BY DEF CentralStep
<1>2. DiskOK(bindings)'
  <2>1. DiskOK(bindings)
    BY DEF IInv
  <2>2. file' = file /\ temps' = temps
    BY DEF disk
  <2>3. Sound(file, bindings')
    BY <1>1, <2>1, SoundMonotone DEF DiskOK
  <2>4. \A s \in Stamps : temps[s] # NoFile => Sound(temps[s], bindings')
    BY <1>1, <2>1, SoundMonotone DEF DiskOK
  <2> QED BY <2>1, <2>2, <2>3, <2>4 DEF DiskOK
<1>3. task' \in [Handlers -> Task]
  BY DEF IInv, Set, Fit
<1>4. \A g \in Handlers : Fit(task'[g], bindings')
  <2>1. ASSUME NEW g \in Handlers PROVE Fit(task'[g], bindings')
    <3>1. CASE g = h
      BY <3>1 DEF IInv, Set
    <3>2. CASE g # h
      <4>1. task'[g] = task[g] /\ Fit(task[g], bindings)
        BY <3>2 DEF IInv, Set
      <4> QED BY <4>1, <1>1, SoundMonotone DEF Fit
    <3> QED BY <3>1, <3>2
  <2> QED BY <2>1
<1> QED BY <1>1, <1>2, <1>3, <1>4 DEF IInv
-----------------------------------------------------------------------------
(* What the helpers that move a handler between phases preserve             *)

LEMMA IdleStaysFit ==
  ASSUME IInv, NEW h \in Handlers PROVE Fit(task[h], bindings)
BY DEF IInv

LEMMA FinishedFit ==
  ASSUME NEW known, NEW t \in Task, Sound(t.work, known)
  PROVE  Fit(Finished(t), known)
<1>1. CASE t.op = "list"
  <2>1. Finished(t) \in Task
    BY <1>1, RegistryConstants DEF Finished, Discovering, Task, Phases, Operations
  <2>2. /\ Finished(t).pc = "addScope" /\ Finished(t).op = "discover"
        /\ Finished(t).work = t.work
    BY <1>1 DEF Finished, Discovering, Task
  <2> QED BY <2>1, <2>2 DEF Fit, Staged
<1>2. CASE t.op # "list"
  BY <1>2, IdleFit DEF Finished
<1> QED BY <1>1, <1>2

LEMMA AfterLoopFit ==
  ASSUME NEW known, NEW t \in Task, Sound(t.work, known), t.op # "delete"
  PROVE  Fit(AfterLoop(t), known)
<1>1. CASE t.dirty
  <2>1. AfterLoop(t) = [t EXCEPT !.pc = "write"]
    BY <1>1 DEF AfterLoop
  <2>2. [t EXCEPT !.pc = "write"] \in Task
    BY DEF Task, Phases
  <2>3. Staged([t EXCEPT !.pc = "write"]) /\ Sound([t EXCEPT !.pc = "write"].work, known)
    BY DEF Staged, Task
  <2> QED BY <2>1, <2>2, <2>3 DEF Fit
<1>2. CASE ~t.dirty
  BY <1>2, FinishedFit DEF AfterLoop
<1> QED BY <1>1, <1>2

LEMMA AbandonFit ==
  ASSUME NEW known, NEW t \in Task, Sound(t.work, known), t.op # "delete"
  PROVE  Fit(Abandon(t), known)
<1>1. CASE t.undo \cup t.own = {}
  BY <1>1, IdleFit DEF Abandon
<1>2. CASE t.undo \cup t.own # {}
  <2>1. Abandon(t) = [t EXCEPT !.pc = "rollback"]
    BY <1>2 DEF Abandon
  <2>2. [t EXCEPT !.pc = "rollback"] \in Task
    BY DEF Task, Phases
  <2>3. Staged([t EXCEPT !.pc = "rollback"]) /\ Sound([t EXCEPT !.pc = "rollback"].work, known)
    BY DEF Staged, Task
  <2> QED BY <2>1, <2>2, <2>3 DEF Fit
<1> QED BY <1>1, <1>2
\* A handler of a new request starts from a sound copy of the stored list.
LEMMA BeginFit ==
  ASSUME IInv, NEW op \in Operations, NEW id \in Ids \cup {NoProject}
  PROVE  /\ Begin(op, id) \in Task
         /\ Begin(op, id).op = op
         /\ Begin(op, id).id = id
         /\ Begin(op, id).work = file
         /\ Begin(op, id).refresh = {}
         /\ Sound(file, bindings)
         /\ file \in Registry
<1>1. file \in Registry /\ Sound(file, bindings)
  BY DEF IInv, DiskOK
<1>2. IdleTask \in Task
  BY IdleFit DEF Fit
<1> QED BY <1>1, <1>2 DEF Begin, Task, IdleTask

-----------------------------------------------------------------------------
(* One lemma per action, or per group of alike actions                      *)

LEMMA ListRequest ==
  ASSUME IInv, NEW h \in Handlers, List(h) PROVE IInv'
<1> DEFINE b == Begin("list", NoProject)
           t == [b EXCEPT !.pc = "ensureScope", !.refresh = Present(file)]
<1>0. CentralStep /\ UNCHANGED disk /\ bindings' = bindings
  BY DEF IInv, CentralStep, CentralOK, List, central
<1>1. b \in Task /\ b.op = "list" /\ b.work = file /\ Sound(file, bindings)
  BY BeginFit DEF Operations
<1>2. Set(h, t)
  BY DEF List
<1> HIDE DEF b
<1>3. /\ t \in Task /\ t.pc = "ensureScope" /\ t.op = "list"
      /\ t.refresh = Present(file) /\ t.work = file
  BY <1>1 DEF Task, Phases, Present
<1>4. Fit(t, bindings')
  BY <1>0, <1>1, <1>3 DEF Fit, Staged, Present
<1> QED BY <1>0, <1>2, <1>4, TaskStep

LEMMA GetRequest ==
  ASSUME IInv, NEW h \in Handlers, NEW p \in Ids, Get(h, p) PROVE IInv'
<1> DEFINE b == Begin("get", p)
           t == [b EXCEPT !.pc = "ensureScope", !.refresh = {p}]
<1>0. CentralStep /\ UNCHANGED disk /\ bindings' = bindings
  BY DEF IInv, CentralStep, CentralOK, Get, central
<1>1. b \in Task /\ b.op = "get" /\ b.work = file /\ Sound(file, bindings)
  BY BeginFit DEF Operations
<1>2. file[p] # NoProject /\ Set(h, t)
  BY DEF Get
<1> HIDE DEF b
<1>3. /\ t \in Task /\ t.pc = "ensureScope" /\ t.op = "get"
      /\ t.refresh = {p} /\ t.work = file
  BY <1>1 DEF Task, Phases
<1>4. Fit(t, bindings')
  BY <1>0, <1>1, <1>2, <1>3 DEF Fit, Staged
<1> QED BY <1>0, <1>2, <1>4, TaskStep

LEMMA CreateRequest ==
  ASSUME IInv, NEW h \in Handlers, NEW c \in Candidate, Create(h, c)
  PROVE  IInv'
<1> DEFINE b == Begin("create", c.id)
           t == [b EXCEPT !.pc = "addScope", !.adding = {c}]
<1>0. CentralStep /\ UNCHANGED disk /\ bindings' = bindings
  BY DEF IInv, CentralStep, CentralOK, Create, central
<1>1. b \in Task /\ b.op = "create" /\ b.work = file /\ Sound(file, bindings)
  BY BeginFit DEF Operations, Candidate
<1>2. Set(h, t)
  BY DEF Create
<1> HIDE DEF b
<1>3. t \in Task /\ t.pc = "addScope" /\ t.op = "create" /\ t.work = file
  BY <1>1 DEF Task, Phases
<1>4. Fit(t, bindings')
  BY <1>0, <1>1, <1>3 DEF Fit, Staged
<1> QED BY <1>0, <1>2, <1>4, TaskStep

\* The binding of a changed classification is dropped, so the copy stays sound.
LEMMA UpdateRequest ==
  ASSUME IInv, NEW h \in Handlers, NEW c \in Candidate, Update(h, c)
  PROVE  IInv'
<1> DEFINE b == Begin("update", c.id)
           next == [path |-> c.path, class |-> c.class,
                    binding |-> BindingToKeep(file[c.id], c.class)]
           work == [file EXCEPT ![c.id] = next]
           t == [b EXCEPT !.pc = "ensureScope", !.refresh = {c.id},
                          !.dirty = TRUE, !.work[c.id] = next]
<1>0. CentralStep /\ UNCHANGED disk /\ bindings' = bindings
  BY DEF IInv, CentralStep, CentralOK, Update, central
<1>1. /\ b \in Task /\ b.op = "update" /\ b.work = file
      /\ Sound(file, bindings) /\ file \in Registry
  BY BeginFit DEF Operations, Candidate
<1>2. c.id \in Ids /\ c.path \in Paths /\ c.class \in Classes
  BY DEF Candidate
<1>3. file[c.id] # NoProject /\ file[c.id] \in Entry
  BY <1>1, <1>2 DEF Update, Registry
<1>4. Set(h, t)
  BY DEF Update
<1>5. /\ next \in Entry /\ next.class = c.class
      /\ next.binding \in {Unbound, c.class}
      /\ next.binding # Unbound => <<c.id, next.binding>> \in bindings
  BY <1>1, <1>2, <1>3 DEF BindingToKeep, Entry, Sound
<1> HIDE DEF b, next
<1>6. work \in Registry /\ \A p \in Ids : work[p] = IF p = c.id THEN next ELSE file[p]
  BY <1>1, <1>2, <1>5 DEF Registry
<1>7. Sound(work, bindings)
  BY <1>1, <1>5, <1>6 DEF Sound
<1>8. /\ t \in Task /\ t.pc = "ensureScope" /\ t.op = "update"
      /\ t.refresh = {c.id} /\ t.work = work
  BY <1>1, <1>2, <1>6 DEF Task, Phases
<1>9. next # NoProject
  BY <1>5, RegistryConstants
<1>10. Fit(t, bindings')
  BY <1>0, <1>2, <1>6, <1>7, <1>8, <1>9 DEF Fit, Staged
<1> QED BY <1>0, <1>4, <1>10, TaskStep

LEMMA DeleteRequest ==
  ASSUME IInv, NEW h \in Handlers, NEW p \in Ids, Delete(h, p)
  PROVE  IInv'
<1> DEFINE b == Begin("delete", p)
           work == [file EXCEPT ![p] = NoProject]
           t == [b EXCEPT !.pc = "deactivate", !.dirty = TRUE, !.work[p] = NoProject]
<1>0. CentralStep /\ UNCHANGED disk /\ bindings' = bindings
  BY DEF IInv, CentralStep, CentralOK, Delete, central
<1>1. /\ b \in Task /\ b.op = "delete" /\ b.id = p /\ b.work = file
      /\ b.refresh = {} /\ Sound(file, bindings) /\ file \in Registry
  BY BeginFit DEF Operations
<1>2. Set(h, t)
  BY DEF Delete
<1> HIDE DEF b
<1>3. work \in Registry /\ Sound(work, bindings)
  BY <1>1 DEF Registry, Sound
<1>4. /\ t \in Task /\ t.pc = "deactivate" /\ t.op = "delete" /\ t.id = p
      /\ t.work = work
  BY <1>1, <1>3 DEF Task, Phases
<1>5. Fit(t, bindings')
  BY <1>0, <1>3, <1>4 DEF Fit, Staged
<1> QED BY <1>0, <1>2, <1>5, TaskStep
LEMMA EnsureScopeStep ==
  ASSUME IInv, NEW h \in Handlers, EnsureScope(h) PROVE IInv'
<1> DEFINE t == task[h]
           p == First(t.refresh)
           bind == [t EXCEPT !.pc = "ensureBinding"]
           refreshed == [t EXCEPT !.refresh = @ \ {p}]
<1>1. Fit(t, bindings) /\ t.pc = "ensureScope" /\ t.refresh # {}
  BY DEF IInv, EnsureScope, At
<1>2. p \in t.refresh /\ p \in Ids /\ CentralOK /\ UNCHANGED disk
  BY <1>1, FirstIn DEF Fit, Task, IInv, EnsureScope
<1>3. \/ /\ ScopeSet(p, TRUE)
         /\ Set(h, IF t.work[p].binding = Unbound THEN bind ELSE refreshed)
      \/ ScopeFails(p, TRUE) /\ Reply(h)
  BY DEF EnsureScope
<1> HIDE DEF p, t
<1>4. ScopeSet(p, TRUE) \/ ScopeFails(p, TRUE) => CentralStep /\ bindings' = bindings
  BY <1>2, ScopeCalls
<1>5. Fit(bind, bindings)
  <2>1. bind \in Task /\ bind.work = t.work /\ bind.refresh = t.refresh
        /\ bind.pc = "ensureBinding" /\ bind.op = t.op
    BY <1>1 DEF Fit, Task, Phases
  <2> QED BY <1>1, <2>1 DEF Fit, Staged
<1>6. Fit(refreshed, bindings)
  <2>1. refreshed \in Task /\ refreshed.work = t.work /\ refreshed.pc = "ensureScope"
        /\ refreshed.refresh \subseteq t.refresh /\ refreshed.op = t.op
    BY <1>1 DEF Fit, Task
  <2> QED BY <1>1, <2>1 DEF Fit, Staged
<1> QED BY <1>2, <1>3, <1>4, <1>5, <1>6, IdleFit, TaskStep DEF Reply

\* The registered classification is the one of the copy, so the binding put
\* into the copy is sound.
LEMMA EnsureBindingStep ==
  ASSUME IInv, NEW h \in Handlers, EnsureBinding(h) PROVE IInv'
<1> DEFINE t == task[h]
           p == First(t.refresh)
           class == t.work[p].class
           entry == [t.work[p] EXCEPT !.binding = class]
           work == [t.work EXCEPT ![p] = entry]
           bound == [t EXCEPT !.pc = "ensureScope", !.refresh = @ \ {p},
                              !.work[p].binding = class, !.dirty = TRUE]
<1>1. Fit(t, bindings) /\ t.pc = "ensureBinding" /\ t.refresh # {}
  BY DEF IInv, EnsureBinding, At, Fit, Staged
<1>2. p \in t.refresh /\ p \in Ids /\ CentralOK /\ UNCHANGED disk
  BY <1>1, FirstIn DEF Fit, Task, IInv, EnsureBinding
<1>3. \/ BindingRegistered(p, class) /\ Set(h, bound)
      \/ BindingFails(p, class) /\ Reply(h)
  BY DEF EnsureBinding
<1> HIDE DEF p, t
<1>4. t.work \in Registry /\ t.work[p] \in Entry /\ t.work[p] # NoProject
  BY <1>1, <1>2 DEF Fit, Task, Staged, Registry
<1>5. class \in Classes /\ entry \in Entry /\ entry # NoProject
      /\ entry.class = class /\ entry.binding = class
  BY <1>4, RegistryConstants DEF Entry
<1>6. BindingFails(p, class) => CentralStep
  BY <1>2, <1>5, BindingCalls
<1>7. CASE BindingRegistered(p, class) /\ Set(h, bound)
  <2>1. CentralStep /\ <<p, class>> \in bindings' /\ bindings \subseteq bindings'
    BY <1>2, <1>5, <1>7, BindingCalls DEF CentralStep
  <2> HIDE DEF entry
  <2>2. work \in Registry /\ \A q \in Ids : work[q] = IF q = p THEN entry ELSE t.work[q]
    BY <1>2, <1>4, <1>5 DEF Registry
  <2>3. Sound(work, bindings')
    <3>1. Sound(t.work, bindings')
      BY <1>1, <2>1, SoundMonotone DEF Fit
    <3> QED BY <1>5, <2>1, <2>2, <3>1 DEF Sound
  <2>4. bound = [t EXCEPT !.pc = "ensureScope", !.refresh = @ \ {p},
                          !.work = work, !.dirty = TRUE]
    BY <1>1 DEF Fit, Task, entry
  <2> HIDE DEF bound, work
  <2>5. bound \in Task /\ bound.pc = "ensureScope" /\ bound.work = work
        /\ bound.refresh \subseteq t.refresh /\ bound.op = t.op
    BY <1>1, <2>2, <2>4 DEF Fit, Task, Phases
  <2>6. Staged(bound)
    BY <1>1, <1>5, <2>2, <2>5 DEF Fit, Staged, Task
  <2> QED BY <1>2, <1>7, <2>1, <2>3, <2>5, <2>6, TaskStep DEF Fit
<1>8. CASE BindingFails(p, class) /\ Reply(h)
  BY <1>2, <1>6, <1>8, IdleFit, TaskStep DEF Reply
<1> QED BY <1>3, <1>7, <1>8

LEMMA LoopsEnd ==
  ASSUME IInv, NEW h \in Handlers, EnsureDone(h) \/ AddDone(h) PROVE IInv'
<1>1. Fit(task[h], bindings) /\ task[h].op # "delete"
  BY DEF IInv, Fit, Staged, EnsureDone, AddDone, At
<1>2. CentralStep /\ UNCHANGED disk /\ bindings' = bindings
  BY DEF IInv, CentralStep, CentralOK, EnsureDone, AddDone, central
<1>3. Set(h, AfterLoop(task[h]))
  BY DEF EnsureDone, AddDone
<1> QED BY <1>1, <1>2, <1>3, AfterLoopFit, TaskStep DEF Fit

LEMMA AdoptStep ==
  ASSUME IInv, NEW h \in Handlers, AdoptCandidate(h) PROVE IInv'
<1> DEFINE t == task[h]
           c == First(t.adding)
<1>1. Fit(t, bindings) /\ t.pc = "addScope" /\ t.adding # {}
  BY DEF IInv, AdoptCandidate, At
<1>2. c \in Candidate
  BY <1>1, FirstIn DEF Fit, Task
<1>3. CentralStep /\ UNCHANGED disk /\ bindings' = bindings
  BY DEF IInv, CentralStep, CentralOK, AdoptCandidate, central
<1>4. PICK p \in Matches(t, c), detected \in BOOLEAN :
        Set(h, [t EXCEPT !.adding = @ \ {c}, !.work[p].path = c.path,
                         !.dirty = @ \/ t.work[p].path # c.path \/ detected])
  BY DEF AdoptCandidate
<1> DEFINE entry == [t.work[p] EXCEPT !.path = c.path]
           work == [t.work EXCEPT ![p] = entry]
           dirty == t.dirty \/ t.work[p].path # c.path \/ detected
           moved == [t EXCEPT !.adding = @ \ {c}, !.work = work, !.dirty = dirty]
<1>5. t.work \in Registry /\ p \in Ids /\ t.work[p] # NoProject /\ t.work[p] \in Entry
  BY <1>1, <1>4 DEF Fit, Task, Matches, Present, Registry
<1>6. Set(h, moved)
  BY <1>1, <1>4 DEF Fit, Task
<1>7. entry \in Entry /\ entry # NoProject /\ entry.class = t.work[p].class
      /\ entry.binding = t.work[p].binding
  BY <1>2, <1>5, RegistryConstants DEF Entry, Candidate
<1>8. dirty \in BOOLEAN
  BY <1>1 DEF Fit, Task
<1> HIDE DEF t, entry, dirty, c
<1>9. work \in Registry /\ \A q \in Ids : work[q] = IF q = p THEN entry ELSE t.work[q]
  BY <1>5, <1>7 DEF Registry
<1>10. Sound(work, bindings)
  BY <1>1, <1>5, <1>7, <1>9 DEF Fit, Sound
<1> HIDE DEF work
<1>11. moved \in Task /\ moved.pc = "addScope" /\ moved.op = t.op /\ moved.work = work
  BY <1>1, <1>8, <1>9 DEF Fit, Task
<1>12. Fit(moved, bindings)
  BY <1>1, <1>10, <1>11 DEF Fit, Staged
<1> QED BY <1>3, <1>6, <1>12, TaskStep
LEMMA AddScopeStep ==
  ASSUME IInv, NEW h \in Handlers, AddScope(h) PROVE IInv'
<1> DEFINE t == task[h]
           c == First(t.adding)
           opened == [t EXCEPT !.pc = "addBinding"]
<1>1. Fit(t, bindings) /\ t.pc = "addScope" /\ t.adding # {}
  BY DEF IInv, AddScope, At
<1>2. c \in Candidate /\ c.id \in Ids /\ CentralOK /\ UNCHANGED disk
  BY <1>1, FirstIn DEF Fit, Task, Candidate, IInv, AddScope
<1>3. \/ ScopeSet(c.id, TRUE) /\ Set(h, opened)
      \/ ScopeFails(c.id, TRUE) /\ Set(h, Abandon(t))
  BY DEF AddScope
<1> HIDE DEF t, c
<1>4. CentralStep /\ bindings' = bindings
  BY <1>2, <1>3, ScopeCalls
<1>5. opened \in Task /\ opened.pc = "addBinding" /\ opened.op = t.op
      /\ opened.work = t.work /\ opened.adding = t.adding
  BY <1>1 DEF Fit, Task, Phases
<1>6. Fit(opened, bindings)
  BY <1>1, <1>5 DEF Fit, Staged
<1>7. Fit(Abandon(t), bindings)
  BY <1>1, AbandonFit DEF Fit, Staged
<1> QED BY <1>2, <1>3, <1>4, <1>6, <1>7, TaskStep

\* A new entry carries the binding that was just registered for it.
LEMMA AddBindingStep ==
  ASSUME IInv, NEW h \in Handlers, AddBinding(h) PROVE IInv'
<1> DEFINE t == task[h]
           c == First(t.adding)
           opened == [t EXCEPT !.undo = @ \cup {c.id}]
           undoing == [t EXCEPT !.pc = "undoOwn"]
           entry == [path |-> c.path, class |-> c.class, binding |-> c.class]
           work == [t.work EXCEPT ![c.id] = entry]
           added == [opened EXCEPT !.pc = "addScope", !.adding = @ \ {c},
                                   !.work[c.id] = entry, !.dirty = TRUE]
<1>1. Fit(t, bindings) /\ t.pc = "addBinding" /\ t.adding # {} /\ t.op # "delete"
  BY DEF IInv, AddBinding, At, Fit, Staged
<1>2. c \in Candidate /\ CentralOK /\ UNCHANGED disk
  BY <1>1, FirstIn DEF Fit, Task, IInv, AddBinding
<1>3. c.id \in Ids /\ c.path \in Paths /\ c.class \in Classes
  BY <1>2 DEF Candidate
<1>4. \/ BindingRegistered(c.id, c.class) /\ Set(h, added)
      \/ BindingFails(c.id, c.class) /\ Set(h, undoing)
  BY DEF AddBinding
<1>5. entry \in Entry /\ entry.binding = c.class /\ entry.class = c.class
  BY <1>3 DEF Entry
<1> HIDE DEF t, c, entry
<1>6. opened \in Task /\ opened.work = t.work /\ opened.op = t.op /\ opened.adding = t.adding
  BY <1>1, <1>3 DEF Fit, Task
<1> HIDE DEF opened
<1>7. CASE BindingRegistered(c.id, c.class) /\ Set(h, added)
  <2>1. CentralStep /\ <<c.id, c.class>> \in bindings' /\ bindings \subseteq bindings'
    BY <1>2, <1>3, <1>7, BindingCalls DEF CentralStep
  <2>2. work \in Registry /\ \A q \in Ids : work[q] = IF q = c.id THEN entry ELSE t.work[q]
    BY <1>1, <1>3, <1>5 DEF Fit, Task, Registry
  <2>3. Sound(t.work, bindings')
    BY <1>1, <2>1, SoundMonotone DEF Fit
  <2>4. Sound(work, bindings')
    BY <1>5, <2>1, <2>2, <2>3 DEF Sound
  <2>5. added = [opened EXCEPT !.pc = "addScope", !.adding = @ \ {c},
                               !.work = work, !.dirty = TRUE]
    BY <1>6 DEF Task
  <2> HIDE DEF added, work
  <2>6. added \in Task /\ added.pc = "addScope" /\ added.work = work /\ added.op = t.op
    BY <1>6, <2>2, <2>5 DEF Task, Phases
  <2>7. Fit(added, bindings')
    BY <1>1, <2>4, <2>6 DEF Fit, Staged
  <2> QED BY <1>2, <1>7, <2>1, <2>7, TaskStep
<1>8. CASE BindingFails(c.id, c.class) /\ Set(h, undoing)
  <2>1. CentralStep /\ bindings \subseteq bindings'
    BY <1>2, <1>3, <1>8, BindingCalls DEF CentralStep
  <2>2. /\ undoing \in Task /\ undoing.pc = "undoOwn" /\ undoing.op = t.op
        /\ undoing.work = t.work /\ undoing.adding = t.adding
    BY <1>1 DEF Fit, Task, Phases
  <2>3. Sound(t.work, bindings')
    BY <1>1, <2>1, SoundMonotone DEF Fit
  <2> HIDE DEF undoing
  <2>4. Fit(undoing, bindings')
    BY <1>1, <2>2, <2>3 DEF Fit, Staged
  <2> QED BY <1>2, <1>8, <2>1, <2>4, TaskStep
<1> QED BY <1>4, <1>7, <1>8

LEMMA UndoOwnStep ==
  ASSUME IInv, NEW h \in Handlers, UndoOwn(h) PROVE IInv'
<1> DEFINE t == task[h]
           p == First(t.adding).id
           failing == [t EXCEPT !.own = {p}]
<1>1. /\ Fit(t, bindings) /\ t.pc = "undoOwn" /\ t.adding # {} /\ t.op # "delete"
      /\ CentralOK /\ UNCHANGED disk
  BY DEF IInv, UndoOwn, At, Fit, Staged
<1>2. p \in Ids
  BY <1>1, FirstIn DEF Fit, Task, Candidate
<1>3. \/ ScopeSet(p, FALSE) /\ Set(h, Abandon(t))
      \/ ScopeFails(p, FALSE) /\ Set(h, Abandon(failing))
  BY DEF UndoOwn
<1> HIDE DEF t, p
<1>4. CentralStep /\ bindings' = bindings
  BY <1>1, <1>2, <1>3, ScopeCalls
<1>5. failing \in Task /\ failing.op = t.op /\ failing.work = t.work
  BY <1>1, <1>2 DEF Fit, Task
<1>6. Fit(Abandon(t), bindings')
  BY <1>1, <1>4, AbandonFit DEF Fit
<1> HIDE DEF failing
<1>7. Fit(Abandon(failing), bindings')
  BY <1>1, <1>4, <1>5, AbandonFit DEF Fit
<1> QED BY <1>1, <1>3, <1>4, <1>6, <1>7, TaskStep

LEMMA RollbackSteps ==
  ASSUME IInv, NEW h \in Handlers, Rollback(h) \/ RollbackDone(h) PROVE IInv'
<1> DEFINE t == task[h]
           p == First(t.undo)
           tried == [t EXCEPT !.undo = @ \ {p}]
           failing == [tried EXCEPT !.failed = @ \cup {p}]
<1>1. Fit(t, bindings) /\ t.pc = "rollback" /\ CentralOK /\ UNCHANGED disk
  BY DEF IInv, Rollback, RollbackDone, At, disk
<1>2. CASE Rollback(h)
  <2>1. p \in Ids
    BY <1>1, <1>2, FirstIn DEF Fit, Task, Rollback
  <2>2. \/ ScopeSet(p, FALSE) /\ Set(h, tried)
        \/ ScopeFails(p, FALSE) /\ Set(h, failing)
    BY <1>2 DEF Rollback
  <2> HIDE DEF t, p
  <2>3. CentralStep /\ bindings' = bindings
    BY <1>1, <2>1, <2>2, ScopeCalls
  <2>4. tried \in Task /\ tried.pc = "rollback" /\ tried.op = t.op /\ tried.work = t.work
    BY <1>1 DEF Fit, Task
  <2>5. Fit(tried, bindings)
    BY <1>1, <2>4 DEF Fit, Staged
  <2> HIDE DEF tried
  <2>6. failing \in Task /\ failing.pc = "rollback" /\ failing.op = t.op
        /\ failing.work = t.work
    BY <2>1, <2>4 DEF Task
  <2>7. Fit(failing, bindings)
    BY <1>1, <2>6 DEF Fit, Staged
  <2> QED BY <1>1, <2>2, <2>3, <2>5, <2>7, TaskStep
<1>3. CASE RollbackDone(h)
  <2>1. CentralStep
    BY <1>1, <1>3 DEF CentralStep, CentralOK, RollbackDone, Named, Fit, Task
  <2> QED BY <1>1, <1>3, <2>1, IdleFit, TaskStep DEF RollbackDone, Reply
<1> QED BY <1>2, <1>3

LEMMA DeletionSteps ==
  ASSUME IInv, NEW h \in Handlers, Deactivate(h) \/ Reactivate(h) PROVE IInv'
<1> DEFINE t == task[h]
           off == [t EXCEPT !.pc = "write"]
<1>1. Fit(t, bindings) /\ t.id \in Ids /\ CentralOK /\ UNCHANGED disk
  BY DEF IInv, Deactivate, Reactivate, At, Fit, Staged
<1>2. CASE Deactivate(h)
  <2>1. \/ ScopeSet(t.id, FALSE) /\ Set(h, off)
        \/ ScopeFails(t.id, FALSE) /\ Reply(h)
    BY <1>2 DEF Deactivate
  <2> HIDE DEF t
  <2>2. CentralStep /\ bindings' = bindings
    BY <1>1, <2>1, ScopeCalls
  <2>3. off \in Task /\ off.pc = "write" /\ off.op = t.op /\ off.work = t.work
        /\ off.id = t.id
    BY <1>1 DEF Fit, Task, Phases
  <2>4. Fit(off, bindings)
    BY <1>1, <2>3 DEF Fit, Staged
  <2> QED BY <1>1, <2>1, <2>2, <2>4, IdleFit, TaskStep DEF Reply
<1>3. CASE Reactivate(h)
  <2>1. CentralStep
    BY <1>1, <1>3, ScopeCalls DEF Reactivate
  <2> QED BY <1>1, <1>3, <2>1, IdleFit, TaskStep DEF Reactivate, Reply
<1> QED BY <1>2, <1>3
\* A handler whose write failed compensates what it had done.
LEMMA WriteFailsFit ==
  ASSUME IInv, NEW h \in Handlers, task[h].pc \in {"write", "rename"}
  PROVE  \E t : Fit(t, bindings) /\ (WriteFails(h) => Set(h, t))
<1> DEFINE t == task[h]
           react == [t EXCEPT !.pc = "reactivate"]
<1>1. Fit(t, bindings)
  BY DEF IInv
<1>2. CASE t.op = "delete"
  <2>1. WriteFails(h) => Set(h, react)
    BY <1>2 DEF WriteFails
  <2>2. react \in Task /\ react.pc = "reactivate" /\ react.op = "delete"
        /\ react.id = t.id /\ react.work = t.work
    BY <1>1, <1>2 DEF Fit, Task, Phases
  <2>3. Fit(react, bindings)
    BY <1>1, <1>2, <2>2 DEF Fit, Staged
  <2> QED BY <2>1, <2>3
<1>3. CASE t.op # "delete"
  <2>1. WriteFails(h) => Set(h, Abandon(t))
    BY <1>3 DEF WriteFails
  <2>2. Fit(Abandon(t), bindings)
    BY <1>1, <1>3, AbandonFit DEF Fit
  <2> QED BY <2>1, <2>2
<1> QED BY <1>2, <1>3

\* What is written is the sound copy of the handler.
LEMMA WriteTempStep ==
  ASSUME IInv, NEW h \in Handlers, WriteTemp(h) PROVE IInv'
<1> DEFINE t == task[h]
<1>1. Fit(t, bindings) /\ t.pc = "write"
  BY DEF IInv, WriteTemp, At
<1>2. CentralStep /\ file' = file /\ bindings' = bindings
  BY DEF IInv, CentralStep, CentralOK, WriteTemp, central
<1>3. CASE \E s \in Stamps : /\ temps' = [temps EXCEPT ![s] = t.work]
                            /\ Set(h, [t EXCEPT !.pc = "rename", !.stamp = s])
  <2>1. PICK s \in Stamps : /\ temps' = [temps EXCEPT ![s] = t.work]
                           /\ Set(h, [t EXCEPT !.pc = "rename", !.stamp = s])
    BY <1>3
  <2> DEFINE named == [t EXCEPT !.pc = "rename", !.stamp = s]
  <2> HIDE DEF t
  <2>2. named \in Task /\ named.pc = "rename" /\ named.stamp = s
        /\ named.op = t.op /\ named.id = t.id /\ named.work = t.work
    BY <1>1, <2>1 DEF Fit, Task, Phases
  <2>3. Fit(named, bindings)
    BY <1>1, <2>1, <2>2 DEF Fit, Staged
  <2>4. DiskOK(bindings)'
    BY <1>1, <1>2, <2>1 DEF IInv, DiskOK, Fit, Task
  <2>5. task' = [task EXCEPT ![h] = named]
    BY <2>1 DEF Set
  <2> HIDE DEF named
  <2>6. task' \in [Handlers -> Task] /\ \A g \in Handlers : Fit(task'[g], bindings)
    BY <2>3, <2>5 DEF IInv, Fit
  <2> QED BY <1>2, <2>4, <2>6 DEF IInv, CentralStep
<1>4. CASE WriteFails(h) /\ UNCHANGED temps
  BY <1>1, <1>2, <1>4, WriteFailsFit, TaskStep DEF disk
<1> QED BY <1>3, <1>4 DEF WriteTemp

\* What is renamed over the list is a sound temporary file, whoever wrote it.
LEMMA RenameStep ==
  ASSUME IInv, NEW h \in Handlers, Rename(h) PROVE IInv'
<1> DEFINE t == task[h]
           content == temps[t.stamp]
<1>1. Fit(t, bindings) /\ t.pc = "rename" /\ t.stamp \in Stamps
  BY DEF IInv, Rename, At, Fit, Staged
<1>2. CentralStep /\ bindings' = bindings
  BY DEF IInv, CentralStep, CentralOK, Rename, central
<1>3. CASE /\ content # NoFile
           /\ file' = content
           /\ temps' = [temps EXCEPT ![t.stamp] = NoFile]
           /\ Set(h, Finished(t))
  <2>1. DiskOK(bindings)'
    BY <1>1, <1>2, <1>3 DEF IInv, DiskOK
  <2>2. Fit(Finished(t), bindings)
    BY <1>1, FinishedFit DEF Fit
  <2>3. task' = [task EXCEPT ![h] = Finished(t)]
    BY <1>3 DEF Set
  <2>4. task' \in [Handlers -> Task] /\ \A g \in Handlers : Fit(task'[g], bindings)
    BY <2>2, <2>3 DEF IInv, Fit
  <2> QED BY <1>2, <2>1, <2>4 DEF IInv, CentralStep
<1>4. CASE WriteFails(h) /\ UNCHANGED disk
  BY <1>1, <1>2, <1>4, WriteFailsFit, TaskStep
<1> QED BY <1>3, <1>4 DEF Rename

LEMMA EnvironmentSteps ==
  ASSUME IInv, Crash \/ \E call \in inflight : LateScope(call) PROVE IInv'
<1>1. CASE Crash
  <2>1. UNCHANGED <<file, central>> /\ task' = [h \in Handlers |-> IdleTask]
        /\ temps' = [s \in Stamps |-> NoFile]
    BY <1>1 DEF Crash
  <2>2. CentralOK' /\ DiskOK(bindings)' /\ bindings' = bindings
    BY <2>1 DEF IInv, CentralOK, DiskOK, central
  <2>3. IdleTask \in Task
    BY IdleFit DEF Fit
  <2> QED BY <2>1, <2>2, <2>3, IdleFit DEF IInv
<1>2. CASE \E call \in inflight : LateScope(call)
  <2>1. PICK call \in inflight : LateScope(call)
    BY <1>2
  <2>2. call[1] \in Ids /\ UNCHANGED disk /\ task' = task
        /\ bindings' = bindings /\ flagged' = flagged /\ unnamed' = unnamed
    BY <2>1 DEF IInv, CentralOK, LateScope, reports
  <2>3. CentralOK'
    BY <2>1, <2>2 DEF IInv, CentralOK, LateScope
  <2> QED BY <2>2, <2>3 DEF IInv, DiskOK, disk
<1> QED BY <1>1, <1>2

LEMMA StutterStep == ASSUME IInv, UNCHANGED vars PROVE IInv'
BY DEF IInv, CentralOK, DiskOK, vars

-----------------------------------------------------------------------------
LEMMA InitIInv == Init => IInv
<1> SUFFICES ASSUME Init PROVE IInv OBVIOUS
<1>1. file \in Registry /\ LegacyFile(file)
  BY DEF Init
<1>2. Sound(file, bindings)
  BY <1>1 DEF LegacyFile, Present, Sound
<1>3. CentralOK /\ DiskOK(bindings)
  BY <1>1, <1>2 DEF Init, CentralOK, DiskOK
<1>4. IdleTask \in Task
  BY IdleFit DEF Fit
<1> QED BY <1>3, <1>4, IdleFit DEF Init, IInv

LEMMA NextIInv == IInv /\ [Next]_vars => IInv'
<1> SUFFICES ASSUME IInv, [Next]_vars PROVE IInv' OBVIOUS
<1>1. ASSUME NEW h \in Handlers, Request(h) PROVE IInv'
  BY <1>1, GetRequest, CreateRequest, UpdateRequest, DeleteRequest, ListRequest
  DEF Request
<1>2. ASSUME NEW h \in Handlers, Step(h) PROVE IInv'
  BY <1>2, EnsureScopeStep, EnsureBindingStep, LoopsEnd, AdoptStep, AddScopeStep,
     AddBindingStep, UndoOwnStep, RollbackSteps, DeletionSteps, WriteTempStep, RenameStep
  DEF Step
<1> QED BY <1>1, <1>2, EnvironmentSteps, StutterStep DEF Next

\* Every state of the registry, with any number of overlapping requests and
\* any faults, satisfies the inductive invariant.
THEOREM RegistryInvariant == Spec => []IInv
BY InitIInv, NextIInv, PTL DEF Spec

\* Type correctness of the registry model.
THEOREM RegistryTypes == Spec => []TypeOK
<1>1. IInv => TypeOK
  BY DEF IInv, CentralOK, DiskOK, TypeOK
<1> QED BY <1>1, RegistryInvariant, PTL

\* No binding of another classification is stored or about to be stored:
\* whatever handlers interleave, lose updates, time out or crash.
THEOREM BindingsMatch == Spec => []BindingMatchesClassification
<1>1. IInv => BindingMatchesClassification
  <2> SUFFICES ASSUME IInv, NEW reg \in Lists, reg # NoFile
               PROVE  Sound(reg, bindings)
    BY DEF BindingMatchesClassification, Sound, Present
  <2> QED BY DEF IInv, DiskOK, Fit, Lists
<1> QED BY <1>1, RegistryInvariant, PTL

\* Every stored binding was registered with the Policy Registry for exactly
\* that project and classification.
THEOREM BindingsRegistered == Spec => []StoredBindingsRegistered
<1>1. IInv => StoredBindingsRegistered
  BY DEF IInv, DiskOK, Sound, StoredBindingsRegistered, Present
<1> QED BY <1>1, RegistryInvariant, PTL
-----------------------------------------------------------------------------
(* The next task of a handler, field by field                               *)

\* The fields no phase changes but the ones that open or undo scopes.
Kept(n, t) == n.op = t.op /\ n.id = t.id /\ n.undo = t.undo /\ n.failed = t.failed
              /\ n.own = t.own

LEMMA SettingTask ==
  ASSUME IInv, NEW h \in Handlers, NEW n, Set(h, n)
  PROVE  task'[h] = n /\ \A g \in Handlers : g # h => task'[g] = task[g]
BY DEF IInv, Set

LEMMA Typed == ASSUME IInv, NEW h \in Handlers PROVE task[h] \in Task /\ Staged(task[h])
BY DEF IInv, Fit

LEMMA IdleForm ==
  /\ IdleTask \in Task
  /\ IdleTask.pc = "idle" /\ IdleTask.op = "none" /\ IdleTask.id = NoProject
  /\ IdleTask.work = Empty /\ IdleTask.refresh = {} /\ IdleTask.adding = {}
  /\ IdleTask.undo = {} /\ IdleTask.failed = {} /\ IdleTask.own = {}
BY IdleFit DEF Fit, IdleTask

LEMMA FinishedForm ==
  ASSUME NEW t \in Task
  PROVE  LET n == Finished(t) IN
         \/ t.op # "list" /\ n = IdleTask
         \/ /\ t.op = "list"
            /\ n.pc = "addScope" /\ n.op = "discover" /\ n.id = t.id
            /\ n.undo = t.undo /\ n.failed = t.failed /\ n.own = t.own /\ n.work = t.work
            /\ n.refresh = t.refresh /\ n.adding = Candidates
<1>1. CASE t.op = "list"
  BY <1>1 DEF Finished, Discovering, Task
<1> QED BY <1>1 DEF Finished

LEMMA AfterLoopForm ==
  ASSUME NEW t \in Task
  PROVE  LET n == AfterLoop(t) IN
         \/ ~t.dirty /\ n = Finished(t)
         \/ /\ n.pc = "write" /\ Kept(n, t) /\ n.work = t.work
            /\ n.refresh = t.refresh /\ n.adding = t.adding
<1>1. CASE t.dirty
  BY <1>1 DEF AfterLoop, Task, Kept
<1> QED BY <1>1 DEF AfterLoop

LEMMA AbandonForm ==
  ASSUME NEW t \in Task
  PROVE  LET n == Abandon(t) IN
         \/ t.undo \cup t.own = {} /\ n = IdleTask
         \/ /\ n.pc = "rollback" /\ Kept(n, t) /\ n.work = t.work
            /\ n.refresh = t.refresh /\ n.adding = t.adding /\ t.undo \cup t.own # {}
<1>1. CASE t.undo \cup t.own # {}
  BY <1>1 DEF Abandon, Task, Kept
<1> QED BY <1>1 DEF Abandon

LEMMA WriteFailsForm ==
  ASSUME IInv, NEW h \in Handlers, WriteFails(h)
  PROVE  \/ task[h].op # "delete" /\ Set(h, Abandon(task[h]))
         \/ \E n : /\ Set(h, n) /\ task[h].op = "delete"
                   /\ n.pc = "reactivate" /\ Kept(n, task[h]) /\ n.work = task[h].work
                   /\ n.refresh = task[h].refresh /\ n.adding = task[h].adding
<1>1. CASE task[h].op = "delete"
  <2> DEFINE n == [task[h] EXCEPT !.pc = "reactivate"]
  <2>1. Set(h, n)
    BY <1>1 DEF WriteFails
  <2>2. /\ n.pc = "reactivate" /\ Kept(n, task[h]) /\ n.work = task[h].work
        /\ n.refresh = task[h].refresh /\ n.adding = task[h].adding
    BY Typed DEF Task, Kept
  <2> QED BY <1>1, <2>1, <2>2
<1> QED BY <1>1 DEF WriteFails

LEMMA ListForm ==
  ASSUME IInv, NEW h \in Handlers, List(h)
  PROVE  \E n : /\ Set(h, n) /\ n.pc = "ensureScope" /\ n.op = "list" /\ n.work = file
                /\ n.refresh = Present(file) /\ n.adding = {} /\ n.undo = {}
                /\ n.failed = {} /\ n.own = {}
<1> DEFINE n == [Begin("list", NoProject) EXCEPT !.pc = "ensureScope", !.refresh = Present(file)]
<1>1. /\ n.pc = "ensureScope" /\ n.op = "list" /\ n.work = file
      /\ n.refresh = Present(file) /\ n.adding = {} /\ n.undo = {} /\ n.failed = {} /\ n.own = {}
  BY DEF Begin, IdleTask
<1> QED BY <1>1 DEF List

LEMMA GetForm ==
  ASSUME IInv, NEW h \in Handlers, NEW p \in Ids, Get(h, p)
  PROVE  \E n : /\ Set(h, n) /\ n.pc = "ensureScope" /\ n.op = "get" /\ n.work = file
                /\ n.refresh = {p} /\ n.adding = {} /\ n.undo = {} /\ n.failed = {} /\ n.own = {}
<1> DEFINE n == [Begin("get", p) EXCEPT !.pc = "ensureScope", !.refresh = {p}]
<1>1. /\ n.pc = "ensureScope" /\ n.op = "get" /\ n.work = file
      /\ n.refresh = {p} /\ n.adding = {} /\ n.undo = {} /\ n.failed = {} /\ n.own = {}
  BY DEF Begin, IdleTask
<1> QED BY <1>1 DEF Get

LEMMA CreateForm ==
  ASSUME IInv, NEW h \in Handlers, NEW c \in Candidate, Create(h, c)
  PROVE  \E n : /\ Set(h, n) /\ n.pc = "addScope" /\ n.op = "create" /\ n.id = c.id
                /\ n.work = file /\ n.adding = {c}
                /\ n.refresh = {} /\ n.undo = {} /\ n.failed = {} /\ n.own = {}
<1> DEFINE n == [Begin("create", c.id) EXCEPT !.pc = "addScope", !.adding = {c}]
<1>1. /\ n.pc = "addScope" /\ n.op = "create" /\ n.id = c.id
      /\ n.work = file /\ n.adding = {c} /\ n.refresh = {}
      /\ n.undo = {} /\ n.failed = {} /\ n.own = {}
  BY DEF Begin, IdleTask
<1> QED BY <1>1 DEF Create

LEMMA UpdateForm ==
  ASSUME IInv, NEW h \in Handlers, NEW c \in Candidate, Update(h, c)
  PROVE  \E n, next :
           /\ next = [path |-> c.path, class |-> c.class,
                      binding |-> BindingToKeep(file[c.id], c.class)]
           /\ Set(h, n) /\ n.pc = "ensureScope" /\ n.op = "update" /\ n.id = c.id
           /\ n.work = [file EXCEPT ![c.id] = next] /\ n.adding = {}
           /\ n.refresh = {c.id} /\ n.undo = {} /\ n.failed = {} /\ n.own = {} /\ n.dirty = TRUE
<1> DEFINE next == [path |-> c.path, class |-> c.class,
                    binding |-> BindingToKeep(file[c.id], c.class)]
           n == [Begin("update", c.id) EXCEPT !.pc = "ensureScope", !.refresh = {c.id},
                          !.dirty = TRUE, !.work[c.id] = next]
<1>1. Set(h, n)
  BY DEF Update
<1> HIDE DEF next
<1>2. /\ n.pc = "ensureScope" /\ n.op = "update" /\ n.id = c.id
      /\ n.work = [file EXCEPT ![c.id] = next] /\ n.adding = {}
      /\ n.refresh = {c.id} /\ n.undo = {} /\ n.failed = {} /\ n.own = {} /\ n.dirty = TRUE
  BY DEF Begin, IdleTask
<1> QED BY <1>1, <1>2 DEF next

LEMMA DeleteForm ==
  ASSUME IInv, NEW h \in Handlers, NEW p \in Ids, Delete(h, p)
  PROVE  \E n : /\ Set(h, n) /\ n.pc = "deactivate" /\ n.op = "delete" /\ n.id = p
                /\ n.work = [file EXCEPT ![p] = NoProject] /\ n.adding = {}
                /\ n.refresh = {} /\ n.undo = {} /\ n.failed = {} /\ n.own = {}
<1> DEFINE n == [Begin("delete", p) EXCEPT !.pc = "deactivate", !.dirty = TRUE,
                                           !.work[p] = NoProject]
<1>1. /\ n.pc = "deactivate" /\ n.op = "delete" /\ n.id = p
      /\ n.work = [file EXCEPT ![p] = NoProject] /\ n.adding = {}
      /\ n.refresh = {} /\ n.undo = {} /\ n.failed = {} /\ n.own = {}
  BY DEF Begin, IdleTask
<1> QED BY <1>1 DEF Delete

LEMMA EnsureScopeForm ==
  ASSUME IInv, NEW h \in Handlers, NEW p, p = First(task[h].refresh), EnsureScope(h)
  PROVE  /\ p \in task[h].refresh /\ p \in Ids /\ task[h].pc = "ensureScope"
         /\ \/ ScopeFails(p, TRUE) /\ Set(h, IdleTask)
            \/ \E n : /\ ScopeSet(p, TRUE) /\ Set(h, n) /\ Kept(n, task[h])
                      /\ n.work = task[h].work /\ n.adding = task[h].adding
                      /\ n.dirty = task[h].dirty
                      /\ \/ n.pc = "ensureBinding" /\ n.refresh = task[h].refresh
                         \/ /\ n.pc = "ensureScope" /\ n.refresh = task[h].refresh \ {p}
                            /\ task[h].work[p].binding # Unbound
<1> DEFINE t == task[h]
           bind == [t EXCEPT !.pc = "ensureBinding"]
           refreshed == [t EXCEPT !.refresh = @ \ {p}]
<1>1. t \in Task /\ t.pc = "ensureScope" /\ p \in t.refresh
  BY Typed, FirstIn DEF EnsureScope, At
<1>2. p \in Ids
  BY <1>1 DEF Task
<1>3. \/ /\ ScopeSet(p, TRUE)
         /\ Set(h, IF t.work[p].binding = Unbound THEN bind ELSE refreshed)
      \/ ScopeFails(p, TRUE) /\ Set(h, IdleTask)
  BY DEF EnsureScope, Reply
<1>4. /\ Kept(bind, t) /\ bind.work = t.work /\ bind.adding = t.adding /\ bind.dirty = t.dirty
      /\ bind.pc = "ensureBinding" /\ bind.refresh = t.refresh
  BY <1>1 DEF Kept, Task
<1>5. /\ Kept(refreshed, t) /\ refreshed.work = t.work /\ refreshed.adding = t.adding
      /\ refreshed.dirty = t.dirty
      /\ refreshed.pc = "ensureScope" /\ refreshed.refresh = t.refresh \ {p}
  BY <1>1 DEF Kept, Task
<1> HIDE DEF bind, refreshed
<1> QED BY <1>1, <1>2, <1>3, <1>4, <1>5

\* The task of a handler that has bound p to its classification.
BoundTask(n, t, p) ==
  /\ Kept(n, t) /\ n.pc = "ensureScope" /\ n.refresh = t.refresh \ {p}
  /\ n.adding = t.adding /\ n.dirty = TRUE
  /\ n.work = [t.work EXCEPT ![p] = [t.work[p] EXCEPT !.binding = t.work[p].class]]

LEMMA EnsureBindingForm ==
  ASSUME IInv, NEW h \in Handlers, NEW p, p = First(task[h].refresh), EnsureBinding(h)
  PROVE  /\ p \in task[h].refresh /\ p \in Ids /\ task[h].pc = "ensureBinding"
         /\ \/ BindingFails(p, task[h].work[p].class) /\ Set(h, IdleTask)
            \/ \E n : /\ BindingRegistered(p, task[h].work[p].class) /\ Set(h, n)
                      /\ BoundTask(n, task[h], p)
<1> DEFINE t == task[h]
           class == t.work[p].class
           bound == [t EXCEPT !.pc = "ensureScope", !.refresh = @ \ {p},
                              !.work[p].binding = class, !.dirty = TRUE]
<1>1. t \in Task /\ t.pc = "ensureBinding" /\ p \in t.refresh
  BY Typed, FirstIn DEF EnsureBinding, At, Staged
<1>2. p \in Ids
  BY <1>1 DEF Task
<1>3. \/ BindingRegistered(p, class) /\ Set(h, bound)
      \/ BindingFails(p, class) /\ Set(h, IdleTask)
  BY DEF EnsureBinding, Reply
<1>4. BoundTask(bound, t, p)
  BY <1>1 DEF Kept, Task, BoundTask
<1> HIDE DEF bound
<1> QED BY <1>1, <1>2, <1>3, <1>4

\* The task of a handler that has moved the entry p to the directory of c.
AdoptTask(n, t, c, p) ==
  /\ Kept(n, t) /\ n.pc = "addScope"
  /\ n.refresh = t.refresh /\ n.adding = t.adding \ {c}
  /\ n.work = [t.work EXCEPT ![p] = [t.work[p] EXCEPT !.path = c.path]]
  /\ t.dirty => n.dirty

LEMMA AdoptForm ==
  ASSUME IInv, NEW h \in Handlers, NEW c, c = First(task[h].adding), AdoptCandidate(h)
  PROVE  /\ c \in task[h].adding /\ task[h].pc = "addScope"
         /\ \E p \in Matches(task[h], c) : \E n :
              Set(h, n) /\ AdoptTask(n, task[h], c, p)
<1> DEFINE t == task[h]
<1>1. t \in Task /\ t.pc = "addScope" /\ c \in t.adding
  BY Typed, FirstIn DEF AdoptCandidate, At
<1>2. PICK p \in Matches(t, c), detected \in BOOLEAN :
        Set(h, [t EXCEPT !.adding = @ \ {c}, !.work[p].path = c.path,
                         !.dirty = @ \/ t.work[p].path # c.path \/ detected])
  BY DEF AdoptCandidate
<1> DEFINE n == [t EXCEPT !.adding = @ \ {c}, !.work[p].path = c.path,
                          !.dirty = @ \/ t.work[p].path # c.path \/ detected]
<1>3. AdoptTask(n, t, c, p)
  BY <1>1 DEF Kept, Task, AdoptTask
<1>4. Set(h, n)
  BY <1>2
<1> HIDE DEF n
<1> QED BY <1>1, <1>3, <1>4

LEMMA AddScopeForm ==
  ASSUME IInv, NEW h \in Handlers, NEW c, c = First(task[h].adding), AddScope(h)
  PROVE  /\ c \in task[h].adding /\ c \in Candidate
         /\ task[h].pc = "addScope" /\ Matches(task[h], c) = {}
         /\ \/ ScopeFails(c.id, TRUE) /\ Set(h, Abandon(task[h]))
            \/ \E n : /\ ScopeSet(c.id, TRUE) /\ Set(h, n) /\ Kept(n, task[h])
                      /\ n.pc = "addBinding" /\ n.work = task[h].work /\ n.dirty = task[h].dirty
                      /\ n.refresh = task[h].refresh /\ n.adding = task[h].adding
<1> DEFINE t == task[h]
           n == [t EXCEPT !.pc = "addBinding"]
<1>1. t \in Task /\ t.pc = "addScope" /\ c \in t.adding
  BY Typed, FirstIn DEF AddScope, At
<1>2. c \in Candidate
  BY <1>1 DEF Task
<1>3. /\ Matches(t, c) = {}
      /\ \/ ScopeSet(c.id, TRUE) /\ Set(h, n)
         \/ ScopeFails(c.id, TRUE) /\ Set(h, Abandon(t))
  BY DEF AddScope
<1>4. /\ Kept(n, t) /\ n.pc = "addBinding" /\ n.work = t.work /\ n.dirty = t.dirty
      /\ n.refresh = t.refresh /\ n.adding = t.adding
  BY <1>1 DEF Kept, Task
<1> HIDE DEF n
<1> QED BY <1>1, <1>2, <1>3, <1>4

\* The fields of a task that has opened a scope it may have to undo.
Opens(n, t, p) ==
  /\ n.op = t.op /\ n.id = t.id /\ n.undo = t.undo \cup {p}
  /\ n.failed = t.failed /\ n.own = t.own

LEMMA AddBindingForm ==
  ASSUME IInv, NEW h \in Handlers, NEW c, c = First(task[h].adding), AddBinding(h)
  PROVE  /\ c \in task[h].adding /\ c \in Candidate /\ task[h].pc = "addBinding"
         /\ \/ \E n : /\ BindingFails(c.id, c.class) /\ Set(h, n)
                      /\ Kept(n, task[h]) /\ n.pc = "undoOwn" /\ n.work = task[h].work
                      /\ n.adding = task[h].adding
            \/ \E n : /\ BindingRegistered(c.id, c.class) /\ Set(h, n)
                      /\ Opens(n, task[h], c.id) /\ n.pc = "addScope" /\ n.dirty
                      /\ n.refresh = task[h].refresh /\ n.adding = task[h].adding \ {c}
                      /\ n.work = [task[h].work EXCEPT ![c.id] =
                                     [path |-> c.path, class |-> c.class, binding |-> c.class]]
<1> DEFINE t == task[h]
           entry == [path |-> c.path, class |-> c.class, binding |-> c.class]
           u == [t EXCEPT !.pc = "undoOwn"]
           n == [t EXCEPT !.pc = "addScope", !.adding = @ \ {c}, !.undo = @ \cup {c.id},
                          !.work[c.id] = entry, !.dirty = TRUE]
<1>1. t \in Task /\ t.pc = "addBinding" /\ c \in t.adding
  BY Typed, FirstIn DEF AddBinding, At, Staged
<1>2. c \in Candidate /\ c.id \in Ids
  BY <1>1 DEF Task, Candidate
<1>3. \/ BindingRegistered(c.id, c.class) /\ Set(h, n)
      \/ BindingFails(c.id, c.class) /\ Set(h, u)
  BY DEF AddBinding
<1> HIDE DEF t, entry
<1>4. Kept(u, t) /\ u.pc = "undoOwn" /\ u.work = t.work /\ u.adding = t.adding
  BY <1>1 DEF Kept, Task
<1> HIDE DEF u
<1>5. /\ Opens(n, t, c.id) /\ n.pc = "addScope" /\ n.dirty
      /\ n.refresh = t.refresh /\ n.adding = t.adding \ {c}
      /\ n.work = [t.work EXCEPT ![c.id] = entry]
  BY <1>1 DEF Opens, Task
<1> HIDE DEF n
<1>6. \/ BindingFails(c.id, c.class) /\ Set(h, u)
      \/ /\ BindingRegistered(c.id, c.class) /\ Set(h, n)
         /\ n.work = [t.work EXCEPT ![c.id] =
                        [path |-> c.path, class |-> c.class, binding |-> c.class]]
  BY <1>3, <1>5 DEF entry
<1> QED BY <1>1, <1>2, <1>4, <1>5, <1>6 DEF t

LEMMA UndoOwnForm ==
  ASSUME IInv, NEW h \in Handlers, NEW p, p = First(task[h].adding).id, UndoOwn(h)
  PROVE  /\ p \in Ids /\ task[h].pc = "undoOwn"
         /\ \E o \in Task : /\ Set(h, Abandon(o)) /\ o.op = task[h].op
                            /\ o.undo = task[h].undo /\ o.failed = task[h].failed
                            /\ o.work = task[h].work /\ o.adding = task[h].adding
                            /\ \/ ScopeSet(p, FALSE) /\ o.own = task[h].own
                               \/ ScopeFails(p, FALSE) /\ o.own = {p}
<1> DEFINE t == task[h]
           o == [t EXCEPT !.own = {p}]
<1>1. t \in Task /\ t.pc = "undoOwn" /\ t.adding # {}
  BY Typed DEF UndoOwn, At, Staged
<1>2. p \in Ids
  BY <1>1, FirstIn DEF Task, Candidate
<1>3. \/ ScopeSet(p, FALSE) /\ Set(h, Abandon(t))
      \/ ScopeFails(p, FALSE) /\ Set(h, Abandon(o))
  BY DEF UndoOwn
<1>4. /\ o \in Task /\ o.op = t.op /\ o.undo = t.undo /\ o.failed = t.failed
      /\ o.work = t.work /\ o.adding = t.adding /\ o.own = {p}
  BY <1>1, <1>2 DEF Task
<1> HIDE DEF o
<1> QED BY <1>1, <1>2, <1>3, <1>4

LEMMA RollbackForm ==
  ASSUME IInv, NEW h \in Handlers, NEW p, p = First(task[h].undo), Rollback(h)
  PROVE  /\ p \in task[h].undo /\ p \in Ids /\ task[h].pc = "rollback"
         /\ \E n : /\ Set(h, n) /\ n.pc = "rollback" /\ n.op = task[h].op
                   /\ n.undo = task[h].undo \ {p} /\ n.work = task[h].work
                   /\ n.adding = task[h].adding /\ n.own = task[h].own
                   /\ \/ ScopeSet(p, FALSE) /\ n.failed = task[h].failed
                      \/ ScopeFails(p, FALSE) /\ n.failed = task[h].failed \cup {p}
<1> DEFINE t == task[h]
           tried == [t EXCEPT !.undo = @ \ {p}]
           failing == [tried EXCEPT !.failed = @ \cup {p}]
<1>1. t \in Task /\ t.pc = "rollback" /\ p \in t.undo
  BY Typed, FirstIn DEF Rollback, At
<1>2. p \in Ids
  BY <1>1 DEF Task
<1>3. \/ ScopeSet(p, FALSE) /\ Set(h, tried)
      \/ ScopeFails(p, FALSE) /\ Set(h, failing)
  BY DEF Rollback
<1>4. /\ tried \in Task /\ tried.pc = "rollback" /\ tried.op = t.op /\ tried.undo = t.undo \ {p}
      /\ tried.work = t.work /\ tried.adding = t.adding /\ tried.failed = t.failed
      /\ tried.own = t.own
  BY <1>1 DEF Task
<1> HIDE DEF tried
<1>5. /\ failing.pc = "rollback" /\ failing.op = t.op /\ failing.undo = t.undo \ {p}
      /\ failing.work = t.work /\ failing.adding = t.adding
      /\ failing.failed = t.failed \cup {p} /\ failing.own = t.own
  BY <1>4 DEF Task
<1> HIDE DEF failing
<1> QED BY <1>1, <1>2, <1>3, <1>4, <1>5

LEMMA DeactivateForm ==
  ASSUME IInv, NEW h \in Handlers, Deactivate(h)
  PROVE  /\ task[h].id \in Ids /\ task[h].op = "delete" /\ task[h].pc = "deactivate"
         /\ \/ ScopeFails(task[h].id, FALSE) /\ Set(h, IdleTask)
            \/ \E n : /\ ScopeSet(task[h].id, FALSE) /\ Set(h, n) /\ Kept(n, task[h])
                      /\ n.pc = "write" /\ n.work = task[h].work
                      /\ n.refresh = task[h].refresh /\ n.adding = task[h].adding
<1> DEFINE n == [task[h] EXCEPT !.pc = "write"]
<1>1. task[h] \in Task /\ task[h].pc = "deactivate" /\ task[h].op = "delete" /\ task[h].id \in Ids
  BY Typed DEF Staged, Deactivate, At
<1>2. /\ Kept(n, task[h]) /\ n.pc = "write" /\ n.work = task[h].work
      /\ n.refresh = task[h].refresh /\ n.adding = task[h].adding
  BY <1>1 DEF Kept, Task
<1>3. \/ ScopeSet(task[h].id, FALSE) /\ Set(h, n)
      \/ ScopeFails(task[h].id, FALSE) /\ Set(h, IdleTask)
  BY DEF Deactivate, Reply
<1> HIDE DEF n
<1> QED BY <1>1, <1>2, <1>3

LEMMA WriteTempForm ==
  ASSUME IInv, NEW h \in Handlers, WriteTemp(h)
  PROVE  /\ task[h].pc = "write"
         /\ \/ WriteFails(h) /\ temps' = temps
            \/ \E s \in Stamps : \E n :
                 /\ temps' = [temps EXCEPT ![s] = task[h].work] /\ Set(h, n)
                 /\ Kept(n, task[h]) /\ n.pc = "rename" /\ n.stamp = s
                 /\ n.work = task[h].work
                 /\ n.refresh = task[h].refresh /\ n.adding = task[h].adding
<1> DEFINE t == task[h]
<1>1. t \in Task /\ t.pc = "write"
  BY Typed DEF WriteTemp, At
<1>2. CASE \E s \in Stamps : /\ temps' = [temps EXCEPT ![s] = t.work]
                            /\ Set(h, [t EXCEPT !.pc = "rename", !.stamp = s])
  <2>1. PICK s \in Stamps : /\ temps' = [temps EXCEPT ![s] = t.work]
                           /\ Set(h, [t EXCEPT !.pc = "rename", !.stamp = s])
    BY <1>2
  <2> DEFINE n == [t EXCEPT !.pc = "rename", !.stamp = s]
  <2>2. /\ Kept(n, t) /\ n.pc = "rename" /\ n.stamp = s /\ n.work = t.work
        /\ n.refresh = t.refresh /\ n.adding = t.adding
    BY <1>1 DEF Kept, Task
  <2>3. Set(h, n)
    BY <2>1
  <2> HIDE DEF n
  <2> QED BY <1>1, <2>1, <2>2, <2>3
<1> QED BY <1>1, <1>2 DEF WriteTemp

-----------------------------------------------------------------------------
(* Directories                                                              *)

\* A handler's copy has no directory twice, and what it is about to add is
\* one project whose identifier and directory are free in that copy.
Spread(t) ==
  /\ UniquePathsIn(t.work)
  /\ \A c \in t.adding : Matches(t, c) = {}
  /\ \A c, d \in t.adding : c = d

Spaced ==
  /\ UniquePathsIn(file)
  /\ \A s \in Stamps : temps[s] # NoFile => UniquePathsIn(temps[s])
  /\ \A h \in Handlers : Spread(task[h])

LEMMA IdleSpread == Spread(IdleTask)
<1>1. \A p \in Ids : Empty[p] = NoProject
  BY DEF Empty
<1> QED BY <1>1, IdleForm DEF Spread, UniquePathsIn, Present

\* A handler that leaves its copy alone and adds nothing more.
LEMMA SpreadKept ==
  ASSUME NEW t, NEW n, Spread(t), n.work = t.work, n.adding \subseteq t.adding
  PROVE  Spread(n)
BY DEF Spread, Matches

LEMMA SpreadAbandoned ==
  ASSUME NEW t \in Task, Spread(t)
  PROVE  Spread(Abandon(t))
<1>1. CASE Abandon(t) = IdleTask
  BY <1>1, IdleSpread
<1>2. CASE Abandon(t).work = t.work /\ Abandon(t).adding = t.adding
  BY <1>2, SpreadKept
<1> QED BY <1>1, <1>2, AbandonForm

LEMMA SpreadFinished ==
  ASSUME NEW t \in Task, Spread(t), Candidates = {}
  PROVE  Spread(Finished(t))
<1>1. CASE Finished(t) = IdleTask
  BY <1>1, IdleSpread
<1>2. CASE Finished(t).work = t.work /\ Finished(t).adding = {}
  BY <1>2, SpreadKept
<1> QED BY <1>1, <1>2, FinishedForm

LEMMA SpreadStep ==
  ASSUME IInv, Spaced, UNCHANGED disk, NEW h \in Handlers, NEW n, Spread(n), Set(h, n)
  PROVE  Spaced'
<1>1. task'[h] = n /\ \A g \in Handlers : g # h => task'[g] = task[g]
  BY SettingTask
<1>2. \A g \in Handlers : Spread(task'[g])
  BY <1>1 DEF Spaced
<1>3. file' = file /\ temps' = temps
  BY DEF disk
<1> QED BY <1>2, <1>3 DEF Spaced

LEMMA SpreadFails ==
  ASSUME IInv, Spaced, UNCHANGED disk, NEW h \in Handlers, WriteFails(h)
  PROVE  Spaced'
<1>1. task[h] \in Task /\ Spread(task[h])
  BY Typed DEF Spaced
<1>2. CASE Set(h, Abandon(task[h]))
  BY <1>1, <1>2, SpreadAbandoned, SpreadStep
<1>3. ASSUME NEW n, Set(h, n), n.work = task[h].work, n.adding = task[h].adding
      PROVE  Spaced'
  BY <1>1, <1>3, SpreadKept, SpreadStep
<1> QED BY <1>2, <1>3, WriteFailsForm

\* Requests check the copy they start from.
LEMMA RequestsSpread ==
  ASSUME IInv, Spaced, NEW h \in Handlers, Request(h)
  PROVE  Spaced'
<1>1. UniquePathsIn(file) /\ UNCHANGED disk
  BY DEF Spaced, Request, List, Get, Create, Update, Delete
<1>2. ASSUME NEW n, n.work = file, n.adding = {} PROVE Spread(n)
  BY <1>1, <1>2 DEF Spread
<1>3. CASE List(h)
  BY <1>1, <1>2, <1>3, ListForm, SpreadStep
<1>4. ASSUME NEW p \in Ids, Get(h, p) PROVE Spaced'
  BY <1>1, <1>2, <1>4, GetForm, SpreadStep
<1>5. ASSUME NEW p \in Ids, Delete(h, p) PROVE Spaced'
  <2>1. PICK n : /\ Set(h, n) /\ n.pc = "deactivate" /\ n.op = "delete" /\ n.id = p
                 /\ n.work = [file EXCEPT ![p] = NoProject] /\ n.adding = {}
                 /\ n.refresh = {} /\ n.undo = {} /\ n.failed = {} /\ n.own = {}
    BY <1>5, DeleteForm
  <2>2. \A q \in Ids : n.work[q] = IF q = p THEN NoProject ELSE file[q]
    BY <2>1 DEF IInv, DiskOK, Registry
  <2>3. UniquePathsIn(n.work)
    BY <1>1, <2>2 DEF UniquePathsIn, Present
  <2>4. Spread(n)
    BY <2>1, <2>3 DEF Spread
  <2> QED BY <1>1, <2>1, <2>4, SpreadStep
<1>6. ASSUME NEW c \in Candidate, Create(h, c) PROVE Spaced'
  <2>1. PICK n : Set(h, n) /\ n.work = file /\ n.adding = {c}
    BY <1>6, CreateForm
  <2>2. file[c.id] = NoProject /\ ~PathTaken(file, c.path, Ids)
    BY <1>6 DEF Create
  <2>3. Matches(n, c) = {}
    BY <2>1, <2>2 DEF Matches, Present, PathTaken
  <2>4. Spread(n)
    BY <1>1, <2>1, <2>3 DEF Spread
  <2> QED BY <1>1, <2>1, <2>4, SpreadStep
<1>7. ASSUME NEW c \in Candidate, Update(h, c) PROVE Spaced'
  <2>1. PICK n, next :
           /\ next = [path |-> c.path, class |-> c.class,
                      binding |-> BindingToKeep(file[c.id], c.class)]
           /\ Set(h, n) /\ n.pc = "ensureScope" /\ n.op = "update" /\ n.id = c.id
           /\ n.work = [file EXCEPT ![c.id] = next] /\ n.adding = {}
           /\ n.refresh = {c.id} /\ n.undo = {} /\ n.failed = {} /\ n.own = {} /\ n.dirty = TRUE
    BY <1>7, UpdateForm
  <2>2. /\ file[c.id] # NoProject
        /\ c.path # file[c.id].path => ~PathTaken(file, c.path, Ids \ {c.id})
    BY <1>7 DEF Update
  <2>3. next.path = c.path
    BY <2>1
  <2>4. \A q \in Ids : n.work[q] = IF q = c.id THEN next ELSE file[q]
    BY <2>1 DEF IInv, DiskOK, Registry
  <2>5. c.id \in Ids
    BY DEF Candidate
  <2>6. UniquePathsIn(n.work)
    <3>1. \A q \in Ids \ {c.id} : file[q] # NoProject => file[q].path # c.path
      <4>1. CASE c.path = file[c.id].path
        BY <1>1, <2>2, <2>5, <4>1 DEF UniquePathsIn, Present
      <4>2. CASE c.path # file[c.id].path
        BY <2>2, <4>2 DEF PathTaken
      <4> QED BY <4>1, <4>2
    <3> QED BY <1>1, <2>3, <2>4, <3>1 DEF UniquePathsIn, Present
  <2>7. Spread(n)
    BY <2>1, <2>6 DEF Spread
  <2> QED BY <1>1, <2>1, <2>7, SpreadStep
<1> QED BY <1>3, <1>4, <1>5, <1>6, <1>7 DEF Request

LEMMA StepsSpread ==
  ASSUME IInv, Spaced, Candidates = {}, NEW h \in Handlers, Step(h)
  PROVE  Spaced'
<1> DEFINE t == task[h]
<1>1. /\ t \in Task /\ Spread(t) /\ t.work \in Registry
      /\ file' = file /\ temps' = temps => UNCHANGED disk
  BY Typed DEF Spaced, Task, disk
<1>2. Spread(IdleTask)
  BY IdleSpread
<1>3. CASE EnsureScope(h)
  <2>1. UNCHANGED disk
    BY <1>3 DEF EnsureScope
  <2>2. Set(h, IdleTask) \/ \E n : Set(h, n) /\ n.work = t.work /\ n.adding = t.adding
    BY <1>3, EnsureScopeForm
  <2> HIDE DEF t
  <2> QED BY <1>1, <1>2, <2>1, <2>2, SpreadKept, SpreadStep
<1>4. CASE EnsureBinding(h)
  <2>1. UNCHANGED disk
    BY <1>4 DEF EnsureBinding
  <2>2. PICK p : p = First(t.refresh)
    OBVIOUS
  <2>3. /\ p \in t.refresh /\ p \in Ids
        /\ \/ BindingFails(p, t.work[p].class) /\ Set(h, IdleTask)
           \/ \E n : /\ BindingRegistered(p, t.work[p].class) /\ Set(h, n)
                     /\ BoundTask(n, t, p)
    BY <1>4, <2>2, EnsureBindingForm
  <2>4. p \in Ids /\ t.work[p] # NoProject
    BY <1>4, <2>3, Typed DEF EnsureBinding, At, Staged
  <2> HIDE DEF t
  <2>5. ASSUME NEW n, Set(h, n), n.adding = t.adding,
               n.work = [t.work EXCEPT ![p] = [t.work[p] EXCEPT !.binding = t.work[p].class]]
        PROVE  Spaced'
    <3>1. \A q \in Ids : /\ n.work[q] = NoProject <=> t.work[q] = NoProject
                         /\ t.work[q] # NoProject => n.work[q].path = t.work[q].path
      <4> DEFINE entry == [t.work[p] EXCEPT !.binding = t.work[p].class]
      <4>1. t.work[p] \in Entry
        BY <1>1, <2>4 DEF Registry
      <4>2. entry.path = t.work[p].path /\ entry \in Entry
        BY <4>1 DEF Entry
      <4>3. entry # NoProject
        BY <4>2, RegistryConstants
      <4>4. \A q \in Ids : n.work[q] = IF q = p THEN entry ELSE t.work[q]
        BY <1>1, <2>4, <2>5 DEF Registry
      <4> HIDE DEF entry
      <4> QED BY <2>4, <4>2, <4>3, <4>4
    <3>2. Spread(n)
      BY <1>1, <2>5, <3>1 DEF Spread, UniquePathsIn, Present, Matches
    <3> QED BY <2>1, <2>5, <3>2, SpreadStep
  <2> QED BY <1>2, <2>1, <2>3, <2>5, SpreadStep DEF BoundTask
<1>5. CASE EnsureDone(h) \/ AddDone(h)
  <2>1. UNCHANGED disk /\ Set(h, AfterLoop(t))
    BY <1>5 DEF EnsureDone, AddDone
  <2> HIDE DEF t
  <2>2. CASE AfterLoop(t) = Finished(t)
    BY <1>1, <2>1, <2>2, SpreadFinished, SpreadStep
  <2>3. CASE AfterLoop(t).work = t.work /\ AfterLoop(t).adding = t.adding
    BY <1>1, <2>1, <2>3, SpreadKept, SpreadStep
  <2> QED BY <1>1, <2>2, <2>3, AfterLoopForm
<1>6. ~AdoptCandidate(h)
  <2>1. SUFFICES ASSUME AdoptCandidate(h) PROVE FALSE
    OBVIOUS
  <2>2. \E p : p \in Matches(t, First(t.adding))
    BY <2>1, AdoptForm
  <2>3. First(t.adding) \in t.adding
    BY <2>1, AdoptForm
  <2> QED BY <1>1, <2>2, <2>3 DEF Spread
<1>7. CASE AddScope(h)
  <2>1. UNCHANGED disk
    BY <1>7 DEF AddScope
  <2>2. \/ Set(h, Abandon(t))
        \/ \E n : Set(h, n) /\ n.work = t.work /\ n.adding = t.adding
    BY <1>7, AddScopeForm
  <2> HIDE DEF t
  <2> QED BY <1>1, <2>1, <2>2, SpreadAbandoned, SpreadKept, SpreadStep
<1>8. CASE AddBinding(h)
  <2>1. UNCHANGED disk
    BY <1>8 DEF AddBinding
  <2>2. PICK c : c = First(t.adding)
    OBVIOUS
  <2>3. /\ c \in t.adding /\ c \in Candidate
        /\ \/ \E n : Set(h, n) /\ n.work = t.work /\ n.adding = t.adding
           \/ \E n : /\ Set(h, n) /\ n.adding = t.adding \ {c}
                     /\ n.work = [t.work EXCEPT ![c.id] =
                                    [path |-> c.path, class |-> c.class, binding |-> c.class]]
    BY <1>8, <2>2, AddBindingForm
  <2> HIDE DEF t
  <2>4. ASSUME NEW n, Set(h, n), n.work = t.work, n.adding = t.adding
        PROVE  Spaced'
    BY <1>1, <2>1, <2>4, SpreadKept, SpreadStep
  <2>5. ASSUME NEW n, Set(h, n), n.adding = t.adding \ {c},
               n.work = [t.work EXCEPT ![c.id] =
                           [path |-> c.path, class |-> c.class, binding |-> c.class]]
        PROVE  Spaced'
    <3> DEFINE entry == [path |-> c.path, class |-> c.class, binding |-> c.class]
    <3>1. c.id \in Ids /\ entry.path = c.path
      BY <2>3 DEF Candidate
    <3> HIDE DEF entry
    <3>2. \A q \in Ids : n.work[q] = IF q = c.id THEN entry ELSE t.work[q]
      BY <1>1, <2>5, <3>1 DEF Registry, entry
    <3>3. \A q \in Ids : t.work[q] # NoProject => q # c.id /\ t.work[q].path # c.path
      BY <1>1, <2>3 DEF Spread, Matches, Present
    <3>4. UniquePathsIn(n.work)
      BY <1>1, <3>1, <3>2, <3>3 DEF Spread, UniquePathsIn, Present
    <3>5. n.adding = {}
      BY <1>1, <2>3, <2>5 DEF Spread
    <3>6. Spread(n)
      BY <3>4, <3>5 DEF Spread
    <3> QED BY <2>1, <2>5, <3>6, SpreadStep
  <2> QED BY <2>3, <2>4, <2>5
<1>9. CASE Rollback(h)
  <2>1. UNCHANGED disk
    BY <1>9 DEF Rollback
  <2>2. \E n : Set(h, n) /\ n.work = t.work /\ n.adding = t.adding
    BY <1>9, RollbackForm
  <2> HIDE DEF t
  <2> QED BY <1>1, <2>1, <2>2, SpreadKept, SpreadStep
<1>14. CASE UndoOwn(h)
  <2>1. UNCHANGED disk
    BY <1>14 DEF UndoOwn
  <2>2. \E o \in Task : Set(h, Abandon(o)) /\ o.work = t.work /\ o.adding = t.adding
    BY <1>14, UndoOwnForm
  <2> HIDE DEF t
  <2>3. ASSUME NEW o \in Task, Set(h, Abandon(o)), o.work = t.work, o.adding = t.adding
        PROVE  Spaced'
    BY <1>1, <2>1, <2>3, SpreadKept, SpreadAbandoned, SpreadStep
  <2> QED BY <2>2, <2>3
<1>10. CASE RollbackDone(h) \/ Reactivate(h)
  BY <1>2, <1>10, SpreadStep DEF RollbackDone, Reactivate, Reply
<1>11. CASE Deactivate(h)
  <2>1. UNCHANGED disk
    BY <1>11 DEF Deactivate
  <2>2. Set(h, IdleTask) \/ \E n : Set(h, n) /\ n.work = t.work /\ n.adding = t.adding
    BY <1>11, DeactivateForm
  <2> HIDE DEF t
  <2> QED BY <1>1, <1>2, <2>1, <2>2, SpreadKept, SpreadStep
<1>12. CASE WriteTemp(h)
  <2>1. file' = file
    BY <1>12 DEF WriteTemp
  <2>2. CASE WriteFails(h) /\ temps' = temps
    BY <2>1, <2>2, SpreadFails DEF disk
  <2>3. ASSUME NEW s \in Stamps, NEW n, temps' = [temps EXCEPT ![s] = t.work], Set(h, n),
               n.work = t.work, n.adding = t.adding
        PROVE  Spaced'
    <3> HIDE DEF t
    <3>1. Spread(n) /\ UniquePathsIn(t.work)
      BY <1>1, <2>3, SpreadKept DEF Spread
    <3>2. task'[h] = n /\ \A g \in Handlers : g # h => task'[g] = task[g]
      BY <2>3, SettingTask
    <3>3. \A g \in Handlers : Spread(task'[g])
      BY <3>1, <3>2 DEF Spaced
    <3>4. \A r \in Stamps : temps'[r] # NoFile => UniquePathsIn(temps'[r])
      BY <2>3, <3>1 DEF Spaced, IInv, DiskOK
    <3> QED BY <2>1, <3>3, <3>4 DEF Spaced
  <2> QED BY <1>12, <2>2, <2>3, WriteTempForm
<1>13. CASE Rename(h)
  <2>1. CASE WriteFails(h) /\ UNCHANGED disk
    BY <2>1, SpreadFails
  <2>2. CASE /\ temps[t.stamp] # NoFile
             /\ file' = temps[t.stamp]
             /\ temps' = [temps EXCEPT ![t.stamp] = NoFile]
             /\ Set(h, Finished(t))
    <3>1. t.stamp \in Stamps
      BY <1>13, Typed DEF Rename, At, Staged
    <3>2. UniquePathsIn(file') /\ Spread(Finished(t))
      BY <1>1, <2>2, <3>1, SpreadFinished DEF Spaced
    <3>3. /\ task'[h] = Finished(t)
          /\ \A g \in Handlers : g # h => task'[g] = task[g]
      BY <2>2, SettingTask
    <3>4. \A g \in Handlers : Spread(task'[g])
      BY <3>2, <3>3 DEF Spaced
    <3>5. \A r \in Stamps : temps'[r] # NoFile => UniquePathsIn(temps'[r])
      BY <2>2, <3>1 DEF Spaced, IInv, DiskOK
    <3> QED BY <3>2, <3>4, <3>5 DEF Spaced
  <2> QED BY <1>13, <2>1, <2>2 DEF Rename
<1> QED
  BY <1>3, <1>4, <1>5, <1>6, <1>7, <1>8, <1>9, <1>10, <1>11, <1>12, <1>13, <1>14 DEF Step

LEMMA NextSpaced ==
  ASSUME IInv, Spaced, Candidates = {}, [Next]_vars
  PROVE  Spaced'
<1>1. CASE Crash
  <2>1. /\ file' = file /\ task' = [h \in Handlers |-> IdleTask]
        /\ temps' = [s \in Stamps |-> NoFile]
    BY <1>1 DEF Crash
  <2> QED BY <2>1, IdleSpread DEF Spaced
<1>2. CASE UNCHANGED <<file, temps, task>>
  BY <1>2 DEF Spaced
<1> QED BY <1>1, <1>2, RequestsSpread, StepsSpread DEF Next, LateScope, disk, vars

\* Without auto-discovery no two listed projects ever share a directory:
\* however requests interleave, lose each other's update or install each
\* other's temporary file, what they write was checked as a whole.
THEOREM DirectoriesStayApart == Spec => [](Candidates = {} => UniquePaths)
<1>1. Init => Spaced
  BY IdleSpread DEF Init, Spaced
<1>2. IInv /\ (Candidates = {} => Spaced) /\ [Next]_vars => (Candidates = {} => Spaced)'
  BY NextSpaced
<1>3. (Candidates = {} => Spaced) => (Candidates = {} => UniquePaths)
  BY DEF Spaced, UniquePaths
<1> QED BY <1>1, <1>2, <1>3, RegistryInvariant, PTL DEF Spec

-----------------------------------------------------------------------------
(* One request at a time                                                    *)

\* Requests do not overlap, no call is left in flight and the process does
\* not stop.
Serial == (\E h : Handlers = {h}) /\ Faults \cap {"timeout", "crash"} = {}

Refreshing == {"list", "get", "update"}
Adding == {"discover", "create"}
Working == {"ensureScope", "ensureBinding", "addScope", "addBinding", "write", "rename"}

Held(entry) == entry # NoProject /\ entry.binding # Unbound

\* Projects the caller was told to reconcile, by name or not.
Told == flagged \cup unnamed

\* Which operation is in which phase, and where scopes are to be undone.
Phased(t) ==
  /\ t.pc = "idle" => t = IdleTask
  /\ t.pc # "idle" => t.op \in Refreshing \cup Adding \cup {"delete"}
  /\ t.op \notin Adding => t.undo = {}
  /\ t.pc # "rollback" => t.failed = {} /\ t.own = {}
  /\ t.pc \in {"ensureScope", "ensureBinding"} => t.op \in Refreshing
  /\ t.pc \in {"addScope", "addBinding", "undoOwn", "rollback"} => t.op \in Adding
  /\ t.pc \in {"addScope", "addBinding"} /\ t.undo # {} => t.dirty

\* What a handler's copy has in common with the stored list, of which no
\* other handler makes another one.
Keeping(t, list, on) ==
  /\ t.pc \in Working /\ t.op # "delete" => \A p \in Ids :
       /\ list[p] # NoProject => t.work[p] # NoProject
       /\ t.work[p] # NoProject => list[p] # NoProject \/ p \in t.undo
       /\ Held(t.work[p]) => Held(list[p]) \/ p \in on
       /\ p \in t.undo => t.work[p] # NoProject /\ p \in on
  /\ t.op = "delete" =>
       /\ list[t.id] # NoProject
       /\ t.work = [list EXCEPT ![t.id] = NoProject]
       /\ t.pc \in {"write", "rename"} => t.id \notin on

\* The scopes that a handler has opened for projects that are not stored.
Opened(t) ==
  t.undo \cup t.failed \cup t.own
    \cup {c.id : c \in {d \in t.adding :
                          t.pc \in {"addBinding", "undoOwn"} /\ d = First(t.adding)}}

\* Stored list and scopes agree, but for what the handler is about to settle.
Agreeing(t, list, on, told) ==
  /\ \A p \in on \ told : list[p] # NoProject \/ p \in Opened(t)
  /\ \A p \in Ids \ told :
       Held(list[p]) => p \in on \/ (t.op = "delete" /\ t.id = p /\ t.pc # "deactivate")
  /\ \A p \in t.undo : list[p] = NoProject
  /\ t.pc = "ensureBinding" => First(t.refresh) \in on
  /\ t.pc = "addBinding" => First(t.adding).id \in on /\ Matches(t, First(t.adding)) = {}
  /\ t.pc = "undoOwn" => list[First(t.adding).id] = NoProject

Alone(t, list, on, told) ==
  Phased(t) /\ Keeping(t, list, on) /\ Agreeing(t, list, on, told)

InOrder ==
  /\ inflight = {}
  /\ \A h \in Handlers :
       /\ Alone(task[h], file, scopes, Told)
       /\ task[h].pc = "rename" => temps[task[h].stamp] = task[h].work

\* Nothing is left to settle.
Level(list, on, told) ==
  /\ \A p \in on \ told : list[p] # NoProject
  /\ \A p \in Ids \ told : Held(list[p]) => p \in on

LEMMA IdleAlone ==
  ASSUME NEW list, NEW on, NEW told, Level(list, on, told)
  PROVE  Alone(IdleTask, list, on, told)
<1>1. Phased(IdleTask)
  BY IdleForm DEF Phased
<1>2. Keeping(IdleTask, list, on)
  BY IdleForm DEF Keeping, Working
<1>3. Agreeing(IdleTask, list, on, told)
  BY IdleForm DEF Agreeing, Level
<1> QED BY <1>1, <1>2, <1>3 DEF Alone

\* A handler that has nothing to settle leaves things level when it answers.
LEMMA AloneLevel ==
  ASSUME NEW t, NEW list, NEW on, NEW told, Alone(t, list, on, told),
         t.pc \notin {"addBinding", "undoOwn", "rollback"}, t.undo = {},
         t.op # "delete" \/ t.pc = "deactivate"
  PROVE  Level(list, on, told)
BY DEF Alone, Phased, Agreeing, Opened, Level

\* A handler sets out, or goes on to auto-discovery, with a copy of the list.
LEMMA BeginAlone ==
  ASSUME NEW n, NEW list, NEW on, NEW told, Level(list, on, told),
         \/ n.pc = "ensureScope" /\ n.op \in Refreshing
         \/ n.pc = "addScope" /\ n.op \in Adding,
         n.undo = {}, n.failed = {}, n.own = {},
         \A p \in Ids : /\ n.work[p] # NoProject <=> list[p] # NoProject
                        /\ Held(n.work[p]) => Held(list[p]) \/ p \in on
  PROVE  Alone(n, list, on, told)
<1>1. Phased(n)
  BY DEF Phased, Refreshing, Adding
<1>2. n.op # "delete"
  BY DEF Refreshing, Adding
<1>3. Keeping(n, list, on)
  BY <1>2 DEF Keeping
<1>4. Agreeing(n, list, on, told)
  BY DEF Agreeing, Level
<1> QED BY <1>1, <1>3, <1>4 DEF Alone

LEMMA AbandonAlone ==
  ASSUME NEW t \in Task, NEW list, NEW on, NEW told,
         t.op \in Adding \/ t.undo \cup t.own = {}, t.failed = {},
         \A p \in on \ told : list[p] # NoProject \/ p \in t.undo \cup t.own,
         \A p \in Ids \ told : Held(list[p]) => p \in on,
         \A p \in t.undo : list[p] = NoProject
  PROVE  Alone(Abandon(t), list, on, told)
<1> DEFINE n == Abandon(t)
<1>1. CASE t.undo \cup t.own = {} /\ n = IdleTask
  <2>1. Level(list, on, told)
    BY <1>1 DEF Level
  <2> QED BY <1>1, <2>1, IdleAlone
<1>2. CASE n.pc = "rollback" /\ Kept(n, t) /\ t.undo \cup t.own # {}
  <2>1. /\ n.op \in Adding /\ n.op # "delete" /\ n.undo = t.undo /\ n.failed = {}
        /\ n.own = t.own
    BY <1>2 DEF Kept, Adding
  <2> HIDE DEF n
  <2>2. Phased(n)
    BY <1>2, <2>1 DEF Phased
  <2>3. Keeping(n, list, on)
    BY <1>2, <2>1 DEF Keeping, Working
  <2>4. Agreeing(n, list, on, told)
    BY <1>2, <2>1 DEF Agreeing, Opened
  <2> QED BY <2>2, <2>3, <2>4 DEF Alone, n
<1> QED BY <1>1, <1>2, AbandonForm

\* A commit leaves things level.
LEMMA CommitLevel ==
  ASSUME NEW t, NEW list \in Registry, NEW on \in SUBSET Ids, NEW told,
         Alone(t, list, on, told), t.pc = "rename", t.op = "delete" => t.id \in Ids
  PROVE  Level(t.work, on, told)
<1>1. Opened(t) = t.undo
  BY DEF Alone, Phased, Opened
<1>2. CASE t.op # "delete"
  BY <1>1, <1>2 DEF Alone, Keeping, Agreeing, Level, Working
<1>3. CASE t.op = "delete"
  <2>1. t.work = [list EXCEPT ![t.id] = NoProject] /\ t.id \notin on /\ t.undo = {}
    BY <1>3 DEF Alone, Keeping, Phased, Adding
  <2>2. \A p \in Ids : t.work[p] = IF p = t.id THEN NoProject ELSE list[p]
    BY <2>1 DEF Registry
  <2> QED BY <1>1, <1>3, <2>1, <2>2 DEF Alone, Agreeing, Level, Held
<1> QED BY <1>2, <1>3

\* What central calls do when none times out.
LEMMA SerialCalls ==
  ASSUME Serial, InOrder, NEW p, NEW on \in BOOLEAN, NEW class
  PROVE  /\ ScopeSet(p, on) =>
              /\ scopes' = IF on THEN scopes \cup {p} ELSE scopes \ {p}
              /\ Told' = Told \ {p} /\ inflight' = {}
         /\ ScopeFails(p, on) => scopes' = scopes /\ Told' = Told /\ inflight' = {}
         /\ ScopeThrows(p, on) => scopes' = scopes /\ inflight' = {}
         /\ BindingRegistered(p, class) \/ BindingFails(p, class) =>
              scopes' = scopes /\ Told' = Told /\ inflight' = {}
<1>1. "timeout" \notin Faults /\ inflight = {}
  BY DEF Serial, InOrder
<1> QED
  BY <1>1 DEF ScopeSet, ScopeFails, ScopeThrows, BindingRegistered, BindingFails, reports,
     Told

LEMMA AloneStep ==
  ASSUME IInv, Serial, NEW h \in Handlers, NEW n, Set(h, n), inflight' = {},
         Alone(n, file', scopes', Told'),
         n.pc = "rename" => temps'[n.stamp] = n.work
  PROVE  InOrder'
<1>1. \A g \in Handlers : g = h
  BY DEF Serial
<1>2. task'[h] = n
  BY SettingTask
<1>3. \A g \in Handlers : Alone(task[g], file, scopes, Told)'
  BY <1>1, <1>2
<1>4. \A g \in Handlers : task'[g].pc = "rename" => temps'[task'[g].stamp] = task'[g].work
  BY <1>1, <1>2
<1> QED BY <1>3, <1>4 DEF InOrder

LEMMA AloneIdle ==
  ASSUME IInv, Serial, NEW h \in Handlers, Set(h, IdleTask), inflight' = {},
         Level(file', scopes', Told')
  PROVE  InOrder'
BY AloneStep, IdleAlone, IdleForm

LEMMA SerialRequests ==
  ASSUME IInv, Serial, InOrder, NEW h \in Handlers, Request(h)
  PROVE  InOrder'
<1>1. /\ task[h].pc = "idle" /\ UNCHANGED <<disk, central>>
  BY DEF Request, List, Get, Create, Update, Delete, At
<1>2. /\ inflight' = {} /\ file' = file /\ scopes' = scopes /\ Told' = Told
  BY <1>1 DEF central, disk, InOrder, Told
<1>3. Level(file, scopes, Told)
  <2>1. Alone(task[h], file, scopes, Told) /\ task[h] = IdleTask
    BY <1>1 DEF InOrder, Alone, Phased
  <2> QED BY <2>1, IdleForm, AloneLevel
<1>4. ASSUME NEW n, Set(h, n),
             \/ n.pc = "ensureScope" /\ n.op \in Refreshing
             \/ n.pc = "addScope" /\ n.op \in Adding,
             n.work = file, n.undo = {}, n.failed = {}, n.own = {}
      PROVE  InOrder'
  <2>1. Alone(n, file, scopes, Told)
    BY <1>3, <1>4, BeginAlone
  <2> QED BY <1>2, <1>4, <2>1, AloneStep
<1>5. CASE List(h)
  BY <1>4, <1>5, ListForm DEF Refreshing
<1>6. ASSUME NEW p \in Ids, Get(h, p) PROVE InOrder'
  BY <1>4, <1>6, GetForm DEF Refreshing
<1>7. ASSUME NEW c \in Candidate, Create(h, c) PROVE InOrder'
  BY <1>4, <1>7, CreateForm DEF Adding
<1>8. ASSUME NEW p \in Ids, Delete(h, p) PROVE InOrder'
  <2>1. PICK n : /\ Set(h, n) /\ n.pc = "deactivate" /\ n.op = "delete" /\ n.id = p
                 /\ n.work = [file EXCEPT ![p] = NoProject] /\ n.adding = {}
                 /\ n.refresh = {} /\ n.undo = {} /\ n.failed = {} /\ n.own = {}
    BY <1>8, DeleteForm
  <2>2. file[p] # NoProject
    BY <1>8 DEF Delete
  <2>3. Phased(n)
    BY <2>1 DEF Phased, Adding
  <2>4. Keeping(n, file, scopes)
    BY <2>1, <2>2 DEF Keeping
  <2>5. Agreeing(n, file, scopes, Told)
    BY <1>3, <2>1 DEF Agreeing, Level
  <2> QED BY <1>2, <2>1, <2>3, <2>4, <2>5, AloneStep DEF Alone
<1>9. ASSUME NEW c \in Candidate, Update(h, c) PROVE InOrder'
  <2>1. PICK n, next :
           /\ next = [path |-> c.path, class |-> c.class,
                      binding |-> BindingToKeep(file[c.id], c.class)]
           /\ Set(h, n) /\ n.pc = "ensureScope" /\ n.op = "update" /\ n.id = c.id
           /\ n.work = [file EXCEPT ![c.id] = next] /\ n.adding = {}
           /\ n.refresh = {c.id} /\ n.undo = {} /\ n.failed = {} /\ n.own = {} /\ n.dirty = TRUE
    BY <1>9, UpdateForm
  <2>2. /\ file[c.id] # NoProject /\ c.id \in Ids /\ file \in Registry
        /\ c.path \in Paths /\ c.class \in Classes
    BY <1>9 DEF Update, Candidate, IInv, DiskOK
  <2>3. next # NoProject
    <3>1. file[c.id] \in Entry
      BY <2>2 DEF Registry
    <3>2. next \in Entry
      BY <2>1, <2>2, <3>1 DEF Entry, BindingToKeep
    <3> QED BY <3>2, RegistryConstants
  <2>4. Held(next) => Held(file[c.id])
    BY <2>1, <2>2 DEF Held, BindingToKeep
  <2>5. \A q \in Ids : n.work[q] = IF q = c.id THEN next ELSE file[q]
    BY <2>1, <2>2 DEF Registry
  <2>6. n.op \in Refreshing
    BY <2>1 DEF Refreshing
  <2>7. \A q \in Ids : /\ n.work[q] # NoProject <=> file[q] # NoProject
                       /\ Held(n.work[q]) => Held(file[q])
    BY <2>2, <2>3, <2>4, <2>5
  <2>8. Alone(n, file, scopes, Told)
    BY <1>3, <2>1, <2>6, <2>7, BeginAlone
  <2> QED BY <1>2, <2>1, <2>8, AloneStep
<1> QED BY <1>5, <1>6, <1>7, <1>8, <1>9 DEF Request

LEMMA SerialEnsures ==
  ASSUME IInv, Serial, InOrder, NEW h \in Handlers, EnsureScope(h) \/ EnsureBinding(h)
  PROVE  InOrder'
<1> DEFINE t == task[h]
<1>1. /\ t \in Task /\ Staged(t) /\ Alone(t, file, scopes, Told)
      /\ file' = file /\ temps' = temps
  BY Typed DEF InOrder, EnsureScope, EnsureBinding, disk
<1>2. PICK p : p = First(t.refresh)
  OBVIOUS
<1>3. /\ p \in t.refresh /\ p \in Ids /\ t.pc \in {"ensureScope", "ensureBinding"}
  BY <1>2, EnsureScopeForm, EnsureBindingForm
<1>4. /\ t.op \in Refreshing /\ t.op # "delete" /\ t.undo = {} /\ t.failed = {} /\ t.own = {}
      /\ t.work[p] # NoProject
  BY <1>1, <1>3 DEF Alone, Phased, Staged, Refreshing, Adding
<1>5. file[p] # NoProject
  BY <1>1, <1>3, <1>4 DEF Alone, Keeping, Working
<1>6. Level(file, scopes, Told)
  BY <1>1, <1>3, <1>4, AloneLevel
<1>7. CASE EnsureScope(h)
  <2>2. t.pc = "ensureScope"
    BY <1>7 DEF EnsureScope, At
  <2> HIDE DEF t
  <2>3. CASE ScopeFails(p, TRUE) /\ Set(h, IdleTask)
    BY <1>1, <1>6, <2>3, SerialCalls, AloneIdle
  <2>4. ASSUME NEW n, ScopeSet(p, TRUE), Set(h, n), Kept(n, t), n.work = t.work,
               \/ n.pc = "ensureBinding" /\ n.refresh = t.refresh
               \/ n.pc = "ensureScope"
        PROVE  InOrder'
    <3>1. scopes' = scopes \cup {p} /\ Told' = Told \ {p} /\ inflight' = {}
      BY <2>4, SerialCalls
    <3>2. /\ n.op = t.op /\ n.undo = {} /\ n.failed = {} /\ n.own = {} /\ n.op # "delete"
      BY <1>4, <2>4 DEF Kept
    <3>3. Phased(n)
      BY <1>1, <1>4, <2>4, <3>2 DEF Alone, Phased
    <3>4. Keeping(n, file, scopes')
      BY <1>1, <2>2, <2>4, <3>1, <3>2, <1>4 DEF Alone, Keeping, Working
    <3>5. Agreeing(n, file, scopes', Told')
      BY <1>2, <1>5, <1>6, <2>4, <3>1, <3>2 DEF Agreeing, Level
    <3> QED BY <1>1, <2>4, <3>1, <3>3, <3>4, <3>5, AloneStep DEF Alone
  <2> QED BY <1>2, <1>7, <2>3, <2>4, EnsureScopeForm DEF t
<1>8. CASE EnsureBinding(h)
  <2>1. /\ p \in t.refresh /\ p \in Ids
        /\ \/ BindingFails(p, t.work[p].class) /\ Set(h, IdleTask)
           \/ \E n : /\ BindingRegistered(p, t.work[p].class) /\ Set(h, n)
                     /\ BoundTask(n, t, p)
    BY <1>2, <1>8, EnsureBindingForm
  <2>2. t.pc = "ensureBinding"
    BY <1>8 DEF EnsureBinding, At
  <2> HIDE DEF t
  <2> DEFINE class == t.work[p].class
  <2>3. BindingRegistered(p, class) \/ BindingFails(p, class)
    BY <2>1
  <2>4. scopes' = scopes /\ Told' = Told /\ inflight' = {}
    BY <2>3, SerialCalls
  <2>5. CASE Set(h, IdleTask)
    BY <1>1, <1>6, <2>4, <2>5, AloneIdle
  <2>6. ASSUME NEW n, Set(h, n), Kept(n, t), n.pc = "ensureScope",
               n.work = [t.work EXCEPT ![p] = [t.work[p] EXCEPT !.binding = class]]
        PROVE  InOrder'
    <3> DEFINE entry == [t.work[p] EXCEPT !.binding = class]
    <3>1. t.work \in Registry /\ t.work[p] \in Entry
      BY <1>1, <1>3, <1>4 DEF Task, Registry
    <3>2. entry \in Entry /\ entry # NoProject
      BY <3>1, RegistryConstants DEF Entry
    <3> HIDE DEF entry
    <3>3. \A q \in Ids : n.work[q] = IF q = p THEN entry ELSE t.work[q]
      BY <1>3, <2>6, <3>1 DEF Registry, entry
    <3>4. /\ n.op = t.op /\ n.undo = {} /\ n.failed = {} /\ n.own = {} /\ n.op # "delete"
      BY <1>4, <2>6 DEF Kept
    <3>5. Phased(n)
      BY <1>1, <1>4, <2>6, <3>4 DEF Alone, Phased
    <3>6. p \in scopes
      BY <1>1, <1>2, <2>2 DEF Alone, Agreeing
    <3>7. Keeping(n, file, scopes)
      BY <1>1, <1>4, <1>5, <2>2, <2>6, <3>2, <3>3, <3>4, <3>6 DEF Alone, Keeping, Working
    <3>8. Agreeing(n, file, scopes, Told)
      BY <1>6, <2>6, <3>4 DEF Agreeing, Level
    <3> QED BY <1>1, <2>4, <2>6, <3>5, <3>7, <3>8, AloneStep DEF Alone
  <2> QED BY <2>1, <2>5, <2>6 DEF BoundTask
<1> QED BY <1>7, <1>8

LEMMA SerialLoops ==
  ASSUME IInv, Serial, InOrder, NEW h \in Handlers, EnsureDone(h) \/ AddDone(h)
  PROVE  InOrder'
<1> DEFINE t == task[h]
<1>1. /\ t \in Task /\ Alone(t, file, scopes, Told)
      /\ t.pc \in {"ensureScope", "addScope"} /\ Set(h, AfterLoop(t))
      /\ UNCHANGED <<disk, central>>
  BY Typed DEF InOrder, EnsureDone, AddDone, At
<1>2. /\ file' = file /\ scopes' = scopes /\ Told' = Told /\ inflight' = {}
  BY <1>1 DEF disk, central, InOrder, Told
<1>3. /\ t.op \in Refreshing \cup Adding /\ t.op # "delete" /\ t.failed = {}
      /\ t.own = {}
  BY <1>1 DEF Alone, Phased, Refreshing, Adding
<1> HIDE DEF t
<1>4. CASE ~t.dirty /\ Set(h, Finished(t))
  <2>1. t.undo = {}
    BY <1>1, <1>4 DEF Alone, Phased, Refreshing, Adding
  <2>2. Level(file, scopes, Told)
    BY <1>1, <1>3, <2>1, AloneLevel
  <2>3. CASE Set(h, IdleTask)
    BY <1>2, <2>2, <2>3, AloneIdle
  <2>4. ASSUME NEW n, Set(h, n), n.pc = "addScope", n.op = "discover",
               n.undo = t.undo, n.failed = t.failed, n.own = t.own, n.work = t.work
        PROVE  InOrder'
    <3>1. \A p \in Ids : /\ n.work[p] # NoProject <=> file[p] # NoProject
                         /\ Held(n.work[p]) => Held(file[p]) \/ p \in scopes
      BY <1>1, <1>3, <2>1, <2>4 DEF Alone, Keeping, Working
    <3>2. Alone(n, file, scopes, Told)
      BY <1>3, <2>1, <2>2, <2>4, <3>1, BeginAlone DEF Adding
    <3> QED BY <1>2, <2>4, <3>2, AloneStep
  <2> QED BY <1>1, <1>4, <2>3, <2>4, FinishedForm
<1>5. ASSUME NEW n, Set(h, n), n.pc = "write", Kept(n, t), n.work = t.work
      PROVE  InOrder'
  <2>1. /\ n.op = t.op /\ n.undo = t.undo /\ n.failed = {} /\ n.op # "delete"
        /\ n.own = {}
    BY <1>3, <1>5 DEF Kept
  <2>2. Phased(n)
    BY <1>1, <1>3, <1>5, <2>1 DEF Alone, Phased
  <2>3. Keeping(n, file, scopes)
    BY <1>1, <1>3, <1>5, <2>1 DEF Alone, Keeping, Working
  <2>4. Agreeing(n, file, scopes, Told)
    BY <1>1, <1>3, <1>5, <2>1 DEF Alone, Agreeing, Opened
  <2> QED BY <1>2, <1>5, <2>2, <2>3, <2>4, AloneStep DEF Alone
<1> QED BY <1>1, <1>4, <1>5, AfterLoopForm

\* Moving an entry to another directory leaves what binds it as it is.
LEMMA MovedEntry ==
  ASSUME NEW entry \in Entry, NEW path \in Paths
  PROVE  /\ [entry EXCEPT !.path = path] \in Entry
         /\ [entry EXCEPT !.path = path] # NoProject
         /\ [entry EXCEPT !.path = path].path = path
         /\ [entry EXCEPT !.path = path].class = entry.class
         /\ [entry EXCEPT !.path = path].binding = entry.binding
BY RegistryConstants DEF Entry

LEMMA SerialAdopts ==
  ASSUME IInv, Serial, InOrder, NEW h \in Handlers, AdoptCandidate(h)
  PROVE  InOrder'
<1> DEFINE t == task[h]
<1>1. /\ t \in Task /\ Alone(t, file, scopes, Told) /\ UNCHANGED <<disk, central>>
      /\ t.pc = "addScope" /\ t.adding # {}
  BY Typed DEF InOrder, AdoptCandidate, At
<1>2. /\ file' = file /\ scopes' = scopes /\ Told' = Told /\ inflight' = {}
  BY <1>1 DEF disk, central, InOrder, Told
<1>3. t.op \in Adding /\ t.op # "delete" /\ t.failed = {} /\ t.own = {}
  BY <1>1 DEF Alone, Phased, Adding
<1>4. PICK c : c = First(t.adding)
  OBVIOUS
<1>5. c \in Candidate /\ c.path \in Paths
  BY <1>1, <1>4, FirstIn DEF Task, Candidate
<1>6. ASSUME NEW p \in Matches(t, c), NEW n, Set(h, n), Kept(n, t), n.pc = "addScope",
             n.work = [t.work EXCEPT ![p] = [t.work[p] EXCEPT !.path = c.path]],
             t.dirty => n.dirty
      PROVE  InOrder'
  <2> DEFINE entry == [t.work[p] EXCEPT !.path = c.path]
  <2> HIDE DEF t
  <2>1. p \in Ids /\ t.work[p] # NoProject /\ t.work \in Registry /\ t.work[p] \in Entry
    BY <1>1, <1>6 DEF Matches, Present, Task, Registry
  <2>2. entry # NoProject /\ (Held(entry) => Held(t.work[p]))
    BY <1>5, <2>1, MovedEntry DEF Held
  <2> HIDE DEF entry
  <2>3. \A q \in Ids : n.work[q] = IF q = p THEN entry ELSE t.work[q]
    BY <1>6, <2>1 DEF Registry, entry
  <2>4. /\ n.op = t.op /\ n.undo = t.undo /\ n.failed = {} /\ n.op # "delete"
        /\ n.own = {}
    BY <1>3, <1>6 DEF Kept
  <2>5. Phased(n)
    BY <1>1, <1>3, <1>6, <2>4 DEF Alone, Phased
  <2>6. Keeping(n, file, scopes)
    BY <1>1, <1>3, <1>6, <2>1, <2>2, <2>3, <2>4 DEF Alone, Keeping, Working
  <2>7. Agreeing(n, file, scopes, Told)
    BY <1>1, <1>3, <1>6, <2>4 DEF Alone, Agreeing, Opened
  <2> QED BY <1>2, <1>6, <2>5, <2>6, <2>7, AloneStep DEF Alone
<1>7. \E p \in Matches(t, c) : \E n : Set(h, n) /\ AdoptTask(n, t, c, p)
  BY <1>4, AdoptForm
<1> QED BY <1>6, <1>7 DEF AdoptTask

LEMMA SerialAddScope ==
  ASSUME IInv, Serial, InOrder, NEW h \in Handlers, AddScope(h)
  PROVE  InOrder'
<1> DEFINE t == task[h]
<1>1. /\ t \in Task /\ Alone(t, file, scopes, Told) /\ file' = file
      /\ t.pc = "addScope" /\ t.adding # {}
  BY Typed DEF InOrder, AddScope, At, disk
<1>2. PICK c : c = First(t.adding)
  OBVIOUS
<1>3. c \in Candidate /\ c.id \in Ids /\ c \in t.adding /\ Matches(t, c) = {}
  BY <1>1, <1>2, FirstIn DEF Task, Candidate, AddScope
<1>4. /\ t.op \in Adding /\ t.op # "delete" /\ t.failed = {} /\ t.own = {}
      /\ Opened(t) = t.undo
  BY <1>1 DEF Alone, Phased, Adding, Opened
<1>5. CASE ScopeFails(c.id, TRUE) /\ Set(h, Abandon(t))
  <2> HIDE DEF t
  <2>1. scopes' = scopes /\ Told' = Told /\ inflight' = {}
    BY <1>5, SerialCalls
  <2>4. /\ \A p \in scopes \ Told : file[p] # NoProject \/ p \in t.undo
        /\ \A p \in Ids \ Told : Held(file[p]) => p \in scopes
        /\ \A p \in t.undo : file[p] = NoProject
    BY <1>1, <1>4 DEF Alone, Agreeing
  <2>2. Alone(Abandon(t), file, scopes, Told)
    BY <1>1, <1>4, <2>4, AbandonAlone
  <2>3. Abandon(t).pc # "rename"
    BY <1>1, AbandonForm, IdleForm
  <2> QED BY <1>1, <1>5, <2>1, <2>2, <2>3, AloneStep
<1>6. ASSUME NEW n, ScopeSet(c.id, TRUE), Set(h, n), Kept(n, t), n.pc = "addBinding",
             n.work = t.work, n.dirty = t.dirty, n.adding = t.adding
      PROVE  InOrder'
  <2> HIDE DEF t
  <2>1. scopes' = scopes \cup {c.id} /\ Told' = Told \ {c.id} /\ inflight' = {}
    BY <1>6, SerialCalls
  <2>2. /\ n.op = t.op /\ n.undo = t.undo /\ n.failed = {} /\ n.op # "delete"
        /\ n.own = {}
    BY <1>4, <1>6 DEF Kept
  <2>3. Phased(n)
    BY <1>1, <1>4, <1>6, <2>2 DEF Alone, Phased
  <2>4. Keeping(n, file, scopes')
    BY <1>1, <1>4, <1>6, <2>1, <2>2 DEF Alone, Keeping, Working
  <2>5. c.id \in Opened(n) /\ \A p \in t.undo : p \in Opened(n)
    BY <1>2, <1>3, <1>6, <2>2 DEF Opened
  <2>6. Matches(n, First(n.adding)) = {}
    BY <1>2, <1>3, <1>6 DEF Matches, Present
  <2>7. Agreeing(n, file, scopes', Told')
    BY <1>1, <1>2, <1>4, <1>6, <2>1, <2>2, <2>5, <2>6 DEF Alone, Agreeing
  <2> QED BY <1>1, <1>6, <2>1, <2>3, <2>4, <2>7, AloneStep DEF Alone
<1> QED BY <1>2, <1>5, <1>6, AddScopeForm

LEMMA SerialAddBinding ==
  ASSUME IInv, Serial, InOrder, NEW h \in Handlers, AddBinding(h)
  PROVE  InOrder'
<1> DEFINE t == task[h]
<1>1. /\ t \in Task /\ Alone(t, file, scopes, Told) /\ file' = file
      /\ t.pc = "addBinding" /\ t.adding # {}
  BY Typed DEF InOrder, AddBinding, At, disk, Staged
<1>2. PICK c : c = First(t.adding)
  OBVIOUS
<1>3. /\ c \in Candidate /\ c.id \in Ids /\ c \in t.adding
      /\ c.path \in Paths /\ c.class \in Classes
  BY <1>1, <1>2, FirstIn DEF Task, Candidate
<1>4. /\ t.op \in Adding /\ t.op # "delete" /\ t.failed = {} /\ t.own = {}
      /\ Opened(t) = t.undo \cup {c.id}
  BY <1>1, <1>2, <1>3 DEF Alone, Phased, Adding, Opened
<1>5. c.id \in scopes /\ t.work[c.id] = NoProject /\ file[c.id] = NoProject
  <2>1. c.id \in scopes /\ Matches(t, c) = {}
    BY <1>1, <1>2 DEF Alone, Agreeing
  <2>2. t.work[c.id] = NoProject
    BY <1>3, <2>1 DEF Matches, Present
  <2> QED BY <1>1, <1>3, <1>4, <2>1, <2>2 DEF Alone, Keeping, Working
<1>6. BindingRegistered(c.id, c.class) \/ BindingFails(c.id, c.class)
  BY <1>2 DEF AddBinding
<1>7. scopes' = scopes /\ Told' = Told /\ inflight' = {}
  BY <1>6, SerialCalls
<1>8. ASSUME NEW n, Set(h, n), Kept(n, t), n.pc = "undoOwn", n.work = t.work,
             n.adding = t.adding
      PROVE  InOrder'
  <2> HIDE DEF t
  <2>1. /\ n.op = t.op /\ n.undo = t.undo /\ n.failed = {} /\ n.op # "delete"
        /\ n.own = {}
    BY <1>4, <1>8 DEF Kept
  <2>2. Phased(n)
    BY <1>4, <1>8, <2>1 DEF Phased
  <2>3. Keeping(n, file, scopes)
    BY <1>8, <2>1 DEF Keeping, Working
  <2>4. c.id \in Opened(n) /\ \A p \in t.undo : p \in Opened(n)
    BY <1>2, <1>3, <1>8, <2>1 DEF Opened
  <2>5. Agreeing(n, file, scopes, Told)
    BY <1>1, <1>2, <1>4, <1>5, <1>8, <2>1, <2>4 DEF Alone, Agreeing
  <2> QED BY <1>1, <1>7, <1>8, <2>2, <2>3, <2>5, AloneStep DEF Alone
<1>9. ASSUME NEW n, Set(h, n), Opens(n, t, c.id), n.pc = "addScope", n.dirty,
             n.work = [t.work EXCEPT ![c.id] =
                         [path |-> c.path, class |-> c.class, binding |-> c.class]]
      PROVE  InOrder'
  <2> DEFINE entry == [path |-> c.path, class |-> c.class, binding |-> c.class]
  <2> HIDE DEF t
  <2>1. entry # NoProject
    <3>1. entry \in Entry
      BY <1>3 DEF Entry
    <3> QED BY <3>1, RegistryConstants
  <2> HIDE DEF entry
  <2>2. \A q \in Ids : n.work[q] = IF q = c.id THEN entry ELSE t.work[q]
    BY <1>1, <1>3, <1>9 DEF Registry, Task, entry
  <2>3. /\ n.op = t.op /\ n.undo = t.undo \cup {c.id} /\ n.failed = {} /\ n.op # "delete"
        /\ n.own = {}
    BY <1>4, <1>9 DEF Opens
  <2>4. Phased(n)
    BY <1>4, <1>9, <2>3 DEF Phased
  <2>5. Keeping(n, file, scopes)
    BY <1>1, <1>4, <1>5, <1>9, <2>1, <2>2, <2>3 DEF Alone, Keeping, Working
  <2>6. Agreeing(n, file, scopes, Told)
    BY <1>1, <1>4, <1>5, <1>9, <2>3 DEF Alone, Agreeing, Opened
  <2> QED BY <1>1, <1>7, <1>9, <2>4, <2>5, <2>6, AloneStep DEF Alone
<1> QED BY <1>2, <1>8, <1>9, AddBindingForm

LEMMA SerialUndoOwn ==
  ASSUME IInv, Serial, InOrder, NEW h \in Handlers, UndoOwn(h)
  PROVE  InOrder'
<1> DEFINE t == task[h]
<1>1. /\ t \in Task /\ Alone(t, file, scopes, Told) /\ file' = file
      /\ t.pc = "undoOwn" /\ t.adding # {}
  BY Typed DEF InOrder, UndoOwn, At, disk, Staged
<1>2. PICK p : p = First(t.adding).id
  OBVIOUS
<1>3. /\ p \in Ids
      /\ \E o \in Task : /\ Set(h, Abandon(o)) /\ o.op = t.op
                         /\ o.undo = t.undo /\ o.failed = t.failed
                         /\ \/ ScopeSet(p, FALSE) /\ o.own = t.own
                            \/ ScopeFails(p, FALSE) /\ o.own = {p}
  BY <1>2, UndoOwnForm
<1>4. /\ t.op \in Adding /\ t.failed = {} /\ t.own = {}
      /\ \A q \in Opened(t) : q \in t.undo \/ q = p
      /\ file[p] = NoProject
  BY <1>1, <1>2 DEF Alone, Phased, Opened, Agreeing
<1>5. PICK o \in Task : /\ Set(h, Abandon(o)) /\ o.op = t.op
                        /\ o.undo = t.undo /\ o.failed = t.failed
                        /\ \/ ScopeSet(p, FALSE) /\ o.own = t.own
                           \/ ScopeFails(p, FALSE) /\ o.own = {p}
  BY <1>3
<1> HIDE DEF t
<1>6. /\ inflight' = {}
      /\ \/ scopes' = scopes \ {p} /\ Told' = Told \ {p} /\ o.own = {}
         \/ scopes' = scopes /\ Told' = Told /\ o.own = {p}
  BY <1>4, <1>5, SerialCalls
<1>7. /\ \A q \in scopes \ Told : file[q] # NoProject \/ q \in t.undo \/ q = p
      /\ \A q \in Ids \ Told : Held(file[q]) => q \in scopes
      /\ \A q \in t.undo : file[q] = NoProject
  BY <1>1, <1>4 DEF Alone, Agreeing, Adding
<1>8. /\ \A q \in scopes' \ Told' : file[q] # NoProject \/ q \in o.undo \cup o.own
      /\ \A q \in Ids \ Told' : Held(file[q]) => q \in scopes'
      /\ \A q \in o.undo : file[q] = NoProject
  BY <1>4, <1>5, <1>6, <1>7 DEF Held
<1>9. Alone(Abandon(o), file, scopes', Told')
  BY <1>4, <1>5, <1>8, AbandonAlone
<1>10. Abandon(o).pc # "rename"
  BY AbandonForm, IdleForm
<1> QED BY <1>1, <1>5, <1>6, <1>9, <1>10, AloneStep

LEMMA SerialRollback ==
  ASSUME IInv, Serial, InOrder, NEW h \in Handlers, Rollback(h) \/ RollbackDone(h)
  PROVE  InOrder'
<1> DEFINE t == task[h]
<1>1. /\ t \in Task /\ Alone(t, file, scopes, Told) /\ file' = file
      /\ t.pc = "rollback"
  BY Typed DEF InOrder, Rollback, RollbackDone, At, disk
<1>2. t.op \in Adding /\ t.op # "delete" /\ Opened(t) = t.undo \cup t.failed \cup t.own
  BY <1>1 DEF Alone, Phased, Adding, Opened
<1>3. CASE Rollback(h)
  <2>1. PICK p : p = First(t.undo)
    OBVIOUS
  <2>2. p \in t.undo /\ p \in Ids
    BY <1>1, <1>3, <2>1, FirstIn DEF Rollback, Task
  <2>3. ASSUME NEW n, Set(h, n), n.pc = "rollback", n.op = t.op, n.undo = t.undo \ {p},
               n.own = t.own,
               \/ /\ scopes' = scopes \ {p} /\ Told' = Told \ {p}
                  /\ inflight' = {} /\ n.failed = t.failed
               \/ /\ scopes' = scopes /\ Told' = Told /\ inflight' = {}
                  /\ n.failed = t.failed \cup {p}
        PROVE  InOrder'
    <3> HIDE DEF t
    <3>1. Phased(n)
      BY <1>2, <2>3 DEF Phased
    <3>2. Keeping(n, file, scopes')
      BY <1>2, <2>3 DEF Keeping, Working
    <3>3. Opened(n) = n.undo \cup n.failed \cup n.own
      BY <2>3 DEF Opened
    <3>4. file[p] = NoProject
      BY <1>1, <2>2 DEF Alone, Agreeing
    <3>5. /\ \A q \in scopes \ Told :
               file[q] # NoProject \/ q \in t.undo \cup t.failed \cup t.own
          /\ \A q \in Ids \ Told : Held(file[q]) => q \in scopes
          /\ \A q \in t.undo : file[q] = NoProject
      BY <1>1, <1>2 DEF Alone, Agreeing
    <3>6. Agreeing(n, file, scopes', Told')
      BY <2>3, <3>3, <3>4, <3>5 DEF Agreeing, Held
    <3> QED BY <1>1, <2>3, <3>1, <3>2, <3>6, AloneStep DEF Alone
  <2>4. /\ ScopeSet(p, FALSE) =>
             scopes' = scopes \ {p} /\ Told' = Told \ {p} /\ inflight' = {}
        /\ ScopeFails(p, FALSE) => scopes' = scopes /\ Told' = Told /\ inflight' = {}
    BY SerialCalls
  <2> QED BY <1>3, <2>1, <2>3, <2>4, RollbackForm
<1>4. CASE RollbackDone(h)
  <2>1. /\ t.undo = {} /\ Set(h, IdleTask) /\ scopes' = scopes /\ inflight' = {}
        /\ flagged' = flagged \cup Named(t)
        /\ unnamed' = unnamed \cup (IF t.failed = {} THEN {} ELSE t.own)
    BY <1>4 DEF RollbackDone, Reply, InOrder
  <2> HIDE DEF t
  <2>2. Told' = Told \cup t.failed \cup t.own
    BY <2>1 DEF Named, Told
  <2>3. Level(file', scopes', Told')
    BY <1>1, <1>2, <2>1, <2>2 DEF Alone, Agreeing, Level
  <2> QED BY <2>1, <2>3, AloneIdle
<1> QED BY <1>3, <1>4

LEMMA SerialDelete ==
  ASSUME IInv, Serial, InOrder, NEW h \in Handlers, Deactivate(h) \/ Reactivate(h)
  PROVE  InOrder'
<1> DEFINE t == task[h]
           p == t.id
<1>1. /\ t \in Task /\ Alone(t, file, scopes, Told) /\ file' = file
      /\ t.pc \in {"deactivate", "reactivate"} /\ t.op = "delete" /\ p \in Ids
  BY Typed DEF InOrder, Deactivate, Reactivate, At, disk, Staged
<1>2. /\ t.undo = {} /\ t.failed = {} /\ t.own = {} /\ Opened(t) = {}
      /\ file[p] # NoProject /\ t.work = [file EXCEPT ![p] = NoProject]
  BY <1>1 DEF Alone, Phased, Adding, Opened, Keeping
<1>3. CASE Deactivate(h)
  <2>1. t.pc = "deactivate"
    BY <1>3 DEF Deactivate, At
  <2>2. Level(file, scopes, Told)
    BY <1>1, <1>2, <2>1, AloneLevel
  <2>3. CASE ScopeFails(p, FALSE) /\ Set(h, IdleTask)
    BY <1>1, <2>2, <2>3, SerialCalls, AloneIdle
  <2>4. ASSUME NEW n, ScopeSet(p, FALSE), Set(h, n), Kept(n, t), n.pc = "write",
               n.work = t.work
        PROVE  InOrder'
    <3>1. scopes' = scopes \ {p} /\ Told' = Told \ {p} /\ inflight' = {}
      BY <2>4, SerialCalls
    <3> HIDE DEF t
    <3>2. n.op = "delete" /\ n.id = p /\ n.undo = {} /\ n.failed = {} /\ n.own = {}
      BY <1>1, <1>2, <2>4 DEF Kept
    <3>3. Phased(n)
      BY <2>4, <3>2 DEF Phased
    <3>4. Keeping(n, file, scopes')
      BY <1>2, <2>4, <3>1, <3>2 DEF Keeping
    <3>5. Agreeing(n, file, scopes', Told')
      BY <1>2, <2>2, <2>4, <3>1, <3>2 DEF Agreeing, Level
    <3> QED BY <1>1, <2>4, <3>1, <3>3, <3>4, <3>5, AloneStep DEF Alone
  <2> QED BY <1>3, <2>3, <2>4, DeactivateForm
<1>4. CASE Reactivate(h)
  <2>1. /\ \/ ScopeSet(p, TRUE)
           \/ ScopeThrows(p, TRUE) /\ flagged' = flagged \cup {p} /\ unnamed' = unnamed
        /\ Set(h, IdleTask)
    BY <1>4 DEF Reactivate, Reply
  <2>2. /\ inflight' = {}
        /\ \/ scopes' = scopes \cup {p} /\ Told' = Told \ {p}
           \/ scopes' = scopes /\ Told' = Told \cup {p}
    BY <2>1, SerialCalls DEF Told
  <2> HIDE DEF t
  <2>3. /\ \A q \in scopes \ Told : file[q] # NoProject
        /\ \A q \in Ids \ Told : Held(file[q]) => q \in scopes \/ q = p
    BY <1>1, <1>2 DEF Alone, Agreeing
  <2>4. Level(file', scopes', Told')
    BY <1>1, <1>2, <2>2, <2>3 DEF Level
  <2> QED BY <2>1, <2>2, <2>4, AloneIdle
<1> QED BY <1>3, <1>4

\* The list was not written: nothing was stored, and the scopes opened for it
\* are undone, or the one closed for it is opened again.
LEMMA SerialWriteFails ==
  ASSUME IInv, Serial, InOrder, NEW h \in Handlers, WriteFails(h),
         task[h].pc \in {"write", "rename"}, UNCHANGED <<disk, central>>
  PROVE  InOrder'
<1> DEFINE t == task[h]
<1>1. /\ t \in Task /\ Alone(t, file, scopes, Told) /\ t.pc \in {"write", "rename"}
      /\ file' = file /\ scopes' = scopes /\ Told' = Told /\ inflight' = {}
  BY Typed DEF InOrder, disk, central, Told
<1>2. /\ Opened(t) = t.undo /\ t.failed = {} /\ t.own = {}
      /\ t.op \in Adding \/ t.undo = {}
  BY <1>1 DEF Alone, Phased, Opened
<1>3. /\ \A p \in scopes \ Told : file[p] # NoProject \/ p \in t.undo
      /\ \A p \in Ids \ Told : Held(file[p]) => p \in scopes \/ (t.op = "delete" /\ t.id = p)
      /\ \A p \in t.undo : file[p] = NoProject
  BY <1>1, <1>2 DEF Alone, Agreeing
<1> HIDE DEF t
<1>4. CASE t.op # "delete" /\ Set(h, Abandon(t))
  <2>1. Alone(Abandon(t), file, scopes, Told)
    BY <1>1, <1>2, <1>3, <1>4, AbandonAlone
  <2>2. Abandon(t).pc # "rename"
    BY <1>1, AbandonForm, IdleForm
  <2> QED BY <1>1, <1>4, <2>1, <2>2, AloneStep
<1>5. ASSUME NEW n, Set(h, n), t.op = "delete", n.pc = "reactivate", Kept(n, t),
             n.work = t.work
      PROVE  InOrder'
  <2>1. n.op = "delete" /\ n.id = t.id /\ n.undo = t.undo /\ n.failed = {} /\ n.own = {}
    BY <1>2, <1>5 DEF Kept
  <2>2. t.undo = {}
    BY <1>1, <1>5 DEF Alone, Phased, Adding
  <2>3. Phased(n)
    BY <1>5, <2>1, <2>2 DEF Phased
  <2>4. Keeping(n, file, scopes)
    BY <1>1, <1>5, <2>1 DEF Alone, Keeping
  <2>5. Agreeing(n, file, scopes, Told)
    BY <1>3, <1>5, <2>1, <2>2 DEF Agreeing
  <2> QED BY <1>1, <1>5, <2>3, <2>4, <2>5, AloneStep DEF Alone
<1> QED BY <1>4, <1>5, WriteFailsForm DEF t

LEMMA SerialWrite ==
  ASSUME IInv, Serial, InOrder, NEW h \in Handlers, WriteTemp(h)
  PROVE  InOrder'
<1> DEFINE t == task[h]
<1>1. /\ t \in Task /\ Alone(t, file, scopes, Told) /\ t.pc = "write" /\ file' = file
      /\ scopes' = scopes /\ Told' = Told /\ inflight' = {}
  BY Typed DEF InOrder, WriteTemp, At, central, Told
<1>2. CASE WriteFails(h) /\ temps' = temps
  BY <1>1, <1>2, SerialWriteFails DEF WriteTemp, disk
<1>3. ASSUME NEW s \in Stamps, NEW n, temps' = [temps EXCEPT ![s] = t.work], Set(h, n),
             Kept(n, t), n.pc = "rename", n.stamp = s, n.work = t.work
      PROVE  InOrder'
  <2> HIDE DEF t
  <2>1. /\ n.op = t.op /\ n.id = t.id /\ n.undo = t.undo /\ n.failed = t.failed
        /\ n.own = t.own
    BY <1>3 DEF Kept
  <2>2. Phased(n)
    BY <1>1, <1>3, <2>1 DEF Alone, Phased
  <2>3. Keeping(n, file, scopes)
    BY <1>1, <1>3, <2>1 DEF Alone, Keeping, Working
  <2>4. Agreeing(n, file, scopes, Told)
    BY <1>1, <1>3, <2>1 DEF Alone, Agreeing, Opened
  <2>5. temps'[n.stamp] = n.work
    BY <1>3 DEF IInv, DiskOK
  <2> QED BY <1>1, <1>3, <2>2, <2>3, <2>4, <2>5, AloneStep DEF Alone
<1> QED BY <1>2, <1>3, WriteTempForm

LEMMA SerialRename ==
  ASSUME IInv, Serial, InOrder, NEW h \in Handlers, Rename(h)
  PROVE  InOrder'
<1> DEFINE t == task[h]
<1>1. /\ t \in Task /\ Alone(t, file, scopes, Told) /\ t.pc = "rename"
      /\ temps[t.stamp] = t.work /\ UNCHANGED central
      /\ scopes' = scopes /\ Told' = Told /\ inflight' = {}
  BY Typed DEF InOrder, Rename, At, central, Told
<1>2. /\ file \in Registry /\ scopes \in SUBSET Ids /\ t.work \in Registry
      /\ (t.op = "delete" => t.id \in Ids)
  BY <1>1, Typed DEF IInv, DiskOK, CentralOK, Task, Staged
<1>3. CASE WriteFails(h) /\ UNCHANGED disk
  BY <1>1, <1>3, SerialWriteFails
<1>4. CASE file' = t.work /\ Set(h, Finished(t))
  <2> HIDE DEF t
  <2>1. Level(file', scopes', Told')
    BY <1>1, <1>2, <1>4, CommitLevel
  <2>2. CASE Set(h, IdleTask)
    BY <1>1, <2>1, <2>2, AloneIdle
  <2>3. ASSUME NEW n, Set(h, n), t.op = "list", n.pc = "addScope", n.op = "discover",
               n.undo = t.undo, n.failed = t.failed, n.own = t.own, n.work = t.work
        PROVE  InOrder'
    <3>1. n.undo = {} /\ n.failed = {} /\ n.own = {}
      BY <1>1, <2>3 DEF Alone, Phased, Adding
    <3>2. Alone(n, file', scopes', Told')
      BY <1>4, <2>1, <2>3, <3>1, BeginAlone DEF Adding
    <3> QED BY <1>1, <2>3, <3>2, AloneStep
  <2> QED BY <1>1, <1>4, <2>2, <2>3, FinishedForm
<1>5. t.work # NoFile
  BY <1>2, RegistryConstants
<1> QED BY <1>1, <1>3, <1>4, <1>5 DEF Rename

LEMMA NextInOrder ==
  ASSUME IInv, Serial, InOrder, [Next]_vars
  PROVE  InOrder'
<1>1. ~Crash /\ inflight = {}
  BY DEF Serial, InOrder, Crash
<1>2. CASE UNCHANGED vars
  BY <1>2 DEF vars, InOrder, Told
<1>3. ASSUME NEW h \in Handlers, Step(h) PROVE InOrder'
  BY <1>3, SerialEnsures, SerialLoops, SerialAdopts, SerialAddScope, SerialAddBinding,
     SerialUndoOwn, SerialRollback, SerialDelete, SerialWrite, SerialRename DEF Step
<1> QED BY <1>1, <1>2, <1>3, SerialRequests DEF Next

\* When requests do not overlap, calls do not time out and the process does
\* not stop, the stored list and the Scope Registry agree between requests, but
\* for the projects the caller was told to reconcile: whatever call or write
\* fails is compensated, or reported. The report names the project, unless both
\* levels of a listing's compensation failed: then it names those of the outer
\* level only (projects.ts:375-376, 414-415, 454-464).
THEOREM SerialScopesAgree == Spec => [](Serial => ScopesAgree)
<1>1. Init /\ Serial => InOrder
  <2> SUFFICES ASSUME Init, Serial PROVE InOrder
    OBVIOUS
  <2>1. Level(file, scopes, Told)
    BY DEF Init, Level, LegacyFile, Present, Held
  <2>2. \A h \in Handlers : task[h] = IdleTask
    BY DEF Init
  <2> QED BY <2>1, <2>2, IdleAlone, IdleForm DEF InOrder, Init
<1>2. IInv /\ (Serial => InOrder) /\ [Next]_vars => (Serial => InOrder)'
  BY NextInOrder DEF Serial
<1>3. (Serial => InOrder) => (Serial => ScopesAgree)
  <2> SUFFICES ASSUME Serial, InOrder, Quiet PROVE ScopesAgree
    BY DEF ScopesAgree
  <2>1. PICK h \in Handlers : TRUE
    BY DEF Serial
  <2>2. task[h] = IdleTask /\ Alone(task[h], file, scopes, Told)
    BY DEF Quiet, At, InOrder, Alone, Phased
  <2>3. Level(file, scopes, Told)
    BY <2>2, IdleForm, AloneLevel
  <2> QED BY <2>3 DEF ScopesAgree, Level, Held, Told
<1> QED BY <1>1, <1>2, <1>3, RegistryInvariant, PTL DEF Spec

-----------------------------------------------------------------------------
(* The catalogue                                                            *)

\* Two discovered directories have two identifiers, and none is found twice.
Distinct == \A c, d \in Candidates : c.id = d.id \/ c.path = d.path => c = d

Governed(c) == [path |-> c.path, class |-> c.class, binding |-> c.class]
Free(list, path, p) == \A q \in Ids \ {p} : list[q] # NoProject => list[q].path # path

\* What each operation makes of the list while it is under way.
Migrating(t, list, on) ==
  /\ \A p \in Ids :
       \/ t.work[p] = list[p]
       \/ /\ list[p] # NoProject /\ list[p].binding = Unbound /\ p \in on
          /\ t.work[p] = [list[p] EXCEPT !.binding = list[p].class]
  /\ t.pc \in {"ensureScope", "ensureBinding"} /\ ~t.dirty =>
       \A p \in Ids : t.work[p] = list[p]

Amending(t, list, on) ==
  LET p == t.id IN
  /\ p \in Ids /\ list[p] # NoProject /\ t.work[p] # NoProject
  /\ t.refresh \subseteq {p}
  /\ \A q \in Ids \ {p} : t.work[q] = list[q]
  /\ t.work[p].path # list[p].path => Free(list, t.work[p].path, p)
  /\ t.refresh = {} => p \in on /\ t.work[p].binding # Unbound

Registering(t, list, on) ==
  LET p == t.id IN
  /\ p \in Ids /\ list[p] = NoProject
  /\ \A q \in Ids \ {p} : t.work[q] = list[q]
  /\ \A c \in t.adding :
       /\ c.id = p /\ t.adding = {c} /\ t.work[p] = NoProject
       /\ Free(list, c.path, p)
  /\ t.adding = {} =>
       /\ p \in on
       /\ \E c \in Candidate : c.id = p /\ t.work[p] = Governed(c) /\ Free(list, c.path, p)

Found(t, list, on, p) ==
  \/ t.work[p] = list[p]
  \/ \E c \in Candidates \ t.adding :
       /\ c.id = p
       /\ IF list[p] # NoProject THEN t.work[p] = [list[p] EXCEPT !.path = c.path]
          ELSE p \in on /\ t.work[p] = Governed(c) /\ Free(t.work, c.path, p)

Finding(t, list, on) ==
  t.adding \subseteq Candidates /\ \A p \in Ids : Found(t, list, on, p)

Copied(t, list, on) ==
  t.pc \in Working =>
    /\ t.op \in {"list", "get"} => Migrating(t, list, on)
    /\ t.op = "update" => Amending(t, list, on)
    /\ t.op = "create" => Registering(t, list, on)
    /\ t.op = "discover" => Finding(t, list, on)
    /\ t.pc \in {"write", "rename"} =>
         (t.op = "update" => t.refresh = {}) /\ (t.op = "create" => t.adding = {})

Copies == \A h \in Handlers : Copied(task[h], file, scopes)

\* A copy that no operation is changing.
LEMMA CopyAway ==
  ASSUME NEW t, NEW list, NEW on, t.pc \notin Working
  PROVE  Copied(t, list, on)
BY DEF Copied

LEMMA CopyStep ==
  ASSUME IInv, Serial, NEW h \in Handlers, NEW n, Set(h, n), Copied(n, file', scopes')
  PROVE  Copies'
<1>1. \A g \in Handlers : g = h
  BY DEF Serial
<1>2. task'[h] = n
  BY SettingTask
<1>3. \A g \in Handlers : Copied(task[g], file, scopes)'
  BY <1>1, <1>2
<1> QED BY <1>3 DEF Copies

LEMMA CopyLeft ==
  ASSUME IInv, Serial, NEW h \in Handlers,
         NEW n, Set(h, n), n.pc \in {"idle", "undoOwn", "rollback", "deactivate", "reactivate"}
  PROVE  Copies'
<1>1. n.pc \notin Working
  BY DEF Working
<1> QED BY <1>1, CopyAway, CopyStep

LEMMA CopyAbandoned ==
  ASSUME IInv, Serial, NEW h \in Handlers, NEW t \in Task, Set(h, Abandon(t))
  PROVE  Copies'
<1>1. Abandon(t).pc \in {"idle", "rollback"}
  BY AbandonForm, IdleForm
<1> QED BY <1>1, CopyLeft

\* The copy, the operation and what is left of its loops stay as they are.
LEMMA CopyKept ==
  ASSUME NEW t, NEW n, NEW list, NEW on, NEW more, on \subseteq more,
         Copied(t, list, on), t.pc \in Working,
         n.op = t.op, n.id = t.id, n.work = t.work, n.refresh = t.refresh,
         n.adding = t.adding,
         n.pc \in {"ensureScope", "ensureBinding"} =>
           t.pc \in {"ensureScope", "ensureBinding"} /\ n.dirty = t.dirty,
         n.pc \in {"write", "rename"} =>
           (n.op = "update" => n.refresh = {}) /\ (n.op = "create" => n.adding = {})
  PROVE  Copied(n, list, more)
<1>1. ASSUME n.op \in {"list", "get"} PROVE Migrating(n, list, more)
  BY <1>1 DEF Copied, Migrating
<1>2. ASSUME n.op = "update" PROVE Amending(n, list, more)
  BY <1>2 DEF Copied, Amending
<1>3. ASSUME n.op = "create" PROVE Registering(n, list, more)
  BY <1>3 DEF Copied, Registering
<1>4. ASSUME n.op = "discover" PROVE Finding(n, list, more)
  BY <1>4 DEF Copied, Finding, Found
<1> QED BY <1>1, <1>2, <1>3, <1>4 DEF Copied

LEMMA CopyRequests ==
  ASSUME IInv, Serial, NEW h \in Handlers, Request(h)
  PROVE  Copies'
<1>1. file' = file /\ scopes' = scopes
  BY DEF Request, List, Get, Create, Update, Delete, disk, central
<1>2. ASSUME NEW n, Set(h, n), n.pc = "ensureScope", n.op \in {"list", "get"}, n.work = file
      PROVE  Copies'
  <2>1. Migrating(n, file, scopes)
    BY <1>2 DEF Migrating
  <2> QED BY <1>1, <1>2, <2>1, CopyStep DEF Copied
<1>3. CASE List(h)
  BY <1>2, <1>3, ListForm
<1>4. ASSUME NEW p \in Ids, Get(h, p) PROVE Copies'
  BY <1>2, <1>4, GetForm
<1>5. ASSUME NEW c \in Candidate, Create(h, c) PROVE Copies'
  <2>1. PICK n : /\ Set(h, n) /\ n.pc = "addScope" /\ n.op = "create" /\ n.id = c.id
                 /\ n.work = file /\ n.adding = {c}
                 /\ n.refresh = {} /\ n.undo = {} /\ n.failed = {} /\ n.own = {}
    BY <1>5, CreateForm
  <2>2. c.id \in Ids /\ file[c.id] = NoProject /\ Free(file, c.path, c.id)
    BY <1>5 DEF Create, Candidate, PathTaken, Free
  <2>3. Registering(n, file, scopes)
    BY <2>1, <2>2 DEF Registering
  <2> QED BY <1>1, <2>1, <2>3, CopyStep DEF Copied
<1>6. ASSUME NEW p \in Ids, Delete(h, p) PROVE Copies'
  <2>1. PICK n : /\ Set(h, n) /\ n.pc = "deactivate" /\ n.op = "delete" /\ n.id = p
                 /\ n.work = [file EXCEPT ![p] = NoProject] /\ n.adding = {}
                 /\ n.refresh = {} /\ n.undo = {} /\ n.failed = {} /\ n.own = {}
    BY <1>6, DeleteForm
  <2> QED BY <2>1, CopyLeft
<1>7. ASSUME NEW c \in Candidate, Update(h, c) PROVE Copies'
  <2>1. PICK n, next :
           /\ next = [path |-> c.path, class |-> c.class,
                      binding |-> BindingToKeep(file[c.id], c.class)]
           /\ Set(h, n) /\ n.pc = "ensureScope" /\ n.op = "update" /\ n.id = c.id
           /\ n.work = [file EXCEPT ![c.id] = next] /\ n.adding = {}
           /\ n.refresh = {c.id} /\ n.undo = {} /\ n.failed = {} /\ n.own = {} /\ n.dirty = TRUE
    BY <1>7, UpdateForm
  <2>2. /\ file[c.id] # NoProject /\ c.id \in Ids /\ file \in Registry
        /\ c.path \in Paths /\ c.class \in Classes
        /\ c.path # file[c.id].path => Free(file, c.path, c.id)
    BY <1>7 DEF Update, Candidate, IInv, DiskOK, PathTaken, Free
  <2>3. next # NoProject /\ next.path = c.path
    <3>1. file[c.id] \in Entry
      BY <2>2 DEF Registry
    <3>2. next \in Entry
      BY <2>1, <2>2, <3>1 DEF Entry, BindingToKeep
    <3> QED BY <2>1, <3>2, RegistryConstants
  <2>4. \A q \in Ids : n.work[q] = IF q = c.id THEN next ELSE file[q]
    BY <2>1, <2>2 DEF Registry
  <2>5. Amending(n, file, scopes)
    BY <2>1, <2>2, <2>3, <2>4 DEF Amending
  <2> QED BY <1>1, <2>1, <2>5, CopyStep DEF Copied
<1> QED BY <1>3, <1>4, <1>5, <1>6, <1>7 DEF Request

LEMMA CopyEnsureScope ==
  ASSUME IInv, Serial, InOrder, Copies, NEW h \in Handlers, EnsureScope(h)
  PROVE  Copies'
<1> DEFINE t == task[h]
<1>1. /\ t \in Task /\ Alone(t, file, scopes, Told) /\ Copied(t, file, scopes)
      /\ t.pc = "ensureScope" /\ file' = file
  BY Typed DEF InOrder, Copies, EnsureScope, At, disk
<1>2. t.op \in Refreshing
  BY <1>1 DEF Alone, Phased
<1>3. PICK p : p = First(t.refresh)
  OBVIOUS
<1>4. CASE Set(h, IdleTask)
  BY <1>4, CopyLeft, IdleForm
<1>5. ASSUME NEW n, ScopeSet(p, TRUE), Set(h, n), Kept(n, t), n.work = t.work,
             n.adding = t.adding, n.dirty = t.dirty,
             \/ n.pc = "ensureBinding" /\ n.refresh = t.refresh
             \/ /\ n.pc = "ensureScope" /\ n.refresh = t.refresh \ {p}
                /\ t.work[p].binding # Unbound
      PROVE  Copies'
  <2>1. scopes' = scopes \cup {p}
    BY <1>5 DEF ScopeSet
  <2>2. p \in t.refresh
    BY <1>1, <1>3, FirstIn, EnsureScopeForm
  <2> HIDE DEF t
  <2>3. n.op = t.op /\ n.id = t.id
    BY <1>5 DEF Kept
  <2>4. ASSUME n.op \in {"list", "get"} PROVE Migrating(n, file, scopes')
    BY <1>1, <1>5, <2>1, <2>3, <2>4 DEF Copied, Migrating, Working
  <2>5. ASSUME n.op = "update" PROVE Amending(n, file, scopes')
    <3>1. Amending(t, file, scopes) /\ t.id = p
      BY <1>1, <2>2, <2>3, <2>5 DEF Copied, Working, Amending
    <3> QED BY <1>5, <2>1, <2>2, <2>3, <3>1 DEF Amending
  <2>6. Copied(n, file, scopes')
    BY <1>2, <1>5, <2>3, <2>4, <2>5 DEF Copied, Refreshing
  <2> QED BY <1>1, <1>5, <2>6, CopyStep
<1> QED BY <1>3, <1>4, <1>5, EnsureScopeForm

LEMMA CopyEnsureBinding ==
  ASSUME IInv, Serial, InOrder, Copies, NEW h \in Handlers, EnsureBinding(h)
  PROVE  Copies'
<1> DEFINE t == task[h]
<1>1. /\ t \in Task /\ Fit(t, bindings) /\ Alone(t, file, scopes, Told)
      /\ Copied(t, file, scopes) /\ t.pc = "ensureBinding" /\ file' = file
  BY Typed DEF InOrder, Copies, EnsureBinding, At, disk, IInv
<1>2. t.op \in Refreshing
  BY <1>1 DEF Alone, Phased
<1>3. PICK p : p = First(t.refresh)
  OBVIOUS
<1>4. /\ p \in t.refresh /\ p \in Ids
      /\ \/ BindingFails(p, t.work[p].class) /\ Set(h, IdleTask)
         \/ \E n : /\ BindingRegistered(p, t.work[p].class) /\ Set(h, n)
                   /\ BoundTask(n, t, p)
  BY <1>3, EnsureBindingForm
<1>5. CASE Set(h, IdleTask)
  BY <1>5, CopyLeft, IdleForm
<1>6. ASSUME NEW n, BindingRegistered(p, t.work[p].class), Set(h, n), Kept(n, t),
             n.pc = "ensureScope", n.refresh = t.refresh \ {p}, n.dirty = TRUE,
             n.work = [t.work EXCEPT ![p] = [t.work[p] EXCEPT !.binding = t.work[p].class]]
      PROVE  Copies'
  <2> DEFINE e == t.work[p]
             entry == [e EXCEPT !.binding = e.class]
  <2>1. scopes' = scopes
    BY <1>6 DEF BindingRegistered
  <2>2. p \in scopes
    BY <1>1, <1>3 DEF Alone, Agreeing
  <2>3. t.work \in Registry /\ e \in Entry /\ e.binding \in {Unbound, e.class}
    BY <1>1, <1>4 DEF Fit, Sound, Staged, Present, Task, Registry
  <2> HIDE DEF t
  <2>4. n.op = t.op /\ n.id = t.id
    BY <1>6 DEF Kept
  <2>5. \A q \in Ids : n.work[q] = IF q = p THEN entry ELSE t.work[q]
    BY <1>6, <2>3 DEF Registry
  <2> HIDE DEF e
  <2>6. /\ entry # NoProject /\ entry.path = e.path /\ entry.binding # Unbound
        /\ (e.binding # Unbound => entry = e)
    BY <2>3, RegistryConstants DEF Entry
  <2>7. ASSUME n.op \in {"list", "get"} PROVE Migrating(n, file, scopes')
    <3>1. Migrating(t, file, scopes)
      BY <1>1, <2>4, <2>7 DEF Copied, Working
    <3>2. \/ entry = file[p]
          \/ /\ file[p] # NoProject /\ file[p].binding = Unbound
             /\ entry = [file[p] EXCEPT !.binding = file[p].class]
      <4>1. CASE e = file[p]
        <5>1. e # NoProject
          BY <2>3, RegistryConstants
        <5> QED BY <2>6, <4>1, <5>1
      <4>2. CASE e # file[p]
        <5>1. /\ file[p] # NoProject /\ file[p].binding = Unbound
              /\ e = [file[p] EXCEPT !.binding = file[p].class]
          BY <1>4, <3>1, <4>2 DEF Migrating, e
        <5>2. file[p] \in Entry
          BY <1>4, <5>1 DEF IInv, DiskOK, Registry
        <5>3. e.binding # Unbound
          BY <5>1, <5>2, RegistryConstants DEF Entry
        <5> QED BY <2>6, <5>1, <5>3
      <4> QED BY <4>1, <4>2
    <3> QED BY <1>6, <2>1, <2>2, <2>5, <3>1, <3>2 DEF Migrating
  <2>8. ASSUME n.op = "update" PROVE Amending(n, file, scopes')
    <3>1. Amending(t, file, scopes) /\ t.id = p
      BY <1>1, <1>4, <2>4, <2>8 DEF Copied, Working, Amending
    <3> HIDE DEF entry
    <3>2. n.work[p].path = t.work[p].path /\ n.work[p] # NoProject /\ n.work[p].binding # Unbound
      BY <1>4, <2>5, <2>6 DEF e
    <3>3. \A q \in Ids \ {p} : n.work[q] = file[q]
      BY <2>5, <3>1 DEF Amending
    <3> QED BY <1>6, <2>1, <2>2, <2>4, <3>1, <3>2, <3>3 DEF Amending
  <2>9. Copied(n, file, scopes')
    BY <1>2, <1>6, <2>4, <2>7, <2>8 DEF Copied, Refreshing
  <2> QED BY <1>1, <1>6, <2>9, CopyStep
<1> QED BY <1>4, <1>5, <1>6 DEF BoundTask

LEMMA CopyLoops ==
  ASSUME IInv, Serial, InOrder, Copies, NEW h \in Handlers, EnsureDone(h) \/ AddDone(h)
  PROVE  Copies'
<1> DEFINE t == task[h]
<1>1. /\ t \in Task /\ Alone(t, file, scopes, Told) /\ Copied(t, file, scopes)
      /\ file' = file /\ scopes' = scopes /\ Set(h, AfterLoop(t))
      /\ \/ t.pc = "ensureScope" /\ t.refresh = {}
         \/ t.pc = "addScope" /\ t.adding = {}
  BY Typed DEF InOrder, Copies, EnsureDone, AddDone, At, disk, central
<1>2. /\ t.pc \in Working
      /\ t.op = "update" => t.refresh = {}
      /\ t.op = "create" => t.adding = {}
      /\ t.op = "list" => t.pc = "ensureScope"
  BY <1>1 DEF Alone, Phased, Refreshing, Adding, Working
<1> HIDE DEF t
<1>3. CASE Set(h, IdleTask)
  BY <1>3, CopyLeft, IdleForm
<1>4. ASSUME NEW n, Set(h, n), ~t.dirty, t.op = "list", n.pc = "addScope", n.op = "discover",
             n.work = t.work, n.adding = Candidates
      PROVE  Copies'
  <2>1. \A p \in Ids : t.work[p] = file[p]
    BY <1>1, <1>2, <1>4 DEF Copied, Migrating
  <2>2. Finding(n, file, scopes)
    BY <1>4, <2>1 DEF Finding, Found
  <2>3. Copied(n, file', scopes')
    BY <1>1, <1>4, <2>2 DEF Copied
  <2> QED BY <1>4, <2>3, CopyStep
<1>5. ASSUME NEW n, Set(h, n), n.pc = "write", Kept(n, t), n.work = t.work,
             n.refresh = t.refresh, n.adding = t.adding
      PROVE  Copies'
  <2>1. n.op = t.op /\ n.id = t.id
    BY <1>5 DEF Kept
  <2>2. Copied(n, file', scopes')
    BY <1>1, <1>2, <1>5, <2>1, CopyKept
  <2> QED BY <1>5, <2>2, CopyStep
<1> QED BY <1>1, <1>3, <1>4, <1>5, AfterLoopForm, FinishedForm

LEMMA CopyAdopts ==
  ASSUME IInv, Serial, Distinct, InOrder, Copies, NEW h \in Handlers, AdoptCandidate(h)
  PROVE  Copies'
<1> DEFINE t == task[h]
<1>1. /\ t \in Task /\ Alone(t, file, scopes, Told) /\ Copied(t, file, scopes)
      /\ file' = file /\ scopes' = scopes /\ t.pc = "addScope" /\ t.adding # {}
  BY Typed DEF InOrder, Copies, AdoptCandidate, At, disk, central
<1>2. t.pc \in Working /\ t.op \in Adding
  BY <1>1 DEF Alone, Phased, Working
<1>3. PICK c : c = First(t.adding)
  OBVIOUS
<1>4. c \in t.adding /\ c \in Candidate /\ c.path \in Paths
  BY <1>1, <1>3, FirstIn DEF Task, Candidate
<1>5. t.op # "create"
  <2>1. SUFFICES ASSUME Registering(t, file, scopes) PROVE FALSE
    BY <1>1, <1>2 DEF Copied
  <2>2. PICK p \in Matches(t, c) : TRUE
    BY <1>3 DEF AdoptCandidate
  <2> HIDE DEF t
  <2> QED BY <1>4, <2>1, <2>2 DEF Registering, Matches, Present, Free
<1>6. Finding(t, file, scopes) /\ t.op = "discover"
  BY <1>1, <1>2, <1>5 DEF Copied, Adding
<1>7. ASSUME NEW p \in Matches(t, c), NEW n, Set(h, n), Kept(n, t), n.pc = "addScope",
             n.adding = t.adding \ {c},
             n.work = [t.work EXCEPT ![p] = [t.work[p] EXCEPT !.path = c.path]]
      PROVE  Copies'
  <2> DEFINE e == t.work[p]
             entry == [e EXCEPT !.path = c.path]
  <2> HIDE DEF t
  <2>1. /\ p \in Ids /\ e # NoProject /\ t.work \in Registry /\ e \in Entry
        /\ p = c.id \/ e.path = c.path
    BY <1>1, <1>7 DEF Matches, Present, Task, Registry
  <2>2. \A q \in Ids : n.work[q] = IF q = p THEN entry ELSE t.work[q]
    BY <1>7, <2>1 DEF Registry
  <2> HIDE DEF e
  <2>3. e.path = c.path => entry = e
    BY <2>1 DEF Entry
  <2>4. entry # NoProject /\ entry.path = c.path
    BY <1>4, <2>1, MovedEntry
  <2>5. \A d \in Candidates \ t.adding : d.path # c.path /\ d.id # c.id
    BY <1>4, <1>6 DEF Distinct, Finding
  <2>6. c \in Candidates \ n.adding /\ n.adding \subseteq Candidates
        /\ Candidates \ t.adding \subseteq Candidates \ n.adding
    BY <1>4, <1>6, <1>7 DEF Finding
  <2>7. ASSUME NEW q \in Ids, n.work[q] = t.work[q] PROVE Found(n, file, scopes, q)
    <3>1. CASE t.work[q] = file[q]
      BY <2>7, <3>1 DEF Found
    <3>2. CASE t.work[q] # file[q]
      <4>1. PICK d \in Candidates \ t.adding :
                    /\ d.id = q
                    /\ IF file[q] # NoProject THEN t.work[q] = [file[q] EXCEPT !.path = d.path]
                       ELSE q \in scopes /\ t.work[q] = Governed(d) /\ Free(t.work, d.path, q)
        BY <1>6, <3>2 DEF Finding, Found
      <4> HIDE DEF entry
      <4>2. Free(t.work, d.path, q) => Free(n.work, d.path, q)
        BY <2>2, <2>4, <2>5, <2>7, <4>1 DEF Free
      <4> QED BY <2>6, <2>7, <4>1, <4>2 DEF Found
    <3> QED BY <3>1, <3>2
  <2>8. Found(n, file, scopes, p)
    <3>1. CASE e.path = c.path
      BY <2>1, <2>2, <2>3, <2>7, <3>1 DEF e
    <3>2. CASE p = c.id
      <4>1. e = file[p] /\ file[p] # NoProject
        BY <1>6, <2>1, <2>5, <3>2 DEF Finding, Found, e
      <4>2. n.work[p] = [file[p] EXCEPT !.path = c.path]
        BY <2>1, <2>2, <4>1
      <4> HIDE DEF entry
      <4> QED BY <2>6, <3>2, <4>1, <4>2 DEF Found
    <3> QED BY <2>1, <3>1, <3>2
  <2> HIDE DEF entry
  <2>9. Finding(n, file, scopes)
    BY <2>2, <2>6, <2>7, <2>8 DEF Finding
  <2>10. Copied(n, file', scopes')
    BY <1>1, <1>6, <1>7, <2>9 DEF Copied, Kept
  <2> QED BY <1>7, <2>10, CopyStep
<1>8. \E p \in Matches(t, c) : \E n : Set(h, n) /\ AdoptTask(n, t, c, p)
  BY <1>3, AdoptForm
<1> QED BY <1>7, <1>8 DEF AdoptTask

LEMMA CopyAddScope ==
  ASSUME IInv, Serial, InOrder, Copies, NEW h \in Handlers, AddScope(h)
  PROVE  Copies'
<1> DEFINE t == task[h]
<1>1. /\ t \in Task /\ Copied(t, file, scopes) /\ file' = file /\ t.pc = "addScope"
  BY Typed DEF Copies, AddScope, At, disk
<1>2. PICK c : c = First(t.adding)
  OBVIOUS
<1>3. CASE Set(h, Abandon(t))
  BY <1>1, <1>3, CopyAbandoned
<1>4. ASSUME NEW n, ScopeSet(c.id, TRUE), Set(h, n), Kept(n, t), n.pc = "addBinding",
             n.work = t.work, n.refresh = t.refresh, n.adding = t.adding
      PROVE  Copies'
  <2> HIDE DEF t
  <2>1. scopes \subseteq scopes'
    BY <1>4 DEF ScopeSet
  <2>2. n.op = t.op /\ n.id = t.id /\ t.pc \in Working
    BY <1>1, <1>4 DEF Kept, Working
  <2>3. Copied(n, file', scopes')
    BY <1>1, <1>4, <2>1, <2>2, CopyKept
  <2> QED BY <1>4, <2>3, CopyStep
<1> QED BY <1>2, <1>3, <1>4, AddScopeForm

LEMMA CopyAddBinding ==
  ASSUME IInv, Serial, Distinct, InOrder, Copies, NEW h \in Handlers, AddBinding(h)
  PROVE  Copies'
<1> DEFINE t == task[h]
<1>1. /\ t \in Task /\ Alone(t, file, scopes, Told) /\ Copied(t, file, scopes)
      /\ file' = file /\ t.pc = "addBinding" /\ t.adding # {}
  BY Typed DEF InOrder, Copies, AddBinding, At, disk, Staged
<1>2. t.pc \in Working /\ t.op \in Adding
  BY <1>1 DEF Alone, Phased, Working
<1>3. PICK c : c = First(t.adding)
  OBVIOUS
<1>4. c \in t.adding /\ c \in Candidate /\ c.id \in Ids
  BY <1>1, <1>3, FirstIn DEF Task, Candidate
<1>5. c.id \in scopes /\ Matches(t, c) = {}
  BY <1>1, <1>3 DEF Alone, Agreeing
<1>6. scopes' = scopes
  BY DEF AddBinding, BindingRegistered, BindingFails
<1>7. /\ t.work[c.id] = NoProject
      /\ \A q \in Ids : t.work[q] # NoProject => t.work[q].path # c.path
  BY <1>4, <1>5 DEF Matches, Present
<1>8. ASSUME NEW n, Set(h, n), n.pc = "undoOwn"
      PROVE  Copies'
  BY <1>8, CopyLeft
<1>9. ASSUME NEW n, Set(h, n), Opens(n, t, c.id), n.pc = "addScope",
             n.adding = t.adding \ {c}, n.work = [t.work EXCEPT ![c.id] = Governed(c)]
      PROVE  Copies'
  <2> HIDE DEF t
  <2>1. n.op = t.op /\ n.id = t.id
    BY <1>9 DEF Opens
  <2>2. \A q \in Ids : n.work[q] = IF q = c.id THEN Governed(c) ELSE t.work[q]
    BY <1>1, <1>4, <1>9 DEF Task, Registry
  <2>3. Governed(c).path = c.path
    BY DEF Governed
  <2>4. CASE t.op = "create"
    <3>1. Registering(t, file, scopes)
      BY <1>1, <1>2, <2>4 DEF Copied
    <3>2. c.id = t.id /\ t.adding = {c} /\ n.adding = {} /\ Free(file, c.path, c.id)
      BY <1>4, <1>9, <3>1 DEF Registering
    <3>3. Registering(n, file, scopes)
      BY <1>4, <1>5, <2>1, <2>2, <3>1, <3>2 DEF Registering
    <3>4. Copied(n, file', scopes')
      BY <1>1, <1>6, <1>9, <2>1, <2>4, <3>3 DEF Copied
    <3> QED BY <1>9, <3>4, CopyStep
  <2>5. CASE t.op = "discover"
    <3>1. Finding(t, file, scopes)
      BY <1>1, <1>2, <2>5 DEF Copied
    <3>2. /\ c \in Candidates \ n.adding /\ n.adding \subseteq Candidates
          /\ Candidates \ t.adding \subseteq Candidates \ n.adding
      BY <1>4, <1>9, <3>1 DEF Finding
    <3>3. \A d \in Candidates \ t.adding : d.path # c.path /\ d.id # c.id
      BY <1>4, <3>1 DEF Distinct, Finding
    <3>4. Found(n, file, scopes, c.id)
      <4>1. file[c.id] = NoProject
        <5>1. \A d \in Candidates \ t.adding : d.id # c.id
          BY <3>3
        <5> QED BY <1>4, <1>7, <3>1, <5>1 DEF Finding, Found
      <4>2. Free(n.work, c.path, c.id)
        BY <1>7, <2>2 DEF Free
      <4>3. n.work[c.id] = Governed(c)
        BY <1>4, <2>2
      <4> QED BY <1>5, <3>2, <4>1, <4>2, <4>3 DEF Found
    <3>5. ASSUME NEW q \in Ids \ {c.id} PROVE Found(n, file, scopes, q)
      <4>1. n.work[q] = t.work[q]
        BY <2>2
      <4>2. CASE t.work[q] # file[q]
        <5>1. PICK d \in Candidates \ t.adding :
                    /\ d.id = q
                    /\ IF file[q] # NoProject THEN t.work[q] = [file[q] EXCEPT !.path = d.path]
                       ELSE q \in scopes /\ t.work[q] = Governed(d) /\ Free(t.work, d.path, q)
          BY <3>1, <4>2 DEF Finding, Found
        <5>2. Free(t.work, d.path, q) => Free(n.work, d.path, q)
          BY <2>2, <2>3, <3>3, <5>1 DEF Free
        <5> QED BY <3>2, <4>1, <5>1, <5>2 DEF Found
      <4> QED BY <4>1, <4>2 DEF Found
    <3>6. Finding(n, file, scopes)
      BY <3>2, <3>4, <3>5 DEF Finding
    <3>7. Copied(n, file', scopes')
      BY <1>1, <1>6, <1>9, <2>1, <2>5, <3>6 DEF Copied
    <3> QED BY <1>9, <3>7, CopyStep
  <2> QED BY <1>2, <2>4, <2>5 DEF Adding
<1> QED BY <1>3, <1>8, <1>9, AddBindingForm DEF Governed

LEMMA CopyWriteFails ==
  ASSUME IInv, Serial, NEW h \in Handlers, WriteFails(h)
  PROVE  Copies'
<1>1. CASE Set(h, Abandon(task[h]))
  BY <1>1, Typed, CopyAbandoned
<1>2. ASSUME NEW n, Set(h, n), n.pc = "reactivate" PROVE Copies'
  BY <1>2, CopyLeft
<1> QED BY <1>1, <1>2, WriteFailsForm

LEMMA CopyWrites ==
  ASSUME IInv, Serial, InOrder, Copies, NEW h \in Handlers, WriteTemp(h) \/ Rename(h)
  PROVE  Copies'
<1> DEFINE t == task[h]
<1>1. t \in Task /\ Copied(t, file, scopes) /\ scopes' = scopes
  BY Typed DEF Copies, WriteTemp, Rename, central
<1>2. CASE WriteFails(h)
  BY <1>2, CopyWriteFails
<1>3. CASE WriteTemp(h)
  <2>1. t.pc = "write" /\ file' = file
    BY <1>3 DEF WriteTemp, At
  <2>2. ASSUME NEW n, Set(h, n), Kept(n, t), n.pc = "rename", n.work = t.work,
               n.refresh = t.refresh, n.adding = t.adding
        PROVE  Copies'
    <3> HIDE DEF t
    <3>1. n.op = t.op /\ n.id = t.id /\ t.pc \in Working
      BY <2>1, <2>2 DEF Kept, Working
    <3>2. /\ n.op = "update" => n.refresh = {}
          /\ n.op = "create" => n.adding = {}
      BY <1>1, <2>1, <2>2, <3>1 DEF Copied
    <3>3. Copied(n, file', scopes')
      BY <1>1, <2>1, <2>2, <3>1, <3>2, CopyKept
    <3> QED BY <2>2, <3>3, CopyStep
  <2> QED BY <1>2, <1>3, <2>2, WriteTempForm
<1>4. CASE Rename(h) /\ ~WriteFails(h)
  <2>1. Set(h, Finished(t)) /\ file' = t.work /\ t.pc = "rename"
    BY <1>4 DEF Rename, At, InOrder
  <2> HIDE DEF t
  <2>2. CASE Set(h, IdleTask)
    BY <2>2, CopyLeft, IdleForm
  <2>3. ASSUME NEW n, Set(h, n), n.pc = "addScope", n.op = "discover",
               n.work = t.work, n.adding = Candidates, t.work = file'
        PROVE  Copies'
    <3>1. Finding(n, file', scopes')
      BY <2>3 DEF Finding, Found
    <3> QED BY <2>3, <3>1, CopyStep DEF Copied
  <2> QED BY <1>1, <2>1, <2>2, <2>3, FinishedForm
<1> QED BY <1>2, <1>3, <1>4

LEMMA NextCopies ==
  ASSUME IInv, Serial, Distinct, InOrder, Copies, [Next]_vars
  PROVE  Copies'
<1>1. ~Crash /\ inflight = {}
  BY DEF Serial, InOrder, Crash
<1>2. CASE UNCHANGED vars
  BY <1>2 DEF vars, Copies
<1>3. ASSUME NEW h \in Handlers, Rollback(h) \/ RollbackDone(h) PROVE Copies'
  <2>1. CASE RollbackDone(h)
    BY <2>1, CopyLeft, IdleForm DEF RollbackDone, Reply
  <2>2. CASE Rollback(h)
    <3>1. \E n : Set(h, n) /\ n.pc = "rollback"
      BY <2>2, RollbackForm
    <3> QED BY <3>1, CopyLeft
  <2> QED BY <1>3, <2>1, <2>2
<1>4. ASSUME NEW h \in Handlers, Deactivate(h) PROVE Copies'
  <2>1. CASE Set(h, IdleTask)
    BY <2>1, CopyLeft, IdleForm
  <2>2. ASSUME NEW n, Set(h, n), Kept(n, task[h]), n.pc = "write", task[h].op = "delete"
        PROVE  Copies'
    BY <2>2, CopyStep DEF Copied, Kept
  <2> QED BY <1>4, <2>1, <2>2, DeactivateForm
<1>5. ASSUME NEW h \in Handlers, Reactivate(h) PROVE Copies'
  BY <1>5, CopyLeft, IdleForm DEF Reactivate, Reply
<1>6. ASSUME NEW h \in Handlers, UndoOwn(h) PROVE Copies'
  <2>1. PICK o \in Task : Set(h, Abandon(o))
    BY <1>6, UndoOwnForm
  <2> QED BY <2>1, CopyAbandoned
<1>7. ASSUME NEW h \in Handlers, Step(h) PROVE Copies'
  BY <1>3, <1>4, <1>5, <1>6, <1>7, CopyEnsureScope, CopyEnsureBinding, CopyLoops, CopyAdopts,
     CopyAddScope, CopyAddBinding, CopyWrites DEF Step
<1> QED BY <1>1, <1>2, <1>7, CopyRequests DEF Next

\* Away from a commit a step of the registry switches one scope, or none.
LEMMA ScopesSwitch ==
  ASSUME IInv, Serial, InOrder, NEW h \in Handlers, Request(h) \/ Step(h), file' = file
  PROVE  [Catalog!Next]_<<file, scopes>>
<1>1. ASSUME NEW p \in Ids, ScopeSet(p, TRUE) PROVE Catalog!Next
  BY <1>1 DEF Catalog!Next, Catalog!Switch, ScopeSet
<1>2. ASSUME NEW p \in Ids, ScopeSet(p, FALSE) PROVE Catalog!Next
  BY <1>2 DEF Catalog!Next, Catalog!Switch, ScopeSet
<1>3. CASE scopes' = scopes
  BY <1>3
<1>4. ASSUME Request(h) PROVE scopes' = scopes
  BY <1>4 DEF Request, List, Get, Create, Update, Delete, central
<1>5. ASSUME EnsureDone(h) \/ AdoptCandidate(h) \/ AddDone(h) \/ RollbackDone(h)
               \/ WriteTemp(h) \/ Rename(h)
      PROVE scopes' = scopes
  BY <1>5 DEF EnsureDone, AdoptCandidate, AddDone, RollbackDone, WriteTemp, Rename, central
<1>6. ASSUME EnsureBinding(h) \/ AddBinding(h) PROVE scopes' = scopes
  BY <1>6 DEF EnsureBinding, AddBinding, BindingRegistered, BindingFails
<1>7. ASSUME EnsureScope(h) PROVE [Catalog!Next]_<<file, scopes>>
  <2>1. PICK p \in Ids : ScopeSet(p, TRUE) \/ ScopeFails(p, TRUE)
    <3>1. PICK p : p = First(task[h].refresh)
      OBVIOUS
    <3>2. p \in Ids
      BY <1>7, <3>1, EnsureScopeForm
    <3> QED BY <1>7, <3>1, <3>2 DEF EnsureScope
  <2> QED BY <1>1, <1>3, <2>1 DEF ScopeFails, ScopeThrows
<1>8. ASSUME AddScope(h) PROVE [Catalog!Next]_<<file, scopes>>
  <2>1. PICK p \in Ids : ScopeSet(p, TRUE) \/ ScopeFails(p, TRUE)
    <3>1. PICK c : c = First(task[h].adding)
      OBVIOUS
    <3>2. c \in Candidate
      BY <1>8, <3>1, FirstIn, Typed DEF AddScope, Task
    <3>3. c.id \in Ids
      BY <3>2 DEF Candidate
    <3> QED BY <1>8, <3>1, <3>3 DEF AddScope
  <2> QED BY <1>1, <1>3, <2>1 DEF ScopeFails, ScopeThrows
<1>9. ASSUME Rollback(h) PROVE [Catalog!Next]_<<file, scopes>>
  <2>1. PICK p \in Ids : ScopeSet(p, FALSE) \/ ScopeFails(p, FALSE)
    <3>1. PICK p : p = First(task[h].undo)
      OBVIOUS
    <3>2. p \in Ids
      BY <1>9, <3>1, RollbackForm
    <3> QED BY <1>9, <3>1, <3>2 DEF Rollback
  <2> QED BY <1>2, <1>3, <2>1 DEF ScopeFails, ScopeThrows
<1>10. ASSUME Deactivate(h) PROVE [Catalog!Next]_<<file, scopes>>
  <2>1. task[h].id \in Ids
    BY <1>10, DeactivateForm
  <2> QED BY <1>2, <1>3, <1>10, <2>1 DEF Deactivate, ScopeFails, ScopeThrows
<1>11. ASSUME Reactivate(h) PROVE [Catalog!Next]_<<file, scopes>>
  <2>1. task[h].id \in Ids
    BY <1>11, Typed DEF Staged, Reactivate, At
  <2> QED BY <1>1, <1>3, <1>11, <2>1 DEF Reactivate, ScopeThrows
<1>12. ASSUME UndoOwn(h) PROVE [Catalog!Next]_<<file, scopes>>
  <2>1. PICK p \in Ids : ScopeSet(p, FALSE) \/ ScopeFails(p, FALSE)
    BY <1>12, UndoOwnForm
  <2> QED BY <1>2, <1>3, <2>1 DEF ScopeFails, ScopeThrows
<1> QED
  BY <1>3, <1>4, <1>5, <1>6, <1>7, <1>8, <1>9, <1>10, <1>11, <1>12 DEF Step

\* A commit is the request of the catalogue that the handler serves.
LEMMA CommitRefines ==
  ASSUME IInv, Serial, InOrder, Copies, NEW h \in Handlers, Rename(h), file' # file
  PROVE  Catalog!Next
<1> DEFINE t == task[h]
<1>1. /\ t \in Task /\ Fit(t, bindings) /\ Alone(t, file, scopes, Told)
      /\ Copied(t, file, scopes) /\ t.pc = "rename" /\ file' = t.work /\ scopes' = scopes
  BY Typed DEF IInv, InOrder, Copies, Rename, At, disk, central
<1>2. /\ t.op \in {"list", "get", "update", "create", "discover", "delete"}
      /\ t.pc \in Working /\ t.work \in Registry /\ file \in Registry /\ scopes \subseteq Ids
  BY <1>1 DEF Alone, Phased, Refreshing, Adding, Working, Task, IInv, DiskOK, CentralOK
<1> HIDE DEF t
<1>3. \A p \in Ids : /\ t.work[p] # NoProject => t.work[p] \in Entry
                     /\ file[p] # NoProject => file[p] \in Entry
  BY <1>2 DEF Registry
<1>4. t.work = [p \in Ids |-> t.work[p]] /\ file = [p \in Ids |-> file[p]]
  BY <1>2 DEF Registry
<1>5. CASE t.op \in {"list", "get"}
  <2> DEFINE S == {p \in Ids : t.work[p] # file[p]}
  <2>1. \A p \in S : /\ file[p] # NoProject /\ file[p].binding = Unbound /\ p \in scopes
                     /\ t.work[p] = [file[p] EXCEPT !.binding = file[p].class]
    BY <1>1, <1>2, <1>5 DEF Copied, Migrating
  <2>2. t.work = [p \in Ids |-> IF p \in S THEN [file[p] EXCEPT !.binding = file[p].class]
                                ELSE file[p]]
    BY <1>4, <2>1
  <2>3. Catalog!Bind(S)
    <3> HIDE DEF S
    <3>1. S \subseteq Ids
      BY DEF S
    <3> QED BY <1>1, <2>1, <2>2, <3>1 DEF Catalog!Bind, Catalog!Listed
  <2> QED BY <2>3 DEF Catalog!Next
<1>6. ASSUME NEW p \in Ids, NEW e \in Entry, t.work[p] = e, e.binding = e.class,
             \A q \in Ids \ {p} : t.work[q] = file[q]
      PROVE  t.work = [file EXCEPT ![p] = Catalog!Governed(e.path, e.class)]
  <2>1. e = Catalog!Governed(e.path, e.class)
    BY <1>6 DEF Entry, Catalog!Governed
  <2> HIDE DEF Catalog!Governed
  <2> QED BY <1>2, <1>6, <2>1 DEF Registry
<1>7. CASE t.op = "update"
  <2>1. Amending(t, file, scopes) /\ t.refresh = {}
    BY <1>1, <1>2, <1>7 DEF Copied
  <2>2. PICK p \in Ids : p = t.id
    BY <2>1 DEF Amending
  <2>3. PICK e \in Entry : e = t.work[p]
    BY <1>3, <2>1, <2>2 DEF Amending
  <2>4. e.binding = e.class /\ e.path \in Paths /\ e.class \in Classes
    <3>1. e.binding \in {Unbound, e.class}
      BY <1>1, <2>1, <2>2, <2>3 DEF Fit, Sound, Present, Amending
    <3> QED BY <2>1, <2>2, <2>3, <3>1 DEF Amending, Entry
  <2>5. t.work = [file EXCEPT ![p] = Catalog!Governed(e.path, e.class)]
    BY <1>6, <2>1, <2>2, <2>3, <2>4 DEF Amending
  <2>6. e.path # file[p].path => Free(file, e.path, p)
    BY <2>1, <2>2, <2>3 DEF Amending
  <2>7. Catalog!Amend(p, e.path, e.class)
    BY <1>1, <2>1, <2>2, <2>5, <2>6
    DEF Amending, Free, Catalog!Amend, Catalog!Listed, Catalog!PathFree
  <2> QED BY <2>4, <2>7 DEF Catalog!Next
<1>8. CASE t.op = "create"
  <2>1. Registering(t, file, scopes) /\ t.adding = {}
    BY <1>1, <1>2, <1>8 DEF Copied
  <2>2. PICK p \in Ids : p = t.id
    BY <2>1 DEF Registering
  <2>3. PICK c \in Candidate : t.work[p] = Governed(c) /\ Free(file, c.path, p)
    BY <2>1, <2>2 DEF Registering
  <2> DEFINE e == Governed(c)
  <2>4. /\ e \in Entry /\ e.path = c.path /\ e.class = c.class
        /\ e.binding = e.class /\ e.path \in Paths /\ e.class \in Classes
    BY DEF Candidate, Governed, Entry
  <2> HIDE DEF e
  <2>5. t.work = [file EXCEPT ![p] = Catalog!Governed(e.path, e.class)]
    BY <1>6, <2>1, <2>2, <2>3, <2>4 DEF Registering, e
  <2>6. Catalog!Register(p, e.path, e.class)
    BY <1>1, <2>1, <2>2, <2>3, <2>4, <2>5
    DEF Registering, Free, Catalog!Register, Catalog!Listed, Catalog!PathFree
  <2> QED BY <2>4, <2>6 DEF Catalog!Next
<1>9. CASE t.op = "discover"
  <2>1. Finding(t, file, scopes)
    BY <1>1, <1>2, <1>9 DEF Copied
  <2>2. ASSUME NEW p \in Ids
        PROVE  \/ p \notin Catalog!Listed /\ t.work[p] = NoProject
               \/ p \in Catalog!Listed /\ t.work[p] = file[p]
               \/ \E c \in Candidates :
                    /\ c.id = p
                    /\ IF p \in Catalog!Listed THEN t.work[p] = [file[p] EXCEPT !.path = c.path]
                       ELSE /\ p \in scopes
                            /\ t.work[p] = Catalog!Governed(c.path, c.class)
                            /\ \A q \in Ids \ {p} :
                                 t.work[q] # NoProject => t.work[q].path # c.path
    <3>1. CASE t.work[p] = file[p]
      BY <3>1 DEF Catalog!Listed
    <3>2. CASE t.work[p] # file[p]
      <4>1. PICK c \in Candidates :
                    /\ c.id = p
                    /\ IF file[p] # NoProject THEN t.work[p] = [file[p] EXCEPT !.path = c.path]
                       ELSE p \in scopes /\ t.work[p] = Governed(c) /\ Free(t.work, c.path, p)
        BY <2>1, <3>2 DEF Finding, Found
      <4> QED BY <4>1 DEF Catalog!Listed, Catalog!Governed, Governed, Free
    <3> QED BY <3>1, <3>2
  <2>3. Catalog!Discover
    BY <1>1, <2>2 DEF Catalog!Discover
  <2> QED BY <2>3 DEF Catalog!Next
<1>10. CASE t.op = "delete"
  <2>1. /\ t.id \in Ids /\ file[t.id] # NoProject /\ t.id \notin scopes
        /\ t.work = [file EXCEPT ![t.id] = NoProject]
    BY <1>1, <1>10 DEF Alone, Keeping, Fit, Staged
  <2>2. Catalog!Remove(t.id)
    BY <1>1, <2>1 DEF Catalog!Remove, Catalog!Listed
  <2> QED BY <2>1, <2>2 DEF Catalog!Next
<1> QED BY <1>2, <1>5, <1>7, <1>8, <1>9, <1>10

\* When requests do not overlap, calls do not time out, the process does not
\* stop and no directory is discovered under two identifiers, the registry
\* implements the catalogue: every commit is one request applied whole to the
\* list as it is, of projects whose scope is as the request needs it.
THEOREM SerialImplements ==
  ASSUME Serial, Distinct
  PROVE  Spec => ImplementsCatalog
<1>1. Init => Catalog!Init /\ InOrder /\ Copies
  <2> SUFFICES ASSUME Init PROVE Catalog!Init /\ InOrder /\ Copies
    OBVIOUS
  <2>1. Level(file, scopes, Told)
    BY DEF Init, Level, LegacyFile, Present, Held
  <2>2. \A h \in Handlers : task[h] = IdleTask
    BY DEF Init
  <2>3. InOrder
    BY <2>1, <2>2, IdleAlone, IdleForm DEF InOrder, Init
  <2>4. Copies
    BY <2>2, IdleForm DEF Copies, Copied, Working
  <2>5. Catalog!Init
    BY DEF Init, Catalog!Init, Catalog!Entry, Registry, Entry
  <2> QED BY <2>3, <2>4, <2>5
<1>2. IInv /\ InOrder /\ Copies /\ [Next]_vars => (InOrder /\ Copies)'
  BY NextInOrder, NextCopies
<1>3. IInv /\ InOrder /\ Copies /\ [Next]_vars => [Catalog!Next]_<<file, scopes>>
  <2> SUFFICES ASSUME IInv, InOrder, Copies, [Next]_vars
               PROVE  [Catalog!Next]_<<file, scopes>>
    OBVIOUS
  <2>1. ~Crash /\ inflight = {}
    BY DEF Serial, InOrder, Crash
  <2>2. CASE UNCHANGED vars
    BY <2>2 DEF vars
  <2>3. ASSUME NEW h \in Handlers, Request(h) \/ Step(h)
        PROVE  [Catalog!Next]_<<file, scopes>>
    <3>1. file' = file \/ Rename(h)
      BY <2>3 DEF Request, List, Get, Create, Update, Delete, Step, EnsureScope,
        EnsureBinding, EnsureDone, AdoptCandidate, AddScope, AddBinding, AddDone, UndoOwn,
        Rollback, RollbackDone, Deactivate, Reactivate, WriteTemp, disk
    <3> QED BY <2>3, <3>1, ScopesSwitch, CommitRefines
  <2> QED BY <2>1, <2>2, <2>3 DEF Next
<1> QED BY <1>1, <1>2, <1>3, RegistryInvariant, PTL DEF Spec, ImplementsCatalog, Catalog!Spec

=============================================================================
