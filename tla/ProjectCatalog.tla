---------------------------- MODULE ProjectCatalog ----------------------------
(***************************************************************************)
(* What the project registry promises its callers, without handlers,       *)
(* files, retries or failures: the list of projects changes by one request *)
(* at a time, each applied to the list as it is, and a project is added,   *)
(* bound or edited while its central scope is active and removed while it  *)
(* is not (docs/api.md: scope(active) -> binding -> local atomic rename;   *)
(* scope(inactive) -> local atomic rename). ProjectRegistry implements it  *)
(* when requests do not overlap. Discovered directories are Candidates.    *)
(***************************************************************************)
CONSTANTS Ids, Paths, Classes, Candidates, NoProject, Unbound

VARIABLES catalog, active

Entry == [path: Paths, class: Classes, binding: Classes \cup {Unbound}]

Listed == {p \in Ids : catalog[p] # NoProject}
Governed(path, class) == [path |-> path, class |-> class, binding |-> class]
PathFree(path, others) == \A p \in Listed \cap others : catalog[p].path # path

Init ==
  /\ catalog \in [Ids -> Entry \cup {NoProject}]
  /\ active = {}

Register(p, path, class) ==
  /\ p \notin Listed /\ p \in active
  /\ PathFree(path, Ids)
  /\ catalog' = [catalog EXCEPT ![p] = Governed(path, class)]
  /\ UNCHANGED active

Amend(p, path, class) ==
  /\ p \in Listed \cap active
  /\ path # catalog[p].path => PathFree(path, Ids \ {p})
  /\ catalog' = [catalog EXCEPT ![p] = Governed(path, class)]
  /\ UNCHANGED active

\* Legacy entries get their binding, one or several in one commit.
Bind(S) ==
  /\ S \subseteq Listed \cap active
  /\ \A p \in S : catalog[p].binding = Unbound
  /\ catalog' = [p \in Ids |-> IF p \in S THEN [catalog[p] EXCEPT !.binding = catalog[p].class]
                               ELSE catalog[p]]
  /\ UNCHANGED active

\* A listing adds what it discovers, several projects in one commit, and an
\* entry of a discovered identifier takes the discovered directory, which is
\* not checked against the other entries.
Discover ==
  /\ \A p \in Ids :
       \/ p \notin Listed /\ catalog'[p] = NoProject
       \/ p \in Listed /\ catalog'[p] = catalog[p]
       \/ \E c \in Candidates :
            /\ c.id = p
            /\ IF p \in Listed THEN catalog'[p] = [catalog[p] EXCEPT !.path = c.path]
               ELSE /\ p \in active
                    /\ catalog'[p] = Governed(c.path, c.class)
                    /\ \A q \in Ids \ {p} :
                         catalog'[q] # NoProject => catalog'[q].path # c.path
  /\ UNCHANGED active

Remove(p) ==
  /\ p \in Listed \ active
  /\ catalog' = [catalog EXCEPT ![p] = NoProject]
  /\ UNCHANGED active

Switch(p, on) ==
  /\ active' = IF on THEN active \cup {p} ELSE active \ {p}
  /\ UNCHANGED catalog

Next ==
  \/ \E p \in Ids, path \in Paths, class \in Classes :
       Register(p, path, class) \/ Amend(p, path, class)
  \/ \E S \in SUBSET Ids : Bind(S)
  \/ Discover
  \/ \E p \in Ids : Remove(p) \/ \E on \in BOOLEAN : Switch(p, on)

Spec == Init /\ [][Next]_<<catalog, active>>
=============================================================================
