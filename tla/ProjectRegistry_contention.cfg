CONSTANTS
  a = a
  b = b
  P = P
  Q = Q
  internal = internal
  health = health
  Handlers = {h1, h2}
  Ids = {a}
  Paths = {P}
  Classes = {internal, health}
  Candidates <- NoCandidates
  Stamps = {s1}
  Faults = {"reject", "timeout", "disk", "crash"}
  NoProject = NoProject
  NoFile = NoFile
  Unbound = Unbound
SPECIFICATION Spec
INVARIANTS
  BindingMatchesClassification
  StoredBindingsRegistered
SYMMETRY Overlap
