CONSTANTS
  a = a
  b = b
  P = P
  Q = Q
  internal = internal
  health = health
  Handlers = {h1, h2}
  Ids = {a, b}
  Paths = {P, Q}
  Classes = {internal}
  Candidates <- NoCandidates
  Stamps = {s1}
  Faults = {"disk", "crash"}
  NoProject = NoProject
  NoFile = NoFile
  Unbound = Unbound
SPECIFICATION Spec
INVARIANTS
  UniquePaths
SYMMETRY Overlap
