CONSTANTS
  a = a
  b = b
  P = P
  Q = Q
  internal = internal
  health = health
  Handlers = {h1}
  Ids = {a, b}
  Paths = {P, Q}
  Classes = {internal, health}
  Candidates <- TwoCandidates
  Stamps = {s1}
  Faults = {"reject", "disk"}
  NoProject = NoProject
  NoFile = NoFile
  Unbound = Unbound
SPECIFICATION FairSpec
INVARIANTS
  TypeOK
  ScopesAgree
PROPERTIES
  ImplementsCatalog
  RequestsEnd
