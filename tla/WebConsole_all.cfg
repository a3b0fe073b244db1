SPECIFICATION FairSpec

CONSTANTS
  None = None
  t1 = t1
  p1 = p1
  Issued = {t1}
  Pasted = {p1}
  Settings <- Users
  MaxRuns = 2
  Attempts = 2

INVARIANTS
  TypeOK
  DeniedShowsNothing
  SessionsDoNotMix
  SignInFollows
PROPERTIES
  FinishedStays
  QueuedIsFollowed

CHECK_DEADLOCK FALSE
