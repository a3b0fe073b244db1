SPECIFICATION Spec
CONSTANTS
  Projects = {"p1", "p2"}
  Subject = "caller"
  None = None
  Requests <- MCRequests
  Offered <- MCOffered
  Keys = {k1}
  Configs <- MCConfigs
  Projections <- MCProjections
  Decisions <- MCDecisions
  Bindings <- MCBindings
  Stored <- MCStored
  CacheLife = 1
  MaxTime = 1
INVARIANTS
  TypeOK
  EffectsAreDecided
  ListsAreExact
  OutwardHasPap
  LocalAllowsOnlyLocally
  KeysAreRecent
  ReadyIsConfigured
