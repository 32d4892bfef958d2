\* Every module, two identities, two loads and two disposals at any moment.
SPECIFICATION Spec
CONSTANTS
  NumIds = 2
  Modules <- AllModules
  MaxLoads = 2
  MaxDisposals = 2
INVARIANTS
  TypeOK
  NothingLost
  DisposeCloses
  LoadedIsVerified
\* The bounded calls are used up.
CHECK_DEADLOCK FALSE
