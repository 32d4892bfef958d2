\* One load, every caller of dispose(), timers, a module that throws and one that replaces another.
SPECIFICATION FairSpec
CONSTANTS
  cfg = cfg
  db = db
  web = web
  web2 = web2
  Instances = {cfg, web, web2}
  Names <- MCNames
  NameOf <- MCNameOf
  ConfigModule = cfg
  SyncThrowers = {web}
  AppCodes <- MCAppCodes
  MaxLoads = 1
INVARIANTS
  TypeOK
  Teardown
PROPERTIES
  DisposeExits
  SignalExits
  LoadFailureExits
\* The process ends, and an idle application takes no step.
CHECK_DEADLOCK FALSE
