\* Three modules, two loads, disposals that do not exit.
SPECIFICATION ReloadSpec
CONSTANTS
  cfg = cfg
  db = db
  web = web
  web2 = web2
  Instances = {cfg, db, web}
  Names <- MCNames
  NameOf <- MCNameOf
  ConfigModule = cfg
  SyncThrowers = {}
  AppCodes <- MCAppCodes
  MaxLoads = 2
INVARIANTS
  OneSeriesPerLoad
  DependenciesUp
PROPERTIES
  ImplementsShutdown
\* The process ends, and an idle application takes no step.
CHECK_DEADLOCK FALSE
