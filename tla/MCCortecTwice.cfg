\* load() resets the flag while a disposal is under way.
SPECIFICATION Spec
CONSTANTS
  cfg = cfg
  db = db
  web = web
  web2 = web2
  Instances = {cfg, web}
  Names <- MCNames
  NameOf <- MCNameOf
  ConfigModule = cfg
  SyncThrowers = {}
  AppCodes <- GracefulCodes
  MaxLoads = 1
INVARIANTS
  NotDisposingTwice
\* The process ends, and an idle application takes no step.
CHECK_DEADLOCK FALSE
