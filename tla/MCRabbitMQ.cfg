\* Two identities, four connections, two retry loops of one retry.
SPECIFICATION FairSpec
CONSTANTS
  Identities = 2
  MaxRetries = 1
  Loops = {"r1", "r2"}
  MaxConns = 4
INVARIANTS
  TypeOK
  NeverAbandoned
  OneConnection
  DisposeClosesAll
PROPERTIES
  RetriesEnd
CHECK_DEADLOCK FALSE
