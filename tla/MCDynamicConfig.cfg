\* Two chains of refreshes and an update, over a document that others change.
SPECIFICATION FairSpec
CONSTANTS
  Configs = {"a", "zero", "bad"}
  Valid = {"a", "zero"}
  Parsed = {"parsed a", "zero"}
  Parse <- MCParse
  Falsy = {"zero"}
  Default = "zero"
  Chains = {"c1", "c2"}
  Updates = {"u"}
INVARIANTS
  TypeOK
  ServesStored
  RefreshGoesOn
  DisposeStops
PROPERTIES
  Converges
CHECK_DEADLOCK FALSE
