\* Two requests, each of which calls a service that fails in every way.
SPECIFICATION RequestsSpec
CONSTANTS
  Requests = {1, 2}
  Calls = {1, 2}
  Routes <- BareRoutes
  Limit = 1
  MaxWindows = 1
  Services <- MCServices
  Configured = {"echo"}
  Traces = {1, 2}
  NoTrace = 0
  Flags <- NoFlags
  MaxAttempts = 2
  Service = "echo"
  TraceOf <- MCTraceOf
INVARIANTS
  TracePropagates
CHECK_DEADLOCK FALSE
