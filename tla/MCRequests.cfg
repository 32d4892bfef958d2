\* Two requests, each of which calls a service that fails in every way.
SPECIFICATION FairRequestsSpec
CONSTANTS
  Requests = {1, 2}
  Calls = {1, 2}
  Routes <- MCRoutes
  Limit = 1
  MaxWindows = 1
  Services <- MCServices
  Configured = {"echo"}
  Traces = {1, 2}
  NoTrace = 0
  Flags <- MCFlags
  MaxAttempts = 2
  Service = "echo"
  TraceOf <- MCTraceOf
INVARIANTS
  TypesOK
  LimitKept
  StageDecides
  RepeatedOnlyAfter5XX
  NoticedOnceAtTheEnd
  TraceKept
PROPERTIES
  ImplementsResponder
  EveryRequestEnds
\* Every request has ended, or the process has exited.
CHECK_DEADLOCK FALSE
