\* Every document, then updates of one field.
SPECIFICATION Spec
CONSTANTS
  Keys <- MCKeys
  Values <- MCValues
  Depth <- MCDepth
  MaxDepth = 3
  MaxFields = 2
  Documents <- MCDocuments
  Updates <- MCUpdates
  MaxWrites = 2
INVARIANTS
  RoundTrip
\* The bounded calls are used up.
CHECK_DEADLOCK FALSE
