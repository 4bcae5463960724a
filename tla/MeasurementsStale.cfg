\* Two files of a case, one of them plain.
SPECIFICATION Spec
CONSTANTS
  GetLists <- MCGetLists
  Leftovers <- MCLeftovers
  PowerFiles <- MCPowerFiles
INVARIANT OnlyFetchedIsEvaluated
CHECK_DEADLOCK FALSE
