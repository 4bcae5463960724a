\* Two files of a case, one of them plain.
SPECIFICATION Spec
CONSTANTS
  GetLists <- MCGetLists
  Leftovers <- MCLeftovers
  PowerFiles <- MCPowerFiles
INVARIANTS
  LimitsDecide
  EveryValueIsReported
CHECK_DEADLOCK FALSE
