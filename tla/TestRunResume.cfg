\* Host-based runs with --resume=exit over all plans.
SPECIFICATION Spec
CONSTANTS
  Plans <- AllPlans
  Builtin <- BuiltinPlan
  Remote = TRUE
  ResumeAction = "exit"
  Codes = {0, 255}
INVARIANTS
  TypeOK
  VerdictIsEarned
  LostLinkSkipsRest
  ExitRunsNoFurtherSet
  FailedPreStepAbortsSet
  CaseStepsSwept
  PassesAreCounted
PROPERTIES
  PromiseIsKept
  RunEnds
