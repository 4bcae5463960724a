\* A step of a host-based run: the command is on the target, the link may fail.
SPECIFICATION Spec
CONSTANTS
  Remote = TRUE
  SoftTimeout = 90
  HardTimeout = 5
  Descendants = {k1}
  ExitCodes = {0, 255}
  MaxSteps = 2
  MaxOutput = 1
  Chatty = FALSE
INVARIANTS
  NoFalseConnectionFailure
PROPERTIES
  InterruptIsKept
  StepEndsUnlessExecutorHangs
