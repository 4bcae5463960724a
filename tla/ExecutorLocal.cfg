\* A local step, twice, with two descendants of the command.
SPECIFICATION Spec
CONSTANTS
  Remote = FALSE
  SoftTimeout = 90
  HardTimeout = 5
  Descendants = {k1, k2}
  ExitCodes = {0, 255}
  MaxSteps = 2
  MaxOutput = 2
  Chatty = FALSE
INVARIANTS
  TypeOK
  RunnerNeverHit
  ResultIsTheCommands
  TimedOutGroupGone
  EscalationNeedsAlarms
  NoTimerBetweenSteps
  NoOutputLost
PROPERTY StepEnds
