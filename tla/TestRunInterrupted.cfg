\* An interrupt during a step that expects the device to reboot.
SPECIFICATION Spec
CONSTANTS
  Plans <- RebootPlan
  Builtin <- NoPlan
  Remote = TRUE
  ResumeAction = "none"
  Codes = {0, 255}
INVARIANT InterruptIsNotForgotten
