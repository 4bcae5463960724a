SPECIFICATION Spec
CONSTANTS
  Steps = 2
  MaxRetries = 1
  MaxSignals = 2
INVARIANTS
  TypeOK
  ChannelIsLive
  NotRunIsTold
  KilledIsTold
  FreedOnlyIfRevived
PROPERTY
  StepEnds
CHECK_DEADLOCK FALSE
