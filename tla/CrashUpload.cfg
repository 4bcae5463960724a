\* Two reports, all kinds of timeouts.
SPECIFICATION Spec
CONSTANTS
  Reports = {r1, r2}
  Timeouts <- AllTimeouts
  Noise = 1
INVARIANTS
  TypeOK
  ScanFindsAll
  UploadIsNoticed
  FoundIsAccountedFor
PROPERTY RunnerGetsThrough
CHECK_DEADLOCK FALSE
