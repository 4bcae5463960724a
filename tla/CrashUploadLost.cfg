\* A report whose copy fails.
SPECIFICATION Spec
CONSTANTS
  Reports = {r1}
  Timeouts <- AllTimeouts
  Noise = 0
INVARIANT ReportIsKept
CHECK_DEADLOCK FALSE
