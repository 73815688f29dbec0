SPECIFICATION Spec
CONSTANTS
  p1 = p1  p2 = p2  d1 = d1  d2 = d2
  Proc = {p1}
  Dev = {d1}
  Size = 2
  Background = TRUE
  Devices = {{d1}}
  MaxRuns = 3
  MaxCancels = 2
  MaxReboots = 0
  MaxFaults = 0
  MaxMishaps = 2
  None = None
INVARIANTS ResumeSkipsNothing
CHECK_DEADLOCK FALSE
