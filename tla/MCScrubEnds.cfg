SPECIFICATION Spec
CONSTANTS
  p1 = p1  p2 = p2  d1 = d1  d2 = d2
  Proc = {p1}
  Dev = {d1, d2}
  Size = 1
  Background = TRUE
  Devices = {{d1, d2}}
  MaxRuns = 2
  MaxCancels = 1
  MaxReboots = 1
  MaxFaults = 1
  MaxMishaps = 2
  None = None
PROPERTIES ScrubEnds
CHECK_DEADLOCK FALSE
