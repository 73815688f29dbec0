SPECIFICATION MCSpec
CONSTANTS
  p1 = p1  p2 = p2  d1 = d1  d2 = d2
  Proc = {p1}
  Dev = {d1, d2}
  Size = 2
  Background = FALSE
  Devices = {{d1, d2}}
  MaxRuns = 2
  MaxCancels = 1
  MaxReboots = 1
  MaxFaults = 1
  MaxMishaps = 3
  TwoProcs = {p1, p2}
  OneDev = {d1}
  None = None
INVARIANTS FinishedIsCovered RecordNotAhead ResultRecorded PairLeavesNoSocket
CHECK_DEADLOCK FALSE
