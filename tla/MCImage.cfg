SPECIFICATION MCSpec
CONSTANTS
  w1 = w1  w2 = w2  s = s  a = a  b = b
  Worker = {w1, w2}
  Clusters <- MCClusters
  Super = s
  Modes = {"single", "old", "multi"}
  Faults = {"read", "zlib", "nomem", "write", "open", "devs"}
  MaxFaults = 2
  Nobody = Nobody
INVARIANTS ClustersWellFormed  ReportedGoodIsRestored RestoreInv
PROPERTIES DumpEnds RestoreEndsHere
CHECK_DEADLOCK FALSE
