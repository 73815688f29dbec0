SPECIFICATION Spec
CONSTANTS
  fsTree = fsTree
  rootTree = rootTree
  chunkTree = chunkTree
  extentTree = extentTree
  SubVol = {fsTree}
  Tracked = {}
  ROOT = rootTree
  CHUNK = chunkTree
  EXT = extentTree
  Block = {0, 1, 2, 3, 4, 5, 6, 7}
  Dev = {d1}
  MirrorMax = 2
  Val = {0}
  Val0 = 0
  InitNode <- MCInitNode
  FirstFit = TRUE
  UserTree = {fsTree}
  StartRoot = {fsTree, rootTree, chunkTree, extentTree}
  MaxKids = 1
  MaxGen = 3
  MaxCrash = 1
  None = None
INVARIANTS
  IInv
  CommittedAccounted
  SpacePartition
  CloseNeverRecommits
PROPERTIES
  CommitEnds
CHECK_DEADLOCK FALSE
