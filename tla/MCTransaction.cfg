SPECIFICATION Spec
CONSTANTS
  fsTree = fsTree
  rootTree = rootTree
  chunkTree = chunkTree
  extentTree = extentTree
  SubVol = {fsTree}
  Tracked = {}
  ROOT = rootTree
  CHUNK = chunkTree
  EXT = extentTree
  Block = {0, 1, 2, 3, 4, 5, 6, 7}
  Dev = {d1, d2}
  MirrorMax = 1
  Val = {0, 1}
  Val0 = 0
  InitNode <- MCInitNode
  FirstFit = TRUE
  UserTree = {fsTree, chunkTree}
  StartRoot = {fsTree, extentTree}
  MaxKids = 0
  MaxGen = 3
  MaxCrash = 1
  None = None
INVARIANTS
  TypeOK
  

  
CHECK_DEADLOCK FALSE
