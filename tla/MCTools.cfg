SPECIFICATION MCSpec
CONSTANTS
  d1 = d1  d2 = d2
  Dev = {d1, d2}
  MirrorMax = 2
  Block = {1, 2, 3}
  RootNode = 1
  OpenReads = {1}
  Home <- UuidHome
  Fsid = {f0, f1, f2, f3}
  Fsid0 = f0
  Chunk = {c0, c1, c2}
  Chunk0 = c0
  MaxCrash = 2
  None = none
  top = top  leaf1 = leaf1  leaf2 = leaf2  chunk1 = chunk1  chunk2 = chunk2  chunk3 = chunk3
INVARIANTS MountableIsUniform RenameInv AllChunksFound ImageFaithful  SourceOrBtrfs
  NewestKept 
PROPERTIES SearchEnds
CHECK_DEADLOCK FALSE
