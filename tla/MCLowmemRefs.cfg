SPECIFICATION LostRefSpec
CONSTANTS
  Sector = 2
  MaxInline = 3
  NoHoles = FALSE
  Hash <- MCHash
  NameLen <- MCNameLen
INVARIANT RefAdded
CHECK_DEADLOCK FALSE
