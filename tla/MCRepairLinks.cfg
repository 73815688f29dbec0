SPECIFICATION LinkCountSpec
CONSTANTS
  Sector = 2
  MaxInline = 3
  NoHoles = FALSE
  Hash <- MCHash
  NameLen <- MCNameLen
INVARIANT LinksCounted

CHECK_DEADLOCK FALSE
