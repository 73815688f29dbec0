SPECIFICATION Spec
CONSTANTS
  Sector = 2
  MaxInline = 3
  NoHoles = FALSE
  Hash <- MCHash
  NameLen <- MCNameLen
INVARIANTS VerdictExact   LowmemVerdict LowmemNamesKept
  ExtentVerdict ExtentsRepaired
 
CHECK_DEADLOCK FALSE
