SPECIFICATION Spec
INVARIANTS
  
  RefsExact
  SharedChecked
  QuotaExact
CHECK_DEADLOCK FALSE
