CONSTANTS
  Step = 3
  MaxRecords = 6
  MaxKey = 7
SPECIFICATION Spec
INVARIANTS
  DbTypeOK
  LookupExact
  MissesOnlyTail
