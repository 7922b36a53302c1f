SPECIFICATION Spec
CONSTANTS
  Record = {1, 2, 3, 4}
  Slots = 4
  Sample = 2
  MaxIndex = 2
  Deleted = Deleted
CHECK_DEADLOCK FALSE
INVARIANTS
  LookupFinds
  TableOK
PROPERTIES
  InsertSpares
  Implements
