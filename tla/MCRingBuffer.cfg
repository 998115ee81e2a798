CONSTANTS
  Capacity = 4
  Counts = {1, 3, 4}
  Item = {a, b}
SPECIFICATION Spec
INVARIANTS
  TypeOK
  NoDataRace
PROPERTIES
  ImplementsFifo
CHECK_DEADLOCK TRUE
