CONSTANTS
  MaxEntries = 4
SPECIFICATION Spec
INVARIANTS
  StagesSelection
CHECK_DEADLOCK FALSE
