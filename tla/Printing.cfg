SPECIFICATION FairSpec
CONSTANTS
  NB_COLUMNS = 3
  MAX_RESETS = 2
INVARIANTS
  NeverOrphaned
PROPERTIES
  NobodyCutsIn
  EverythingPrinted
CHECK_DEADLOCK FALSE
