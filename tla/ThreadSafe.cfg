SPECIFICATION Spec
CONSTANTS
  NB_COLUMNS = 2
  MAX_RESETS = 0
INVARIANT OnePrinter
CHECK_DEADLOCK FALSE
