SPECIFICATION FairSpec
CONSTANTS
  DEBOUNCE_DELAY = 1
  BAR_DELAY_THRESH = 2
  MAX_CHANGES = 6
INVARIANTS
  TypeOK
  NeverDeaf
  HandlerSeesPins
  HeldIsTimed
PROPERTIES
  ButtonsSettle
