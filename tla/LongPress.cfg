SPECIFICATION Spec
CONSTANTS
  DEBOUNCE_DELAY = 1
  BAR_DELAY_THRESH = 2
  MAX_CHANGES = 4
PROPERTIES
  JumpsOrSlides
