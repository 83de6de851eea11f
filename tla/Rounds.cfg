SPECIFICATION SpecH
CONSTANTS
  NB_COLUMNS = 2
  NB_ROWS = 2
  NB_GOLDEN_COLS = 1
  THRESH_GOLDEN = 2
  SCORE_VEL_STEP = 2
  MAX_ITER = 2
INVARIANTS
  TypeOK
  GoldenConserved
  LabelsMatchHolders
  MessageNotTorn
  RoundBreaksTheHitBrick
  SoonestWins
  PhasesDoNotMix
  BooksBalance
  OneBoostPerStep
  SomeThreadReady
  WonOnEmptyWall
  MessageTellsTheEnd
PROPERTIES
  EndIsFinal
  PlaysBreakout
  MessagesFollow
