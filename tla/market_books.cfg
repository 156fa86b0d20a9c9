SPECIFICATION BooksFairSpec
CONSTANTS
  Levels = {1, 2}
  MaxSize = 1
  Sequenced = TRUE
  MaxChanges = 3
  MaxBreaks = 2
INVARIANT BookSound
PROPERTY BookConverges
CHECK_DEADLOCK FALSE
