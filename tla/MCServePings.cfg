SPECIFICATION FairSpec
CONSTANTS
  LogonLimit = 2
  MaxMessages = 1
  MaxPieces = 2
  MaxControls = 2
PROPERTY PingsAreAnswered
CHECK_DEADLOCK FALSE
