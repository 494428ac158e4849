SPECIFICATION FairSpec
CONSTANTS
  DeviceLength = 9
  MaxLength = 8
  Moves <- AllMoves
INVARIANT MovedIntact
INVARIANT RestoredIntact
INVARIANT NothingLost
INVARIANT BystandersUntouched
INVARIANT CancelRestores
PROPERTY Implements
CHECK_DEADLOCK FALSE
