SPECIFICATION Spec
CONSTANTS
  Numbers = {1, 2, 3}
  Length = 5
  MiB = 1
  Phones <- MCPhones
INVARIANT PictureIsTrue
INVARIANT MountedShownBusy
INVARIANT SuccessMeansMeant
INVARIANT TextIsTrue
CHECK_DEADLOCK FALSE
