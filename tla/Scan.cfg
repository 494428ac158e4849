SPECIFICATION Spec
CONSTANTS
  Sessions <- AllSessions
  ProtectedMemSize = 24
INVARIANT InUseIsShownBusy
INVARIANT PictureIsTrue
INVARIANT DetailsAreTrue
INVARIANT PasswordsKept
CHECK_DEADLOCK FALSE
