SPECIFICATION FairSpec
CONSTANTS
  READBUF_SIZE = 3
  Bytes = {"a", "backspace", "return", "newline", "lead3", "cont"}
  MaxText = 4
  Scripts <- AllScripts
INVARIANT WokenOnce
INVARIANT NothingDangles
INVARIANT ReturnsWhatHappened
PROPERTY CommandsReturn
CHECK_DEADLOCK FALSE
