CONSTANTS
  Worlds <- MCWorlds
  NoDevice <- MCNoDevice
SPECIFICATION Spec
INVARIANTS
  DrawnAsItIs
  WindowHolds
  DialogsAgree
CHECK_DEADLOCK FALSE
