SPECIFICATION Spec
CONSTANTS
  Length = 40
  MiB = 4
  Width = 12
  Border = 1
  Track = 3
  Cylinder = 6
  GptSectors = 2
  Situations <- MCSituations
  MaxEdits = 2
INVARIANT InItsPlace
INVARIANT AsShown
INVARIANT ChoiceHolds
CHECK_DEADLOCK FALSE
