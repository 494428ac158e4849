CONSTANTS
  MEBIBYTE = 16
  Overhead = 1
  Disks <- MCDisks
  Places <- MCPlaces
  Growths = {0, 20}
  MaxEdits = 2
SPECIFICATION Spec
INVARIANTS
  MinimumHoldsData
  ShownAsUsed
CHECK_DEADLOCK FALSE
