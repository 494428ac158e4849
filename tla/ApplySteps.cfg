SPECIFICATION Spec
CONSTANTS
    First = 3
    Last = 7
    Neighbours <- MCNeighbours
    Scenarios <- MCScenarios
    CanGrow = TRUE
    Named = TRUE
    MaxFaults = 2
    NoPlace = NoPlace
INVARIANTS
    StaysInside
    TargetFound
    Mountable
    HonestOutcome
CHECK_DEADLOCK FALSE
