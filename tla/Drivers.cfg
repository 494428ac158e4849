CONSTANTS
  Types <- AllTypes
  Kernels <- MCKernels
  MaxMissing = 1
  MaxCalls = 2
  MaxFaults = 2
SPECIFICATION Spec
INVARIANTS
  HonestResult
  CleanedUp
  RightState
CHECK_DEADLOCK FALSE
