SPECIFICATION Spec
CONSTANTS
  Length = 8
  MiB = 1
  Sessions <- ResizingPrimaries
  MaxPrims = 3
  Labels = {"x"}
  NoPartition = NoPartition
INVARIANT StepsFeasible
CHECK_DEADLOCK FALSE
