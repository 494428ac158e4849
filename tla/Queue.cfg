SPECIFICATION Spec
CONSTANTS
  Length = 8
  MiB = 1
  Sessions <- AllSessions
  MaxPrims = 3
  Labels = {"x"}
  NoPartition = NoPartition
INVARIANT QueuedAsMeant
INVARIANT FeasibleInOrder
INVARIANT NumbersHold
PROPERTY OneEditOnePartition
PROPERTY ClipboardKeepsPartition
CONSTRAINT InOrder
CHECK_DEADLOCK FALSE
