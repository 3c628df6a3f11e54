SPECIFICATION FairSpec
CONSTANTS
  Capacity = 3
  MaxBatch = 2
  Chunk = 2
  MaxHeard = 7
INVARIANT FinishedIsComplete
PROPERTIES ImplementsFifo JoinReturns
