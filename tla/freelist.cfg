\* Six bytes in blocks of one to three, and a pool of three nodes, which the
\* callers can exhaust.
CONSTANTS
  TotalSize = 6
  EntrySpan = 6
  MinEntries = 3
  Sizes = {1, 2, 3}
  nullptr = nullptr
SPECIFICATION FairSpec
INVARIANTS TypeOK Links Partition FreeSpaceIsWhatIsLeft
           ExhaustedOnlyByFragmentation ClearDiesOnlyWhenFull
PROPERTIES LiveBlockIsFreed RefusedFreeIsHarmless RefusedOnlyIfNothingFits
           CallsReturn ImplementsFreeSpace
\* A null dereference, of an exhausted pool or of an empty head, ends the process.
CHECK_DEADLOCK FALSE
