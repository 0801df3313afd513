\* Room for three of the smallest blocks; requests that need aligning, and one
\* that is refused by the assertion on 32-bit sizes although the memory could
\* hold it.  28 is near the end of a u64: its sum wraps, to zero and to
\* a size that the memory holds.
CONSTANTS
  TotalSize = 15
  MemoryBlock = 5
  HeaderSize = 2
  StorageSize = 1
  MaxRequired = 9
  U64Range = 32
  Sizes = {1, 2, 10, 28}
  Alignments = {1, 4}
SPECIFICATION Spec
INVARIANTS MetadataIntact TakenIsHeld
PROPERTIES ImplementsHeap
\* A failed assertion ends the process.
CHECK_DEADLOCK FALSE
