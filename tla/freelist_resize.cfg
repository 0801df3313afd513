\* One resize, that grows the list, at any point of the calls.
CONSTANTS
  TotalSize = 6
  EntrySpan = 6
  MinEntries = 4
  Sizes = {1, 2}
  Growths = {1, 2}
  MaxResizes = 1
  nullptr = nullptr
SPECIFICATION ResizeSpec
INVARIANTS ResizedPartition
PROPERTIES ResizeCopiesTheList
\* A null dereference ends the process.
CHECK_DEADLOCK FALSE
