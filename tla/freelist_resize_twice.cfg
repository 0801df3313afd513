\* Two resizes, that grow the list, at any point of the calls.
CONSTANTS
  TotalSize = 6
  EntrySpan = 6
  MinEntries = 4
  Sizes = {1, 2}
  Growths = {1, 2}
  MaxResizes = 2
  nullptr = nullptr
SPECIFICATION ResizeSpec
PROPERTIES ResizeCopiesTheList
\* A null dereference ends the process.
CHECK_DEADLOCK FALSE
