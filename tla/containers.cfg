\* Each container by itself: a ring of up to three places, two keys of three
\* with one hash, trees of up to four keys, arrays of up to three elements.
CONSTANTS
  Values = {v1, v2}
  unwritten = unwritten
  nullptr = nullptr
  RingCapacities = {0, 1, 3}
  Word = 8
  TotalSizes = {0, 5}
  RequestSizes = {0, 1, 2, 4, 6}
  MaxLinearBlocks = 3
  Reserves = {2, 9, 17}
  MaxElements = 3
  HashWord = 65536
  Keys <- SomeKeys
  element_counts = {0, 1, 2}
  TreeKeys = {1, 2, 3, 4}
  ArrayCapacities = {0, 1, 3}
  MaxLength = 3
SPECIFICATION Spec
INVARIANTS LinearBlocksApart FewElementsKeepOrder HashtableLosesOnlyCollisions TreeIsMap ArrayIsSequence IteratorInside
PROPERTIES RingImplementsFifo
CHECK_DEADLOCK FALSE
