SPECIFICATION Spec

CONSTANTS
  Threads = {t1, t2}
  Sizes = {3}
  Capacity = 5
  LogSize = 1
  Tags = {game}
  StringTag = string
  MaxHeld = 1
  MaxRefused = 1
  MaxStack = 7
  null = null

INVARIANTS
  EveryAllocationTracked

\* A thread out of stack ends the process.
CHECK_DEADLOCK FALSE
