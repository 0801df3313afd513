SPECIFICATION Spec

CONSTANTS
  Threads = {t1, t2}
  Sizes = {2}
  Capacity = 3
  LogSize = 1
  Tags = {game}
  StringTag = string
  MaxHeld = 1
  MaxRefused = 1
  MaxStack = 6
  null = null

PROPERTIES
  CallsReturn

\* A thread out of stack ends the process.
CHECK_DEADLOCK FALSE
