SPECIFICATION Spec
CONSTANTS
  Keys <- MCKeys
  Buttons = {"left"}
  Points <- MCPoints
  Syms <- MCSyms
  KeyOf <- MCKeyOf
  Sizes = {1, 2}
  MaxWindows = 2
  MaxEvents = 2
  MaxQueue = 2
  GpuLists <- MCGpuLists
  FormatCounts = {0, 1, 2}
  ModeCounts = {0, 1}
  escape = 27
INVARIANTS
  EngineSurvives
  OrderedTeardown
  GpuReportsBalance
  DownKeysAreHeld
PROPERTY
  QuitEnds
CHECK_DEADLOCK FALSE
