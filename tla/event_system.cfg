\* Three listeners of one code, and events of that code fired again from inside
\* their callbacks: the slots of the array move, fill and empty under the loop.
CONSTANTS
  Codes = {key}
  SystemCodes = {key}
  Listeners = {l1, l2, l3}
  Callbacks = {f}
  MaxDepth = 2
  MaxLength = 4
  none = none
  no_call = no_call
SPECIFICATION Spec
INVARIANTS TypeOK EachInTurn
PROPERTIES CalledWasRegistered FiresReturn
