\* Keys that arrive while the handler of an earlier one runs with interrupts on.
CONSTANTS
  Chars <- MCChars
  Keys <- MCNested
  EXTENDED_BUFFER = 4
  NBYTES = 2
  MaxDepth = 2
  MaxKeys = 3
SPECIFICATION Spec
INVARIANTS
  ReadsInOrder
CHECK_DEADLOCK FALSE
