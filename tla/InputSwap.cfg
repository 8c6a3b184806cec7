\* Two terminals with their shells and one key buffer.
CONSTANTS
  Chars <- MCChars
  Keys <- MCSwap
  EXTENDED_BUFFER = 4
  NBYTES = 2
  MaxDepth = 1
  MaxKeys = 4
SPECIFICATION Spec
INVARIANTS
  OwnKeyboardBuffer
CHECK_DEADLOCK FALSE
