\* One key at a time: no key arrives while the handler of another one runs.
CONSTANTS
  Chars <- MCChars
  Keys <- MCAllKeys
  EXTENDED_BUFFER = 4
  NBYTES = 2
  MaxDepth = 1
  MaxKeys = 5
SPECIFICATION Spec
INVARIANTS
  TypeOK
  ReadsTheLine
  ReadsInOrder
  WithinBuffer
  IndexCountsLine
PROPERTIES
  EnterIsAnswered
CHECK_DEADLOCK FALSE
