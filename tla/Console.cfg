SPECIFICATION Spec
CONSTANTS
  NUM_COLS = 3
  NUM_ROWS = 3
  MAX_TERMINALS = 2
  TermColor <- MCTermColor
  Keys <- MCKeys
  Texts <- MCTexts
  MaxLine = 6
  MaxSteps = 7
INVARIANTS TypeOK ShowsThePaper StaysInVideoMemory CursorShown OwnColour
PROPERTIES ErasesWhatItTakes HiddenScreensKept
CHECK_DEADLOCK FALSE
