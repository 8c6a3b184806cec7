\* Up to three programs on top of each other, each reading and writing the clock.
CONSTANTS
  Requests <- MCRequests
  Dividers <- MCDividers
  BootDivider = "bios"
  Ticking <- MCDividers
  MaxDepth = 3
SPECIFICATION Spec
INVARIANTS
  TypeOK
  IndexHeld
  PacedReads
PROPERTIES
  ReadReturns
