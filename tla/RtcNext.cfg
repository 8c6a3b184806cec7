\* One program; the clock has ticked before it reads.
CONSTANTS
  Requests <- MCRequests
  Dividers <- MCDividers
  BootDivider = "bios"
  Ticking <- MCDividers
  MaxDepth = 1
SPECIFICATION Spec
INVARIANTS
  WaitsForNext
