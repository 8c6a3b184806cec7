\* Commands that cannot be loaded, and two commands from every shell.
CONSTANTS
  MaxPid = 3
  NumTerms = 2
  NumFd = 3
  Programs <- MCPrograms
  Shell = "shell"
  Launchers <- MCLaunchers
  Faulty <- MCFaulty
  BadNames <- MCBadNames
  Statuses <- MCZeroOne
  MaxLaunch = 2
SPECIFICATION Spec
INVARIANTS
  RootSlotHeld
  EndsToldApart
CHECK_DEADLOCK FALSE
