\* A first visit to a terminal with every slot taken.
CONSTANTS
  MaxPid = 2
  NumTerms = 3
  NumFd = 3
  Programs <- MCPrograms
  Shell = "shell"
  Launchers <- MCLaunchers
  Faulty <- MCFaulty
  BadNames <- MCNoNames
  Statuses <- MCZeroOne
  MaxLaunch = 1
SPECIFICATION Spec
INVARIANTS
  ShownHasShell
