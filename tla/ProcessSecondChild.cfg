\* A shell other than the root one starts two commands.
CONSTANTS
  MaxPid = 3
  NumTerms = 2
  NumFd = 3
  Programs <- MCPrograms
  Shell = "shell"
  Launchers <- MCLaunchers
  Faulty <- MCFaulty
  BadNames <- MCNoNames
  Statuses <- MCZeroOne
  MaxLaunch = 2
SPECIFICATION Spec
INVARIANTS
  ParentRestored
