\* The user mistypes a command.
CONSTANTS
  MaxPid = 3
  NumTerms = 2
  NumFd = 3
  Programs <- MCPrograms
  Shell = "shell"
  Launchers <- MCLaunchers
  Faulty <- MCFaulty
  BadNames <- MCBadNames
  Statuses <- MCZeroOne
  MaxLaunch = 1
SPECIFICATION Spec
INVARIANTS
  ParentRestored
