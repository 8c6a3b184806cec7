\* Programs, Shell and Launchers stand for the files of the image: a shell that
\* calls execute and two programs that do not.
CONSTANTS
  MaxPid = 4
  NumTerms = 3
  NumFd = 4
  Programs <- MCPrograms
  Shell = "shell"
  Launchers <- MCLaunchers
  Faulty <- MCFaulty
  BadNames <- MCNoNames
  Statuses <- MCZeroOne
  MaxLaunch = 1
SPECIFICATION Spec
INVARIANTS
  TypeOK
  RunsAsItself
  KernelStacksIntact
  SlotsExact
  CallInvariant
  EndsToldApart
  NoLeftoverDescriptors
PROPERTIES
  ReturnsToCaller
  ImplementsCallStack
