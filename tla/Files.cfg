SPECIFICATION ProgramSpec
CONSTANTS
  BLOCK_4KB = 2
  FILENAME_MAX_LENGTH = 3
  DENTRY_NUM = 11
  MAX_NUM_FD = 8
  boot <- MCboot
  inode_ptr <- MCinode_ptr
  data_start <- MCdata_start
  Lines <- MCLines
  NUL = "NUL"
  Commands <- MCCommands
  ProgramOf <- MCProgramOf
  BUFSIZE = 5
  Garbage <- MCGarbage
  Counts <- MCCounts
  Known <- MCKnown
  UserNames <- MCUserNames
  UserFds <- MCUserFds
  UserSizes <- MCUserSizes
  UserTexts <- MCUserTexts
  MaxCalls = 4
INVARIANTS TypeOK CopiesTheFile ArgsAsTyped CatShowsFile LsListsDirectory GrepPrintsMatches
           SyserrPasses CounterCounts
PROPERTIES OnlyReadsMove ImplementsStreams ProgramsEnd
CHECK_DEADLOCK FALSE
