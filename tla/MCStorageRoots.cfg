SPECIFICATION Spec
CONSTANTS
  Dirs <- MCDirs
  Above <- MCAbove
  Root <- root
  Repo <- repo
  Project <- storage
  Named <- MCNamed
  Codeseam <- MCCodeseam
  Replaced <- MCReplaced
  Settings <- MCSettings
  Commands <- AllCommands
  UserDirs <- MCUserDirs
  None = None
  UserRaces = FALSE
  Interrupts = TRUE
INVARIANTS ForeignFilesKept AcceptedAgain
CHECK_DEADLOCK FALSE
