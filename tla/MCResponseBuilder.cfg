\* File systems that stand still, and one that others work on.
SPECIFICATION Spec
CONSTANTS
  Locations <- MCLocations
  ErrorPages <- MCErrorPages
  Root <- RootValue
  CgiRoot <- CgiRootValue
  Dirs <- MCDirs
  Files <- MCFiles
  Requests <- MCRequests
  StillFiles <- Varied
  OtherFiles <- OneFileSystem
  MaxChanges = 2
  Char = Char
INVARIANTS
  TypeOK
  AnswersAsConfigured
  ReadsOnlyWhatIsAllowed
  OkHeaderFits
  MixedOnlyWhenVanished
  ScriptIsTheFileFound
PROPERTIES
  BuildEnds
\* One response is built.
CHECK_DEADLOCK FALSE
