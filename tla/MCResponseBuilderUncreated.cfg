SPECIFICATION Spec
CONSTANTS
  Locations <- MCLocations
  ErrorPages <- MCErrorPages
  Root <- RootValue
  CgiRoot <- CgiRootValue
  Dirs <- MCDirs
  Files <- MCFiles
  Requests <- MCRequests
  StillFiles <- OneFileSystem
  OtherFiles <- OneFileSystem
  MaxChanges = 0
  Char = Char
INVARIANTS
  BodyIsCreated
\* One response is built.
CHECK_DEADLOCK FALSE
