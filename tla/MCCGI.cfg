SPECIFICATION Spec
CONSTANTS
  PipeCap = 2
  BufSize = 2
  Scarce = TRUE
  BodySizes = {0, 1, 2, 4}
  Scripts <- EachScript
  MaxRuns = 2
  NoText = NoText
INVARIANTS
  TypeOK
  ScriptGetsWholeBody
  AnswerIsPrefixOfOutput
  KilledOnlyByEndedScript
  WaitOnlyOnFullPipes
  RefusedOnlyWhenCut
  OwnPipesOnly
PROPERTIES
  CallReturns
\* Server and script may wait for each other for ever, and calls are bounded.
CHECK_DEADLOCK FALSE
