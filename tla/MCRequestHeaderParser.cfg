SPECIFICATION Spec
CONSTANTS
  Words <- MCWords
  TokenWords <- MCTokenWords
  Lower <- MCLower
  Leading <- MCLeading
  Versions <- MCVersions
  Texts <- MCTexts
INVARIANTS
  TypeOK
  AcceptedIsWellFormed
  RefusedForFirstFault
  FramedAsWritten
\* A header is parsed once.
CHECK_DEADLOCK FALSE
