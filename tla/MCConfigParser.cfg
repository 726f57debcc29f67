SPECIFICATION Spec
CONSTANTS
  Numbers <- MCNumbers
  Addresses <- MCAddresses
  Unset = Unset
  Slashed <- MCSlashed
  DotRoots <- MCDotRoots
  Docs <- Written
  Damages <- AllDamages
INVARIANTS
  TypeOK
  AcceptedIsValid
  AcceptedIsClosed
  WrittenIsRead
PROPERTIES
  ParserEnds
\* The parser ends.
CHECK_DEADLOCK FALSE
