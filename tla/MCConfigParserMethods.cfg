SPECIFICATION Spec
CONSTANTS
  Numbers <- MCNumbers
  Addresses <- MCAddresses
  Unset = Unset
  Slashed <- MCSlashed
  DotRoots <- MCDotRoots
  Docs <- MethodSets
  Damages <- None
INVARIANTS
  MethodsSupported
\* The parser ends.
CHECK_DEADLOCK FALSE
