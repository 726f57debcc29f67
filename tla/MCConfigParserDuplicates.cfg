SPECIFICATION Spec
CONSTANTS
  Numbers <- MCNumbers
  Addresses <- MCAddresses
  Unset = Unset
  Slashed <- MCSlashed
  DotRoots <- MCDotRoots
  Docs <- Paths
  Damages <- None
INVARIANTS
  DuplicatesRefused
\* The parser ends.
CHECK_DEADLOCK FALSE
