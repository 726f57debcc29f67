SPECIFICATION Spec
CONSTANTS
  Numbers <- MCNumbers
  Addresses <- MCAddresses
  Unset = Unset
  Slashed <- MCSlashed
  DotRoots <- MCDotRoots
  Docs <- Damageable
  Damages <- Cuts
INVARIANTS
  CutIsReported
\* The parser ends.
CHECK_DEADLOCK FALSE
