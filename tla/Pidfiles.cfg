SPECIFICATION Spec
CONSTANTS
  Cli = {c1, c2}
  Old = Old
  NoOne = NoOne
INVARIANTS ClaimHeld NoOrphan
CHECK_DEADLOCK FALSE
