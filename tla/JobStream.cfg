SPECIFICATION Spec
CONSTANTS
  Attempt = {a1}
  Run = {r1, r2}
  NoRun = NoRun
  NoAttempt = NoAttempt
  MaxLease = 3
  MaxSeq = 3
  CapAttempt = 2
  CapConn = 3
  MaxConcurrent = 1
  Faults = {"crash"}
SYMMETRY Symmetry
INVARIANTS NoEventLost NoGap
CHECK_DEADLOCK FALSE
