SPECIFICATION Spec
CONSTANTS
  Attempt = {a1, a2}
  Run = {r1, r2}
  NoRun = NoRun
  NoAttempt = NoAttempt
  MaxLease = 1
  MaxSeq = 2
  CapAttempt = 3
  CapConn = 2
  MaxConcurrent = 2
  Faults = {}
SYMMETRY Symmetry
INVARIANT NoStuckPause
CHECK_DEADLOCK FALSE
