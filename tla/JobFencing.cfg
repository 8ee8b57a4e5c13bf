SPECIFICATION Spec
CONSTANTS
  Attempt = {a1}
  Run = {r1, r2}
  NoRun = NoRun
  NoAttempt = NoAttempt
  MaxLease = 2
  MaxSeq = 2
  CapAttempt = 2
  CapConn = 3
  MaxConcurrent = 1
  Faults = {"late", "crash", "torn"}
SYMMETRY Symmetry
INVARIANTS LiveRunIsRegistered ResultMeansFinished ResultReachesRelayOutsideHandshake
PROPERTIES RunStable NoResultLost
CHECK_DEADLOCK FALSE
