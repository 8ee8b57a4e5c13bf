SPECIFICATION FairSpec
CONSTANTS
  Attempt = {a1, a2}
  Run = {r1, r2}
  NoRun = NoRun
  NoAttempt = NoAttempt
  MaxLease = 1
  MaxSeq = 1
  CapAttempt = 1
  CapConn = 3
  MaxConcurrent = 1
  Faults = {}
INVARIANTS LiveRunsWithinCapacity
PROPERTIES RunsFinish ResultsCollected
CHECK_DEADLOCK FALSE
