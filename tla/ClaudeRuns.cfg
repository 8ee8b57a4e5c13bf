SPECIFICATION FairSpec
CONSTANTS
  r1 = r1
  r2 = r2
  Run = {r1, r2}
  NoRun = NoRun
  NoCwd = NoCwd
  AttemptOf <- MCAttemptOf
  SafeChar = {"a", "_"}
  Workspace <- MCWorkspace
  Allowlist <- MCAllowlist
  RealPath <- MCRealPath
  MaxLines = 2
  MaxStderr = 1
  MayCrash = TRUE
INVARIANTS WorktreeIsOwn StdoutComplete
PROPERTIES ImplementsEngineRun RunsEnd ChildrenDie
CHECK_DEADLOCK FALSE
