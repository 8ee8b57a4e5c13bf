SPECIFICATION FairSpec
CONSTANTS
  Conn = {c1, c2}
  Key = {c1, c2}
  Host = {h1}
  Token = {t1}
  Code = {d1}
  NoKey = NoKey
  NoToken = NoToken
  SimpleId = SimpleId
  NoId = NoId
  NoAuto = NoAuto
  DevKey = DevKey
  NoSigner = NoSigner
  HostEnv <- MCHostEnv
  Options <- MCOptions
  TokenTtl = 1
  PendingTtl = 2
  ActiveTtl = 1
  AttemptCap = 1
  PollTokenCap = 1
  DeviceCap = 1
  MaxTime = 2
  PollDeadline = 1
INVARIANTS NeverHalfPaired PairedDaemonVerifies GateIsProven OneDevicePerToken
PROPERTIES ConnectEnds
CHECK_DEADLOCK FALSE
