SPECIFICATION FairSpec
CONSTANTS
  Conn = {c1, c2}
  NoConn = NoConn
  MaxEpoch = 2
  MaxFrames = 2
  MaxUp = 2
  Advertised <- MCAdvertised
  Supported <- MCSupported
  Forced <- MCForced
  Downlink <- MCDownlink
  Uplink <- MCUplink
INVARIANTS NoFrameLost EpochFences UplinkDecodes
PROPERTIES StopEnds HandshakeSettles
CHECK_DEADLOCK FALSE
