CONSTANTS
  MaxConn = 2
  NConns = 2
  CLI_PKT_DATA_SIZ = 1
  MAX_ERR_C = 1
  ERR_C_BITS = 1
  PeerFrames <- MCGoodFrames
  MaxFrames = 2
  MaxTunPkts = 1
  SendResults = {"full", "fail"}
  SplitReads = FALSE
SPECIFICATION Spec
INVARIANT FreeStackExact
INVARIANT SlotFdConsistent
INVARIANT ServerStreamWellFormed
