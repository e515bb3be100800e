\* One slot for two connections: accept() with an empty slot stack, and
\* the liveness of the loop and of slot release.
CONSTANTS
  MaxConn = 1
  NConns = 2
  CLI_PKT_DATA_SIZ = 1
  MAX_ERR_C = 1
  ERR_C_BITS = 2
  PeerFrames <- MCGoodFrames
  MaxFrames = 1
  MaxTunPkts = 1
  SendResults = {"full", "fail"}
  SplitReads = FALSE
SPECIFICATION Spec
PROPERTY SlotPoolRefined
PROPERTY BacklogServed
PROPERTY PeerCloseReleasesSlot
PROPERTY ShutdownOnSignal
