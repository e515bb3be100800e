\* One connection, recv() returning any byte count, hostile lengths.
CONSTANTS
  MaxConn = 1
  NConns = 1
  CLI_PKT_DATA_SIZ = 1
  MAX_ERR_C = 1
  ERR_C_BITS = 2
  PeerFrames <- MCHostileFrames
  MaxFrames = 4
  MaxTunPkts = 0
  SendResults = {"full", "fail"}
  SplitReads = TRUE
SPECIFICATION Spec
INVARIANT DecodedPrefixOfSent
INVARIANT RecvBufferBound
