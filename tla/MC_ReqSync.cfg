\* One client that may send REQSYNC among well-formed frames, recv() taking
\* everything the buffer has room for.
CONSTANTS
  MaxConn = 1
  NConns = 1
  CLI_PKT_DATA_SIZ = 1
  MAX_ERR_C = 1
  ERR_C_BITS = 2
  PeerFrames <- MCSyncFrames
  MaxFrames = 4
  MaxTunPkts = 0
  SendResults = {"full"}
  SplitReads = FALSE
SPECIFICATION Spec
INVARIANT DecodedPrefixOfSent
