\* One authenticated client whose broadcast sends fail.
CONSTANTS
  MaxConn = 1
  NConns = 1
  CLI_PKT_DATA_SIZ = 1
  MAX_ERR_C = 1
  ERR_C_BITS = 2
  PeerFrames <- MCGoodFrames
  MaxFrames = 2
  MaxTunPkts = 3
  SendResults = {"full", "fail"}
  SplitReads = FALSE
SPECIFICATION Spec
INVARIANT ErrBudgetEnforced
