\* Two threads and peers that stay silent: thread 0 registers clients on
\* thread 1's ring while thread 1 re-arms its TUN read.
CONSTANTS
  NThreads = 2
  NSlots = 2
  NConns = 2
  MIN_READ = 1
  PKT_SIZE = 2
  FrameLens <- MCFrameLens
  MaxFrames = 1
  MaxTunPkts = 1
  SubmitResults = {"ok"}
  AcceptErrors = {}
  WaitAll = FALSE
SPECIFICATION Spec
CONSTRAINT QuietPeers
INVARIANT RecvArmedOnce
