\* The single-threaded path (cfg->sys.thread = 1): one slot for two
\* connections with two frames each, a TUN datagram, accept errors.
CONSTANTS
  NThreads = 1
  NSlots = 1
  NConns = 2
  MIN_READ = 1
  PKT_SIZE = 2
  FrameLens <- MCFrameLens
  MaxFrames = 2
  MaxTunPkts = 1
  SubmitResults = {"ok"}
  AcceptErrors = {"eagain", "fatal"}
  WaitAll = FALSE
SPECIFICATION Spec
INVARIANTS TypeOK RecvArmedOnce SlotExclusive
PROPERTIES PeerEndReleasesSlot AcceptServesBacklog
