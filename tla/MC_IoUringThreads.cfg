\* Two threads: thread 0 accepts and registers clients on both rings while
\* thread 1 completes and closes its own.
CONSTANTS
  NThreads = 2
  NSlots = 2
  NConns = 2
  MIN_READ = 1
  PKT_SIZE = 2
  FrameLens <- MCFrameLens
  MaxFrames = 1
  MaxTunPkts = 0
  SubmitResults = {"ok"}
  AcceptErrors = {}
  WaitAll = FALSE
SPECIFICATION Spec
INVARIANT SlotExclusive
