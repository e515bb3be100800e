------------------------------ MODULE MC_IoUring ------------------------------
(* Instances of the io_uring server for TLC.                               *)
EXTENDS IoUringServer

\* The data lengths a peer declares: an empty frame and one byte of data.
MCFrameLens == {0, 1}

\* Peers that connect and then neither write nor close: no recv can
\* complete, so the only way a registered client loses its recv is the
\* unlocked use of another thread's submission ring.
QuietPeers == \A c \in Conns : peer[c] = "open" /\ sent[c] = <<>>
=============================================================================
