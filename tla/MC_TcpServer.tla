---------------------------- MODULE MC_TcpServer ----------------------------
(* Model values for TcpServer.                                             *)
EXTENDS TcpServer

\* A well-behaved client: handshake, data, close.
MCGoodFrames ==
  { [type |-> CLI_PKT_HELLO, length |-> 0],
    [type |-> CLI_PKT_AUTH,  length |-> 1],
    [type |-> CLI_PKT_DATA,  length |-> 1],
    [type |-> CLI_PKT_CLOSE, length |-> 0] }

\* Adds a frame whose length is over the limit.
MCHostileFrames ==
  MCGoodFrames \cup { [type |-> CLI_PKT_DATA, length |-> CLI_PKT_DATA_SIZ + 1] }

\* Adds REQSYNC, a type the wire enum defines and the packet switch does not
\* handle.
MCSyncFrames ==
  MCGoodFrames \cup { [type |-> 5, length |-> 0] }
=============================================================================
