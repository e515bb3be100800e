------------------------------ MODULE TcpServer ------------------------------
(***************************************************************************)
(* The single-reactor TCP server core (server/linux/tcp.c): the client    *)
(* slot array, the free-slot stack, the poll set, the event loop with its *)
(* accept, TUN-read/broadcast and client handlers, the packet decoder on  *)
(* the per-client receive buffer and the client state machine.            *)
(*                                                                         *)
(* Every TCP connection a peer opens is a number in Conns; the peer's     *)
(* byte stream is a sequence of frame headers (wire) of which the server  *)
(* has read rpos bytes.  A frame occupies 4 header bytes plus its payload; *)
(* payload bytes are not modelled, so when the decoder's buffer head is   *)
(* not on a frame boundary it reads an arbitrary header (junk).           *)
(***************************************************************************)
EXTENDS Integers, Sequences, SequencesExt, FdsStack

CONSTANTS
  NConns,            \* TCP connections peers open during a behaviour
  CLI_PKT_DATA_SIZ,  \* largest client payload (4096 in the code)
  MAX_ERR_C,         \* error budget of a client (10u in the code)
  ERR_C_BITS,        \* width of client->err_c (uint8_t: 8)
  PeerFrames,        \* the frame headers a peer may write
  MaxFrames,         \* frames a peer writes on one connection
  MaxTunPkts,        \* datagrams the kernel delivers on the TUN fd
  SendResults,       \* the send() outcomes a run explores
  SplitReads         \* TRUE: recv() may return fewer bytes than it could

Conns == 1 .. NConns
NoFd  == -1

\* enum _cli_tcp_pkt_type; 7 stands for every byte value the enum leaves out
CLI_PKT_HELLO == 0
CLI_PKT_AUTH  == 1
CLI_PKT_DATA  == 4
CLI_PKT_CLOSE == 6
CliTypes == 0 .. 7

CLI_PKT_MIN_RSIZ == 4                                  \* type, pad, length
CLI_PKT_RSIZE    == CLI_PKT_MIN_RSIZ + CLI_PKT_DATA_SIZ \* sizeof(struct cli_tcp_pkt)

\* A decoded length; CLI_PKT_DATA_SIZ + 1 stands for every length above the limit.
Lengths == 0 .. CLI_PKT_DATA_SIZ + 1
Header  == [type : CliTypes, length : Lengths]

ErrCMod == 2 ^ ERR_C_BITS
\* Mutant: err_c incremented as an unbounded integer.
IncErr(e) == (e + 1) % ErrCMod                         \* err_c++ on a uint8_t

CtStates   == {"NEW", "ESTABLISHED", "AUTHENTICATED", "DISCONNECTED"}
SrvTypes   == {"BANNER", "AUTH_OK", "AUTH_REJECT", "DATA"}
\* send() may write the whole frame, a prefix of it, or fail.
SendOutcomes == SendResults

ASSUME /\ MaxConn \in Nat \ {0}
       /\ PeerFrames \subseteq Header
       /\ MAX_ERR_C < ErrCMod
       /\ SendResults \subseteq {"full", "short", "fail"} /\ "full" \in SendResults

-----------------------------------------------------------------------------
(* Byte layout of a peer's stream.                                         *)

\* A frame whose length is over the limit is written as its header alone.
WireBytes(h) == CLI_PKT_MIN_RSIZ + (IF h.length <= CLI_PKT_DATA_SIZ THEN h.length ELSE 0)

StreamBytes(w) == FoldLeft(LAMBDA acc, h : acc + WireBytes(h), 0, w)

\* The header the decoder reads at byte offset off of stream w: the frame that
\* starts there, or, off a frame boundary, whatever the payload bytes hold.
HeadersAt(w, off) ==
  LET starts == {j \in 1 .. Len(w) : StreamBytes(SubSeq(w, 1, j - 1)) = off}
  IN  IF starts = {} THEN Header ELSE {w[CHOOSE j \in starts : TRUE]}

-----------------------------------------------------------------------------
VARIABLES
  fds_stack,   \* state->fds_stack
  clients,     \* state->clients[0 .. max_conn-1]
  clfds,       \* the client part of the poll set: fds[3 + i].fd
  conn,        \* the peer side and kernel buffers of each connection
  stop,        \* state->stop
  phase,       \* "run" at the top of event_loop's loop or in its handlers,
               \* "poll" past the stop check and in poll(), then "exited"
  ev,          \* revents of the last poll() not yet handled
  tun_q,       \* datagrams queued on the TUN fd
  tun_in,      \* datagrams the kernel has queued so far
  tun_out      \* connections whose IFACE_DATA payloads were written to TUN

vars == <<fds_stack, clients, clfds, conn, stop, phase, ev, tun_q, tun_in, tun_out>>

(* struct srv_tcp_client, less the text and diagnostic counters.  head is *)
(* the header at the front of recv_buf once it holds 4 bytes of an       *)
(* incomplete frame (<<>> otherwise).                                     *)
Slot == [is_used : BOOLEAN, is_auth : BOOLEAN, ctstate : CtStates,
         cli_fd : Conns \cup {NoFd}, err_c : 0 .. ErrCMod - 1,
         recv_s : 0 .. CLI_PKT_RSIZE, head : Seq(Header)]

\* st: "idle" (not yet connected), "backlog" (waiting for accept()),
\* "open" (accepted) or "closed" (closed by the server); rst: a reset not
\* yet reported by recv() is "pending"; out: frames the server sent; seen:
\* headers the server's packet switch acted on.
ConnState == [st : {"idle", "backlog", "open", "closed"}, wire : Seq(Header),
              rpos : Nat, fin : BOOLEAN, rst : {"none", "pending", "done"},
              out : Seq([type : SrvTypes, whole : BOOLEAN]), seen : Seq(Header)]

NoEvents == [lis |-> FALSE, tun |-> FALSE, cl |-> {}]

\* Bytes the kernel holds for the server on connection k (a reset drops them).
Avail(k) == IF conn[k].rst # "none" THEN 0
            ELSE StreamBytes(conn[k].wire) - conn[k].rpos

\* POLLIN on a client socket: data, end of stream or a pending error.
Readable(k) == Avail(k) > 0 \/ conn[k].fin \/ conn[k].rst # "none"

-----------------------------------------------------------------------------
(* handle_client, one call.  The decode loop and the packet switch work   *)
(* on a record st = [k, cl, out, seen, tun, res]: the connection, its     *)
(* slot, the server frames sent, the headers acted on, the TUN writes,    *)
(* and how the call ends: "break" (go on with the tail), "done" (return)  *)
(* or "close" (out_close_conn).                                            *)

Brk(st)   == [st EXCEPT !.res = "break"]
Close(st) == [st EXCEPT !.res = "close"]

\* send_to_client: a failed send() charges err_c; a short one counts as sent.
Send(st, t, o) ==
  IF o = "fail" THEN [st EXCEPT !.cl.err_c = IncErr(@)]
  ELSE [st EXCEPT !.out = Append(@, [type |-> t, whole |-> o = "full"])]
Sent(o) == o # "fail"                   \* send_to_client(...) > 0

\* out_err_c: drop the buffer, charge the budget, close once it is spent.
OutErrC(st) ==
  [st EXCEPT !.cl.recv_s = 0, !.cl.head = <<>>, !.cl.err_c = IncErr(@),
             !.res = IF st.cl.err_c >= MAX_ERR_C THEN "close" ELSE "done"]

\* Mutant: a repeated HELLO is answered again.
HelloAnyState(st) ==
  { LET s2 == Send([st EXCEPT !.cl.ctstate = "ESTABLISHED"], "BANNER", o)
    IN  IF Sent(o) THEN Brk(s2) ELSE Close(s2) : o \in SendOutcomes }

\* case CLI_PKT_HELLO (send_server_banner)
Hello(st) ==
  IF st.cl.ctstate # "NEW" THEN {Brk(st)}
  ELSE { LET s2 == Send([st EXCEPT !.cl.ctstate = "ESTABLISHED"], "BANNER", o)
         IN  IF Sent(o) THEN Brk(s2) ELSE Close(s2) : o \in SendOutcomes }

\* handle_auth: teavpn_server_get_auth accepts or refuses; AUTH_OK that
\* cannot be sent falls through to send_auth_reject; both refusals close.
HandleAuth(st) ==
     { Brk([Send(st, "AUTH_OK", o) EXCEPT !.cl.is_auth = TRUE,
                                          !.cl.ctstate = "AUTHENTICATED"])
         : o \in SendOutcomes \ {"fail"} }
  \cup { Close(Send(Send(st, "AUTH_OK", "fail"), "AUTH_REJECT", o)) : o \in SendOutcomes }
  \cup { Close(Send(st, "AUTH_REJECT", o)) : o \in SendOutcomes }

\* case CLI_PKT_AUTH
Auth(st) ==
  IF st.cl.ctstate = "NEW" THEN {Close(st)}
  ELSE IF st.cl.is_auth THEN {Brk(st)}
  ELSE HandleAuth(st)

\* case CLI_PKT_DATA: handle_iface_write (a failed write() is only logged,
\* so tun_out records the write() calls).
IfaceData(st) ==
  IF st.cl.ctstate # "AUTHENTICATED" THEN {Close(st)}
  ELSE {Brk([st EXCEPT !.tun = Append(@, st.k)])}

\* default: an unexpected type closes an unauthenticated client and is
\* charged to an authenticated one.
OtherType(st) == IF ~st.cl.is_auth THEN {Close(st)} ELSE {OutErrC(st)}

\* switch (cli_pkt->type)
Packet(st, h) ==
  CASE h.type = CLI_PKT_HELLO -> Hello(st)
    [] h.type = CLI_PKT_AUTH  -> Auth(st)
    [] h.type = CLI_PKT_DATA  -> IfaceData(st)
    [] h.type = CLI_PKT_CLOSE -> {Close(st)}
    [] OTHER                  -> OtherType(st)

\* Mutant: the length check lets one byte too many through.
CorruptOffByOne(h) == h.length > CLI_PKT_DATA_SIZ + 1

\* fdata_len > CLI_PKT_DATA_SIZ
Corrupt(h) == h.length > CLI_PKT_DATA_SIZ

\* The decode loop from back_chk: w is the stream and rpos the bytes read,
\* so the buffer head sits at byte rpos - recv_s of w.
RECURSIVE Process(_, _, _), Frame(_, _, _, _), AfterPacket(_, _, _, _)

\* Mutant: the tail after a packet is dropped instead of moved.
AfterPacketDropTail(r, h, w, rpos) ==
  IF r.res # "break" THEN {r}
  ELSE {[r EXCEPT !.cl.recv_s = 0, !.cl.head = <<>>, !.res = "done"]}

Process(st, w, rpos) ==
  IF st.cl.recv_s < CLI_PKT_MIN_RSIZ THEN {[st EXCEPT !.res = "done"]}
  ELSE LET hs == IF st.cl.head # <<>> THEN {Head(st.cl.head)}
                 ELSE HeadersAt(w, rpos - st.cl.recv_s)
       IN  UNION {Frame(st, h, w, rpos) : h \in hs}

Frame(st, h, w, rpos) ==
  IF Corrupt(h) THEN {OutErrC(st)}
  ELSE IF st.cl.recv_s - CLI_PKT_MIN_RSIZ < h.length
       THEN {[st EXCEPT !.cl.head = <<h>>, !.res = "done"]}  \* out_save_recv_s
  ELSE UNION {AfterPacket(r, h, w, rpos) : r \in Packet([st EXCEPT !.seen = Append(@, h)], h)}

\* After the switch: memmove an extra tail to the head and decode again,
\* or empty the buffer.
AfterPacket(r, h, w, rpos) ==
  LET rest == r.cl.recv_s - (CLI_PKT_MIN_RSIZ + h.length) IN
  IF r.res # "break" THEN {r}
  ELSE IF rest > 0 THEN Process([r EXCEPT !.cl.recv_s = rest, !.cl.head = <<>>], w, rpos)
  ELSE {[r EXCEPT !.cl.recv_s = 0, !.cl.head = <<>>, !.res = "done"]}

-----------------------------------------------------------------------------
(* Initial state: init_state, init_client_slots (memset 0, cli_fd = -1)   *)
(* and event_loop's poll set with every client entry at -1.               *)

FreeSlot == [is_used |-> FALSE, is_auth |-> FALSE, ctstate |-> "NEW",
             cli_fd |-> NoFd, err_c |-> 0, recv_s |-> 0, head |-> <<>>]

Init ==
  /\ fds_stack = InitFdsStack
  /\ clients = [i \in Slots |-> FreeSlot]
  /\ clfds = [i \in Slots |-> NoFd]
  /\ conn = [k \in Conns |-> [st |-> "idle", wire |-> <<>>, rpos |-> 0, fin |-> FALSE,
                              rst |-> "none", out |-> <<>>, seen |-> <<>>]]
  /\ stop = FALSE
  /\ phase = "run"
  /\ ev = NoEvents
  /\ tun_q = 0
  /\ tun_in = 0
  /\ tun_out = <<>>

-----------------------------------------------------------------------------
(* The event loop.                                                         *)

\* break out of the loop, free(fds); then destroy_state closes the
\* listening socket (dropping the backlog) and every used client fd.
Exit ==
  /\ phase' = "exited"
  /\ conn' = [k \in Conns |-> IF conn[k].st \in {"backlog", "open"}
                              THEN [conn[k] EXCEPT !.st = "closed"] ELSE conn[k]]
  /\ UNCHANGED <<fds_stack, clients, clfds, stop, ev, tun_q, tun_in, tun_out>>

\* if (unlikely(state->stop)) break;
LoopExit == phase = "run" /\ ev = NoEvents /\ stop /\ Exit

\* The stop check finds no signal, and the loop goes on to poll().
EnterPoll ==
  /\ phase = "run" /\ ev = NoEvents /\ ~stop
  /\ phase' = "poll"
  /\ UNCHANGED <<fds_stack, clients, clfds, conn, stop, ev, tun_q, tun_in, tun_out>>

\* The revents poll() would report now.
Ready == [lis |-> \E k \in Conns : conn[k].st = "backlog",
          tun |-> tun_q > 0,
          cl  |-> {i \in Slots : clfds[i] # NoFd /\ Readable(clfds[i])}]

\* poll() returns the ready fds.
Poll ==
  /\ phase = "poll" /\ Ready # NoEvents
  /\ ev' = Ready /\ phase' = "run"
  /\ UNCHANGED <<fds_stack, clients, clfds, conn, stop, tun_q, tun_in, tun_out>>

\* Mutant: poll() is called with timeout -1 and never returns 0.
PollTimeoutInfinite == FALSE

\* poll() returns 0 after timeout = 5000 ms with nothing ready: continue.
PollTimeout ==
  /\ phase = "poll" /\ Ready = NoEvents
  /\ phase' = "run"
  /\ UNCHANGED <<fds_stack, clients, clfds, conn, stop, ev, tun_q, tun_in, tun_out>>

\* A signal that arrives while the thread is blocked in poll() makes it
\* fail with EINTR: retval = 0 and break.  One that arrived between the
\* stop check and the call does not interrupt it.
PollIntr == phase = "poll" /\ stop /\ Exit

\* Mutant: with no free slot the connection is left in the backlog.
AcceptConnLeaveBacklog ==
  /\ phase = "run" /\ ev.lis
  /\ LET k   == Min({j \in Conns : conn[j].st = "backlog"})
         idx == PopVal(fds_stack)
     IN  IF idx = -1
         THEN UNCHANGED <<fds_stack, clients, clfds, conn>>
         ELSE /\ fds_stack' = PopFds(fds_stack)
              /\ clfds' = [clfds EXCEPT ![idx] = k]
              /\ clients' = [clients EXCEPT ![idx] =
                   [is_used |-> TRUE, is_auth |-> FALSE, ctstate |-> "NEW", cli_fd |-> k,
                    err_c |-> 0, recv_s |-> 0, head |-> <<>>]]
              /\ conn' = [conn EXCEPT ![k].st = "open"]
  /\ ev' = [ev EXCEPT !.lis = FALSE]
  /\ UNCHANGED <<stop, phase, tun_q, tun_in, tun_out>>

\* accept_conn: one accept(); a full slot stack drops the connection.
AcceptConn ==
  /\ phase = "run" /\ ev.lis
  /\ LET k   == Min({j \in Conns : conn[j].st = "backlog"})
         idx == PopVal(fds_stack)
     IN  IF idx = -1
         THEN /\ conn' = [conn EXCEPT ![k].st = "closed"]
              /\ UNCHANGED <<fds_stack, clients, clfds>>
         ELSE /\ fds_stack' = PopFds(fds_stack)
              /\ clfds' = [clfds EXCEPT ![idx] = k]
              /\ clients' = [clients EXCEPT ![idx] =
                   [is_used |-> TRUE, is_auth |-> FALSE, ctstate |-> "NEW", cli_fd |-> k,
                    err_c |-> 0, recv_s |-> 0, head |-> <<>>]]
              /\ conn' = [conn EXCEPT ![k].st = "open"]
  /\ ev' = [ev EXCEPT !.lis = FALSE]
  /\ UNCHANGED <<stop, phase, tun_q, tun_in, tun_out>>

\* accept_conn when accept() itself fails (EAGAIN, or an error such as
\* EMFILE that is only logged): it returns and the connection stays queued.
AcceptFail ==
  /\ phase = "run" /\ ev.lis
  /\ ev' = [ev EXCEPT !.lis = FALSE]
  /\ UNCHANGED <<fds_stack, clients, clfds, conn, stop, phase, tun_q, tun_in, tun_out>>

\* handle_iface_read: read one datagram and send it as SRV_PKT_DATA to every
\* slot in CT_AUTHENTICATED; f gives each recipient's send() outcome.
Broadcast(f) ==
  LET rcpt == DOMAIN f
      to(k) == {i \in rcpt : clients[i].cli_fd = k /\ Sent(f[i])}
  IN  /\ clients' = [i \in Slots |-> IF i \in rcpt /\ ~Sent(f[i])
                                     THEN [clients[i] EXCEPT !.err_c = IncErr(@)]
                                     ELSE clients[i]]
      /\ conn' = [k \in Conns |-> IF to(k) = {} THEN conn[k]
                   ELSE [conn[k] EXCEPT !.out = Append(@, [type |-> "DATA",
                                    whole |-> f[CHOOSE i \in to(k) : TRUE] = "full"])]]

HandleIfaceRead ==
  /\ phase = "run" /\ ~ev.lis /\ ev.tun
  /\ \/ /\ tun_q' = tun_q - 1
        /\ \E f \in [{i \in Slots : clients[i].ctstate = "AUTHENTICATED"} -> SendOutcomes] :
             Broadcast(f)
        /\ UNCHANGED stop
     \/ /\ stop' = TRUE                \* read() fails: fatal
        /\ UNCHANGED <<tun_q, clients, conn>>
  /\ ev' = [ev EXCEPT !.tun = FALSE]
  /\ UNCHANGED <<fds_stack, clfds, phase, tun_in, tun_out>>

\* The work record handle_client starts from on slot i.
Work(i) ==
  LET k == clients[i].cli_fd
  IN  [k |-> k, cl |-> clients[i], out |-> conn[k].out, seen |-> conn[k].seen,
       tun |-> tun_out, res |-> "done"]

\* clear_disconnect (err_c is left as it is)
ClearDisconnect(c) ==
  [c EXCEPT !.is_used = FALSE, !.is_auth = FALSE, !.recv_s = 0, !.head = <<>>,
            !.cli_fd = NoFd, !.ctstate = "DISCONNECTED"]

\* Mutant: the poll entry keeps the closed descriptor.
OutCloseConnKeepPollFd(i, r, c) ==
  /\ CanPush(fds_stack)
  /\ UNCHANGED clfds
  /\ clients' = [clients EXCEPT ![i] = ClearDisconnect(r.cl)]
  /\ fds_stack' = PushFds(fds_stack, i)
  /\ conn' = [conn EXCEPT ![r.k] = [c EXCEPT !.st = "closed", !.out = r.out, !.seen = r.seen]]

\* out_close_conn: close(cl->fd); cl->fd = -1; clear_disconnect(client);
\* push_fds(&state->fds_stack, client->arr_idx) -- arr_idx is always i.
OutCloseConn(i, r, c) ==
  /\ CanPush(fds_stack)
  /\ clfds' = [clfds EXCEPT ![i] = NoFd]
  /\ clients' = [clients EXCEPT ![i] = ClearDisconnect(r.cl)]
  /\ fds_stack' = PushFds(fds_stack, i)
  /\ conn' = [conn EXCEPT ![r.k] = [c EXCEPT !.st = "closed", !.out = r.out, !.seen = r.seen]]

\* out_save_recv_s / the return after out_err_c: the slot keeps its state.
SaveClient(i, r, c) ==
  /\ clients' = [clients EXCEPT ![i] = r.cl]
  /\ conn' = [conn EXCEPT ![r.k] = [c EXCEPT !.out = r.out, !.seen = r.seen]]
  /\ UNCHANGED <<clfds, fds_stack>>

Finish(i, r, c) ==
  /\ IF r.res = "close" THEN OutCloseConn(i, r, c) ELSE SaveClient(i, r, c)
  /\ tun_out' = r.tun

\* recv() < 0 with an error other than EAGAIN: goto out_err_c.
RecvError(i) ==
  LET k == clients[i].cli_fd
  IN  /\ conn[k].rst = "pending"
      /\ Finish(i, OutErrC(Work(i)), [conn[k] EXCEPT !.rst = "done"])

\* Mutant: recv_len counts one byte past the buffer.
RecvLenOffByOne(recv_s) == CLI_PKT_RSIZE - recv_s + 1

\* recv_len = CLI_PKT_RSIZE - recv_s
RecvLen(recv_s) == CLI_PKT_RSIZE - recv_s

\* The byte counts recv() may return when it could return m.
RecvSizes(m) == IF SplitReads THEN 1 .. m ELSE {m}

\* recv() returns n > 0 bytes at recv_buf + recv_s; run the decode loop.
RecvData(i) ==
  LET k == clients[i].cli_fd
      c == conn[k]
  IN  /\ Avail(k) > 0
      /\ \E n \in RecvSizes(Min({Avail(k), RecvLen(clients[i].recv_s)})) :
           \E r \in Process([Work(i) EXCEPT !.cl.recv_s = @ + n], c.wire, c.rpos + n) :
             Finish(i, r, [c EXCEPT !.rpos = @ + n])

\* Mutant: end of stream is taken as "nothing yet" and the slot is kept.
RecvEofSaves(i) ==
  LET k == clients[i].cli_fd
  IN  /\ \/ /\ Avail(k) = 0 /\ conn[k].rst # "pending"
            /\ conn[k].fin \/ conn[k].rst = "done"
         \/ clients[i].recv_s = CLI_PKT_RSIZE
      /\ Finish(i, Work(i), conn[k])

\* recv() returns 0 -- end of stream, or a zero-length read into a full
\* buffer -- and the connection is closed.
RecvEof(i) ==
  LET k == clients[i].cli_fd
  IN  /\ \/ /\ Avail(k) = 0 /\ conn[k].rst # "pending"
            /\ conn[k].fin \/ conn[k].rst = "done"
         \/ RecvLen(clients[i].recv_s) = 0
      /\ Finish(i, Close(Work(i)), conn[k])

\* The client part of the loop body: slots with revents, in index order.
HandleClient(i) ==
  /\ phase = "run" /\ ~ev.lis /\ ~ev.tun
  /\ ev.cl # {} /\ i = Min(ev.cl)
  /\ RecvError(i) \/ RecvData(i) \/ RecvEof(i)
  /\ ev' = [ev EXCEPT !.cl = @ \ {i}]
  /\ UNCHANGED <<stop, phase, tun_q, tun_in>>

-----------------------------------------------------------------------------
(* The environment: peers, the TUN device and signals.                     *)

Peer == <<fds_stack, clients, clfds, stop, phase, ev, tun_q, tun_in, tun_out>>

\* A peer connects; connections are numbered in connect order.
PeerConnect ==
  /\ phase # "exited"
  /\ \E k \in Conns :
       /\ conn[k].st = "idle"
       /\ \A j \in 1 .. k - 1 : conn[j].st # "idle"
       /\ conn' = [conn EXCEPT ![k].st = "backlog"]
  /\ UNCHANGED Peer

PeerSend(k, h) ==
  /\ conn[k].st \in {"backlog", "open"} /\ ~conn[k].fin /\ conn[k].rst = "none"
  /\ Len(conn[k].wire) < MaxFrames
  /\ conn' = [conn EXCEPT ![k].wire = Append(@, h)]
  /\ UNCHANGED Peer

\* shutdown(SHUT_WR) or close(): the server reads end of stream after the data.
PeerShutdown(k) ==
  /\ conn[k].st \in {"backlog", "open"} /\ ~conn[k].fin /\ conn[k].rst = "none"
  /\ conn' = [conn EXCEPT ![k].fin = TRUE]
  /\ UNCHANGED Peer

\* The peer resets the connection: unread data is dropped, recv() fails once.
PeerReset(k) ==
  /\ conn[k].st = "open" /\ conn[k].rst = "none"
  /\ conn' = [conn EXCEPT ![k].rst = "pending"]
  /\ UNCHANGED Peer

TunArrive ==
  /\ tun_in < MaxTunPkts
  /\ tun_in' = tun_in + 1
  /\ tun_q' = tun_q + 1
  /\ UNCHANGED <<fds_stack, clients, clfds, conn, stop, phase, ev, tun_out>>

\* intr_handler on SIGINT, SIGHUP, SIGTERM or SIGQUIT.
Signal ==
  /\ phase # "exited" /\ ~stop
  /\ stop' = TRUE
  /\ UNCHANGED <<fds_stack, clients, clfds, conn, phase, ev, tun_q, tun_in, tun_out>>

\* The process has returned from teavpn_server_tcp_handler.
Halted == phase = "exited" /\ UNCHANGED vars

-----------------------------------------------------------------------------
Reactor ==
  \/ EnterPoll \/ Poll \/ PollTimeout \/ PollIntr \/ LoopExit
  \/ AcceptConn \/ AcceptFail \/ HandleIfaceRead
  \/ \E i \in Slots : HandleClient(i)

Environment ==
  \/ PeerConnect
  \/ \E k \in Conns : \/ PeerShutdown(k) \/ PeerReset(k)
                      \/ \E h \in PeerFrames : PeerSend(k, h)
  \/ TunArrive \/ Signal

Next == Reactor \/ Environment \/ Halted

\* One thread runs the loop and never blocks except in poll(), so every
\* step of it that stays enabled is taken; peers, the kernel and signals
\* owe the server nothing.  accept() may fail (AcceptFail is not fair),
\* and a failure disables the accept until the next poll, so its success
\* is strongly fair: the assumption that accept() does not fail forever.
Fairness ==
  /\ WF_vars(EnterPoll) /\ WF_vars(Poll) /\ WF_vars(PollTimeout)
  /\ WF_vars(LoopExit) /\ SF_vars(AcceptConn)
  /\ WF_vars(HandleIfaceRead)
  /\ \A i \in Slots : WF_vars(HandleClient(i))

Spec == Init /\ [][Next]_vars /\ Fairness

-----------------------------------------------------------------------------
(* Properties.                                                             *)

TypeOK ==
  /\ fds_stack \in [sp : 0 .. MaxConn, max_sp : {MaxConn}, arr : [Slots -> Slots]]
  /\ clients \in [Slots -> Slot]
  /\ clfds \in [Slots -> Conns \cup {NoFd}]
  /\ conn \in [Conns -> ConnState]
  /\ stop \in BOOLEAN /\ phase \in {"run", "poll", "exited"}
  /\ ev \in [lis : BOOLEAN, tun : BOOLEAN, cl : SUBSET Slots]
  /\ tun_q \in 0 .. MaxTunPkts /\ tun_in \in 0 .. MaxTunPkts
  /\ tun_out \in Seq(Conns)

\* Slot conservation (accept_conn's pop_fds against out_close_conn's
\* push_fds): the live part of the stack holds each free slot exactly once
\* and no used one, so a slot is never handed to two connections.
FreeStackExact ==
  /\ \A a, b \in LiveRange(fds_stack) : a # b => fds_stack.arr[a] # fds_stack.arr[b]
  /\ FreeSet(fds_stack) = {i \in Slots : ~clients[i].is_used}

\* The poll set, the slot array and the sockets agree while the loop runs:
\* a used slot polls its own open connection, a free one polls nothing,
\* and every accepted connection sits in exactly one slot (accept_conn,
\* out_close_conn).
SlotFdConsistent ==
  phase # "exited" =>
    /\ \A i \in Slots :
         /\ clfds[i] = clients[i].cli_fd
         /\ clients[i].is_used <=> clfds[i] # NoFd
         /\ clients[i].is_used => conn[clfds[i]].st = "open"
    /\ \A k \in Conns : conn[k].st = "open" => \E i \in Slots : clfds[i] = k
    /\ \A i, j \in Slots : i # j /\ clfds[i] # NoFd => clfds[i] # clfds[j]

\* handle_client never leaves recv_buf full, so the next recv() asks for
\* at least one byte and a 0 return always means end of stream; and the
\* buffer holds only bytes read from the peer.  A length check that lets
\* one byte too many through fills the buffer.
RecvBufferBound ==
  \A i \in Slots : clients[i].is_used =>
    /\ clients[i].recv_s < CLI_PKT_RSIZE
    /\ clients[i].recv_s <= conn[clients[i].cli_fd].rpos

\* What each peer receives follows the protocol: BANNER first and only
\* once, then at most one of AUTH_OK and AUTH_REJECT, DATA only after
\* AUTH_OK, and nothing after AUTH_REJECT, which ends the connection
\* (packet switch of handle_client, handle_auth, handle_iface_read).
ServerStreamWellFormed ==
  \A k \in Conns :
    LET s == conn[k].out IN
    \A j \in 1 .. Len(s) :
      /\ s[j].type = "BANNER" <=> j = 1
      /\ s[j].type \in {"AUTH_OK", "AUTH_REJECT"} => j = 2
      /\ s[j].type = "DATA" => j > 2 /\ s[2].type = "AUTH_OK"
      /\ s[j].type = "AUTH_REJECT" => j = Len(s) /\ conn[k].st = "closed"

\* The frames a peer sent before its first over-long one.
WellFramed(w) == LET c == SelectInSeq(w, Corrupt)
                 IN  IF c = 0 THEN w ELSE SubSeq(w, 1, c - 1)

\* Sliding-buffer correctness: whatever sizes recv() returns, the packet
\* switch acts on the frames the peer sent, in order, none skipped and none
\* made up (the decode loop and its memmove of the tail), at least up to
\* the first over-long frame, after which out_err_c has lost the framing.
DecodedPrefixOfSent ==
  \A k \in Conns : \/ IsPrefix(conn[k].seen, conn[k].wire)
                  \/ IsPrefix(WellFramed(conn[k].wire), conn[k].seen)

\* Error-budget enforcement: a slot that is still in use has been charged
\* no more than MAX_ERR_C errors, because the error that exceeds the budget
\* disconnects it.  send_to_client charges err_c on every failed send,
\* including the broadcast of handle_iface_read, but only out_err_c tests
\* the budget.
ErrBudgetEnforced ==
  \A i \in Slots : clients[i].is_used => clients[i].err_c <= MAX_ERR_C

\* pop_fds, push_fds and the poll set, as accept_conn and out_close_conn
\* use them, implement an exclusive slot pool: no accept hands a held
\* slot to a new connection, and no connection holds two slots.
Pool == INSTANCE SlotPool WITH Holders <- Conns, None <- NoFd, owner <- clfds
SlotPoolRefined == Pool!PoolSpec

\* A connection in the listen backlog is eventually accepted or refused
\* (accept_conn closes it when pop_fds finds no free slot), so a full
\* server never leaves a peer hanging -- provided accept() does not fail
\* forever (the strong fairness of AcceptConn).
BacklogServed ==
  \A k \in Conns : conn[k].st = "backlog" ~> conn[k].st \in {"open", "closed"}

\* A peer that closes its side gets its slot back: the server reads to the
\* end of the stream and closes the connection.
PeerCloseReleasesSlot ==
  \A k \in Conns : (conn[k].st = "open" /\ conn[k].fin) ~> conn[k].st = "closed"

\* Once intr_handler (or a failed TUN read) has set state->stop, event_loop
\* returns: stop is read only at the top of the loop, and a signal that
\* lands between that check and poll() does not interrupt poll(), so the
\* loop gets back to the check through the events it handles or poll()'s
\* 5000 ms timeout.
ShutdownOnSignal == stop ~> phase = "exited"

=============================================================================
