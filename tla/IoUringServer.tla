---------------------------- MODULE IoUringServer ----------------------------
(***************************************************************************)
(* The multi-threaded io_uring TCP server (server/linux.old2/             *)
(* tcp_io_uring.old.c) with its client slot stack (srstk_push, srstk_pop *)
(* and reset_client_state in server/linux/tcp_common.h).                  *)
(*                                                                         *)
(* Every thread owns a ring.  A ring is the entries prepared but not yet  *)
(* submitted (sq) and the requests the kernel holds (infl); a completion  *)
(* is handled in the same step as the kernel produces it.  Thread 0 also  *)
(* owns the accept request and registers every accepted client on the    *)
(* ring of an assignee thread chosen round robin.  The registration is   *)
(* three steps: io_uring_get_sqe on the assignee's ring reads and then   *)
(* writes the ring's unlocked sqe_tail while the assignee may be taking  *)
(* entries from the same ring, and the submit hands the recv to the      *)
(* assignee before thread 0 stores cli_fd in the slot.                   *)
(*                                                                         *)
(* A peer's byte stream is a sequence of frames, each MIN_READ header    *)
(* bytes plus the data length the header declares; the server has read   *)
(* rd bytes of it.                                                        *)
(***************************************************************************)
EXTENDS Integers, Sequences, SequencesExt, FiniteSets

CONSTANTS
  NThreads,       \* cfg->sys.thread
  NSlots,         \* cfg->sock.max_conn
  NConns,         \* TCP connections peers open during a behaviour
  MIN_READ,       \* TCLI_PKT_MIN_READ: type, pad and length bytes
  PKT_SIZE,       \* sizeof(client->raw_pkt)
  FrameLens,      \* data lengths a peer may declare in a header
  MaxFrames,      \* frames a peer writes on one connection
  MaxTunPkts,     \* datagrams the kernel delivers on the TUN fds
  SubmitResults,  \* io_uring_submit() outcomes: "ok", "eagain", "fail"
  AcceptErrors,   \* failed accept completions: "eagain", "fatal"
  WaitAll         \* TRUE: the kernel honours MSG_WAITALL on ring recvs

Stk == INSTANCE FdsStack WITH MaxConn <- NSlots

Threads == 0 .. NThreads - 1
Slots   == Stk!Slots
Conns   == 1 .. NConns
NoConn  == 0          \* cli_fd == -1

\* Ring requests; sqe user_data is RING_QUE_TCP, RING_QUE_TUN or the client.
Req == [op : {"accept", "tun", "recv"}, slot : Slots \cup {-1},
        fd : Conns \cup {NoConn}, len : 0 .. PKT_SIZE]
AccReq == [op |-> "accept", slot |-> -1, fd |-> NoConn, len |-> 0]
TunReq == [op |-> "tun", slot |-> -1, fd |-> NoConn, len |-> 0]
RecvReq(k, c, n) == [op |-> "recv", slot |-> k, fd |-> c, len |-> n]
NoReq == [op |-> "recv", slot |-> -1, fd |-> NoConn, len |-> 0]

NoReg == [slot |-> -1, fd |-> NoConn, asg |-> 0, clobber |-> NoReq, sub |-> FALSE]

\* struct client_slot: cli_fd and recv_s; the flags and names are not read.
ClientSlot == [fd : Conns \cup {NoConn}, recv_s : 0 .. PKT_SIZE]
\* struct srv_stack: sp, max_sp and arr; the lock is the atomicity of steps.
SrvStack == [sp : 0 .. NSlots, max_sp : {NSlots}, arr : [Slots -> Slots]]

VARIABLES
  stk,       \* state->cl_stk
  cl,        \* state->clients[k]: cli_fd and recv_s
  ring,      \* ring of each thread: sq (prepared) and infl (submitted)
  alive,     \* the thread is still in run_thread's loop
  stop,      \* state->stop
  tr,        \* state->tr_assign modulo the thread count
  reg,       \* thread 0 between get_sqe on the assignee ring and storing cli_fd
  conn,      \* "none", "backlog", "open", "refused" or "closed" by server
  peer,      \* "open", "fin" or "rst"
  sent,      \* frames the peer wrote
  rd,        \* bytes of them the server read
  tunq,      \* datagrams waiting on the TUN fds
  tunIn      \* datagrams delivered so far

\* struct srv_state with its threads: what the server's steps change.
srv_vars == <<stk, cl, ring, alive, stop, tr, reg>>
vars == <<stk, cl, ring, alive, stop, tr, reg, conn, peer, sent, rd, tunq, tunIn>>

Bytes(s)  == MIN_READ * Len(s) + FoldSeq(LAMBDA x, y : x + y, 0, s)
Avail(c)  == Bytes(sent[c]) - rd[c]
MinOf(a, b) == IF a < b THEN a ELSE b

-----------------------------------------------------------------------------
(* The stack of tcp_common.h.                                              *)

\* Mutant: srstk_pop returns arr[sp] without advancing sp.
SrstkPopKeepSp(s) == s
\* srstk_pop: -1 when sp == max_sp, otherwise arr[sp++].
SrstkPop(s) == Stk!PopFds(s)
\* srstk_push: a full stack (sp == 0) silently refuses the index.
SrstkPush(s, idx) == IF Stk!CanPush(s) THEN Stk!PushFds(s, idx) ELSE s

\* reset_client_state
ResetClient == [fd |-> NoConn, recv_s |-> 0]

-----------------------------------------------------------------------------
(* Ring operations.                                                        *)

\* io_uring_cqe_seen of the completion of the i-th request.
Seen(rg, i) == [rg EXCEPT !.infl = RemoveAt(@, i)]

\* io_uring_get_sqe, io_uring_prep_*, io_uring_submit.  A failed submit
\* leaves the prepared entry in the SQ ring, so the next submit on the
\* ring hands it to the kernel.
PrepSubmit(rg, req, res) ==
  IF res = "ok" THEN [sq |-> <<>>, infl |-> rg.infl \o rg.sq \o <<req>>]
                ELSE [rg EXCEPT !.sq = Append(@, req)]

\* The ring's owner takes an entry while thread 0 is between reading and
\* writing the same ring's sqe_tail: one of the two entries is lost.
OwnSqe(t, req) ==
  IF reg.slot # -1 /\ ~reg.sub /\ reg.asg = t /\ t # 0 THEN [reg EXCEPT !.clobber = req]
                                            ELSE reg

-----------------------------------------------------------------------------
(* spawn_threads and teavpn2_server_tcp_run_io_uring: every ring holds a   *)
(* TUN read, thread 0's ring also the accept.                              *)
Init ==
  /\ stk = Stk!InitFdsStack
  /\ cl = [k \in Slots |-> ResetClient]
  /\ ring = [t \in Threads |->
               [sq |-> <<>>,
                infl |-> IF t = 0 THEN <<TunReq, AccReq>> ELSE <<TunReq>>]]
  /\ alive = [t \in Threads |-> TRUE]
  /\ stop = FALSE
  /\ tr = 0
  /\ reg = NoReg
  /\ conn = [c \in Conns |-> "none"]
  /\ peer = [c \in Conns |-> "open"]
  /\ sent = [c \in Conns |-> <<>>]
  /\ rd = [c \in Conns |-> 0]
  /\ tunq = 0
  /\ tunIn = 0

Idle(t) == alive[t] /\ (t = 0 => reg = NoReg)

\* Mutant: the path returns without going to out_rearm.
RearmAcceptDropped(rg, res) ==
  /\ ring' = [ring EXCEPT ![0] = rg]
  /\ UNCHANGED alive
\* handle_event_tcp's out_rearm on thread 0's ring; a failed submit ends
\* the thread's loop.
RearmAccept(rg, res) ==
  /\ ring' = [ring EXCEPT ![0] = PrepSubmit(rg, AccReq, res)]
  /\ alive' = [alive EXCEPT ![0] = (res = "ok")]

-----------------------------------------------------------------------------
(* handle_event_tcp when the accept completes with an error: -EAGAIN      *)
(* re-arms the accept, anything else sets state->stop and ends the loop.   *)
HandleAcceptErr(i) ==
  /\ Idle(0)
  /\ ring[0].infl[i] = AccReq
  /\ LET rg == Seen(ring[0], i) IN
     \/ /\ "eagain" \in AcceptErrors
        /\ \E res \in SubmitResults : RearmAccept(rg, res)
        /\ UNCHANGED stop
     \/ /\ "fatal" \in AcceptErrors
        /\ stop' = TRUE
        /\ alive' = [alive EXCEPT ![0] = FALSE]
        /\ ring' = [ring EXCEPT ![0] = rg]
  /\ UNCHANGED <<stk, cl, tr, reg, conn, peer, sent, rd, tunq, tunIn>>

(* handle_event_tcp with a new connection, and register_client up to the   *)
(* call of __register_client: the slot pop under cl_stk.lock (a full stack *)
(* closes the connection and re-arms the accept), the choice of the        *)
(* assignee thread and its io_uring_get_sqe.                               *)
HandleTcp(i) ==
  /\ Idle(0)
  /\ ring[0].infl[i] = AccReq
  /\ \E c \in Conns :
       /\ conn[c] = "backlog"
       /\ \A d \in 1 .. c - 1 : conn[d] # "backlog"
       /\ LET rg == Seen(ring[0], i) IN
          IF Stk!PopVal(stk) = -1
            THEN /\ conn' = [conn EXCEPT ![c] = "refused"]
                 /\ \E res \in SubmitResults : RearmAccept(rg, res)
                 /\ UNCHANGED <<stk, tr, reg>>
            ELSE LET a == IF NThreads <= 1 THEN 0 ELSE tr IN
                 /\ stk' = SrstkPop(stk)
                 /\ conn' = [conn EXCEPT ![c] = "open"]
                 /\ reg' = [slot |-> Stk!PopVal(stk), fd |-> c, asg |-> a,
                            clobber |-> NoReq, sub |-> FALSE]
                 /\ tr' = IF NThreads <= 1 THEN tr ELSE (tr + 1) % NThreads
                 /\ ring' = [ring EXCEPT ![0] = rg]
                 /\ UNCHANGED alive
  /\ UNCHANGED <<cl, stop, peer, sent, rd, tunq, tunIn>>

\* The entry thread 0 prepared is lost to the race: the submit only hands
\* the kernel what was prepared before.
PrepSubmitLost(rg, res) ==
  IF res = "ok" THEN [sq |-> <<>>, infl |-> rg.infl \o rg.sq] ELSE rg

\* The owner's entry is lost to the race.
DropReq(rg, q) ==
  LET j == SelectInSeq(rg.infl, LAMBDA x : x = q)
  IN  IF j = 0 THEN rg ELSE [rg EXCEPT !.infl = RemoveAt(@, j)]

\* __register_client from io_uring_prep_recv to io_uring_submit, and on a
\* failed submit the rest of register_client (pushing the slot back) and
\* handle_event_tcp's out_err and out_rearm.  A successful submit hands
\* the recv to the assignee before cli_fd is stored in the slot.
RegSubmit ==
  /\ reg.slot # -1 /\ ~reg.sub
  /\ alive[0]
  /\ LET k == reg.slot
         c == reg.fd
         a == reg.asg
         req == RecvReq(k, c, PKT_SIZE)
         victims == IF reg.clobber = NoReq THEN {"none"} ELSE {"mine", "theirs"}
     IN
     \E res \in SubmitResults, victim \in victims :
       LET base == IF victim = "theirs" THEN DropReq(ring[a], reg.clobber)
                                        ELSE ring[a]
           newA == IF victim = "mine" THEN PrepSubmitLost(base, res)
                                      ELSE PrepSubmit(base, req, res)
           r1   == [ring EXCEPT ![a] = newA]
       IN
       \/ /\ res = "ok"
          /\ ring' = r1
          /\ reg' = [reg EXCEPT !.sub = TRUE]
          /\ UNCHANGED <<stk, conn, alive, stop>>
       \/ /\ res # "ok"
          /\ stk' = SrstkPush(stk, k)
          /\ conn' = [conn EXCEPT ![c] = "refused"]
          /\ reg' = NoReg
          /\ IF res = "fail"
               THEN /\ stop' = TRUE
                    /\ alive' = [alive EXCEPT ![0] = FALSE]
                    /\ ring' = r1
               ELSE /\ \E res2 \in SubmitResults :
                         /\ ring' = [r1 EXCEPT ![0] = PrepSubmit(r1[0], AccReq, res2)]
                         /\ alive' = [alive EXCEPT ![0] = (res2 = "ok")]
                    /\ UNCHANGED stop
  /\ UNCHANGED <<cl, tr, peer, sent, rd, tunq, tunIn>>

\* The rest of __register_client after the submit: client->cli_fd =
\* cli_fd; then handle_event_tcp's out_rearm.
RegStore ==
  /\ reg.sub
  /\ alive[0]
  /\ cl' = [cl EXCEPT ![reg.slot].fd = reg.fd]
  /\ \E res \in SubmitResults : RearmAccept(ring[0], res)
  /\ reg' = NoReg
  /\ UNCHANGED <<stk, stop, tr, conn, peer, sent, rd, tunq, tunIn>>

\* handle_event_tun: the datagram is read and dropped, the read re-armed;
\* a failed submit ends the thread's loop.
HandleTun(t, i) ==
  /\ Idle(t)
  /\ ring[t].infl[i] = TunReq
  /\ tunq > 0
  /\ tunq' = tunq - 1
  /\ \E res \in SubmitResults :
       /\ ring' = [ring EXCEPT ![t] = PrepSubmit(Seen(ring[t], i), TunReq, res)]
       /\ alive' = [alive EXCEPT ![t] = (res = "ok")]
  /\ reg' = OwnSqe(t, TunReq)
  /\ UNCHANGED <<stk, cl, stop, tr, conn, peer, sent, rd, tunIn>>

\* close_client_conn: close(cli_fd) of whatever the slot holds now,
\* reset_client_state, srstk_push under cl_stk.lock.
CloseClientConn(k) ==
  LET f == cl[k].fd IN
  /\ conn' = IF f = NoConn THEN conn ELSE [conn EXCEPT ![f] = "closed"]
  /\ cl' = [cl EXCEPT ![k] = ResetClient]
  /\ stk' = SrstkPush(stk, k)

\* What the kernel completes a recv with: an error (the fd was closed,
\* the peer reset, a recv armed on fd -1), 0 (nothing asked, or end of
\* stream) or data.
RecvFails(q) == q.fd = NoConn \/ conn[q.fd] # "open" \/ peer[q.fd] = "rst"
\* Mutant: only an empty request reads 0; a peer's end of stream is missed.
RecvEofNoFin(q) == q.len = 0
RecvEof(q)   == q.len = 0 \/ (Avail(q.fd) = 0 /\ peer[q.fd] = "fin")
RecvReady(q) == /\ q.len > 0
                /\ Avail(q.fd) > 0
                /\ WaitAll => (Avail(q.fd) >= q.len \/ peer[q.fd] = "fin")

\* Mutant: the re-armed recv asks for the whole buffer again, not the rest.
RearmLenFull(rs) == PKT_SIZE
\* __handle_event_client: sizeof(client->raw_pkt) - recv_s bytes at
\* raw_pkt + recv_s.
RearmLen(rs) == PKT_SIZE - rs

\* Mutant: a recv that returned data is not re-armed.
RearmClientDropped(rg, req, res) == rg
\* __handle_event_client's out_rearm; the submit result is only logged.
RearmClient(rg, req, res) == PrepSubmit(rg, req, res)

\* handle_event_client and __handle_event_client: the packet decoding
\* (recv_s against TCLI_PKT_MIN_READ and the header length, then
\* handle_client_pkt, whose handlers return 0 and change nothing) ends in
\* out_rearm in every case; recv_s is never reset.
HandleClient(t, i) ==
  /\ Idle(t)
  /\ LET q  == ring[t].infl[i]
         k  == q.slot
         rg == Seen(ring[t], i)
     IN
     /\ q.op = "recv"
     /\ \/ /\ RecvFails(q) \/ (~RecvFails(q) /\ RecvEof(q))
           /\ CloseClientConn(k)
           /\ ring' = [ring EXCEPT ![t] = rg]
           /\ UNCHANGED <<reg, rd>>
        \/ /\ ~RecvFails(q) /\ ~RecvEof(q) /\ RecvReady(q)
           /\ LET n   == MinOf(Avail(q.fd), q.len)
                  rs  == cl[k].recv_s + n
                  req == RecvReq(k, cl[k].fd, RearmLen(rs))
              IN /\ rd' = [rd EXCEPT ![q.fd] = @ + n]
                 /\ cl' = [cl EXCEPT ![k].recv_s = rs]
                 /\ \E res \in SubmitResults :
                      ring' = [ring EXCEPT ![t] = RearmClient(rg, req, res)]
                 /\ reg' = OwnSqe(t, req)
           /\ UNCHANGED <<stk, conn>>
  /\ UNCHANGED <<alive, stop, tr, peer, sent, tunq, tunIn>>

\* A turn of run_thread's loop with nothing completed: do_uring_wait
\* returns -ETIME after a second (or -EINTR, which returns no completion),
\* and the loop test rereads state->stop.  A thread other than 0 leaves
\* only here; leaving right after a handled completion reaches the same
\* states, since a turn that finds stop unset changes nothing.
Timeout(t) ==
  /\ Idle(t)
  /\ alive' = [alive EXCEPT ![t] = ~stop]
  /\ UNCHANGED <<stk, cl, ring, stop, tr, reg, conn, peer, sent, rd, tunq, tunIn>>

\* The kernel's choice to fail an accept is not work a thread is owed.
AcceptFails(t) == \E i \in DOMAIN ring[t].infl : t = 0 /\ HandleAcceptErr(i)

Thread(t) ==
  \/ \E i \in DOMAIN ring[t].infl :
       \/ t = 0 /\ HandleTcp(i)
       \/ HandleTun(t, i)
       \/ HandleClient(t, i)
  \/ t = 0 /\ (RegSubmit \/ RegStore)

-----------------------------------------------------------------------------
(* The peers and the kernel side of the TUN device.                        *)
PeerConnect(c) ==
  /\ conn[c] = "none"
  /\ \A d \in 1 .. c - 1 : conn[d] # "none"
  /\ conn' = [conn EXCEPT ![c] = "backlog"]
  /\ UNCHANGED <<srv_vars, peer, sent, rd, tunq, tunIn>>

PeerSend(c, l) ==
  /\ peer[c] = "open" /\ conn[c] \in {"backlog", "open"}
  /\ Len(sent[c]) < MaxFrames
  /\ sent' = [sent EXCEPT ![c] = Append(@, l)]
  /\ UNCHANGED <<srv_vars, conn, peer, rd, tunq, tunIn>>

PeerClose(c, how) ==
  /\ peer[c] = "open" /\ conn[c] \in {"backlog", "open"}
  /\ peer' = [peer EXCEPT ![c] = how]
  /\ UNCHANGED <<srv_vars, conn, sent, rd, tunq, tunIn>>

TunArrive ==
  /\ tunIn < MaxTunPkts
  /\ tunq' = tunq + 1 /\ tunIn' = tunIn + 1
  /\ UNCHANGED <<srv_vars, conn, peer, sent, rd>>

Environment ==
  \/ \E c \in Conns : \/ PeerConnect(c)
                      \/ \E l \in FrameLens : PeerSend(c, l)
                      \/ \E how \in {"fin", "rst"} : PeerClose(c, how)
  \/ TunArrive

\* Every thread has left its loop.
Halted == (\A t \in Threads : ~alive[t]) /\ UNCHANGED vars

Next == (\E t \in Threads : Thread(t) \/ AcceptFails(t) \/ Timeout(t))
        \/ Environment \/ Halted

\* io_uring_wait_cqe_timeout returns a completion the kernel has posted,
\* so a thread whose ring holds a completable request handles it.
Fairness == \A t \in Threads : WF_vars(Thread(t))

Spec == Init /\ [][Next]_vars /\ Fairness

-----------------------------------------------------------------------------
(* Properties.                                                             *)

TypeOK ==
  /\ stk \in SrvStack
  /\ cl \in [Slots -> ClientSlot]
  /\ ring \in [Threads -> [sq : Seq(Req), infl : Seq(Req)]]
  /\ alive \in [Threads -> BOOLEAN] /\ stop \in BOOLEAN /\ tr \in Threads
  /\ conn \in [Conns -> {"none", "backlog", "open", "refused", "closed"}]
  /\ peer \in [Conns -> {"open", "fin", "rst"}]
  /\ rd \in [Conns -> Nat] /\ \A c \in Conns : rd[c] <= Bytes(sent[c])

\* Slots a client holds, or that thread 0 is registering.
Held == {k \in Slots : cl[k].fd # NoConn} \cup ({reg.slot} \ {-1})

\* The slot stack and the client array agree across threads: the stack's
\* live entries are distinct, none of them is a held slot, and every slot
\* is either held or on the stack (register_client's pop and push-back,
\* close_client_conn's reset and push).
SlotExclusive ==
  /\ \A x, y \in Stk!LiveRange(stk) : x # y => stk.arr[x] # stk.arr[y]
  /\ Stk!FreeSet(stk) \cap Held = {}
  /\ Stk!FreeSet(stk) \cup Held = Slots

\* The recv requests for slot k on all rings, prepared or submitted.
RecvsFor(k) ==
  UNION { { <<t, j>> : j \in { j \in 1 .. Len(ring[t].sq \o ring[t].infl) :
                                 (ring[t].sq \o ring[t].infl)[j].slot = k } }
          : t \in Threads }

\* A registered client (its cli_fd stored, or its recv submitted by
\* __register_client) has exactly one recv request on the rings and a
\* free slot has none: __register_client arms the first recv, every data
\* completion re-arms it and close_client_conn follows the last.
Registered(k) == cl[k].fd # NoConn \/ (reg.sub /\ reg.slot = k)
RecvArmedOnce ==
  \A k \in Slots : Cardinality(RecvsFor(k)) = IF Registered(k) THEN 1 ELSE 0

\* Every connection in the listen backlog is eventually taken by
\* handle_event_tcp, registered or refused for want of a slot, unless the
\* server is stopping: every path of handle_event_tcp and register_client
\* (accept error, full stack, submit result) re-arms the accept.
AcceptServesBacklog ==
  \A c \in Conns : conn[c] = "backlog" ~> (conn[c] # "backlog" \/ stop)

\* Once the peer of a registered client has shut down or reset its
\* connection, the slot is eventually released (handle_event_client's
\* out_close), unless the server is stopping and its threads leave.
PeerEndReleasesSlot ==
  \A c \in Conns, k \in Slots :
    (cl[k].fd = c /\ peer[c] # "open") ~> (cl[k].fd # c \/ stop)

=============================================================================
