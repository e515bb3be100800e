--------------------------- MODULE ServerLifecycle ---------------------------
(***************************************************************************)
(* teavpn_server_tcp_handler in the server core: init_state, init_pipe,   *)
(* init_iface, init_socket, event_loop and destroy_state, in that order,  *)
(* every failed step jumping to destroy_state.  Each library or system    *)
(* call that can fail is an outcome the step chooses; the calls a run     *)
(* lets fail are the constant Faults.                                      *)
(*                                                                         *)
(* The process's descriptor table is modelled as the set of open          *)
(* descriptors; open(), pipe(), socket() and accept() take the lowest    *)
(* free ones.  The event loop itself is the TcpServer module; here it is  *)
(* one step that leaves some client slots in use when it returns.         *)
(***************************************************************************)
EXTENDS Integers, FiniteSets

CONSTANTS
  MaxConn,   \* cfg->sock.max_conn
  Faults     \* calls that may fail: "calloc" (init_state), "pipe",
             \* "tun_alloc", "nonblock", "iface_up", "socket", "setsockopt",
             \* "bind", "listen", "calloc_fds" (event_loop), "poll"

StdFds  == {0, 1, 2}                  \* stdin, stdout, stderr at entry
FdBound == 3 + 4 + MaxConn            \* every descriptor the server opens

\* The outcomes a call can have: success, and failure if it may fail.
Ok(call) == IF call \in Faults THEN BOOLEAN ELSE {TRUE}

\* The n lowest descriptors not in the table, as the kernel hands them out.
LowestFree(tab, n) ==
  {f \in 0 .. FdBound : f \notin tab /\ Cardinality({g \in 0 .. f - 1 : g \notin tab}) < n}

VARIABLES
  pc,      \* the step of teavpn_server_tcp_handler about to run
  fdt,     \* the descriptors the process has open
  st,      \* struct srv_tcp_state: net_fd, tun_fd, pipe_fd[], clients != NULL,
           \* and the cli_fd of every slot with is_used
  retval   \* "ok" (0) or the error the handler returns

vars == <<pc, fdt, st, retval>>

\* teavpn_server_tcp_handler: memset(&state, 0, sizeof(state)), so every
\* descriptor field is 0 and clients is NULL until init_state sets them.
Init ==
  /\ pc = "init_state"
  /\ fdt = StdFds
  /\ st = [net_fd |-> 0, tun_fd |-> 0, pipe0 |-> 0, pipe1 |-> 0,
           clients |-> FALSE, used |-> {}]
  /\ retval = "ok"

\* A failed step: the handler goes to out: with the step's error.
Fail(err) == pc' = "destroy" /\ retval' = err

-----------------------------------------------------------------------------
(* init_state: calloc the client array and the stack array; on success   *)
(* fill the stack, and set every descriptor field to -1 and clients.     *)
(* On failure it returns -ENOMEM before touching the state.              *)
InitState ==
  /\ pc = "init_state"
  /\ \E clientsOk \in Ok("calloc"), stackOk \in Ok("calloc") :
       IF clientsOk /\ stackOk
       THEN /\ st' = [st EXCEPT !.net_fd = -1, !.tun_fd = -1, !.pipe0 = -1,
                                !.pipe1 = -1, !.clients = TRUE]
            /\ pc' = "init_pipe"
            /\ UNCHANGED retval
       ELSE Fail("ENOMEM") /\ UNCHANGED st
  /\ UNCHANGED fdt

\* init_pipe: pipe(state->pipe_fd); a failed pipe() leaves the array as it was.
InitPipe ==
  /\ pc = "init_pipe"
  /\ \E ok \in Ok("pipe") :
       IF ok
       THEN LET p == LowestFree(fdt, 2)
                lo == CHOOSE f \in p : \A g \in p : f <= g
            IN  /\ fdt' = fdt \cup p
                /\ st' = [st EXCEPT !.pipe0 = lo, !.pipe1 = CHOOSE f \in p : f # lo]
                /\ pc' = "init_iface"
                /\ UNCHANGED retval
       ELSE Fail("pipe") /\ UNCHANGED <<fdt, st>>

\* init_iface: tun_alloc (which closes its own descriptor when TUNSETIFF
\* fails), fd_set_nonblock and raise_up_interface; after tun_alloc the
\* failures close the TUN descriptor.  tun_fd is set only on success.
InitIface ==
  /\ pc = "init_iface"
  /\ \E tunOk \in Ok("tun_alloc"), nbOk \in Ok("nonblock"), upOk \in Ok("iface_up") :
       LET fd == CHOOSE f \in LowestFree(fdt, 1) : TRUE IN
       IF tunOk /\ nbOk /\ upOk
       THEN /\ fdt' = fdt \cup {fd}
            /\ st' = [st EXCEPT !.tun_fd = fd]
            /\ pc' = "init_socket"
            /\ UNCHANGED retval
       ELSE Fail("iface") /\ UNCHANGED <<fdt, st>>

\* init_socket with socket_setup: socket(), two setsockopt() calls, bind()
\* and listen(); after socket() a failure closes the descriptor
\* (if (fd > 0) close(fd)).  net_fd is set only on success.
InitSocket ==
  /\ pc = "init_socket"
  /\ \E sockOk \in Ok("socket"), optOk \in Ok("setsockopt"),
        bindOk \in Ok("bind"), listenOk \in Ok("listen") :
       LET fd == CHOOSE f \in LowestFree(fdt, 1) : TRUE IN
       IF sockOk /\ optOk /\ bindOk /\ listenOk
       THEN /\ fdt' = fdt \cup {fd}
            /\ st' = [st EXCEPT !.net_fd = fd]
            /\ pc' = "event_loop"
            /\ UNCHANGED retval
       ELSE Fail("socket") /\ UNCHANGED <<fdt, st>>

\* event_loop: calloc of the pollfd array (-ENOMEM), then the loop of the
\* TcpServer module, which returns 0 on a signal (stop, or poll() failing
\* with EINTR) or on an error event of the listening socket, and -errno
\* when poll() fails otherwise.  When it returns, the clients it accepted
\* and has not closed hold their slots and their sockets.
EventLoop ==
  /\ pc = "event_loop"
  /\ \E callocOk \in Ok("calloc_fds"), pollOk \in Ok("poll"), n \in 0 .. MaxConn :
       IF ~callocOk
       THEN Fail("ENOMEM") /\ UNCHANGED <<fdt, st>>
       ELSE LET cl == LowestFree(fdt, n) IN
            /\ fdt' = fdt \cup cl
            /\ st' = [st EXCEPT !.used = cl]
            /\ pc' = "destroy"
            /\ retval' = IF pollOk THEN "ok" ELSE "poll"

\* destroy_state: close pipe_fd[0], pipe_fd[1], tun_fd and net_fd unless
\* they are -1, then walk the client array and close the cli_fd of every
\* slot in use.  With clients NULL and max_conn > 0 the walk reads
\* (clients + max_conn)->is_used through a null pointer: the process dies
\* of SIGSEGV.
DestroyState ==
  /\ pc = "destroy"
  /\ LET fields == {st.pipe0, st.pipe1, st.tun_fd, st.net_fd} \ {-1} IN
     IF ~st.clients /\ MaxConn > 0
     THEN /\ fdt' = fdt \ fields
          /\ pc' = "crashed"
     ELSE /\ fdt' = fdt \ (fields \cup st.used)
          /\ pc' = "done"
  /\ UNCHANGED <<st, retval>>

\* The handler has returned, or the process has died.
Finished == pc \in {"done", "crashed"} /\ UNCHANGED vars

Next == InitState \/ InitPipe \/ InitIface \/ InitSocket \/ EventLoop
        \/ DestroyState \/ Finished

Spec == Init /\ [][Next]_vars /\ WF_vars(Next)

-----------------------------------------------------------------------------
TypeOK ==
  /\ pc \in {"init_state", "init_pipe", "init_iface", "init_socket",
             "event_loop", "destroy", "done", "crashed"}
  /\ fdt \subseteq 0 .. FdBound
  /\ st.used \subseteq 0 .. FdBound
  /\ retval \in {"ok", "ENOMEM", "pipe", "iface", "socket", "poll"}

\* Whatever step fails, teavpn_server_tcp_handler returns its error
\* instead of crashing, and destroy_state leaves the descriptor table as
\* the handler found it: every descriptor it opened is closed and none
\* it did not open (stdin is descriptor 0) is.
CleanTeardown ==
  pc \in {"done", "crashed"} => pc = "done" /\ fdt = StdFds
=============================================================================
