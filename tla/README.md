# TLA+ models of the teavpn2 server

This directory holds TLA+ models of the teavpn2 VPN server, the TLC
configurations that check them, and `PROJECT.json`. `PROJECT.json` lists the
components, runs, mutants, the source lines each definition models, the
findings and the hazards.

## The system

The TCP server core is `src/unnamed/part_000`. It corresponds to
`server/linux/tcp.c` and is one thread around `poll()`. The poll set is
`[listen, tun, pipe, client 0 .. max_conn-1]`. Each iteration of `event_loop`
does these steps in order:

1. It checks `state->stop`, which `intr_handler` sets on SIGINT, SIGHUP,
   SIGTERM or SIGQUIT. A signal that arrives during `poll()` returns EINTR
   and also ends the loop.
2. When the listening socket is readable, it calls `accept_conn` once.
   `accept_conn` takes a slot index from the free-slot stack (`pop_fds`). If
   the stack is empty, it closes the new socket.
3. When the TUN descriptor is readable, it calls `handle_iface_read`. This
   reads one datagram and sends it as `SRV_PKT_DATA` to every slot in
   `CT_AUTHENTICATED`.
4. It calls `handle_client` for every client entry with input, in index
   order. `handle_client` runs one `recv()` into the slot's receive buffer,
   then decodes frames. A frame is a 4-byte header (type, pad, length)
   followed by a payload of at most 4096 bytes. The decode loop works like
   this:
   - A length over the limit goes to `out_err_c`. It empties the buffer,
     charges `err_c` and closes the client once the budget `MAX_ERR_C` is
     spent.
   - An incomplete frame is saved for the next call.
   - A complete frame goes to the packet switch (HELLO, AUTH, DATA, CLOSE,
     default). Any tail behind it is memmoved to the head and decoded again.
   - A closed client (`out_close_conn`) has its socket closed, its record
     cleared, and its slot pushed back on the stack (`push_fds`).

The packet switch drives the client state machine
`CT_NEW -> CT_ESTABLISHED -> CT_AUTHENTICATED`:
- HELLO in `CT_NEW` sends the banner.
- AUTH after HELLO calls `handle_auth`. It sends AUTH_OK, or else
  AUTH_REJECT and closes the client.
- DATA from an authenticated client is written to TUN.
- CLOSE closes the client.
- Any other type closes an unauthenticated client. For an authenticated
  client it is charged to the error budget.

`src/unnamed/part_001` holds the client packet layout and `iface.c`, which
creates the TUN device and configures it by running `ip(8)`. The other
sources are older or experimental variants:
- a UDP session map;
- a multi-threaded io_uring server;
- two versions of the command-line parser.

## Modules

| Module | Models |
|---|---|
| `FdsStack` | `struct _fds_stack`, `push_fds` and `pop_fds` as operators on a record `[sp, max_sp, arr]`. The stack's state lives in `TcpServer`. |
| `SlotPool` | The abstract specification of the slot array. A slot goes from free to exactly one holder and back to free. |
| `SessionTable` | The abstract specification of the UDP session table: a dictionary from source address and port to a session slot, opened and closed one key at a time. |
| `TcpServer` | The whole TCP core: the variables are the stack, the slot array, the client poll entries, the connections, `stop` and the loop phase. |
| `MC_TcpServer` | Frame sets for the runs. |
| `UdpSession` | The UDP server's session table (`udp_session.c`): the session array, the index stack (the `FdsStack` operators), and the 256 x 256 array of head buckets with their malloc'd chains. `get_udp_sess` and `put_udp_session` hold `sess_stk_lock` for their whole body, and `map_find_udp_sess` only reads under `sess_map_lock`. So each is one atomic step, and lookup is the operator `MapFind`. The caller contract, modelled because `udp.c` is absent: a session is created only for an address and port that have none, and only a connected session is put. |
| `ServerArgv`, `MC_ServerArgv` | `server_argv_parse` / `server_getopt` of `sources/teavpn2/server/argv.c`. It has the `long_opt` table, the `short_opt` string, `getopt_long`'s mapping, the switch, and the byte-level sock-type comparison. |
| `IoUringServer`, `MC_IoUring` | The multi-threaded io_uring server of `server/linux.old2/tcp_io_uring.old.c`, with `srstk_push`, `srstk_pop` and `reset_client_state` of `server/linux/tcp_common.h`. It is described below. |
| `ServerLifecycle` | `teavpn_server_tcp_handler`: the startup steps, the event loop as one step, and `destroy_state`, with the process's descriptor table. It is described below. |
| `NetmaskCidr` | The netmask-to-CIDR conversion of `teavpn_iface_toggle` as a recursive operator, compared with the prefix length. |

In `TcpServer`:
- Every connection a peer opens is a number in `Conns`. Its record holds:
  - the frames the peer has written (`wire`, a sequence of headers);
  - the bytes the server has read (`rpos`);
  - end of stream (`fin`);
  - a reset (`rst`);
  - the frames the server sent it (`out`);
  - the headers the packet switch acted on (`seen`).
- Payload bytes are not modelled, only their number. When the buffer head is
  not on a frame boundary, the decoder reads an arbitrary header. That is
  what the code does with bytes from the middle of a payload.
- The header of a saved incomplete frame is kept in the slot's `head` field.
- Actions:
  - `EnterPoll` is the stop check finding no signal. After it the loop is
    in `phase = "poll"`, so a signal can land between the check and the
    call, as in the code.
  - `Poll` takes the snapshot of ready descriptors (`Ready`). `PollTimeout`
    is `poll()` returning 0 after 5000 ms with nothing ready. `PollIntr` is
    `poll()` failing with EINTR because a signal arrived while it was blocked.
  - `LoopExit` is the stop check finding `stop` set. It and `PollIntr` end
    with `Exit`, which is `destroy_state`.
  - `AcceptConn`, `HandleIfaceRead` and `HandleClient(i)` are the three
    handlers, in the loop's order. `AcceptFail` is `accept_conn` when
    `accept()` itself fails (EAGAIN, or an error such as EMFILE that is
    only logged): the connection stays in the backlog.
  - `HandleClient` is one of:
    - `RecvError`: `recv()` fails, which goes to `out_err_c`;
    - `RecvEof`: `recv()` returns 0, which goes to `out_close_conn`;
    - `RecvData`: `recv()` returns `n` bytes, and the whole decode loop of
      that call runs as the recursive operators `Process`, `Frame` and
      `AfterPacket`, ending with the close or the save.
  - The environment actions: `PeerConnect`, `PeerSend`, `PeerShutdown`,
    `PeerReset`, `TunArrive` and `Signal`.
  - `send()` is a choice over `SendResults`: the whole frame, a short write,
    or failure.
  - The auth adapter's decision is a nondeterministic choice.
- `err_c` keeps a width, `ERR_C_BITS`, so its wrap-around is modelled.

In `IoUringServer`:
- Each thread owns a ring. A ring is two sequences of requests: `sq` holds
  the entries prepared but not yet submitted, and `infl` holds the ones the
  kernel has. A request is an accept, a TUN read, or a recv for a client
  slot on a connection with a length.
- Completions:
  - The kernel completing a request and the thread handling the completion
    are one step.
  - A recv completes with an error if the fd was closed or the peer reset.
  - It completes with 0 if it asked for 0 bytes or the stream ended.
  - Otherwise it completes with the data available.
- Actions:
  - `HandleAcceptErr` and `HandleTcp` are the two outcomes of
    `handle_event_tcp`: a failed accept, or a new connection.
  - `HandleTcp` runs up to the assignee's `io_uring_get_sqe`. `RegSubmit`
    is `__register_client` from the prepared recv to `io_uring_submit`.
    When the submit fails, it also covers the slot push-back of
    `register_client` and `handle_event_tcp`'s error path. `RegStore` is the
    store of `client->cli_fd` after a successful submit, followed by the
    re-arm of the accept.
  - `HandleTun` is `handle_event_tun`.
  - `HandleClient` is `handle_event_client` with `__handle_event_client`
    and `close_client_conn`.
  - `Timeout` is a turn of `run_thread`'s loop in which nothing completes:
    `do_uring_wait` returns `-ETIME`, and the loop test rereads `stop`.
    While `stop` is unset the turn changes nothing; once it is set, the
    thread leaves. Only thread 0 sets `stop`, and it leaves at once, so only
    a thread other than 0 leaves here. Leaving right after a handled
    completion reaches the same states. Such an exit only happens with two
    threads, that is, in the two violation runs.
- Registration takes three steps (`HandleTcp`, `RegSubmit`, `RegStore`),
  for two reasons:
  - Thread 0 takes an entry from the assignee's ring with no lock. If the
    assignee takes an entry from its own ring between the first two steps
    (`OwnSqe` records it), the data race on `sqe_tail` loses one of the two
    requests. Which one is lost is a nondeterministic choice.
  - Between the submit and the store of `cli_fd`, the assignee can already
    complete the recv. Its `close_client_conn` then closes fd -1 and pushes
    back the slot that thread 0 is still registering. A recv re-armed on
    fd -1 fails.
- `io_uring_submit` has an outcome (`SubmitResults`). A failed submit leaves
  its entries in `sq`, and the next submit on that ring hands them to the
  kernel.
- The two `cl_stk.lock` critical sections are atomic steps.
- The handshake handler is modelled as changing nothing. Its
  `io_uring_prep_send()` call has no arguments, so the file does not compile
  as it stands; the model is of the code as written around it.
- `tr_assign` is kept modulo the thread count. This is exact when the count
  divides 2^32.

In `ServerLifecycle`:
- `pc` is the step of `teavpn_server_tcp_handler` about to run. `st` is the
  part of `struct srv_tcp_state` that `destroy_state` reads: the four
  descriptor fields, whether `clients` is set, and the sockets of the slots
  in use.
- `fdt` is the set of descriptors the process has open. It starts as stdin,
  stdout and stderr. Like the kernel, `pipe()`, `open()`, `socket()` and
  `accept()` take the lowest free numbers.
- `InitState`, `InitPipe`, `InitIface`, `InitSocket` and `EventLoop` are the
  steps. Each chooses an outcome for every call in it that may fail (the
  constant `Faults`), and then runs the step's own cleanup. A failed step
  goes to `destroy_state` with its error (`Fail`).
- `EventLoop` stands for the loop of `TcpServer`. It fails only in its
  `calloc`. Otherwise it returns after a signal, an error event on the
  listening socket, or a failed `poll()`, leaving some slots in use.
- `DestroyState` closes every descriptor field that is not -1. It then
  walks the client array and closes the socket of every slot in use. If
  the array is NULL and `max_conn > 0`, the walk dereferences it and the
  process crashes.
- With `"calloc"` taken out of `Faults`, `CleanTeardown` holds (checked
  while modelling). Every other failing step leaves the descriptor table as
  the handler found it.

## Runs

| Run | cfg | Expect | What it shows |
|---|---|---|---|
| reactor_safety | `MC_TcpServer.cfg` | pass | 2 slots and 2 connections, each sending 2 frames; one TUN datagram; failing sends, resets and signals. Checks `FreeStackExact` (the stack holds every free slot once and no used one), `SlotFdConsistent` (poll set, slot array and sockets agree) and `ServerStreamWellFormed` (BANNER first and once, one auth verdict, DATA only after AUTH_OK, nothing after AUTH_REJECT). |
| codec | `MC_Codec.cfg` | pass | 1 connection with up to 4 frames, including over-long ones; `recv()` may return any byte count. Checks `DecodedPrefixOfSent` (the switch acts on exactly the frames sent, in order, up to the first over-long frame) and `RecvBufferBound` (the buffer never fills, so a 0 from `recv()` always means end of stream). |
| liveness | `MC_Liveness.cfg` | pass | 1 slot for 2 connections. Checks `SlotPoolRefined` (refinement of `SlotPool`), `PeerCloseReleasesSlot`, `BacklogServed` and `ShutdownOnSignal` (once `stop` is set the loop returns, also when the signal lands between the stop check and `poll()`, through `poll()`'s timeout). |
| err_budget | `MC_ErrBudget.cfg` | violation | Failed broadcast sends push `err_c` past `MAX_ERR_C` without a disconnect. |
| reqsync_tail | `MC_ReqSync.cfg` | violation | REQSYNC followed by DATA in one read loses the DATA frame. |
| udp_session_map | `MC_UdpSession.cfg` | pass | 3 slots; addresses 1 and 65537 share the bucket `sess_map[1][0]`; 2 ports; malloc may fail. Checks `MapMatchesSessions`: every connected session is in exactly one bucket, its own; only a head can be empty, and then it has no chain; the stack holds exactly the free indices. Checks `SessionTableRefined`: what `map_find_udp_sess` returns for every address and port refines the `SessionTable` dictionary, so a get makes exactly its own key found, a put exactly its own key not found, and no step hides another session of the bucket. |
| argv_netmask | `MC_ArgvNetmask.cfg` | violation | `-b` / `--ipv4-netmask` reach the default case of the switch, which handles `n`, so the parser returns -1. |
| iouring_threads | `MC_IoUringThreads.cfg` | violation | Two threads, 2 slots, 2 connections. `SlotExclusive` says the stack and the client array partition the slots, and the stack has no duplicate. It fails as follows: thread 0 submits the recv of a new client on thread 1's ring, and thread 1 completes it (the peer reset) before thread 0 stores `cli_fd`. `close_client_conn` closes fd -1 and pushes the slot, which is still being registered. |
| iouring_single | `MC_IoUringSingle.cfg` | pass | One thread, 1 slot for 2 connections with 2 frames each, a TUN datagram, accept errors including a fatal one. Checks `TypeOK` (which includes `recv_s` staying within the buffer), `RecvArmedOnce` (a registered client has exactly one recv on the rings, a free slot none) and `SlotExclusive`. Also checks `PeerEndReleasesSlot` and `AcceptServesBacklog`. The latter says every connection in the listen backlog is eventually registered or refused for want of a slot, unless the server is stopping: each path of `handle_event_tcp` re-arms the accept. |
| iouring_sqe_race | `MC_IoUringRace.cfg` | violation | Two threads, with peers that neither write nor close (the constraint `QuietPeers`), so no recv completes. Thread 0 takes an entry from thread 1's ring while thread 1 re-arms its TUN read, and the new client's recv is lost. |
| netmask_cidr | `NetmaskCidr.cfg` | violation | 128.0.0.0 is converted to /8. |
| lifecycle_init_fail | `MC_Lifecycle.cfg` | violation | Every call of the startup sequence may fail, with 2 client slots. When a calloc in `init_state` fails, `destroy_state` runs on the zeroed state: it closes descriptor 0 and then reads the client array through a NULL pointer. |

Each property of a passing run has a mutant in `PROJECT.json`: a plausible
bug in the modelled code that TLC finds under that run's configuration.

## Bounds

- `CLI_PKT_DATA_SIZ = 1`: frames are 4 or 5 bytes and the buffer is 5 bytes.
  A complete frame, an incomplete one, a frame with a tail behind it, and an
  over-long header all occur within two frames. These are the cases the
  decode loop distinguishes, whatever the size.
- `MAX_ERR_C = 1`: the second charged error closes the client.
- `ERR_C_BITS`: 1 or 2 bits, so the wrap is reachable.
- `SplitReads`:
  - In the reactor runs, `recv()` returns everything that fits, which still
    splits frames at the buffer boundary.
  - In the codec run, `recv()` returns any count.
- `SendResults`: the passing runs use whole sends and failures. Short sends
  are listed as a hazard.
- io_uring runs: the buffer is `PKT_SIZE = 2` bytes with a 1-byte header
  (`MIN_READ`). Frames of 1 or 2 bytes therefore reach all three cases of
  `__handle_event_client` (header incomplete, data incomplete, complete)
  and a full buffer within two frames. In the single-thread run, one slot
  and two connections reach the full-stack refusal, and slot reuse after a
  close. Both races need two threads and a second client, the smallest case
  in which the assignee is not thread 0.
- `SubmitResults = {"ok"}` in every io_uring run. A failed submit leaves the
  recv of a registered client unarmed, which breaks `RecvArmedOnce` at
  once. That case is listed as a hazard instead.
- `recv_s` is never reset (the "TODO: Handle extra tail" in
  `__handle_event_client`). Once a buffer's worth of packets has arrived, the
  re-armed recv asks for 0 bytes, completes with 0, and the live connection
  is closed. The runs reach this state, but no property is stated for it;
  the hazard is listed in `PROJECT.json`.
- `WaitAll = FALSE` in every run. This is the behaviour of kernels before
  5.18, where an io_uring recv returns what is available despite
  `MSG_WAITALL`. On later kernels a short first packet is never read; that
  case is a hazard in `PROJECT.json`.

## Fairness

The loop thread is the only actor that must make progress. It blocks only in
`poll()`, and `poll()` returns after at most 5000 ms. `EnterPoll`, `Poll`,
`PollTimeout`, `LoopExit`, `HandleIfaceRead` and each `HandleClient(i)` are
weakly fair.

`accept()` may fail, and `AcceptFail` is not fair. A failure consumes the
readiness, so a successful accept is only enabled again after the next
`poll()`. `AcceptConn` is therefore strongly fair. This is an assumption
about the kernel: `accept()` does not fail forever. `BacklogServed` rests
on it. A persistent EMFILE would leave a connection in the backlog for good;
that case is listed as a hazard.

Peers, the TUN device and signals are not fair, because the server cannot
make them act. `PollIntr` is not fair either: a signal that arrives before
`poll()` blocks does not interrupt it.

In `IoUringServer`, each thread's handling of the completions on its ring is
weakly fair. This is justified because `io_uring_wait_cqe_timeout` returns a
posted completion. A failed accept is the kernel's choice and is not fair.
`Timeout` is not fair, and no property says that the other threads leave
once `stop` is set.

## Not modelled

- The arguments of the startup calls: socket options, the bind address,
  the interface configuration. Only each call's success or failure is
  modelled.
- The shell commands of `iface.c`.
- The logging.
- The text fields of the client record.
- The parts of the io_uring server that are not modelled:
  - failures in `spawn_threads`, which happen before any client exists;
  - failures of `teavpn2_server_tcp_socket_setup`, whose source is absent;
  - running out of SQ entries (each ring has
    `max_conn*100 + threads*100 + 1000`);
  - `do_uring_wait` errors other than `-ETIME` and `-EINTR`.
- `allocator.h`, which only declares functions defined elsewhere.
- The `old2` argument parser. It calls `bt_getopt`, which is not in the
  repository. Its loop skips the first two results of `bt_getopt`, meant to
  be `./teavpn2` and `server`. What it parses therefore depends on whether
  `bt_getopt` returns a result for a word that is not an option, and only
  the absent source says that.
- The callers of the UDP session table (`udp.c`, also absent). The hazards
  that depend on them are listed with a note in `PROJECT.json`.

## Plan for further work

1. A run that checks whole frames under short sends, once the intended
   behaviour of a short `send()` is settled.
2. Error events on the listening socket and on `poll()` itself, which end the
   loop without `stop`.
3. The `old2` argument parser's table against its switch, once `bt_getopt`'s
   contract is fixed from its use.
4. A run that keeps the io_uring submit failure of `__register_client`. It
   was checked while modelling; see the hazard at `tcp_io_uring.old.c:113`.
