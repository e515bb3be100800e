----------------------------- MODULE ServerArgv -----------------------------
(***************************************************************************)
(* The server's command-line parser (sources/teavpn2/server/argv.c):      *)
(* init_default_cfg, then server_getopt's loop over getopt_long with the  *)
(* long_opt table and short_opt string, and the switch that stores each  *)
(* option in struct srv_cfg.                                               *)
(*                                                                         *)
(* An argument vector is a sequence of options [name, long, arg]: a long  *)
(* option "--name=arg" or a short option "-c arg".  Option arguments      *)
(* are sequences of byte codes; only the sock-type argument's bytes are   *)
(* inspected.                                                              *)
(***************************************************************************)
EXTENDS Integers, Sequences, TLC, Bitwise

CONSTANT Argvs   \* the argument vectors a run tries

\* long_opt[]: name -> the character getopt_long returns
LongOpt ==
  ("help" :> "h") @@ ("version" :> "v") @@ ("config" :> "c") @@
  ("data-dir" :> "D") @@ ("dev" :> "d") @@ ("ipv4" :> "4") @@
  ("ipv4-netmask" :> "b") @@ ("mtu" :> "m") @@ ("sock-type" :> "s") @@
  ("bind-addr" :> "H") @@ ("bind-port" :> "P") @@ ("max-conn" :> "M") @@
  ("backlog" :> "B")
LongNames == DOMAIN LongOpt

\* short_opt[] = "hvc:D:d:4:b:m:s:H:P:M:B:"
ShortOpt == {"h", "v", "c", "D", "d", "4", "b", "m", "s", "H", "P", "M", "B"}

\* getopt_long's return value for one option; '?' for an unknown one.
GetoptLong(o) ==
  IF o.long THEN IF o.name \in LongNames THEN LongOpt[o.name] ELSE "?"
  ELSE IF o.name \in ShortOpt THEN o.name ELSE "?"

TCP == <<116, 99, 112>>     \* "tcp"
UDP == <<117, 100, 112>>    \* "udp"

\* case 's': strncpy the first three bytes into a zeroed 4-byte union,
\* OR every byte with 0x20, clear the fourth byte, and compare with
\* "tcp" / "udp" including the terminating NUL.
SockTarg(v) ==
  <<(IF Len(v) >= 1 THEN v[1] ELSE 0) | 32,
    (IF Len(v) >= 2 THEN v[2] ELSE 0) | 32,
    (IF Len(v) >= 3 THEN v[3] ELSE 0) | 32, 0>>
SockType(v) ==
  IF SockTarg(v) = TCP \o <<0>> THEN "SOCK_TCP"
  ELSE IF SockTarg(v) = UDP \o <<0>> THEN "SOCK_UDP"
  ELSE "invalid"

VARIABLES
  argv,   \* the options after "server"
  pos,    \* getopt's optind over argv
  cfg,    \* struct srv_cfg fields the parser writes
  ret     \* "run", then "ok" (return 0), "fail" (return -1) or "exit"
          \* (show_help / show_version call exit(0))

vars == <<argv, pos, cfg, ret>>

\* init_default_cfg
DefaultCfg ==
  [cfg_file |-> "def_cfg_file", data_dir |-> "none", dev |-> "def_dev",
   ipv4 |-> "def_ipv4", ipv4_netmask |-> "def_ipv4_netmask", mtu |-> "1500",
   sock_type |-> "SOCK_TCP", bind_addr |-> "def_bind_addr",
   bind_port |-> "def_bind_port", max_conn |-> "def_max_conn",
   backlog |-> "def_backlog"]

\* The switch cases that store their argument, and the cfg field each
\* writes (trunc_str and atoi leave the short values of the runs as they are).
Field ==
  ("c" :> "cfg_file") @@ ("D" :> "data_dir") @@ ("d" :> "dev") @@
  ("4" :> "ipv4") @@ ("n" :> "ipv4_netmask") @@ ("m" :> "mtu") @@
  ("H" :> "bind_addr") @@ ("P" :> "bind_port") @@ ("M" :> "max_conn") @@
  ("B" :> "backlog")
Stored == DOMAIN Field

Init ==
  /\ argv \in Argvs
  /\ pos = 1
  /\ cfg = DefaultCfg
  /\ ret = "run"

\* One pass of server_getopt's while loop.
GetOpt ==
  /\ ret = "run"
  /\ IF pos > Len(argv)
     THEN ret' = "ok" /\ UNCHANGED <<cfg, pos>>            \* c == -1
     ELSE LET o == argv[pos]
              c == GetoptLong(o)
          IN  /\ pos' = pos + 1
              /\ CASE c \in {"h", "v"} -> ret' = "exit" /\ UNCHANGED cfg
                   [] c \in Stored -> cfg' = [cfg EXCEPT ![Field[c]] = o.arg]
                                      /\ UNCHANGED ret
                   [] c = "s" /\ SockType(o.arg) # "invalid" ->
                        cfg' = [cfg EXCEPT !.sock_type = SockType(o.arg)] /\ UNCHANGED ret
                   [] OTHER -> ret' = "fail" /\ UNCHANGED cfg  \* bad sock type, '?', default
  /\ UNCHANGED argv

Done == ret # "run" /\ UNCHANGED vars

Next == GetOpt \/ Done

Spec == Init /\ [][Next]_vars /\ WF_vars(GetOpt)

-----------------------------------------------------------------------------
\* Every option the help text and the command-line reference advertise
\* (--ipv4-netmask=MASK / -b among them), given a valid value, is accepted:
\* server_argv_parse does not refuse the command line.
AdvertisedOptionsAccepted == ret # "fail"

\* --sock-type accepts exactly "tcp" and "udp", in any letter case; any
\* other value makes server_argv_parse fail.
SockTypeExact ==
  ret = "ok" =>
    \A j \in 1 .. Len(argv) :
      argv[j].name \in {"s", "sock-type"} =>
        \E w \in {TCP, UDP} : Len(argv[j].arg) = 3
                              /\ \A k \in 1 .. 3 : argv[j].arg[k] | 32 = w[k]
=============================================================================
