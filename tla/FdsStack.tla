------------------------------ MODULE FdsStack ------------------------------
(***************************************************************************)
(* The free-slot stack of the TCP server (struct _fds_stack, push_fds and  *)
(* pop_fds in the server core).  The stack is a record                    *)
(*   [sp |-> .., max_sp |-> .., arr |-> ..]                                *)
(* whose live entries are arr[sp .. max_sp-1]; sp = max_sp means empty.    *)
(* Only operators: the server module owns the variable.                   *)
(***************************************************************************)
EXTENDS Integers, FiniteSets

CONSTANT MaxConn          \* cfg->sock.max_conn

Slots == 0 .. MaxConn - 1

\* init_state: sp = max_sp = max_conn, then push_fds(max_conn-1) ... push_fds(0),
\* which leaves arr[k] = k and sp = 0.
InitFdsStack == [sp |-> 0, max_sp |-> MaxConn, arr |-> [k \in Slots |-> k]]

\* push_fds: assert(sp > 0); arr[--sp] = val.
CanPush(s) == s.sp > 0
\* Mutant: the slot is stored but sp is not decremented.
PushFdsKeepSp(s, val) == [s EXCEPT !.arr[s.sp - 1] = val]
PushFds(s, val) == [s EXCEPT !.arr[s.sp - 1] = val, !.sp = s.sp - 1]

\* pop_fds: returns -1 when sp == max_sp, otherwise arr[sp++].
PopVal(s) == IF s.sp = s.max_sp THEN -1 ELSE s.arr[s.sp]
\* Mutant: arr[sp] is returned but sp is not incremented.
PopFdsKeepSp(s) == s
PopFds(s) == IF s.sp = s.max_sp THEN s ELSE [s EXCEPT !.sp = s.sp + 1]

\* The slot indices the stack currently offers.
LiveRange(s) == s.sp .. s.max_sp - 1
FreeSet(s)   == { s.arr[k] : k \in LiveRange(s) }
=============================================================================
