------------------------------ MODULE SlotPool ------------------------------
(***************************************************************************)
(* What the client slot array promises: a slot is held by at most one     *)
(* connection at a time, a connection holds at most one slot, and a slot  *)
(* passes from free to a holder and back to free, never from one holder   *)
(* to another.                                                             *)
(***************************************************************************)
CONSTANTS Slots, Holders, None

VARIABLE owner

PoolInit == owner = [i \in Slots |-> None]

Acquire(i, h) ==
  /\ owner[i] = None
  /\ \A j \in Slots : owner[j] # h
  /\ owner' = [owner EXCEPT ![i] = h]

Release(i) ==
  /\ owner[i] # None
  /\ owner' = [owner EXCEPT ![i] = None]

PoolNext == \E i \in Slots : Release(i) \/ \E h \in Holders : Acquire(i, h)

PoolSpec == PoolInit /\ [][PoolNext]_owner
=============================================================================
