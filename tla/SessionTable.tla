---------------------------- MODULE SessionTable ----------------------------
(***************************************************************************)
(* What the UDP server's session table promises its callers: a dictionary *)
(* from a client's source (address, port) to a session slot.  A key gets  *)
(* a slot only while it has none and the slot belongs to no other key;    *)
(* a key loses its slot only by being closed, and no step changes the     *)
(* slots of two keys at once.                                             *)
(***************************************************************************)
CONSTANTS Keys, Slots, NoSlot

VARIABLE table   \* key -> its session slot, or NoSlot

TableInit == table = [k \in Keys |-> NoSlot]

\* A key with no session is given a slot no key holds.
Open(k, i) ==
  /\ table[k] = NoSlot
  /\ \A j \in Keys : table[j] # i
  /\ table' = [table EXCEPT ![k] = i]

\* A key's session is closed and its slot freed.
Close(k) ==
  /\ table[k] # NoSlot
  /\ table' = [table EXCEPT ![k] = NoSlot]

TableNext == \E k \in Keys : Close(k) \/ \E i \in Slots : Open(k, i)

TableSpec == TableInit /\ [][TableNext]_table
=============================================================================
