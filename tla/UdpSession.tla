----------------------------- MODULE UdpSession -----------------------------
(***************************************************************************)
(* The session table of the UDP server (udp_session.c): a fixed array of  *)
(* sessions, a stack of free session indices, and a hash map from source  *)
(* address to session.  The map is a 256 x 256 array of head buckets      *)
(* indexed by the two low bytes of the address; each head starts a chain  *)
(* of malloc'd buckets.                                                    *)
(*                                                                         *)
(* get_udp_sess and put_udp_session hold sess_stk_lock for their whole    *)
(* body and take sess_map_lock inside it; map_find_udp_sess takes only    *)
(* sess_map_lock and does not write.  Every state change is therefore one *)
(* atomic step, and map_find_udp_sess is an operator on the map.          *)
(***************************************************************************)
EXTENDS Integers, Sequences, SequencesExt

CONSTANTS
  NSess,    \* number of session slots (the size of the index stack)
  Addrs,    \* source addresses (host-order uint32) clients send from
  Ports     \* source ports

Stk   == INSTANCE FdsStack WITH MaxConn <- NSess
Idx   == 0 .. NSess - 1
Empty == -1                                 \* bkt->sess == NULL

\* addr_to_bkt: sess_map[addr & 0xff][(addr >> 8) & 0xff]
AddrToBkt(a) == <<a % 256, (a \div 256) % 256>>
Buckets      == {AddrToBkt(a) : a \in Addrs}

VARIABLES
  stk,      \* state->sess_stk
  sess,     \* state->sess[]: src_addr, src_port, is_connected
  smap,     \* each head bucket with its chain: <<head sess, next sess, ...>>
  bug       \* a BUG_ON fired

vars == <<stk, sess, smap, bug>>

NoSess == [src_addr |-> 0, src_port |-> 0, is_connected |-> FALSE]

Init ==
  /\ stk = Stk!InitFdsStack
  /\ sess = [i \in Idx |-> NoSess]
  /\ smap = [b \in Buckets |-> <<Empty>>]
  /\ bug = FALSE

-----------------------------------------------------------------------------
(* map_find_udp_sess: walk the chain of the address's bucket and return   *)
(* the first session with this address and port.                         *)

\* Mutant: the port is not compared.
MatchAddrOnly(i, a, p) == i # Empty /\ sess[i].src_addr = a

\* (ret->src_addr == addr) && (ret->src_port == port)
Match(i, a, p) == i # Empty /\ sess[i].src_addr = a /\ sess[i].src_port = p

MapFind(a, p) ==
  LET c == smap[AddrToBkt(a)]
      j == SelectInSeq(c, LAMBDA i : Match(i, a, p))
  IN  IF j = 0 THEN Empty ELSE c[j]

\* map_insert_udp_sess: fill an empty head (dropping any chain behind it,
\* the WARN_ON case), or append a malloc'd bucket at the end of the chain.
MapInsert(c, i) == IF c[1] = Empty THEN <<i>> ELSE Append(c, i)

\* map_insert_udp_sess needs malloc only when the head is taken.
NeedsMalloc(c) == c[1] # Empty

\* Mutant: a removed head is emptied but the next bucket is not moved up.
RemoveNoPromote(c, i) ==
  LET j == SelectInSeq(c, LAMBDA x : x = i)
  IN  IF j = 0 THEN c
      ELSE IF j = 1 THEN [c EXCEPT ![1] = Empty]
      ELSE RemoveAt(c, j)

\* remove_sess_from_bkt: find the bucket holding the session; a head with
\* a successor takes over the successor's session and frees it, a head
\* without one is emptied, any other bucket is unlinked and freed.
RemoveSessFromBkt(c, i) ==
  LET j == SelectInSeq(c, LAMBDA x : x = i)
  IN  IF j = 0 THEN c                                  \* -ENOENT
      ELSE IF j = 1 THEN IF Len(c) > 1 THEN Tail(c) ELSE <<Empty>>
      ELSE RemoveAt(c, j)

-----------------------------------------------------------------------------
(* get_udp_sess, for a first datagram from (a, p): the caller creates a   *)
(* session only for an address and port that have none.                   *)
GetUdpSess(a, p) ==
  /\ ~bug
  /\ \A i \in Idx : sess[i].is_connected => <<sess[i].src_addr, sess[i].src_port>> # <<a, p>>
  /\ LET idx == Stk!PopVal(stk)
         b   == AddrToBkt(a)
     IN  IF idx = -1
         THEN UNCHANGED vars                           \* EAGAIN: slots full
         ELSE \E mallocOk \in BOOLEAN :
                IF NeedsMalloc(smap[b]) /\ ~mallocOk
                THEN \* map_insert_udp_sess returns NULL: the index is pushed
                     \* back, the address fields stay written
                     /\ sess' = [sess EXCEPT ![idx].src_addr = a, ![idx].src_port = p]
                     /\ UNCHANGED <<stk, smap, bug>>
                ELSE /\ stk' = Stk!PopFds(stk)
                     /\ sess' = [sess EXCEPT ![idx] = [src_addr |-> a, src_port |-> p,
                                                       is_connected |-> TRUE]]
                     /\ smap' = [smap EXCEPT ![b] = MapInsert(@, idx)]
                     /\ UNCHANGED bug

\* put_udp_session, for a session the server is done with: push the index,
\* take the session out of the map, reset it.
PutUdpSession(i) ==
  /\ ~bug
  /\ sess[i].is_connected
  /\ IF ~Stk!CanPush(stk)
     THEN bug' = TRUE /\ UNCHANGED <<stk, sess, smap>>  \* BUG_ON(push == -1)
     ELSE LET b == AddrToBkt(sess[i].src_addr) IN
          /\ stk' = Stk!PushFds(stk, i)
          /\ smap' = [smap EXCEPT ![b] = RemoveSessFromBkt(@, i)]
          /\ sess' = [sess EXCEPT ![i] = NoSess]        \* reset_udp_session
          /\ UNCHANGED bug

Next ==
  \/ \E a \in Addrs, p \in Ports : GetUdpSess(a, p)
  \/ \E i \in Idx : PutUdpSession(i)

Spec == Init /\ [][Next]_vars

-----------------------------------------------------------------------------
Connected == {i \in Idx : sess[i].is_connected}

\* The map and the session array agree after any sequence of gets and
\* puts (map_insert_udp_sess, remove_sess_from_bkt): every connected
\* session sits in exactly one bucket, the one of its address; no free
\* session is in the map; only a head bucket is ever empty, and an empty
\* head has no chain behind it (the WARN_ON of map_insert_udp_sess never
\* fires); and the index stack holds exactly the free sessions.
MapMatchesSessions ==
  /\ \A b \in Buckets :
       /\ \A j \in 2 .. Len(smap[b]) : smap[b][j] # Empty
       /\ smap[b][1] = Empty => Len(smap[b]) = 1
       /\ \A j \in 1 .. Len(smap[b]) : smap[b][j] # Empty =>
            /\ smap[b][j] \in Connected
            /\ AddrToBkt(sess[smap[b][j]].src_addr) = b
  /\ \A i \in Connected :
       /\ Cardinality({b \in Buckets : Contains(smap[b], i)}) = 1
       /\ \A b \in Buckets : Len(SelectSeq(smap[b], LAMBDA x : x = i)) <= 1
  /\ Stk!FreeSet(stk) = Idx \ Connected
  /\ ~bug

\* The session table as its callers see it: what map_find_udp_sess returns
\* for every source address and port.
Table == INSTANCE SessionTable
           WITH Keys <- Addrs \X Ports, Slots <- Idx, NoSlot <- Empty,
                table <- [k \in Addrs \X Ports |-> MapFind(k[1], k[2])]

\* map_find_udp_sess, over the chains that map_insert_udp_sess and
\* remove_sess_from_bkt build, behaves as a dictionary under get_udp_sess
\* and put_udp_session: a lookup finds a session only for an address and
\* port that has one, each get makes exactly its own key found, on a slot
\* no key is found on, each put makes exactly its own key not found, a get
\* that fails with ENOMEM or EAGAIN changes no lookup, and no step moves
\* or hides the session of another address or port sharing the bucket.
SessionTableRefined == Table!TableSpec
=============================================================================
