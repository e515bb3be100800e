----------------------------- MODULE NetmaskCidr -----------------------------
(***************************************************************************)
(* The netmask-to-CIDR conversion of teavpn_iface_toggle (iface.c):       *)
(* inet_pton stores the dotted netmask in network byte order, the code    *)
(* reads those four bytes as a host uint32 and counts how many right      *)
(* shifts empty it.  The host is little-endian (x86-64, the build target  *)
(* of the linux/ tree).                                                    *)
(***************************************************************************)
EXTENDS Integers

VARIABLE mask   \* the four octets of the configured netmask, most significant first

\* The contiguous netmask with prefix length p, as dotted octets.
OctetBits(p, j) == IF p - 8 * (j - 1) >= 8 THEN 8
                   ELSE IF p - 8 * (j - 1) <= 0 THEN 0 ELSE p - 8 * (j - 1)
MaskOf(p) == [j \in 1 .. 4 |-> 256 - 2 ^ (8 - OctetBits(p, j))]

Prefixes == 0 .. 32
Masks    == {MaskOf(p) : p \in Prefixes}

\* inet_pton(AF_INET, uipv4_nm, &bipv4_nm): octet 1 at the lowest address,
\* which a little-endian load makes the least significant byte.
InetPtonLE(o) == o[1] + o[2] * 2 ^ 8 + o[3] * 2 ^ 16 + o[4] * 2 ^ 24

\* cidr = 0; tmp = bipv4_nm; while (tmp) { cidr++; tmp >>= 1; }
RECURSIVE CountShifts(_, _)
CountShifts(tmp, cidr) == IF tmp = 0 THEN cidr ELSE CountShifts(tmp \div 2, cidr + 1)

Cidr(o) == CountShifts(InetPtonLE(o), 0)

\* The reference: a netmask's prefix length is its number of leading ones.
PrefixLen(o) == CHOOSE p \in Prefixes : MaskOf(p) = o

Init == mask \in Masks
Next == UNCHANGED mask
Spec == Init /\ [][Next]_mask

\* The "/%u" suffix teavpn_iface_toggle appends to the interface address
\* and to the network address is the prefix length of the configured
\* netmask, for every contiguous netmask.
CidrIsPrefixLen == Cidr(mask) = PrefixLen(mask)
=============================================================================
