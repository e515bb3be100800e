\* Three session slots; addresses 1 and 65537 share the head bucket
\* sess_map[1][0], address 2 has its own; two ports per address.
CONSTANTS
  NSess = 3
  Addrs = {1, 2, 65537}
  Ports = {1, 2}
SPECIFICATION Spec
INVARIANT MapMatchesSessions
PROPERTY SessionTableRefined
