\* Every call of the startup sequence may fail; two client slots.
CONSTANTS
  MaxConn = 2
  Faults = {"calloc", "pipe", "tun_alloc", "nonblock", "iface_up", "socket", "setsockopt", "bind", "listen", "calloc_fds", "poll"}
SPECIFICATION Spec
INVARIANT CleanTeardown
