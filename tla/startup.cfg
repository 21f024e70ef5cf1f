CONSTANTS
  d1 = d1
  d2 = d2
  h1 = h1
  h2 = h2
  a1 = a1
  a2 = a2
  c1 = c1
  c2 = c2
  Daemons = {d1, d2}
  NoDaemon = NoDaemon
  Client = {c1, c2}
  Host = {h1, h2}
  Addr = {a1, a2}
  Resolve <- MCResolve
  Programs = 2
  MapSize = 2
  Faults = {"load", "attach", "ring", "mode", "socket", "listen", "epoll", "getaddrinfo", "signal"}
SPECIFICATION FairSpec
INVARIANT TypeOK
INVARIANT ServedIsConfigured
INVARIANT NothingLeftBehind
INVARIANT BlockedIsReported
PROPERTY StartIsDecided
CHECK_DEADLOCK FALSE
