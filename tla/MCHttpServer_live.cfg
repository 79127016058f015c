\* Liveness, without symmetry: both workers sleep and wake, and descriptors may
\* run out.
SPECIFICATION ScarceSpec
CONSTANTS
  Conns = {c1, c2}
  Fds = {f1, f2}
  Workers = {w1, w2}
  Backlog = 2
  RespLen = 1
  NoConn = NoConn
  NoFd = NoFd
  Elsewhere = Elsewhere
PROPERTIES
  Served
