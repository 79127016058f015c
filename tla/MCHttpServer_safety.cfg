\* More connections than descriptors, and as many workers as descriptors.
SPECIFICATION Spec
CONSTANTS
  Conns = {c1, c2, c3}
  Fds = {f1, f2}
  Workers = {w1, w2}
  Backlog = 2
  RespLen = 2
  NoConn = NoConn
  NoFd = NoFd
  Elsewhere = Elsewhere
SYMMETRY Symmetry
INVARIANTS
  TypeOK
  DescriptorOwnership
  NoLostWakeup
  NoWorkerExits
  OwnAnswer
  CompleteOrGone
PROPERTIES
  ImplementsService
