CONSTANTS
  Locals = {a1, a2}
  Remotes = {r1, r2}
  MaxStreams = 2
  PeerLimit = 2
  IntMod = 256
  Window = 1
SPECIFICATION Spec
INVARIANT MaxStreamsConcurrent
CHECK_DEADLOCK FALSE
