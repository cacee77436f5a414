CONSTANTS
  Locals = {a1, a2}
  Remotes = {r1}
  MaxStreams = 1
  PeerLimit = 7
  IntMod = 6
  Window = 1
SPECIFICATION Spec
INVARIANTS PendingDrained OpenedInOrder PendingMatches NotifiedOnce DeliverableIsStored CreditOnce
CHECK_DEADLOCK FALSE
SYMMETRY Symmetry
