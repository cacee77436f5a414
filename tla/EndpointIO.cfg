CONSTANTS
  Conns = {c1}
  Targets = {c1}
  OneShots = {p1}
  NoConn = NoConn
  Junk = Junk
  MAX_BATCH = 2
  MaxStreamPackets = 3
  SocketBuffer = 1
  MaxPackets = 3
  DATAGRAM_BATCH_SIZE = 2
  MAX_RECEIVE_PER_LOOP = 3
  RecvBuffer = 2
SPECIFICATION IOSpec
INVARIANTS OneResend WakeupPending NoPacketLost ReceiveBounded
PROPERTIES NoWriteWhileBlocked Retried NotStarved Answered
