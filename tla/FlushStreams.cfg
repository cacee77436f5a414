CONSTANTS
  Conn = Conn
  NoConn = NoConn
  Streams = {0, 4}
  Sizes = {1, 2}
  Closable = {4}
  MaxUnsent = 1
  MaxStreamPackets = 3
  SocketBuffer = 1
  MaxPackets = 3
  DATAGRAM_BATCH_SIZE = 2
SPECIFICATION Spec
INVARIANTS PacketsIntact BufferBounds TakeTurns NothingLeftBehind
PROPERTIES ImplementsTransmit
