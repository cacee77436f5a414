------------------------------ MODULE UDPSend ------------------------------
(***************************************************************************)
(* UDPSocket::send and Endpoint::send_packets: how a batch of packets that *)
(* lie one after the other in a buffer becomes datagrams, how the socket   *)
(* counts the packets that were taken, and how the others are moved to the *)
(* front of the buffer.  The build chooses the mode: "gso" groups packets  *)
(* of one size into a message, "sendmmsg" makes each a message of its own, *)
(* "sendmsg" sends batches of one packet.                                  *)
(***************************************************************************)
EXTENDS Naturals, Sequences

CONSTANT DATAGRAM_BATCH_SIZE

ASSUME BatchSizeAssumption == DATAGRAM_BATCH_SIZE \in Nat \ {0}

Modes == {"gso", "sendmmsg", "sendmsg"}

MaxBatch(mode) == IF mode = "sendmsg" THEN 1 ELSE DATAGRAM_BATCH_SIZE

\* The partial sums: SumTo(sizes)[i] is that of the first i sizes.
SumTo(sizes) ==
  LET sum[i \in 0..Len(sizes)] == IF i = 0 THEN 0 ELSE sum[i - 1] + sizes[i]
  IN  sum

Total(sizes) == SumTo(sizes)[Len(sizes)]

\* The bytes in front of the i-th of the packets.
Offset(sizes, i) == SumTo(sizes)[i - 1]
-----------------------------------------------------------------------------
\* Mutant: the size of the next packet is not compared.
Joins_Any(msgs, size) == msgs # <<>>

\* A packet joins the message before it if that holds packets of its size.
Joins(msgs, size) == msgs # <<>> /\ msgs[Len(msgs)].gso_size = size

AddPacket(msgs, size) ==
  IF Joins(msgs, size)
  THEN [msgs EXCEPT ![Len(msgs)].gso_count = @ + 1]
  ELSE Append(msgs, [gso_size |-> size, gso_count |-> 1])

\* The messages of the first i packets, one packet after the other.
Grouped(sizes) ==
  LET msgs[i \in 0..Len(sizes)] == IF i = 0 THEN <<>> ELSE AddPacket(msgs[i - 1], sizes[i])
  IN  msgs

Messages(mode, sizes) ==
  IF mode = "gso"
  THEN Grouped(sizes)[Len(sizes)]
  ELSE [i \in DOMAIN sizes |-> [gso_size |-> sizes[i], gso_count |-> 1]]

iov_len(msg) == msg.gso_count * msg.gso_size

iov_base(msgs, i) == Total([j \in 1..(i - 1) |-> iov_len(msgs[j])])

\* The kernel cuts the i-th message into datagrams of gso_size bytes.
Segments(buf, msgs, i) ==
  LET size == msgs[i].gso_size
  IN  [j \in 1..msgs[i].gso_count |->
         SubSeq(buf, iov_base(msgs, i) + (j - 1) * size + 1, iov_base(msgs, i) + j * size)]

\* The datagrams of the first i messages.
Cut(buf, msgs) ==
  LET cut[i \in 0..Len(msgs)] == IF i = 0 THEN <<>> ELSE cut[i - 1] \o Segments(buf, msgs, i)
  IN  cut

Datagrams(buf, msgs) == Cut(buf, msgs)[Len(msgs)]

\* Mutant: messages are counted instead of the packets in them.
Sent_Messages(msgs, taken) == taken

\* How many packets were sent, by the msg_len the kernel reports for each
\* message: all its bytes for the messages it has taken, none for the others.
Sent(msgs, taken) ==
  Total([i \in DOMAIN msgs |->
    LET msg_len == IF i <= taken THEN iov_len(msgs[i]) ELSE 0
    IN  IF msg_len < iov_len(msgs[i]) THEN msg_len \div msgs[i].gso_size ELSE msgs[i].gso_count])

\* The index of the control buffer of the i-th message, used if the message
\* holds several packets.
ControlIndex(i) == i
-----------------------------------------------------------------------------
\* send_packets moves the bytes of the unsent packets to the front; what lies
\* behind them is left as it is.
memmove(buf, sizes, sent) ==
  LET offset == SumTo(sizes)[sent]
      len    == Total(sizes) - offset
  IN  [i \in DOMAIN buf |-> IF i <= len THEN buf[i + offset] ELSE buf[i]]

UnsentSizes(sizes, sent) == SubSeq(sizes, sent + 1, Len(sizes))
=============================================================================
