---------------------------- MODULE FlushStreams ----------------------------
(***************************************************************************)
(* Connection::flush_streams in detail, for one connection: the list of    *)
(* streams it goes through, what ngtcp2 answers for each, the bytes of the *)
(* packets in send_buffer, and the datagrams UDPSocket::send makes of      *)
(* them.  Module Transmit has the same connection with packets as numbers; *)
(* this module implements it.                                              *)
(*                                                                         *)
(* A byte is the number of its packet and its place in the packet.  What   *)
(* ngtcp2 answers is free within its contract: it congests (returns 0)     *)
(* only when no packet is half built.                                      *)
(***************************************************************************)
EXTENDS UDPSend, Integers, FiniteSets

CONSTANTS
  Conn, NoConn,
  Streams,          \* the ids of the streams in the map, natural numbers
  Sizes,            \* the sizes of packets
  Closable,         \* bound: the streams the application closes
  MaxUnsent,        \* bound: pieces of data a stream has to send
  MaxStreamPackets, \* max_stream_packets
  SocketBuffer,     \* datagrams the kernel queues before a send blocks
  MaxPackets        \* bound: packets ngtcp2 writes

ASSUME StreamsAssumption ==
  Streams \subseteq Nat /\ IsFiniteSet(Streams) /\ Closable \subseteq Streams
ASSUME SizesAssumption ==
  Sizes \subseteq Nat \ {0} /\ \E n \in Sizes : \A m \in Sizes : m <= n
ASSUME LimitsAssumption ==
  /\ SocketBuffer \in Nat \ {0} /\ MaxStreamPackets \in Nat \ {0} /\ MaxPackets \in Nat
  /\ NoConn # Conn

VARIABLES
  mode,           \* how the build sends
  unsent, is_closing, sent_fin, \* per stream
  shut,           \* ngtcp2, per stream: close() has shut it down
  strs,           \* the list of streams still to ask, and the pseudo-stream
  offers,         \* history, per stream: how often this call asked it
  refused,        \* history: streams that gave an error or were held back
  congested,      \* history: ngtcp2 was congested in this call
  done,           \* history: the pseudo-stream had nothing more to write
  half_built,     \* ngtcp2: a packet has been begun and not been returned
  buf, buf_pos,   \* send_buffer and where the next packet goes
  send_buffer_size, \* the first n_packets entries
  packet_sizes,   \* history: the sizes of the packets ngtcp2 wrote
  datagrams,      \* history: the datagrams the kernel accepted
  dropped,        \* the packets dropped on a serious error
  io_trigger, timer, pc, cur, stream_packets, callbacks, running, wev, queue

streamVars == <<unsent, is_closing, sent_fin, shut>>
loopVars == <<strs, offers, refused, congested, done, half_built>>
bufVars == <<buf, buf_pos, send_buffer_size, packet_sizes, datagrams, dropped>>
sharedVars == <<io_trigger, timer, pc, cur, stream_packets, callbacks, running, wev, queue>>
vars == <<mode, streamVars, loopVars, bufVars, sharedVars>>

n_packets == Len(send_buffer_size)

MaxSize == CHOOSE n \in Sizes : \A m \in Sizes : m <= n

\* The number of the packet that starts at byte i.
PacketAt(i) == buf[i][1]

\* Transmit's fields of the connection, with packets taken as numbers: those
\* that wait, how many were written, those on the wire, those that were lost.
Waiting ==
  [c \in {Conn} |-> [i \in 1..n_packets |-> PacketAt(Offset(send_buffer_size, i) + 1)]]
Written == [c \in {Conn} |-> Len(packet_sizes)]
Wire == [c \in {Conn} |-> [i \in DOMAIN datagrams |-> datagrams[i][1][1]]]
Dropped == [c \in {Conn} |-> dropped]

\* Transmit for a build that sends batches of b packets.
T(b) == INSTANCE Transmit WITH
  Conns <- {Conn}, OneShots <- {}, MAX_BATCH <- b, oneshot <- <<>>,
  send_buffer <- Waiting, written <- Written, wire <- Wire, dropped <- Dropped

\* The pseudo-stream -1 as first put in the list, where streams_end_it points,
\* and as put back in a new node of the list.
EndOfStreams == -1
EndAgain == -2

\* A stream that was closed while it waited for an id is closing, but not shut.
Init ==
  /\ mode \in Modes
  /\ unsent = [s \in Streams |-> 0]
  /\ is_closing \in [Streams -> BOOLEAN] /\ \A s \in Streams : is_closing[s] => s \in Closable
  /\ sent_fin = [s \in Streams |-> FALSE] /\ shut = [s \in Streams |-> FALSE]
  /\ strs = <<>> /\ offers = [s \in Streams |-> 0] /\ refused = {}
  /\ congested = FALSE /\ done = FALSE /\ half_built = FALSE
  /\ buf = [i \in 1..(MaxSize * MaxBatch(mode)) |-> <<0, 0>>]
  /\ buf_pos = 0 /\ send_buffer_size = <<>>
  /\ packet_sizes = <<>> /\ datagrams = <<>> /\ dropped = {}
  /\ io_trigger = [c \in {Conn} |-> TRUE] /\ timer = [c \in {Conn} |-> FALSE]
  /\ pc = "idle" /\ cur = NoConn /\ stream_packets = 0
  /\ callbacks = <<>> /\ running = <<>> /\ wev = "off" /\ queue = 0
-----------------------------------------------------------------------------
\* The application's jobs on the loop: append_buffer and close.
append_buffer(s) ==
  /\ pc = "idle" /\ running = <<>>
  /\ unsent[s] < MaxUnsent
  /\ unsent' = [unsent EXCEPT ![s] = @ + 1]
  /\ io_trigger' = [io_trigger EXCEPT ![Conn] = TRUE]
  /\ UNCHANGED <<mode, is_closing, sent_fin, shut, loopVars, bufVars, timer, pc, cur,
                 stream_packets, callbacks, running, wev, queue>>

close(s) ==
  /\ s \in Closable
  /\ pc = "idle" /\ running = <<>>
  /\ is_closing' = [is_closing EXCEPT ![s] = TRUE]
  /\ shut' = [shut EXCEPT ![s] = @ \/ ~is_closing[s]]
  /\ io_trigger' = [io_trigger EXCEPT ![Conn] = TRUE]
  /\ UNCHANGED <<mode, unsent, sent_fin, loopVars, bufVars, timer, pc, cur, stream_packets,
                 callbacks, running, wev, queue>>

\* The ids of S in the order of the map.
Sorted(S) ==
  CHOOSE list \in [1..Cardinality(S) -> S] :
    \A i, j \in DOMAIN list : i < j => list[i] < list[j]

\* The streams from a random one on, then those before it, then -1.
InitialList(mid) ==
  LET open == {s \in Streams : ~sent_fin[s]}
  IN  Sorted({s \in open : s >= mid}) \o Sorted({s \in open : s < mid}) \o <<EndOfStreams>>

\* The head of flush_streams, unless packets are left over.
BeginFlush ==
  /\ \E mid \in Streams \cup {0} : strs' = InitialList(mid)
  /\ offers' = [s \in Streams |-> 0] /\ refused' = {}
  /\ congested' = FALSE /\ done' = FALSE
  /\ buf_pos' = 0
  /\ UNCHANGED half_built

\* on_io_ready, by the trigger or the timer.
OnIoReady ==
  /\ T(1)!Idle
  /\ IF n_packets > 0 THEN UNCHANGED <<loopVars, buf_pos>> ELSE BeginFlush
  /\ UNCHANGED <<mode, streamVars, buf, send_buffer_size, packet_sizes, datagrams, dropped>>
  /\ T(1)!IoTrigger(Conn) \/ T(1)!RetransmitTimer(Conn)
-----------------------------------------------------------------------------
\* A closing stream that has sent everything is asked to send its FIN.
SendsFin(s) == is_closing[s] /\ ~sent_fin[s] /\ unsent[s] = 0

\* ngtcp2 is asked to write for the stream.
Offered(s) == unsent[s] > 0 \/ SendsFin(s)

\* The loop takes x from the front of the list, and marks the FIN as sent
\* before ngtcp2 is asked.
Ask(x) ==
  /\ pc = "write" /\ strs # <<>> /\ x = Head(strs)
  /\ offers' = [s \in Streams |-> IF s = x THEN offers[s] + 1 ELSE offers[s]]
  /\ sent_fin' = [s \in Streams |-> IF s = x THEN sent_fin[s] \/ SendsFin(s) ELSE sent_fin[s]]
  /\ UNCHANGED <<mode, is_closing, shut, dropped, datagrams, io_trigger, timer, cur, callbacks,
                 running, wev, queue>>

Unwritten ==
  UNCHANGED <<buf, buf_pos, send_buffer_size, packet_sizes, pc, stream_packets>>

\* A stream with nothing pending is passed over.
PassOver(s) ==
  /\ Ask(s)
  /\ ~Offered(s)
  /\ strs' = Tail(strs)
  /\ UNCHANGED <<unsent, refused, congested, done, half_built>> /\ Unwritten

\* ngtcp2 fails for this stream: it is shut (always so after close(), unless the
\* stream had no id then) or out of flow-control credit, or the connection is
\* closing.
WriteError(x) ==
  /\ Ask(x)
  /\ IF x \in Streams THEN Offered(x) ELSE ~half_built
  /\ strs' = Tail(strs)
  /\ refused' = refused \cup {x}
  /\ done' = (x \notin Streams)
  /\ UNCHANGED <<unsent, congested, half_built>> /\ Unwritten

\* WRITE_MORE: the data, or a bare FIN, went into a packet that still has room.
\* Less than all of it only at the stream's flow-control limit.
WriteMore(s) ==
  /\ Ask(s)
  /\ Len(packet_sizes) < MaxPackets
  /\ Offered(s) /\ ~shut[s]
  /\ \E n \in 0..unsent[s] :
       /\ n > 0 \/ SendsFin(s)
       /\ unsent' = [unsent EXCEPT ![s] = @ - n]
       /\ refused' = IF n < unsent[s] THEN refused \cup {s} ELSE refused
  /\ strs' = Tail(strs)
  /\ half_built' = TRUE
  /\ UNCHANGED <<congested, done>> /\ Unwritten

streams_end_it(list) == CHOOSE i \in DOMAIN list : list[i] = EndOfStreams

\* list.erase(begin, streams_end_it) and list.insert(streams_end_it, s).
erase(list) == SubSeq(list, streams_end_it(list), Len(list))

\* Mutant: the stream goes to the front, and is asked again at once.
insert_Front(list, s) == <<s>> \o list

insert(list, s) ==
  SubSeq(list, 1, streams_end_it(list) - 1) \o <<s>> \o erase(list)

\* ngtcp2 writes nothing: congested or, for the pseudo-stream, done.
WriteNothing(x) ==
  /\ Ask(x)
  /\ ~half_built
  /\ x \in Streams => Offered(x) /\ ~shut[x]
  /\ strs' = IF x \in Streams THEN erase(Tail(strs)) ELSE Tail(strs)
  /\ congested' = (congested \/ x \in Streams)
  /\ done' = (x \notin Streams)
  /\ UNCHANGED <<unsent, refused, half_built>> /\ Unwritten

\* Mutant: a stream with one piece left is not asked again.
AskAgain_OneLeft(x) == x \notin Streams \/ unsent'[x] > 1

\* Whether x goes back into the list once a packet has been written.
AskAgain(x) == x \notin Streams \/ unsent'[x] > 0

\* ngtcp2 completes a packet of the given size, with n pieces of the stream.
WritePacket(x, size) ==
  LET id == Len(packet_sizes) + 1
  IN  /\ Ask(x)
      /\ id <= MaxPackets
      /\ IF x \in Streams
         THEN /\ Offered(x) /\ ~shut[x]
              /\ \E n \in 0..unsent[x] : unsent' = [unsent EXCEPT ![x] = @ - n]
         ELSE UNCHANGED unsent
      /\ strs' = IF ~AskAgain(x) THEN Tail(strs)
                 ELSE IF x \in Streams THEN insert(Tail(strs), x)
                 ELSE Append(Tail(strs), EndAgain)
      /\ buf' = [i \in DOMAIN buf |->
                   IF i \in (buf_pos + 1)..(buf_pos + size) THEN <<id, i - buf_pos>> ELSE buf[i]]
      /\ buf_pos' = buf_pos + size
      /\ send_buffer_size' = Append(send_buffer_size, size)
      /\ packet_sizes' = Append(packet_sizes, size)
      /\ stream_packets' = stream_packets + 1
      /\ pc' = IF n_packets + 1 = MaxBatch(mode) THEN "batch"
               ELSE IF stream_packets + 1 = MaxStreamPackets THEN "final" ELSE "write"
      /\ half_built' = FALSE
      /\ UNCHANGED <<refused, congested, done>>

\* The list is empty.
EndLoop ==
  /\ pc = "write" /\ strs = <<>>
  /\ pc' = "final"
  /\ UNCHANGED <<mode, streamVars, loopVars, bufVars, io_trigger, timer, cur, stream_packets,
                 callbacks, running, wev, queue>>
-----------------------------------------------------------------------------
\* The kernel takes the first messages of the batch: each one needs some room
\* in its buffer, but a message of several packets may outgrow it.
Take(taken) ==
  LET msgs == Messages(mode, send_buffer_size)
      new  == Datagrams(buf, SubSeq(msgs, 1, taken))
  IN  /\ taken \in 0..Len(msgs)
      /\ \A i \in 1..taken : queue + Len(Datagrams(buf, SubSeq(msgs, 1, i - 1))) < SocketBuffer
      /\ datagrams' = datagrams \o new
      /\ queue' = queue + Len(new)

SentOf(taken) == Sent(Messages(mode, send_buffer_size), taken)

\* Connection::send: everything sent; blocked (an error after the first
\* message looks the same); a serious error, every packet dropped.
SendDone ==
  /\ \E taken \in 1..n_packets : Take(taken) /\ SentOf(taken) = n_packets
  /\ send_buffer_size' = <<>>
  /\ UNCHANGED <<buf, dropped, callbacks, wev>>

SendBlocked ==
  /\ \E taken \in 0..n_packets :
       LET sent == SentOf(taken)
       IN  /\ Take(taken) /\ sent < n_packets
           /\ taken = 0 => queue >= SocketBuffer
           /\ buf' = memmove(buf, send_buffer_size, sent)
           /\ send_buffer_size' = UnsentSizes(send_buffer_size, sent)
  /\ T(1)!when_writeable(Conn)
  /\ UNCHANGED dropped

SendFailed ==
  /\ dropped' = dropped \cup {PacketAt(Offset(send_buffer_size, i) + 1) : i \in 1..n_packets}
  /\ send_buffer_size' = <<>>
  /\ UNCHANGED <<buf, datagrams, callbacks, wev, queue>>

\* Mutant: the position in the buffer is not reset.
AfterBatch_NoReset == buf_pos

\* Where the next packet goes after a batch.
AfterBatch == 0

SendBatch ==
  /\ pc = "batch"
  /\ \/ /\ SendDone
        /\ buf_pos' = AfterBatch
        /\ pc' = IF stream_packets = MaxStreamPackets THEN "final" ELSE "write"
     \/ (SendBlocked \/ SendFailed) /\ pc' = "schedule" /\ UNCHANGED buf_pos
  /\ UNCHANGED <<mode, streamVars, loopVars, packet_sizes, io_trigger, timer, cur, stream_packets,
                 running>>

SendFinal ==
  /\ pc = "final"
  /\ IF n_packets > 0
     THEN SendDone \/ SendBlocked \/ SendFailed
     ELSE UNCHANGED <<buf, send_buffer_size, datagrams, dropped, callbacks, wev, queue>>
  /\ pc' = "schedule"
  /\ UNCHANGED <<mode, streamVars, loopVars, buf_pos, packet_sizes, io_trigger, timer, cur,
                 stream_packets, running>>

\* schedule_retransmit; the locals of flush_streams are gone.
schedule_retransmit ==
  /\ pc = "schedule"
  /\ strs' = <<>> /\ offers' = [s \in Streams |-> 0] /\ refused' = {}
  /\ congested' = FALSE /\ done' = FALSE /\ buf_pos' = 0
  /\ UNCHANGED <<mode, streamVars, half_built, buf, send_buffer_size, packet_sizes, datagrams,
                 dropped>>
  /\ T(1)!schedule_retransmit(Conn)

\* The callback of a blocked send; once all is sent it runs on_io_ready.
Resend ==
  /\ pc = "idle" /\ running # <<>>
  /\ running' = Tail(running)
  /\ \/ SendDone /\ BeginFlush /\ cur' = Conn /\ stream_packets' = 0 /\ pc' = "write"
     \/ (SendBlocked \/ SendFailed) /\ UNCHANGED <<loopVars, buf_pos, cur, stream_packets, pc>>
  /\ UNCHANGED <<mode, streamVars, packet_sizes, io_trigger, timer>>

\* The steps of libevent, the kernel and other handlers, as in Transmit.
Environment ==
  /\ UNCHANGED <<mode, streamVars, loopVars, bufVars>>
  /\ T(1)!io_ready(Conn) \/ T(1)!Poll \/ T(1)!Writeable \/ T(1)!Drain

Loop ==
  \/ \E x \in Streams \cup {EndOfStreams, EndAgain} :
       WriteError(x) \/ WriteNothing(x) \/ \E size \in Sizes : WritePacket(x, size)
  \/ \E s \in Streams : PassOver(s) \/ WriteMore(s)
  \/ EndLoop \/ SendBatch \/ SendFinal \/ schedule_retransmit

Next ==
  \/ \E s \in Streams : append_buffer(s) \/ close(s)
  \/ OnIoReady \/ Loop \/ Resend \/ Environment

Spec == Init /\ [][Next]_vars
-----------------------------------------------------------------------------
\* The bytes ngtcp2 wrote for a packet.
Packet(id) == [k \in 1..packet_sizes[id] |-> <<id, k>>]

\* Every datagram on the wire is one whole packet of ngtcp2's, and so is each
\* packet that waits in send_buffer: neither the grouping for GSO nor the
\* counting of what the kernel took nor moving the rest to the front joins,
\* splits or mixes packets.
PacketsIntact ==
  /\ \A i \in DOMAIN datagrams :
       \E id \in DOMAIN packet_sizes : datagrams[i] = Packet(id)
  /\ \A i \in 1..n_packets :
       LET at == Offset(send_buffer_size, i)
       IN  SubSeq(buf, at + 1, at + send_buffer_size[i]) = Packet(PacketAt(at + 1))

\* Whenever ngtcp2 is asked for a packet, there is room for the largest one
\* behind the packets of the batch; and no message of a batch uses a control
\* buffer beyond the last, although the index is taken after the increment.
BufferBounds ==
  /\ pc = "write" =>
       buf_pos = Total(send_buffer_size) /\ buf_pos + MaxSize <= Len(buf)
  /\ LET msgs == Messages(mode, send_buffer_size)
     IN  \A i \in DOMAIN msgs : msgs[i].gso_count > 1 => ControlIndex(i) < DATAGRAM_BATCH_SIZE

\* The list of flush_streams: the pseudo-stream is its last element; while any
\* stream is in it streams_end_it still points at that element; and streams
\* take turns, none being asked again before those that were asked less often.
TakeTurns ==
  pc = "write" /\ strs # <<>> =>
    /\ strs[Len(strs)] \in {EndOfStreams, EndAgain}
    /\ \A i \in 1..(Len(strs) - 1) : strs[i] \in Streams /\ strs[Len(strs)] = EndOfStreams
    /\ \A i, j \in 1..(Len(strs) - 1) : i < j =>
         strs[i] # strs[j] /\ offers[strs[i]] <= offers[strs[j]]

\* When the list is exhausted the pseudo-stream has said that it is done, no
\* packet is left half built in ngtcp2, and data is left only where ngtcp2 was
\* congested or refused the stream.
NothingLeftBehind ==
  pc = "write" /\ strs = <<>> =>
    /\ done /\ ~half_built
    /\ \A s \in Streams : unsent[s] > 0 /\ ~sent_fin[s] => congested \/ s \in refused

\* flush_streams and the socket implement module Transmit: with packets taken
\* as numbers each step is a step of Transmit or changes nothing there.
ImplementsTransmit ==
  /\ T(1)!Init
  /\ [][IF mode = "sendmsg" THEN T(1)!Next ELSE T(DATAGRAM_BATCH_SIZE)!Next]_(T(1)!vars)
=============================================================================
