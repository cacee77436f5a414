------------------------------ MODULE Transmit ------------------------------
(***************************************************************************)
(* How packets leave an endpoint: each Connection collects the packets     *)
(* ngtcp2 writes in send_buffer (flush_streams) and hands them in batches  *)
(* to the UDP socket all connections of the endpoint share (send,          *)
(* send_packets).  When the kernel takes only some of them the connection  *)
(* waits in writeable_callbacks_ until the socket is writeable.  One-shot  *)
(* packets (connection close, version negotiation) use the same queue      *)
(* (send_or_queue_packet).                                                 *)
(*                                                                         *)
(* All of this runs on the event loop's thread; only the kernel runs       *)
(* beside it.  A packet is its number in the order in which ngtcp2 wrote   *)
(* the connection's packets.                                               *)
(***************************************************************************)
EXTENDS Naturals, Sequences, Functions

CONSTANTS
  Conns,        \* the connections of the endpoint
  OneShots,     \* packets sent by send_or_queue_packet
  NoConn,       \* no connection
  MAX_BATCH,    \* packets send_buffer holds
  MaxStreamPackets, \* max_stream_packets: packets one flush_streams call writes
  SocketBuffer, \* datagrams the kernel queues before a send blocks
  MaxPackets    \* bound: packets ngtcp2 writes for one connection

ASSUME BatchAssumption == MAX_BATCH \in Nat \ {0} /\ MaxStreamPackets \in Nat \ {0}
ASSUME KernelAssumption == SocketBuffer \in Nat \ {0} /\ MaxPackets \in Nat
ASSUME NamesAssumption == NoConn \notin Conns /\ Conns \cap OneShots = {}

VARIABLES
  send_buffer,    \* per connection: the n_packets packets not sent yet
  written,        \* per connection: packets ngtcp2 has written
  wire,           \* per connection: the packets the kernel accepted, in order
  dropped,        \* per connection: the packets dropped on a serious error
  io_trigger,     \* per connection: the io_trigger event is active
  timer,          \* per connection: the retransmit timer is armed
  oneshot,        \* per one-shot packet: "none", "queued", "sent" or "dropped"
  pc, cur, stream_packets, \* flush_streams: its step, connection and counter
  callbacks,      \* writeable_callbacks_: connections and one-shot packets
  running,        \* the callbacks of the current writeable event still to run
  wev,            \* the writeable event: "off", "added" or "active"
  queue           \* kernel: datagrams in the socket buffer

connVars == <<send_buffer, written, wire, dropped>>
flushVars == <<pc, cur, stream_packets>>
sockVars == <<callbacks, running, wev, queue>>
vars == <<connVars, io_trigger, timer, oneshot, flushVars, sockVars>>

n_packets(c) == Len(send_buffer[c])

Idle == pc = "idle" /\ running = <<>>

Init ==
  /\ send_buffer = [c \in Conns |-> <<>>]
  /\ written = [c \in Conns |-> 0]
  /\ wire = [c \in Conns |-> <<>>]
  /\ dropped = [c \in Conns |-> {}]
  /\ io_trigger = [c \in Conns |-> TRUE]
  /\ timer = [c \in Conns |-> FALSE]
  /\ oneshot = [p \in OneShots |-> "none"]
  /\ pc = "idle" /\ cur = NoConn /\ stream_packets = 0
  /\ callbacks = <<>> /\ running = <<>>
  /\ wev = "off"
  /\ queue = 0
-----------------------------------------------------------------------------
\* Mutant: the event is not added.
when_writeable_NoEvent(cb) == callbacks' = Append(callbacks, cb) /\ UNCHANGED wev

when_writeable(cb) ==
  /\ callbacks' = Append(callbacks, cb)
  /\ wev' = IF wev = "active" THEN wev ELSE "added"

\* Mutant: the sizes are cut but the packets not moved to the front.
Unsent_NotMoved(buf, sent) == SubSeq(buf, 1, Len(buf) - sent)

\* What send_packets leaves in the buffer when the first packets were sent.
Unsent(buf, sent) == SubSeq(buf, sent + 1, Len(buf))

\* The three ends of Connection::send and of the send_packets it calls: all
\* sent; blocked, the unsent packets moved to the front and a resend queued; a
\* serious error, every packet dropped.  The kernel takes nothing when its
\* buffer is full, and otherwise at least one packet: it may take a batch that
\* outgrows the buffer (GSO), and a serious error after the first packets is
\* reported as a block.
SendDone(c) ==
  /\ queue < SocketBuffer
  /\ wire' = [wire EXCEPT ![c] = @ \o send_buffer[c]]
  /\ queue' = queue + n_packets(c)
  /\ send_buffer' = [send_buffer EXCEPT ![c] = <<>>]
  /\ UNCHANGED <<dropped, callbacks, wev>>

SendBlocked(c) ==
  \E sent \in 0..(n_packets(c) - 1) :
    /\ sent = 0 <=> queue >= SocketBuffer
    /\ wire' = [wire EXCEPT ![c] = @ \o SubSeq(send_buffer[c], 1, sent)]
    /\ queue' = queue + sent
    /\ send_buffer' = [send_buffer EXCEPT ![c] = Unsent(@, sent)]
    /\ when_writeable(c)
    /\ UNCHANGED dropped

SendFailed(c) ==
  /\ dropped' = [dropped EXCEPT ![c] = @ \cup Range(send_buffer[c])]
  /\ send_buffer' = [send_buffer EXCEPT ![c] = <<>>]
  /\ UNCHANGED <<wire, queue, callbacks, wev>>

\* Mutant: flush_streams goes on although packets are left over.
on_io_ready_NoGuard(c) == cur' = c /\ stream_packets' = 0 /\ pc' = "write"

\* on_io_ready: flush_streams returns at once while packets are left over from
\* a blocked send, and schedule_retransmit follows.
on_io_ready(c) ==
  /\ cur' = c
  /\ stream_packets' = 0
  /\ pc' = IF n_packets(c) > 0 THEN "schedule" ELSE "write"

\* io_ready() activates the trigger: a job appends data or closes a stream, a
\* stream is opened or closed, a packet has been read.
io_ready(c) ==
  /\ Idle
  /\ io_trigger' = [io_trigger EXCEPT ![c] = TRUE]
  /\ UNCHANGED <<connVars, timer, oneshot, flushVars, sockVars>>

IoTrigger(c) ==
  /\ Idle
  /\ io_trigger[c]
  /\ io_trigger' = [io_trigger EXCEPT ![c] = FALSE]
  /\ on_io_ready(c)
  /\ UNCHANGED <<connVars, timer, oneshot, sockVars>>

\* The retransmit timer, its handle_expiry succeeding.
RetransmitTimer(c) ==
  /\ Idle
  /\ timer[c]
  /\ timer' = [timer EXCEPT ![c] = FALSE]
  /\ on_io_ready(c)
  /\ UNCHANGED <<connVars, io_trigger, oneshot, sockVars>>
-----------------------------------------------------------------------------
BatchFull(c) == n_packets(c) + 1 = MAX_BATCH

\* One round of the flush_streams loop in which ngtcp2 completes a packet.
WritePacket(c) ==
  /\ pc = "write" /\ cur = c
  /\ written[c] < MaxPackets
  /\ written' = [written EXCEPT ![c] = @ + 1]
  /\ send_buffer' = [send_buffer EXCEPT ![c] = Append(@, written[c] + 1)]
  /\ stream_packets' = stream_packets + 1
  /\ pc' = IF BatchFull(c) THEN "batch"
           ELSE IF stream_packets + 1 = MaxStreamPackets THEN "final"
           ELSE "write"
  /\ UNCHANGED <<wire, dropped, io_trigger, timer, oneshot, cur, sockVars>>

\* ngtcp2 returns 0 for the pseudo-stream: nothing more to write.
NothingToWrite(c) ==
  /\ pc = "write" /\ cur = c
  /\ pc' = "final"
  /\ UNCHANGED <<connVars, io_trigger, timer, oneshot, cur, stream_packets, sockVars>>

SendBatch(c) ==
  /\ pc = "batch" /\ cur = c
  /\ \/ /\ SendDone(c)
        /\ pc' = IF stream_packets = MaxStreamPackets THEN "final" ELSE "write"
     \/ (SendBlocked(c) \/ SendFailed(c)) /\ pc' = "schedule"
  /\ UNCHANGED <<written, io_trigger, timer, oneshot, cur, stream_packets, running>>

SendFinal(c) ==
  /\ pc = "final" /\ cur = c
  /\ IF n_packets(c) > 0
     THEN SendDone(c) \/ SendBlocked(c) \/ SendFailed(c)
     ELSE UNCHANGED <<send_buffer, wire, dropped, callbacks, wev, queue>>
  /\ pc' = "schedule"
  /\ UNCHANGED <<written, io_trigger, timer, oneshot, cur, stream_packets, running>>

\* schedule_retransmit, by ngtcp2's expiry: none deletes the timer, a future
\* one arms it; one that has passed adds the event without a timeout, which
\* leaves the timer as it is.
schedule_retransmit(c) ==
  /\ pc = "schedule" /\ cur = c
  /\ \E armed \in {FALSE, TRUE, timer[c]} : timer' = [timer EXCEPT ![c] = armed]
  /\ pc' = "idle" /\ cur' = NoConn /\ stream_packets' = 0
  /\ UNCHANGED <<connVars, io_trigger, oneshot, sockVars>>
-----------------------------------------------------------------------------
\* libevent finds the socket writeable when it polls; by the time it runs the
\* event other handlers may have filled the socket again.
Poll ==
  /\ Idle
  /\ wev = "added" /\ queue < SocketBuffer
  /\ wev' = "active"
  /\ UNCHANGED <<connVars, io_trigger, timer, oneshot, flushVars, callbacks, running, queue>>

\* The writeable event: the callbacks are moved out and run one by one.
Writeable ==
  /\ Idle
  /\ wev = "active"
  /\ wev' = "off"
  /\ running' = callbacks
  /\ callbacks' = <<>>
  /\ UNCHANGED <<connVars, io_trigger, timer, oneshot, flushVars, queue>>

\* The callback of a blocked connection.
Resend(c) ==
  /\ pc = "idle" /\ running # <<>> /\ Head(running) = c
  /\ running' = Tail(running)
  /\ \/ /\ SendDone(c)
        /\ cur' = c /\ stream_packets' = 0 /\ pc' = "write"
     \/ (SendBlocked(c) \/ SendFailed(c)) /\ UNCHANGED flushVars
  /\ UNCHANGED <<written, io_trigger, timer, oneshot>>

\* send_or_queue_packet, on its first call and from its own callback.
SendOneShot(p) ==
  \/ /\ queue < SocketBuffer
     /\ queue' = queue + 1
     /\ oneshot' = [oneshot EXCEPT ![p] = "sent"]
     /\ UNCHANGED <<callbacks, wev>>
  \/ /\ queue >= SocketBuffer
     /\ oneshot' = [oneshot EXCEPT ![p] = "queued"]
     /\ when_writeable(p)
     /\ UNCHANGED queue
  \/ /\ oneshot' = [oneshot EXCEPT ![p] = "dropped"]
     /\ UNCHANGED <<callbacks, wev, queue>>

send_or_queue_packet(p) ==
  /\ Idle
  /\ oneshot[p] = "none"
  /\ SendOneShot(p)
  /\ UNCHANGED <<connVars, io_trigger, timer, flushVars, running>>

ResendOneShot(p) ==
  /\ pc = "idle" /\ running # <<>> /\ Head(running) = p
  /\ running' = Tail(running)
  /\ SendOneShot(p)
  /\ UNCHANGED <<connVars, io_trigger, timer, flushVars>>

\* The kernel puts a datagram on the link.
Drain ==
  /\ queue > 0
  /\ queue' = queue - 1
  /\ UNCHANGED <<connVars, io_trigger, timer, oneshot, flushVars, callbacks, running, wev>>

Flush(c) ==
  \/ WritePacket(c) \/ NothingToWrite(c) \/ SendBatch(c) \/ SendFinal(c)
  \/ schedule_retransmit(c)

Callback == (\E c \in Conns : Resend(c)) \/ (\E p \in OneShots : ResendOneShot(p))

Next ==
  \/ \E c \in Conns : io_ready(c) \/ IoTrigger(c) \/ RetransmitTimer(c) \/ Flush(c)
  \/ \E p \in OneShots : send_or_queue_packet(p)
  \/ Poll \/ Writeable \/ Callback
  \/ Drain

Spec == Init /\ [][Next]_vars

-----------------------------------------------------------------------------
\* Types of the fields; a batch never outgrows the arrays send_buffer and
\* send_buffer_size.
TypeOK ==
  /\ send_buffer \in [Conns -> Seq(Nat)] /\ \A c \in Conns : n_packets(c) <= MAX_BATCH
  /\ written \in [Conns -> 0..MaxPackets]
  /\ wire \in [Conns -> Seq(Nat)]
  /\ dropped \in [Conns -> SUBSET (1..MaxPackets)]
  /\ io_trigger \in [Conns -> BOOLEAN] /\ timer \in [Conns -> BOOLEAN]
  /\ oneshot \in [OneShots -> {"none", "queued", "sent", "dropped"}]
  /\ pc \in {"idle", "write", "batch", "final", "schedule"}
  /\ cur \in Conns \cup {NoConn} /\ (cur = NoConn <=> pc = "idle")
  /\ stream_packets \in 0..MaxStreamPackets
  /\ callbacks \in Seq(Conns \cup OneShots)
  /\ running \in Seq(Conns \cup OneShots)
  /\ wev \in {"off", "added", "active"}
  /\ queue \in 0..(SocketBuffer + MAX_BATCH)

\* The callbacks that will still run.
Waiting == running \o callbacks

\* A connection with unsent packets has exactly one resend callback and one
\* without has none (while it builds a batch it has none either): with none it
\* would be stuck, since flush_streams does nothing while n_packets > 0; with
\* two the second would find no packets, which send() asserts.
OneResend ==
  /\ IsInjective(Waiting)
  /\ \A c \in Conns :
       IF cur = c /\ pc \in {"write", "batch", "final"}
       THEN c \notin Range(Waiting)
       ELSE n_packets(c) > 0 <=> c \in Range(Waiting)
  /\ \A p \in OneShots : oneshot[p] = "queued" <=> p \in Range(Waiting)

\* No wakeup is lost: callbacks wait only while the writeable event is added.
WakeupPending == callbacks # <<>> => wev # "off"

Increasing(s) == \A i, j \in 1..Len(s) : i < j => s[i] < s[j]

\* Every packet ngtcp2 wrote is sent once and in order, still in send_buffer,
\* or was dropped on a serious error: whatever part of a batch the kernel took,
\* the resend starts with the first packet it did not take.
NoPacketLost ==
  \A c \in Conns :
    /\ Increasing(wire[c] \o send_buffer[c])
    /\ Range(wire[c] \o send_buffer[c]) \cup dropped[c] = 1..written[c]
    /\ Range(wire[c] \o send_buffer[c]) \cap dropped[c] = {}

\* A connection that waits for the socket writes no packets: its backlog
\* bounds what the endpoint holds for it.
NoWriteWhileBlocked ==
  [][\A c \in Conns : c \in Range(Waiting) => UNCHANGED written[c]]_vars

\* A blocked connection or one-shot packet is tried again.
Retried ==
  \A e \in Conns \cup OneShots :
    e \in Range(callbacks) ~> (running # <<>> /\ Head(running) = e)
=============================================================================
