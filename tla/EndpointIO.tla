----------------------------- MODULE EndpointIO -----------------------------
(***************************************************************************)
(* The packets of an endpoint in both directions: UDPReceive and Transmit  *)
(* on one event loop.  A received packet is handed to its connection,      *)
(* whose io_ready() makes it flush.  The loop runs one handler at a time,  *)
(* so nothing is sent while receive() runs and nothing is received during  *)
(* a flush; only the kernel goes on.                                       *)
(***************************************************************************)
EXTENDS Transmit, UDPReceive

ASSUME TargetsAssumption == Targets = Conns

ioVars == <<vars, rxVars>>

IOInit == Init /\ RxInit

\* The handlers of Transmit.
Handle(A) == A /\ ~receiving /\ UNCHANGED rxVars

\* receive() starts when the loop runs nothing else.
StartReceive == Idle /\ Readable /\ UNCHANGED vars

\* The callback chain of a round: handle_packet, handle_conn_packet, io_ready.
Receive ==
  /\ ReceiveRound
  /\ io_trigger' = [c \in Conns |-> io_trigger[c] \/ c \in Delivered]
  /\ UNCHANGED <<connVars, timer, oneshot, flushVars, sockVars>>

ReceiveFails == ReceiveError /\ UNCHANGED vars

Kernel == (Drain /\ UNCHANGED rxVars) \/ (Arrive /\ UNCHANGED vars)

IONext ==
  \/ \E c \in Conns :
       \/ Handle(io_ready(c)) \/ Handle(IoTrigger(c)) \/ Handle(RetransmitTimer(c))
       \/ Handle(Flush(c))
  \/ \E p \in OneShots : Handle(send_or_queue_packet(p))
  \/ Handle(Poll) \/ Handle(Writeable) \/ Handle(Callback)
  \/ StartReceive \/ Receive \/ ReceiveFails
  \/ Kernel

\* libevent runs every active event before it polls again, so none of them is
\* overtaken for ever; a handler that has begun goes on; the kernel keeps
\* sending.  Datagrams may or may not arrive, and the application may or may not
\* call.
IOFairness ==
  /\ \A c \in Conns : WF_ioVars(Handle(Flush(c))) /\ SF_ioVars(Handle(IoTrigger(c)))
  /\ WF_ioVars(Handle(Callback)) /\ SF_ioVars(Handle(Poll)) /\ SF_ioVars(Handle(Writeable))
  /\ SF_ioVars(StartReceive) /\ WF_ioVars(Receive)
  /\ WF_ioVars(Drain /\ UNCHANGED rxVars)

IOSpec == IOInit /\ [][IONext]_ioVars /\ IOFairness
-----------------------------------------------------------------------------
\* "We can overrun up to the next integer multiple of DATAGRAM_BATCH_SIZE":
\* at the start of a round fewer than MAX_RECEIVE_PER_LOOP datagrams have been
\* read, in whole batches, so one call reads at most that.
ReceiveBounded ==
  receiving => count < MAX_RECEIVE_PER_LOOP /\ \E k \in 0..count : count = k * BatchSize

\* "To prevent loop starvation in the face of heavy incoming packets": however
\* many datagrams arrive, a connection that is ready is flushed.
NotStarved == \A c \in Conns : io_trigger[c] ~> cur = c

\* A packet that waits in the socket reaches its connection, which then gets
\* to answer, wherever in a batch the packet is and whatever junk is around it,
\* unless reading fails again and again.
Answered ==
  \A c \in Conns :
    []<><<ReceiveFails>>_ioVars \/ ((\E i \in DOMAIN inbox : inbox[i] = c) ~> cur = c)
=============================================================================
