----------------------------- MODULE UDPReceive -----------------------------
(***************************************************************************)
(* UDPSocket::receive, the handler of the socket's read event: it reads    *)
(* datagrams until the socket has no more or enough have been read, and    *)
(* returns to the event loop.  Datagrams go on arriving while it reads.    *)
(* The event is level-triggered and persistent: it fires again as long as  *)
(* datagrams are waiting.                                                  *)
(***************************************************************************)
EXTENDS Naturals, Sequences

CONSTANTS
  Targets,   \* a datagram stands for the connection whose packet it holds
  Junk,      \* or is empty or truncated
  DATAGRAM_BATCH_SIZE,
  MAX_RECEIVE_PER_LOOP,
  RecvBuffer \* datagrams the kernel keeps; further ones are lost

ASSUME ReceiveAssumption ==
  /\ DATAGRAM_BATCH_SIZE \in Nat \ {0} /\ MAX_RECEIVE_PER_LOOP \in Nat \ {0}
  /\ RecvBuffer \in Nat /\ Junk \notin Targets

VARIABLES
  mmsg,      \* the build has recvmmsg
  inbox,     \* kernel: the datagrams waiting in the socket
  receiving, \* receive() is running
  count      \* how many datagrams this call has read

rxVars == <<mmsg, inbox, receiving, count>>

RxInit ==
  /\ mmsg \in BOOLEAN
  /\ inbox = <<>>
  /\ receiving = FALSE /\ count = 0

\* A datagram arrives at the socket.
Arrive ==
  /\ Len(inbox) < RecvBuffer
  /\ \E d \in Targets \cup {Junk} : inbox' = Append(inbox, d)
  /\ UNCHANGED <<mmsg, receiving, count>>

\* The read event.
Readable ==
  /\ ~receiving /\ inbox # <<>>
  /\ receiving' = TRUE /\ count' = 0
  /\ UNCHANGED <<mmsg, inbox>>

BatchSize == IF mmsg THEN DATAGRAM_BATCH_SIZE ELSE 1

\* recvmmsg or recvmsg returns what is there, up to one batch.
nread == IF Len(inbox) < BatchSize THEN Len(inbox) ELSE BatchSize

\* Mutant: recvmsg does not count.
Counted_None == IF mmsg THEN count + nread ELSE count

\* What has been read after this round.
Counted == count + nread

\* Mutant: the limit is compared one too late.
GoOn_Late == nread = BatchSize /\ Counted <= MAX_RECEIVE_PER_LOOP

\* The loop goes on: the batch was full and the limit is not reached.
GoOn == nread = BatchSize /\ Counted < MAX_RECEIVE_PER_LOOP

\* Mutant: what does not fit the first place of the batch is thrown away.
Delivered_First == IF nread = 0 THEN {} ELSE {inbox[1]}

\* The connections process_packet hands a datagram to: all that are neither
\* empty nor truncated.
Delivered == {inbox[i] : i \in 1..nread} \ {Junk}

\* One round: none left, or one batch processed.
ReceiveRound ==
  /\ receiving
  /\ inbox' = SubSeq(inbox, nread + 1, Len(inbox))
  /\ receiving' = (nread > 0 /\ GoOn)
  /\ count' = IF receiving' THEN Counted ELSE 0
  /\ UNCHANGED mmsg

\* The call fails; receive() returns the error and the event ignores it.
ReceiveError ==
  /\ receiving
  /\ receiving' = FALSE /\ count' = 0
  /\ UNCHANGED <<mmsg, inbox>>
=============================================================================
