-------------------------- MODULE EndpointIOProofs --------------------------
(***************************************************************************)
(* Sending and receiving are safe for any number of connections, packets   *)
(* and one-shot packets and any sizes of batches and socket buffers.       *)
(***************************************************************************)
EXTENDS EndpointIO, SequenceTheorems, TLAPS

Entries == Conns \cup OneShots

\* flush_streams never writes beyond the batch, and what it hands to send is
\* not empty.
Counters ==
  /\ pc = "write" => n_packets(cur) < MAX_BATCH /\ stream_packets < MaxStreamPackets
  /\ pc = "batch" => n_packets(cur) > 0

IInv == TypeOK /\ Counters /\ OneResend /\ WakeupPending /\ NoPacketLost
-----------------------------------------------------------------------------
\* Facts about sequences.

\* The values of a sequence with one more element.
LEMMA AppendRange ==
  ASSUME NEW S, NEW s \in Seq(S), NEW x \in S
  PROVE  /\ Append(s, x) \in Seq(S)
         /\ Range(Append(s, x)) = Range(s) \cup {x}
         /\ IsInjective(s) /\ x \notin Range(s) => IsInjective(Append(s, x))
<1>1. /\ Append(s, x) \in Seq(S) /\ Len(Append(s, x)) = Len(s) + 1
      /\ \A i \in 1..Len(s) : Append(s, x)[i] = s[i]
      /\ Append(s, x)[Len(s) + 1] = x
  BY AppendProperties
<1>2. DOMAIN s = 1..Len(s) /\ DOMAIN Append(s, x) = 1..(Len(s) + 1) /\ Len(s) \in Nat
  BY <1>1, LenProperties
<1>3. Range(Append(s, x)) = Range(s) \cup {x}
  BY <1>1, <1>2 DEF Range
<1>4. ASSUME IsInjective(s), x \notin Range(s)
      PROVE  IsInjective(Append(s, x))
  BY <1>1, <1>2, <1>4 DEF Range, IsInjective
<1>5. QED
  BY <1>1, <1>3, <1>4

\* The values of a sequence without its first element.
LEMMA TailRange ==
  ASSUME NEW S, NEW s \in Seq(S), s # <<>>, IsInjective(s)
  PROVE  /\ Tail(s) \in Seq(S) /\ Head(s) \in S
         /\ IsInjective(Tail(s))
         /\ Range(Tail(s)) = Range(s) \ {Head(s)} /\ Head(s) \in Range(s)
<1>1. /\ Tail(s) \in Seq(S) /\ Head(s) \in S /\ Len(Tail(s)) = Len(s) - 1
      /\ \A i \in 1..Len(Tail(s)) : Tail(s)[i] = s[i + 1]
      /\ Len(s) \in Nat \ {0} /\ Head(s) = s[1]
  BY HeadTailProperties, LenProperties, EmptySeq
<1>2. DOMAIN s = 1..Len(s) /\ DOMAIN Tail(s) = 1..(Len(s) - 1)
  BY <1>1, LenProperties
<1>3. IsInjective(Tail(s))
  BY <1>1, <1>2 DEF IsInjective
<1>4. \A i \in 1..(Len(s) - 1) : Tail(s)[i] = s[i + 1] /\ s[i + 1] # s[1]
  BY <1>1, <1>2 DEF IsInjective
<1>5. \A i \in 2..Len(s) : i - 1 \in 1..(Len(s) - 1) /\ s[i] = Tail(s)[i - 1]
  BY <1>1, <1>4
<1>6. Range(Tail(s)) = Range(s) \ {Head(s)} /\ Head(s) \in Range(s)
  <2>1. ASSUME NEW v \in Range(Tail(s)) PROVE v \in Range(s) /\ v # Head(s)
    <3>1. PICK i \in 1..(Len(s) - 1) : v = Tail(s)[i]
      BY <1>2 DEF Range
    <3>2. i + 1 \in 1..Len(s) /\ v = s[i + 1] /\ v # s[1]
      BY <1>1, <1>4, <3>1
    <3>3. QED
      BY <1>1, <1>2, <3>2 DEF Range
  <2>2. ASSUME NEW v \in Range(s), v # Head(s) PROVE v \in Range(Tail(s))
    <3>1. PICK i \in 1..Len(s) : v = s[i]
      BY <1>2 DEF Range
    <3>2. i \in 2..Len(s)
      BY <1>1, <2>2, <3>1
    <3>3. QED
      BY <1>2, <1>5, <3>1, <3>2 DEF Range
  <2>3. Head(s) \in Range(s)
    BY <1>1, <1>2 DEF Range
  <2>4. QED
    BY <2>1, <2>2, <2>3
<1>7. QED
  BY <1>1, <1>3, <1>6

\* The queue of callbacks, split at the end of the running ones.
LEMMA Queues ==
  ASSUME NEW S, NEW a \in Seq(S), NEW b \in Seq(S)
  PROVE  /\ a \o b \in Seq(S)
         /\ <<>> \o b = b /\ a \o <<>> = a
         /\ \A x \in S : a \o Append(b, x) = Append(a \o b, x)
         /\ a # <<>> => /\ Head(a \o b) = Head(a) /\ a \o b # <<>>
                        /\ Tail(a) \in Seq(S) /\ Tail(a) \o b = Tail(a \o b)
<1>1. a \o b \in Seq(S) /\ <<>> \o b = b /\ a \o <<>> = a
  BY ConcatProperties, ConcatEmptySeq
<1>2. ASSUME NEW x \in S PROVE a \o Append(b, x) = Append(a \o b, x)
  <2>1. Append(b, x) = b \o <<x>> /\ Append(a \o b, x) = (a \o b) \o <<x>> /\ <<x>> \in Seq(S)
    BY <1>1, AppendIsConcat
  <2>2. QED
    BY <2>1, ConcatAssociative
<1>3. ASSUME a # <<>>
      PROVE  /\ Head(a \o b) = Head(a) /\ a \o b # <<>>
             /\ Tail(a) \in Seq(S) /\ Tail(a) \o b = Tail(a \o b)
  <2>1. /\ a = <<Head(a)>> \o Tail(a) /\ Head(a) \in S /\ Tail(a) \in Seq(S)
        /\ Len(a) \in Nat \ {0}
    BY <1>3, HeadTailProperties, LenProperties, EmptySeq, ConcatProperties, SMT
  <2>2. Tail(a) \o b \in Seq(S) /\ a \o b = <<Head(a)>> \o (Tail(a) \o b)
    BY <2>1, ConcatProperties, ConcatAssociative
  <2>3. QED
    BY <1>1, <2>1, <2>2, SMT
<1>4. QED
  BY <1>1, <1>2, <1>3

\* Concatenation of packets is associative.
LEMMA ConcatPackets == \A p, q, r \in Seq(Nat) : (p \o q) \o r = p \o (q \o r)
<1> TAKE p, q, r \in Seq(Nat)
<1>1. QED
  BY SMT

\* A packet appended to the unsent ones.
LEMMA AppendPackets ==
  \A p, q \in Seq(Nat) : \A x \in Nat : p \o Append(q, x) = Append(p \o q, x)
<1> TAKE p, q \in Seq(Nat)
<1> TAKE x \in Nat
<1>1. QED
  BY Queues

\* The packets of a sequence with one more.
LEMMA PacketsRange ==
  \A q \in Seq(Nat) : \A x \in Nat : Range(Append(q, x)) = Range(q) \cup {x}
<1> TAKE q \in Seq(Nat)
<1> TAKE x \in Nat
<1>1. QED
  BY AppendRange

\* Sending the first k packets of the buffer b leaves the sequence of sent and
\* unsent packets as it is.
LEMMA SplitBuffer ==
  \A w, b \in Seq(Nat) : \A k \in 0..Len(b) :
    /\ SubSeq(b, 1, k) \in Seq(Nat) /\ SubSeq(b, k + 1, Len(b)) \in Seq(Nat)
    /\ Len(SubSeq(b, k + 1, Len(b))) = Len(b) - k
    /\ (w \o SubSeq(b, 1, k)) \o SubSeq(b, k + 1, Len(b)) = w \o b
<1> TAKE w, b \in Seq(Nat)
<1> TAKE k \in 0..Len(b)
<1> DEFINE x == SubSeq(b, 1, k)
           y == SubSeq(b, k + 1, Len(b))
<1>1. Len(b) \in Nat /\ \A i \in 1..Len(b) : b[i] \in Nat
  BY LenProperties, ElementOfSeq
<1>2. x \in Seq(Nat)
  BY <1>1, SubSeqProperties
<1>3. y \in Seq(Nat) /\ Len(y) = Len(b) - k
  BY <1>1, SubSeqProperties
<1>4. x \o y = b
  <2>1. 1 \in 1..(Len(b) + 1) /\ k \in (1 - 1)..Len(b) /\ Len(b) \in k..Len(b)
    BY <1>1
  <2>2. x \o y = SubSeq(b, 1, Len(b))
    BY <2>1, ConcatAdjacentSubSeq, Zenon
  <2>3. QED
    BY <2>2, SubSeqFull, Zenon
<1> HIDE DEF x, y
<1>5. (w \o x) \o y = w \o b
  BY <1>2, <1>3, <1>4, ConcatPackets, ZenonT(60)
<1>6. QED
  BY <1>2, <1>3, <1>5, Zenon DEF x, y

\* An increasing sequence has no packet both in its first and its second part.
LEMMA IncreasingParts ==
  ASSUME NEW a \in Seq(Nat), NEW b \in Seq(Nat), Increasing(a \o b)
  PROVE  /\ Range(a \o b) = Range(a) \cup Range(b)
         /\ Increasing(a) /\ Range(a) \cap Range(b) = {}
<1>1. /\ Len(a) \in Nat /\ Len(b) \in Nat /\ Len(a \o b) = Len(a) + Len(b)
      /\ \A i \in 1..(Len(a) + Len(b)) :
           (a \o b)[i] = IF i <= Len(a) THEN a[i] ELSE b[i - Len(a)]
  BY LenProperties, ConcatProperties
<1>2. /\ \A i \in 1..Len(a) : i \in 1..Len(a \o b) /\ (a \o b)[i] = a[i]
      /\ \A j \in 1..Len(b) : j + Len(a) \in 1..Len(a \o b) /\ (a \o b)[j + Len(a)] = b[j]
  BY <1>1
<1>3. DOMAIN a = 1..Len(a) /\ DOMAIN b = 1..Len(b)
  BY LenProperties
<1>4. Increasing(a)
  BY <1>1, <1>2 DEF Increasing
<1>5. ASSUME NEW i \in 1..Len(a), NEW j \in 1..Len(b)
      PROVE  a[i] < b[j]
  <2>1. i < j + Len(a)
    BY <1>1
  <2>2. (a \o b)[i] < (a \o b)[j + Len(a)]
    BY <1>2, <2>1 DEF Increasing
  <2>3. QED
    BY <1>2, <2>2
<1>6. \A i \in 1..Len(a), j \in 1..Len(b) : a[i] # b[j]
  BY <1>5, ElementOfSeq
<1>7. Range(a) \cap Range(b) = {}
  BY <1>3, <1>6 DEF Range
<1>8. Range(a \o b) = Range(a) \cup Range(b)
  BY RangeConcatenation
<1>9. QED
  BY <1>4, <1>7, <1>8

\* The next packet's number is larger than those before it.
LEMMA IncreasingAppend ==
  ASSUME NEW s \in Seq(Nat), NEW n \in Nat, Increasing(s), \A x \in Range(s) : x <= n
  PROVE  Increasing(Append(s, n + 1))
<1>1. /\ Len(Append(s, n + 1)) = Len(s) + 1 /\ Len(s) \in Nat
      /\ \A i \in 1..Len(s) : Append(s, n + 1)[i] = s[i] /\ s[i] \in Nat
      /\ Append(s, n + 1)[Len(s) + 1] = n + 1
  BY AppendProperties, LenProperties, ElementOfSeq
<1>2. \A i \in 1..Len(s) : s[i] <= n
  BY LenProperties DEF Range
<1> DEFINE t == Append(s, n + 1)
<1>3. ASSUME NEW i \in 1..Len(t), NEW j \in 1..Len(t), i < j
      PROVE  t[i] < t[j]
  <2>1. i \in 1..Len(s) /\ t[i] = s[i]
    BY <1>1, <1>3
  <2>2. CASE j \in 1..Len(s)
    BY <1>1, <1>3, <2>1, <2>2 DEF Increasing
  <2>3. CASE j = Len(s) + 1
    BY <1>1, <1>2, <2>1, <2>3
  <2>4. QED
    BY <1>1, <2>2, <2>3
<1>4. QED
  BY <1>3 DEF Increasing
-----------------------------------------------------------------------------
\* What Connection::send leaves, whichever way it ends.
LEMMA SendOutcome ==
  ASSUME TypeOK, NoPacketLost, NEW c \in Conns, n_packets(c) > 0,
         SendDone(c) \/ SendBlocked(c) \/ SendFailed(c), UNCHANGED written
  PROVE  /\ send_buffer' \in [Conns -> Seq(Nat)] /\ wire' \in [Conns -> Seq(Nat)]
         /\ dropped' \in [Conns -> SUBSET (1..MaxPackets)]
         /\ queue' \in 0..(SocketBuffer + MAX_BATCH)
         /\ \A d \in Conns \ {c} : send_buffer'[d] = send_buffer[d]
         /\ Len(send_buffer'[c]) <= MAX_BATCH
         /\ NoPacketLost'
         /\ \/ /\ (SendDone(c) \/ SendFailed(c)) /\ send_buffer'[c] = <<>>
               /\ callbacks' = callbacks /\ wev' = wev
            \/ /\ SendBlocked(c) /\ Len(send_buffer'[c]) > 0
               /\ callbacks' = Append(callbacks, c)
               /\ wev' \in {"added", "active"}
<1> USE BatchAssumption, KernelAssumption
<1> DEFINE b == send_buffer[c]
           w == wire[c]
<1>1. /\ b \in Seq(Nat) /\ w \in Seq(Nat) /\ Len(b) \in Nat /\ Len(b) <= MAX_BATCH
      /\ w \o b \in Seq(Nat) /\ w \o <<>> = w /\ (w \o b) \o <<>> = w \o b
  BY LenProperties, ConcatProperties, ConcatEmptySeq DEF TypeOK, n_packets
<1>2. Increasing(w \o b) /\ Range(w \o b) \cup dropped[c] = 1..written[c]
      /\ Range(w \o b) \cap dropped[c] = {}
  BY DEF NoPacketLost
<1>3. CASE SendDone(c)
  <2>1. /\ wire' = [wire EXCEPT ![c] = w \o b] /\ send_buffer' = [send_buffer EXCEPT ![c] = <<>>]
        /\ queue < SocketBuffer /\ queue' = queue + Len(b)
        /\ UNCHANGED <<dropped, callbacks, wev>>
    BY <1>3 DEF SendDone, n_packets
  <2>2. send_buffer' \in [Conns -> Seq(Nat)] /\ wire' \in [Conns -> Seq(Nat)]
    BY <1>1, <2>1 DEF TypeOK
  <2>3. NoPacketLost'
    BY <1>1, <2>1, <2>2 DEF NoPacketLost, TypeOK
  <2>4. queue' \in 0..(SocketBuffer + MAX_BATCH)
    BY <1>1, <2>1 DEF TypeOK
  <2>5. QED
    BY <1>3, <2>1, <2>2, <2>3, <2>4 DEF TypeOK
<1>4. CASE SendBlocked(c)
  <2>1. PICK sent \in 0..(Len(b) - 1) :
          /\ sent = 0 <=> queue >= SocketBuffer
          /\ wire' = [wire EXCEPT ![c] = w \o SubSeq(b, 1, sent)]
          /\ queue' = queue + sent
          /\ send_buffer' = [send_buffer EXCEPT ![c] = SubSeq(b, sent + 1, Len(b))]
          /\ when_writeable(c) /\ UNCHANGED dropped
    BY <1>4 DEF SendBlocked, Unsent, n_packets
  <2> DEFINE b1 == SubSeq(b, 1, sent)
             b2 == SubSeq(b, sent + 1, Len(b))
  <2>2. sent \in 0..Len(b) /\ Len(b) - sent > 0 /\ Len(b) - sent <= MAX_BATCH
    BY <1>1, <2>1
  <2> HIDE DEF b, w
  <2>3. b1 \in Seq(Nat) /\ b2 \in Seq(Nat) /\ Len(b2) = Len(b) - sent /\ (w \o b1) \o b2 = w \o b
    BY <1>1, <2>2, SplitBuffer, Zenon
  <2> USE DEF b, w
  <2>4. w \o b1 \in Seq(Nat)
    BY <1>1, <2>3, ConcatProperties
  <2> HIDE DEF b1, b2
  <2>5. wire' = [wire EXCEPT ![c] = w \o b1] /\ send_buffer' = [send_buffer EXCEPT ![c] = b2]
    BY <2>1 DEF b1, b2
  <2>6. send_buffer' \in [Conns -> Seq(Nat)] /\ wire' \in [Conns -> Seq(Nat)]
    BY <2>3, <2>4, <2>5 DEF TypeOK
  <2>7. NoPacketLost'
    BY <2>1, <2>3, <2>5, <2>6 DEF NoPacketLost, TypeOK
  <2>8. queue' \in 0..(SocketBuffer + MAX_BATCH)
    BY <1>1, <2>1, <2>2 DEF TypeOK
  <2>9. callbacks' = Append(callbacks, c) /\ wev' \in {"added", "active"} /\ dropped' = dropped
    BY <2>1 DEF when_writeable
  <2>10. /\ \A d \in Conns \ {c} : send_buffer'[d] = send_buffer[d]
         /\ Len(send_buffer'[c]) <= MAX_BATCH /\ Len(send_buffer'[c]) > 0
    BY <2>2, <2>3, <2>5 DEF TypeOK
  <2>11. QED
    BY <1>4, <2>6, <2>7, <2>8, <2>9, <2>10 DEF TypeOK
<1>5. CASE SendFailed(c)
  <2>1. /\ dropped' = [dropped EXCEPT ![c] = @ \cup Range(b)]
        /\ send_buffer' = [send_buffer EXCEPT ![c] = <<>>]
        /\ UNCHANGED <<wire, queue, callbacks, wev>>
    BY <1>5 DEF SendFailed
  <2>2. Range(w \o b) = Range(w) \cup Range(b) /\ Increasing(w) /\ Range(w) \cap Range(b) = {}
    BY <1>1, <1>2, IncreasingParts
  <2>3. Range(b) \subseteq 1..MaxPackets
    BY <1>2, <2>2 DEF TypeOK
  <2>4. send_buffer' \in [Conns -> Seq(Nat)]
    BY <2>1 DEF TypeOK
  <2>5. dropped' \in [Conns -> SUBSET (1..MaxPackets)]
    BY <2>1, <2>3 DEF TypeOK
  <2>6. ASSUME NEW d \in Conns
        PROVE  /\ Increasing(wire'[d] \o send_buffer'[d])
               /\ Range(wire'[d] \o send_buffer'[d]) \cup dropped'[d] = 1..written'[d]
               /\ Range(wire'[d] \o send_buffer'[d]) \cap dropped'[d] = {}
    <3>1. CASE d = c
      <4>1. wire'[d] \o send_buffer'[d] = w /\ dropped'[d] = dropped[c] \cup Range(b)
        BY <1>1, <2>1, <3>1 DEF TypeOK
      <4>2. QED
        BY <1>2, <2>2, <3>1, <4>1
    <3>2. CASE d # c
      BY <2>1, <3>2 DEF TypeOK, NoPacketLost
    <3>3. QED
      BY <3>1, <3>2
  <2>7. QED
    BY <1>5, <2>1, <2>4, <2>5, <2>6 DEF TypeOK, NoPacketLost
<1>6. QED
  BY <1>3, <1>4, <1>5
-----------------------------------------------------------------------------
\* The steps that leave the buffers and the queue of callbacks alone.
LEMMA QuietStep ==
  ASSUME IInv, UNCHANGED <<connVars, oneshot, callbacks, running>>,
         \A c \in Conns :
           IF cur' = c /\ pc' \in {"write", "batch", "final"}
           THEN /\ (cur = c /\ pc \in {"write", "batch", "final"}) \/ n_packets(c) = 0
           ELSE ~(cur = c /\ pc \in {"write", "batch", "final"})
                  \/ (n_packets(c) = 0)
  PROVE  OneResend' /\ NoPacketLost'
<1>1. Waiting' = Waiting
  BY DEF Waiting
<1>2. \A c \in Conns : n_packets(c)' = n_packets(c) /\ n_packets(c) \in Nat
  BY LenProperties DEF connVars, n_packets, IInv, TypeOK
<1>3. \A c \in Conns :
        IF cur' = c /\ pc' \in {"write", "batch", "final"}
        THEN c \notin Range(Waiting)
        ELSE n_packets(c) > 0 <=> c \in Range(Waiting)
  BY <1>2 DEF IInv, OneResend
<1>4. OneResend'
  BY <1>1, <1>2, <1>3 DEF IInv, OneResend
<1>5. NoPacketLost'
  BY DEF IInv, NoPacketLost, connVars
<1>6. QED
  BY <1>4, <1>5

\* on_io_ready, by the trigger or by the timer.
LEMMA OnIoReadyStep ==
  ASSUME IInv, NEW c \in Conns, IoTrigger(c) \/ RetransmitTimer(c)
  PROVE  IInv'
<1> USE BatchAssumption, NamesAssumption
<1>1. /\ pc = "idle" /\ cur' = c /\ stream_packets' = 0
      /\ pc' = IF n_packets(c) > 0 THEN "schedule" ELSE "write"
      /\ UNCHANGED <<connVars, oneshot, sockVars>>
  BY DEF IoTrigger, RetransmitTimer, Idle, on_io_ready
<1>2. \A d \in Conns : n_packets(d)' = n_packets(d) /\ n_packets(d) \in Nat
  BY <1>1, LenProperties DEF connVars, n_packets, IInv, TypeOK
<1>3. io_trigger' \in [Conns -> BOOLEAN] /\ timer' \in [Conns -> BOOLEAN]
  BY DEF IoTrigger, RetransmitTimer, IInv, TypeOK
<1>4. TypeOK'
  BY <1>1, <1>2, <1>3 DEF IInv, TypeOK, connVars, sockVars
<1>5. Counters'
  BY <1>1, <1>2 DEF Counters
<1>6. OneResend' /\ NoPacketLost'
  BY <1>1, <1>2, QuietStep DEF sockVars
<1>7. WakeupPending'
  BY <1>1 DEF IInv, WakeupPending, sockVars
<1>8. QED
  BY <1>4, <1>5, <1>6, <1>7 DEF IInv

\* A packet is written into the batch.
LEMMA WritePacketStep ==
  ASSUME IInv, NEW c \in Conns, WritePacket(c)
  PROVE  IInv'
<1> USE BatchAssumption, KernelAssumption, NamesAssumption
<1> DEFINE b == send_buffer[c]
           w == wire[c]
           n == written[c]
<1>1. /\ pc = "write" /\ cur = c /\ n < MaxPackets
      /\ written' = [written EXCEPT ![c] = n + 1]
      /\ send_buffer' = [send_buffer EXCEPT ![c] = Append(b, n + 1)]
      /\ stream_packets' = stream_packets + 1
      /\ pc' = IF n_packets(c) + 1 = MAX_BATCH THEN "batch"
               ELSE IF stream_packets + 1 = MaxStreamPackets THEN "final" ELSE "write"
      /\ UNCHANGED <<wire, dropped, io_trigger, timer, oneshot, cur, sockVars>>
  BY DEF WritePacket, BatchFull
<1>2. /\ b \in Seq(Nat) /\ w \in Seq(Nat) /\ n \in Nat /\ Len(b) \in Nat
      /\ Len(b) < MAX_BATCH /\ stream_packets < MaxStreamPackets
  BY <1>1, LenProperties DEF IInv, TypeOK, Counters, n_packets
<1>3. Append(b, n + 1) \in Seq(Nat) /\ Len(Append(b, n + 1)) = Len(b) + 1
  BY <1>2, AppendProperties
<1>4. send_buffer' \in [Conns -> Seq(Nat)] /\ written' \in [Conns -> 0..MaxPackets]
  BY <1>1, <1>2, <1>3 DEF IInv, TypeOK
<1>5. \A d \in Conns : n_packets(d)' = IF d = c THEN Len(b) + 1 ELSE n_packets(d)
  BY <1>1, <1>3 DEF n_packets, IInv, TypeOK
<1>6. TypeOK'
  <2>1. ASSUME NEW d \in Conns
        PROVE  n_packets(d)' <= MAX_BATCH
    <3>1. Len(b) + 1 <= MAX_BATCH /\ n_packets(d) <= MAX_BATCH
      BY <1>2 DEF IInv, TypeOK
    <3>2. n_packets(d)' \in {Len(b) + 1, n_packets(d)}
      BY <1>5
    <3>3. QED
      BY <3>1, <3>2
  <2>2. stream_packets' \in 0..MaxStreamPackets
    BY <1>1, <1>2 DEF IInv, TypeOK
  <2>3. pc' \in {"write", "batch", "final"}
    BY <1>1
  <2>4. QED
    BY <1>1, <1>4, <2>1, <2>2, <2>3 DEF IInv, TypeOK, sockVars
<1>7. Counters'
  BY <1>1, <1>2, <1>5 DEF Counters, n_packets, IInv, TypeOK
<1>8. OneResend'
  <2>1. Waiting' = Waiting
    BY <1>1 DEF Waiting, sockVars
  <2>2. c \notin Range(Waiting) /\ pc' \in {"write", "batch", "final"}
    BY <1>1 DEF IInv, OneResend
  <2>3. ASSUME NEW d \in Conns
        PROVE  IF cur' = d /\ pc' \in {"write", "batch", "final"}
               THEN d \notin Range(Waiting')
               ELSE n_packets(d)' > 0 <=> d \in Range(Waiting')
    BY <1>1, <1>5, <2>1, <2>2 DEF IInv, OneResend
  <2>4. QED
    BY <1>1, <2>1, <2>3 DEF IInv, OneResend
<1>9. NoPacketLost'
  <2> DEFINE a == w \o b
  <2>1. a \in Seq(Nat)
    BY <1>2, ConcatProperties
  <2>2. /\ Increasing(a) /\ Range(a) \cup dropped[c] = 1..n /\ Range(a) \cap dropped[c] = {}
    BY DEF IInv, NoPacketLost
  <2>3. w \o Append(b, n + 1) = Append(a, n + 1)
    <3>1. w \in Seq(Nat) /\ b \in Seq(Nat) /\ n + 1 \in Nat
      BY <1>2
    <3> DEFINE m == n + 1
    <3> HIDE DEF w, b, m
    <3>2. w \o Append(b, m) = Append(w \o b, m)
      BY <3>1, AppendPackets, ZenonT(60) DEF m
    <3>3. QED
      BY <3>2 DEF m
  <2> HIDE DEF a
  <2>4. \A x \in Range(a) : x <= n
    BY <1>2, <2>2
  <2>5. Increasing(Append(a, n + 1))
    BY <1>2, <2>1, <2>2, <2>4, IncreasingAppend
  <2>6. Range(Append(a, n + 1)) = Range(a) \cup {n + 1}
    <3>1. n + 1 \in Nat
      BY <1>2
    <3>2. QED
      BY <2>1, <3>1, PacketsRange, ZenonT(60)
  <2>7. 1..(n + 1) = (1..n) \cup {n + 1} /\ n + 1 \notin 1..n
    BY <1>2
  <2>8. ASSUME NEW d \in Conns
        PROVE  /\ Increasing(wire'[d] \o send_buffer'[d])
               /\ Range(wire'[d] \o send_buffer'[d]) \cup dropped'[d] = 1..written'[d]
               /\ Range(wire'[d] \o send_buffer'[d]) \cap dropped'[d] = {}
    <3>1. CASE d = c
      <4>1. /\ wire'[d] \o send_buffer'[d] = Append(a, n + 1)
            /\ dropped'[d] = dropped[c] /\ written'[d] = n + 1
        BY <1>1, <2>3, <3>1 DEF IInv, TypeOK
      <4>2. QED
        BY <2>2, <2>5, <2>6, <2>7, <4>1
    <3>2. CASE d # c
      BY <1>1, <3>2 DEF IInv, TypeOK, NoPacketLost
    <3>3. QED
      BY <3>1, <3>2
  <2>9. QED
    BY <2>8 DEF NoPacketLost
<1>10. WakeupPending'
  BY <1>1 DEF IInv, WakeupPending, sockVars
<1>11. QED
  BY <1>6, <1>7, <1>8, <1>9, <1>10 DEF IInv

\* A send that flush_streams makes.
LEMMA FlushSend ==
  ASSUME IInv, NEW c \in Conns, cur = c, pc \in {"batch", "final"}, n_packets(c) > 0,
         SendDone(c) \/ SendBlocked(c) \/ SendFailed(c),
         UNCHANGED <<written, io_trigger, timer, oneshot, cur, stream_packets, running>>,
         pc' = "schedule" \/ (SendDone(c) /\ pc' = "final")
           \/ (SendDone(c) /\ pc' = "write" /\ stream_packets < MaxStreamPackets)
  PROVE  IInv'
<1> USE BatchAssumption, KernelAssumption, NamesAssumption
<1>1. /\ send_buffer' \in [Conns -> Seq(Nat)] /\ wire' \in [Conns -> Seq(Nat)]
      /\ dropped' \in [Conns -> SUBSET (1..MaxPackets)]
      /\ queue' \in 0..(SocketBuffer + MAX_BATCH)
      /\ \A d \in Conns \ {c} : send_buffer'[d] = send_buffer[d]
      /\ Len(send_buffer'[c]) <= MAX_BATCH
      /\ NoPacketLost'
      /\ \/ /\ (SendDone(c) \/ SendFailed(c)) /\ send_buffer'[c] = <<>>
            /\ callbacks' = callbacks /\ wev' = wev
         \/ /\ SendBlocked(c) /\ Len(send_buffer'[c]) > 0
            /\ callbacks' = Append(callbacks, c)
            /\ wev' \in {"added", "active"}
  BY SendOutcome DEF IInv
<1>2. SendDone(c) => send_buffer'[c] = <<>>
  BY DEF SendDone, IInv, TypeOK
<1>3. /\ Waiting \in Seq(Entries) /\ c \notin Range(Waiting) /\ c \in Entries
      /\ running \in Seq(Entries) /\ callbacks \in Seq(Entries)
      /\ IsInjective(Waiting)
  BY Queues DEF IInv, TypeOK, Waiting, OneResend, Entries
<1>4. \A d \in Conns \ {c} : n_packets(d)' = n_packets(d) /\ (d \in Range(Waiting) <=> n_packets(d) > 0)
  BY <1>1 DEF IInv, OneResend, n_packets
<1>5. TypeOK'
  <2>1. \A d \in Conns : n_packets(d)' <= MAX_BATCH
    BY <1>1, <1>4 DEF n_packets, IInv, TypeOK
  <2>2. callbacks' \in Seq(Entries)
    <3>1. Append(callbacks, c) \in Seq(Entries)
      BY <1>3, AppendProperties
    <3>2. QED
      BY <1>1, <1>3, <3>1, Zenon
  <2>3. wev' \in {"off", "added", "active"} /\ pc' \in {"write", "final", "schedule"}
    BY <1>1 DEF IInv, TypeOK
  <2>4. QED
    BY <1>1, <2>1, <2>2, <2>3 DEF IInv, TypeOK, Entries
<1>6. Counters'
  BY <1>2 DEF Counters, n_packets
<1>7. ASSUME send_buffer'[c] = <<>>, callbacks' = callbacks
      PROVE  OneResend'
  <2>1. Waiting' = Waiting /\ n_packets(c)' = 0
    BY <1>7, SMTT(30) DEF Waiting, n_packets
  <2>2. QED
    BY <1>3, <1>4, <2>1 DEF IInv, OneResend
<1>8. ASSUME Len(send_buffer'[c]) > 0, callbacks' = Append(callbacks, c)
      PROVE  OneResend'
  <2>1. Waiting' = Append(Waiting, c)
    BY <1>3, <1>8, Queues DEF Waiting
  <2>2. IsInjective(Waiting') /\ Range(Waiting') = Range(Waiting) \cup {c}
    BY <1>3, <2>1, AppendRange
  <2>3. pc' = "schedule" /\ n_packets(c)' > 0
    BY <1>2, <1>8 DEF n_packets
  <2>4. QED
    BY <1>4, <2>2, <2>3 DEF IInv, OneResend
<1>9. WakeupPending'
  BY <1>1 DEF IInv, WakeupPending
<1>10. QED
  BY <1>1, <1>5, <1>6, <1>7, <1>8, <1>9 DEF IInv

\* The steps of flush_streams and schedule_retransmit.
LEMMA FlushStep ==
  ASSUME IInv, NEW c \in Conns, Flush(c)
  PROVE  IInv'
<1> USE BatchAssumption, NamesAssumption
<1>1. CASE WritePacket(c)
  BY <1>1, WritePacketStep
<1>2. CASE NothingToWrite(c)
  <2>1. /\ pc = "write" /\ cur = c /\ pc' = "final"
        /\ UNCHANGED <<connVars, io_trigger, timer, oneshot, cur, stream_packets, sockVars>>
    BY <1>2 DEF NothingToWrite
  <2>2. TypeOK' /\ Counters'
    BY <2>1 DEF IInv, TypeOK, Counters, connVars, sockVars, n_packets
  <2>3. OneResend' /\ NoPacketLost'
    BY <2>1, QuietStep DEF sockVars
  <2>4. WakeupPending'
    BY <2>1 DEF IInv, WakeupPending, sockVars
  <2>5. QED
    BY <2>2, <2>3, <2>4 DEF IInv
<1>3. CASE SendBatch(c)
  <2>1. /\ pc = "batch" /\ cur = c
        /\ UNCHANGED <<written, io_trigger, timer, oneshot, cur, stream_packets, running>>
        /\ SendDone(c) \/ SendBlocked(c) \/ SendFailed(c)
        /\ \/ pc' = "schedule"
           \/ SendDone(c) /\ pc' = IF stream_packets = MaxStreamPackets THEN "final" ELSE "write"
    BY <1>3 DEF SendBatch
  <2>2. n_packets(c) > 0 /\ (stream_packets # MaxStreamPackets => stream_packets < MaxStreamPackets)
    BY <2>1 DEF IInv, Counters, TypeOK
  <2>3. \/ pc' = "schedule"
        \/ SendDone(c) /\ pc' = "final"
        \/ SendDone(c) /\ pc' = "write" /\ stream_packets < MaxStreamPackets
    BY <2>1, <2>2
  <2>4. QED
    BY <2>1, <2>2, <2>3, FlushSend
<1>4. CASE SendFinal(c)
  <2>1. /\ pc = "final" /\ cur = c /\ pc' = "schedule"
        /\ UNCHANGED <<written, io_trigger, timer, oneshot, cur, stream_packets, running>>
        /\ IF n_packets(c) > 0 THEN SendDone(c) \/ SendBlocked(c) \/ SendFailed(c)
           ELSE UNCHANGED <<send_buffer, wire, dropped, callbacks, wev, queue>>
    BY <1>4 DEF SendFinal
  <2>2. CASE n_packets(c) > 0
    BY <2>1, <2>2, FlushSend
  <2>3. CASE ~(n_packets(c) > 0)
    <3>1. UNCHANGED <<connVars, oneshot, callbacks, running>> /\ UNCHANGED <<wev, queue>>
      BY <2>1, <2>3 DEF connVars
    <3>2. n_packets(c) = 0
      BY <2>3, LenProperties DEF n_packets, IInv, TypeOK
    <3>3. TypeOK' /\ Counters'
      BY <2>1, <3>1 DEF IInv, TypeOK, Counters, connVars, n_packets
    <3>4. OneResend' /\ NoPacketLost'
      BY <2>1, <3>1, <3>2, QuietStep
    <3>5. WakeupPending'
      BY <3>1 DEF IInv, WakeupPending
    <3>6. QED
      BY <3>3, <3>4, <3>5 DEF IInv
  <2>4. QED
    BY <2>2, <2>3
<1>5. CASE schedule_retransmit(c)
  <2>1. /\ pc = "schedule" /\ cur = c /\ pc' = "idle" /\ cur' = NoConn /\ stream_packets' = 0
        /\ timer' \in [Conns -> BOOLEAN]
        /\ UNCHANGED <<connVars, io_trigger, oneshot, sockVars>>
    BY <1>5 DEF schedule_retransmit, IInv, TypeOK
  <2>2. TypeOK' /\ Counters'
    BY <2>1 DEF IInv, TypeOK, Counters, connVars, sockVars, n_packets
  <2>3. OneResend' /\ NoPacketLost'
    BY <2>1, QuietStep DEF sockVars
  <2>4. WakeupPending'
    BY <2>1 DEF IInv, WakeupPending, sockVars
  <2>5. QED
    BY <2>2, <2>3, <2>4 DEF IInv
<1>6. QED
  BY <1>1, <1>2, <1>3, <1>4, <1>5 DEF Flush

\* A callback appended to the ones that wait.
LEMMA EntryQueued ==
  \A a, b \in Seq(Entries) : \A x \in Entries : a \o Append(b, x) = Append(a \o b, x)
<1> TAKE a, b \in Seq(Entries)
<1> TAKE x \in Entries
<1>1. QED
  BY Queues

\* What appending does to a queue of callbacks.
LEMMA EntryAppended ==
  \A b \in Seq(Entries) : \A x \in Entries :
    /\ Append(b, x) \in Seq(Entries)
    /\ Range(Append(b, x)) = Range(b) \cup {x}
    /\ IsInjective(b) /\ x \notin Range(b) => IsInjective(Append(b, x))
<1> TAKE b \in Seq(Entries)
<1> TAKE x \in Entries
<1>1. QED
  BY AppendRange

\* The first of the running callbacks is the first that waits.
LEMMA EntryFirst ==
  \A a, b \in Seq(Entries) :
    /\ a \o b \in Seq(Entries)
    /\ a # <<>> => /\ Head(a \o b) = Head(a) /\ a \o b # <<>>
                   /\ Tail(a) \in Seq(Entries) /\ Tail(a) \o b = Tail(a \o b)
<1> TAKE a, b \in Seq(Entries)
<1>1. QED
  BY Queues

\* What taking the first of a queue of callbacks does to it.
LEMMA EntryTaken ==
  \A a \in Seq(Entries) :
    a # <<>> /\ IsInjective(a) =>
      /\ Tail(a) \in Seq(Entries) /\ IsInjective(Tail(a))
      /\ Range(Tail(a)) = Range(a) \ {Head(a)} /\ Head(a) \in Range(a)
<1> TAKE a \in Seq(Entries)
<1>1. QED
  BY TailRange

\* The callback of a blocked connection.
LEMMA ResendStep ==
  ASSUME IInv, NEW c \in Conns, Resend(c)
  PROVE  IInv'
<1> USE BatchAssumption, KernelAssumption, NamesAssumption
<1>1. /\ pc = "idle" /\ running # <<>> /\ Head(running) = c /\ running' = Tail(running)
      /\ \/ SendDone(c) /\ cur' = c /\ stream_packets' = 0 /\ pc' = "write"
         \/ (SendBlocked(c) \/ SendFailed(c)) /\ UNCHANGED flushVars
      /\ UNCHANGED <<written, io_trigger, timer, oneshot>>
  BY DEF Resend
<1>2. /\ running \in Seq(Entries) /\ callbacks \in Seq(Entries) /\ Tail(running) \in Seq(Entries)
      /\ Waiting \in Seq(Entries) /\ Waiting # <<>> /\ Head(Waiting) = c
      /\ Tail(running) \o callbacks = Tail(Waiting)
  <2>1. running \in Seq(Entries) /\ callbacks \in Seq(Entries)
    BY DEF IInv, TypeOK, Entries
  <2>2. running # <<>> /\ Head(running) = c
    BY <1>1
  <2>3. /\ running \o callbacks \in Seq(Entries)
        /\ Head(running \o callbacks) = c /\ running \o callbacks # <<>>
        /\ Tail(running) \in Seq(Entries)
        /\ Tail(running) \o callbacks = Tail(running \o callbacks)
    BY <2>1, <2>2, EntryFirst, Zenon
  <2>4. QED
    BY <2>1, <2>3, Zenon DEF Waiting
<1>3. /\ IsInjective(Tail(Waiting)) /\ Tail(Waiting) \in Seq(Entries)
      /\ Range(Tail(Waiting)) = Range(Waiting) \ {c} /\ c \in Range(Waiting)
  BY <1>2, TailRange DEF IInv, OneResend
<1>4. n_packets(c) > 0
  <2>1. ~(cur = c /\ pc \in {"write", "batch", "final"})
    BY <1>1
  <2>2. QED
    BY <1>3, <2>1 DEF IInv, OneResend
<1>5. /\ send_buffer' \in [Conns -> Seq(Nat)] /\ wire' \in [Conns -> Seq(Nat)]
      /\ dropped' \in [Conns -> SUBSET (1..MaxPackets)]
      /\ queue' \in 0..(SocketBuffer + MAX_BATCH)
      /\ \A d \in Conns \ {c} : send_buffer'[d] = send_buffer[d]
      /\ Len(send_buffer'[c]) <= MAX_BATCH
      /\ NoPacketLost'
      /\ \/ /\ (SendDone(c) \/ SendFailed(c)) /\ send_buffer'[c] = <<>>
            /\ callbacks' = callbacks /\ wev' = wev
         \/ /\ SendBlocked(c) /\ Len(send_buffer'[c]) > 0
            /\ callbacks' = Append(callbacks, c)
            /\ wev' \in {"added", "active"}
  BY <1>1, <1>4, SendOutcome DEF IInv
<1>6. SendDone(c) => send_buffer'[c] = <<>>
  BY DEF SendDone, IInv, TypeOK
<1>7. \A d \in Conns \ {c} : n_packets(d)' = n_packets(d) /\ (d \in Range(Waiting) <=> n_packets(d) > 0)
  BY <1>1, <1>5 DEF IInv, OneResend, n_packets, TypeOK
<1>8. TypeOK'
  <2>1. \A d \in Conns : n_packets(d)' <= MAX_BATCH
    BY <1>5, <1>7 DEF n_packets, IInv, TypeOK
  <2>2. callbacks' \in Seq(Entries)
    <3>1. c \in Entries
      BY DEF Entries
    <3>2. Append(callbacks, c) \in Seq(Entries)
      BY <1>2, <3>1, AppendProperties
    <3>3. QED
      BY <1>2, <1>5, <3>2, Zenon
  <2>3. wev' \in {"off", "added", "active"}
    BY <1>5 DEF IInv, TypeOK
  <2>4. /\ pc' \in {"idle", "write"} /\ cur' \in Conns \cup {NoConn}
        /\ (cur' = NoConn <=> pc' = "idle") /\ stream_packets' \in 0..MaxStreamPackets
    <3>1. \/ cur' = c /\ stream_packets' = 0 /\ pc' = "write"
          \/ cur' = cur /\ stream_packets' = stream_packets /\ pc' = pc
      BY <1>1 DEF flushVars
    <3>2. cur \in Conns \cup {NoConn} /\ (cur = NoConn <=> pc = "idle")
          /\ stream_packets \in 0..MaxStreamPackets
      BY DEF IInv, TypeOK
    <3>3. QED
      BY <1>1, <3>1, <3>2
  <2>5. QED
    BY <1>1, <1>2, <1>5, <2>1, <2>2, <2>3, <2>4 DEF IInv, TypeOK, Entries
<1>9. Counters'
  BY <1>1, <1>6 DEF Counters, n_packets, flushVars
<1>10. ASSUME send_buffer'[c] = <<>>, callbacks' = callbacks
       PROVE  OneResend'
  <2>1. Waiting' = Tail(Waiting) /\ n_packets(c)' = 0
    BY <1>1, <1>2, <1>10 DEF Waiting, n_packets
  <2>2. \A p \in OneShots : p # c
    OBVIOUS
  <2>3. ASSUME NEW d \in Conns
        PROVE  IF cur' = d /\ pc' \in {"write", "batch", "final"}
               THEN d \notin Range(Waiting')
               ELSE n_packets(d)' > 0 <=> d \in Range(Waiting')
    <3>1. CASE d = c
      BY <1>3, <2>1, <3>1
    <3>2. CASE d # c
      <4>1. ~(cur' = d /\ pc' \in {"write", "batch", "final"})
        BY <1>1, <3>2 DEF flushVars
      <4>2. QED
        BY <1>3, <1>7, <2>1, <3>2, <4>1
    <3>3. QED
      BY <3>1, <3>2
  <2>4. QED
    BY <1>1, <1>3, <2>1, <2>2, <2>3, SMTT(30) DEF IInv, OneResend
<1>11. ASSUME SendBlocked(c), Len(send_buffer'[c]) > 0, callbacks' = Append(callbacks, c)
       PROVE  OneResend'
  <2>1. c \in Entries /\ c \notin Range(Tail(Waiting))
    BY <1>3 DEF Entries
  <2>2. Waiting' = Append(Tail(Waiting), c)
    <3>1. Waiting' = Tail(running) \o Append(callbacks, c)
      BY <1>1, <1>11 DEF Waiting
    <3>2. Tail(running) \o Append(callbacks, c) = Append(Tail(running) \o callbacks, c)
      BY <1>2, <2>1, EntryQueued
    <3>3. QED
      BY <1>2, <3>1, <3>2, Zenon
  <2>3. IsInjective(Waiting') /\ Range(Waiting') = Range(Waiting)
    <3>1. /\ IsInjective(Append(Tail(Waiting), c))
          /\ Range(Append(Tail(Waiting), c)) = Range(Tail(Waiting)) \cup {c}
      BY <1>3, <2>1, EntryAppended, Zenon
    <3>2. QED
      BY <1>3, <2>2, <3>1
  <2>4. UNCHANGED flushVars /\ n_packets(c)' > 0
    BY <1>1, <1>6, <1>11 DEF n_packets
  <2>5. QED
    BY <1>1, <1>3, <1>7, <2>3, <2>4 DEF IInv, OneResend, flushVars
<1>12. WakeupPending'
  BY <1>5 DEF IInv, WakeupPending
<1>13. QED
  BY <1>5, <1>8, <1>9, <1>10, <1>11, <1>12 DEF IInv

\* send_or_queue_packet, called first or from its callback.
LEMMA OneShotStep ==
  ASSUME IInv, NEW p \in OneShots, send_or_queue_packet(p) \/ ResendOneShot(p)
  PROVE  IInv'
<1> USE BatchAssumption, KernelAssumption, NamesAssumption
<1> DEFINE W == running' \o callbacks
<1>1. pc = "idle" /\ SendOneShot(p) /\ UNCHANGED <<connVars, io_trigger, timer, flushVars>>
  BY DEF send_or_queue_packet, ResendOneShot, Idle
<1>2. /\ running \in Seq(Entries) /\ callbacks \in Seq(Entries) /\ p \in Entries /\ p \notin Conns
      /\ Waiting \in Seq(Entries) /\ IsInjective(Waiting)
  BY Queues DEF IInv, TypeOK, Waiting, Entries, OneResend
<1>3. /\ running' \in Seq(Entries) /\ W \in Seq(Entries) /\ IsInjective(W)
      /\ Range(W) = Range(Waiting) \ {p}
  <2>1. CASE send_or_queue_packet(p)
    <3>1. running' = running /\ oneshot[p] = "none"
      BY <2>1 DEF send_or_queue_packet
    <3>2. p \notin Range(Waiting)
      BY <3>1 DEF IInv, OneResend
    <3>3. QED
      BY <1>2, <3>1, <3>2 DEF Waiting
  <2>2. CASE ResendOneShot(p)
    <3>1. running # <<>> /\ Head(running) = p /\ running' = Tail(running)
      BY <2>2 DEF ResendOneShot
    <3>2. /\ Tail(running) \in Seq(Entries) /\ W = Tail(Waiting) /\ Waiting # <<>>
          /\ Head(Waiting) = p
      BY <1>2, <3>1, EntryFirst, Zenon DEF Waiting
    <3>3. /\ IsInjective(Tail(Waiting)) /\ Tail(Waiting) \in Seq(Entries)
          /\ Range(Tail(Waiting)) = Range(Waiting) \ {p}
      BY <1>2, <3>2, EntryTaken, Zenon
    <3>4. QED
      BY <3>1, <3>2, <3>3, Zenon
  <2>3. QED
    BY <2>1, <2>2
<1>4. \/ /\ queue < SocketBuffer /\ queue' = queue + 1
         /\ oneshot' = [oneshot EXCEPT ![p] = "sent"] /\ UNCHANGED <<callbacks, wev>>
      \/ /\ oneshot' = [oneshot EXCEPT ![p] = "queued"] /\ queue' = queue
         /\ callbacks' = Append(callbacks, p) /\ wev' \in {"added", "active"}
      \/ /\ oneshot' = [oneshot EXCEPT ![p] = "dropped"] /\ UNCHANGED <<callbacks, wev, queue>>
  BY <1>1 DEF SendOneShot, when_writeable
<1> HIDE DEF W
<1>5. Append(callbacks, p) \in Seq(Entries)
  BY <1>2, AppendProperties
<1>6. TypeOK'
  <2>1. callbacks' \in Seq(Entries)
    BY <1>2, <1>4, <1>5, Zenon
  <2>2. oneshot' \in [OneShots -> {"none", "queued", "sent", "dropped"}]
    BY <1>4 DEF IInv, TypeOK
  <2>3. queue' \in 0..(SocketBuffer + MAX_BATCH)
    <3>1. queue \in 0..(SocketBuffer + MAX_BATCH)
      BY DEF IInv, TypeOK
    <3>2. queue' = queue \/ (queue < SocketBuffer /\ queue' = queue + 1)
      BY <1>4
    <3>3. QED
      BY <3>1, <3>2
  <2>4. wev' \in {"off", "added", "active"}
    BY <1>4 DEF IInv, TypeOK
  <2>5. QED
    BY <1>1, <1>3, <2>1, <2>2, <2>3, <2>4 DEF IInv, TypeOK, Entries, connVars, flushVars, n_packets
<1>7. Counters' /\ NoPacketLost'
  BY <1>1 DEF IInv, Counters, NoPacketLost, connVars, flushVars, n_packets
<1>8. WakeupPending'
  BY <1>4 DEF IInv, WakeupPending
<1>9. /\ IsInjective(Waiting')
      /\ Range(Waiting') = IF oneshot'[p] = "queued" THEN Range(W) \cup {p} ELSE Range(W)
  <2>1. CASE callbacks' = callbacks /\ oneshot'[p] # "queued"
    <3>1. Waiting' = W
      BY <2>1 DEF Waiting, W
    <3>2. QED
      BY <1>3, <2>1, <3>1
  <2>2. CASE callbacks' = Append(callbacks, p) /\ oneshot'[p] = "queued"
    <3>1. Waiting' = Append(W, p)
      BY <1>2, <1>3, <2>2, Queues DEF Waiting, W
    <3>2. p \notin Range(W)
      BY <1>3, SMTT(30)
    <3>3. QED
      BY <1>2, <1>3, <2>2, <3>1, <3>2, AppendRange
  <2>3. QED
    BY <1>4, <2>1, <2>2 DEF IInv, TypeOK
<1>10. OneResend'
  <2>1. \A c \in Conns : c \in Range(Waiting') <=> c \in Range(Waiting)
    BY <1>2, <1>3, <1>9
  <2>2. \A q \in OneShots : oneshot'[q] = "queued" <=> q \in Range(Waiting')
    <3>1. TAKE q \in OneShots
    <3>2. CASE q = p
      BY <1>3, <1>9, <3>2
    <3>3. CASE q # p
      BY <1>3, <1>4, <1>9, <3>3 DEF IInv, OneResend, TypeOK
    <3>4. QED
      BY <3>2, <3>3
  <2>3. QED
    BY <1>1, <1>9, <2>1, <2>2 DEF IInv, OneResend, connVars, flushVars, n_packets
<1>11. QED
  BY <1>6, <1>7, <1>8, <1>10 DEF IInv

\* libevent's steps, the kernel's, and io_ready.
LEMMA LoopStep ==
  ASSUME IInv, Poll \/ Writeable \/ Drain \/ \E c \in Conns : io_ready(c)
  PROVE  IInv'
<1> USE BatchAssumption, KernelAssumption, NamesAssumption
<1>1. /\ UNCHANGED <<connVars, timer, oneshot, flushVars>>
      /\ io_trigger' \in [Conns -> BOOLEAN]
      /\ queue' \in 0..(SocketBuffer + MAX_BATCH)
  <2>1. UNCHANGED <<connVars, timer, oneshot, flushVars>>
    BY DEF Poll, Writeable, Drain, io_ready
  <2>2. io_trigger' \in [Conns -> BOOLEAN]
    BY DEF Poll, Writeable, Drain, io_ready, IInv, TypeOK
  <2>3. queue' = queue \/ (queue > 0 /\ queue' = queue - 1)
    BY DEF Poll, Writeable, Drain, io_ready, sockVars
  <2>4. queue \in 0..(SocketBuffer + MAX_BATCH)
    BY DEF IInv, TypeOK
  <2>5. QED
    BY <2>1, <2>2, <2>3, <2>4
<1>2. /\ Waiting' = Waiting /\ running' \in Seq(Entries) /\ callbacks' \in Seq(Entries)
      /\ wev' \in {"off", "added", "active"} /\ (callbacks' # <<>> => wev' # "off")
  <2>1. running \in Seq(Entries) /\ callbacks \in Seq(Entries) /\ <<>> \in Seq(Entries)
    BY DEF IInv, TypeOK, Entries
  <2>2. CASE Writeable
    <3>1. running = <<>> /\ running' = callbacks /\ callbacks' = <<>> /\ wev' = "off"
      BY <2>2 DEF Writeable, Idle
    <3>2. <<>> \o callbacks = callbacks /\ callbacks \o <<>> = callbacks
      BY <2>1, ConcatEmptySeq
    <3>3. QED
      BY <2>1, <3>1, <3>2 DEF Waiting
  <2>3. CASE Poll
    BY <2>1, <2>3 DEF Poll, Waiting
  <2>4. CASE Drain \/ \E c \in Conns : io_ready(c)
    BY <2>1, <2>4 DEF Drain, io_ready, sockVars, Waiting, IInv, TypeOK, WakeupPending
  <2>5. QED
    BY <2>2, <2>3, <2>4
<1>3. TypeOK'
  BY <1>1, <1>2, SMTT(30) DEF IInv, TypeOK, Entries, connVars, flushVars, n_packets
<1>4. Counters' /\ NoPacketLost' /\ WakeupPending'
  BY <1>1, <1>2, ZenonT(60) DEF IInv, Counters, NoPacketLost, WakeupPending, connVars, flushVars, n_packets
<1>5. OneResend'
  BY <1>1, <1>2 DEF IInv, OneResend, connVars, flushVars, n_packets
<1>6. QED
  BY <1>3, <1>4, <1>5 DEF IInv

\* A round of receive() wakes connections and touches nothing else.
LEMMA ReceiveStep ==
  ASSUME IInv, Receive
  PROVE  IInv'
<1>1. /\ io_trigger' \in [Conns -> BOOLEAN]
      /\ UNCHANGED <<connVars, timer, oneshot, flushVars, sockVars>>
  BY DEF Receive, IInv, TypeOK
<1>2. QED
  BY <1>1 DEF IInv, TypeOK, Counters, OneResend, WakeupPending, NoPacketLost, Waiting,
              connVars, flushVars, sockVars, n_packets

\* Every step of Transmit keeps the invariant.
LEMMA TransmitStep ==
  ASSUME IInv, [Next]_vars
  PROVE  IInv'
<1>1. ASSUME NEW c \in Conns, IoTrigger(c) \/ RetransmitTimer(c)
      PROVE  IInv'
  BY <1>1, OnIoReadyStep
<1>2. ASSUME NEW c \in Conns, Flush(c)
      PROVE  IInv'
  BY <1>2, FlushStep
<1>3. ASSUME NEW p \in OneShots, send_or_queue_packet(p) \/ ResendOneShot(p)
      PROVE  IInv'
  BY <1>3, OneShotStep
<1>4. ASSUME NEW c \in Conns, Resend(c)
      PROVE  IInv'
  BY <1>4, ResendStep
<1>5. ASSUME Poll \/ Writeable \/ Drain \/ \E c \in Conns : io_ready(c)
      PROVE  IInv'
  BY <1>5, LoopStep
<1>6. CASE UNCHANGED vars
  BY <1>6 DEF IInv, TypeOK, Counters, OneResend, WakeupPending, NoPacketLost, Waiting,
              vars, connVars, flushVars, sockVars, n_packets
<1>7. QED
  BY <1>1, <1>2, <1>3, <1>4, <1>5, <1>6 DEF Next, Callback

\* A step of the endpoint is one of Transmit, or a round of receive().
LEMMA EndpointStep ==
  ASSUME [IONext]_ioVars
  PROVE  [Next]_vars \/ Receive
<1>1. CASE UNCHANGED ioVars
  BY <1>1 DEF ioVars
<1>2. CASE IONext
  <2>1. CASE \E c \in Conns : \/ Handle(io_ready(c)) \/ Handle(IoTrigger(c))
                              \/ Handle(RetransmitTimer(c)) \/ Handle(Flush(c))
    BY <2>1 DEF Handle, Next
  <2>2. CASE \E p \in OneShots : Handle(send_or_queue_packet(p))
    BY <2>2 DEF Handle, Next
  <2>3. CASE Handle(Poll) \/ Handle(Writeable) \/ Handle(Callback)
    BY <2>3 DEF Handle, Next
  <2>4. CASE StartReceive \/ Receive \/ ReceiveFails \/ Kernel
    BY <2>4 DEF StartReceive, ReceiveFails, Kernel, Next
  <2>5. QED
    BY <1>2, <2>1, <2>2, <2>3, <2>4 DEF IONext
<1>3. QED
  BY <1>1, <1>2

\* The invariant holds whenever the endpoint runs.
LEMMA InvariantHolds == IOSpec => []IInv
<1>1. IOInit => IInv
  <2> USE BatchAssumption, KernelAssumption, NamesAssumption
  <2> SUFFICES ASSUME Init PROVE IInv
    BY DEF IOInit
  <2>1. <<>> \o <<>> = <<>> /\ Len(<<>>) = 0 /\ Range(<<>>) = {} /\ IsInjective(<<>>)
    BY DEF Range, IsInjective
  <2>2. \A S : <<>> \in Seq(S)
    OBVIOUS
  <2>3. TypeOK
    BY <2>1, <2>2 DEF Init, TypeOK, n_packets
  <2>4. Counters /\ WakeupPending
    BY DEF Init, Counters, WakeupPending
  <2>5. OneResend
    BY <2>1, SMTT(30) DEF Init, OneResend, Waiting, n_packets
  <2>6. NoPacketLost
    <3>1. ASSUME NEW c \in Conns
          PROVE  wire[c] \o send_buffer[c] = <<>> /\ dropped[c] = {} /\ written[c] = 0
      BY <2>1 DEF Init
    <3>2. Increasing(<<>>) /\ 1..0 = {}
      BY <2>1 DEF Increasing
    <3>3. QED
      BY <2>1, <3>1, <3>2, ZenonT(60) DEF NoPacketLost
  <2>7. QED
    BY <2>3, <2>4, <2>5, <2>6 DEF IInv
<1>2. IInv /\ [IONext]_ioVars => IInv'
  BY EndpointStep, TransmitStep, ReceiveStep
<1>3. QED
  BY <1>1, <1>2, PTL DEF IOSpec
-----------------------------------------------------------------------------
\* Whatever is received meanwhile, a connection with unsent packets has one
\* resend callback and one without has none, for any number of connections.
THEOREM ResendExactlyOnce == IOSpec => [](TypeOK /\ OneResend)
<1>1. IInv => TypeOK /\ OneResend
  BY DEF IInv
<1>2. QED
  BY <1>1, InvariantHolds, PTL

\* A callback never waits with the writeable event not added.
THEOREM WakeupKept == IOSpec => []WakeupPending
<1>1. IInv => WakeupPending
  BY DEF IInv
<1>2. QED
  BY <1>1, InvariantHolds, PTL

\* Whatever part of each batch the kernel takes, every packet is sent once and
\* in order, is still in the buffer, or was dropped on a serious error.
THEOREM PacketsKept == IOSpec => []NoPacketLost
<1>1. IInv => NoPacketLost
  BY DEF IInv
<1>2. QED
  BY <1>1, InvariantHolds, PTL

\* No step of the endpoint writes a packet for a connection that waits for the
\* socket.
THEOREM BlockedConnsWriteNothing == IOSpec => NoWriteWhileBlocked
<1> DEFINE Act == \A c \in Conns : c \in Range(Waiting) => UNCHANGED written[c]
<1>1. ASSUME IInv, [IONext]_ioVars
      PROVE  [Act]_vars
  <2>1. ASSUME NEW c \in Conns, written'[c] # written[c], c \in Range(Waiting)
        PROVE  FALSE
    <3>1. Next
      BY <1>1, <2>1, EndpointStep DEF Receive, connVars, vars
    <3>2. PICK d \in Conns : WritePacket(d)
      BY <2>1, <3>1, ZenonT(60) DEF Next, Flush, Callback, io_ready, IoTrigger, RetransmitTimer,
        NothingToWrite, SendBatch, SendFinal, schedule_retransmit, send_or_queue_packet,
        Poll, Writeable, Resend, ResendOneShot, Drain, connVars
    <3>3. d = c
      BY <1>1, <2>1, <3>2 DEF WritePacket, IInv, TypeOK
    <3>4. c \notin Range(Waiting)
      BY <1>1, <3>2, <3>3, ZenonT(60) DEF WritePacket, IInv, OneResend
    <3>5. QED
      BY <2>1, <3>4
  <2>2. QED
    BY <2>1
<1>2. QED
  BY <1>1, InvariantHolds, PTL DEF IOSpec, NoWriteWhileBlocked
-----------------------------------------------------------------------------
\* What receive() has read, for the proof of its bound.
RxInv ==
  /\ mmsg \in BOOLEAN /\ receiving \in BOOLEAN /\ count \in Nat
  /\ inbox \in Seq(Targets \cup {Junk})
  /\ ReceiveBounded

\* One call of receive() reads whole batches and stops at the limit, for any
\* batch size and limit and with or without recvmmsg.
THEOREM ReceiveStops == IOSpec => []ReceiveBounded
<1> USE ReceiveAssumption
<1>1. IOInit => RxInv
  <2> SUFFICES ASSUME RxInit PROVE RxInv
    BY DEF IOInit
  <2>1. inbox \in Seq(Targets \cup {Junk})
    BY DEF RxInit
  <2>2. QED
    BY <2>1 DEF RxInit, RxInv, ReceiveBounded
<1>2. ASSUME RxInv, [IONext]_ioVars
      PROVE  RxInv'
  <2>1. ASSUME UNCHANGED rxVars PROVE RxInv'
    BY <1>2, <2>1 DEF rxVars, RxInv, ReceiveBounded, BatchSize
  <2>2. CASE StartReceive
    <3>1. /\ receiving' = TRUE /\ count' = 0 /\ UNCHANGED <<mmsg, inbox>>
      BY <2>2 DEF StartReceive, Readable
    <3>2. BatchSize' = BatchSize /\ BatchSize \in Nat
      BY <3>1 DEF BatchSize
    <3>3. ReceiveBounded'
      BY <3>1, <3>2 DEF ReceiveBounded
    <3>4. QED
      BY <1>2, <3>1, <3>3 DEF RxInv
  <2>3. CASE ReceiveFails
    BY <1>2, <2>3 DEF ReceiveFails, ReceiveError, RxInv, ReceiveBounded
  <2>4. CASE Arrive
    <3>1. UNCHANGED <<mmsg, receiving, count>>
      BY <2>4 DEF Arrive
    <3>2. inbox' \in Seq(Targets \cup {Junk})
      <4>1. PICK d \in Targets \cup {Junk} : inbox' = Append(inbox, d)
        BY <2>4 DEF Arrive
      <4>2. inbox \in Seq(Targets \cup {Junk})
        BY <1>2 DEF RxInv
      <4>3. Append(inbox, d) \in Seq(Targets \cup {Junk})
        BY <4>2, AppendProperties
      <4>4. QED
        BY <4>1, <4>3
    <3>3. QED
      BY <1>2, <3>1, <3>2 DEF RxInv, ReceiveBounded, BatchSize
  <2>5. CASE Receive
    <3>1. /\ receiving /\ mmsg' = mmsg
          /\ inbox' = SubSeq(inbox, nread + 1, Len(inbox))
          /\ receiving' = (nread > 0 /\ GoOn)
          /\ count' = IF receiving' THEN Counted ELSE 0
      BY <2>5 DEF Receive, ReceiveRound
    <3>2. BatchSize' = BatchSize /\ BatchSize \in Nat \ {0} /\ Len(inbox) \in Nat /\ nread \in Nat
      BY <1>2, <3>1, LenProperties DEF BatchSize, RxInv, nread
    <3>3. inbox' \in Seq(Targets \cup {Junk})
      <4>1. \A i \in 1..Len(inbox) : inbox[i] \in Targets \cup {Junk}
        BY <1>2, ElementOfSeq DEF RxInv
      <4>2. QED
        BY <1>2, <3>1, <3>2, <4>1, SubSeqProperties DEF RxInv
    <3>4. CASE receiving'
      <4>1. nread = BatchSize /\ count' = count + BatchSize /\ count' < MAX_RECEIVE_PER_LOOP
        BY <3>1, <3>4 DEF GoOn, Counted
      <4>2. PICK k \in 0..count : count = k * BatchSize
        BY <1>2, <3>1 DEF RxInv, ReceiveBounded
      <4>3. count \in Nat /\ k \in Nat
        BY <1>2, <4>2 DEF RxInv
      <4>4. (k + 1) * BatchSize = (k * BatchSize) + BatchSize /\ k + 1 \in 0..(count + BatchSize)
        BY <3>2, <4>2, <4>3
      <4>5. \E j \in 0..count' : count' = j * BatchSize
        BY <4>1, <4>2, <4>4
      <4>6. QED
        BY <1>2, <3>1, <3>2, <3>3, <3>4, <4>1, <4>3, <4>5 DEF RxInv, ReceiveBounded
    <3>5. CASE ~receiving'
      BY <1>2, <3>1, <3>3, <3>5 DEF RxInv, ReceiveBounded
    <3>6. QED
      BY <3>4, <3>5
  <2>6. QED
    BY <1>2, <2>1, <2>2, <2>3, <2>4, <2>5 DEF IONext, Handle, Kernel, ioVars
<1>3. RxInv => ReceiveBounded
  BY DEF RxInv
<1>4. QED
  BY <1>1, <1>2, <1>3, PTL DEF IOSpec
=============================================================================
