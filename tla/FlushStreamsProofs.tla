------------------------- MODULE FlushStreamsProofs -------------------------
(***************************************************************************)
(* FlushStreams implements Transmit; and the list of streams flush_streams *)
(* goes through, for any streams and whatever ngtcp2 answers.              *)
(***************************************************************************)
EXTENDS FlushPacketsProofs

\* The datagrams of a send carry the numbers of the first packets.
LEMMA SentIds ==
  ASSUME NEW sizes \in Seq(Nat \ {0}), NEW ps, NEW b, Holds(b, sizes, ps),
         NEW n \in 0..Len(sizes), NEW D, NEW d \in Seq(D)
  PROVE  IdsOf(d \o Bytes(b, sizes, n)) = IdsOf(d) \o SubSeq(IdsIn(b, sizes), 1, n)
<1> DEFINE L == Len(sizes)
           m == Len(d)
           f == Bytes(b, sizes, n)
           q == SubSeq(IdsIn(b, sizes), 1, n)
           I == {IdsIn(b, sizes)[i] : i \in 1..L}
           e == IdsOf(d)
<1>1. L \in Nat /\ n \in Nat /\ n <= L /\ m \in Nat /\ DOMAIN d = 1..m
  OBVIOUS
<1>2. IdsIn(b, sizes) \in Seq(I) /\ Len(IdsIn(b, sizes)) = L
  BY <1>1, IdsInLen, Zenon
<1>3. q \in Seq(I) /\ Len(q) = n /\ \A i \in 1..n : q[i] = IdsIn(b, sizes)[i]
  <2> HIDE DEF I, L
  <2>1. \A i \in 1..n : i \in 1..L /\ 1 + i - 1 = i
    BY <1>1
  <2>2. \A i \in 1..n : IdsIn(b, sizes)[i] \in I
    BY <1>2, <2>1
  <2>3. /\ q \in Seq(I) /\ Len(q) = IF 1 <= n THEN n - 1 + 1 ELSE 0
        /\ \A i \in 1..(n - 1 + 1) : q[i] = IdsIn(b, sizes)[1 + i - 1]
    BY <2>2
  <2> HIDE DEF q
  <2>4. QED
    BY <2>3
<1>4. f \in Seq(PacketsOf(ps)) /\ Len(f) = n
  BY SentPackets, BytesLen
<1>5. ASSUME NEW i \in 1..n PROVE f[i][1][1] = q[i]
  <2> DEFINE at == Offset(sizes, i)
             id == b[at + 1][1]
  <2>1. id \in 1..Len(ps) /\ SubSeq(b, at + 1, at + sizes[i]) = PacketOf(ps, id)
    BY WaitingPacket
  <2>2. ps[id] = sizes[i] /\ sizes[i] \in Nat \ {0}
    BY DEF Holds
  <2>3. q[i] = id
    BY DEF IdsIn
  <2>4. f[i] = PacketOf(ps, id)
    BY <2>1 DEF Bytes
  <2> HIDE DEF id, f, q
  <2>5. PacketOf(ps, id)[1] = <<id, 1>>
    <3>1. 1 \in 1..ps[id]
      BY <2>2
    <3>2. QED
      BY <3>1 DEF PacketOf
  <2>6. QED
    BY <2>3, <2>4, <2>5
<1> DEFINE A == PacketsOf(ps) \cup D
           g == d \o f
           h == e \o q
           J == I \cup {e[i] : i \in 1..m}
<1> HIDE DEF f, q, L
<1>6. d \in Seq(A) /\ f \in Seq(A)
  <2>1. D \subseteq A /\ PacketsOf(ps) \subseteq A
    OBVIOUS
  <2> HIDE DEF A
  <2>2. QED
    BY <1>4, <2>1
<1>7. /\ g \in Seq(A) /\ Len(g) = m + n
      /\ \A i \in 1..(m + n) : g[i] = IF i <= m THEN d[i] ELSE f[i - m]
  <2> HIDE DEF A
  <2>1. /\ g \in Seq(A) /\ Len(g) = Len(d) + Len(f)
        /\ \A i \in 1..(Len(d) + Len(f)) : g[i] = IF i <= Len(d) THEN d[i] ELSE f[i - Len(d)]
    BY <1>6
  <2>2. QED
    BY <1>4, <2>1
<1>8. e \in Seq(J) /\ q \in Seq(J) /\ Len(e) = m /\ \A i \in 1..m : e[i] = d[i][1][1]
  <2>1. e = [i \in 1..m |-> e[i]] /\ \A i \in 1..m : e[i] = d[i][1][1]
    BY DEF IdsOf
  <2>2. \A i \in 1..m : e[i] \in J
    OBVIOUS
  <2>3. I \subseteq J
    OBVIOUS
  <2> HIDE DEF J, e, I, m
  <2>4. e \in Seq(J) /\ Len(e) = m
    BY <1>1, <2>1, <2>2, MakeSeq, Zenon
  <2>5. q \in Seq(J)
    BY <1>3, <2>3
  <2>6. QED
    BY <2>1, <2>4, <2>5, Zenon
<1>9. /\ h \in Seq(J) /\ Len(h) = m + n
      /\ \A i \in 1..(m + n) : h[i] = IF i <= m THEN e[i] ELSE q[i - m]
  <2> HIDE DEF J, e, I
  <2>1. /\ h \in Seq(J) /\ Len(h) = Len(e) + Len(q)
        /\ \A i \in 1..(Len(e) + Len(q)) : h[i] = IF i <= Len(e) THEN e[i] ELSE q[i - Len(e)]
    BY <1>8, Concatenated, Zenon
  <2> HIDE DEF h, m
  <2>2. QED
    BY <1>3, <1>8, <2>1
<1> HIDE DEF g, h, e, m, A, J, I
<1>10. ASSUME NEW i \in 1..(m + n) PROVE g[i][1][1] = h[i]
  <2>1. CASE i <= m
    <3>1. i \in 1..m
      BY <2>1
    <3>2. QED
      BY <1>7, <1>8, <1>9, <2>1, <3>1, Zenon
  <2>2. CASE ~(i <= m)
    <3>1. i - m \in 1..n
      BY <1>1, <2>2
    <3>2. QED
      BY <1>5, <1>7, <1>9, <2>2, <3>1
  <2>3. QED
    BY <2>1, <2>2
<1>11. DOMAIN g = 1..(m + n) /\ h = [i \in 1..(m + n) |-> h[i]]
  BY <1>7, <1>9
<1>12. IdsOf(g) = h
  BY <1>10, <1>11 DEF IdsOf
<1>13. QED
  BY <1>12 DEF g, h, e, f, q

\* Moving the rest to the front drops the first packets' numbers.
LEMMA MovedIds ==
  ASSUME NEW sizes \in Seq(Nat \ {0}), NEW sent \in 0..Len(sizes),
         NEW b, Within(sizes, b)
  PROVE  IdsIn(memmove(b, sizes, sent), UnsentSizes(sizes, sent)) =
           SubSeq(IdsIn(b, sizes), sent + 1, Len(IdsIn(b, sizes)))
<1> DEFINE n == Len(sizes)
           b2 == memmove(b, sizes, sent)
           rest == UnsentSizes(sizes, sent)
           ids == IdsIn(b, sizes)
           I == {ids[i] : i \in 1..n}
           q == SubSeq(ids, sent + 1, n)
           f == IdsIn(b2, rest)
           k == n - sent
<1>1. n \in Nat /\ sent \in Nat /\ sent <= n
  OBVIOUS
<1>2. ids \in Seq(I) /\ Len(ids) = n
  BY <1>1, IdsInLen
<1>3. Len(rest) = k
  BY UnsentIs
<1>4. q \in Seq(I) /\ Len(q) = k /\ \A i \in 1..k : q[i] = ids[sent + i]
  <2> HIDE DEF ids, I, n
  <2>1. \A i \in (sent + 1)..n : ids[i] \in I
    BY <1>2
  <2>2. sent + 1 \in Int /\ n \in Int
    BY <1>1
  <2>3. /\ q \in Seq(I) /\ Len(q) = IF sent + 1 <= n THEN n - (sent + 1) + 1 ELSE 0
        /\ \A i \in 1..(n - (sent + 1) + 1) : q[i] = ids[(sent + 1) + i - 1]
    BY <2>1, <2>2
  <2>4. /\ (IF sent + 1 <= n THEN n - (sent + 1) + 1 ELSE 0) = n - sent
        /\ n - (sent + 1) + 1 = n - sent
        /\ \A i \in 1..(n - sent) : (sent + 1) + i - 1 = sent + i
    BY <1>1
  <2> HIDE DEF q
  <2>5. QED
    BY <2>3, <2>4
<1>5. ASSUME NEW i \in 1..Len(rest) PROVE f[i] = ids[sent + i]
  <2> DEFINE at == Offset(rest, i)
             from == Offset(sizes, sent + i)
             c == rest[i]
  <2>1. /\ sent + i \in 1..n /\ c = sizes[sent + i]
        /\ \A j \in 1..c : b2[at + j] = b[from + j]
    <3>1. MovedAt(b, sizes, sent, i)
      BY MovedToFront
    <3>2. QED
      BY <3>1, Zenon DEF MovedAt
  <2>2. f[i] = b2[at + 1][1]
    BY DEF IdsIn
  <2>3. ids[sent + i] = b[from + 1][1]
    BY <2>1 DEF IdsIn
  <2>4. sizes[sent + i] \in Nat \ {0}
    BY <2>1
  <2> HIDE DEF f, ids, at, from, c, b2, n
  <2>5. 1 \in 1..c
    <3>1. c \in Nat \ {0}
      BY <2>1, <2>4
    <3>2. QED
      BY <3>1
  <2>6. QED
    BY <2>1, <2>2, <2>3, <2>5
<1>6. f = [i \in 1..k |-> f[i]]
  BY <1>3, Zenon DEF IdsIn
<1>7. q = [i \in 1..k |-> q[i]]
  <2> HIDE DEF q, k, I
  <2>1. QED
    BY <1>4
<1>8. f = q
  <2> HIDE DEF f, q, k, ids, rest
  <2>1. \A i \in 1..k : f[i] = q[i]
    BY <1>3, <1>4, <1>5
  <2>2. QED
    BY <1>6, <1>7, <2>1
<1>9. QED
  BY <1>2, <1>8

\* A packet that is written adds its number.
LEMMA WrittenIds ==
  ASSUME NEW sizes \in Seq(Nat \ {0}), NEW size \in Nat \ {0}, NEW id,
         NEW b, NEW N \in Nat, DOMAIN b = 1..N, Total(sizes) + size <= N
  PROVE  IdsIn(Filled(b, Total(sizes), size, id), Append(sizes, size)) =
           Append(IdsIn(b, sizes), id)
<1> DEFINE n == Len(sizes)
           tot == Total(sizes)
           b2 == Filled(b, tot, size, id)
           more == Append(sizes, size)
           ids == IdsIn(b, sizes)
           I == {ids[i] : i \in 1..n} \cup {id}
           f == IdsIn(b2, more)
           q == Append(ids, id)
<1>1. /\ n \in Nat /\ Len(more) = n + 1
      /\ \A i \in 1..n : Offset(more, i) = Offset(sizes, i)
      /\ Offset(more, n + 1) = tot
  BY AppendSizes
<1>2. tot \in Nat
  BY SumSteps DEF Total
<1>3. DOMAIN b = 1..N /\ tot + size <= N
  OBVIOUS
<1>4. \A j \in 1..N : j <= tot => b2[j] = b[j]
  BY <1>2 DEF Filled
<1>5. b2[tot + 1] = <<id, 1>>
  <2> HIDE DEF tot
  <2>1. tot + 1 \in 1..N /\ tot + 1 \in (tot + 1)..(tot + size) /\ (tot + 1) - tot = 1
    BY <1>2, <1>3
  <2>2. b2[tot + 1] = <<id, (tot + 1) - tot>>
    BY <2>1 DEF Filled
  <2>3. QED
    BY <2>1, <2>2
<1>6. ASSUME NEW i \in 1..n PROVE f[i] = ids[i]
  <2>1. f[i] = b2[Offset(sizes, i) + 1][1]
    BY <1>1 DEF IdsIn
  <2>2. ids[i] = b[Offset(sizes, i) + 1][1]
    BY DEF IdsIn
  <2>3. /\ Offset(sizes, i) \in Nat /\ sizes[i] \in Nat /\ sizes[i] > 0
        /\ Offset(sizes, i) + sizes[i] <= tot
    BY PacketBytesIs
  <2> DEFINE at == Offset(sizes, i)
  <2> HIDE DEF tot, f, ids, b2, at
  <2>4. at + 1 \in 1..N /\ at + 1 <= tot
    BY <1>2, <1>3, <2>3 DEF at
  <2>5. b2[at + 1] = b[at + 1]
    BY <1>4, <2>4
  <2>6. QED
    BY <2>1, <2>2, <2>5 DEF at
<1>7. f[n + 1] = id
  <2>1. f[n + 1] = b2[tot + 1][1]
    BY <1>1 DEF IdsIn
  <2> HIDE DEF f, b2, tot
  <2>2. QED
    BY <1>5, <2>1
<1>8. ids \in Seq(I) /\ Len(ids) = n
  <2> DEFINE S == {ids[i] : i \in 1..n}
  <2>1. ids \in Seq(S) /\ Len(ids) = n
    BY <1>1, IdsInLen
  <2>2. S \subseteq I
    OBVIOUS
  <2> HIDE DEF S, I, ids
  <2>3. QED
    BY <2>1, <2>2
<1>9. id \in I
  OBVIOUS
<1> HIDE DEF ids, I
<1>10. /\ q \in Seq(I) /\ Len(q) = n + 1 /\ q[n + 1] = id
       /\ \A i \in 1..n : q[i] = ids[i]
  <2>1. /\ q \in Seq(I) /\ Len(q) = Len(ids) + 1 /\ q[Len(ids) + 1] = id
        /\ \A i \in 1..Len(ids) : q[i] = ids[i]
    BY <1>8, <1>9
  <2>2. QED
    BY <1>8, <2>1
<1>11. f = [i \in 1..(n + 1) |-> f[i]]
  BY <1>1, Zenon DEF IdsIn
<1> HIDE DEF f, q
<1>12. q = [i \in 1..(n + 1) |-> q[i]]
  BY <1>10
<1>13. f = q
  <2>1. \A i \in 1..(n + 1) : i \in 1..n \/ i = n + 1
    OBVIOUS
  <2>2. \A i \in 1..(n + 1) : f[i] = q[i]
    BY <1>6, <1>7, <1>10, <2>1
  <2>3. QED
    BY <1>11, <1>12, <2>2
<1>14. QED
  BY <1>13 DEF f, q, ids, b2, more, tot

\* The three ends of a send are those of Transmit.
LEMMA SendsAs ==
  ASSUME NEW b, BufferInv, PacketInv, queue \in Nat
  PROVE  /\ SendDone => T(b)!SendDone(Conn)
         /\ SendBlocked => T(b)!SendBlocked(Conn)
         /\ SendFailed => T(b)!SendFailed(Conn)
<1> DEFINE sizes == send_buffer_size
           n == n_packets
           N == MaxSize * MaxBatch(mode)
           P == PacketsOf(packet_sizes)
           I == {Numbers[i] : i \in 1..n}
<1>1. /\ sizes \in Seq(Sizes) /\ buf \in [1..N -> Nat \X Nat] /\ Len(sizes) <= MaxBatch(mode)
      /\ MaxBatch(mode) \in Nat
  BY BatchIs DEF BufferInv, n_packets
<1>2. sizes \in Seq(Nat \ {0}) /\ n \in Nat /\ N \in Nat /\ Total(sizes) <= N
  BY <1>1, Fits DEF n_packets
<1>3. Within(sizes, buf)
  BY <1>1, <1>2 DEF Within
<1>4. Holds(buf, sizes, packet_sizes) /\ datagrams \in Seq(P)
  BY DEF PacketInv
<1>5. Numbers \in Seq(I) /\ Len(Numbers) = n
  BY IdsInLen DEF Numbers, n_packets
<1>6. T(b)!n_packets(Conn) = n
  BY <1>2, CountIs
<1>7. ASSUME NEW k \in 0..n
      PROVE  IdsOf(datagrams \o Bytes(buf, sizes, k)) = IdsOf(datagrams) \o SubSeq(Numbers, 1, k)
  <2>1. k \in 0..Len(sizes)
    BY DEF n_packets
  <2> HIDE DEF P
  <2>2. QED
    BY <1>2, <1>4, <2>1, SentIds DEF Numbers
<1>8. Waiting[Conn] = Numbers /\ Wire[Conn] = IdsOf(datagrams)
  BY FieldsAre
<1>9. IdsIn(buf', <<>>) = <<>>
  BY DEF IdsIn
<1>10. ASSUME SendDone PROVE T(b)!SendDone(Conn)
  <2>1. /\ queue < SocketBuffer /\ queue' = queue + n /\ send_buffer_size' = <<>>
        /\ datagrams' = datagrams \o Bytes(buf, sizes, n)
        /\ UNCHANGED <<dropped, callbacks, wev>>
    BY <1>2, <1>10, SendDoneIs
  <2>2. n \in 0..n /\ SubSeq(Numbers, 1, n) = Numbers
    BY <1>5
  <2>3. IdsOf(datagrams') = IdsOf(datagrams) \o Numbers
    BY <1>7, <2>1, <2>2, Zenon
  <2>4. Numbers' = <<>>
    BY <1>9, <2>1 DEF Numbers
  <2>5. Wire' = [Wire EXCEPT ![Conn] = @ \o Waiting[Conn]]
    BY <2>3, FieldsAre, Zenon
  <2>6. Waiting' = [Waiting EXCEPT ![Conn] = <<>>]
    BY <2>4, FieldsAre, Zenon
  <2>7. UNCHANGED Dropped
    BY <2>1 DEF Dropped
  <2>8. QED
    BY <1>6, <2>1, <2>5, <2>6, <2>7 DEF T!SendDone
<1>11. ASSUME SendBlocked PROVE T(b)!SendBlocked(Conn)
  <2>1. PICK sent \in Nat : SendsFirst(sent)
    BY <1>2, <1>11, SendBlockedIs
  <2>2. T(1)!when_writeable(Conn) /\ UNCHANGED dropped
    BY <1>2, <1>11, SendBlockedIs
  <2>3. /\ sent \in 0..(n - 1) /\ sent \in 0..n /\ (sent = 0 <=> queue >= SocketBuffer)
        /\ datagrams' = datagrams \o Bytes(buf, sizes, sent)
        /\ queue' = queue + sent
        /\ buf' = memmove(buf, sizes, sent) /\ send_buffer_size' = UnsentSizes(sizes, sent)
    BY <2>1 DEF SendsFirst
  <2>4. IdsOf(datagrams') = IdsOf(datagrams) \o SubSeq(Numbers, 1, sent)
    BY <1>7, <2>3
  <2>5. Numbers' = SubSeq(Numbers, sent + 1, Len(Numbers))
    <3>1. sent \in 0..Len(sizes)
      BY <2>3 DEF n_packets
    <3>2. IdsIn(memmove(buf, sizes, sent), UnsentSizes(sizes, sent)) =
            SubSeq(IdsIn(buf, sizes), sent + 1, Len(IdsIn(buf, sizes)))
      BY <1>2, <1>3, <3>1, MovedIds, Zenon
    <3>3. QED
      BY <2>3, <3>2, Zenon DEF Numbers
  <2>6. Wire' = [Wire EXCEPT ![Conn] = @ \o SubSeq(Waiting[Conn], 1, sent)]
    BY <2>4, FieldsAre, Zenon
  <2>7. Waiting' = [Waiting EXCEPT ![Conn] = T(b)!Unsent(@, sent)]
    BY <2>5, FieldsAre, Zenon DEF T!Unsent
  <2>8. UNCHANGED Dropped /\ T(b)!when_writeable(Conn)
    BY <2>2 DEF Dropped, T!when_writeable
  <2>9. QED
    BY <1>6, <2>3, <2>6, <2>7, <2>8, Zenon DEF T!SendBlocked
<1>12. ASSUME SendFailed PROVE T(b)!SendFailed(Conn)
  <2>1. /\ dropped' = dropped \cup {PacketAt(Offset(send_buffer_size, i) + 1) : i \in 1..n_packets}
        /\ send_buffer_size' = <<>> /\ UNCHANGED <<datagrams, callbacks, wev, queue>>
    BY <1>12 DEF SendFailed
  <2>2. {PacketAt(Offset(send_buffer_size, i) + 1) : i \in 1..n_packets} = T(b)!Range(Numbers)
    BY Zenon DEF Numbers, IdsIn, PacketAt, n_packets, T!Range
  <2>3. Dropped' = [Dropped EXCEPT ![Conn] = @ \cup T(b)!Range(Waiting[Conn])]
    BY <1>8, <2>1, <2>2, Zenon DEF Dropped
  <2>4. Numbers' = <<>>
    BY <1>9, <2>1 DEF Numbers
  <2>5. Waiting' = [Waiting EXCEPT ![Conn] = <<>>]
    BY <2>4, FieldsAre, Zenon
  <2>6. UNCHANGED Wire
    BY <2>1 DEF Wire
  <2>7. QED
    BY <2>1, <2>3, <2>5, <2>6 DEF T!SendFailed
<1>13. QED
  BY <1>10, <1>11, <1>12

\* Writing a packet is Transmit's step, with the batch size of the build.
LEMMA WritesAs ==
  ASSUME NEW b, b = MaxBatch(mode), BufferInv, SharedInv,
         NEW x, NEW size \in Sizes, WritePacket(x, size)
  PROVE  T(b)!WritePacket(Conn)
<1> DEFINE N == MaxSize * MaxBatch(mode)
           L == Len(packet_sizes)
<1>1. /\ pc = "write" /\ L + 1 <= MaxPackets
      /\ buf' = Filled(buf, buf_pos, size, L + 1)
      /\ send_buffer_size' = Append(send_buffer_size, size)
      /\ packet_sizes' = Append(packet_sizes, size)
      /\ stream_packets' = stream_packets + 1
      /\ pc' = IF n_packets + 1 = MaxBatch(mode) THEN "batch"
               ELSE IF stream_packets + 1 = MaxStreamPackets THEN "final" ELSE "write"
      /\ UNCHANGED <<dropped, datagrams, io_trigger, timer, cur, callbacks, running, wev, queue>>
  BY Zenon DEF WritePacket, Ask, Filled
<1>2. /\ send_buffer_size \in Seq(Sizes) /\ packet_sizes \in Seq(Sizes) /\ DOMAIN buf = 1..N
      /\ Len(send_buffer_size) < MaxBatch(mode) /\ buf_pos = Total(send_buffer_size)
      /\ MaxBatch(mode) \in Nat
  BY <1>1, BatchIs DEF BufferInv, n_packets
<1>3. /\ send_buffer_size \in Seq(Nat \ {0}) /\ n_packets \in Nat /\ N \in Nat
      /\ Total(send_buffer_size) \in Nat /\ Total(send_buffer_size) + MaxSize <= N
  BY <1>2, Fits DEF n_packets
<1>4. size \in Nat \ {0} /\ Total(send_buffer_size) + size <= N
  <2>1. size \in Nat \ {0} /\ size <= MaxSize /\ MaxSize \in Nat
    BY SizeFacts
  <2> HIDE DEF N
  <2>2. QED
    BY <1>3, <2>1
<1>5. Numbers' = Append(Numbers, L + 1)
  <2> DEFINE id == L + 1
             sizes == send_buffer_size
             new == Filled(buf, Total(sizes), size, id)
  <2>1. IdsIn(new, Append(sizes, size)) = Append(IdsIn(buf, sizes), id)
    <3> HIDE DEF N, id
    <3>1. DOMAIN buf = 1..N /\ sizes \in Seq(Nat \ {0}) /\ N \in Nat
      BY <1>2, <1>3
    <3>2. size \in Nat \ {0} /\ Total(sizes) + size <= N
      BY <1>4
    <3>3. QED
      BY <3>1, <3>2, WrittenIds
  <2>2. QED
    BY <1>1, <1>2, <2>1, Zenon DEF Numbers
<1>6. L \in Nat /\ Len(packet_sizes') = L + 1
  BY <1>1
<1>7. Written[Conn] = L /\ Written' = [Written EXCEPT ![Conn] = @ + 1]
  <2>1. Written = [c \in {Conn} |-> L] /\ Written' = [c \in {Conn} |-> Len(packet_sizes')]
    BY Zenon DEF Written
  <2> HIDE DEF L
  <2>2. QED
    BY <1>6, <2>1
<1>8. Waiting' = [Waiting EXCEPT ![Conn] = Append(@, Written[Conn] + 1)]
  <2> HIDE DEF L
  <2>1. QED
    BY <1>5, <1>7, FieldsAre, Zenon
<1>9. UNCHANGED Wire /\ UNCHANGED Dropped
  BY <1>1 DEF Wire, Dropped
<1>10. T(b)!BatchFull(Conn) <=> n_packets + 1 = MaxBatch(mode)
  BY <1>3, CountIs DEF T!BatchFull
<1>11. cur = Conn /\ L < MaxPackets
  <2>1. MaxPackets \in Nat
    BY LimitsAssumption
  <2>2. QED
    BY <1>1, <2>1 DEF SharedInv
<1>12. QED
  BY <1>1, <1>7, <1>8, <1>9, <1>10, <1>11 DEF T!WritePacket, T!sockVars

\* Each step is one of Transmit's for the batch size of the build, or changes
\* nothing there.
LEMMA RefinedStep ==
  ASSUME NEW b, b = MaxBatch(mode), BatchInv, [Next]_vars
  PROVE  T(b)!Next \/ UNCHANGED T(b)!vars
<1>1. BufferInv /\ PacketInv /\ SharedInv /\ queue \in Nat /\ (pc # "idle" => cur = Conn)
  BY DEF BatchInv, SharedInv
<1>2. n_packets \in Nat /\ T(b)!n_packets(Conn) = n_packets
  <2>1. n_packets \in Nat
    BY DEF n_packets
  <2>2. QED
    BY <2>1, CountIs
<1>3. /\ SendDone => T(b)!SendDone(Conn)
      /\ SendBlocked => T(b)!SendBlocked(Conn)
      /\ SendFailed => T(b)!SendFailed(Conn)
  BY <1>1, SendsAs
<1>4. UNCHANGED <<buf, send_buffer_size, packet_sizes, datagrams, dropped>> => UNCHANGED T(b)!connVars
  BY Zenon DEF T!connVars, Waiting, Written, Wire, Dropped, n_packets, PacketAt
<1>5. UNCHANGED bufVars => UNCHANGED T(b)!connVars
  BY <1>4, Zenon DEF bufVars
<1>6. UNCHANGED packet_sizes => UNCHANGED Written
  BY Zenon DEF Written
<1>7. ASSUME T(b)!io_ready(Conn) \/ T(b)!IoTrigger(Conn) \/ T(b)!RetransmitTimer(Conn) \/ T(b)!Flush(Conn)
      PROVE  T(b)!Next
  BY <1>7, Zenon DEF T!Next
<1>8. ASSUME NEW s \in Streams, append_buffer(s) \/ close(s) PROVE T(b)!Next
  <2>1. T(b)!io_ready(Conn)
    BY <1>5, <1>8, Zenon DEF append_buffer, close, T!io_ready, T!Idle, T!flushVars, T!sockVars
  <2>2. QED
    BY <1>7, <2>1
<1>9. CASE OnIoReady
  <2>1. T(b)!IoTrigger(Conn) \/ T(b)!RetransmitTimer(Conn)
    BY <1>9, Zenon DEF OnIoReady, T!IoTrigger, T!RetransmitTimer, T!Idle, T!on_io_ready,
                       T!n_packets, T!connVars, T!sockVars
  <2>2. QED
    BY <1>7, <2>1
<1>10. ASSUME NEW x, WriteError(x) \/ WriteNothing(x) \/ PassOver(x) \/ WriteMore(x)
       PROVE  UNCHANGED T(b)!vars
  <2>1. UNCHANGED <<buf, send_buffer_size, packet_sizes, datagrams, dropped, io_trigger, timer,
                    pc, cur, stream_packets, callbacks, running, wev, queue>>
    BY <1>10, Zenon DEF WriteError, WriteNothing, PassOver, WriteMore, Unwritten, Ask
  <2>2. QED
    BY <1>4, <2>1, Zenon DEF T!vars, T!flushVars, T!sockVars
<1>11. ASSUME NEW x, NEW size \in Sizes, WritePacket(x, size) PROVE T(b)!Next
  <2>1. T(b)!WritePacket(Conn)
    BY <1>1, <1>11, WritesAs
  <2>2. QED
    BY <1>7, <2>1, Zenon DEF T!Flush
<1>12. CASE EndLoop
  <2>1. T(b)!NothingToWrite(Conn)
    BY <1>1, <1>5, <1>12 DEF EndLoop, T!NothingToWrite, T!sockVars
  <2>2. QED
    BY <1>7, <2>1, Zenon DEF T!Flush
<1>13. CASE SendBatch
  <2>1. pc = "batch" /\ cur = Conn /\ UNCHANGED <<packet_sizes, io_trigger, timer, cur, stream_packets, running>>
    BY <1>1, <1>13 DEF SendBatch
  <2>2. \/ /\ T(b)!SendDone(Conn)
           /\ pc' = IF stream_packets = MaxStreamPackets THEN "final" ELSE "write"
        \/ (T(b)!SendBlocked(Conn) \/ T(b)!SendFailed(Conn)) /\ pc' = "schedule"
    BY <1>3, <1>13, Zenon DEF SendBatch
  <2>3. T(b)!SendBatch(Conn)
    BY <1>6, <2>1, <2>2, Zenon DEF T!SendBatch
  <2>4. QED
    BY <1>7, <2>3, Zenon DEF T!Flush
<1>14. CASE SendFinal
  <2>1. pc = "final" /\ cur = Conn /\ UNCHANGED <<packet_sizes, io_trigger, timer, cur, stream_packets, running>>
    BY <1>1, <1>14 DEF SendFinal
  <2>2. /\ n_packets > 0 => T(b)!SendDone(Conn) \/ T(b)!SendBlocked(Conn) \/ T(b)!SendFailed(Conn)
        /\ pc' = "schedule"
    BY <1>3, <1>14, Zenon DEF SendFinal
  <2>3. ~(n_packets > 0) => UNCHANGED <<Waiting, Wire, Dropped, callbacks, wev, queue>>
    <3>1. ~(n_packets > 0) => UNCHANGED <<buf, send_buffer_size, datagrams, dropped, callbacks, wev, queue>>
      BY <1>14, Zenon DEF SendFinal
    <3>2. QED
      BY <1>4, <2>1, <3>1, Zenon DEF T!connVars
  <2>4. T(b)!SendFinal(Conn)
    BY <1>2, <1>6, <2>1, <2>2, <2>3, Zenon DEF T!SendFinal
  <2>5. QED
    BY <1>7, <2>4, Zenon DEF T!Flush
<1>15. CASE schedule_retransmit
  <2>1. T(b)!schedule_retransmit(Conn)
    BY <1>15, Zenon DEF schedule_retransmit, T!schedule_retransmit, T!connVars, T!sockVars
  <2>2. QED
    BY <1>7, <2>1, Zenon DEF T!Flush
<1>16. CASE Resend
  <2>1. pc = "idle" /\ running # <<>> /\ running' = Tail(running) /\ UNCHANGED <<packet_sizes, io_trigger, timer>>
    BY <1>16 DEF Resend
  <2>2. Head(running) = Conn
    <3>1. running \in Seq({Conn})
      BY <1>1 DEF SharedInv
    <3>2. Head(running) \in {Conn}
      BY <2>1, <3>1
    <3>3. QED
      BY <3>2
  <2>3. \/ T(b)!SendDone(Conn) /\ cur' = Conn /\ stream_packets' = 0 /\ pc' = "write"
        \/ (T(b)!SendBlocked(Conn) \/ T(b)!SendFailed(Conn)) /\ UNCHANGED <<pc, cur, stream_packets>>
    BY <1>3, <1>16, Zenon DEF Resend
  <2>4. T(b)!Resend(Conn)
    BY <1>6, <2>1, <2>2, <2>3, Zenon DEF T!Resend, T!flushVars
  <2>5. QED
    BY <2>4, Zenon DEF T!Next, T!Callback
<1>17. CASE Environment
  <2>1. T(b)!io_ready(Conn) \/ T(b)!Poll \/ T(b)!Writeable \/ T(b)!Drain
    BY <1>17, Zenon DEF Environment, T!io_ready, T!Poll, T!Writeable, T!Drain, T!Idle,
                        T!connVars, T!flushVars, T!sockVars
  <2>2. QED
    BY <2>1, Zenon DEF T!Next
<1>18. CASE UNCHANGED vars
  BY <1>5, <1>18, Zenon DEF vars, sharedVars, T!vars, T!flushVars, T!sockVars
<1>19. CASE Loop
  BY <1>10, <1>11, <1>12, <1>13, <1>14, <1>15, <1>19, Zenon DEF Loop
<1>20. QED
  BY <1>8, <1>9, <1>16, <1>17, <1>18, <1>19, Zenon DEF Next

\* The initial state is Transmit's.
LEMMA RefinedInit == Init => T(1)!Init
<1> SUFFICES ASSUME Init PROVE T(1)!Init
  OBVIOUS
<1>1. send_buffer_size = <<>> /\ packet_sizes = <<>> /\ datagrams = <<>> /\ dropped = {}
  BY DEF Init
<1>2. Waiting = [c \in {Conn} |-> <<>>]
  BY <1>1 DEF Waiting, n_packets
<1>3. Written = [c \in {Conn} |-> 0]
  BY <1>1 DEF Written
<1>4. Wire = [c \in {Conn} |-> <<>>]
  BY <1>1 DEF Wire
<1>5. Dropped = [c \in {Conn} |-> {}]
  BY <1>1 DEF Dropped
<1>6. QED
  BY <1>2, <1>3, <1>4, <1>5 DEF Init, T!Init

\* flush_streams, send_packets and UDPSocket::send implement Transmit in every
\* build: however packets are written into the buffer, grouped into messages,
\* counted and moved, the connection behaves as one whose packets are numbers
\* in a sequence, for any streams, sizes, batch and kernel buffer.
THEOREM FlushImplementsTransmit == Spec => ImplementsTransmit
<1>1. Init => T(1)!Init
  BY RefinedInit
<1>2. BatchInv /\ [Next]_vars =>
        [IF mode = "sendmsg" THEN T(1)!Next ELSE T(DATAGRAM_BATCH_SIZE)!Next]_(T(1)!vars)
  <2> SUFFICES ASSUME BatchInv, [Next]_vars
               PROVE  (IF mode = "sendmsg" THEN T(1)!Next ELSE T(DATAGRAM_BATCH_SIZE)!Next)
                        \/ UNCHANGED T(1)!vars
    OBVIOUS
  <2>1. CASE mode = "sendmsg"
    <3>1. 1 = MaxBatch(mode)
      BY <2>1 DEF MaxBatch
    <3>2. T(1)!Next \/ UNCHANGED T(1)!vars
      BY <3>1, RefinedStep
    <3>3. QED
      BY <2>1, <3>2
  <2>2. CASE mode # "sendmsg"
    <3>1. DATAGRAM_BATCH_SIZE = MaxBatch(mode)
      BY <2>2 DEF MaxBatch
    <3>2. T(DATAGRAM_BATCH_SIZE)!Next \/ UNCHANGED T(DATAGRAM_BATCH_SIZE)!vars
      BY <3>1, RefinedStep
    <3>3. UNCHANGED T(DATAGRAM_BATCH_SIZE)!vars => UNCHANGED T(1)!vars
      BY Zenon DEF T!vars, T!connVars, T!flushVars, T!sockVars
    <3>4. QED
      BY <2>2, <3>2, <3>3
  <2>3. QED
    BY <2>1, <2>2
<1>3. QED
  BY <1>1, <1>2, AlwaysBatchInv, PTL DEF Spec, ImplementsTransmit
-----------------------------------------------------------------------------
Ends == {EndOfStreams, EndAgain}

\* Types of the fields flush_streams and its list use.
ListTypes ==
  /\ unsent \in [Streams -> Nat]
  /\ is_closing \in [Streams -> BOOLEAN] /\ sent_fin \in [Streams -> BOOLEAN]
  /\ offers \in [Streams -> Nat]
  /\ strs \in Seq(Streams \cup Ends)
  /\ pc \in Steps

\* A list that still holds its last element, the pseudo-stream, behind distinct
\* streams; each has been asked as often as those behind it or once less.
Turns(list, off) ==
  /\ list[Len(list)] \in Ends
  /\ \A i \in 1..(Len(list) - 1) : list[i] \in Streams /\ list[Len(list)] = EndOfStreams
  /\ \A i, j \in 1..(Len(list) - 1) : i < j =>
       /\ list[i] # list[j]
       /\ off[list[i]] <= off[list[j]] /\ off[list[j]] <= off[list[i]] + 1

Listed(list, s) == \E i \in 1..Len(list) : list[i] = s

\* The list is empty only when the pseudo-stream was done.
InTurn == IF strs = <<>> THEN done /\ ~half_built ELSE Turns(strs, offers)

\* A stream that has data and still may send it is in the list, unless ngtcp2
\* was congested or refused it.
NoneForgotten ==
  \A s \in Streams : unsent[s] > 0 /\ ~sent_fin[s] => congested \/ s \in refused \/ Listed(strs, s)

\* The loop of flush_streams, also while it sends a batch.
ListInv == pc \in {"write", "batch"} => InTurn /\ NoneForgotten

All == Streams \cup Ends

\* The pseudo-stream is none of the streams.
LEMMA EndsAreNoStreams == Streams \cap Ends = {} /\ EndOfStreams \in Ends /\ EndAgain \in Ends
BY StreamsAssumption DEF Ends, EndOfStreams, EndAgain

\* How often each stream was asked once x has been asked.
Asked(off, x) == [s \in Streams |-> IF s = x THEN off[s] + 1 ELSE off[s]]

\* Taking the head off the list: a stream leaves the pseudo-stream behind it,
\* and the pseudo-stream leaves nothing.
LEMMA TailTurns ==
  ASSUME NEW list \in Seq(All), list # <<>>, NEW off \in [Streams -> Nat], Turns(list, off)
  PROVE  LET x == Head(list)
             rest == Tail(list)
         IN  /\ x \in All /\ rest \in Seq(All)
             /\ x \in Streams =>
                  /\ rest # <<>> /\ rest[Len(rest)] = EndOfStreams
                  /\ Turns(rest, Asked(off, x))
                  /\ \A s \in Streams : Listed(list, s) /\ s # x => Listed(rest, s)
             /\ x \notin Streams =>
                  rest = <<>> /\ \A s \in Streams : ~Listed(list, s)
<1> DEFINE x == Head(list)
           rest == Tail(list)
           n == Len(rest)
           off2 == Asked(off, x)
<1>1. /\ x \in All /\ rest \in Seq(All) /\ n = Len(list) - 1
      /\ \A i \in 1..n : rest[i] = list[i + 1]
  OBVIOUS
<1>2. Len(list) \in Nat /\ Len(list) # 0 /\ x = list[1]
  OBVIOUS
<1>3. n \in Nat /\ Len(list) = n + 1
  OBVIOUS
<1> HIDE DEF x, rest, n
<1>4. /\ list[n + 1] \in Ends
      /\ \A i \in 1..n : list[i] \in Streams /\ list[n + 1] = EndOfStreams
      /\ \A i, j \in 1..n : i < j =>
           /\ list[i] # list[j]
           /\ off[list[i]] <= off[list[j]] /\ off[list[j]] <= off[list[i]] + 1
  BY <1>3 DEF Turns
<1>5. CASE x \in Streams
  <2>1. n # 0 /\ n \in 1..n /\ 1 \in 1..n /\ n + 1 \in 1..Len(list)
    <3>1. CASE n = 0
      BY <1>2, <1>4, <1>5, <3>1, EndsAreNoStreams
    <3>2. QED
      BY <1>3, <3>1
  <2>2. rest[n] = EndOfStreams
    BY <1>1, <1>4, <2>1
  <2>3. rest # <<>>
    BY <2>1 DEF n
  <2>4. \A i \in 1..(n - 1) : /\ i \in 1..n /\ i + 1 \in 1..n /\ 1 < i + 1
                              /\ rest[i] = list[i + 1] /\ rest[i] \in Streams /\ rest[i] # x
                              /\ off2[rest[i]] = off[rest[i]]
    <3> SUFFICES ASSUME NEW i \in 1..(n - 1)
                 PROVE  /\ i \in 1..n /\ i + 1 \in 1..n /\ 1 < i + 1
                        /\ rest[i] = list[i + 1] /\ rest[i] \in Streams /\ rest[i] # x
                        /\ off2[rest[i]] = off[rest[i]]
      OBVIOUS
    <3>1. i \in 1..n /\ i + 1 \in 1..n /\ 1 < i + 1
      BY <1>3
    <3>2. rest[i] = list[i + 1] /\ rest[i] \in Streams /\ rest[i] # x
      BY <1>1, <1>2, <1>4, <2>1
    <3>3. QED
      BY <3>1, <3>2 DEF Asked
  <2>5. ASSUME NEW i \in 1..(n - 1), NEW j \in 1..(n - 1), i < j
        PROVE  /\ rest[i] # rest[j]
               /\ off2[rest[i]] <= off2[rest[j]] /\ off2[rest[j]] <= off2[rest[i]] + 1
    <3>1. i + 1 < j + 1 /\ i + 1 \in 1..n /\ j + 1 \in 1..n
      BY <2>4, <2>5
    <3>2. /\ list[i + 1] # list[j + 1]
          /\ off[list[i + 1]] <= off[list[j + 1]] /\ off[list[j + 1]] <= off[list[i + 1]] + 1
      BY <1>4, <3>1, Zenon
    <3>3. /\ rest[i] = list[i + 1] /\ off2[rest[i]] = off[list[i + 1]]
          /\ rest[j] = list[j + 1] /\ off2[rest[j]] = off[list[j + 1]]
      BY <2>4, Zenon
    <3>4. QED
      BY <3>2, <3>3, Zenon
  <2>6. Turns(rest, off2)
    <3> HIDE DEF off2
    <3>1. QED
      BY <2>2, <2>4, <2>5, EndsAreNoStreams DEF Turns, n
  <2>7. ASSUME NEW s \in Streams, Listed(list, s), s # x PROVE Listed(rest, s)
    <3>1. PICK i \in 1..Len(list) : list[i] = s
      BY <2>7 DEF Listed
    <3>2. i # 1
      BY <1>2, <2>7, <3>1
    <3>3. i - 1 \in 1..n /\ (i - 1) + 1 = i
      BY <1>3, <3>2
    <3>4. rest[i - 1] = s
      BY <1>1, <3>1, <3>3
    <3>5. QED
      BY <3>3, <3>4 DEF Listed, n
  <2>8. QED
    BY <1>5, <2>2, <2>3, <2>6, <2>7 DEF n, x, rest
<1>6. CASE x \notin Streams
  <2>1. n = 0
    BY <1>2, <1>3, <1>4, <1>6
  <2>2. rest = <<>>
    BY <2>1 DEF n
  <2>3. \A s \in Streams : ~Listed(list, s)
    BY <1>2, <1>3, <1>6, <2>1 DEF Listed
  <2>4. QED
    BY <1>6, <2>2, <2>3 DEF x, rest
<1>7. QED
  BY <1>5, <1>6

\* streams_end_it points at the last element.
LEMMA EndIsLast ==
  ASSUME NEW list \in Seq(All), list # <<>>, NEW off, Turns(list, off),
         list[Len(list)] = EndOfStreams
  PROVE  /\ streams_end_it(list) = Len(list) /\ Len(list) \in Nat /\ Len(list) # 0
         /\ \A i \in 1..(Len(list) - 1) : list[i] \in Streams
<1>1. \A i \in 1..(Len(list) - 1) : list[i] \in Streams
  BY DEF Turns
<1>2. streams_end_it(list) = Len(list)
  BY DEF streams_end_it
<1>3. QED
  BY <1>1, <1>2

\* The sequence of one element of a list.
LEMMA OneElement ==
  ASSUME NEW S, NEW list \in Seq(S), NEW n \in 1..Len(list)
  PROVE  SubSeq(list, n, n) = <<list[n]>>
<1> DEFINE sub == SubSeq(list, n, n)
<1>1. /\ sub \in Seq(S) /\ Len(sub) = IF n <= n THEN n - n + 1 ELSE 0
      /\ \A i \in 1..(n - n + 1) : sub[i] = list[n + i - 1]
  OBVIOUS
<1> HIDE DEF sub
<1>2. sub = <<list[n]>>
  BY <1>1
<1>3. QED
  BY <1>2 DEF sub

\* Congestion leaves only the pseudo-stream in the list.
LEMMA EraseTurns ==
  ASSUME NEW list \in Seq(All), list # <<>>, NEW off, Turns(list, off),
         list[Len(list)] = EndOfStreams, NEW off2
  PROVE  erase(list) = <<EndOfStreams>> /\ Turns(<<EndOfStreams>>, off2)
<1> DEFINE n == Len(list)
<1>1. streams_end_it(list) = n /\ n \in Nat /\ n # 0
  BY EndIsLast
<1>2. SubSeq(list, n, n) = <<EndOfStreams>>
  BY OneElement
<1>3. Turns(<<EndOfStreams>>, off2)
  BY DEF Turns
<1>4. QED
  BY <1>1, <1>2, <1>3 DEF erase

\* insert puts x in front of the pseudo-stream.
LEMMA InsertIs ==
  ASSUME NEW list \in Seq(All), list # <<>>, NEW off, Turns(list, off),
         list[Len(list)] = EndOfStreams, NEW x \in All
  PROVE  LET n == Len(list)
             new == insert(list, x)
         IN  /\ new \in Seq(All) /\ Len(new) = n + 1
             /\ \A i \in 1..(n - 1) : new[i] = list[i]
             /\ new[n] = x /\ new[n + 1] = EndOfStreams
<1> DEFINE n == Len(list)
           A == SubSeq(list, 1, n - 1)
           B == A \o <<x>>
           new == B \o <<EndOfStreams>>
<1>1. streams_end_it(list) = n /\ n \in Nat /\ n # 0
  BY EndIsLast
<1>2. insert(list, x) = new
  BY <1>1 DEF insert, erase
<1>3. /\ A \in Seq(All) /\ Len(A) = n - 1
      /\ \A i \in 1..(n - 1) : A[i] = list[i]
  <2>1. 1 \in Int /\ n - 1 \in Int /\ ((n - 1) - 1) + 1 = n - 1 /\ (~(1 <= n - 1) => n - 1 = 0)
    BY <1>1
  <2>2. QED
    BY <2>1
<1> HIDE DEF A, n
<1>4. /\ B \in Seq(All) /\ Len(B) = n /\ B[n] = x
      /\ \A i \in 1..(n - 1) : B[i] = list[i]
  <2>1. Append(A, x) = B
    OBVIOUS
  <2>2. (n - 1) + 1 = n
    BY <1>1
  <2>3. /\ Append(A, x) \in Seq(All) /\ Len(Append(A, x)) = Len(A) + 1
        /\ \A i \in 1..Len(A) : Append(A, x)[i] = A[i]
        /\ Append(A, x)[Len(A) + 1] = x
    BY <1>3
  <2>4. QED
    BY <1>3, <2>1, <2>2, <2>3, Zenon
<1> HIDE DEF B
<1>5. /\ new \in Seq(All) /\ Len(new) = n + 1 /\ new[n + 1] = EndOfStreams
      /\ \A i \in 1..n : new[i] = B[i]
  BY <1>4
<1> HIDE DEF new
<1>6. QED
  BY <1>2, <1>4, <1>5 DEF n

\* A stream that was asked and goes back in front of the pseudo-stream has been
\* asked at least as often as any other, and at most once more.
LEMMA InsertTurns ==
  ASSUME NEW list \in Seq(All), list # <<>>, NEW off \in [Streams -> Nat], Turns(list, off),
         Head(list) \in Streams
  PROVE  LET x == Head(list)
             new == insert(Tail(list), x)
         IN  /\ new \in Seq(All) /\ new # <<>>
             /\ Turns(new, Asked(off, x))
             /\ \A s \in Streams : Listed(list, s) => Listed(new, s)
<1> DEFINE x == Head(list)
           rest == Tail(list)
           off2 == Asked(off, x)
           m == Len(rest)
           new == insert(rest, x)
<1>1. /\ x \in All /\ x \in Streams /\ rest \in Seq(All) /\ rest # <<>> /\ rest[m] = EndOfStreams
      /\ Turns(rest, off2)
      /\ \A s \in Streams : Listed(list, s) /\ s # x => Listed(rest, s)
  BY TailTurns
<1>2. /\ x = list[1] /\ m = Len(list) - 1 /\ Len(list) \in Nat
      /\ \A i \in 1..m : rest[i] = list[i + 1]
  OBVIOUS
<1> HIDE DEF x, rest, m, off2
<1>3. m \in Nat /\ m # 0 /\ \A i \in 1..(m - 1) : rest[i] \in Streams
  BY <1>1, EndIsLast DEF m
<1>4. /\ new \in Seq(All) /\ Len(new) = m + 1
      /\ \A i \in 1..(m - 1) : new[i] = rest[i]
      /\ new[m] = x /\ new[m + 1] = EndOfStreams
  BY <1>1, InsertIs DEF m
<1> HIDE DEF new
<1>5. off2[x] = off[x] + 1 /\ off[x] \in Nat
  BY <1>1 DEF off2, Asked
<1>6. ASSUME NEW i \in 1..(m - 1)
      PROVE  /\ new[i] = rest[i] /\ rest[i] \in Streams /\ rest[i] # x
             /\ off2[rest[i]] \in Nat /\ off2[rest[i]] <= off[x] + 1 /\ off[x] <= off2[rest[i]]
  <2>1. /\ i \in 1..m /\ i + 1 \in 1..m /\ 1 \in 1..m /\ 1 < i + 1 /\ m = Len(list) - 1
    BY <1>2
  <2>2. rest[i] = list[i + 1]
    BY <1>2
  <2>3. /\ list[1] # list[i + 1]
        /\ off[list[1]] <= off[list[i + 1]] /\ off[list[i + 1]] <= off[list[1]] + 1
    BY <2>1, Zenon DEF Turns
  <2>4. off2[rest[i]] = off[rest[i]] /\ off[rest[i]] \in Nat
    BY <1>2, <1>3, <2>2, <2>3 DEF off2, Asked
  <2>5. QED
    BY <1>2, <1>3, <1>4, <2>2, <2>3, <2>4, Zenon
<1>7. \A i \in 1..m : new[i] \in Streams
  <2>1. \A i \in 1..m : i = m \/ i \in 1..(m - 1)
    BY <1>3
  <2>2. QED
    BY <1>1, <1>4, <1>6, <2>1
<1>8. ASSUME NEW i \in 1..m, NEW j \in 1..m, i < j
      PROVE  /\ new[i] # new[j]
             /\ off2[new[i]] <= off2[new[j]] /\ off2[new[j]] <= off2[new[i]] + 1
  <2>1. i \in 1..(m - 1) /\ (j = m \/ j \in 1..(m - 1))
    BY <1>3, <1>8
  <2>2. CASE j = m
    <3>1. new[j] = x
      BY <1>4, <2>2
    <3>2. off2[rest[i]] <= off2[x] /\ off2[x] <= off2[rest[i]] + 1
      <4> DEFINE p == off2[rest[i]]
                 q == off2[x]
                 r == off[x]
      <4>1. p \in Nat /\ r \in Nat /\ q = r + 1 /\ p <= r + 1 /\ r <= p
        BY <1>5, <1>6, <2>1
      <4> HIDE DEF p, q, r
      <4>2. p <= q /\ q <= p + 1
        BY <4>1
      <4>3. QED
        BY <4>2 DEF p, q
    <3>3. QED
      BY <1>6, <2>1, <3>1, <3>2
  <2>3. CASE j \in 1..(m - 1)
    <3>1. new[i] = rest[i] /\ new[j] = rest[j]
      BY <1>4, <2>1, <2>3
    <3>2. /\ rest[i] # rest[j]
          /\ off2[rest[i]] <= off2[rest[j]] /\ off2[rest[j]] <= off2[rest[i]] + 1
      BY <1>1, <1>8, <2>1, <2>3, Zenon DEF Turns, m
    <3>3. QED
      BY <3>1, <3>2
  <2>4. QED
    BY <2>1, <2>2, <2>3
<1>9. Len(new) - 1 = m /\ Len(new) = m + 1 /\ new # <<>>
  BY <1>3, <1>4
<1>10. Turns(new, off2)
  BY <1>4, <1>7, <1>8, <1>9, EndsAreNoStreams DEF Turns
<1>11. ASSUME NEW s \in Streams, Listed(list, s) PROVE Listed(new, s)
  <2>1. CASE s = x
    <3>1. m \in 1..Len(new)
      BY <1>3, <1>4
    <3>2. QED
      BY <1>4, <2>1, <3>1 DEF Listed
  <2>2. CASE s # x
    <3>1. PICK i \in 1..m : rest[i] = s
      BY <1>1, <1>11, <2>2 DEF Listed, m
    <3>2. i # m
      BY <1>1, <3>1, EndsAreNoStreams
    <3>3. i \in 1..(m - 1) /\ i \in 1..Len(new)
      BY <1>3, <1>4, <3>2
    <3>4. QED
      BY <1>4, <3>1, <3>3 DEF Listed
  <2>3. QED
    BY <2>1, <2>2
<1>12. QED
  BY <1>4, <1>9, <1>10, <1>11 DEF x, rest, off2, new

\* A sequence of the elements of S, each once.
Enumerates(list, S) ==
  /\ list \in Seq(S)
  /\ \A i, j \in 1..Len(list) : i < j => list[i] # list[j]
  /\ \A s \in S : \E i \in 1..Len(list) : list[i] = s

\* Two disjoint sets of streams one behind the other, none asked yet, and the
\* pseudo-stream.
LEMMA JoinedTurns ==
  ASSUME NEW hi \in SUBSET Streams, NEW lo \in SUBSET Streams, hi \cap lo = {},
         NEW A, Enumerates(A, hi), NEW B, Enumerates(B, lo)
  PROVE  LET list == A \o B \o <<EndOfStreams>>
         IN  /\ list \in Seq(All) /\ list # <<>>
             /\ Turns(list, [s \in Streams |-> 0])
             /\ \A s \in hi \cup lo : Listed(list, s)
<1> DEFINE list == A \o B \o <<EndOfStreams>>
           a == Len(A)
           b == Len(B)
<1>1. /\ A \in Seq(hi) /\ \A i, j \in 1..a : i < j => A[i] # A[j]
      /\ \A s \in hi : \E i \in 1..a : A[i] = s
  BY Zenon DEF Enumerates
<1>2. /\ B \in Seq(lo) /\ \A i, j \in 1..b : i < j => B[i] # B[j]
      /\ \A s \in lo : \E i \in 1..b : B[i] = s
  BY Zenon DEF Enumerates
<1>3. /\ a \in Nat /\ \A i \in 1..a : A[i] \in hi
      /\ b \in Nat /\ \A i \in 1..b : B[i] \in lo
  BY <1>1, <1>2, SeqOver, Zenon
<1>4. A \in Seq(All) /\ B \in Seq(All) /\ <<EndOfStreams>> \in Seq(All)
  <2>1. hi \subseteq All /\ lo \subseteq All /\ EndOfStreams \in All
    BY EndsAreNoStreams DEF All
  <2>2. QED
    BY <1>1, <1>2, <2>1
<1>5. /\ A \o B \in Seq(All) /\ Len(A \o B) = a + b
      /\ \A i \in 1..(a + b) : (A \o B)[i] = IF i <= a THEN A[i] ELSE B[i - a]
  BY <1>4
<1>6. /\ list \in Seq(All) /\ Len(list) = (a + b) + 1
      /\ \A i \in 1..((a + b) + 1) : list[i] = IF i <= a + b THEN (A \o B)[i] ELSE <<EndOfStreams>>[i - (a + b)]
  BY <1>4
<1> HIDE DEF list, a, b
<1>7. /\ \A i \in 1..a : list[i] = A[i]
      /\ \A i \in 1..b : list[a + i] = B[i]
      /\ list[(a + b) + 1] = EndOfStreams
  <2>1. \A i \in 1..a : i \in 1..(a + b) /\ i \in 1..((a + b) + 1) /\ i <= a /\ i <= a + b
    BY <1>3
  <2>2. \A i \in 1..b : /\ a + i \in 1..(a + b) /\ a + i \in 1..((a + b) + 1)
                        /\ a + i <= a + b /\ ~(a + i <= a) /\ (a + i) - a = i
    BY <1>3
  <2>3. /\ (a + b) + 1 \in 1..((a + b) + 1) /\ ~((a + b) + 1 <= a + b)
        /\ ((a + b) + 1) - (a + b) = 1
    BY <1>3
  <2>4. \A i \in 1..a : list[i] = A[i]
    BY <1>5, <1>6, <2>1, Zenon
  <2>5. \A i \in 1..b : list[a + i] = B[i]
    BY <1>5, <1>6, <2>2, Zenon
  <2>6. list[(a + b) + 1] = <<EndOfStreams>>[1]
    BY <1>6, <2>3, Zenon
  <2>7. QED
    BY <2>4, <2>5, <2>6
<1>8. ASSUME NEW i \in 1..(a + b)
      PROVE  \/ i \in 1..a /\ list[i] = A[i] /\ list[i] \in hi
             \/ i - a \in 1..b /\ i = a + (i - a) /\ list[i] = B[i - a] /\ list[i] \in lo
  <2>1. i \in 1..a \/ (i - a \in 1..b /\ i = a + (i - a))
    BY <1>3
  <2>2. QED
    BY <1>3, <1>7, <2>1, Zenon
<1>9. Len(list) - 1 = a + b /\ Len(list) = (a + b) + 1 /\ Len(list) # 0
  BY <1>3, <1>6
<1>10. ASSUME NEW i \in 1..(a + b), NEW j \in 1..(a + b), i < j PROVE list[i] # list[j]
  <2>1. CASE i \in 1..a /\ j \in 1..a
    BY <1>1, <1>7, <1>10, <2>1 DEF a
  <2>2. CASE i - a \in 1..b /\ j - a \in 1..b
    <3>1. i - a < j - a /\ a + (i - a) = i /\ a + (j - a) = j
      BY <1>3, <1>10
    <3>2. list[i] = B[i - a] /\ list[j] = B[j - a]
      BY <1>7, <2>2, <3>1, Zenon
    <3>3. B[i - a] # B[j - a]
      BY <1>2, <2>2, <3>1 DEF b
    <3>4. QED
      BY <3>2, <3>3
  <2>3. CASE list[i] \in hi /\ list[j] \in lo
    BY <2>3, Zenon
  <2>4. QED
    BY <1>8, <2>1, <2>2, <2>3
<1>11. Turns(list, [s \in Streams |-> 0])
  <2> DEFINE off == [s \in Streams |-> 0]
  <2>1. list[Len(list)] = EndOfStreams
    BY <1>7, <1>9, Zenon
  <2>2. \A i \in 1..(a + b) : list[i] \in Streams
    BY <1>8, Zenon
  <2>3. \A s \in Streams : off[s] = 0
    OBVIOUS
  <2> HIDE DEF off
  <2>4. \A i, j \in 1..(a + b) : off[list[i]] <= off[list[j]] /\ off[list[j]] <= off[list[i]] + 1
    BY <2>2, <2>3
  <2>5. Turns(list, off)
    BY <1>9, <1>10, <2>1, <2>2, <2>4, EndsAreNoStreams DEF Turns
  <2>6. QED
    BY <2>5 DEF off
<1>12. ASSUME NEW s \in hi \cup lo PROVE Listed(list, s)
  <2>1. CASE s \in hi
    <3>1. PICK i \in 1..a : A[i] = s
      BY <1>1, <2>1 DEF a
    <3>2. i \in 1..Len(list)
      BY <1>3, <1>9
    <3>3. list[i] = s
      BY <1>7, <3>1, Zenon
    <3>4. QED
      BY <3>2, <3>3 DEF Listed
  <2>2. CASE s \in lo
    <3>1. PICK i \in 1..b : B[i] = s
      BY <1>2, <2>2 DEF b
    <3>2. a + i \in 1..Len(list)
      BY <1>3, <1>9
    <3>3. list[a + i] = s
      BY <1>7, <3>1, Zenon
    <3>4. QED
      BY <3>2, <3>3 DEF Listed
  <2>3. QED
    BY <2>1, <2>2
<1>13. list # <<>>
  BY <1>9
<1>14. QED
  BY <1>6, <1>11, <1>12, <1>13 DEF list
-----------------------------------------------------------------------------
\* What the loop knows when it has taken x from the list.
LEMMA AskIs ==
  ASSUME ListTypes, ListInv, NEW x, Ask(x)
  PROVE  /\ strs \in Seq(All) /\ strs # <<>> /\ x = Head(strs) /\ x \in All
         /\ offers \in [Streams -> Nat] /\ Turns(strs, offers)
         /\ offers' = Asked(offers, x) /\ offers' \in [Streams -> Nat]
         /\ sent_fin' \in [Streams -> BOOLEAN] /\ UNCHANGED is_closing
         /\ \A s \in Streams : unsent[s] > 0 /\ ~sent_fin'[s] =>
              congested \/ s \in refused \/ Listed(strs, s)
<1>1. /\ pc = "write" /\ strs # <<>> /\ x = Head(strs)
      /\ offers' = Asked(offers, x) /\ UNCHANGED is_closing
      /\ sent_fin' = [s \in Streams |-> IF s = x THEN sent_fin[s] \/ SendsFin(s) ELSE sent_fin[s]]
  BY DEF Ask, Asked
<1>2. /\ offers \in [Streams -> Nat] /\ strs \in Seq(All)
      /\ sent_fin \in [Streams -> BOOLEAN]
  BY DEF ListTypes, All
<1>3. Turns(strs, offers) /\ NoneForgotten
  BY <1>1 DEF ListInv, InTurn
<1>4. x \in All
  BY <1>1, <1>2
<1>5. offers' \in [Streams -> Nat]
  BY <1>1, <1>2 DEF Asked
<1>6. ASSUME NEW s \in Streams, unsent[s] > 0, ~sent_fin'[s]
      PROVE  congested \/ s \in refused \/ Listed(strs, s)
  <2>1. ~sent_fin[s]
    BY <1>1, <1>6, Zenon
  <2>2. QED
    BY <1>3, <1>6, <2>1, Zenon DEF NoneForgotten
<1>7. QED
  BY <1>1, <1>2, <1>3, <1>4, <1>5, <1>6, Zenon

\* The loop goes on in turns and forgets none, whatever ngtcp2 answers for the
\* stream it has asked.
LoopGoesOn ==
  strs' \in Seq(All) /\ unsent' \in [Streams -> Nat] /\ InTurn' /\ NoneForgotten'

\* A stream leaves the list: it has nothing left, or was refused.
LEMMA LeavesList ==
  ASSUME ListTypes, ListInv, NEW x \in Streams, Ask(x), strs' = Tail(strs),
         unsent' \in [Streams -> Nat], \A s \in Streams \ {x} : unsent'[s] = unsent[s],
         refused \subseteq refused', unsent'[x] = 0 \/ x \in refused', UNCHANGED congested
  PROVE  LoopGoesOn
<1> DEFINE rest == Tail(strs)
<1>1. /\ strs \in Seq(All) /\ strs # <<>> /\ x = Head(strs) /\ Turns(strs, offers)
      /\ offers \in [Streams -> Nat] /\ offers' = Asked(offers, x)
      /\ \A s \in Streams : unsent[s] > 0 /\ ~sent_fin'[s] =>
           congested \/ s \in refused \/ Listed(strs, s)
  BY AskIs
<1>2. /\ rest \in Seq(All) /\ rest # <<>> /\ Turns(rest, Asked(offers, x))
      /\ \A s \in Streams : Listed(strs, s) /\ s # x => Listed(rest, s)
  BY <1>1, TailTurns
<1> HIDE DEF rest
<1>3. strs' = rest
  BY DEF rest
<1>4. InTurn'
  BY <1>1, <1>2, <1>3, Zenon DEF InTurn
<1>5. ASSUME NEW s \in Streams, unsent'[s] > 0, ~sent_fin'[s]
      PROVE  congested' \/ s \in refused' \/ Listed(strs', s)
  <2>1. CASE s = x
    <3>1. ~(0 > 0)
      OBVIOUS
    <3>2. QED
      BY <1>5, <2>1, <3>1, Zenon
  <2>2. CASE s # x
    <3>1. congested \/ s \in refused \/ Listed(strs, s)
      <4>1. unsent'[s] = unsent[s]
        BY <2>2
      <4>2. QED
        BY <1>1, <1>5, <4>1, Zenon
    <3>2. QED
      BY <1>2, <1>3, <2>2, <3>1, Zenon
  <2>3. QED
    BY <2>1, <2>2
<1>6. NoneForgotten'
  BY <1>5, Zenon DEF NoneForgotten
<1>7. QED
  BY <1>2, <1>3, <1>4, <1>6, Zenon DEF LoopGoesOn

\* The pseudo-stream leaves the list, which then is empty.
LEMMA EndLeavesList ==
  ASSUME ListTypes, ListInv, NEW x, Ask(x), x \notin Streams, strs' = Tail(strs),
         done' /\ ~half_built', refused \subseteq refused', UNCHANGED unsent,
         congested => congested'
  PROVE  LoopGoesOn
<1>1. /\ strs \in Seq(All) /\ strs # <<>> /\ x = Head(strs) /\ Turns(strs, offers)
      /\ offers \in [Streams -> Nat]
      /\ \A s \in Streams : unsent[s] > 0 /\ ~sent_fin'[s] =>
           congested \/ s \in refused \/ Listed(strs, s)
  BY AskIs
<1>2. strs' = <<>> /\ \A s \in Streams : ~Listed(strs, s)
  BY <1>1, TailTurns
<1>3. InTurn'
  BY <1>2, Zenon DEF InTurn
<1>4. NoneForgotten'
  BY <1>1, <1>2, Zenon DEF NoneForgotten
<1>5. strs' \in Seq(All) /\ unsent' \in [Streams -> Nat]
  BY <1>2, EmptyOver, Zenon DEF ListTypes
<1>6. QED
  BY <1>3, <1>4, <1>5 DEF LoopGoesOn

\* Each of ngtcp2's answers keeps the loop going.
LEMMA AskStep ==
  ASSUME ListTypes, ListInv, NEW x \in All,
         \/ x \in Streams /\ (PassOver(x) \/ WriteMore(x))
         \/ WriteError(x) \/ WriteNothing(x) \/ \E size \in Sizes : WritePacket(x, size)
  PROVE  LoopGoesOn
<1>1. Ask(x)
  BY Zenon DEF PassOver, WriteMore, WriteError, WriteNothing, WritePacket
<1>2. unsent \in [Streams -> Nat]
  BY DEF ListTypes
<1>3. /\ strs \in Seq(All) /\ strs # <<>> /\ x = Head(strs) /\ Turns(strs, offers)
      /\ offers \in [Streams -> Nat] /\ offers' = Asked(offers, x)
      /\ \A s \in Streams : unsent[s] > 0 /\ ~sent_fin'[s] =>
           congested \/ s \in refused \/ Listed(strs, s)
  BY <1>1, AskIs
<1>4. CASE x \in Streams /\ PassOver(x)
  <2>1. /\ strs' = Tail(strs) /\ UNCHANGED <<unsent, refused, congested>> /\ unsent[x] = 0
    BY <1>2, <1>4 DEF PassOver, Offered
  <2>2. QED
    BY <1>1, <1>2, <1>4, <2>1, LeavesList
<1>5. CASE x \in Streams /\ WriteMore(x)
  <2>1. PICK n \in 0..unsent[x] :
          /\ unsent' = [unsent EXCEPT ![x] = @ - n]
          /\ refused' = IF n < unsent[x] THEN refused \cup {x} ELSE refused
    BY <1>5, Zenon DEF WriteMore
  <2>2. strs' = Tail(strs) /\ UNCHANGED congested
    BY <1>5 DEF WriteMore
  <2>3. unsent[x] - n \in Nat /\ (~(n < unsent[x]) => unsent[x] - n = 0)
    BY <1>2, <1>5
  <2>4. /\ unsent' \in [Streams -> Nat] /\ unsent'[x] = unsent[x] - n
        /\ \A s \in Streams \ {x} : unsent'[s] = unsent[s]
    BY <1>2, <1>5, <2>1, <2>3
  <2>5. refused \subseteq refused' /\ (unsent'[x] = 0 \/ x \in refused')
    BY <2>1, <2>3, <2>4
  <2>6. QED
    BY <1>1, <1>5, <2>2, <2>4, <2>5, LeavesList, Zenon
<1>6. CASE WriteError(x)
  <2>1. /\ strs' = Tail(strs) /\ refused' = refused \cup {x} /\ done' = (x \notin Streams)
        /\ UNCHANGED <<unsent, congested, half_built>>
    BY <1>6 DEF WriteError
  <2>2. CASE x \in Streams
    BY <1>1, <1>2, <2>1, <2>2, LeavesList
  <2>3. CASE x \notin Streams
    <3>1. ~half_built
      BY <1>6, <2>3, Zenon DEF WriteError
    <3>2. done' /\ ~half_built'
      BY <2>1, <2>3, <3>1, Zenon
    <3>3. QED
      BY <1>1, <2>1, <3>2, EndLeavesList, Zenon
  <2>4. QED
    BY <2>2, <2>3
<1>7. CASE WriteNothing(x)
  <2>1. /\ strs' = IF x \in Streams THEN erase(Tail(strs)) ELSE Tail(strs)
        /\ congested' = (congested \/ x \in Streams) /\ done' = (x \notin Streams)
        /\ UNCHANGED <<unsent, refused, half_built>> /\ ~half_built
    BY <1>7 DEF WriteNothing
  <2>2. CASE x \in Streams
    <3>1. /\ Tail(strs) \in Seq(All) /\ Tail(strs) # <<>>
          /\ Tail(strs)[Len(Tail(strs))] = EndOfStreams /\ Turns(Tail(strs), offers')
      BY <1>3, <2>2, TailTurns, Zenon
    <3>2. strs' = <<EndOfStreams>> /\ Turns(<<EndOfStreams>>, offers')
      BY <2>1, <2>2, <3>1, EraseTurns, Zenon
    <3>3. <<EndOfStreams>> \in Seq(All) /\ <<EndOfStreams>> # <<>>
      BY EndsAreNoStreams DEF All
    <3>4. InTurn' /\ NoneForgotten'
      BY <2>1, <2>2, <3>2, <3>3, Zenon DEF InTurn, NoneForgotten
    <3>5. QED
      BY <1>2, <2>1, <3>2, <3>3, <3>4, Zenon DEF LoopGoesOn
  <2>3. CASE x \notin Streams
    <3>1. done' /\ ~half_built' /\ (congested => congested')
      BY <2>1, <2>3, Zenon
    <3>2. strs' = Tail(strs) /\ refused \subseteq refused' /\ UNCHANGED unsent
      BY <2>1, <2>3, Zenon
    <3>3. QED
      BY <1>1, <2>3, <3>1, <3>2, EndLeavesList, Zenon
  <2>4. QED
    BY <2>2, <2>3
<1>8. ASSUME NEW size \in Sizes, WritePacket(x, size) PROVE LoopGoesOn
  <2>1. /\ strs' = IF ~AskAgain(x) THEN Tail(strs)
                   ELSE IF x \in Streams THEN insert(Tail(strs), x)
                   ELSE Append(Tail(strs), EndAgain)
        /\ UNCHANGED <<refused, congested>>
    BY <1>8, Zenon DEF WritePacket
  <2>2. CASE x \in Streams
    <3>1. PICK n \in 0..unsent[x] : unsent' = [unsent EXCEPT ![x] = @ - n]
      BY <1>8, <2>2, Zenon DEF WritePacket
    <3>2. unsent[x] \in Nat /\ unsent[x] - n \in Nat /\ (unsent[x] - n > 0 => unsent[x] > 0)
      BY <1>2, <2>2
    <3>3. /\ unsent' \in [Streams -> Nat] /\ unsent'[x] = unsent[x] - n
          /\ \A s \in Streams \ {x} : unsent'[s] = unsent[s]
      BY <1>2, <2>2, <3>1
    <3>4. \A s \in Streams : unsent'[s] > 0 => unsent[s] > 0
      BY <3>2, <3>3
    <3>5. CASE unsent'[x] > 0
      <4>1. strs' = insert(Tail(strs), x)
        BY <2>1, <2>2, <3>5 DEF AskAgain
      <4>2. /\ strs' \in Seq(All) /\ strs' # <<>> /\ Turns(strs', offers')
            /\ \A s \in Streams : Listed(strs, s) => Listed(strs', s)
        BY <1>3, <2>2, <4>1, InsertTurns, Zenon
      <4>3. InTurn'
        BY <4>2, Zenon DEF InTurn
      <4>4. NoneForgotten'
        BY <1>3, <2>1, <3>4, <4>2, Zenon DEF NoneForgotten
      <4>5. QED
        BY <3>3, <4>2, <4>3, <4>4 DEF LoopGoesOn
    <3>6. CASE ~(unsent'[x] > 0)
      <4>1. unsent'[x] = 0
        BY <3>2, <3>3, <3>6
      <4>2. strs' = Tail(strs)
        BY <2>1, <2>2, <3>6 DEF AskAgain
      <4>3. refused \subseteq refused' /\ UNCHANGED congested
        BY <2>1
      <4>4. QED
        BY <1>1, <2>2, <3>3, <4>1, <4>2, <4>3, LeavesList, Zenon
    <3>7. QED
      BY <3>5, <3>6, Zenon
  <2>3. CASE x \notin Streams
    <3>1. UNCHANGED unsent
      BY <1>8, <2>3, Zenon DEF WritePacket
    <3>2. Tail(strs) = <<>> /\ \A s \in Streams : ~Listed(strs, s)
      BY <1>3, <2>3, TailTurns, Zenon
    <3>3. EndAgain \in Ends /\ EndAgain \in All
      BY EndsAreNoStreams DEF All
    <3>4. strs' = Append(<<>>, EndAgain)
      BY <2>1, <2>3, <3>2, Zenon DEF AskAgain
    <3>5. strs' = <<EndAgain>> /\ strs' # <<>> /\ strs' \in Seq(All) /\ Len(strs') = 1 /\ strs'[1] = EndAgain
      BY <3>3, <3>4
    <3>6. Turns(strs', offers')
      BY <3>3, <3>5 DEF Turns
    <3>7. InTurn'
      BY <3>5, <3>6, Zenon DEF InTurn
    <3>8. NoneForgotten'
      BY <1>3, <2>1, <3>1, <3>2, Zenon DEF NoneForgotten
    <3>9. QED
      BY <1>2, <3>1, <3>5, <3>7, <3>8 DEF LoopGoesOn
  <2>4. QED
    BY <2>2, <2>3
<1>9. QED
  BY <1>4, <1>5, <1>6, <1>7, <1>8

\* A call begins with a list that holds every stream that still may send.
Begins ==
  strs' \in Seq(All) /\ offers' \in [Streams -> Nat] /\ InTurn' /\ NoneForgotten'

\* The list holds what it should between any two steps, if it does when a call
\* begins (which BeginIs shows).
LEMMA ListStep ==
  ASSUME ListTypes, ListInv, n_packets \in Nat, pc' \in Steps, [Next]_vars,
         BeginFlush /\ UNCHANGED streamVars => Begins
  PROVE  ListTypes' /\ ListInv'
<1>1. /\ unsent \in [Streams -> Nat]
      /\ is_closing \in [Streams -> BOOLEAN] /\ sent_fin \in [Streams -> BOOLEAN]
      /\ offers \in [Streams -> Nat] /\ strs \in Seq(All) /\ pc \in Steps
  BY DEF ListTypes, All
<1> DEFINE Typed == /\ unsent' \in [Streams -> Nat]
                    /\ is_closing' \in [Streams -> BOOLEAN] /\ sent_fin' \in [Streams -> BOOLEAN]
                    /\ offers' \in [Streams -> Nat] /\ strs' \in Seq(All)
           Outside == pc' \notin {"write", "batch"}
<1>2. Typed => ListTypes'
  BY DEF ListTypes, All
<1>3. Outside => ListInv'
  BY DEF ListInv
<1>4. InTurn' /\ NoneForgotten' => ListInv'
  BY DEF ListInv
<1>5. ASSUME NEW s \in Streams, append_buffer(s) PROVE Typed /\ Outside
  <2>1. /\ unsent' = [unsent EXCEPT ![s] = @ + 1] /\ UNCHANGED <<is_closing, sent_fin, offers, strs>>
        /\ pc' = "idle"
    BY <1>5 DEF append_buffer, loopVars
  <2>2. QED
    BY <1>1, <2>1
<1>6. ASSUME NEW s \in Streams, close(s) PROVE Typed /\ Outside
  <2>1. /\ is_closing' = [is_closing EXCEPT ![s] = TRUE] /\ UNCHANGED <<unsent, sent_fin, offers, strs>>
        /\ pc' = "idle"
    BY <1>6 DEF close, loopVars
  <2>2. QED
    BY <1>1, <2>1
<1>7. ASSUME BeginFlush, UNCHANGED streamVars PROVE ListTypes' /\ ListInv'
  <2>1. strs' \in Seq(All) /\ offers' \in [Streams -> Nat] /\ InTurn' /\ NoneForgotten'
    BY <1>7, Zenon DEF Begins
  <2>2. Typed
    BY <1>1, <1>7, <2>1 DEF streamVars
  <2>3. QED
    BY <1>2, <1>4, <2>1, <2>2, Zenon
<1>8. CASE OnIoReady
  <2>1. CASE n_packets > 0
    <3>1. pc' = "schedule"
      BY <1>8, <2>1, OnIoReadyIs
    <3>2. Typed
      BY <1>1, <1>8, <2>1 DEF OnIoReady, streamVars, loopVars
    <3>3. QED
      BY <1>2, <1>3, <3>1, <3>2
  <2>2. CASE ~(n_packets > 0)
    BY <1>7, <1>8, <2>2 DEF OnIoReady
  <2>3. QED
    BY <2>1, <2>2
<1>9. ASSUME NEW x \in All,
             \/ x \in Streams /\ (PassOver(x) \/ WriteMore(x))
             \/ WriteError(x) \/ WriteNothing(x) \/ \E size \in Sizes : WritePacket(x, size)
      PROVE  ListTypes' /\ ListInv'
  <2>1. LoopGoesOn
    BY <1>9, AskStep
  <2>2. Ask(x)
    BY <1>9, Zenon DEF PassOver, WriteMore, WriteError, WriteNothing, WritePacket
  <2>3. offers' \in [Streams -> Nat] /\ sent_fin' \in [Streams -> BOOLEAN] /\ UNCHANGED is_closing
    BY <2>2, AskIs
  <2>4. Typed
    BY <1>1, <2>1, <2>3 DEF LoopGoesOn
  <2>5. QED
    BY <1>2, <1>4, <2>1, <2>4, Zenon DEF LoopGoesOn
<1>10. ASSUME UNCHANGED <<streamVars, loopVars>>, Outside PROVE ListTypes' /\ ListInv'
  <2>1. Typed
    BY <1>1, <1>10 DEF streamVars, loopVars
  <2>2. QED
    BY <1>2, <1>3, <1>10, <2>1
<1>11. ASSUME UNCHANGED <<streamVars, loopVars>>, pc' \in {"write", "batch"} => pc \in {"write", "batch"}
       PROVE  ListTypes' /\ ListInv'
  <2>1. Typed
    BY <1>1, <1>11 DEF streamVars, loopVars
  <2>2. UNCHANGED <<unsent, sent_fin, strs, offers, refused, congested, done, half_built>>
    BY <1>11 DEF streamVars, loopVars
  <2>3. ListInv'
    BY <1>11, <2>2, Zenon DEF ListInv, InTurn, NoneForgotten
  <2>4. QED
    BY <1>2, <2>1, <2>3
<1>12. CASE EndLoop
  BY <1>10, <1>12 DEF EndLoop
<1>13. CASE SendBatch
  <2>1. UNCHANGED <<streamVars, loopVars>> /\ pc = "batch"
    BY <1>13 DEF SendBatch
  <2>2. QED
    BY <1>11, <2>1
<1>14. CASE SendFinal
  BY <1>10, <1>14 DEF SendFinal
<1>15. CASE schedule_retransmit
  <2>1. strs' = <<>> /\ offers' = [s \in Streams |-> 0] /\ UNCHANGED streamVars
    BY <1>15 DEF schedule_retransmit
  <2>2. pc' = "idle"
    BY <1>15, ScheduleIs
  <2>3. Typed
    BY <1>1, <2>1 DEF streamVars
  <2>4. QED
    BY <1>2, <1>3, <2>2, <2>3
<1>16. CASE Resend
  <2>1. UNCHANGED streamVars /\ pc = "idle"
    BY <1>16 DEF Resend
  <2>2. CASE BeginFlush
    BY <1>7, <2>1, <2>2
  <2>3. CASE UNCHANGED <<loopVars, pc>>
    BY <1>10, <2>1, <2>3
  <2>4. QED
    BY <1>16, <2>2, <2>3 DEF Resend
<1>17. CASE Environment
  BY <1>11, <1>17, EnvironmentIs
<1>18. CASE UNCHANGED vars
  BY <1>11, <1>18 DEF vars, sharedVars
<1>19. CASE Loop
  <2>1. \A x \in Streams \cup {EndOfStreams, EndAgain} : x \in All
    BY DEF All, Ends
  <2>2. QED
    BY <1>9, <1>12, <1>13, <1>14, <1>15, <1>19, <2>1, Zenon DEF Loop
<1>20. QED
  BY <1>2, <1>3, <1>5, <1>6, <1>8, <1>16, <1>17, <1>18, <1>19 DEF Next
-----------------------------------------------------------------------------
\* The inductive invariant of the loop.
LoopInv == ListTypes /\ ListInv

\* It holds initially.
LEMMA InitLoopInv == Init => LoopInv
<1> SUFFICES ASSUME Init PROVE LoopInv
  OBVIOUS
<1>1. ListTypes
  BY DEF Init, ListTypes, Steps
<1>2. ListInv
  BY DEF Init, ListInv
<1>3. QED
  BY <1>1, <1>2 DEF LoopInv
-----------------------------------------------------------------------------
\* The list a call begins with.  The library's facts about finite sets are
\* taken in here, where they are needed.
F == INSTANCE FiniteSetTheorems

\* They speak of the same finite sets and cardinalities.
LEMMA SameFinite ==
  ASSUME NEW S
  PROVE  (F!IsFiniteSet(S) <=> IsFiniteSet(S)) /\ F!Cardinality(S) = Cardinality(S)
BY Zenon DEF F!IsFiniteSet, IsFiniteSet, F!Cardinality, Cardinality

Increasing(list) == \A i, j \in DOMAIN list : i < j => list[i] < list[j]

\* A finite set of naturals can be listed in increasing order: its least
\* element first, then a listing of the others.
LEMMA ListingExists ==
  ASSUME NEW n \in Nat
  PROVE  \A S \in SUBSET Nat : IsFiniteSet(S) /\ Cardinality(S) = n =>
           \E list \in [1..n -> S] : Increasing(list)
<1> DEFINE P(k) == \A S \in SUBSET Nat : IsFiniteSet(S) /\ Cardinality(S) = k =>
                     \E list \in [1..k -> S] : Increasing(list)
           D == {k \in 0..n : P(k)}
<1>1. 0 \in D
  <2>1. ASSUME NEW S \in SUBSET Nat PROVE \E list \in [1..0 -> S] : Increasing(list)
    <3>1. <<>> \in [1..0 -> S] /\ Increasing(<<>>)
      BY DEF Increasing
    <3>2. QED
      BY <3>1, Zenon
  <2>2. QED
    BY <2>1
<1>2. ASSUME NEW k \in 1..n, P(k - 1) PROVE P(k)
  <2> SUFFICES ASSUME NEW S \in SUBSET Nat, IsFiniteSet(S), Cardinality(S) = k
               PROVE  \E list \in [1..k -> S] : Increasing(list)
    OBVIOUS
  <2>1. S # {}
    BY F!FS_EmptySet, SameFinite
  <2>2. PICK m \in S : \A e \in S : m <= e
    BY <2>1, LeastElement
  <2>3. IsFiniteSet(S \ {m}) /\ Cardinality(S \ {m}) = k - 1 /\ S \ {m} \in SUBSET Nat
    BY F!FS_RemoveElement, SameFinite
  <2>4. PICK rest \in [1..(k - 1) -> S \ {m}] : Increasing(rest)
    BY <1>2, <2>3
  <2> DEFINE list == [i \in 1..k |-> IF i = 1 THEN m ELSE rest[i - 1]]
  <2>5. ASSUME NEW i \in 1..k, NEW j \in 1..k, i < j PROVE list[i] < list[j]
    <3>1. j # 1 /\ j - 1 \in 1..(k - 1) /\ list[j] = rest[j - 1]
      BY <2>5
    <3>2. CASE i = 1
      <4>1. list[i] = m /\ rest[j - 1] \in S \ {m}
        BY <3>1, <3>2
      <4>2. m \in Nat /\ rest[j - 1] \in Nat /\ m <= rest[j - 1] /\ m # rest[j - 1]
        BY <2>2, <4>1, Zenon
      <4>3. m < rest[j - 1]
        BY <4>2
      <4>4. QED
        BY <3>1, <4>1, <4>3
    <3>3. CASE i # 1
      <4>1. i - 1 \in 1..(k - 1) /\ list[i] = rest[i - 1] /\ i - 1 < j - 1
        BY <2>5, <3>3
      <4>2. rest[i - 1] < rest[j - 1]
        BY <2>4, <4>1 DEF Increasing
      <4>3. QED
        BY <4>1, <4>2
    <3>4. QED
      BY <3>2, <3>3
  <2>6. Increasing(list)
    BY <2>5 DEF Increasing
  <2>7. QED
    BY <2>6
<1>3. \A k \in 1..n : k - 1 \in D => k \in D
  <2> HIDE DEF P
  <2>1. QED
    BY <1>2
<1>4. n \in D
  <2> HIDE DEF D
  <2>1. \A k \in 0..n : k \in D
    BY <1>1, <1>3, UpTo, Zenon
  <2>2. QED
    BY <2>1
<1>5. QED
  BY <1>4

\* Sorted lists every element of the set once.
LEMMA SortedIs ==
  ASSUME NEW S \in SUBSET Nat, IsFiniteSet(S)
  PROVE  Enumerates(Sorted(S), S)
<1> DEFINE n == Cardinality(S)
           list == Sorted(S)
<1>1. n \in Nat
  BY F!FS_CardinalityType, SameFinite
<1>2. PICK l \in [1..n -> S] : Increasing(l)
  BY <1>1, ListingExists
<1>3. list \in [1..n -> S] /\ Increasing(list)
  BY <1>2, Zenon DEF Sorted, Increasing
<1> HIDE DEF list
<1>4. list \in [1..n -> S] /\ \A i, j \in 1..n : i # j => list[i] # list[j]
  <2> SUFFICES ASSUME NEW i \in 1..n, NEW j \in 1..n, i # j PROVE list[i] # list[j]
    BY <1>3
  <2>1. list[i] \in Nat /\ list[j] \in Nat
    BY <1>3, Zenon
  <2>2. list[i] < list[j] \/ list[j] < list[i]
    BY <1>3 DEF Increasing
  <2>3. QED
    BY <2>1, <2>2
<1>5. list \in Seq(S) /\ Len(list) = n
  BY <1>1, <1>4
<1>6. list \in F!Surjection(1..n, S)
  <2>1. IsFiniteSet(1..n) /\ Cardinality(1..n) = n
    BY <1>1, F!FS_Interval, SameFinite
  <2>2. list \in F!Injection(1..n, S)
    BY <1>4 DEF F!Injection, F!IsInjective
  <2>3. QED
    BY <2>1, <2>2, F!FS_Injection, SameFinite
<1>7. \A s \in S : \E i \in 1..n : list[i] = s
  BY <1>6 DEF F!Surjection
<1>8. \A i, j \in 1..n : i < j => list[i] # list[j]
  BY <1>4
<1>9. QED
  BY <1>5, <1>7, <1>8, Zenon DEF list, Enumerates

\* The list flush_streams begins with: every open stream, none asked yet.
LEMMA InitialTurns ==
  ASSUME NEW mid \in Nat
  PROVE  LET list == InitialList(mid)
         IN  /\ list \in Seq(All) /\ list # <<>>
             /\ Turns(list, [s \in Streams |-> 0])
             /\ \A s \in Streams : ~sent_fin[s] => Listed(list, s)
<1> DEFINE open == {s \in Streams : ~sent_fin[s]}
           hi == {s \in open : s >= mid}
           lo == {s \in open : s < mid}
           A == Sorted(hi)
           B == Sorted(lo)
           list == A \o B \o <<EndOfStreams>>
<1>1. list = InitialList(mid)
  BY DEF InitialList
<1>2. /\ hi \in SUBSET Nat /\ IsFiniteSet(hi) /\ lo \in SUBSET Nat /\ IsFiniteSet(lo)
      /\ hi \subseteq Streams /\ lo \subseteq Streams /\ hi \cap lo = {}
  <2>1. IsFiniteSet(hi) /\ IsFiniteSet(lo)
    BY StreamsAssumption, F!FS_Subset, SameFinite
  <2>2. hi \cap lo = {}
    <3>1. SUFFICES ASSUME NEW s \in hi, s \in lo PROVE FALSE
      OBVIOUS
    <3>2. s \in Nat /\ s >= mid /\ s < mid
      BY <3>1, StreamsAssumption
    <3>3. QED
      BY <3>2
  <2>3. QED
    BY <2>1, <2>2, StreamsAssumption, Zenon
<1>3. Enumerates(A, hi) /\ Enumerates(B, lo)
  BY <1>2, SortedIs, Zenon
<1>4. \A s \in Streams : ~sent_fin[s] => s \in hi \/ s \in lo
  BY StreamsAssumption
<1> HIDE DEF hi, lo, A, B
<1>5. /\ list \in Seq(All) /\ list # <<>>
      /\ Turns(list, [s \in Streams |-> 0])
      /\ \A s \in hi \cup lo : Listed(list, s)
  BY <1>2, <1>3, JoinedTurns, Zenon
<1>6. QED
  BY <1>1, <1>4, <1>5, Zenon

\* A new list has every stream that still may send.
LEMMA BeginIs ==
  ASSUME BeginFlush, UNCHANGED streamVars
  PROVE  Begins
<1>1. PICK mid \in Streams \cup {0} : strs' = InitialList(mid)
  BY DEF BeginFlush
<1>2. mid \in Nat
  BY StreamsAssumption
<1>3. /\ strs' \in Seq(All) /\ strs' # <<>>
      /\ Turns(strs', [s \in Streams |-> 0])
      /\ \A s \in Streams : ~sent_fin[s] => Listed(strs', s)
  BY <1>1, <1>2, InitialTurns, Zenon
<1>4. offers' = [s \in Streams |-> 0] /\ UNCHANGED sent_fin
  BY DEF BeginFlush, streamVars
<1>5. InTurn'
  BY <1>3, <1>4, Zenon DEF InTurn
<1>6. NoneForgotten'
  BY <1>3, <1>4, Zenon DEF NoneForgotten
<1>7. offers' \in [Streams -> Nat]
  BY <1>4
<1>8. QED
  BY <1>3, <1>5, <1>6, <1>7 DEF Begins

\* Every step keeps it.
LEMMA NextLoopInv == LoopInv /\ BatchInv /\ BatchInv' /\ [Next]_vars => LoopInv'
<1> SUFFICES ASSUME LoopInv, BatchInv, BatchInv', [Next]_vars PROVE LoopInv'
  OBVIOUS
<1>1. ListTypes /\ ListInv
  BY DEF LoopInv
<1>2. pc' \in Steps
  BY DEF BatchInv, BufferInv
<1>3. n_packets \in Nat
  BY DEF n_packets
<1>4. ListTypes' /\ ListInv'
  BY <1>1, <1>2, <1>3, BeginIs, ListStep, Zenon
<1>5. QED
  BY <1>4 DEF LoopInv

\* In every state of the loop the streams that may still send are in its list,
\* in turns, unless ngtcp2 was congested or refused them.
THEOREM AlwaysLoopInv == Spec => []LoopInv
BY InitLoopInv, NextLoopInv, AlwaysBatchInv, PTL DEF Spec

\* Streams take turns in flush_streams, for any number of streams and whatever
\* ngtcp2 answers: the pseudo-stream stays last, streams_end_it points at it
\* while a stream is in the list, and no stream overtakes one asked less often.
THEOREM StreamsTakeTurns == Spec => []TakeTurns
<1>1. LoopInv => TakeTurns
  BY DEF LoopInv, ListInv, InTurn, Turns, Ends, TakeTurns
<1>2. QED
  BY <1>1, AlwaysLoopInv, PTL

\* When the loop's list is exhausted no packet is half built and no stream that
\* may send is forgotten.
THEOREM LeavesNothingBehind == Spec => []NothingLeftBehind
<1>1. LoopInv => NothingLeftBehind
  <2> SUFFICES ASSUME LoopInv, pc = "write", strs = <<>>
               PROVE  /\ done /\ ~half_built
                      /\ \A s \in Streams : unsent[s] > 0 /\ ~sent_fin[s] => congested \/ s \in refused
    BY Zenon DEF NothingLeftBehind
  <2>1. InTurn /\ NoneForgotten
    BY DEF LoopInv, ListInv
  <2>2. done /\ ~half_built
    BY <2>1, Zenon DEF InTurn
  <2>3. \A s \in Streams : ~Listed(strs, s)
    BY DEF Listed
  <2>4. QED
    BY <2>1, <2>2, <2>3, Zenon DEF NoneForgotten
<1>2. QED
  BY <1>1, AlwaysLoopInv, PTL
=============================================================================
