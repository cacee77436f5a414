------------------------- MODULE StreamTableProofs -------------------------
(***************************************************************************)
(* The streams of a connection are safe for any number of streams, any     *)
(* limits and any window.                                                  *)
(***************************************************************************)
EXTENDS StreamTable, FiniteSetTheorems, SequenceTheorems, TLAPS

Ends(s) == notified[s] + (IF closed_by_app[s] THEN 1 ELSE 0)

\* What holds of each stream by itself.
StreamInv(s) ==
  /\ place[s] \in {"none", "refused", "pending"} => ng[s] = "none"
  /\ ng[s] = "none" => ~readable[s]
  /\ Ends(s) \in {0, 1} /\ (is_closing[s] <=> Ends(s) = 1)
  /\ place[s] = "destroyed" => is_closing[s]
  /\ ng[s] = "open" /\ readable[s] /\ conn = "alive" => place[s] \in {"streams", "asked"}
  /\ conn = "gone" => place[s] \notin {"asked", "refused"}
  /\ s \in Remotes => /\ ~held[s] /\ place[s] \notin {"asked", "refused", "pending"}
                      /\ ng[s] = "none" => place[s] = "none" /\ ~is_closing[s]

\* Until the connection is deleted, each credit is available, or taken by a
\* stream in the map or a rejected one, and the others have returned theirs.
CreditKept ==
  conn # "gone" =>
    /\ credit + Count({"streams", "rejected"}) = MaxStreams
    /\ \A s \in Remotes :
         /\ place[s] \in {"none", "streams", "rejected"} => returned[s] = 0
         /\ place[s] \in {"erased", "destroyed"} => returned[s] = 1

IInv ==
  /\ TypeOK
  /\ \A s \in Streams : StreamInv(s)
  /\ PendingMatches
  /\ CreditKept
-----------------------------------------------------------------------------
\* A stream that a step leaves alone keeps its invariant.
LEMMA StreamKept ==
  ASSUME NEW s, StreamInv(s), place'[s] = place[s], ng'[s] = ng[s],
         readable'[s] = readable[s], notified'[s] = notified[s],
         closed_by_app'[s] = closed_by_app[s], is_closing'[s] = is_closing[s],
         held'[s] = held[s], conn' = conn \/ (conn = "alive" /\ conn' = "failed")
  PROVE  StreamInv(s)'
BY DEF StreamInv, Ends

\* The queue keeps its invariant when it and the places of the streams in it do
\* not change.
LEMMA PendingKept ==
  ASSUME PendingMatches, pending_streams' = pending_streams,
         conn' # "gone" => conn # "gone",
         \A s \in Locals : place'[s] = "pending" <=> place[s] = "pending"
  PROVE  PendingMatches'
BY DEF PendingMatches

\* The credit is as it was when the peer's streams are where they were.
LEMMA CreditUnchanged ==
  ASSUME CreditKept, credit' = credit, returned' = returned, conn' # "gone" => conn # "gone",
         \A s \in Remotes : place'[s] = place[s]
  PROVE  CreditKept'
<1>1. {s \in Remotes : place'[s] \in {"streams", "rejected"}}
        = {s \in Remotes : place[s] \in {"streams", "rejected"}}
  OBVIOUS
<1>2. Count({"streams", "rejected"})' = Count({"streams", "rejected"})
  BY <1>1 DEF Count
<1>3. QED
  BY <1>2 DEF CreditKept

\* The number of remote streams in the map or rejected, when one is added.
LEMMA CreditTaken ==
  ASSUME NEW s \in Remotes, place \in [Streams -> Places],
         place[s] \notin {"streams", "rejected"},
         \A r \in Remotes : place'[r] \in {"streams", "rejected"}
                              <=> (r = s \/ place[r] \in {"streams", "rejected"})
  PROVE  /\ Count({"streams", "rejected"})' = Count({"streams", "rejected"}) + 1
         /\ Count({"streams", "rejected"}) \in Nat
<1> DEFINE R == {r \in Remotes : place[r] \in {"streams", "rejected"}}
<1>1. IsFiniteSet(R)
  BY StreamsAssumption, FS_Subset
<1>2. {r \in Remotes : place'[r] \in {"streams", "rejected"}} = R \cup {s}
  OBVIOUS
<1>3. s \notin R
  OBVIOUS
<1> HIDE DEF R
<1>4. Cardinality(R \cup {s}) = Cardinality(R) + 1 /\ Cardinality(R) \in Nat
  BY <1>1, <1>3, FS_AddElement, FS_CardinalityType
<1>5. QED
  BY <1>2, <1>4 DEF Count, R

\* The same, when one is taken away.
LEMMA CreditGiven ==
  ASSUME NEW s \in Remotes, place \in [Streams -> Places],
         place[s] \in {"streams", "rejected"},
         \A r \in Remotes : place'[r] \in {"streams", "rejected"}
                              <=> (r # s /\ place[r] \in {"streams", "rejected"})
  PROVE  /\ Count({"streams", "rejected"})' = Count({"streams", "rejected"}) - 1
         /\ Count({"streams", "rejected"}) \in Nat \ {0}
<1> DEFINE R == {r \in Remotes : place[r] \in {"streams", "rejected"}}
<1>1. IsFiniteSet(R)
  BY StreamsAssumption, FS_Subset
<1>2. {r \in Remotes : place'[r] \in {"streams", "rejected"}} = R \ {s}
  OBVIOUS
<1>3. s \in R
  OBVIOUS
<1> HIDE DEF R
<1>4. /\ Cardinality(R \ {s}) = Cardinality(R) - 1
      /\ Cardinality(R) \in Nat /\ Cardinality(R \ {s}) \in Nat
  BY <1>1, <1>3, FS_RemoveElement, FS_CardinalityType
<1>5. Count({"streams", "rejected"})' = Cardinality(R \ {s})
  BY <1>2 DEF Count
<1>6. Count({"streams", "rejected"}) = Cardinality(R)
  BY DEF Count, R
<1>7. QED
  BY <1>4, <1>5, <1>6

\* What is left of a queue when its first k elements are taken.
LEMMA QueueSplit ==
  \A q \in Seq(Locals) : \A k \in 0..Len(q) :
    /\ SubSeq(q, 1, k) \in Seq(Locals) /\ SubSeq(q, k + 1, Len(q)) \in Seq(Locals)
    /\ SubSeq(q, 1, k) \o SubSeq(q, k + 1, Len(q)) = q
    /\ IsInjective(q) =>
         /\ IsInjective(SubSeq(q, k + 1, Len(q)))
         /\ Range(SubSeq(q, k + 1, Len(q))) = Range(q) \ Range(SubSeq(q, 1, k))
<1> TAKE q \in Seq(Locals)
<1> TAKE k \in 0..Len(q)
<1> DEFINE x == SubSeq(q, 1, k)
           y == SubSeq(q, k + 1, Len(q))
<1>1. Len(q) \in Nat /\ (\A i \in 1..Len(q) : q[i] \in Locals)
  BY LenProperties, ElementOfSeq
<1>0. DOMAIN q = 1..Len(q)
  BY LenProperties
<1>2. /\ x \in Seq(Locals) /\ Len(x) = k /\ DOMAIN x = 1..k
      /\ \A i \in 1..k : x[i] = q[i]
  BY <1>1, SubSeqProperties
<1>3. /\ y \in Seq(Locals) /\ Len(y) = Len(q) - k /\ DOMAIN y = 1..(Len(q) - k)
      /\ \A i \in 1..(Len(q) - k) : y[i] = q[k + i]
  <2>1. y \in Seq(Locals) /\ Len(y) = Len(q) - k
    BY <1>1, SubSeqProperties
  <2>2. DOMAIN y = 1..(Len(q) - k)
    BY <2>1, LenProperties
  <2>3. ASSUME NEW i \in 1..(Len(q) - k) PROVE y[i] = q[k + i]
    BY <1>1, <2>3, SMTT(30)
  <2>4. QED
    BY <2>1, <2>2, <2>3
<1>4. x \o y = q
  <2>1. 1 \in 1..(Len(q) + 1) /\ k \in (1 - 1)..Len(q) /\ Len(q) \in k..Len(q)
    BY <1>1
  <2>2. x \o y = SubSeq(q, 1, Len(q))
    BY <2>1, ConcatAdjacentSubSeq, Zenon
  <2>3. QED
    BY <2>2, SubSeqFull, Zenon
<1> HIDE DEF x, y
<1>5. ASSUME IsInjective(q)
      PROVE  IsInjective(y) /\ Range(y) = Range(q) \ Range(x)
  <2>1. \A i, j \in 1..Len(q) : q[i] = q[j] => i = j
    BY <1>0, <1>1, <1>5 DEF IsInjective
  <2>2. IsInjective(y)
    <3>1. ASSUME NEW i \in 1..(Len(q) - k), NEW j \in 1..(Len(q) - k), y[i] = y[j]
          PROVE  i = j
      <4>1. k + i \in 1..Len(q) /\ k + j \in 1..Len(q)
        BY <1>1
      <4>2. q[k + i] = q[k + j]
        BY <1>3, <3>1
      <4>3. k + i = k + j
        BY <2>1, <4>1, <4>2
      <4>4. QED
        BY <1>1, <4>3
    <3>2. QED
      BY <1>3, <3>1 DEF IsInjective
  <2>3. ASSUME NEW v \in Range(y) PROVE v \in Range(q) /\ v \notin Range(x)
    <3>1. PICK i \in 1..(Len(q) - k) : v = q[k + i]
      BY <1>3 DEF Range
    <3>2. k + i \in 1..Len(q) /\ v = q[k + i]
      BY <1>1, <3>1
    <3>3. v \in Range(q)
      BY <1>0, <3>2 DEF Range
    <3>4. ASSUME v \in Range(x) PROVE FALSE
      <4>1. PICK j \in 1..k : v = q[j]
        BY <1>2, <3>4 DEF Range
      <4>2. j \in 1..Len(q) /\ j # k + i
        BY <1>1
      <4>3. QED
        BY <2>1, <3>2, <4>1, <4>2
    <3>5. QED
      BY <3>3, <3>4
  <2>4. ASSUME NEW v \in Range(q), v \notin Range(x) PROVE v \in Range(y)
    <3>1. PICK i \in 1..Len(q) : v = q[i]
      BY <1>0 DEF Range
    <3>2. ~(i \in 1..k)
      BY <1>2, <2>4, <3>1 DEF Range
    <3>3. i - k \in 1..(Len(q) - k) /\ k + (i - k) = i
      BY <1>1, <3>2
    <3>4. v = y[i - k]
      BY <1>3, <3>1, <3>3
    <3>5. QED
      BY <1>3, <3>3, <3>4 DEF Range
  <2>5. QED
    BY <2>2, <2>3, <2>4
<1>6. QED
  BY <1>2, <1>3, <1>4, <1>5 DEF x, y

\* A stream put at the end of a queue.
LEMMA Queued ==
  \A q \in Seq(Locals) : \A s \in Locals :
    /\ Append(q, s) \in Seq(Locals)
    /\ Range(Append(q, s)) = Range(q) \cup {s}
    /\ IsInjective(q) /\ s \notin Range(q) => IsInjective(Append(q, s))
<1> TAKE q \in Seq(Locals)
<1> TAKE s \in Locals
<1>1. /\ Append(q, s) \in Seq(Locals) /\ Len(Append(q, s)) = Len(q) + 1
      /\ \A i \in 1..Len(q) : Append(q, s)[i] = q[i]
      /\ Append(q, s)[Len(q) + 1] = s
  BY AppendProperties
<1>2. DOMAIN q = 1..Len(q) /\ DOMAIN Append(q, s) = 1..(Len(q) + 1) /\ Len(q) \in Nat
  BY <1>1, LenProperties
<1>3. Range(Append(q, s)) = Range(q) \cup {s}
  BY <1>1, <1>2 DEF Range
<1>4. ASSUME IsInjective(q), s \notin Range(q)
      PROVE  IsInjective(Append(q, s))
  BY <1>1, <1>2, <1>4 DEF Range, IsInjective
<1>5. QED
  BY <1>1, <1>3, <1>4

\* ToInt never makes a number larger.
LEMMA Narrowed ==
  ASSUME NEW n \in Nat
  PROVE  ToInt(n) \in Int /\ ToInt(n) <= n
<1> DEFINE h == IntMod \div 2
<1>1. IntMod \in Nat \ {0} /\ h \in Nat /\ 2 * h <= IntMod
  BY LimitAssumption, SMT
<1> HIDE DEF h
<1>2. n + h \in Nat
  BY <1>1
<1>3. (n + h) % IntMod \in Int /\ (n + h) % IntMod <= n + h
  BY <1>1, <1>2, SMT
<1>4. ToInt(n) = ((n + h) % IntMod) - h
  BY DEF ToInt, h
<1>5. QED
  BY <1>1, <1>2, <1>3, <1>4
-----------------------------------------------------------------------------
\* A new Connection satisfies the invariant.
LEMMA InitInv == Init => IInv
<1> SUFFICES ASSUME Init PROVE IInv
  OBVIOUS
<1>1. TypeOK
  <2>1. place \in [Streams -> Places] /\ ng \in [Streams -> {"none", "open", "closed"}]
    BY DEF Init, Places
  <2>2. /\ is_closing \in [Streams -> BOOLEAN] /\ closed_by_app \in [Streams -> BOOLEAN]
        /\ held \in [Streams -> BOOLEAN] /\ readable \in [Streams -> BOOLEAN]
        /\ in_flight \in [Streams -> BOOLEAN] /\ notified \in [Streams -> 0..1]
    BY DEF Init
  <2>3. pending_streams \in Seq(Locals) /\ created \in Seq(Locals) /\ opened \in Seq(Locals)
    BY EmptySeq DEF Init
  <2>4. /\ left \in Nat /\ allowed \in 0..PeerLimit
        /\ credit \in 0..MaxStreams /\ window \in 0..Window
        /\ returned \in [Remotes -> 0..1]
    BY LimitAssumption DEF Init
  <2>5. QED
    BY <2>1, <2>2, <2>3, <2>4 DEF Init, TypeOK
<1>2. \A s \in Streams : StreamInv(s)
  BY DEF Init, StreamInv, Ends, Streams
<1>3. PendingMatches
  BY EmptySeq DEF Init, PendingMatches, IsInjective, Range, Streams
<1>4. CreditKept
  <2>1. {s \in Remotes : place[s] \in {"streams", "rejected"}} = {}
    BY DEF Init, Streams
  <2>2. Count({"streams", "rejected"}) = 0
    BY <2>1, FS_EmptySet, Zenon DEF Count
  <2>3. credit + 0 = MaxStreams
    BY LimitAssumption DEF Init
  <2>4. \A s \in Remotes : place[s] = "none" /\ returned[s] = 0
    BY DEF Init, Streams
  <2>5. QED
    BY <2>2, <2>3, <2>4 DEF CreditKept
<1>5. QED
  BY <1>1, <1>2, <1>3, <1>4 DEF IInv

\* What asking ngtcp2 for a stream does, on either thread.
LEMMA Asked ==
  ASSUME IInv, NEW s \in Locals, AskNgtcp2(s)
  PROVE  /\ s \in Streams /\ s \notin Remotes
         /\ held' = [held EXCEPT ![s] = TRUE]
         /\ created' \in Seq(Locals) /\ opened' \in Seq(Locals) /\ left' \in Nat
         /\ ng' = [ng EXCEPT ![s] = IF left > 0 THEN "open" ELSE @]
         /\ readable' = [readable EXCEPT ![s] = IF left > 0 THEN TRUE ELSE @]
         /\ s \notin Range(pending_streams)
<1>1. s \in Streams /\ s \notin Remotes
  BY StreamsAssumption DEF Streams
<1>2. TypeOK
  BY DEF IInv
<1>3. created' \in Seq(Locals)
  BY <1>2, AppendProperties DEF AskNgtcp2, TypeOK
<1>4. <<s>> \in Seq(Locals) /\ Range(<<s>>) = {s}
  BY DEF Range
<1>5. opened \o <<s>> \in Seq(Locals)
  BY <1>2, <1>4, ConcatProperties DEF TypeOK
<1>6. opened' \in Seq(Locals) /\ left' \in Nat
  <2>1. opened' = opened \o <<s>> \/ opened' = opened
    BY DEF AskNgtcp2, open_bidi_streams
  <2>2. left' \in Nat
    BY <1>2 DEF AskNgtcp2, TypeOK
  <2>3. QED
    BY <1>2, <1>5, <2>1, <2>2, Zenon DEF TypeOK
<1>7. /\ ng' = [ng EXCEPT ![s] = IF left > 0 THEN "open" ELSE @]
      /\ readable' = [readable EXCEPT ![s] = IF left > 0 THEN TRUE ELSE @]
  <2>1. CASE left > 0
    BY <1>2, <1>4, <2>1 DEF AskNgtcp2, open_bidi_streams, SetAll, TypeOK
  <2>2. CASE ~(left > 0)
    BY <1>2, <2>2 DEF AskNgtcp2, TypeOK
  <2>3. QED
    BY <2>1, <2>2
<1>8. s \notin Range(pending_streams)
  BY DEF IInv, PendingMatches, AskNgtcp2
<1>9. QED
  BY <1>1, <1>3, <1>6, <1>7, <1>8 DEF AskNgtcp2

\* get_new_stream on the loop's thread keeps the invariant.
LEMMA GetNewStreamInv ==
  ASSUME IInv, NEW s \in Locals, get_new_stream(s)
  PROVE  IInv'
<1>1. AskNgtcp2(s) /\ Store(s, left > 0) /\ UNCHANGED waitVars
  BY DEF get_new_stream
<1>2. TypeOK
  BY DEF IInv
<1>3. /\ s \in Streams /\ s \notin Remotes
      /\ held' = [held EXCEPT ![s] = TRUE]
      /\ created' \in Seq(Locals) /\ opened' \in Seq(Locals) /\ left' \in Nat
      /\ ng' = [ng EXCEPT ![s] = IF left > 0 THEN "open" ELSE @]
      /\ readable' = [readable EXCEPT ![s] = IF left > 0 THEN TRUE ELSE @]
      /\ s \notin Range(pending_streams)
  BY <1>1, Asked
<1>4. /\ place[s] = "none" /\ conn # "gone"
      /\ UNCHANGED <<is_closing, closed_by_app, notified, in_flight, allowed, credit,
                     returned, window, conn>>
  BY <1>1 DEF AskNgtcp2
<1>5. pending_streams' \in Seq(Locals)
  BY <1>1, <1>2, Queued DEF Store, push_back, TypeOK
<1>6. place' = [place EXCEPT ![s] = IF left > 0 THEN "streams" ELSE "pending"]
  BY <1>1 DEF Store
<1>7. TypeOK'
  BY <1>1, <1>2, <1>3, <1>4, <1>5, <1>6 DEF TypeOK, Places, waitVars
<1>8. ASSUME NEW t \in Streams PROVE StreamInv(t)'
  <2>1. StreamInv(t)
    BY <1>8 DEF IInv
  <2>2. CASE t # s
    BY <1>2, <1>3, <1>4, <1>6, <2>1, <2>2, StreamKept DEF TypeOK
  <2>3. CASE t = s
    BY <1>2, <1>3, <1>4, <1>6, <2>1, <2>3 DEF TypeOK, StreamInv, Ends
  <2>4. QED
    BY <2>2, <2>3
<1>9. PendingMatches'
  <2>1. PendingMatches
    BY DEF IInv
  <2>2. CASE left > 0
    BY <1>1, <1>2, <1>3, <1>4, <1>6, <2>1, <2>2, PendingKept DEF Store, TypeOK, Streams
  <2>3. ASSUME ~(left > 0) PROVE PendingMatches'
    <3>1. pending_streams' = Append(pending_streams, s)
      BY <1>1, <2>3 DEF Store, push_back
    <3>2. /\ Range(pending_streams') = Range(pending_streams) \cup {s}
          /\ IsInjective(pending_streams')
      BY <1>2, <1>3, <2>1, <3>1, Queued DEF TypeOK, PendingMatches
    <3>3. {t \in Locals : place'[t] = "pending"}
            = {t \in Locals : place[t] = "pending"} \cup {s}
      BY <1>2, <1>3, <1>6, <2>3 DEF TypeOK, Streams
    <3>4. QED
      BY <1>4, <2>1, <3>2, <3>3 DEF PendingMatches
  <2>4. QED
    BY <2>2, <2>3
<1>10. CreditKept'
  BY <1>2, <1>3, <1>4, <1>6, CreditUnchanged DEF IInv, TypeOK, Streams
<1>11. QED
  BY <1>7, <1>8, <1>9, <1>10 DEF IInv

\* So does its first half on another thread, which marks the stream as asked
\* for or refused,
LEMMA AskForStreamInv ==
  ASSUME IInv, NEW s \in Locals, AskForStream(s)
  PROVE  IInv'
<1>1. /\ AskNgtcp2(s)
      /\ place' = [place EXCEPT ![s] = IF left > 0 THEN "asked" ELSE "refused"]
      /\ off_loop' = TRUE /\ UNCHANGED <<pending_streams, late, narrowed>>
  BY DEF AskForStream
<1>2. TypeOK
  BY DEF IInv
<1>3. /\ s \in Streams /\ s \notin Remotes
      /\ held' = [held EXCEPT ![s] = TRUE]
      /\ created' \in Seq(Locals) /\ opened' \in Seq(Locals) /\ left' \in Nat
      /\ ng' = [ng EXCEPT ![s] = IF left > 0 THEN "open" ELSE @]
      /\ readable' = [readable EXCEPT ![s] = IF left > 0 THEN TRUE ELSE @]
  BY <1>1, Asked
<1>4. /\ place[s] = "none" /\ conn # "gone"
      /\ UNCHANGED <<is_closing, closed_by_app, notified, in_flight, allowed, credit,
                     returned, window, conn>>
  BY <1>1 DEF AskNgtcp2
<1>5. TypeOK'
  BY <1>1, <1>2, <1>3, <1>4 DEF TypeOK, Places
<1>6. ASSUME NEW t \in Streams PROVE StreamInv(t)'
  <2>1. StreamInv(t)
    BY <1>6 DEF IInv
  <2>2. CASE t # s
    BY <1>1, <1>2, <1>3, <1>4, <2>1, <2>2, StreamKept DEF TypeOK
  <2>3. CASE t = s
    BY <1>1, <1>2, <1>3, <1>4, <2>1, <2>3 DEF TypeOK, StreamInv, Ends
  <2>4. QED
    BY <2>2, <2>3
<1>7. PendingMatches'
  BY <1>1, <1>2, <1>3, <1>4, PendingKept DEF IInv, TypeOK, Streams
<1>8. CreditKept'
  BY <1>1, <1>2, <1>3, <1>4, CreditUnchanged DEF IInv, TypeOK, Streams
<1>9. QED
  BY <1>5, <1>6, <1>7, <1>8 DEF IInv

\* and its second half, which stores or queues it.
LEMMA StoreStreamInv ==
  ASSUME IInv, NEW s \in Locals, StoreStream(s)
  PROVE  IInv'
<1> DEFINE granted == place[s] = "asked"
<1>1. /\ place[s] \in {"asked", "refused"} /\ Store(s, granted)
      /\ late' = (late \/ (place[s] = "refused" /\ left > 0))
      /\ UNCHANGED <<is_closing, closed_by_app, notified, held, ngVars, created, opened,
                     off_loop, narrowed, conn>>
  BY DEF StoreStream
<1>2. TypeOK /\ StreamInv(s) /\ s \in Streams /\ s \notin Remotes
  BY StreamsAssumption DEF IInv, Streams
<1>3. conn # "gone"
  BY <1>1, <1>2 DEF StreamInv
<1>4. place' = [place EXCEPT ![s] = IF granted THEN "streams" ELSE "pending"]
  BY <1>1 DEF Store
<1>5. pending_streams' \in Seq(Locals)
  BY <1>1, <1>2, Queued DEF Store, push_back, TypeOK
<1>6. TypeOK'
  BY <1>1, <1>2, <1>4, <1>5 DEF TypeOK, Places, ngVars
<1>7. ASSUME NEW t \in Streams PROVE StreamInv(t)'
  <2>1. StreamInv(t)
    BY <1>7 DEF IInv
  <2>2. CASE t # s
    BY <1>1, <1>2, <1>4, <2>1, <2>2, StreamKept DEF TypeOK, ngVars
  <2>3. CASE t = s
    BY <1>1, <1>2, <1>3, <1>4, <2>1, <2>3 DEF TypeOK, ngVars, StreamInv, Ends
  <2>4. QED
    BY <2>2, <2>3
<1>8. PendingMatches'
  <2>1. PendingMatches
    BY DEF IInv
  <2>2. CASE granted
    BY <1>1, <1>2, <1>3, <1>4, <2>1, <2>2, PendingKept DEF Store, TypeOK, Streams
  <2>3. ASSUME ~granted PROVE PendingMatches'
    <3>1. pending_streams' = Append(pending_streams, s)
      BY <1>1, <2>3 DEF Store, push_back
    <3>2. s \notin Range(pending_streams)
      BY <1>1, <1>3, <2>1 DEF PendingMatches
    <3>3. /\ Range(pending_streams') = Range(pending_streams) \cup {s}
          /\ IsInjective(pending_streams')
      BY <1>2, <2>1, <3>1, <3>2, Queued DEF TypeOK, PendingMatches
    <3>4. {t \in Locals : place'[t] = "pending"}
            = {t \in Locals : place[t] = "pending"} \cup {s}
      BY <1>2, <1>4, <2>3 DEF TypeOK, Streams
    <3>5. QED
      BY <1>3, <2>1, <3>3, <3>4 DEF PendingMatches
  <2>4. QED
    BY <2>2, <2>3
<1>9. CreditKept'
  BY <1>1, <1>2, <1>3, <1>4, CreditUnchanged DEF IInv, TypeOK, Streams, ngVars
<1>10. QED
  BY <1>6, <1>7, <1>8, <1>9 DEF IInv

\* How many streams the loop of check_pending_streams takes.
LEMMA PoppedBound ==
  ASSUME pending_streams \in Seq(Locals), NEW n \in Nat
  PROVE  /\ Popped(ToInt(n)) \in 0..Len(pending_streams)
         /\ Popped(ToInt(n)) <= n
         /\ ToInt(n) = n =>
              Popped(ToInt(n)) = Len(pending_streams) \/ Popped(ToInt(n)) = n
<1>1. Len(pending_streams) \in Nat
  BY LenProperties
<1>2. ToInt(n) \in Int /\ ToInt(n) <= n
  BY Narrowed
<1>3. QED
  BY <1>1, <1>2 DEF Popped

\* extend_max_local_streams_bidi opens the streams at the front of the queue
\* and keeps the invariant.
LEMMA ExtendInv ==
  ASSUME IInv, NEW n \in 1..PeerLimit, extend_max_local_streams_bidi(n)
  PROVE  IInv'
<1> DEFINE k == Popped(ToInt(left + n))
           ss == SubSeq(pending_streams, 1, k)
           rest == SubSeq(pending_streams, k + 1, Len(pending_streams))
<1>1. /\ conn = "alive" /\ allowed + n <= PeerLimit /\ allowed' = allowed + n
      /\ left' = left + n - k /\ open_bidi_streams(ss)
      /\ place' = SetAll(place, Range(ss), "streams")
      /\ pending_streams' = rest
      /\ late' = FALSE
      /\ narrowed' = IF ToInt(left + n) # left + n THEN "last"
                     ELSE IF narrowed = "never" THEN "never" ELSE "before"
      /\ UNCHANGED <<off_loop, is_closing, closed_by_app, notified, held, in_flight, credit,
                     returned, window, created, conn>>
  BY DEF extend_max_local_streams_bidi, pop_front
<1>2. TypeOK
  BY DEF IInv
<1>3. left + n \in Nat /\ left \in Nat
  BY <1>2, LimitAssumption DEF TypeOK
<1>4. k \in 0..Len(pending_streams) /\ k <= left + n
  BY <1>2, <1>3, PoppedBound DEF TypeOK
<1>5. PendingMatches
  BY DEF IInv
<1>6. /\ ss \in Seq(Locals) /\ rest \in Seq(Locals)
      /\ IsInjective(rest) /\ Range(rest) = Range(pending_streams) \ Range(ss)
      /\ ss \o rest = pending_streams
  BY <1>2, <1>4, <1>5, QueueSplit DEF TypeOK, PendingMatches
<1> HIDE DEF k, ss, rest
<1>7. Range(ss) \subseteq Range(pending_streams)
  <2>1. ASSUME NEW i \in DOMAIN ss
        PROVE  i \in DOMAIN pending_streams /\ ss[i] = pending_streams[i]
    <3>1. DOMAIN ss = 1..Len(ss) /\ DOMAIN pending_streams = 1..Len(pending_streams)
      BY <1>2, <1>6, LenProperties DEF TypeOK
    <3>2. Len(ss) \in Nat /\ Len(rest) \in Nat
      BY <1>6, LenProperties
    <3>3. /\ Len(ss \o rest) = Len(ss) + Len(rest)
          /\ \A j \in 1..(Len(ss) + Len(rest)) :
               (ss \o rest)[j] = IF j <= Len(ss) THEN ss[j] ELSE rest[j - Len(ss)]
      BY <1>6, ConcatProperties
    <3>4. QED
      BY <1>6, <2>1, <3>1, <3>2, <3>3
  <2>2. QED
    BY <2>1 DEF Range
<1>8. Range(ss) \subseteq {s \in Locals : place[s] = "pending"}
  BY <1>1, <1>5, <1>7 DEF PendingMatches
<1>9. /\ ng' = [t \in Streams |-> IF t \in Range(ss) THEN "open" ELSE ng[t]]
      /\ readable' = [t \in Streams |-> IF t \in Range(ss) THEN TRUE ELSE readable[t]]
      /\ place' = [t \in Streams |-> IF t \in Range(ss) THEN "streams" ELSE place[t]]
      /\ opened' = opened \o ss
  BY <1>1, <1>2 DEF open_bidi_streams, SetAll, TypeOK
<1>10. TypeOK'
  <2>1. opened' \in Seq(Locals)
    BY <1>2, <1>6, <1>9, ConcatProperties DEF TypeOK
  <2>2. left' \in Nat /\ allowed' \in 0..PeerLimit
    BY <1>1, <1>2, <1>3, <1>4, LimitAssumption DEF TypeOK
  <2>3. /\ ng' \in [Streams -> {"none", "open", "closed"}] /\ readable' \in [Streams -> BOOLEAN]
        /\ place' \in [Streams -> Places]
    BY <1>2, <1>9 DEF TypeOK, Places
  <2>4. QED
    BY <1>1, <1>2, <1>6, <2>1, <2>2, <2>3 DEF TypeOK
<1>11. ASSUME NEW t \in Streams PROVE StreamInv(t)'
  <2>1. StreamInv(t)
    BY <1>11 DEF IInv
  <2>2. CASE t \notin Range(ss)
    BY <1>1, <1>2, <1>9, <2>1, <2>2, StreamKept DEF TypeOK
  <2>3. CASE t \in Range(ss)
    BY <1>1, <1>2, <1>8, <1>9, <2>1, <2>3, StreamsAssumption DEF TypeOK, StreamInv, Ends
  <2>4. QED
    BY <2>2, <2>3
<1>12. PendingMatches'
  <2>1. {s \in Locals : place'[s] = "pending"}
          = {s \in Locals : place[s] = "pending"} \ Range(ss)
    BY <1>8, <1>9 DEF Streams
  <2>2. QED
    BY <1>1, <1>5, <1>6, <2>1 DEF PendingMatches
<1>13. CreditKept'
  <2>1. \A r \in Remotes : place'[r] = place[r]
    BY <1>8, <1>9, StreamsAssumption DEF Streams
  <2>2. QED
    BY <1>1, <2>1, CreditUnchanged DEF IInv
<1>14. QED
  BY <1>10, <1>11, <1>12, <1>13 DEF IInv

\* A stream the peer opens takes one credit, accepted or rejected.
LEMMA StreamOpenedInv ==
  ASSUME IInv, NEW s \in Remotes, stream_opened(s)
  PROVE  IInv'
<1>1. /\ conn = "alive" /\ ng[s] = "none" /\ credit > 0
      /\ ng' = [ng EXCEPT ![s] = "open"] /\ credit' = credit - 1
      /\ UNCHANGED <<waitVars, pending_streams, notified, held, in_flight, left, allowed,
                     returned, window, created, opened, conn>>
  BY DEF stream_opened
<1>2. TypeOK /\ s \in Streams /\ s \notin Locals /\ StreamInv(s)
  BY StreamsAssumption DEF IInv, Streams
<1>3. \/ /\ place' = [place EXCEPT ![s] = "streams"]
         /\ readable' = [readable EXCEPT ![s] = TRUE]
         /\ UNCHANGED <<is_closing, closed_by_app>>
      \/ /\ place' = [place EXCEPT ![s] = "rejected"]
         /\ is_closing' = [is_closing EXCEPT ![s] = TRUE]
         /\ closed_by_app' = [closed_by_app EXCEPT ![s] = TRUE]
         /\ UNCHANGED readable
  BY DEF stream_opened, RejectStream
<1>4. place[s] = "none" /\ ~is_closing[s] /\ ~readable[s]
  BY <1>1, <1>2 DEF StreamInv
<1>5. TypeOK'
  <2>1. credit' \in 0..MaxStreams
    BY <1>1, <1>2, LimitAssumption DEF TypeOK
  <2>2. place' \in [Streams -> Places] /\ ng' \in [Streams -> {"none", "open", "closed"}]
    BY <1>1, <1>2, <1>3 DEF TypeOK, Places
  <2>3. /\ readable' \in [Streams -> BOOLEAN] /\ is_closing' \in [Streams -> BOOLEAN]
        /\ closed_by_app' \in [Streams -> BOOLEAN]
    BY <1>2, <1>3 DEF TypeOK
  <2>4. QED
    BY <1>1, <1>2, <2>1, <2>2, <2>3 DEF TypeOK, waitVars
<1>6. ASSUME NEW t \in Streams PROVE StreamInv(t)'
  <2>1. StreamInv(t)
    BY <1>6 DEF IInv
  <2>2. CASE t # s
    <3>1. /\ place'[t] = place[t] /\ ng'[t] = ng[t] /\ readable'[t] = readable[t]
          /\ is_closing'[t] = is_closing[t] /\ closed_by_app'[t] = closed_by_app[t]
      BY <1>1, <1>2, <1>3, <2>2 DEF TypeOK
    <3>2. QED
      BY <1>1, <2>1, <3>1, StreamKept, ZenonT(60)
  <2>3. CASE t = s
    <3>1. /\ ng'[s] = "open" /\ notified'[s] = notified[s] /\ notified[s] \in 0..1
          /\ held'[s] = held[s]
      BY <1>1, <1>2 DEF TypeOK
    <3>2. \/ /\ place'[s] = "streams" /\ is_closing'[s] = is_closing[s]
             /\ closed_by_app'[s] = closed_by_app[s]
          \/ /\ place'[s] = "rejected" /\ is_closing'[s] = TRUE
             /\ closed_by_app'[s] = TRUE /\ readable'[s] = readable[s]
      BY <1>2, <1>3 DEF TypeOK
    <3>3. Ends(s) = 0
      BY <1>2, <1>4, Zenon DEF StreamInv
    <3>4. (is_closing'[s] <=> Ends(s)' = 1) /\ Ends(s)' \in {0, 1}
      <4>1. notified[s] = 0 /\ (IF closed_by_app[s] THEN 1 ELSE 0) = 0
        BY <3>1, <3>3 DEF Ends
      <4>2. (IF closed_by_app'[s] THEN 1 ELSE 0) = (IF is_closing'[s] THEN 1 ELSE 0)
        BY <1>4, <3>2, <4>1
      <4>3. Ends(s)' = IF is_closing'[s] THEN 1 ELSE 0
        BY <3>1, <4>1, <4>2 DEF Ends
      <4>4. QED
        BY <4>3
    <3>5. QED
      BY <1>1, <1>2, <1>4, <2>3, <3>1, <3>2, <3>4 DEF StreamInv
  <2>4. QED
    BY <2>2, <2>3
<1>7. PendingMatches'
  <2>1. \A t \in Locals : place'[t] = place[t]
    BY <1>2, <1>3 DEF TypeOK, Streams
  <2>2. QED
    BY <1>1, <2>1, PendingKept DEF IInv
<1>8. CreditKept'
  <2>1. \A r \in Remotes : place'[r] \in {"streams", "rejected"}
                              <=> (r = s \/ place[r] \in {"streams", "rejected"})
    BY <1>2, <1>3, <1>4 DEF TypeOK, Streams
  <2>2. /\ Count({"streams", "rejected"})' = Count({"streams", "rejected"}) + 1
        /\ Count({"streams", "rejected"}) \in Nat
    BY <1>2, <1>4, <2>1, CreditTaken DEF TypeOK
  <2>3. credit' + Count({"streams", "rejected"})' = MaxStreams
    BY <1>1, <1>2, <2>2, LimitAssumption DEF IInv, CreditKept, TypeOK
  <2>4. ASSUME NEW r \in Remotes
        PROVE  /\ place'[r] \in {"none", "streams", "rejected"} => returned'[r] = 0
               /\ place'[r] \in {"erased", "destroyed"} => returned'[r] = 1
    <3>1. CASE r = s
      BY <1>1, <1>2, <1>3, <1>4, <3>1 DEF IInv, CreditKept, TypeOK
    <3>2. CASE r # s
      BY <1>1, <1>2, <1>3, <3>2 DEF IInv, CreditKept, TypeOK, Streams
    <3>3. QED
      BY <3>1, <3>2
  <2>5. QED
    BY <2>3, <2>4 DEF CreditKept
<1>9. QED
  BY <1>5, <1>6, <1>7, <1>8 DEF IInv

\* close() ends the stream for its owner, once.
LEMMA CloseInv ==
  ASSUME IInv, NEW s \in Streams, close(s)
  PROVE  IInv'
<1>1. /\ held[s] \/ (s \in Remotes /\ place[s] = "streams")
      /\ closed_by_app' = [closed_by_app EXCEPT ![s] = @ \/ ~is_closing[s]]
      /\ is_closing' = [is_closing EXCEPT ![s] = TRUE]
      /\ readable' = [readable EXCEPT ![s] = @ /\ is_closing[s]]
      /\ UNCHANGED <<waitVars, place, pending_streams, notified, held, ng, in_flight, left,
                     allowed, credit, returned, window, created, opened, conn>>
  BY DEF close
<1>2. TypeOK
  BY DEF IInv
<1>3. /\ closed_by_app' \in [Streams -> BOOLEAN] /\ is_closing' \in [Streams -> BOOLEAN]
      /\ readable' \in [Streams -> BOOLEAN]
  BY <1>1, <1>2 DEF TypeOK
<1>4. TypeOK'
  BY <1>1, <1>2, <1>3 DEF TypeOK, waitVars
<1>5. ASSUME NEW t \in Streams PROVE StreamInv(t)'
  <2>1. StreamInv(t)
    BY <1>5 DEF IInv
  <2>2. CASE t # s
    BY <1>1, <1>2, <2>1, <2>2, StreamKept DEF TypeOK
  <2>3. CASE t = s
    <3>1. /\ closed_by_app'[s] = (closed_by_app[s] \/ ~is_closing[s])
          /\ is_closing'[s] = TRUE
          /\ readable'[s] = (readable[s] /\ is_closing[s])
      BY <1>1, <1>2, Zenon DEF TypeOK
    <3>2. Ends(s)' = 1
      <4>1. notified[s] \in 0..1 /\ notified'[s] = notified[s]
        BY <1>1, <1>2 DEF TypeOK
      <4>2. CASE is_closing[s]
        <5>1. Ends(s) = 1 /\ (closed_by_app'[s] <=> closed_by_app[s])
          BY <2>1, <2>3, <3>1, <4>2 DEF StreamInv
        <5>2. QED
          BY <4>1, <5>1 DEF Ends
      <4>3. CASE ~is_closing[s]
        <5>1. Ends(s) = 0 /\ closed_by_app'[s]
          BY <2>1, <2>3, <3>1, <4>3, ZenonT(60) DEF StreamInv
        <5>2. QED
          BY <4>1, <5>1 DEF Ends
      <4>4. QED
        BY <4>2, <4>3
    <3>3. s \in Remotes => ng[s] # "none"
      BY <1>1, <2>1, <2>3 DEF StreamInv
    <3>4. QED
      BY <1>1, <2>1, <2>3, <3>1, <3>2, <3>3 DEF StreamInv
  <2>4. QED
    BY <2>2, <2>3
<1>6. PendingMatches'
  BY <1>1, PendingKept DEF IInv
<1>7. CreditKept'
  BY <1>1, CreditUnchanged DEF IInv
<1>8. QED
  BY <1>4, <1>5, <1>6, <1>7 DEF IInv

\* What stream_closed leaves of a stream that ngtcp2 has open.
LEMMA ClosedInv ==
  ASSUME IInv, NEW s \in Streams, stream_closed(s), ng[s] = "open",
         place[s] # "asked", conn # "gone",
         readable' = [readable EXCEPT ![s] = FALSE],
         ng' = ng \/ ng' = [ng EXCEPT ![s] = "closed"],
         UNCHANGED <<pending_streams, closed_by_app, held, conn>>
  PROVE  /\ \A t \in Streams : StreamInv(t)'
         /\ PendingMatches' /\ CreditKept'
         /\ credit' \in 0..MaxStreams /\ returned' \in [Remotes -> 0..1]
         /\ place' \in [Streams -> Places] /\ is_closing' \in [Streams -> BOOLEAN]
         /\ notified' \in [Streams -> 0..1]
         /\ ng' \in [Streams -> {"none", "open", "closed"}]
         /\ readable' \in [Streams -> BOOLEAN]
<1>1. TypeOK /\ StreamInv(s)
  BY DEF IInv
<1>2. /\ ng' \in [Streams -> {"none", "open", "closed"}] /\ readable' \in [Streams -> BOOLEAN]
      /\ ng'[s] \in {"open", "closed"} /\ readable'[s] = FALSE
      /\ \A t \in Streams : t # s => ng'[t] = ng[t] /\ readable'[t] = readable[t]
  BY <1>1 DEF TypeOK
<1>3. ASSUME place[s] # "streams" PROVE UNCHANGED <<place, is_closing, notified, credit, returned>>
  BY <1>3 DEF stream_closed
<1>4. ASSUME place[s] = "streams"
      PROVE  /\ notified' = [notified EXCEPT ![s] = IF is_closing[s] THEN @ ELSE @ + 1]
             /\ is_closing' = [is_closing EXCEPT ![s] = TRUE]
             /\ place' = [place EXCEPT ![s] = IF held[s] THEN "erased" ELSE "destroyed"]
             /\ credit' = IF s \in Remotes THEN credit + 1 ELSE credit
             /\ returned' = [r \in Remotes |-> IF r = s THEN returned[r] + 1 ELSE returned[r]]
  BY <1>4 DEF stream_closed, extend_max_streams
<1>5. \A t \in Streams : t # s => /\ place'[t] = place[t] /\ is_closing'[t] = is_closing[t]
                                  /\ notified'[t] = notified[t]
  BY <1>1, <1>3, <1>4 DEF TypeOK
<1>6. /\ place' \in [Streams -> Places] /\ is_closing' \in [Streams -> BOOLEAN]
      /\ notified' \in [Streams -> 0..1]
  <2>1. CASE place[s] # "streams"
    BY <1>1, <1>3, <2>1 DEF TypeOK
  <2>2. ASSUME place[s] = "streams"
        PROVE  /\ place' \in [Streams -> Places] /\ is_closing' \in [Streams -> BOOLEAN]
               /\ notified' \in [Streams -> 0..1]
    <3>1. ~is_closing[s] => notified[s] = 0
      BY <1>1 DEF TypeOK, StreamInv, Ends
    <3>2. (IF is_closing[s] THEN notified[s] ELSE notified[s] + 1) \in 0..1
      BY <1>1, <3>1 DEF TypeOK
    <3>3. notified' \in [Streams -> 0..1]
      BY <1>1, <1>4, <2>2, <3>2, SMTT(30) DEF TypeOK
    <3>4. place' \in [Streams -> Places] /\ is_closing' \in [Streams -> BOOLEAN]
      BY <1>1, <1>4, <2>2 DEF TypeOK, Places
    <3>5. QED
      BY <3>3, <3>4
  <2>3. QED
    BY <2>1, <2>2
<1>7. ASSUME NEW t \in Streams PROVE StreamInv(t)'
  <2>1. StreamInv(t)
    BY <1>7 DEF IInv
  <2>2. CASE t # s
    BY <1>2, <1>5, <2>1, <2>2, StreamKept
  <2>3. CASE t = s /\ place[s] # "streams"
    BY <1>1, <1>2, <1>3, <2>1, <2>3, ZenonT(60) DEF StreamInv, Ends
  <2>4. CASE t = s /\ place[s] = "streams"
    <3>1. /\ notified'[s] = IF is_closing[s] THEN notified[s] ELSE notified[s] + 1
          /\ is_closing'[s] = TRUE /\ place'[s] \in {"erased", "destroyed"}
          /\ notified[s] \in 0..1 /\ closed_by_app'[s] = closed_by_app[s]
      BY <1>1, <1>4, <2>4 DEF TypeOK
    <3>2. (is_closing[s] <=> Ends(s) = 1) /\ Ends(s) \in {0, 1}
      BY <1>1, Zenon DEF StreamInv
    <3>3. Ends(s)' = 1
      BY <3>1, <3>2 DEF Ends
    <3>4. QED
      BY <1>2, <2>1, <2>4, <3>1, <3>3 DEF StreamInv
  <2>5. QED
    BY <2>2, <2>3, <2>4
<1>8. PendingMatches'
  <2>1. \A t \in Locals : place'[t] = "pending" <=> place[t] = "pending"
    BY <1>1, <1>3, <1>4, <1>5 DEF TypeOK, Streams
  <2>2. QED
    BY <2>1, PendingKept DEF IInv
<1>9. /\ CreditKept' /\ credit' \in 0..MaxStreams
      /\ returned' \in [Remotes -> 0..1]
  <2>1. CASE place[s] # "streams"
    BY <1>1, <1>3, <2>1, CreditUnchanged DEF IInv, TypeOK
  <2>2. CASE place[s] = "streams" /\ s \notin Remotes
    <3>1. /\ credit' = credit /\ returned' = returned
          /\ \A r \in Remotes : place'[r] = place[r]
      BY <1>1, <1>4, <1>5, <2>2 DEF Streams, TypeOK
    <3>2. QED
      BY <1>1, <3>1, CreditUnchanged DEF IInv, TypeOK
  <2>3. ASSUME place[s] = "streams", s \in Remotes
        PROVE  /\ CreditKept' /\ credit' \in 0..MaxStreams
               /\ returned' \in [Remotes -> 0..1]
    <3>1. credit' = credit + 1 /\ place'[s] \in {"erased", "destroyed"}
      BY <1>1, <1>4, <2>3 DEF TypeOK
    <3>2. \A r \in Remotes : place'[r] \in {"streams", "rejected"}
                              <=> (r # s /\ place[r] \in {"streams", "rejected"})
      BY <1>5, <2>3, <3>1 DEF Streams
    <3>3. /\ Count({"streams", "rejected"})' = Count({"streams", "rejected"}) - 1
          /\ Count({"streams", "rejected"}) \in Nat \ {0}
      BY <1>1, <2>3, <3>2, CreditGiven DEF TypeOK
    <3>4. credit \in Nat /\ MaxStreams \in Nat
      BY <1>1, LimitAssumption DEF TypeOK
    <3>5. /\ credit + Count({"streams", "rejected"}) = MaxStreams
          /\ \A r \in Remotes :
               /\ place[r] \in {"none", "streams", "rejected"} => returned[r] = 0
               /\ place[r] \in {"erased", "destroyed"} => returned[r] = 1
      BY Zenon DEF IInv, CreditKept
    <3>6. ASSUME NEW n \in Nat \ {0}, credit + n = MaxStreams
          PROVE  (credit + 1) + (n - 1) = MaxStreams /\ credit + 1 \in 0..MaxStreams
      BY <3>4, <3>6
    <3>7. /\ (credit + 1) + (Count({"streams", "rejected"}) - 1) = MaxStreams
          /\ credit + 1 \in 0..MaxStreams
      BY <3>3, <3>5, <3>6, Zenon
    <3>8. credit' + Count({"streams", "rejected"})' = MaxStreams /\ credit' \in 0..MaxStreams
      BY <3>1, <3>3, <3>7, Zenon
    <3>9. returned'[s] = 1 /\ returned' \in [Remotes -> 0..1]
      BY <1>1, <1>4, <2>3, <3>5 DEF TypeOK
    <3>10. \A r \in Remotes :
             /\ place'[r] \in {"none", "streams", "rejected"} => returned'[r] = 0
             /\ place'[r] \in {"erased", "destroyed"} => returned'[r] = 1
      <4>1. \A r \in Remotes : r # s => returned'[r] = returned[r] /\ place'[r] = place[r]
        BY <1>4, <1>5, <2>3 DEF Streams
      <4>2. QED
        BY <3>1, <3>5, <3>9, <4>1
    <3>11. QED
      BY <3>8, <3>9, <3>10, Zenon DEF CreditKept
  <2>4. QED
    BY <2>1, <2>2, <2>3
<1>10. QED
  BY <1>2, <1>6, <1>7, <1>8, <1>9

\* The callback for a reset keeps the invariant,
LEMMA StreamResetInv ==
  ASSUME IInv, NEW s \in Streams, on_stream_reset(s)
  PROVE  IInv'
<1>1. /\ conn # "gone" /\ ng[s] = "open" /\ place[s] # "asked" /\ stream_closed(s)
      /\ readable' = [readable EXCEPT ![s] = FALSE]
      /\ UNCHANGED <<waitVars, pending_streams, closed_by_app, held, ng, in_flight, left,
                     allowed, window, created, opened, conn>>
  BY DEF on_stream_reset
<1>2. /\ \A t \in Streams : StreamInv(t)'
      /\ PendingMatches' /\ CreditKept' /\ credit' \in 0..MaxStreams
      /\ returned' \in [Remotes -> 0..1]
      /\ place' \in [Streams -> Places] /\ is_closing' \in [Streams -> BOOLEAN]
      /\ notified' \in [Streams -> 0..1]
      /\ readable' \in [Streams -> BOOLEAN]
  BY <1>1, ClosedInv
<1>3. TypeOK'
  BY <1>1, <1>2 DEF IInv, TypeOK, waitVars
<1>4. QED
  BY <1>2, <1>3 DEF IInv

\* and so does the one for the close of a stream.
LEMMA StreamCloseInv ==
  ASSUME IInv, NEW s \in Streams, on_stream_close(s)
  PROVE  IInv'
<1>1. /\ conn # "gone" /\ ng[s] = "open" /\ place[s] # "asked" /\ stream_closed(s)
      /\ ng' = [ng EXCEPT ![s] = "closed"]
      /\ readable' = [readable EXCEPT ![s] = FALSE]
      /\ in_flight' = [in_flight EXCEPT ![s] = FALSE]
      /\ UNCHANGED <<waitVars, pending_streams, closed_by_app, held, left, allowed, window,
                     created, opened, conn>>
  BY DEF on_stream_close
<1>2. /\ \A t \in Streams : StreamInv(t)'
      /\ PendingMatches' /\ CreditKept' /\ credit' \in 0..MaxStreams
      /\ returned' \in [Remotes -> 0..1]
      /\ place' \in [Streams -> Places] /\ is_closing' \in [Streams -> BOOLEAN]
      /\ notified' \in [Streams -> 0..1]
      /\ ng' \in [Streams -> {"none", "open", "closed"}]
      /\ readable' \in [Streams -> BOOLEAN]
  BY <1>1, ClosedInv
<1>3. in_flight' \in [Streams -> BOOLEAN]
  BY <1>1 DEF IInv, TypeOK
<1>4. TypeOK'
  BY <1>1, <1>2, <1>3 DEF IInv, TypeOK, waitVars
<1>5. QED
  BY <1>2, <1>4 DEF IInv

\* SendData and stream_ack change no stream.
LEMMA FlightInv ==
  ASSUME IInv, NEW s \in Streams, SendData(s) \/ stream_ack(s)
  PROVE  IInv'
<1>1. /\ conn = "alive" /\ conn' \in {"alive", "failed"}
      /\ in_flight' = [in_flight EXCEPT ![s] = TRUE] \/ in_flight' = [in_flight EXCEPT ![s] = FALSE]
      /\ UNCHANGED <<waitVars, objVars, ng, readable, left, allowed, credit, returned,
                     window, created, opened>>
  BY ZenonT(60) DEF SendData, stream_ack
<1>2. in_flight' \in [Streams -> BOOLEAN]
  BY <1>1 DEF IInv, TypeOK
<1>3. TypeOK'
  BY <1>1, <1>2 DEF IInv, TypeOK, objVars, waitVars
<1>4. \A t \in Streams : StreamInv(t)'
  BY <1>1, StreamKept, ZenonT(60) DEF IInv, objVars
<1>5. PendingMatches' /\ CreditKept'
  BY <1>1, PendingKept, CreditUnchanged DEF IInv, objVars
<1>6. QED
  BY <1>3, <1>4, <1>5 DEF IInv

\* stream_receive keeps the invariant, whether or not data_callback throws.
LEMMA StreamReceiveInv ==
  ASSUME IInv, NEW s \in Streams, NEW fin \in BOOLEAN, NEW throws \in BOOLEAN,
         stream_receive(s, fin, throws)
  PROVE  IInv'
<1>1. /\ conn = "alive" /\ window > 0 /\ ng[s] = "open"
      /\ window' = window \/ window' = window - 1
      /\ UNCHANGED <<waitVars, place, pending_streams, notified, held, ng, in_flight, left,
                     allowed, credit, returned, created, opened>>
  BY DEF stream_receive
<1>2. \/ UNCHANGED <<is_closing, closed_by_app, readable, conn>>
      \/ /\ ~is_closing[s] /\ conn' = "failed"
         /\ is_closing' = [is_closing EXCEPT ![s] = TRUE]
         /\ closed_by_app' = [closed_by_app EXCEPT ![s] = TRUE]
         /\ readable' = [readable EXCEPT ![s] = FALSE]
  BY DEF stream_receive
<1>3. TypeOK
  BY DEF IInv
<1>4. /\ is_closing' \in [Streams -> BOOLEAN] /\ closed_by_app' \in [Streams -> BOOLEAN]
      /\ readable' \in [Streams -> BOOLEAN] /\ window' \in 0..Window
      /\ conn' \in {"alive", "failed"}
  <2>1. /\ is_closing' \in [Streams -> BOOLEAN] /\ closed_by_app' \in [Streams -> BOOLEAN]
        /\ readable' \in [Streams -> BOOLEAN]
    BY <1>2, <1>3 DEF TypeOK
  <2>2. window' \in 0..Window
    BY <1>1, <1>3, LimitAssumption DEF TypeOK
  <2>3. QED
    BY <1>1, <1>2, <2>1, <2>2
<1>5. TypeOK'
  BY <1>1, <1>3, <1>4 DEF TypeOK, waitVars
<1>6. ASSUME NEW t \in Streams PROVE StreamInv(t)'
  <2>1. StreamInv(t)
    BY <1>6 DEF IInv
  <2>2. CASE t # s \/ UNCHANGED <<is_closing, closed_by_app, readable, conn>>
    <3>1. /\ is_closing'[t] = is_closing[t] /\ closed_by_app'[t] = closed_by_app[t]
          /\ readable'[t] = readable[t]
      BY <1>2, <1>3, <2>2 DEF TypeOK
    <3>2. QED
      BY <1>1, <1>4, <2>1, <3>1, StreamKept, ZenonT(60)
  <2>3. ASSUME t = s, ~UNCHANGED <<is_closing, closed_by_app, readable, conn>>
        PROVE  StreamInv(t)'
    <3>1. /\ ~is_closing[s] /\ conn' = "failed" /\ is_closing'[s] = TRUE
          /\ closed_by_app'[s] = TRUE /\ readable'[s] = FALSE
      BY <1>2, <1>3, <2>3 DEF TypeOK
    <3>2. notified'[s] \in 0..1 /\ notified'[s] = notified[s]
      BY <1>1, <1>3, SMTT(30) DEF TypeOK
    <3>3. Ends(s) = 0
      BY <2>1, <2>3, <3>1 DEF StreamInv
    <3>4. Ends(s)' = 1
      BY <3>1, <3>2, <3>3 DEF Ends
    <3>5. QED
      BY <1>1, <2>1, <2>3, <3>1, <3>4, ZenonT(60) DEF StreamInv
  <2>4. QED
    BY <2>2, <2>3
<1>7. PendingMatches' /\ CreditKept'
  BY <1>1, <1>4, PendingKept, CreditUnchanged DEF IInv
<1>8. QED
  BY <1>5, <1>6, <1>7 DEF IInv

\* ~Stream reports the end of the streams that had not been closed.
LEMMA Destroyed ==
  ASSUME TypeOK, \A t \in Streams : StreamInv(t), NEW S, S \subseteq Streams,
         DestroyStreams(S)
  PROVE  /\ place' \in [Streams -> Places] /\ is_closing' \in [Streams -> BOOLEAN]
         /\ notified' \in [Streams -> 0..1]
         /\ \A t \in Streams \ S : /\ place'[t] = place[t] /\ notified'[t] = notified[t]
                                   /\ is_closing'[t] = is_closing[t]
         /\ \A t \in S : /\ place'[t] = "destroyed" /\ is_closing'[t] = TRUE
                         /\ closed_by_app' = closed_by_app => Ends(t)' = 1
<1>1. /\ place' \in [Streams -> Places] /\ is_closing' \in [Streams -> BOOLEAN]
      /\ \A t \in Streams \ S : /\ place'[t] = place[t] /\ notified'[t] = notified[t]
                                /\ is_closing'[t] = is_closing[t]
      /\ \A t \in S : /\ place'[t] = "destroyed" /\ is_closing'[t] = TRUE
                      /\ notified'[t] = IF is_closing[t] THEN notified[t] ELSE notified[t] + 1
  BY ZenonT(60) DEF DestroyStreams, SetAll, TypeOK, Places
<1>2. ASSUME NEW t \in Streams
      PROVE  /\ (IF is_closing[t] THEN notified[t] ELSE notified[t] + 1) \in 0..1
             /\ (IF is_closing[t] THEN notified[t] ELSE notified[t] + 1)
                  + (IF closed_by_app[t] THEN 1 ELSE 0) = 1
  <2>1. notified[t] \in 0..1 /\ StreamInv(t)
    BY DEF TypeOK
  <2>2. is_closing[t] <=> Ends(t) = 1
    BY <2>1, ZenonT(60) DEF StreamInv
  <2>3. Ends(t) \in {0, 1}
    BY <2>1 DEF StreamInv
  <2>4. CASE is_closing[t]
    BY <2>1, <2>2, <2>4 DEF Ends
  <2>5. CASE ~is_closing[t]
    <3>1. Ends(t) = 0
      BY <2>2, <2>3, <2>5
    <3>2. notified[t] = 0 /\ (IF closed_by_app[t] THEN 1 ELSE 0) = 0
      BY <2>1, <3>1 DEF Ends
    <3>3. QED
      BY <2>5, <3>2
  <2>6. QED
    BY <2>4, <2>5
<1>3. notified' \in [Streams -> 0..1]
  BY <1>2 DEF DestroyStreams, TypeOK
<1>4. ASSUME NEW t \in S, closed_by_app' = closed_by_app PROVE Ends(t)' = 1
  <2>1. t \in Streams
    OBVIOUS
  <2>2. notified'[t] = IF is_closing[t] THEN notified[t] ELSE notified[t] + 1
    BY <1>1, ZenonT(60)
  <2>3. (IF is_closing[t] THEN notified[t] ELSE notified[t] + 1)
          + (IF closed_by_app[t] THEN 1 ELSE 0) = 1
    BY <1>2, <2>1
  <2>4. QED
    BY <1>4, <2>2, <2>3, Zenon DEF Ends
<1>5. QED
  BY <1>1, <1>3, <1>4

\* Deleting the Connection reports the end of the streams nobody holds.
LEMMA DeleteConnectionInv ==
  ASSUME IInv, DeleteConnection
  PROVE  IInv'
<1> DEFINE S == {s \in Streams : place[s] \in {"pending", "streams"} /\ ~held[s]}
<1>1. /\ \A s \in Streams : place[s] \notin {"asked", "refused"}
      /\ conn' = "gone" /\ pending_streams' = <<>> /\ DestroyStreams(S)
      /\ UNCHANGED <<waitVars, closed_by_app, held, ngVars, created, opened>>
  BY DEF DeleteConnection
<1>2. TypeOK /\ S \subseteq Streams /\ \A t \in Streams : StreamInv(t)
  BY DEF IInv
<1>3. \A t \in S : place[t] # "none"
  OBVIOUS
<1> HIDE DEF S
<1>4. /\ place' \in [Streams -> Places] /\ is_closing' \in [Streams -> BOOLEAN]
      /\ notified' \in [Streams -> 0..1]
      /\ \A t \in Streams \ S : /\ place'[t] = place[t] /\ notified'[t] = notified[t]
                                /\ is_closing'[t] = is_closing[t]
      /\ \A t \in S : place'[t] = "destroyed" /\ is_closing'[t] = TRUE /\ Ends(t)' = 1
  BY <1>1, <1>2, Destroyed
<1>5. TypeOK'
  BY <1>1, <1>2, <1>4, EmptySeq DEF TypeOK, ngVars, waitVars
<1>6. ASSUME NEW t \in Streams PROVE StreamInv(t)'
  <2>1. StreamInv(t)
    BY <1>2
  <2>2. CASE t \in S
    BY <1>1, <1>3, <1>4, <2>1, <2>2 DEF StreamInv, ngVars
  <2>3. CASE t \notin S
    BY <1>1, <1>4, <2>1, <2>3 DEF StreamInv, Ends, ngVars
  <2>4. QED
    BY <2>2, <2>3
<1>7. PendingMatches' /\ CreditKept'
  BY <1>1 DEF PendingMatches, CreditKept, IsInjective
<1>8. QED
  BY <1>5, <1>6, <1>7 DEF IInv

\* Dropping the last pointer to a stream reports its end.
LEMMA ReleaseStreamInv ==
  ASSUME IInv, NEW s \in Streams, ReleaseStream(s)
  PROVE  IInv'
<1> DEFINE S == IF conn = "gone" \/ place[s] = "erased" THEN {s} ELSE {}
<1>1. /\ held[s] /\ place[s] \notin {"asked", "refused"}
      /\ held' = [held EXCEPT ![s] = FALSE] /\ DestroyStreams(S)
      /\ UNCHANGED <<waitVars, pending_streams, closed_by_app, ngVars, created, opened, conn>>
  BY ZenonT(60) DEF ReleaseStream
<1>2. TypeOK /\ S \subseteq Streams /\ \A t \in Streams : StreamInv(t)
  BY SMTT(30) DEF IInv
<1>3. S \subseteq {s} /\ (s \in S => conn = "gone" \/ place[s] = "erased") /\ s \notin Remotes
  BY <1>1, <1>2 DEF StreamInv
<1> HIDE DEF S
<1>4. /\ place' \in [Streams -> Places] /\ is_closing' \in [Streams -> BOOLEAN]
      /\ notified' \in [Streams -> 0..1]
      /\ \A t \in Streams \ S : /\ place'[t] = place[t] /\ notified'[t] = notified[t]
                                /\ is_closing'[t] = is_closing[t]
      /\ \A t \in S : place'[t] = "destroyed" /\ is_closing'[t] = TRUE /\ Ends(t)' = 1
  BY <1>1, <1>2, Destroyed, ZenonT(60)
<1>5. held' \in [Streams -> BOOLEAN] /\ \A t \in Streams : t # s => held'[t] = held[t]
  BY <1>1, <1>2 DEF TypeOK
<1>6. TypeOK'
  BY <1>1, <1>2, <1>4, <1>5 DEF TypeOK, ngVars, waitVars
<1>7. ASSUME NEW t \in Streams PROVE StreamInv(t)'
  <2>1. StreamInv(t)
    BY <1>2
  <2>2. CASE t # s
    BY <1>1, <1>3, <1>4, <1>5, <2>1, <2>2, StreamKept, ZenonT(60) DEF ngVars
  <2>3. CASE t = s /\ t \in S
    BY <1>1, <1>3, <1>4, <2>1, <2>3, ZenonT(60) DEF StreamInv, ngVars
  <2>4. CASE t = s /\ t \notin S
    BY <1>1, <1>3, <1>4, <2>1, <2>4, ZenonT(60) DEF StreamInv, Ends, ngVars
  <2>5. QED
    BY <2>2, <2>3, <2>4
<1>8. PendingMatches'
  <2>1. PendingMatches
    BY DEF IInv
  <2>2. CASE conn = "gone"
    BY <1>1, <2>1, <2>2, ZenonT(60) DEF PendingMatches
  <2>3. ASSUME conn # "gone" PROVE PendingMatches'
    <3>1. \A t \in Locals : place'[t] = "pending" <=> place[t] = "pending"
      BY <1>3, <1>4, <2>3 DEF Streams
    <3>2. QED
      BY <1>1, <2>1, <3>1, PendingKept
  <2>4. QED
    BY <2>2, <2>3
<1>9. CreditKept'
  <2>1. \A r \in Remotes : place'[r] = place[r]
    BY <1>3, <1>4 DEF Streams
  <2>2. QED
    BY <1>1, <2>1, CreditUnchanged DEF IInv, ngVars
<1>10. QED
  BY <1>6, <1>7, <1>8, <1>9 DEF IInv

\* Every step keeps the invariant.
LEMMA NextInv == IInv /\ [Next]_vars => IInv'
<1> SUFFICES ASSUME IInv, [Next]_vars PROVE IInv'
  OBVIOUS
<1>1. CASE UNCHANGED vars
  <2>1. TypeOK'
    BY <1>1 DEF IInv, TypeOK, vars, objVars, ngVars, waitVars
  <2>2. \A s \in Streams : StreamInv(s)'
    BY <1>1, StreamKept, ZenonT(60) DEF IInv, vars, objVars, ngVars
  <2>3. PendingMatches' /\ CreditKept'
    BY <1>1, PendingKept, CreditUnchanged DEF IInv, vars, objVars, ngVars
  <2>4. QED
    BY <2>1, <2>2, <2>3 DEF IInv
<1>2. CASE \E s \in Locals : get_new_stream(s) \/ AskForStream(s) \/ StoreStream(s)
  BY <1>2, GetNewStreamInv, AskForStreamInv, StoreStreamInv
<1>3. CASE \E n \in 1..PeerLimit : extend_max_local_streams_bidi(n)
  BY <1>3, ExtendInv
<1>4. CASE \E s \in Remotes : stream_opened(s)
  BY <1>4, StreamOpenedInv
<1>5. CASE \E s \in Streams : close(s) \/ on_stream_reset(s) \/ on_stream_close(s)
  BY <1>5, CloseInv, StreamResetInv, StreamCloseInv
<1>6. CASE \E s \in Streams : SendData(s) \/ stream_ack(s) \/ ReleaseStream(s)
  BY <1>6, FlightInv, ReleaseStreamInv
<1>7. CASE \E s \in Streams : \E fin, throws \in BOOLEAN : stream_receive(s, fin, throws)
  BY <1>7, StreamReceiveInv
<1>8. CASE DeleteConnection
  BY <1>8, DeleteConnectionInv
<1>9. QED
  BY <1>1, <1>2, <1>3, <1>4, <1>5, <1>6, <1>7, <1>8 DEF Next

\* The inductive invariant holds in every reachable state.
LEMMA InvAlways == Spec => []IInv
BY InitInv, NextInv, PTL DEF Spec

\* The fields keep their types, for any numbers of streams: ngtcp2's counters of
\* streams and of bytes never go below zero.
THEOREM TableTyped == Spec => []TypeOK
BY InvAlways, PTL DEF IInv

\* pending_streams holds each stream that waits for permission once, and no
\* other.
THEOREM WaitingOnce == Spec => []PendingMatches
BY InvAlways, PTL DEF IInv

\* The owner of a stream learns of its end once: by its own close() or by one
\* call of close_callback.
THEOREM EndLearnedOnce == Spec => []NotifiedOnce
<1>1. IInv => NotifiedOnce
  <2> SUFFICES ASSUME IInv, NEW s \in Streams
               PROVE  /\ is_closing[s] <=> Ends(s) = 1
                      /\ Ends(s) <= 1
                      /\ place[s] = "destroyed" => Ends(s) = 1
    BY DEF NotifiedOnce, Ends
  <2>1. /\ is_closing[s] <=> Ends(s) = 1
        /\ Ends(s) \in {0, 1}
        /\ place[s] = "destroyed" => is_closing[s]
    BY Zenon DEF IInv, StreamInv
  <2>2. Ends(s) <= 1
    BY <2>1
  <2>3. QED
    BY <2>1, <2>2, Zenon
<1>2. QED
  BY <1>1, InvAlways, PTL

\* Data that ngtcp2 can deliver finds its stream in the map.
THEOREM DataFindsStream == Spec => []DeliverableIsStored
<1>1. IInv => DeliverableIsStored
  BY DEF IInv, StreamInv, DeliverableIsStored
<1>2. QED
  BY <1>1, InvAlways, PTL

\* Each stream of the peer that was accepted gives its credit back once, and the
\* peer never has more than max_streams.
THEOREM CreditReturnedOnce == Spec => []CreditOnce
<1>1. IInv => CreditOnce
  <2> SUFFICES ASSUME IInv, conn # "gone"
               PROVE  /\ \A s \in Remotes :
                           /\ place[s] = "streams" => returned[s] = 0
                           /\ place[s] \in {"erased", "destroyed"} => returned[s] = 1
                      /\ credit + Count({"streams"}) <= MaxStreams
    BY Zenon DEF CreditOnce
  <2> DEFINE R == {s \in Remotes : place[s] \in {"streams"}}
             T == {s \in Remotes : place[s] \in {"streams", "rejected"}}
  <2>1. IsFiniteSet(T) /\ R \subseteq T
    BY StreamsAssumption, FS_Subset
  <2>2. /\ Cardinality(R) <= Cardinality(T)
        /\ Cardinality(R) \in Nat /\ Cardinality(T) \in Nat
    BY <2>1, FS_Subset, FS_CardinalityType
  <2>3. credit + Cardinality(T) = MaxStreams /\ credit \in Nat /\ MaxStreams \in Nat
    BY LimitAssumption DEF IInv, CreditKept, Count, TypeOK
  <2>4. credit + Cardinality(R) <= MaxStreams
    BY <2>2, <2>3
  <2>5. \A s \in Remotes : /\ place[s] = "streams" => returned[s] = 0
                           /\ place[s] \in {"erased", "destroyed"} => returned[s] = 1
    BY DEF IInv, CreditKept
  <2>6. QED
    BY <2>4, <2>5, Zenon DEF Count
<1>2. QED
  BY <1>1, InvAlways, PTL
-----------------------------------------------------------------------------
\* A step that leaves the queue and the limit alone strands no stream.
LEMMA DrainedKept ==
  ASSUME PendingDrained, UNCHANGED <<pending_streams, left, late, narrowed>>
  PROVE  PendingDrained'
BY DEF PendingDrained

\* Asking ngtcp2 for a stream can only lower what is left of the limit.
LEMMA AskedLeft ==
  ASSUME IInv, NEW s \in Locals, AskNgtcp2(s)
  PROVE  left \in Nat /\ left' \in Nat /\ left' <= left /\ (~(left > 0) => left' = 0)
BY DEF AskNgtcp2, IInv, TypeOK

\* After a raise whose count fits an int, the queue is empty or the limit used
\* up.
LEMMA ExtendDrained ==
  ASSUME IInv, NEW n \in 1..PeerLimit, extend_max_local_streams_bidi(n)
  PROVE  PendingDrained'
<1> DEFINE k == Popped(ToInt(left + n))
<1>1. /\ left' = left + n - k
      /\ narrowed' = "last" \/ ToInt(left + n) = left + n
      /\ pending_streams' = SubSeq(pending_streams, k + 1, Len(pending_streams))
  BY DEF extend_max_local_streams_bidi, pop_front
<1>2. pending_streams \in Seq(Locals) /\ left + n \in Nat
  BY LimitAssumption DEF IInv, TypeOK
<1>3. k \in Int /\ (ToInt(left + n) = left + n => k = Len(pending_streams) \/ k = left + n)
  BY <1>2, PoppedBound, LenProperties
<1> HIDE DEF k
<1>4. CASE narrowed' = "last"
  BY <1>4 DEF PendingDrained
<1>5. CASE k = Len(pending_streams)
  <2>1. Len(pending_streams) \in Nat
    BY <1>2, LenProperties
  <2>2. Len(pending_streams) \in Int /\ Len(pending_streams) + 1 \in Int
        /\ Len(pending_streams) < Len(pending_streams) + 1
    BY <2>1
  <2>3. SubSeq(pending_streams, Len(pending_streams) + 1, Len(pending_streams)) = <<>>
    BY <2>2, SubSeqEmpty, Zenon
  <2>4. pending_streams' = <<>>
    BY <1>1, <1>5, <2>3
  <2>5. QED
    BY <2>4 DEF PendingDrained
<1>6. CASE k = left + n
  <2>1. left' = 0
    BY <1>1, <1>2, <1>6 DEF IInv, TypeOK
  <2>2. QED
    BY <2>1 DEF PendingDrained
<1>7. QED
  BY <1>1, <1>3, <1>4, <1>5, <1>6

\* Only a late queueing or a count that does not fit strands a stream.
LEMMA NextDrained == IInv /\ PendingDrained /\ [Next]_vars => PendingDrained'
<1> SUFFICES ASSUME IInv, PendingDrained, [Next]_vars PROVE PendingDrained'
  OBVIOUS
<1>1. CASE UNCHANGED vars
  BY <1>1, DrainedKept DEF vars, objVars, ngVars, waitVars
<1>2. ASSUME NEW s \in Locals, get_new_stream(s) PROVE PendingDrained'
  <2>1. /\ AskNgtcp2(s) /\ UNCHANGED <<late, narrowed>>
        /\ left > 0 => pending_streams' = pending_streams
    BY <1>2 DEF get_new_stream, Store, waitVars
  <2>2. left \in Nat /\ left' \in Nat /\ left' <= left /\ (~(left > 0) => left' = 0)
    BY <2>1, AskedLeft
  <2>3. QED
    BY <2>1, <2>2 DEF PendingDrained
<1>3. ASSUME NEW s \in Locals, AskForStream(s) PROVE PendingDrained'
  <2>1. AskNgtcp2(s) /\ UNCHANGED <<pending_streams, late, narrowed>>
    BY <1>3 DEF AskForStream
  <2>2. left \in Nat /\ left' \in Nat /\ left' <= left
    BY <2>1, AskedLeft
  <2>3. QED
    BY <2>1, <2>2 DEF PendingDrained
<1>4. ASSUME NEW s \in Locals, StoreStream(s) PROVE PendingDrained'
  <2>1. /\ place[s] = "refused" \/ pending_streams' = pending_streams
        /\ late' = (late \/ (place[s] = "refused" /\ left > 0))
        /\ UNCHANGED <<left, narrowed>>
    BY <1>4 DEF StoreStream, Store, ngVars
  <2>2. QED
    BY <2>1 DEF PendingDrained
<1>5. ASSUME NEW n \in 1..PeerLimit, extend_max_local_streams_bidi(n) PROVE PendingDrained'
  BY <1>5, ExtendDrained
<1>6. ASSUME NEW s \in Remotes, stream_opened(s) PROVE PendingDrained'
  BY <1>6, DrainedKept DEF stream_opened, waitVars
<1>7. ASSUME NEW s \in Streams, close(s) \/ on_stream_reset(s) \/ on_stream_close(s)
      PROVE  PendingDrained'
  BY <1>7, DrainedKept, ZenonT(60) DEF close, on_stream_reset, on_stream_close, waitVars
<1>8. ASSUME NEW s \in Streams, SendData(s) \/ stream_ack(s) \/ ReleaseStream(s)
      PROVE  PendingDrained'
  BY <1>8, DrainedKept, ZenonT(60) DEF SendData, stream_ack, ReleaseStream, objVars, ngVars, waitVars
<1>9. ASSUME NEW s \in Streams, NEW fin \in BOOLEAN, NEW throws \in BOOLEAN,
             stream_receive(s, fin, throws)
      PROVE  PendingDrained'
  BY <1>9, DrainedKept DEF stream_receive, waitVars
<1>10. CASE DeleteConnection
  BY <1>10 DEF DeleteConnection, PendingDrained
<1>11. QED
  BY <1>1, <1>2, <1>3, <1>4, <1>5, <1>6, <1>7, <1>8, <1>9, <1>10 DEF Next

\* Whatever limits the peer sets, and on whatever threads get_new_stream is
\* called, a stream waits with permission available only when it was queued late
\* or the count at the last raise did not fit an int.
THEOREM NoneWaitsNeedlessly == Spec => []PendingDrained
<1>1. Init => PendingDrained
  BY DEF Init, PendingDrained
<1>2. QED
  BY <1>1, InvAlways, NextDrained, PTL DEF Spec
-----------------------------------------------------------------------------
\* The order of the streams when get_new_stream is called on the loop and every
\* count has fitted an int: those created are those opened followed by those
\* waiting, and none waits with permission available.
OrderInv ==
  ~off_loop =>
    /\ \A s \in Locals : place[s] \notin {"asked", "refused"}
    /\ narrowed = "never" =>
         IF conn = "gone"
         THEN pending_streams = <<>> /\ opened = SubSeq(created, 1, Len(opened))
         ELSE created = opened \o pending_streams /\ (pending_streams # <<>> => left = 0)

\* Concatenation of sequences of streams is associative.
LEMMA LocalConcat ==
  \A a, b, c \in Seq(Locals) : a \o b \in Seq(Locals) /\ (a \o b) \o c = a \o (b \o c)
<1> TAKE a, b, c \in Seq(Locals)
<1>1. a \o b \in Seq(Locals)
  BY ConcatProperties
<1>2. (a \o b) \o c = a \o (b \o c)
  BY ConcatAssociative
<1>3. QED
  BY <1>1, <1>2

\* The empty sequence is neutral.
LEMMA LocalEmpty == \A a \in Seq(Locals) : a \o <<>> = a
BY ConcatEmptySeq

\* Appending to a concatenation appends to its second part.
LEMMA LocalAppend ==
  \A a, b \in Seq(Locals) : \A s \in Locals : Append(a \o b, s) = a \o Append(b, s)
<1> TAKE a, b \in Seq(Locals)
<1> TAKE s \in Locals
<1>1. a \o b \in Seq(Locals) /\ <<s>> \in Seq(Locals)
  BY ConcatProperties
<1>2. Append(a \o b, s) = (a \o b) \o <<s>>
  BY <1>1, AppendIsConcat
<1>3. Append(b, s) = b \o <<s>>
  BY AppendIsConcat
<1>4. (a \o b) \o <<s>> = a \o (b \o <<s>>)
  BY <1>1, ConcatAssociative
<1>5. QED
  BY <1>2, <1>3, <1>4, Zenon

\* Appending is concatenating a sequence of one.
LEMMA LocalPush == \A a \in Seq(Locals) : \A s \in Locals :
  Append(a, s) = a \o <<s>> /\ <<s>> \in Seq(Locals)
BY AppendIsConcat

\* The first part of a concatenation is its prefix.
LEMMA LocalPrefix == \A a, b \in Seq(Locals) : SubSeq(a \o b, 1, Len(a)) = a
<1> TAKE a, b \in Seq(Locals)
<1>1. CASE a = <<>>
  BY <1>1, SubSeqEmpty
<1>2. CASE a # <<>>
  <2>1. Len(a) \in 1..Len(a) /\ 1 \in 1..Len(a)
    BY <1>2, EmptySeq, LenProperties
  <2>2. SubSeq(a \o b, 1, Len(a)) = SubSeq(a, 1, Len(a))
    BY <2>1, SubSeqOfConcat1, Zenon
  <2>3. QED
    BY <2>2, SubSeqFull, Zenon
<1>3. QED
  BY <1>1, <1>2

\* The order is kept by a step that neither opens nor queues a stream.
LEMMA OrderKept ==
  ASSUME OrderInv, UNCHANGED <<created, opened, pending_streams, left, off_loop, narrowed>>,
         conn' = "gone" <=> conn = "gone",
         \A s \in Locals : place'[s] \in {"asked", "refused"} => place[s] \in {"asked", "refused"}
  PROVE  OrderInv'
BY DEF OrderInv

\* get_new_stream on the loop's thread keeps the order: it opens a stream only
\* when none waits.
LEMMA GetNewStreamOrder ==
  ASSUME IInv, OrderInv, NEW s \in Locals, get_new_stream(s)
  PROVE  OrderInv'
<1>1. /\ AskNgtcp2(s) /\ Store(s, left > 0) /\ UNCHANGED <<off_loop, narrowed>>
      /\ conn # "gone" /\ conn' = conn
      /\ created' = Append(created, s)
  BY DEF get_new_stream, AskNgtcp2, waitVars
<1>2. TypeOK /\ left \in Nat
  BY DEF IInv, TypeOK
<1>3. opened \in Seq(Locals) /\ pending_streams \in Seq(Locals) /\ created \in Seq(Locals)
  BY <1>2 DEF TypeOK
<1>4. ASSUME ~off_loop PROVE \A t \in Locals : place'[t] \notin {"asked", "refused"}
  BY <1>1, <1>2, <1>4 DEF OrderInv, Store, TypeOK, Streams
<1>5. ASSUME ~off_loop, narrowed = "never"
      PROVE  created' = opened' \o pending_streams' /\ (pending_streams' # <<>> => left' = 0)
  <2>1. created = opened \o pending_streams /\ (pending_streams # <<>> => left = 0)
    BY <1>1, <1>5 DEF OrderInv
  <2>2. CASE left > 0
    <3>1. pending_streams = <<>> /\ pending_streams' = <<>>
      BY <1>1, <2>1, <2>2 DEF Store
    <3>2. opened' = opened \o <<s>>
      BY <1>1, <2>2, Zenon DEF AskNgtcp2, open_bidi_streams
    <3>3. created = opened
      BY <1>3, <2>1, <3>1, LocalEmpty, Zenon
    <3>4. created' = opened \o <<s>>
      BY <1>1, <1>3, <3>3, LocalPush, Zenon
    <3>5. opened' \in Seq(Locals)
      BY <1>3, <3>2, LocalConcat, LocalPush, Zenon
    <3>6. opened' \o <<>> = opened'
      BY <3>5, LocalEmpty, Zenon
    <3>7. QED
      BY <3>1, <3>2, <3>4, <3>6
  <2>3. CASE ~(left > 0)
    <3>1. opened' = opened /\ pending_streams' = Append(pending_streams, s) /\ left' = 0
      BY <1>1, <1>2, <2>3 DEF AskNgtcp2, Store, push_back
    <3>2. Append(opened \o pending_streams, s) = opened \o Append(pending_streams, s)
      BY <1>3, LocalAppend, Zenon
    <3>3. QED
      BY <1>1, <2>1, <3>1, <3>2
  <2>4. QED
    BY <2>2, <2>3
<1>6. QED
  BY <1>1, <1>4, <1>5 DEF OrderInv

\* A raised limit opens streams from the front of the queue, and leaves one
\* waiting only when the limit is used up or the count does not fit an int.
LEMMA ExtendOrder ==
  ASSUME IInv, OrderInv, NEW n \in 1..PeerLimit, extend_max_local_streams_bidi(n)
  PROVE  OrderInv'
<1> DEFINE k == Popped(ToInt(left + n))
           ss == SubSeq(pending_streams, 1, k)
           rest == SubSeq(pending_streams, k + 1, Len(pending_streams))
<1>1. /\ conn = "alive" /\ left' = left + n - k /\ open_bidi_streams(ss)
      /\ place' = SetAll(place, Range(ss), "streams")
      /\ pending_streams' = rest
      /\ UNCHANGED <<off_loop, created, conn>>
  BY DEF extend_max_local_streams_bidi, pop_front
<1>2. narrowed' = "never" => narrowed = "never" /\ ToInt(left + n) = left + n
  BY DEF extend_max_local_streams_bidi
<1>3. /\ opened \in Seq(Locals) /\ pending_streams \in Seq(Locals) /\ created \in Seq(Locals)
      /\ TypeOK /\ left \in Nat /\ n \in Nat
  BY LimitAssumption DEF IInv, TypeOK
<1>4. left + n \in Nat
  BY <1>3
<1>5. /\ k \in 0..Len(pending_streams)
      /\ ToInt(left + n) = left + n => k = Len(pending_streams) \/ k = left + n
  BY <1>3, <1>4, PoppedBound
<1>6. /\ ss \in Seq(Locals) /\ rest \in Seq(Locals) /\ ss \o rest = pending_streams
  BY <1>3, <1>5, QueueSplit
<1>7. k = Len(pending_streams) => rest = <<>>
  <2>1. Len(pending_streams) \in Int /\ Len(pending_streams) + 1 \in Int
        /\ Len(pending_streams) < Len(pending_streams) + 1
    BY <1>3, LenProperties
  <2>2. SubSeq(pending_streams, Len(pending_streams) + 1, Len(pending_streams)) = <<>>
    BY <2>1, SubSeqEmpty, Zenon
  <2>3. QED
    BY <2>2
<1>8. k \in Nat
  BY <1>3, <1>5, LenProperties
<1> HIDE DEF k, ss, rest
<1>9. k = left + n => left' = 0
  BY <1>1, <1>3, <1>8
<1>10. opened' = opened \o ss
  BY <1>1 DEF open_bidi_streams
<1>11. ASSUME ~off_loop, narrowed = "never" PROVE created' = opened' \o pending_streams'
  <2>1. created = opened \o (ss \o rest)
    BY <1>1, <1>6, <1>11 DEF OrderInv
  <2>2. (opened \o ss) \o rest = opened \o (ss \o rest)
    <3>1. opened \in Seq(Locals) /\ ss \in Seq(Locals) /\ rest \in Seq(Locals)
      BY <1>3, <1>6
    <3>2. QED
      BY <3>1, LocalConcat, ZenonT(60)
  <2>3. QED
    BY <1>1, <1>10, <2>1, <2>2
<1>12. ASSUME ~off_loop PROVE \A t \in Locals : place'[t] \notin {"asked", "refused"}
  BY <1>1, <1>3, <1>12 DEF OrderInv, SetAll, TypeOK, Streams
<1>13. narrowed' = "never" /\ pending_streams' # <<>> => left' = 0
  BY <1>1, <1>2, <1>5, <1>7, <1>9
<1>14. QED
  BY <1>1, <1>2, <1>11, <1>12, <1>13 DEF OrderInv

\* Deleting the Connection keeps what is known of the opened streams.
LEMMA DeleteConnectionOrder ==
  ASSUME IInv, OrderInv, DeleteConnection
  PROVE  OrderInv'
<1>1. /\ conn # "gone" /\ conn' = "gone" /\ pending_streams' = <<>>
      /\ \A s \in Streams : place[s] \notin {"asked", "refused"}
      /\ UNCHANGED <<left, off_loop, narrowed, created, opened>>
  BY DEF DeleteConnection, ngVars, waitVars
<1>2. opened \in Seq(Locals) /\ pending_streams \in Seq(Locals)
  BY DEF IInv, TypeOK
<1>3. ~off_loop /\ narrowed = "never" => opened = SubSeq(created, 1, Len(opened))
  <2>1. SubSeq(opened \o pending_streams, 1, Len(opened)) = opened
    BY <1>2, LocalPrefix, Zenon
  <2>2. QED
    BY <1>1, <2>1 DEF OrderInv
<1>4. \A s \in Locals : place'[s] \notin {"asked", "refused"}
  <2>1. \A s \in Locals : place'[s] \in {place[s], "destroyed"}
    BY DEF DeleteConnection, DestroyStreams, SetAll, IInv, TypeOK, Streams
  <2>2. QED
    BY <1>1, <2>1 DEF Streams
<1>5. QED
  BY <1>1, <1>3, <1>4 DEF OrderInv

\* Every step keeps the order.
LEMMA NextOrder == IInv /\ OrderInv /\ [Next]_vars => OrderInv'
<1> SUFFICES ASSUME IInv, OrderInv, [Next]_vars PROVE OrderInv'
  OBVIOUS
<1>1. place \in [Streams -> Places] /\ TypeOK
  BY DEF IInv, TypeOK
<1>2. CASE UNCHANGED vars
  BY <1>2, OrderKept DEF vars, objVars, ngVars, waitVars
<1>3. ASSUME NEW s \in Locals, get_new_stream(s) PROVE OrderInv'
  BY <1>3, GetNewStreamOrder
<1>4. ASSUME NEW s \in Locals, AskForStream(s) PROVE OrderInv'
  BY <1>4 DEF AskForStream, OrderInv
<1>5. ASSUME NEW s \in Locals, StoreStream(s) PROVE OrderInv'
  BY <1>5 DEF StoreStream, OrderInv
<1>6. ASSUME NEW n \in 1..PeerLimit, extend_max_local_streams_bidi(n) PROVE OrderInv'
  BY <1>6, ExtendOrder
<1>7. ASSUME NEW s \in Remotes, stream_opened(s) PROVE OrderInv'
  <2>1. place' \in {[place EXCEPT ![s] = "streams"], [place EXCEPT ![s] = "rejected"]}
    BY <1>7 DEF stream_opened, RejectStream
  <2>2. \A t \in Locals : place'[t] \in {"asked", "refused"} => place[t] \in {"asked", "refused"}
    BY <1>1, <2>1 DEF Streams
  <2>3. QED
    BY <1>7, <2>2, OrderKept DEF stream_opened, waitVars
<1>8. ASSUME NEW s \in Streams, close(s) PROVE OrderInv'
  BY <1>8, OrderKept DEF close, waitVars
<1>9. ASSUME NEW s \in Streams, on_stream_reset(s) \/ on_stream_close(s) PROVE OrderInv'
  <2>1. \A t \in Locals : place'[t] \in {"asked", "refused"} => place[t] \in {"asked", "refused"}
    BY <1>1, <1>9, SMTT(30) DEF on_stream_reset, on_stream_close, stream_closed, Streams
  <2>2. QED
    BY <1>9, <2>1, OrderKept, ZenonT(60) DEF on_stream_reset, on_stream_close, waitVars
<1>10. ASSUME NEW s \in Streams, SendData(s) \/ stream_ack(s) PROVE OrderInv'
  BY <1>10, OrderKept DEF SendData, stream_ack, objVars, waitVars
<1>11. ASSUME NEW s \in Streams, NEW fin \in BOOLEAN, NEW throws \in BOOLEAN,
             stream_receive(s, fin, throws)
       PROVE OrderInv'
  BY <1>11, OrderKept DEF stream_receive, waitVars
<1>12. ASSUME NEW s \in Streams, ReleaseStream(s) PROVE OrderInv'
  <2>1. \A t \in Locals : place'[t] \in {"asked", "refused"} => place[t] \in {"asked", "refused"}
    BY <1>1, <1>12 DEF ReleaseStream, DestroyStreams, SetAll, Streams
  <2>2. QED
    BY <1>12, <2>1, OrderKept, ZenonT(60) DEF ReleaseStream, ngVars, waitVars
<1>13. CASE DeleteConnection
  BY <1>13, DeleteConnectionOrder
<1>14. QED
  BY <1>2, <1>3, <1>4, <1>5, <1>6, <1>7, <1>8, <1>9, <1>10, <1>11, <1>12, <1>13 DEF Next

\* The order holds of a new Connection.
LEMMA InitOrder == Init => OrderInv
<1> SUFFICES ASSUME Init PROVE OrderInv
  OBVIOUS
<1>1. \A s \in Locals : place[s] = "none"
  BY DEF Init, Streams
<1>2. <<>> \o <<>> = <<>>
  BY EmptySeq, ConcatEmptySeq
<1>3. QED
  BY <1>1, <1>2 DEF Init, OrderInv

\* The order holds in every reachable state.
LEMMA OrderAlways == Spec => []OrderInv
BY InvAlways, InitOrder, NextOrder, PTL DEF Spec

\* As long as get_new_stream is called on the loop's thread and every count has
\* fitted an int, streams get their ids in the order of the get_new_stream calls.
THEOREM IdsInOrder == Spec => []OpenedInOrder
<1>1. IInv /\ OrderInv => OpenedInOrder
  <2> SUFFICES ASSUME IInv, OrderInv, ~off_loop, narrowed = "never"
               PROVE  opened = SubSeq(created, 1, Len(opened))
    BY DEF OpenedInOrder
  <2>1. opened \in Seq(Locals) /\ pending_streams \in Seq(Locals)
    BY DEF IInv, TypeOK
  <2>2. SubSeq(opened \o pending_streams, 1, Len(opened)) = opened
    BY <2>1, LocalPrefix, Zenon
  <2>3. QED
    BY <2>2 DEF OrderInv
<1>2. QED
  BY <1>1, InvAlways, OrderAlways, PTL
=============================================================================
