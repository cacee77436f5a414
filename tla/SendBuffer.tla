----------------------------- MODULE SendBuffer -----------------------------
(***************************************************************************)
(* The send side of a Stream: the deque user_buffers of views the          *)
(* application queued, the counter unacked_size, and the loops that find   *)
(* the next byte to send and drop what has been acknowledged.              *)
(*                                                                         *)
(* A byte is its position in the stream, so a view is the interval lo..hi-1*)
(* of positions; what ngtcp2 keeps for the stream is the offset it will    *)
(* send next and the offset acknowledged so far.                           *)
(***************************************************************************)
EXTENDS Integers, Sequences

CONSTANTS
  Sizes,        \* the lengths of the views the application may send()
  MaxAppended,  \* bound: bytes the application queues over the stream's life
  MaxViews,     \* bound: views queued at a time (a view may have no bytes)
  SizeT         \* 2^64 in the code: the modulus of size_t

ASSUME SizesAssumption == Sizes \subseteq Nat
ASSUME BoundAssumption == MaxAppended \in Nat /\ SizeT \in Nat /\ MaxAppended < SizeT

VARIABLES
  user_buffers,  \* the queued views that are not completely acknowledged
  unacked_size,  \* bytes handed to ngtcp2 and not acknowledged
  appended,      \* bytes ever queued: the position of the next appended byte
  tx_offset,     \* ngtcp2: the stream offset of the next byte it is given
  acked_offset   \* ngtcp2: every byte before this offset is acknowledged

vars == <<user_buffers, unacked_size, appended, tx_offset, acked_offset>>

View == [lo : Nat, hi : Nat]

SizeOf(v) == v.hi - v.lo

\* The partial sums of the view sizes: SumTo(bufs)[i] is that of the first i.
SumTo(bufs) ==
  LET sum[i \in 0..Len(bufs)] ==
        IF i = 0 THEN 0 ELSE sum[i - 1] + SizeOf(bufs[i])
  IN  sum

size(bufs) == SumTo(bufs)[Len(bufs)]

\* The subtraction is one of size_t: it wraps when it would be negative.
unsent(bufs, unacked) ==
  LET d == size(bufs) - unacked IN IF d >= 0 THEN d ELSE d + SizeT

\* What is left of n bytes once the views before the i-th are skipped.
Rest(bufs, n, i) == n - SumTo(bufs)[i - 1]

\* The condition under which both skipping loops go past the i-th view.
Skips(bufs, n, i) ==
  /\ i <= Len(bufs)
  /\ Rest(bufs, n, i) >= SizeOf(bufs[i])
  /\ Rest(bufs, n, i) > 0

\* The view at which they stop (one past the last when all are skipped).
StopsAt(bufs, n) ==
  CHOOSE i \in 1..(Len(bufs) + 1) :
    /\ ~Skips(bufs, n, i)
    /\ \A j \in 1..(i - 1) : Skips(bufs, n, j)

RemovePrefix(v, n) == [lo |-> v.lo + n, hi |-> v.hi]

\* The views from the i-th on, the i-th without its first k bytes.
From(bufs, i, k) ==
  IF i > Len(bufs) THEN <<>>
  ELSE <<RemovePrefix(bufs[i], k)>> \o SubSeq(bufs, i + 1, Len(bufs))

\* Mutant: the view is found and the offset into it forgotten.
get_buffer_it_NoOffset(bufs, offset) == <<StopsAt(bufs, offset), 0>>

get_buffer_it(bufs, offset) ==
  LET i == StopsAt(bufs, offset) IN <<i, Rest(bufs, offset, i)>>

pending(bufs, unacked) ==
  IF bufs = <<>> \/ unsent(bufs, unacked) = 0 THEN <<>>
  ELSE LET it == get_buffer_it(bufs, unacked) IN From(bufs, it[1], it[2])

\* Mutant: a view acknowledged in part is dropped.
DropAcked_Whole(bufs, bytes) ==
  LET i == StopsAt(bufs, bytes)
  IN  From(bufs, IF Rest(bufs, bytes, i) > 0 THEN i + 1 ELSE i, 0)

\* Mutant: the front view keeps its acknowledged prefix.
DropAcked_NoTrim(bufs, bytes) == From(bufs, StopsAt(bufs, bytes), 0)

\* The loop drops whole views; what is left of bytes trims the front view.
DropAcked(bufs, bytes) ==
  LET i == StopsAt(bufs, bytes) IN From(bufs, i, Rest(bufs, bytes, i))
-----------------------------------------------------------------------------
Init ==
  /\ user_buffers = <<>>
  /\ unacked_size = 0
  /\ appended = 0
  /\ tx_offset = 0
  /\ acked_offset = 0

append_buffer(n) ==
  /\ appended + n <= MaxAppended
  /\ Len(user_buffers) < MaxViews
  /\ user_buffers' = Append(user_buffers, [lo |-> appended, hi |-> appended + n])
  /\ appended' = appended + n
  /\ UNCHANGED <<unacked_size, tx_offset, acked_offset>>

\* flush_streams offers pending() to ngtcp2_conn_writev_stream, which takes
\* the first n of its bytes and sends them at its own offset.
wrote(n) ==
  /\ pending(user_buffers, unacked_size) # <<>>
  /\ n \in 1..size(pending(user_buffers, unacked_size))
  /\ unacked_size' = unacked_size + n
  /\ tx_offset' = tx_offset + n
  /\ UNCHANGED <<user_buffers, appended, acked_offset>>

\* ngtcp2 reports the next n bytes acknowledged (none for a bare FIN).
acknowledge(n) ==
  /\ acked_offset + n <= tx_offset
  /\ acked_offset' = acked_offset + n
  /\ unacked_size' = unacked_size - n
  /\ user_buffers' = DropAcked(user_buffers, n)
  /\ UNCHANGED <<appended, tx_offset>>

Next ==
  \/ \E n \in Sizes : append_buffer(n)
  \/ \E n \in 1..MaxAppended : wrote(n)
  \/ \E n \in 0..MaxAppended : acknowledge(n)

Spec == Init /\ [][Next]_vars
-----------------------------------------------------------------------------
\* Types of the fields; counters never exceed the bytes queued.
TypeOK ==
  /\ user_buffers \in Seq(View)
  /\ unacked_size \in Nat
  /\ appended \in 0..MaxAppended
  /\ tx_offset \in 0..MaxAppended
  /\ acked_offset \in 0..MaxAppended

\* The views are adjacent intervals that end where the next append begins.
Contiguous(bufs, end) ==
  /\ \A i \in 1..Len(bufs) : bufs[i].lo <= bufs[i].hi
  /\ \A i \in 1..(Len(bufs) - 1) : bufs[i].hi = bufs[i + 1].lo
  /\ bufs # <<>> => bufs[Len(bufs)].hi = end

\* The first byte pending() offers is the one ngtcp2 will put at its next
\* offset, and the rest follow without gap up to the last byte queued: no
\* byte is sent twice, skipped or sent under another byte's offset, whatever
\* the ack and view boundaries.  When nothing is offered all has been sent.
PendingIsUnsent ==
  LET p == pending(user_buffers, unacked_size)
  IN  IF p = <<>> THEN tx_offset = appended
      ELSE p[1].lo = tx_offset /\ Contiguous(p, appended)

\* ngtcp2 may retransmit any byte it was given until it is acknowledged, and
\* holds only pointers: acknowledge() must not release a view with such a byte.
UnackedBytesKept ==
  \A p \in acked_offset..(appended - 1) :
    \E i \in 1..Len(user_buffers) :
      user_buffers[i].lo <= p /\ p < user_buffers[i].hi

\* unsent() never wraps and counts what ngtcp2 was not given yet.
UnsentExact == unsent(user_buffers, unacked_size) = appended - tx_offset

\* The position of the first byte still held.
First(bufs, end) == IF bufs = <<>> THEN end ELSE bufs[1].lo

Base == First(user_buffers, appended)

\* The views tile the bytes from the first unacknowledged one to the last one
\* queued, so an acknowledged view is gone and a trimmed one starts at the
\* acknowledged offset; unacked_size counts exactly the bytes in flight.
Accounting ==
  /\ Contiguous(user_buffers, appended)
  /\ Base = acked_offset
  /\ acked_offset + unacked_size = tx_offset
  /\ tx_offset <= appended

\* The stream's own fields implement the promise of ByteStream.
Promise == INSTANCE ByteStream
             WITH queued <- appended, sent <- Base + unacked_size, acked <- Base

\* Whatever send(), flush_streams and the acknowledgements do, the stream is
\* an ordered byte stream: it releases only bytes it sent, sends only bytes it
\* was given, and never goes back.
ImplementsByteStream == Promise!Spec
=============================================================================
