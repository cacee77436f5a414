---------------------------- MODULE StreamTable ----------------------------
(***************************************************************************)
(* The streams of one Connection: the map `streams` of open ones, the      *)
(* queue pending_streams of those waiting for the peer's permission, and   *)
(* the ngtcp2 callbacks that open, feed, acknowledge and close them.       *)
(*                                                                         *)
(* Callbacks and jobs run on the event loop's thread.  get_new_stream is   *)
(* not passed to the loop: called from another thread its two halves (ask  *)
(* ngtcp2 for a stream, store it) interleave with the callbacks.           *)
(***************************************************************************)
EXTENDS Integers, Sequences, FiniteSets, Functions

CONSTANTS
  Locals,      \* Stream objects the application creates
  Remotes,     \* streams the peer opens
  MaxStreams,  \* max_streams: the concurrent streams allowed to the peer
  PeerLimit,   \* bound: streams the peer ever allows us
  IntMod,      \* 2^32 in the code: uint64_t is narrowed to int
  Window       \* initial_max_data, in chunks: what the peer may send unread

ASSUME LimitAssumption ==
  MaxStreams \in Nat \ {0} /\ PeerLimit \in Nat /\ IntMod \in Nat \ {0} /\ Window \in Nat
ASSUME StreamsAssumption ==
  Locals \cap Remotes = {} /\ IsFiniteSet(Remotes)

Streams == Locals \cup Remotes

VARIABLES
  place,       \* per stream: where the Connection keeps it
  pending_streams,
  is_closing,  \* per stream: is_closing, set together with is_shutdown
  closed_by_app, \* per stream: close() was the first to close it
  notified,    \* per stream: calls of close_callback
  held,        \* per stream: the application has a shared_ptr to it
  ng,          \* ngtcp2, per stream: "none", "open" or "closed"
  readable,    \* ngtcp2, per stream: data may still be delivered
  in_flight,   \* ngtcp2, per stream: data was sent and not acknowledged
  left,        \* ngtcp2: streams we may still open
  allowed,     \* ngtcp2: streams the peer ever allowed us
  credit,      \* ngtcp2: streams the peer may still open
  window,      \* ngtcp2: chunks the peer may still send on the connection
  created,     \* history: the local streams in the order of get_new_stream
  opened,      \* history: the local streams in the order of their ids
  returned,    \* history, per remote stream: credits given back for it
  off_loop,    \* history: get_new_stream was called from another thread
  late,        \* history: another thread queued a refused stream after the last
               \* raise of the limit, with permission available
  narrowed,    \* history: a count passed to check_pending_streams did not fit an
               \* int: "never", at the "last" raise of the limit, or "before"
  conn         \* "alive", "failed" (a callback returned an error) or "gone"

objVars == <<place, pending_streams, is_closing, closed_by_app, notified, held>>
ngVars == <<ng, readable, in_flight, left, allowed, credit, returned, window>>
waitVars == <<off_loop, late, narrowed>>
vars == <<objVars, ngVars, created, opened, waitVars, conn>>

Places == {"none", "asked", "refused", "pending", "streams", "rejected", "erased", "destroyed"}

Init ==
  /\ place = [s \in Streams |-> "none"]
  /\ pending_streams = <<>>
  /\ is_closing = [s \in Streams |-> FALSE]
  /\ closed_by_app = [s \in Streams |-> FALSE]
  /\ notified = [s \in Streams |-> 0]
  /\ held = [s \in Streams |-> FALSE]
  /\ ng = [s \in Streams |-> "none"]
  /\ readable = [s \in Streams |-> FALSE]
  /\ in_flight = [s \in Streams |-> FALSE]
  /\ left = 0 /\ allowed = 0
  /\ credit = MaxStreams /\ window = Window
  /\ created = <<>> /\ opened = <<>>
  /\ returned = [s \in Remotes |-> 0]
  /\ off_loop = FALSE /\ late = FALSE /\ narrowed = "never"
  /\ conn = "alive"

SetAll(f, S, v) == [s \in DOMAIN f |-> IF s \in S THEN v ELSE f[s]]
-----------------------------------------------------------------------------
\* ngtcp2_conn_open_bidi_stream succeeds for the streams of ss, in order.
open_bidi_streams(ss) ==
  /\ ng' = SetAll(ng, Range(ss), "open")
  /\ readable' = SetAll(readable, Range(ss), TRUE)
  /\ opened' = opened \o ss

\* Mutant: the queue is used as a stack.
push_back_Front(queue, s) == <<s>> \o queue

push_back(queue, s) == Append(queue, s)

\* The first half of get_new_stream: make the Stream, ask ngtcp2 to open it.
AskNgtcp2(s) ==
  /\ conn # "gone"
  /\ place[s] = "none"
  /\ held' = [held EXCEPT ![s] = TRUE]
  /\ created' = Append(created, s)
  /\ IF left > 0
     THEN open_bidi_streams(<<s>>) /\ left' = left - 1
     ELSE UNCHANGED <<ng, readable, opened, left>>
  /\ UNCHANGED <<is_closing, closed_by_app, notified, in_flight, allowed, credit,
                 returned, window, conn>>

\* The second half: store it in the map, or in the queue when refused.
Store(s, granted) ==
  /\ place' = [place EXCEPT ![s] = IF granted THEN "streams" ELSE "pending"]
  /\ pending_streams' =
       IF granted THEN pending_streams ELSE push_back(pending_streams, s)

\* get_new_stream on the loop's thread.
get_new_stream(s) ==
  /\ AskNgtcp2(s)
  /\ Store(s, left > 0)
  /\ UNCHANGED waitVars

\* get_new_stream on another thread, in two steps.
AskForStream(s) ==
  /\ AskNgtcp2(s)
  /\ place' = [place EXCEPT ![s] = IF left > 0 THEN "asked" ELSE "refused"]
  /\ off_loop' = TRUE
  /\ UNCHANGED <<pending_streams, late, narrowed>>

StoreStream(s) ==
  /\ place[s] \in {"asked", "refused"}
  /\ Store(s, place[s] = "asked")
  /\ late' = (late \/ (place[s] = "refused" /\ left > 0))
  /\ UNCHANGED <<is_closing, closed_by_app, notified, held, ngVars, created, opened,
                 off_loop, narrowed, conn>>
-----------------------------------------------------------------------------
\* check_pending_streams takes an int.
ToInt(n) == ((n + IntMod \div 2) % IntMod) - (IntMod \div 2)

\* Mutant: the loop stops one short.
Popped_OneShort(available) ==
  IF available > Len(pending_streams) THEN Len(pending_streams)
  ELSE IF available > 0 THEN available - 1 ELSE 0

\* How many of the pending streams its loop opens.
Popped(available) ==
  IF available >= Len(pending_streams) THEN Len(pending_streams)
  ELSE IF available > 0 THEN available ELSE 0

\* Mutant: a popped stream is moved out of the queue's entry, which stays.
pop_front_Keep(queue, k) == queue

pop_front(queue, k) == SubSeq(queue, k + 1, Len(queue))

\* The peer raises its limit by n: extend_max_local_streams_bidi.
extend_max_local_streams_bidi(n) ==
  LET k  == Popped(ToInt(left + n))
      ss == SubSeq(pending_streams, 1, k)
  IN  /\ conn = "alive"
      /\ allowed + n <= PeerLimit
      /\ allowed' = allowed + n
      /\ left' = left + n - k
      /\ open_bidi_streams(ss)
      /\ place' = SetAll(place, Range(ss), "streams")
      /\ pending_streams' = pop_front(pending_streams, k)
      /\ late' = FALSE
      /\ narrowed' = IF ToInt(left + n) # left + n THEN "last"
                     ELSE IF narrowed = "never" THEN "never" ELSE "before"
      /\ UNCHANGED <<off_loop, is_closing, closed_by_app, notified, held, in_flight, credit,
                     returned, window, created, conn>>

\* Mutant: the stream is dropped but ngtcp2 is not told.
RejectStream_NotClosed(s) ==
  /\ place' = [place EXCEPT ![s] = "rejected"]
  /\ is_closing' = [is_closing EXCEPT ![s] = TRUE]
  /\ closed_by_app' = [closed_by_app EXCEPT ![s] = TRUE]
  /\ readable' = [readable EXCEPT ![s] = TRUE]

RejectStream(s) ==
  /\ place' = [place EXCEPT ![s] = "rejected"]
  /\ is_closing' = [is_closing EXCEPT ![s] = TRUE]
  /\ closed_by_app' = [closed_by_app EXCEPT ![s] = TRUE]
  /\ UNCHANGED readable

\* The peer opens a stream; stream_open_cb accepts it, or rejects it and the
\* Stream is closed and destroyed without having been stored.
stream_opened(s) ==
  /\ conn = "alive"
  /\ ng[s] = "none" /\ credit > 0
  /\ ng' = [ng EXCEPT ![s] = "open"]
  /\ credit' = credit - 1
  /\ \/ /\ place' = [place EXCEPT ![s] = "streams"]
        /\ readable' = [readable EXCEPT ![s] = TRUE]
        /\ UNCHANGED <<is_closing, closed_by_app>>
     \/ RejectStream(s)
  /\ UNCHANGED <<waitVars, pending_streams, notified, held, in_flight, left, allowed,
                 returned, window, created, opened, conn>>

\* Stream::close, run as a job; ngtcp2_conn_shutdown_stream does nothing for a
\* stream that has no id yet.
close(s) ==
  /\ conn # "gone"
  /\ \/ held[s] /\ place[s] \in {"pending", "streams", "erased"}
     \/ s \in Remotes /\ place[s] = "streams"
  /\ closed_by_app' = [closed_by_app EXCEPT ![s] = @ \/ ~is_closing[s]]
  /\ is_closing' = [is_closing EXCEPT ![s] = TRUE]
  /\ readable' = [readable EXCEPT ![s] = @ /\ is_closing[s]]
  /\ UNCHANGED <<waitVars, place, pending_streams, notified, held, ng, in_flight, left, allowed,
                 credit, returned, window, created, opened, conn>>

\* ngtcp2_conn_extend_max_streams_bidi, for a stream that is not local.
extend_max_streams(s) ==
  /\ credit' = IF s \in Remotes THEN credit + 1 ELSE credit
  /\ returned' = [r \in Remotes |-> IF r = s THEN returned[r] + 1 ELSE returned[r]]

\* Mutant: close_callback is called although the stream was closing already.
stream_closed_Again(s) ==
  IF place[s] # "streams"
  THEN UNCHANGED <<place, is_closing, notified, credit, returned>>
  ELSE /\ notified' = [notified EXCEPT ![s] = @ + 1]
       /\ is_closing' = [is_closing EXCEPT ![s] = TRUE]
       /\ place' = [place EXCEPT ![s] = IF held[s] THEN "erased" ELSE "destroyed"]
       /\ extend_max_streams(s)

\* Mutant: credit is returned whether or not the stream was still in the map.
stream_closed_NoLookup(s) ==
  /\ notified' = [notified EXCEPT ![s] = IF is_closing[s] THEN @ ELSE @ + 1]
  /\ is_closing' = [is_closing EXCEPT ![s] = TRUE]
  /\ place' = [place EXCEPT ![s] = IF held[s] THEN "erased" ELSE "destroyed"]
  /\ extend_max_streams(s)

\* stream_closed, for ngtcp2's stream_close and stream_reset callbacks.
stream_closed(s) ==
  IF place[s] # "streams"
  THEN UNCHANGED <<place, is_closing, notified, credit, returned>>
  ELSE /\ notified' = [notified EXCEPT ![s] = IF is_closing[s] THEN @ ELSE @ + 1]
       /\ is_closing' = [is_closing EXCEPT ![s] = TRUE]
       /\ place' = [place EXCEPT ![s] = IF held[s] THEN "erased" ELSE "destroyed"]
       /\ extend_max_streams(s)

\* The peer resets its side, of its own accord or because close() asked it to
\* stop: ngtcp2 keeps the stream until ours is done too.
on_stream_reset(s) ==
  /\ conn = "alive"
  /\ ng[s] = "open" /\ place[s] # "asked"
  /\ readable' = [readable EXCEPT ![s] = FALSE]
  /\ stream_closed(s)
  /\ UNCHANGED <<waitVars, pending_streams, closed_by_app, held, ng, in_flight, left, allowed,
                 window, created, opened, conn>>

on_stream_close(s) ==
  /\ conn # "gone"
  /\ ng[s] = "open" /\ place[s] # "asked"
  /\ ng' = [ng EXCEPT ![s] = "closed"]
  /\ readable' = [readable EXCEPT ![s] = FALSE]
  /\ in_flight' = [in_flight EXCEPT ![s] = FALSE]
  /\ stream_closed(s)
  /\ UNCHANGED <<waitVars, pending_streams, closed_by_app, held, left, allowed, window, created,
                 opened, conn>>
-----------------------------------------------------------------------------
\* flush_streams hands data of an open stream to ngtcp2.
SendData(s) ==
  /\ conn = "alive"
  /\ place[s] = "streams" /\ readable[s]
  /\ in_flight' = [in_flight EXCEPT ![s] = TRUE]
  /\ UNCHANGED <<waitVars, objVars, ng, readable, left, allowed, credit, returned, window,
                 created, opened, conn>>

\* An acknowledgement for a stream that is not in the map fails the callback,
\* and with it the connection.
stream_ack(s) ==
  /\ conn = "alive"
  /\ ng[s] = "open" /\ in_flight[s]
  /\ in_flight' = [in_flight EXCEPT ![s] = FALSE]
  /\ conn' = IF place[s] = "streams" THEN conn ELSE "failed"
  /\ UNCHANGED <<waitVars, objVars, ng, readable, left, allowed, credit, returned, window,
                 created, opened>>

\* Data arrives, with or without the end of the stream.  When data_callback
\* throws the stream is closed and the callback fails; close() has cleared the
\* data_callback of a stream that is closing, which therefore cannot throw.
stream_receive(s, fin, throws) ==
  /\ conn = "alive"
  /\ ng[s] = "open" /\ readable[s] /\ window > 0
  /\ IF throws
     THEN /\ ~is_closing[s]
          /\ is_closing' = [is_closing EXCEPT ![s] = TRUE]
          /\ closed_by_app' = [closed_by_app EXCEPT ![s] = TRUE]
          /\ readable' = [readable EXCEPT ![s] = FALSE]
          /\ conn' = "failed"
          /\ window' = window - 1
     ELSE /\ window' = IF fin THEN window - 1 ELSE window
          /\ UNCHANGED <<is_closing, closed_by_app, readable, conn>>
  /\ UNCHANGED <<waitVars, place, pending_streams, notified, held, ng, in_flight, left, allowed,
                 credit, returned, created, opened>>

\* ~Stream for every stream of S.
DestroyStreams(S) ==
  /\ notified' = [s \in Streams |->
       IF s \in S /\ ~is_closing[s] THEN notified[s] + 1 ELSE notified[s]]
  /\ is_closing' = SetAll(is_closing, S, TRUE)
  /\ place' = SetAll(place, S, "destroyed")

\* The endpoint deletes the Connection, which drops its streams.
DeleteConnection ==
  /\ conn # "gone"
  /\ \A s \in Streams : place[s] \notin {"asked", "refused"}
  /\ conn' = "gone"
  /\ pending_streams' = <<>>
  /\ DestroyStreams({s \in Streams : place[s] \in {"pending", "streams"} /\ ~held[s]})
  /\ UNCHANGED <<waitVars, closed_by_app, held, ngVars, created, opened>>

\* The application drops its pointer.
ReleaseStream(s) ==
  /\ held[s] /\ place[s] \notin {"asked", "refused"}
  /\ held' = [held EXCEPT ![s] = FALSE]
  /\ DestroyStreams(IF conn = "gone" \/ place[s] = "erased" THEN {s} ELSE {})
  /\ UNCHANGED <<waitVars, pending_streams, closed_by_app, ngVars, created, opened, conn>>

Next ==
  \/ \E s \in Locals : get_new_stream(s) \/ AskForStream(s) \/ StoreStream(s)
  \/ \E n \in 1..PeerLimit : extend_max_local_streams_bidi(n)
  \/ \E s \in Remotes : stream_opened(s)
  \/ \E s \in Streams :
       \/ close(s) \/ on_stream_reset(s) \/ on_stream_close(s)
       \/ SendData(s) \/ stream_ack(s) \/ ReleaseStream(s)
       \/ \E fin, throws \in BOOLEAN : stream_receive(s, fin, throws)
  \/ DeleteConnection

Spec == Init /\ [][Next]_vars
-----------------------------------------------------------------------------
\* Types of the fields; ngtcp2's counters never go below zero.
TypeOK ==
  /\ place \in [Streams -> Places]
  /\ pending_streams \in Seq(Locals)
  /\ is_closing \in [Streams -> BOOLEAN] /\ closed_by_app \in [Streams -> BOOLEAN]
  /\ notified \in [Streams -> 0..1]
  /\ held \in [Streams -> BOOLEAN]
  /\ ng \in [Streams -> {"none", "open", "closed"}]
  /\ readable \in [Streams -> BOOLEAN] /\ in_flight \in [Streams -> BOOLEAN]
  /\ left \in Nat /\ allowed \in 0..PeerLimit
  /\ credit \in 0..MaxStreams /\ window \in 0..Window
  /\ created \in Seq(Locals) /\ opened \in Seq(Locals)
  /\ returned \in [Remotes -> 0..1]
  /\ off_loop \in BOOLEAN /\ late \in BOOLEAN
  /\ narrowed \in {"never", "before", "last"}
  /\ conn \in {"alive", "failed", "gone"}

\* A stream waits in pending_streams although the peer allows another one in two
\* cases only: get_new_stream on another thread queued a stream it had been
\* refused before the last raise of the limit, or the count of streams left did
\* not fit the int of check_pending_streams at that raise.  No other order of
\* calls and callbacks strands a stream, and the next raise that fits takes up
\* what either case has left.
PendingDrained == pending_streams # <<>> /\ left > 0 => late \/ narrowed = "last"

\* Ids are given in the order of the get_new_stream calls: a stream that waits
\* is not overtaken by one created later.  This holds as long as get_new_stream
\* is called on the loop's thread and the count of streams left has fitted an
\* int at every raise of the limit.
OpenedInOrder ==
  ~off_loop /\ narrowed = "never" => opened = SubSeq(created, 1, Len(opened))

\* pending_streams holds each waiting stream once and nothing else.
PendingMatches ==
  /\ IsInjective(pending_streams)
  /\ conn # "gone" =>
       Range(pending_streams) = {s \in Locals : place[s] = "pending"}

\* However a stream ends first (close(), by the application or by the library
\* for a rejected stream and for an exception of data_callback, the peer, the
\* end of the connection), it ends once: either by close() or with one call of
\* close_callback, never both and never twice.
NotifiedOnce ==
  \A s \in Streams :
    LET ends == notified[s] + (IF closed_by_app[s] THEN 1 ELSE 0)
    IN  /\ is_closing[s] <=> ends = 1
        /\ ends <= 1
        /\ place[s] = "destroyed" => ends = 1

\* Whenever ngtcp2 can deliver data for a stream the stream is in the map (or
\* the peer does not know it yet), so the lookup of stream_receive succeeds.
DeliverableIsStored ==
  \A s \in Streams :
    ng[s] = "open" /\ readable[s] /\ conn = "alive" =>
      place[s] \in {"streams", "asked"}

Count(P) == Cardinality({s \in Remotes : place[s] \in P})

\* A stream of the peer that was accepted gives its credit back exactly once,
\* when it leaves the map: a reset followed by the close of the stream does not
\* return it twice, and close() by the application does not lose it.  So the
\* peer's open streams and the streams it may still open never exceed
\* max_streams.  Rejected streams are the subject of MaxStreamsConcurrent.
CreditOnce ==
  conn # "gone" =>
    /\ \A s \in Remotes :
         /\ place[s] = "streams" => returned[s] = 0
         /\ place[s] \in {"erased", "destroyed"} => returned[s] = 1
    /\ credit + Count({"streams"}) <= MaxStreams

\* "Max concurrent streams supported on one connection": the streams the peer
\* has open and those it may still open are at least max_streams.
MaxStreamsConcurrent ==
  credit + Cardinality({s \in Remotes : ng[s] = "open"}) >= MaxStreams
=============================================================================
