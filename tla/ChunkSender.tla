---------------------------- MODULE ChunkSender ----------------------------
(***************************************************************************)
(* Stream::send_chunks: a chunk_sender asks the application's next_chunk   *)
(* for data, first `simultaneous` times and then whenever the last         *)
(* reference to a chunk goes away, and calls done when there is no more.   *)
(*                                                                         *)
(* make() runs on the thread that calls send_chunks: the event loop's or   *)
(* one of the application's.  The loop's thread acknowledges chunks.  Both *)
(* run queue_next_chunk.  A chunk is its number; 0 is what done() sends.   *)
(***************************************************************************)
EXTENDS Naturals, Sequences, FiniteSets, Functions

CONSTANTS
  NumChunks,    \* non-empty chunks next_chunk has to give
  simultaneous  \* argument of send_chunks

ASSUME ChunksAssumption == NumChunks \in Nat /\ simultaneous \in Nat \ {0}

VARIABLES
  on_loop,       \* send_chunks was called on the loop's thread
  initial,       \* calls of queue_next_chunk that make() has to finish
  pc, chunk,     \* where make() and the loop's thread are, with which chunk
  given,         \* chunks next_chunk gave
  next_chunk,    \* it is not null
  dones,         \* calls of done
  jobs,          \* Network: the sends queued for the loop's thread
  user_buffers,  \* Stream: chunks not acknowledged
  appended,      \* chunks ever put into user_buffers
  acked,         \* how many were acknowledged
  destroyed,     \* ~Stream has begun
  crashed        \* undefined behaviour ended the process

vars == <<on_loop, initial, pc, chunk, given, next_chunk, dones, jobs, user_buffers,
          appended, acked, destroyed, crashed>>

\* Mutant: i <= initial_queue.
InitialQueue_Plus == simultaneous + 1

InitialQueue == simultaneous

Init ==
  /\ on_loop \in BOOLEAN
  /\ initial = InitialQueue
  /\ pc = [make |-> "queue", loop |-> "idle"]
  /\ chunk = [make |-> 0, loop |-> 0]
  /\ given = 0
  /\ next_chunk = TRUE
  /\ dones = 0
  /\ jobs = <<>> /\ user_buffers = <<>> /\ appended = <<>>
  /\ acked = 0
  /\ destroyed = FALSE
  /\ crashed = FALSE
-----------------------------------------------------------------------------
\* Stream::send: queued for the loop's thread, or done at once by it.  A
\* stream whose deque is being destroyed loses the chunk or crashes.
Inline(w) == w = "loop" \/ on_loop

send(w, c) ==
  /\ jobs' = IF Inline(w) THEN jobs ELSE Append(jobs, c)
  /\ user_buffers' = IF Inline(w) /\ ~destroyed THEN Append(user_buffers, c)
                     ELSE user_buffers
  /\ appended' = IF Inline(w) /\ ~destroyed THEN Append(appended, c) ELSE appended
  /\ crashed' \in IF Inline(w) /\ destroyed THEN BOOLEAN ELSE {FALSE}

\* queue_next_chunk returns: to make()'s loop, or to acknowledge.
Return(w) ==
  /\ initial' = IF w = "make" THEN initial - 1 ELSE initial
  /\ pc' = [pc EXCEPT ![w] = IF w = "make" /\ initial > 1 THEN "queue" ELSE "idle"]
  /\ chunk' = [chunk EXCEPT ![w] = 0]

\* if (!next_chunk) return;
CheckNext(w) ==
  /\ ~crashed
  /\ pc[w] = "queue"
  /\ IF next_chunk
     THEN pc' = [pc EXCEPT ![w] = "checked"] /\ UNCHANGED <<initial, chunk>>
     ELSE Return(w)
  /\ UNCHANGED <<on_loop, given, next_chunk, dones, jobs, user_buffers, appended,
                 acked, destroyed, crashed>>

\* The call of next_chunk; the other thread may have made it null meanwhile.
CallNext(w) ==
  /\ ~crashed
  /\ pc[w] = "checked"
  /\ IF ~next_chunk
     THEN crashed' = TRUE /\ UNCHANGED <<pc, chunk, given>>
     ELSE /\ IF given < NumChunks
             THEN /\ given' = given + 1
                  /\ chunk' = [chunk EXCEPT ![w] = given + 1]
                  /\ pc' = [pc EXCEPT ![w] = "has"]
             ELSE pc' = [pc EXCEPT ![w] = "empty"] /\ UNCHANGED <<given, chunk>>
          /\ UNCHANGED crashed
  /\ UNCHANGED <<on_loop, initial, next_chunk, dones, jobs, user_buffers, appended,
                 acked, destroyed>>

\* Mutant: next_chunk stays.
NextAtEnd_Kept == TRUE

NextAtEnd == FALSE

\* No data: done() is called, and sends more.
Finish(w) ==
  /\ ~crashed
  /\ pc[w] = "empty"
  /\ next_chunk' = NextAtEnd
  /\ dones' = dones + 1
  /\ send(w, 0)
  /\ Return(w)
  /\ UNCHANGED <<on_loop, given, acked, destroyed>>

\* The chunk is sent.  A thread that is not the loop's has a reference to it
\* until send returns.
SendChunk(w) ==
  /\ ~crashed
  /\ pc[w] = "has"
  /\ send(w, chunk[w])
  /\ IF Inline(w) THEN Return(w)
     ELSE pc' = [pc EXCEPT ![w] = "sent"] /\ UNCHANGED <<initial, chunk>>
  /\ UNCHANGED <<on_loop, given, next_chunk, dones, acked, destroyed>>

\* Mutant: ~single_chunk does nothing on other threads.
LastReference_Loop == FALSE

\* make()'s reference is the last one.
LastReference == chunk.make \notin (Range(jobs) \cup Range(user_buffers))

\* When send returns, the chunk may have been acknowledged already: it is
\* destroyed here, and queues the next one.
SendReturns ==
  /\ ~crashed
  /\ pc.make = "sent"
  /\ IF LastReference
     THEN /\ pc' = [pc EXCEPT !.make = "queue"]
          /\ chunk' = [chunk EXCEPT !.make = 0]
          /\ UNCHANGED initial
     ELSE Return("make")
  /\ UNCHANGED <<on_loop, given, next_chunk, dones, jobs, user_buffers, appended,
                 acked, destroyed, crashed>>
-----------------------------------------------------------------------------
\* The loop's thread is free for the next job or acknowledgement.
LoopFree == ~crashed /\ pc.loop = "idle" /\ (on_loop => pc.make = "idle")

\* The job of send has a bare pointer to the stream.
RunJob ==
  /\ LoopFree
  /\ jobs # <<>>
  /\ jobs' = Tail(jobs)
  /\ IF destroyed THEN crashed' = TRUE /\ UNCHANGED <<user_buffers, appended>>
     ELSE /\ user_buffers' = Append(user_buffers, Head(jobs))
          /\ appended' = Append(appended, Head(jobs))
          /\ UNCHANGED crashed
  /\ UNCHANGED <<on_loop, initial, pc, chunk, given, next_chunk, dones, acked, destroyed>>

\* The first buffer leaves the deque; a chunk that has no other reference is
\* destroyed, and queues the next one.
PopFront ==
  /\ LoopFree
  /\ user_buffers # <<>>
  /\ user_buffers' = Tail(user_buffers)
  /\ pc' = [pc EXCEPT !.loop = IF Head(user_buffers) \in {0, chunk.make}
                               THEN "idle" ELSE "queue"]
  /\ UNCHANGED <<on_loop, initial, chunk, given, next_chunk, dones, jobs, appended,
                 destroyed, crashed>>

acknowledge == ~destroyed /\ PopFront /\ acked' = acked + 1

\* The stream goes away with its connection; send_chunks' caller holds it.
DestroyStream ==
  /\ LoopFree
  /\ pc.make = "idle" /\ ~destroyed
  /\ destroyed' = TRUE
  /\ UNCHANGED <<on_loop, initial, pc, chunk, given, next_chunk, dones, jobs,
                 user_buffers, appended, acked, crashed>>

DestroyBuffer == destroyed /\ PopFront /\ UNCHANGED acked

Make == CheckNext("make") \/ CallNext("make") \/ Finish("make") \/ SendChunk("make")
          \/ SendReturns

Loop == CheckNext("loop") \/ CallNext("loop") \/ Finish("loop") \/ SendChunk("loop")
          \/ RunJob \/ acknowledge \/ DestroyBuffer

Next == Make \/ Loop \/ DestroyStream

Spec == Init /\ [][Next]_vars

\* Both threads go on, and the peer acknowledges what it is sent.
FairSpec == Spec /\ WF_vars(Make) /\ WF_vars(Loop)
-----------------------------------------------------------------------------
\* Types of the fields.
TypeOK ==
  /\ {on_loop, next_chunk, destroyed, crashed} \subseteq BOOLEAN
  /\ initial \in 0..simultaneous
  /\ pc \in [{"make", "loop"} -> {"idle", "queue", "checked", "empty", "has", "sent"}]
  /\ chunk \in [{"make", "loop"} -> 0..NumChunks]
  /\ given \in 0..NumChunks
  /\ {jobs, user_buffers, appended} \subseteq Seq(0..NumChunks)
  /\ dones \in Nat /\ acked \in Nat

Active == (Range(jobs) \cup Range(user_buffers) \cup Range(chunk)) \ {0}

\* "You can rely on no more than simultaneous being active at a time", on
\* whichever thread chunks are created and destroyed.
ActiveBound == Cardinality(Active) <= simultaneous

\* send_chunks called on the loop's thread: the stream gets the chunks in the
\* order next_chunk gave them, and done() is called once, when all of them are
\* queued, so what it appends follows them.
InOrderOnLoop ==
  on_loop =>
    /\ Len(appended) <= NumChunks + 1
    /\ \A i \in 1..Len(appended) : appended[i] = (IF i > NumChunks THEN 0 ELSE i)

\* While the stream lives, next_chunk is asked for more only when a chunk has
\* been "completely send and acknolwedged by the other end".
NextAfterAck == ~destroyed => given <= simultaneous + acked

\* The chain of chunks does not break: next_chunk is asked until it has no
\* more, although a chunk may be destroyed on either thread.
Finishes == <>(dones > 0 \/ destroyed \/ crashed)

\* "Note that done() is called once all chunks are queued".
DoneAfterQueued == dones > 0 => \A c \in 1..given : c \in Range(appended) \cup Range(jobs)
=============================================================================
