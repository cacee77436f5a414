-------------------------- MODULE NetworkLoopProofs --------------------------
(***************************************************************************)
(* The safety of the job queue and of close(), for any number of threads   *)
(* and jobs.                                                               *)
(***************************************************************************)
EXTENDS NetworkLoop, SequenceTheorems, TLAPS

CloseJobs(q) == {i \in 1..Len(q) : q[i].kind = "close"}

AtMostOne(q) == \A i, j \in CloseJobs(q) : i = j

\* A swapped queue is emptied before job_waker's callback returns.
SwappedRun == loop # "jobs" => swapped_queue = <<>>

\* The threads in close() between the exchange on running and the queueing.
Asking == {t \in Threads : thread[t] = "closing"}

\* Nothing has come of a close() yet: none has passed the exchange, or the one
\* that has did not queue its job.
NoneQueued == running \/ Asking # {}

\* One close() passes the exchange on running: it is about to queue its job, or
\* the job is in a queue, or it has been run; FinalOnce alone is not inductive.
OneClose ==
  /\ running => Asking = {}
  /\ \A s, t \in Asking : s = t
  /\ NoneQueued => finals = 0 /\ CloseJobs(swapped_queue) = {} /\ CloseJobs(job_queue) = {}
  /\ finals = 0 \/ (finals = 1 /\ CloseJobs(swapped_queue) = {} /\ CloseJobs(job_queue) = {})
  /\ AtMostOne(swapped_queue) /\ AtMostOne(job_queue)
  /\ CloseJobs(swapped_queue) = {} \/ CloseJobs(job_queue) = {}

\* The application queues at most MaxPosted jobs, close() one more.
PostedBound == Len(posted) <= MaxPosted + (IF NoneQueued THEN 0 ELSE 1)

IInv == TypeOK /\ FIFO /\ NoLostWakeup /\ SwappedRun /\ OneClose /\ PostedBound

\* What TypeOK says of each variable.
LEMMA Types ==
  ASSUME TypeOK
  PROVE  /\ own \in BOOLEAN /\ running \in BOOLEAN /\ endpoints \in BOOLEAN
         /\ waker \in BOOLEAN /\ exit_event \in BOOLEAN /\ gotterm \in BOOLEAN
         /\ asked \in BOOLEAN /\ final \in BOOLEAN
         /\ job_queue \in Seq(Jobs) /\ swapped_queue \in Seq(Jobs)
         /\ posted \in Seq(Jobs) /\ ran \in Seq(Jobs) /\ finals \in Nat
         /\ thread \in [Threads -> {"idle", "closing", "queued", "waiting", "returning"}]
         /\ then \in [Threads -> {"idle", "waiting", "returning"}]
         /\ future \in [Threads -> {"none", "pending", "ready"}]
  BY DEF TypeOK

\* A queued job is a job.
LEMMA JobType ==
  ASSUME TypeOK, NEW t \in Threads, NEW kind \in {"work", "wait", "close"}
  PROVE  Job(t, kind) \in Jobs /\ Job(t, kind).kind = kind
<1>1. Len(posted) \in Nat
  BY Types, LenProperties
<1>2. QED
  BY <1>1 DEF Job, Jobs

\* Appending to the last queue appends to the concatenation.
LEMMA AppendLast ==
  ASSUME NEW S, NEW a \in Seq(S), NEW b \in Seq(S), NEW c \in Seq(S), NEW x \in S
  PROVE  a \o b \o Append(c, x) = Append(a \o b \o c, x)
<1>1. a \o b \in Seq(S) /\ a \o b \o c \in Seq(S) /\ <<x>> \in Seq(S)
  BY ConcatProperties
<1>2. Append(c, x) = c \o <<x>> /\ Append(a \o b \o c, x) = (a \o b \o c) \o <<x>>
  BY <1>1, AppendIsConcat
<1>3. QED
  BY <1>1, <1>2, ConcatAssociative

\* Running the first job of the swapped queue leaves the concatenation alone.
LEMMA MoveHead ==
  ASSUME NEW S, NEW a \in Seq(S), NEW b \in Seq(S), b # <<>>
  PROVE  Append(a, Head(b)) \o Tail(b) = a \o b
<1>1. Head(b) \in S /\ Tail(b) \in Seq(S)
  BY HeadTailProperties
<1>2. b = <<Head(b)>> \o Tail(b) /\ <<Head(b)>> \in Seq(S)
  <2>1. SubSeq(b, 1, Len(b)) = b /\ Tail(b) = SubSeq(b, 2, Len(b)) /\ Len(b) \in Nat \ {0}
    BY SubSeqFull, TailIsSubSeq, EmptySeq
  <2>2. 1 \in 1..Len(b) /\ Len(b) \in 1..Len(b) /\ 1 + 1 = 2
    BY <2>1
  <2>3. SubSeq(b, 1, Len(b)) = <<b[1]>> \o SubSeq(b, 1 + 1, Len(b))
    BY <2>2, SubSeqRecursiveFirst
  <2>4. Head(b) = b[1]
    OBVIOUS
  <2>5. QED
    BY <1>1, <2>1, <2>2, <2>3, <2>4
<1>3. Append(a, Head(b)) = a \o <<Head(b)>>
  BY <1>1, AppendIsConcat
<1>4. QED
  BY <1>1, <1>2, <1>3, ConcatAssociative

\* Queueing a job that is not close()'s adds no close job; close()'s adds one.
LEMMA ClosesAppend ==
  ASSUME NEW q \in Seq(Jobs), NEW j \in Jobs
  PROVE  CloseJobs(Append(q, j)) =
           IF j.kind = "close" THEN CloseJobs(q) \cup {Len(q) + 1} ELSE CloseJobs(q)
<1>1. /\ Len(q) \in Nat /\ Len(Append(q, j)) = Len(q) + 1
      /\ \A i \in 1..Len(q) : Append(q, j)[i] = q[i]
      /\ Append(q, j)[Len(q) + 1] = j
  BY AppendProperties, LenProperties
<1>2. 1..(Len(q) + 1) = 1..Len(q) \cup {Len(q) + 1} /\ Len(q) + 1 \notin 1..Len(q)
  BY <1>1
<1>3. QED
  BY <1>1, <1>2 DEF CloseJobs

\* Of a queue with at most one close job, running the first leaves at most one,
\* and none when the first was that job.
LEMMA ClosesTail ==
  ASSUME NEW q \in Seq(Jobs), q # <<>>, AtMostOne(q)
  PROVE  /\ AtMostOne(Tail(q))
         /\ Head(q).kind = "close" => CloseJobs(Tail(q)) = {} /\ CloseJobs(q) # {}
         /\ CloseJobs(q) = {} => CloseJobs(Tail(q)) = {}
<1>1. /\ Len(q) \in Nat /\ Len(q) >= 1 /\ Len(Tail(q)) = Len(q) - 1
      /\ \A i \in 1..(Len(q) - 1) : Tail(q)[i] = q[i + 1]
      /\ Head(q) = q[1]
  BY HeadTailProperties, LenProperties, EmptySeq
<1>2. \A i \in CloseJobs(Tail(q)) : i \in Nat /\ i >= 1 /\ i + 1 \in CloseJobs(q)
  BY <1>1 DEF CloseJobs
<1>3. Head(q).kind = "close" => 1 \in CloseJobs(q)
  BY <1>1 DEF CloseJobs
<1>4. AtMostOne(Tail(q))
  <2> SUFFICES ASSUME NEW i \in CloseJobs(Tail(q)), NEW j \in CloseJobs(Tail(q)) PROVE i = j
    BY DEF AtMostOne
  <2>1. i + 1 = j + 1
    BY <1>2 DEF AtMostOne
  <2>2. QED
    BY <1>2, <2>1
<1>5. ASSUME Head(q).kind = "close" PROVE CloseJobs(Tail(q)) = {}
  <2> SUFFICES ASSUME NEW i \in CloseJobs(Tail(q)) PROVE FALSE
    OBVIOUS
  <2>1. i + 1 = 1
    BY <1>2, <1>3, <1>5 DEF AtMostOne
  <2>2. QED
    BY <1>2, <2>1
<1>6. QED
  BY <1>2, <1>3, <1>4, <1>5

\* What queueing a job does to the state.
LEMMA QueueStep ==
  ASSUME TypeOK, NEW t \in Threads, NEW kind \in {"work", "wait", "close"},
         NEW after \in {"idle", "waiting", "returning"}, QueueJob(t, kind, after)
  PROVE  /\ job_queue' = Append(job_queue, Job(t, kind))
         /\ posted' = Append(posted, Job(t, kind))
         /\ swapped_queue' = swapped_queue /\ waker' = waker
         /\ job_queue' \in Seq(Jobs) /\ posted' \in Seq(Jobs)
         /\ Len(posted) \in Nat /\ Len(posted') = Len(posted) + 1
         /\ thread' \in [Threads -> {"idle", "closing", "queued", "waiting", "returning"}]
         /\ thread'[t] = "queued" /\ Asking' = Asking \ {t}
         /\ then' \in [Threads -> {"idle", "waiting", "returning"}]
         /\ CloseJobs(job_queue') = IF kind = "close" THEN CloseJobs(job_queue) \cup {Len(job_queue) + 1}
                                    ELSE CloseJobs(job_queue)
<1>1. /\ job_queue' = Append(job_queue, Job(t, kind))
      /\ posted' = Append(posted, Job(t, kind))
      /\ thread' = [thread EXCEPT ![t] = "queued"]
      /\ then' = [then EXCEPT ![t] = after]
      /\ swapped_queue' = swapped_queue /\ waker' = waker
  BY DEF QueueJob
<1>2. Job(t, kind) \in Jobs /\ Job(t, kind).kind = kind
  BY JobType
<1>3. job_queue \in Seq(Jobs) /\ posted \in Seq(Jobs)
  BY Types
<1>4. /\ job_queue' \in Seq(Jobs) /\ posted' \in Seq(Jobs)
      /\ Len(posted) \in Nat /\ Len(posted') = Len(posted) + 1
  BY <1>1, <1>2, <1>3, AppendProperties, LenProperties
<1>5. /\ thread' \in [Threads -> {"idle", "closing", "queued", "waiting", "returning"}]
      /\ thread'[t] = "queued" /\ Asking' = Asking \ {t}
      /\ then' \in [Threads -> {"idle", "waiting", "returning"}]
  BY <1>1, Types DEF Asking
<1>6. CloseJobs(job_queue') = IF kind = "close" THEN CloseJobs(job_queue) \cup {Len(job_queue) + 1}
                              ELSE CloseJobs(job_queue)
  BY <1>1, <1>2, <1>3, ClosesAppend
<1>7. QED
  BY <1>1, <1>4, <1>5, <1>6

\* A step that queues a job, seen from the queues.
Queues(t, kind, after) ==
  /\ QueueJob(t, kind, after)
  /\ UNCHANGED <<ran, loop, own, gotterm, exit_event, finals, final>>

\* call() queues a job; close() does once it has passed the exchange.
LEMMA CallQueues ==
  ASSUME NEW t \in Threads, NEW b \in BOOLEAN, call(t, b)
  PROVE  /\ Len(posted) < MaxPosted /\ UNCHANGED <<running, dtor, endpoints, future, asked>>
         /\ t \notin Asking
         /\ Queues(t, "wait", "waiting") \/ Queues(t, "work", "idle")
  BY DEF call, Free, Asking, Queues, closing

LEMMA CloseJobQueued ==
  ASSUME NEW t \in Threads, CloseQueues(t)
  PROVE  /\ UNCHANGED <<running, dtor, endpoints, future, asked>>
         /\ t \in Asking
         /\ Queues(t, "close", "returning")
  BY DEF CloseQueues, Asking, Queues, closing

\* A close() that finds the Network running is alone in passing the exchange;
\* one that does not changes no more than its future.
LEMMA CloseExchanges ==
  ASSUME NEW t \in Threads, NEW g \in BOOLEAN, TypeOK, CloseFrom(t, g)
  PROVE  /\ running' = FALSE /\ UNCHANGED <<queues, posted, then, exit_event, finals, final>>
         /\ asked' \in BOOLEAN /\ future' \in [Threads -> {"none", "pending", "ready"}]
         /\ \/ running /\ thread' = [thread EXCEPT ![t] = "closing"]
            \/ ~running /\ UNCHANGED thread
<1>1. future \in [Threads -> {"none", "pending", "ready"}] /\ asked \in BOOLEAN
  BY Types
<1>2. CASE running
  BY <1>1, <1>2 DEF CloseFrom, WasRunning
<1>3. CASE ~running
  BY <1>1, <1>3 DEF CloseFrom, WasRunning
<1>4. QED
  BY <1>2, <1>3

\* Queueing a job preserves the invariant: the job is last in line, and its
\* thread is about to wake the loop.
LEMMA QueueingPreserves ==
  ASSUME IInv, NEW t \in Threads, NEW kind \in {"work", "wait", "close"},
         NEW after \in {"idle", "waiting", "returning"}, Queues(t, kind, after),
         running' = running,
         \/ kind # "close" /\ t \notin Asking /\ Len(posted) < MaxPosted
         \/ kind = "close" /\ t \in Asking
  PROVE  FIFO' /\ NoLostWakeup' /\ SwappedRun' /\ OneClose' /\ PostedBound'
<1>1. /\ TypeOK /\ FIFO /\ SwappedRun /\ OneClose /\ PostedBound
      /\ QueueJob(t, kind, after) /\ UNCHANGED <<ran, loop, finals>>
  BY DEF IInv, Queues
<1>2. /\ job_queue' = Append(job_queue, Job(t, kind))
      /\ posted' = Append(posted, Job(t, kind))
      /\ swapped_queue' = swapped_queue
      /\ Len(posted) \in Nat /\ Len(posted') = Len(posted) + 1
      /\ thread'[t] = "queued" /\ Asking' = Asking \ {t}
      /\ CloseJobs(job_queue') = IF kind = "close" THEN CloseJobs(job_queue) \cup {Len(job_queue) + 1}
                                 ELSE CloseJobs(job_queue)
  BY <1>1, QueueStep
<1>3. FIFO'
  <2>1. Job(t, kind) \in Jobs
    BY <1>1, JobType
  <2>2. ran \in Seq(Jobs) /\ swapped_queue \in Seq(Jobs) /\ job_queue \in Seq(Jobs)
    BY <1>1, Types
  <2>3. ran \o swapped_queue \o Append(job_queue, Job(t, kind))
          = Append(ran \o swapped_queue \o job_queue, Job(t, kind))
    BY <2>1, <2>2, AppendLast, SMTT(30)
  <2>4. QED
    BY <1>1, <1>2, <2>3 DEF FIFO
<1>4. NoLostWakeup'
  BY <1>2 DEF NoLostWakeup
<1>5. SwappedRun'
  BY <1>1, <1>2 DEF SwappedRun
<1>6. OneClose' /\ PostedBound'
  <2>1. CASE kind # "close"
    <3>1. Asking' = Asking /\ NoneQueued' = NoneQueued
      BY <1>2, <2>1 DEF NoneQueued
    <3>2. OneClose'
      BY <1>1, <1>2, <2>1, <3>1 DEF OneClose, AtMostOne
    <3>3. PostedBound'
      BY <1>1, <1>2, <2>1, <3>1, ThreadsAssumption DEF PostedBound
    <3>4. QED
      BY <3>2, <3>3
  <2>2. CASE kind = "close"
    <3>1. /\ finals = 0 /\ CloseJobs(swapped_queue) = {} /\ CloseJobs(job_queue) = {}
          /\ ~running /\ Asking = {t} /\ NoneQueued
      BY <1>1, <2>2 DEF OneClose, NoneQueued
    <3>2. CloseJobs(job_queue') = {Len(job_queue) + 1} /\ CloseJobs(swapped_queue') = {}
      BY <1>2, <2>2, <3>1
    <3>3. AtMostOne(job_queue') /\ AtMostOne(swapped_queue')
      BY <3>2 DEF AtMostOne
    <3>4. Asking' = {} /\ ~NoneQueued'
      BY <1>2, <3>1 DEF NoneQueued
    <3>5. OneClose'
      BY <1>1, <3>1, <3>2, <3>3, <3>4 DEF OneClose
    <3>6. PostedBound'
      BY <1>1, <1>2, <3>1, <3>4, ThreadsAssumption DEF PostedBound
    <3>7. QED
      BY <3>5, <3>6
  <2>3. QED
    BY <2>1, <2>2
<1>7. QED
  BY <1>3, <1>4, <1>5, <1>6

\* Steps that leave the queues and the state of closing alone.
LEMMA FramePreserves ==
  ASSUME IInv,
         UNCHANGED <<job_queue, swapped_queue, posted, ran, finals, running, Asking>>
  PROVE  FIFO' /\ OneClose' /\ PostedBound'
<1>1. FIFO'
  BY DEF IInv, FIFO
<1>2. NoneQueued' = NoneQueued
  BY DEF NoneQueued
<1>3. OneClose'
  BY <1>2 DEF IInv, OneClose, AtMostOne
<1>4. PostedBound'
  BY <1>2 DEF IInv, PostedBound
<1>5. QED
  BY <1>1, <1>3, <1>4

\* Threads that no step takes into or out of close() leave Asking alone.
LEMMA AskingKept ==
  ASSUME \A s \in Threads : thread'[s] = "closing" <=> thread[s] = "closing"
  PROVE  Asking' = Asking
  BY DEF Asking

\* The exchange on running preserves the invariant.
LEMMA ExchangePreserves ==
  ASSUME IInv, NEW t \in Threads, NEW g \in BOOLEAN, CloseFrom(t, g), UNCHANGED <<ran, loop>>,
         thread[t] = "idle"
  PROVE  FIFO' /\ NoLostWakeup' /\ SwappedRun' /\ OneClose' /\ PostedBound'
<1>1. TypeOK /\ FIFO /\ NoLostWakeup /\ SwappedRun /\ OneClose /\ PostedBound
  BY DEF IInv
<1>2. /\ running' = FALSE
      /\ UNCHANGED <<job_queue, swapped_queue, waker, posted, finals>>
      /\ \/ running /\ thread' = [thread EXCEPT ![t] = "closing"]
         \/ ~running /\ UNCHANGED thread
  BY <1>1, CloseExchanges DEF queues
<1>3. thread \in [Threads -> {"idle", "closing", "queued", "waiting", "returning"}]
  BY <1>1, Types
<1>4. FIFO' /\ SwappedRun'
  BY <1>1, <1>2 DEF FIFO, SwappedRun
<1>5. \A s \in Threads : thread[s] = "queued" => thread'[s] = "queued"
  BY <1>2, <1>3
<1>6. NoLostWakeup'
  BY <1>1, <1>2, <1>5 DEF NoLostWakeup
<1>7. CASE running
  <2>1. Asking = {} /\ NoneQueued
    BY <1>1, <1>7 DEF OneClose, NoneQueued
  <2>2. Asking' = {t} /\ NoneQueued'
    BY <1>2, <1>3, <1>7, <2>1 DEF Asking, NoneQueued
  <2>3. OneClose'
    BY <1>1, <1>2, <2>1, <2>2 DEF OneClose, AtMostOne
  <2>4. PostedBound'
    BY <1>1, <1>2, <2>1, <2>2 DEF PostedBound
  <2>5. QED
    BY <1>4, <1>6, <2>3, <2>4
<1>8. CASE ~running
  <2>1. Asking' = Asking /\ running' = running
    BY <1>1, <1>2, <1>8, Types DEF Asking
  <2>2. QED
    BY <1>2, <1>6, <1>4, <2>1, FramePreserves
<1>9. QED
  BY <1>7, <1>8

\* What running a job does to the queues.
LEMMA RunJobStep ==
  ASSUME TypeOK, RunJob
  PROVE  /\ Head(swapped_queue) \in Jobs /\ Head(swapped_queue).by \in Threads
         /\ swapped_queue # <<>>
         /\ swapped_queue' = Tail(swapped_queue) /\ swapped_queue' \in Seq(Jobs)
         /\ ran' = Append(ran, Head(swapped_queue)) /\ ran' \in Seq(Jobs)
         /\ UNCHANGED <<own, running, asked, job_queue, waker, dtor, gotterm, loop, posted>>
         /\ loop = "jobs"
<1>1. swapped_queue \in Seq(Jobs) /\ ran \in Seq(Jobs) /\ swapped_queue # <<>>
  BY Types DEF RunJob
<1>2. Head(swapped_queue) \in Jobs /\ Tail(swapped_queue) \in Seq(Jobs)
  BY <1>1, HeadTailProperties
<1>3. Head(swapped_queue).by \in Threads
  BY <1>2 DEF Jobs
<1>4. Append(ran, Head(swapped_queue)) \in Seq(Jobs)
  BY <1>1, <1>2, AppendProperties
<1>5. QED
  BY <1>1, <1>2, <1>3, <1>4 DEF RunJob

\* What close_final leaves, for the promise of any close().
LEMMA FinalTypes ==
  ASSUME TypeOK, NEW by, NEW g \in BOOLEAN, RunClose(by, g)
  PROVE  /\ endpoints' \in BOOLEAN /\ exit_event' \in BOOLEAN /\ final' \in BOOLEAN
         /\ future' \in [Threads -> {"none", "pending", "ready"}]
         /\ finals' = finals + 1 /\ finals' \in Nat
<1>1. /\ endpoints \in BOOLEAN /\ exit_event \in BOOLEAN /\ own \in BOOLEAN
      /\ future \in [Threads -> {"none", "pending", "ready"}] /\ finals \in Nat
  BY Types
<1>2. /\ endpoints' = FALSE /\ exit_event' = (exit_event \/ own)
      /\ future' = [t \in Threads |-> IF t = by THEN "ready" ELSE future[t]]
      /\ finals' = finals + 1 /\ final' = (~endpoints \/ g)
  BY DEF RunClose, close_final, loopexit
<1>3. endpoints' \in BOOLEAN /\ exit_event' \in BOOLEAN /\ final' \in BOOLEAN
  BY <1>1, <1>2
<1>4. future' \in [Threads -> {"none", "pending", "ready"}]
  BY <1>1, <1>2
<1>5. finals' \in Nat
  BY <1>1, <1>2
<1>6. QED
  BY <1>2, <1>3, <1>4, <1>5

\* Running a job takes it from one end of the line to the other, and a close
\* job is the only one left.
LEMMA RunJobPreserves ==
  ASSUME IInv, RunJob
  PROVE  FIFO' /\ NoLostWakeup' /\ SwappedRun' /\ OneClose' /\ PostedBound'
<1> DEFINE job == Head(swapped_queue)
<1>1. TypeOK /\ FIFO /\ NoLostWakeup /\ OneClose /\ PostedBound
  BY DEF IInv
<1>2. /\ swapped_queue # <<>> /\ swapped_queue' = Tail(swapped_queue)
      /\ ran' = Append(ran, job) /\ job.by \in Threads
      /\ UNCHANGED <<running, job_queue, waker, loop, posted>> /\ loop = "jobs"
  BY <1>1, RunJobStep
<1>3. /\ swapped_queue \in Seq(Jobs) /\ ran \in Seq(Jobs) /\ finals \in Nat
      /\ thread \in [Threads -> {"idle", "closing", "queued", "waiting", "returning"}]
  BY <1>1, Types
<1>4. FIFO'
  <2>1. Append(ran, job) \o Tail(swapped_queue) = ran \o swapped_queue
    BY <1>2, <1>3, MoveHead
  <2> HIDE DEF job
  <2>2. QED
    BY <1>1, <1>2, <2>1 DEF FIFO
<1>5. \A t \in Threads : /\ thread[t] = "queued" => thread'[t] = "queued"
                         /\ thread'[t] = "closing" <=> thread[t] = "closing"
  BY <1>2, <1>3 DEF RunJob
<1>6. Asking' = Asking /\ NoneQueued' = NoneQueued
  BY <1>2, <1>5, AskingKept DEF NoneQueued
<1>7. NoLostWakeup'
  BY <1>1, <1>2, <1>5 DEF NoLostWakeup
<1>8. SwappedRun'
  BY <1>2 DEF SwappedRun
<1>9. OneClose'
  <2>1. /\ AtMostOne(Tail(swapped_queue))
        /\ job.kind = "close" => CloseJobs(Tail(swapped_queue)) = {} /\ CloseJobs(swapped_queue) # {}
        /\ CloseJobs(swapped_queue) = {} => CloseJobs(Tail(swapped_queue)) = {}
    BY <1>1, <1>2, <1>3, ClosesTail DEF OneClose
  <2>2. CASE job.kind = "close"
    <3>1. finals' = finals + 1
      BY <2>2 DEF RunJob, RunClose, close_final
    <3> HIDE DEF job
    <3>2. finals = 0 /\ ~NoneQueued /\ CloseJobs(job_queue) = {}
      BY <1>1, <1>3, <2>1, <2>2 DEF OneClose
    <3>3. QED
      BY <1>1, <1>2, <1>3, <1>6, <2>1, <2>2, <3>1, <3>2 DEF OneClose, AtMostOne
  <2>3. CASE job.kind # "close"
    <3>1. finals' = finals
      BY <2>3 DEF RunJob
    <3> HIDE DEF job
    <3>2. QED
      BY <1>1, <1>2, <1>6, <2>1, <3>1 DEF OneClose, AtMostOne
  <2>4. QED
    BY <2>2, <2>3
<1>10. PostedBound'
  BY <1>1, <1>2, <1>6 DEF PostedBound
<1>11. QED
  BY <1>4, <1>7, <1>8, <1>9, <1>10

\* The types but for the bound on posted.
TypeBase ==
  /\ {own, running, endpoints, waker, exit_event, gotterm, asked, final} \subseteq BOOLEAN
  /\ {job_queue, swapped_queue, posted, ran} \subseteq Seq(Jobs)
  /\ loop \in {"top", "pass", "woken", "jobs", "done"}
  /\ thread \in [Threads -> {"idle", "closing", "queued", "waiting", "returning"}]
  /\ then \in [Threads -> {"idle", "waiting", "returning"}]
  /\ future \in [Threads -> {"none", "pending", "ready"}]
  /\ dtor \in {"no", "close", "done"}
  /\ finals \in Nat

\* Every step keeps the types.
LEMMA TypesPreserved == TypeOK /\ [Next]_vars => TypeBase'
<1> SUFFICES ASSUME TypeOK, [Next]_vars PROVE TypeBase'
  OBVIOUS
<1>1. TypeBase /\ <<>> \in Seq(Jobs)
  BY EmptySeq DEF TypeOK, TypeBase
<1>2. ASSUME NEW t \in Threads, NEW kind \in {"work", "wait", "close"},
             NEW after \in {"idle", "waiting", "returning"}, Queues(t, kind, after)
      PROVE  /\ job_queue' \in Seq(Jobs) /\ posted' \in Seq(Jobs)
             /\ thread' \in [Threads -> {"idle", "closing", "queued", "waiting", "returning"}]
             /\ then' \in [Threads -> {"idle", "waiting", "returning"}]
             /\ UNCHANGED <<swapped_queue, waker, ran, loop, own, gotterm, exit_event, finals, final>>
  BY <1>2, QueueStep DEF Queues
<1>3. ASSUME NEW t \in Threads, NEW g \in BOOLEAN, CloseFrom(t, g),
             UNCHANGED <<ran, loop, own, gotterm, endpoints>>, dtor' \in {"no", "close", "done"}
      PROVE  TypeBase'
  <2>1. /\ running' = FALSE /\ UNCHANGED <<queues, posted, then, exit_event, finals, final>>
        /\ asked' \in BOOLEAN /\ future' \in [Threads -> {"none", "pending", "ready"}]
        /\ \/ thread' = [thread EXCEPT ![t] = "closing"]
           \/ UNCHANGED thread
    BY <1>3, CloseExchanges
  <2>2. thread' \in [Threads -> {"idle", "closing", "queued", "waiting", "returning"}]
    BY <1>1, <2>1 DEF TypeBase
  <2>3. QED
    BY <1>1, <1>3, <2>1, <2>2 DEF TypeBase, queues
<1>4. CASE Pass \/ Wake \/ JobsDone \/ ExitEvent \/ PassEnds
  BY <1>1, <1>4 DEF Pass, Wake, JobsDone, ExitEvent, PassEnds, TypeBase, queues, app, closing
<1>5. CASE process_job_queue
  BY <1>1, <1>5 DEF process_job_queue, Swapped, TypeBase, app, closing
<1>6. CASE RunJob
  <2> DEFINE job == Head(swapped_queue)
  <2>1. /\ job.by \in Threads /\ swapped_queue' \in Seq(Jobs) /\ ran' \in Seq(Jobs)
        /\ UNCHANGED <<own, running, asked, job_queue, waker, dtor, gotterm, loop, posted>>
    BY <1>6, RunJobStep
  <2>2. /\ thread' \in [Threads -> {"idle", "closing", "queued", "waiting", "returning"}]
        /\ then' \in [Threads -> {"idle", "waiting", "returning"}]
    BY <1>1, <1>6, <2>1 DEF RunJob, TypeBase
  <2>3. /\ endpoints' \in BOOLEAN /\ exit_event' \in BOOLEAN /\ final' \in BOOLEAN
        /\ future' \in [Threads -> {"none", "pending", "ready"}] /\ finals' \in Nat
    <3>1. CASE job.kind = "close"
      <4>1. PICK g \in Graceful(job.by) : RunClose(job.by, g)
        BY <1>6, <3>1 DEF RunJob
      <4>2. g \in BOOLEAN
        BY <1>1, <4>1 DEF Graceful, TypeBase
      <4>3. QED
        BY <4>1, <4>2, FinalTypes
    <3>2. CASE job.kind # "close"
      BY <1>1, <1>6, <3>2 DEF RunJob, TypeBase
    <3>3. QED
      BY <3>1, <3>2
  <2>4. QED
    BY <1>1, <2>1, <2>2, <2>3 DEF TypeBase
<1>7. ASSUME NEW g \in BOOLEAN, CloseOnLoop(g) PROVE TypeBase'
  <2>1. /\ endpoints' \in BOOLEAN /\ exit_event' \in BOOLEAN /\ final' \in BOOLEAN
        /\ future' \in [Threads -> {"none", "pending", "ready"}] /\ finals' \in Nat
    BY <1>7, FinalTypes DEF CloseOnLoop
  <2>2. /\ running' = FALSE /\ asked' = g
        /\ UNCHANGED <<own, queues, thread, then, dtor, gotterm, loop, posted, ran>>
    BY <1>7 DEF CloseOnLoop
  <2>3. QED
    BY <1>1, <2>1, <2>2 DEF TypeBase, queues
<1>8. ASSUME NEW t \in Threads, call_soon(t) PROVE TypeBase'
  BY <1>1, <1>8 DEF call_soon, event_active, TypeBase, closing
<1>9. ASSUME NEW t \in Threads, CloseReturns(t) PROVE TypeBase'
  BY <1>1, <1>9 DEF CloseReturns, TypeBase, queues, closing
<1>10. ASSUME NEW t \in Threads, endpoint(t) PROVE TypeBase'
  BY <1>1, <1>10 DEF endpoint, TypeBase, queues, closing
<1>11. ASSUME NEW t \in Threads, NEW b \in BOOLEAN, call(t, b) PROVE TypeBase'
  <2>1. /\ UNCHANGED <<running, dtor, endpoints, future, asked>>
        /\ Queues(t, "wait", "waiting") \/ Queues(t, "work", "idle")
    BY <1>11, CallQueues
  <2>2. QED
    BY <1>1, <1>2, <2>1 DEF TypeBase
<1>12. ASSUME NEW t \in Threads, NEW g \in BOOLEAN, close(t, g) PROVE TypeBase'
  <2>1. /\ CloseFrom(t, g) /\ UNCHANGED <<ran, loop, own, gotterm, endpoints>>
        /\ dtor' \in {"no", "close", "done"}
    BY <1>1, <1>12 DEF close, TypeBase
  <2>2. QED
    BY <1>3, <2>1
<1>13. CASE Destroy
  <2>1. /\ CloseFrom(Main, TRUE) /\ UNCHANGED <<ran, loop, own, gotterm, endpoints>>
        /\ dtor' \in {"no", "close", "done"} /\ Main \in Threads
    BY <1>13, ThreadsAssumption DEF Destroy
  <2>2. QED
    BY <1>3, <2>1
<1>14. CASE Join
  BY <1>1, <1>14 DEF Join, TypeBase, queues, closing
<1>15. ASSUME NEW t \in Threads, CloseQueues(t) PROVE TypeBase'
  <2>1. /\ UNCHANGED <<running, dtor, endpoints, future, asked>>
        /\ Queues(t, "close", "returning")
    BY <1>15, CloseJobQueued
  <2>2. QED
    BY <1>1, <1>2, <2>1 DEF TypeBase
<1>16. CASE UNCHANGED vars
  BY <1>1, <1>16 DEF vars, TypeBase, queues, app, closing
<1>17. QED
  BY <1>4, <1>5, <1>6, <1>7, <1>8, <1>9, <1>10, <1>11, <1>12, <1>13, <1>14, <1>16, <1>15
     DEF Next, Loop

\* Every step preserves the invariant.
LEMMA NextPreservesIInv == IInv /\ [Next]_vars => IInv'
<1> SUFFICES ASSUME IInv, [Next]_vars PROVE IInv'
  OBVIOUS
<1> DEFINE Rest == FIFO' /\ NoLostWakeup' /\ SwappedRun' /\ OneClose' /\ PostedBound'
<1>1. TypeOK /\ FIFO /\ NoLostWakeup /\ SwappedRun /\ OneClose /\ PostedBound
  BY DEF IInv
<1>2. ASSUME NEW t \in Threads, CloseQueues(t) PROVE Rest
  <2>1. running' = running /\ t \in Asking /\ Queues(t, "close", "returning")
    BY <1>2, CloseJobQueued
  <2>2. QED
    BY <2>1, QueueingPreserves
<1>3. ASSUME Pass \/ Wake \/ JobsDone \/ ExitEvent \/ PassEnds PROVE Rest
  <2>1. UNCHANGED <<job_queue, swapped_queue, posted, ran, finals, running, thread>>
    BY <1>3 DEF Pass, Wake, JobsDone, ExitEvent, PassEnds, queues, app, closing
  <2>2. NoLostWakeup'
    BY <1>1, <1>3, <2>1 DEF NoLostWakeup, Pass, Wake, JobsDone, ExitEvent, PassEnds, queues
  <2>3. SwappedRun'
    BY <1>1, <1>3, <2>1 DEF SwappedRun, Pass, Wake, JobsDone, ExitEvent, PassEnds
  <2>4. QED
    BY <2>1, <2>2, <2>3, AskingKept, FramePreserves
<1>4. ASSUME process_job_queue PROVE Rest
  <2>1. /\ swapped_queue = <<>> /\ swapped_queue' = job_queue /\ job_queue' = <<>>
        /\ loop' = "jobs" /\ UNCHANGED <<posted, ran, running, finals, thread>>
    BY <1>1, <1>4 DEF process_job_queue, Swapped, SwappedRun, closing, app
  <2>2. FIFO'
    <3>1. ran \in Seq(Jobs) /\ job_queue \in Seq(Jobs)
      BY <1>1, Types
    <3>2. ran \o job_queue \in Seq(Jobs)
      BY <3>1, ConcatProperties
    <3>3. ran \o <<>> = ran /\ (ran \o job_queue) \o <<>> = ran \o job_queue
      BY <3>1, <3>2, ConcatEmptySeq
    <3>4. QED
      BY <1>1, <2>1, <3>3 DEF FIFO
  <2>3. CloseJobs(<<>>) = {}
    BY DEF CloseJobs
  <2>4. Asking' = Asking /\ NoneQueued' = NoneQueued
    BY <2>1, AskingKept DEF NoneQueued
  <2>5. OneClose'
    BY <1>1, <2>1, <2>3, <2>4 DEF OneClose, AtMostOne
  <2>6. QED
    BY <1>1, <2>1, <2>2, <2>4, <2>5 DEF NoLostWakeup, SwappedRun, PostedBound
<1>5. ASSUME RunJob PROVE Rest
  BY <1>5, RunJobPreserves
<1>6. ASSUME NEW g \in BOOLEAN, CloseOnLoop(g) PROVE Rest
  <2>1. /\ running /\ running' = FALSE /\ finals' = finals + 1
        /\ UNCHANGED <<job_queue, swapped_queue, waker, posted, ran, loop, thread>>
    BY <1>6 DEF CloseOnLoop, RunClose, close_final, queues
  <2>2. Asking = {} /\ Asking' = {} /\ NoneQueued /\ ~NoneQueued'
    BY <1>1, <2>1, AskingKept DEF OneClose, NoneQueued
  <2>3. OneClose'
    BY <1>1, <2>1, <2>2 DEF OneClose, AtMostOne
  <2>4. PostedBound'
    <3>1. Len(posted) \in Nat
      BY <1>1, Types, LenProperties
    <3>2. QED
      BY <1>1, <2>1, <2>2, <3>1, ThreadsAssumption DEF PostedBound
  <2>5. QED
    BY <1>1, <2>1, <2>3, <2>4 DEF FIFO, NoLostWakeup, SwappedRun
<1>7. ASSUME NEW t \in Threads, call_soon(t) PROVE Rest
  <2>1. waker' /\ UNCHANGED <<job_queue, swapped_queue, posted, ran, finals, running, loop>>
    BY <1>7 DEF call_soon, event_active, closing
  <2>2. NoLostWakeup' /\ SwappedRun'
    BY <1>1, <2>1 DEF NoLostWakeup, SwappedRun
  <2>3. \A s \in Threads : thread'[s] = "closing" <=> thread[s] = "closing"
    BY <1>1, <1>7, Types DEF call_soon
  <2>4. QED
    BY <2>1, <2>2, <2>3, AskingKept, FramePreserves
<1>8. ASSUME NEW t \in Threads, CloseReturns(t) \/ endpoint(t) PROVE Rest
  <2>1. /\ UNCHANGED <<job_queue, swapped_queue, waker, posted, ran, finals, running, loop>>
        /\ \A s \in Threads : /\ thread[s] = "queued" => thread'[s] = "queued"
                              /\ thread'[s] = "closing" <=> thread[s] = "closing"
    BY <1>1, <1>8, Types DEF CloseReturns, endpoint, queues, closing
  <2>2. NoLostWakeup' /\ SwappedRun'
    BY <1>1, <2>1 DEF NoLostWakeup, SwappedRun
  <2>3. QED
    BY <2>1, <2>2, AskingKept, FramePreserves
<1>9. ASSUME NEW t \in Threads, NEW b \in BOOLEAN, call(t, b) PROVE Rest
  <2>1. /\ Len(posted) < MaxPosted /\ running' = running /\ t \notin Asking
        /\ Queues(t, "wait", "waiting") \/ Queues(t, "work", "idle")
    BY <1>9, CallQueues
  <2>2. QED
    BY <2>1, QueueingPreserves
<1>10. ASSUME NEW t \in Threads, NEW g \in BOOLEAN, close(t, g) PROVE Rest
  BY <1>10, ExchangePreserves DEF close, Free
<1>11. ASSUME Destroy PROVE Rest
  BY <1>11, ExchangePreserves, ThreadsAssumption DEF Destroy, Free
<1>12. ASSUME Join \/ UNCHANGED vars PROVE Rest
  <2>1. UNCHANGED <<job_queue, swapped_queue, waker, posted, ran, finals, running, loop, thread>>
    BY <1>12 DEF Join, vars, queues, app, closing
  <2>2. NoLostWakeup' /\ SwappedRun'
    BY <1>1, <2>1 DEF NoLostWakeup, SwappedRun
  <2>3. QED
    BY <2>1, <2>2, AskingKept, FramePreserves
<1>13. Rest
  BY <1>2, <1>3, <1>4, <1>5, <1>6, <1>7, <1>8, <1>9, <1>10, <1>11, <1>12 DEF Next, Loop
<1>14. TypeOK'
  <2>1. TypeBase'
    BY <1>1, TypesPreserved
  <2>2. posted' \in Seq(Jobs) /\ running' \in BOOLEAN
    BY <2>1 DEF TypeBase
  <2>3. Len(posted') \in Nat
    BY <2>2, LenProperties
  <2>4. Len(posted') <= MaxPosted + 1
    BY <1>13, <2>2, <2>3, ThreadsAssumption DEF PostedBound
  <2>5. QED
    BY <2>1, <2>4 DEF TypeBase, TypeOK
<1>15. QED
  BY <1>13, <1>14 DEF IInv

\* The invariant holds in every state of every run.
LEMMA IInvHolds == Spec => []IInv
<1>1. Init => IInv
  <2> SUFFICES ASSUME Init PROVE IInv
    OBVIOUS
  <2>1. <<>> \in Seq(Jobs) /\ Len(<<>>) = 0 /\ CloseJobs(<<>>) = {}
    BY EmptySeq DEF CloseJobs
  <2>2. TypeOK
    <3>1. /\ {own, running, endpoints, waker, exit_event, gotterm, asked, final} \subseteq BOOLEAN
          /\ {job_queue, swapped_queue, posted, ran} \subseteq Seq(Jobs)
      BY <2>1 DEF Init
    <3>2. /\ thread \in [Threads -> {"idle", "closing", "queued", "waiting", "returning"}]
          /\ then \in [Threads -> {"idle", "waiting", "returning"}]
          /\ future \in [Threads -> {"none", "pending", "ready"}]
      BY DEF Init
    <3>3. Len(posted) <= MaxPosted + 1
      BY <2>1, ThreadsAssumption DEF Init
    <3>4. QED
      BY <3>1, <3>2, <3>3 DEF Init, TypeOK
  <2>3. FIFO
    <3>1. <<>> \o <<>> = <<>>
      BY <2>1, ConcatEmptySeq
    <3>2. QED
      BY <3>1 DEF Init, FIFO
  <2>4. NoLostWakeup /\ SwappedRun
    BY DEF Init, NoLostWakeup, SwappedRun
  <2>5. OneClose /\ PostedBound
    BY <2>1, ThreadsAssumption DEF Init, OneClose, PostedBound, AtMostOne, Asking, NoneQueued
  <2>6. QED
    BY <2>2, <2>3, <2>4, <2>5 DEF IInv
<1>2. QED
  BY <1>1, NextPreservesIInv, PTL DEF Spec

\* The jobs that ran, those of the swapped queue and those of job_queue are, in
\* this order, the jobs queued: each runs at most once and in its turn, however
\* the threads and the passes of the loop interleave.
THEOREM FIFOHolds == Spec => [](TypeOK /\ FIFO)
<1>1. IInv => TypeOK /\ FIFO
  BY DEF IInv
<1>2. QED
  BY <1>1, IInvHolds, PTL

\* No interleaving of call_soon and process_job_queue leaves a job in the queue
\* with the loop asleep.
THEOREM NoLostWakeupHolds == Spec => []NoLostWakeup
<1>1. IInv => NoLostWakeup
  BY DEF IInv
<1>2. QED
  BY <1>1, IInvHolds, PTL

\* However many threads call close(), close_final runs at most once.
THEOREM FinalOnceHolds == Spec => []FinalOnce
<1>1. IInv => FinalOnce
  BY DEF IInv, OneClose, FinalOnce
<1>2. QED
  BY <1>1, IInvHolds, PTL
=============================================================================
