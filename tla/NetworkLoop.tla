---------------------------- MODULE NetworkLoop ----------------------------
(***************************************************************************)
(* A Network: the queue by which other threads have jobs run on the event  *)
(* loop's thread, close() and the destructor.                              *)
(*                                                                         *)
(* A job is the application's (a lambda of send, connect, ...; it may have *)
(* its caller wait for a result) or the one close() queues.  The loop runs *)
(* in passes: a pass runs the callbacks of active events until there are   *)
(* none, and between passes the loop looks whether it is to exit.          *)
(***************************************************************************)
EXTENDS Naturals, Sequences, FiniteSets

CONSTANTS
  Threads,   \* the application's threads
  Main,      \* the one of them that destroys the Network
  MaxPosted  \* bound: jobs queued by the application

ASSUME ThreadsAssumption == Main \in Threads /\ MaxPosted \in Nat

VARIABLES
  own,         \* has loop_thread: the Network made its own event loop
  running, job_queue, swapped_queue,
  endpoints,   \* endpoint_map is not empty
  waker,       \* the event job_waker is active
  exit_event,  \* event_base_loopexit's event is active
  gotterm,     \* and its callback has told the loop to exit
  loop,        \* where the loop's thread is
  thread,      \* where each of the application's threads is
  then,        \* what it does when its job is queued and the event active
  future,      \* of its last close()
  dtor,        \* how far ~Network is
  posted, ran, \* the jobs ever queued, and run
  asked,       \* the argument of the close() that closes
  finals,      \* calls of close_final
  final        \* whether they closed the connections first

queues == <<job_queue, swapped_queue, waker>>
app == <<thread, then, dtor, endpoints>>
closing == <<running, exit_event, future, finals, final, asked>>
vars == <<own, queues, app, closing, gotterm, loop, posted, ran>>

Init ==
  /\ own \in BOOLEAN
  /\ running = TRUE
  /\ job_queue = <<>> /\ swapped_queue = <<>>
  /\ endpoints = FALSE
  /\ waker = FALSE /\ exit_event = FALSE /\ gotterm = FALSE
  /\ loop = "top"
  /\ thread = [t \in Threads |-> "idle"]
  /\ then = [t \in Threads |-> "idle"]
  /\ future = [t \in Threads |-> "none"]
  /\ dtor = "no"
  /\ posted = <<>> /\ ran = <<>>
  /\ asked = TRUE
  /\ finals = 0
  /\ final = TRUE
-----------------------------------------------------------------------------
\* Jobs are numbered in the order they are queued.
Job(t, kind) == [by |-> t, kind |-> kind, n |-> Len(posted) + 1]

\* The first half of call_soon: the job is queued, under the mutex.
QueueJob(t, kind, after) ==
  /\ job_queue' = Append(job_queue, Job(t, kind))
  /\ posted' = Append(posted, Job(t, kind))
  /\ thread' = [thread EXCEPT ![t] = "queued"]
  /\ then' = [then EXCEPT ![t] = after]
  /\ UNCHANGED <<swapped_queue, waker>>

\* Mutant: only the job that finds the queue empty wakes the loop, but it
\* looks without the mutex, when others may have queued theirs.
event_active_IfAlone(t) == waker' = (waker \/ Len(job_queue) = 1)

event_active(t) == waker' = TRUE

\* The second half: the mutex is free again when the event is made active.
call_soon(t) ==
  /\ thread[t] = "queued"
  /\ event_active(t)
  /\ thread' = [thread EXCEPT ![t] = then[t]]
  /\ UNCHANGED <<own, job_queue, swapped_queue, then, dtor, endpoints, closing,
                 gotterm, loop, posted, ran>>

\* A thread of the application that may use the Network.
Free(t) == thread[t] = "idle" /\ dtor = "no"

\* call() of a thread that is not the loop's; connect and listen wait.
call(t, waits) ==
  /\ Free(t)
  /\ Len(posted) < MaxPosted
  /\ IF waits THEN QueueJob(t, "wait", "waiting") ELSE QueueJob(t, "work", "idle")
  /\ UNCHANGED <<own, dtor, endpoints, closing, gotterm, loop, ran>>

endpoint(t) ==
  /\ Free(t)
  /\ ~endpoints
  /\ endpoints' = TRUE
  /\ UNCHANGED <<own, queues, thread, then, dtor, closing, gotterm, loop, posted, ran>>

\* Mutant: running is not tested.
WasRunning_Always == TRUE

\* What running.exchange(false) returns.
WasRunning == running

\* close() of a thread that is not the loop's, up to the exchange on running.
CloseFrom(t, graceful) ==
  /\ running' = FALSE
  /\ IF WasRunning
     THEN /\ thread' = [thread EXCEPT ![t] = "closing"]
          /\ future' = [future EXCEPT ![t] = "pending"]
          /\ asked' = graceful
     ELSE /\ future' = [future EXCEPT ![t] = "ready"]
          /\ UNCHANGED <<thread, asked>>
  /\ UNCHANGED <<queues, posted, then, exit_event, finals, final>>

\* The rest of it: nothing covers the exchange and the queueing together.
CloseQueues(t) ==
  /\ thread[t] = "closing"
  /\ QueueJob(t, "close", "returning")
  /\ UNCHANGED <<own, dtor, endpoints, closing, gotterm, loop, ran>>

close(t, graceful) ==
  /\ Free(t)
  /\ future[t] = "none"
  /\ CloseFrom(t, graceful)
  /\ UNCHANGED <<own, dtor, endpoints, gotterm, loop, ran>>

\* close() returns, and its parameters are gone.
CloseReturns(t) ==
  /\ thread[t] = "returning"
  /\ thread' = [thread EXCEPT ![t] = "idle"]
  /\ UNCHANGED <<own, queues, then, dtor, endpoints, closing, gotterm, loop, posted, ran>>

\* ~Network: close().get(), then join, then the members (the event is freed
\* when its callback is not running).
Destroy ==
  /\ Free(Main)
  /\ \A t \in Threads : thread[t] = "idle"
  /\ dtor' = "close"
  /\ CloseFrom(Main, TRUE)
  /\ UNCHANGED <<own, endpoints, gotterm, loop, ran>>

Join ==
  /\ dtor = "close"
  /\ thread[Main] = "idle" /\ future[Main] = "ready"
  /\ IF own THEN loop = "done" ELSE loop \notin {"woken", "jobs"}
  /\ dtor' = "done"
  /\ UNCHANGED <<own, queues, thread, then, endpoints, closing, gotterm, loop, posted, ran>>
-----------------------------------------------------------------------------
\* Mutant: the loop is left running.
loopexit_Not == exit_event

loopexit == exit_event \/ own

\* endpoint_map.clear(), loopexit, set_value on the promise of `by`.
close_final(by, packets) ==
  /\ endpoints' = FALSE
  /\ exit_event' = loopexit
  /\ future' = [t \in Threads |-> IF t = by THEN "ready" ELSE future[t]]
  /\ finals' = finals + 1
  /\ final' = packets

\* What the job of close() does with the value it reads for graceful; close_all
\* calls close_conns of every endpoint and then close_final.
RunClose(by, graceful) == close_final(by, ~endpoints \/ graceful)

\* The job reads graceful through a reference to close()'s parameter: once
\* close() has returned it may find anything.
Graceful(t) ==
  IF then[t] = "returning" /\ thread[t] # "idle" THEN {asked} ELSE BOOLEAN

Pass ==
  /\ loop = "top"
  /\ loop' = IF gotterm THEN "done" ELSE "pass"
  /\ UNCHANGED <<own, queues, app, closing, gotterm, posted, ran>>

\* libevent takes the event off its queue and calls job_waker's callback.
Wake ==
  /\ loop = "pass"
  /\ waker /\ dtor # "done"
  /\ waker' = FALSE
  /\ loop' = "woken"
  /\ UNCHANGED <<own, job_queue, swapped_queue, app, closing, gotterm, posted, ran>>

\* Mutant: the queue is copied.
Swapped_Copy == job_queue

\* What swap leaves in job_queue.
Swapped == <<>>

process_job_queue ==
  /\ loop = "woken"
  /\ swapped_queue' = job_queue
  /\ job_queue' = Swapped
  /\ loop' = "jobs"
  /\ UNCHANGED <<own, waker, app, closing, gotterm, posted, ran>>

RunJob ==
  /\ loop = "jobs"
  /\ swapped_queue # <<>>
  /\ LET job == Head(swapped_queue)
     IN  /\ ran' = Append(ran, job)
         /\ thread' = [thread EXCEPT ![job.by] =
                         IF job.kind = "wait" /\ @ = "waiting" THEN "idle" ELSE @]
         /\ then' = [then EXCEPT ![job.by] =
                         IF job.kind = "wait" THEN "idle" ELSE @]
         /\ IF job.kind = "close"
            THEN \E g \in Graceful(job.by) : RunClose(job.by, g)
            ELSE UNCHANGED <<endpoints, exit_event, future, finals, final>>
  /\ swapped_queue' = Tail(swapped_queue)
  /\ UNCHANGED <<own, running, asked, job_queue, waker, dtor, gotterm, loop, posted>>

JobsDone ==
  /\ loop = "jobs"
  /\ swapped_queue = <<>>
  /\ loop' = "pass"
  /\ UNCHANGED <<own, queues, app, closing, gotterm, posted, ran>>

\* A callback of the application on the loop's thread calls close(), whose job
\* runs at once.
CloseOnLoop(graceful) ==
  /\ loop = "pass"
  /\ running /\ dtor = "no"
  /\ running' = FALSE
  /\ asked' = graceful
  /\ RunClose("loop", graceful)
  /\ UNCHANGED <<own, queues, thread, then, dtor, gotterm, loop, posted, ran>>

ExitEvent ==
  /\ loop = "pass"
  /\ exit_event
  /\ exit_event' = FALSE
  /\ gotterm' = TRUE
  /\ UNCHANGED <<own, queues, app, running, future, finals, final, asked, loop, posted, ran>>

PassEnds ==
  /\ loop = "pass"
  /\ ~(waker /\ dtor # "done") /\ ~exit_event
  /\ loop' = "top"
  /\ UNCHANGED <<own, queues, app, closing, gotterm, posted, ran>>

Loop == Pass \/ Wake \/ process_job_queue \/ RunJob \/ JobsDone \/ ExitEvent \/ PassEnds

Next ==
  \/ Loop
  \/ \E g \in BOOLEAN : CloseOnLoop(g)
  \/ \E t \in Threads :
       \/ call_soon(t) \/ CloseQueues(t) \/ CloseReturns(t) \/ endpoint(t)
       \/ \E b \in BOOLEAN : call(t, b) \/ close(t, b)
  \/ Destroy \/ Join

Spec == Init /\ [][Next]_vars

\* The loop's thread runs, and a thread does not stop inside a call.
Fairness ==
  /\ WF_vars(Loop)
  /\ \A t \in Threads :
       WF_vars(call_soon(t)) /\ WF_vars(CloseQueues(t)) /\ WF_vars(CloseReturns(t))
  /\ WF_vars(Join)

FairSpec == Spec /\ Fairness
-----------------------------------------------------------------------------
Jobs == [by : Threads, kind : {"work", "wait", "close"}, n : Nat]

\* Types of the fields; besides the application's jobs, one close() queues one.
TypeOK ==
  /\ {own, running, endpoints, waker, exit_event, gotterm, asked, final} \subseteq BOOLEAN
  /\ {job_queue, swapped_queue, posted, ran} \subseteq Seq(Jobs)
  /\ loop \in {"top", "pass", "woken", "jobs", "done"}
  /\ thread \in [Threads -> {"idle", "closing", "queued", "waiting", "returning"}]
  /\ then \in [Threads -> {"idle", "waiting", "returning"}]
  /\ future \in [Threads -> {"none", "pending", "ready"}]
  /\ dtor \in {"no", "close", "done"}
  /\ finals \in Nat
  /\ Len(posted) <= MaxPosted + 1

\* Each job runs at most once, and jobs run in the order in which they were
\* queued, also across the swap in process_job_queue; what has not run is still
\* in one of the two queues.
FIFO == ran \o swapped_queue \o job_queue = posted

\* A queued job has the loop's attention: job_waker is active, or was just
\* taken up, or is about to be made active, although the queue is filled and
\* emptied under a mutex that does not cover the event.
NoLostWakeup ==
  job_queue # <<>> /\ loop # "done" =>
    waker \/ loop = "woken" \/ \E t \in Threads : thread[t] = "queued"

\* close() may be called by several threads, on the loop and by the destructor:
\* close_final happens once (a second would set the promise twice).
FinalOnce == finals <= 1

\* A future of close() becomes ready; the exception is a Network on an event
\* loop that is not its own, whose destructor does not wait for a close() that
\* another thread has made.
CloseCompletes ==
  \A t \in Threads :
    future[t] = "pending" ~> future[t] = "ready" \/ (~own /\ dtor = "done")

\* A thread that waits for a job it queued while the Network was running (in
\* connect or listen) gets its answer, also when close() is called meanwhile.
WaitersReturn ==
  \A t \in Threads : (thread[t] = "waiting" /\ running) ~> thread[t] # "waiting"

\* The destructor returns: the loop's thread ends and can be joined.
Destroyed == dtor = "close" ~> dtor = "done"

\* "If graceful is true (the default) this call initiates a graceful shutdown
\* (sending connection close packets, etc.)."
GracefulHonoured == finals > 0 /\ asked => final
=============================================================================
