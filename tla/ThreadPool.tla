----------------------------- MODULE ThreadPool -----------------------------
(***************************************************************************)
(* ThreadPool.h and the SafeQueue under it: worker threads that sleep on a *)
(* condition variable while the queue is empty, any number of threads that *)
(* submit tasks, and the owner that starts and shuts down the pool.        *)
(*                                                                         *)
(* A SafeQueue operation runs under the queue's own mutex and is one step. *)
(* The condition variable's mutex is taken by the workers only: submit     *)
(* enqueues and notifies without it, and so does shutdown.                 *)
(*                                                                         *)
(* m_shutdown is a plain bool read and written without a lock.  Between    *)
(* two reads a worker locks and unlocks a mutex, so the build reloads it   *)
(* every time; what a delayed store adds is that of a later Shutdown step. *)
(***************************************************************************)
EXTENDS Naturals, Sequences, FiniteSets

CONSTANTS Workers,   \* m_threads
          Tasks,     \* tasks, each submitted at most once
          Blocking,  \* tasks that may never return
          NoOne, NoTask

ASSUME PoolAssumption ==
  /\ NoOne \notin Workers
  /\ NoTask \notin Tasks
  /\ Blocking \subseteq Tasks

VARIABLES
  queue,     \* m_queue
  shutdown,  \* m_shutdown
  mutex,     \* holder of m_conditional_mutex
  pc,        \* where each worker is
  func,      \* func of each worker; keeps the last task
  submitter, \* where the call submit(t) is
  owner,     \* where the thread calling init and shutdown is
  finished   \* tasks that have returned

vars == <<queue, shutdown, mutex, pc, func, submitter, owner, finished>>

WorkerPlaces ==
  { "none",      \* no thread
    "check",     \* while (!m_shutdown)
    "lock",      \* unique_lock
    "test",      \* m_queue.empty(), mutex held
    "sleep",     \* found it empty, about to wait, mutex held
    "waiting",   \* in wait
    "wake",      \* woken, taking the mutex again
    "dequeue",   \* mutex held
    "run",       \* func()
    "exited" }

TypeOK ==
  /\ queue \in Seq(Tasks)
  /\ shutdown \in BOOLEAN
  /\ mutex \in Workers \cup {NoOne}
  /\ pc \in [Workers -> WorkerPlaces]
  /\ func \in [Workers -> Tasks \cup {NoTask}]
  /\ submitter \in [Tasks -> {"new", "notify", "returned"}]
  /\ owner \in {"new", "up", "closing", "joining", "down", "aborted"}
  /\ finished \subseteq Tasks

Init ==
  /\ queue = <<>>
  /\ shutdown = FALSE
  /\ mutex = NoOne
  /\ pc = [w \in Workers |-> "none"]
  /\ func = [w \in Workers |-> NoTask]
  /\ submitter = [t \in Tasks |-> "new"]
  /\ owner = "new"
  /\ finished = {}

Alive == owner # "aborted"

GoTo(w, place) == pc' = [pc EXCEPT ![w] = place]

-----------------------------------------------------------------------------
(* ThreadWorker::operator()                                                *)

Check(w) ==
  /\ pc[w] = "check"
  /\ GoTo(w, IF shutdown THEN "exited" ELSE "lock")
  /\ UNCHANGED <<queue, shutdown, mutex, func, submitter, owner, finished>>

Lock(w) ==
  /\ pc[w] = "lock"
  /\ mutex = NoOne
  /\ mutex' = w
  /\ GoTo(w, "test")
  /\ UNCHANGED <<queue, shutdown, func, submitter, owner, finished>>

Test(w) ==
  /\ pc[w] = "test"
  /\ GoTo(w, IF queue = <<>> THEN "sleep" ELSE "dequeue")
  /\ UNCHANGED <<queue, shutdown, mutex, func, submitter, owner, finished>>

\* wait(lock) releases the mutex and joins the waiting threads in one step.
Wait(w) ==
  /\ pc[w] = "sleep"
  /\ mutex' = NoOne
  /\ GoTo(w, "waiting")
  /\ UNCHANGED <<queue, shutdown, func, submitter, owner, finished>>

\* wait without a predicate returns once the mutex is free.
Wake(w) ==
  /\ pc[w] = "wake"
  /\ mutex = NoOne
  /\ mutex' = w
  /\ GoTo(w, "dequeue")
  /\ UNCHANGED <<queue, shutdown, func, submitter, owner, finished>>

\* Mutant: the newest task is taken first.
DequeueNewest(w) ==
  /\ pc[w] = "dequeue"
  /\ IF queue = <<>>
       THEN GoTo(w, "check") /\ UNCHANGED <<queue, func>>
       ELSE /\ func' = [func EXCEPT ![w] = queue[Len(queue)]]
            /\ queue' = SubSeq(queue, 1, Len(queue) - 1)
            /\ GoTo(w, "run")
  /\ mutex' = NoOne
  /\ UNCHANGED <<shutdown, submitter, owner, finished>>

\* Mutant: the task is copied but not popped.
DequeueNoPop(w) ==
  /\ pc[w] = "dequeue"
  /\ IF queue = <<>>
       THEN GoTo(w, "check") /\ UNCHANGED func
       ELSE /\ func' = [func EXCEPT ![w] = Head(queue)]
            /\ GoTo(w, "run")
  /\ mutex' = NoOne
  /\ UNCHANGED <<queue, shutdown, submitter, owner, finished>>

\* dequeue, then the end of the block releases the mutex.
Dequeue(w) ==
  /\ pc[w] = "dequeue"
  /\ IF queue = <<>>
       THEN GoTo(w, "check") /\ UNCHANGED <<queue, func>>
       ELSE /\ func' = [func EXCEPT ![w] = Head(queue)]
            /\ queue' = Tail(queue)
            /\ GoTo(w, "run")
  /\ mutex' = NoOne
  /\ UNCHANGED <<shutdown, submitter, owner, finished>>

Return(w) ==
  /\ pc[w] = "run"
  /\ finished' = finished \cup {func[w]}
  /\ GoTo(w, "check")
  /\ UNCHANGED <<queue, shutdown, mutex, func, submitter, owner>>

\* A wakeup nobody asked for.
SpuriousWakeup(w) ==
  /\ pc[w] = "waiting"
  /\ GoTo(w, "wake")
  /\ UNCHANGED <<queue, shutdown, mutex, func, submitter, owner, finished>>

\* What a scheduled worker does by itself.
WorkerStep(w) ==
  Alive /\ (Check(w) \/ Lock(w) \/ Test(w) \/ Wait(w) \/ Wake(w) \/ Dequeue(w))

-----------------------------------------------------------------------------
(* submit: the call is left with the notification still to be made.        *)

Enqueue(t) ==
  /\ Alive
  /\ submitter[t] = "new"
  /\ queue' = Append(queue, t)
  /\ submitter' = [submitter EXCEPT ![t] = "notify"]
  /\ UNCHANGED <<shutdown, mutex, pc, func, owner, finished>>

Sleepers == {w \in Workers : pc[w] = "waiting"}

\* Mutant: submit does not notify.
NotifyNobody(t) ==
  /\ Alive
  /\ submitter[t] = "notify"
  /\ submitter' = [submitter EXCEPT ![t] = "returned"]
  /\ UNCHANGED <<queue, shutdown, mutex, pc, func, owner, finished>>

NotifyOne(t) ==
  /\ Alive
  /\ submitter[t] = "notify"
  /\ submitter' = [submitter EXCEPT ![t] = "returned"]
  /\ IF Sleepers = {} THEN UNCHANGED pc
                      ELSE \E w \in Sleepers : GoTo(w, "wake")
  /\ UNCHANGED <<queue, shutdown, mutex, func, owner, finished>>

-----------------------------------------------------------------------------
(* The owner.  init creates the threads; when each gets to run is up to    *)
(* the scheduler.  Starting them over running ones, and destroying a pool  *)
(* that was not shut down, is std::terminate.                              *)

InitThreads ==
  /\ owner \in {"new", "down"}
  /\ owner' = "up"
  /\ pc' = [w \in Workers |-> "check"]
  /\ func' = [w \in Workers |-> NoTask]
  /\ UNCHANGED <<queue, shutdown, mutex, submitter, finished>>

Terminate ==
  /\ owner = "up"
  /\ owner' = "aborted"
  /\ UNCHANGED <<queue, shutdown, mutex, pc, func, submitter, finished>>

Shutdown ==
  /\ owner \in {"new", "up"}
  /\ shutdown' = TRUE
  /\ owner' = "closing"
  /\ UNCHANGED <<queue, mutex, pc, func, submitter, finished>>

NotifyAll ==
  /\ owner = "closing"
  /\ pc' = [w \in Workers |-> IF pc[w] = "waiting" THEN "wake" ELSE pc[w]]
  /\ owner' = "joining"
  /\ UNCHANGED <<queue, shutdown, mutex, func, submitter, finished>>

Join ==
  /\ owner = "joining"
  /\ \A w \in Workers : pc[w] \in {"none", "exited"}
  /\ owner' = "down"
  /\ UNCHANGED <<queue, shutdown, mutex, pc, func, submitter, finished>>

-----------------------------------------------------------------------------

Next ==
  \/ \E w \in Workers : WorkerStep(w) \/ (Alive /\ (Return(w) \/ SpuriousWakeup(w)))
  \/ \E t \in Tasks : Enqueue(t) \/ NotifyOne(t)
  \/ InitThreads \/ Terminate \/ Shutdown \/ NotifyAll \/ Join

Spec == Init /\ [][Next]_vars

\* Threads are scheduled, submit and shutdown go on, and the tasks that do
\* not block return.  Nobody is obliged to submit or to shut down, and no
\* spurious wakeup is counted on.
FairSpec ==
  /\ Spec
  /\ \A w \in Workers :
       /\ WF_vars(WorkerStep(w))
       /\ WF_vars(Alive /\ func[w] \notin Blocking /\ Return(w))
  /\ \A t \in Tasks : WF_vars(NotifyOne(t))
  /\ WF_vars(NotifyAll) /\ WF_vars(Join)

-----------------------------------------------------------------------------
(* Safety.                                                                 *)

\* The mutex is held exactly by the worker between taking and releasing it,
\* across waiting and waking up: two workers never test or dequeue at once.
MutexHeld ==
  \A w \in Workers : pc[w] \in {"test", "sleep", "dequeue"} <=> mutex = w

Running == {func[w] : w \in {v \in Workers : pc[v] = "run"}}

Queued(t) == \E i \in 1..Len(queue) : queue[i] = t

\* No task is lost, duplicated or run twice, though a woken worker may find
\* the queue emptied by another and still holds its previous func.
TasksConserved ==
  /\ \A t \in Tasks :
       /\ submitter[t] = "new" <=> ~Queued(t) /\ t \notin Running /\ t \notin finished
       /\ ~(Queued(t) /\ t \in Running)
       /\ ~(Queued(t) /\ t \in finished)
       /\ ~(t \in Running /\ t \in finished)
  /\ \A i, j \in 1..Len(queue) : queue[i] = queue[j] => i = j
  /\ \A v, w \in Workers :
       pc[v] = "run" /\ pc[w] = "run" /\ func[v] = func[w] => v = w

\* With two workers or more a task is never left in the queue with every
\* worker asleep and no notification on its way, although enqueue and
\* notify_one are made without the mutex the workers test under.
NeverAllAsleep ==
  /\ queue # <<>>
  /\ \A t \in Tasks : submitter[t] # "notify"
  => \E w \in Workers : pc[w] # "waiting"

\* The pool is a TaskPool: FIFO starts, each task at most once.
Pool == INSTANCE TaskPool WITH pending <- queue, running <- Running

ImplementsTaskPool == Pool!Spec

-----------------------------------------------------------------------------
(* Liveness.                                                               *)

Closing == shutdown \/ owner \in {"new", "aborted"}

\* A submitted task is executed (ThreadPool.h:75), unless the pool is not
\* started, is shut down or ends with the program.
EveryTaskRuns ==
  \A t \in Tasks : Queued(t) ~> t \in Running \/ t \in finished \/ Closing

\* shutdown closes all threads (ThreadPool.h:64): if the tasks return, the
\* joins do.
ShutdownReturns == owner = "closing" ~> owner = "down"

=============================================================================
