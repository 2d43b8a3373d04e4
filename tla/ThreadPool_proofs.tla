------------------------- MODULE ThreadPool_proofs -------------------------
(***************************************************************************)
(* Proofs about ThreadPool, for any number of workers and tasks: its       *)
(* safety invariants, the absence of lost work with two workers or more,   *)
(* and the implementation of TaskPool.                                     *)
(***************************************************************************)
EXTENDS ThreadPool, TLAPS

-----------------------------------------------------------------------------
(* The inductive invariant.                                                *)

RunInv == \A w \in Workers : pc[w] = "run" => func[w] \in Tasks

\* Where init may start threads, no worker is left from before.
OwnerInv ==
  owner \in {"new", "down"} => \A w \in Workers : pc[w] \in {"none", "exited"}

Covered == queue = <<>> \/ \E t \in Tasks : submitter[t] = "notify"

\* A worker that found the queue empty holds the mutex until it waits: a
\* worker notified in the meantime cannot get back to sleep before it does.
SleepInv ==
  \A w \in Workers :
    pc[w] = "sleep" => Covered \/ \E v \in Workers \ {w} : pc[v] # "waiting"

AwakeInv ==
  (\E v, w \in Workers : v # w)
    => SleepInv /\ (Covered \/ \E w \in Workers : pc[w] # "waiting")

IInv == TypeOK /\ MutexHeld /\ TasksConserved /\ RunInv /\ OwnerInv /\ AwakeInv

-----------------------------------------------------------------------------
(* The queue's operations.                                                 *)

LEMMA AppendQueue ==
  ASSUME NEW q \in Seq(Tasks), NEW t \in Tasks,
         \A i \in 1..Len(q) : q[i] # t,
         \A i, j \in 1..Len(q) : q[i] = q[j] => i = j
  PROVE  /\ Append(q, t) \in Seq(Tasks)
         /\ \A u \in Tasks : (\E i \in 1..Len(Append(q, t)) : Append(q, t)[i] = u)
                             <=> u = t \/ \E i \in 1..Len(q) : q[i] = u
         /\ \A i, j \in 1..Len(Append(q, t)) : Append(q, t)[i] = Append(q, t)[j] => i = j
<1> DEFINE s == Append(q, t)
<1>1. /\ s \in Seq(Tasks)
      /\ Len(s) = Len(q) + 1
      /\ s[Len(q) + 1] = t
      /\ \A i \in 1..Len(q) : s[i] = q[i]
  OBVIOUS
<1> HIDE DEF s
<1>2. \A u \in Tasks : (\E i \in 1..Len(s) : s[i] = u)
                        <=> u = t \/ \E i \in 1..Len(q) : q[i] = u
  <2> TAKE u \in Tasks
  <2>1. ASSUME NEW i \in 1..Len(s), s[i] = u
        PROVE  u = t \/ \E k \in 1..Len(q) : q[k] = u
    BY <1>1, <2>1
  <2>2. ASSUME u = t PROVE \E i \in 1..Len(s) : s[i] = u
    BY <1>1, <2>2
  <2>3. ASSUME NEW i \in 1..Len(q), q[i] = u PROVE \E k \in 1..Len(s) : s[k] = u
    BY <1>1, <2>3
  <2> QED BY <2>1, <2>2, <2>3
<1>3. \A i, j \in 1..Len(s) : s[i] = s[j] => i = j
  BY <1>1
<1> QED BY <1>1, <1>2, <1>3 DEF s

LEMMA TailQueue ==
  ASSUME NEW q \in Seq(Tasks), q # <<>>,
         \A i, j \in 1..Len(q) : q[i] = q[j] => i = j
  PROVE  /\ Head(q) \in Tasks /\ \E i \in 1..Len(q) : q[i] = Head(q)
         /\ Tail(q) \in Seq(Tasks)
         /\ \A u \in Tasks : (\E i \in 1..Len(Tail(q)) : Tail(q)[i] = u)
                             <=> u # Head(q) /\ \E i \in 1..Len(q) : q[i] = u
         /\ \A i, j \in 1..Len(Tail(q)) : Tail(q)[i] = Tail(q)[j] => i = j
<1> DEFINE s == Tail(q)
<1>1. /\ s \in Seq(Tasks)
      /\ Len(q) = Len(s) + 1
      /\ Len(s) \in Nat
      /\ Head(q) = q[1]
      /\ q[1] \in Tasks
      /\ \A i \in 1..Len(s) : s[i] = q[i + 1]
  OBVIOUS
<1> HIDE DEF s
<1>2. \A u \in Tasks : (\E i \in 1..Len(s) : s[i] = u)
                        <=> u # Head(q) /\ \E i \in 1..Len(q) : q[i] = u
  <2> TAKE u \in Tasks
  <2>1. ASSUME NEW i \in 1..Len(s), s[i] = u
        PROVE  u # Head(q) /\ \E k \in 1..Len(q) : q[k] = u
    BY <1>1, <2>1
  <2>2. ASSUME NEW k \in 1..Len(q), q[k] = u, u # Head(q)
        PROVE  \E i \in 1..Len(s) : s[i] = u
    <3>1. k - 1 \in 1..Len(s) /\ s[k - 1] = u
      BY <1>1, <2>2
    <3> QED BY <3>1
  <2> QED BY <2>1, <2>2
<1>3. \A i, j \in 1..Len(s) : s[i] = s[j] => i = j
  BY <1>1
<1>4. \E i \in 1..Len(q) : q[i] = Head(q)
  BY <1>1
<1> QED BY <1>1, <1>2, <1>3, <1>4 DEF s

-----------------------------------------------------------------------------
(* Steps that move one worker between places outside "run".                *)

LEMMA InitIInv == Init => IInv
<1> SUFFICES ASSUME Init PROVE IInv
  OBVIOUS
<1>1. TypeOK
  <2>1. queue \in Seq(Tasks)
    BY DEF Init
  <2>2. pc \in [Workers -> WorkerPlaces]
    BY DEF Init, WorkerPlaces
  <2> QED BY <2>1, <2>2 DEF Init, TypeOK
<1>2. MutexHeld
  BY PoolAssumption DEF Init, MutexHeld
<1>3. TasksConserved
  BY DEF Init, TasksConserved, Queued, Running
<1>4. RunInv /\ OwnerInv /\ AwakeInv
  BY DEF Init, RunInv, OwnerInv, AwakeInv, SleepInv, Covered
<1> QED BY <1>1, <1>2, <1>3, <1>4 DEF IInv

\* Tasks and their places are the same when no worker enters or leaves "run".
LEMMA SameTasks ==
  ASSUME IInv, UNCHANGED <<queue, submitter, func, finished>>,
         \A w \in Workers : pc'[w] = "run" <=> pc[w] = "run"
  PROVE  TasksConserved' /\ RunInv' /\ Running' = Running
<1>1. Running' = Running
  BY DEF Running
<1>2. TasksConserved'
  BY <1>1 DEF IInv, TasksConserved, Queued
<1>3. RunInv'
  BY DEF IInv, RunInv
<1> QED BY <1>1, <1>2, <1>3

LEMMA QuietStep ==
  ASSUME IInv, NEW w \in Workers, Check(w) \/ Lock(w) \/ Test(w) \/ Wait(w) \/ Wake(w)
                                   \/ SpuriousWakeup(w)
  PROVE  IInv' /\ Running' = Running
<1> USE DEF Check, Lock, Test, Wait, Wake, SpuriousWakeup, GoTo
<1>1. TypeOK'
  BY DEF IInv, TypeOK, WorkerPlaces
<1>2. MutexHeld'
  BY PoolAssumption DEF IInv, TypeOK, MutexHeld
<1>3. TasksConserved' /\ RunInv' /\ Running' = Running
  <2>1. \A v \in Workers : pc'[v] = "run" <=> pc[v] = "run"
    BY DEF IInv, TypeOK
  <2> QED BY <2>1, SameTasks
<1>4. OwnerInv'
  BY DEF IInv, TypeOK, OwnerInv
<1>5. AwakeInv'
  <2> SUFFICES ASSUME \E u, v \in Workers : u # v
               PROVE  SleepInv' /\ (Covered \/ \E u \in Workers : pc[u] # "waiting")'
    BY DEF AwakeInv
  <2>1. SleepInv /\ (Covered \/ \E u \in Workers : pc[u] # "waiting")
    BY DEF IInv, AwakeInv
  <2>2. Covered' <=> Covered
    BY DEF Covered
  <2>3. CASE Wait(w)
    <3>1. \A v \in Workers \ {w} : pc'[v] = pc[v] /\ pc[v] # "sleep"
      BY <2>3 DEF IInv, TypeOK, MutexHeld
    <3>2. pc'[w] = "waiting"
      BY <2>3 DEF IInv, TypeOK
    <3> QED BY <2>1, <2>2, <2>3, <3>1, <3>2 DEF SleepInv
  <2>4. CASE Test(w)
    <3>1. \A v \in Workers \ {w} : pc'[v] = pc[v] /\ pc[v] # "sleep"
      BY <2>4 DEF IInv, TypeOK, MutexHeld
    <3>2. /\ pc'[w] # "waiting"
          /\ pc'[w] = "sleep" => Covered
      BY <2>4 DEF IInv, TypeOK, Covered
    <3> QED BY <2>2, <3>1, <3>2 DEF SleepInv
  <2>5. CASE Check(w) \/ Lock(w) \/ Wake(w) \/ SpuriousWakeup(w)
    <3>1. pc'[w] \notin {"waiting", "sleep"} /\ \A v \in Workers \ {w} : pc'[v] = pc[v]
      BY <2>5 DEF IInv, TypeOK
    <3> QED BY <2>1, <2>2, <3>1 DEF SleepInv
  <2> QED BY <2>3, <2>4, <2>5
<1> QED BY <1>1, <1>2, <1>3, <1>4, <1>5 DEF IInv

-----------------------------------------------------------------------------
(* Steps that take a task from one place to the next.                      *)

LEMMA DequeueIInv ==
  ASSUME IInv, NEW w \in Workers, Dequeue(w)
  PROVE  /\ IInv'
         /\ IF queue = <<>> THEN Running' = Running
                           ELSE Running' = Running \cup {Head(queue)} /\ queue' = Tail(queue)
<1> USE DEF GoTo
<1>1. TypeOK'
  <2>1. queue # <<>> => Head(queue) \in Tasks /\ Tail(queue) \in Seq(Tasks)
    BY TailQueue DEF IInv, TypeOK, TasksConserved
  <2>2. pc' \in [Workers -> WorkerPlaces]
    BY DEF Dequeue, IInv, TypeOK, WorkerPlaces
  <2> QED BY <2>1, <2>2 DEF Dequeue, IInv, TypeOK
<1>2. MutexHeld'
  BY PoolAssumption DEF Dequeue, IInv, TypeOK, MutexHeld
<1>3. OwnerInv'
  BY DEF Dequeue, IInv, TypeOK, OwnerInv
<1>4. AwakeInv'
  <2>1. \A v \in Workers \ {w} : pc'[v] = pc[v] /\ pc[v] # "sleep"
    BY DEF Dequeue, IInv, TypeOK, MutexHeld
  <2>2. pc'[w] \in {"run", "check"}
    BY DEF Dequeue, IInv, TypeOK
  <2> QED BY <2>1, <2>2 DEF AwakeInv, SleepInv
<1>5. CASE queue = <<>>
  <2>1. UNCHANGED <<queue, submitter, func, finished>>
    BY <1>5 DEF Dequeue
  <2>2. \A v \in Workers : pc'[v] = "run" <=> pc[v] = "run"
    BY <1>5 DEF Dequeue, IInv, TypeOK
  <2>3. TasksConserved' /\ RunInv' /\ Running' = Running
    BY <2>1, <2>2, SameTasks
  <2> QED BY <1>1, <1>2, <1>3, <1>4, <1>5, <2>3 DEF IInv
<1>6. CASE queue # <<>>
  <2> DEFINE t == Head(queue)
  <2>1. /\ func' = [func EXCEPT ![w] = t]
        /\ pc' = [pc EXCEPT ![w] = "run"]
        /\ queue' = Tail(queue)
        /\ UNCHANGED <<submitter, finished>>
        /\ pc[w] = "dequeue"
    BY <1>6 DEF Dequeue
  <2>2. /\ t \in Tasks
        /\ Queued(t)
        /\ \A u \in Tasks : Queued(u)' <=> u # t /\ Queued(u)
        /\ \A i, j \in 1..Len(queue') : queue'[i] = queue'[j] => i = j
    <3>1. /\ queue \in Seq(Tasks) /\ queue # <<>>
          /\ \A i, j \in 1..Len(queue) : queue[i] = queue[j] => i = j
      BY <1>6 DEF IInv, TypeOK, TasksConserved
    <3>2. /\ \E i \in 1..Len(queue) : queue[i] = t
          /\ \A u \in Tasks : (\E i \in 1..Len(Tail(queue)) : Tail(queue)[i] = u)
                                <=> u # t /\ \E i \in 1..Len(queue) : queue[i] = u
          /\ \A i, j \in 1..Len(Tail(queue)) : Tail(queue)[i] = Tail(queue)[j] => i = j
      BY <3>1, TailQueue
    <3>3. t \in Tasks
      BY <3>1
    <3> HIDE DEF t
    <3> QED BY <2>1, <3>2, <3>3 DEF Queued
  <2> HIDE DEF t
  <2>3. RunInv'
    BY <2>1, <2>2 DEF IInv, TypeOK, RunInv
  <2>4. \A u : u \in Running' <=> u = t \/ u \in Running
    BY <2>1 DEF Running, IInv, TypeOK
  <2>5. TasksConserved'
    <3>1. t \notin Running /\ t \notin finished /\ submitter[t] # "new"
      BY <2>2 DEF IInv, TasksConserved
    <3>2. \A u, v \in Workers :
            pc'[u] = "run" /\ pc'[v] = "run" /\ func'[u] = func'[v] => u = v
      BY <2>1, <3>1 DEF IInv, TypeOK, TasksConserved, Running
    <3>3. \A u \in Tasks :
            /\ submitter'[u] = "new" <=> ~Queued(u)' /\ u \notin Running' /\ u \notin finished'
            /\ ~(Queued(u)' /\ u \in Running')
            /\ ~(Queued(u)' /\ u \in finished')
            /\ ~(u \in Running' /\ u \in finished')
      BY <2>1, <2>2, <2>4, <3>1 DEF IInv, TasksConserved
    <3> QED BY <2>2, <3>2, <3>3 DEF TasksConserved
  <2>6. Running' = Running \cup {t}
    BY <2>4
  <2> QED BY <1>1, <1>2, <1>3, <1>4, <1>6, <2>1, <2>3, <2>5, <2>6 DEF IInv, t
<1> QED BY <1>5, <1>6

LEMMA ReturnIInv ==
  ASSUME IInv, NEW w \in Workers, Return(w)
  PROVE  /\ IInv'
         /\ func[w] \in Running
         /\ Running' = Running \ {func[w]}
<1> USE DEF Return, GoTo
<1>1. func[w] \in Tasks /\ func[w] \in Running
  BY DEF IInv, RunInv, Running
<1>2. TypeOK'
  BY <1>1 DEF IInv, TypeOK, WorkerPlaces
<1>3. MutexHeld'
  BY DEF IInv, TypeOK, MutexHeld
<1>4. RunInv' /\ OwnerInv'
  BY DEF IInv, TypeOK, RunInv, OwnerInv
<1>5. AwakeInv'
  <2>1. \A v \in Workers \ {w} : pc'[v] = pc[v]
    BY DEF IInv, TypeOK
  <2>2. pc'[w] = "check" /\ pc[w] = "run" /\ (Covered' <=> Covered)
    BY DEF IInv, TypeOK, Covered
  <2> QED BY <2>1, <2>2 DEF IInv, AwakeInv, SleepInv
<1>6. \A u : u \in Running' <=> u \in Running /\ u # func[w]
  BY DEF IInv, TypeOK, TasksConserved, Running
<1>7. TasksConserved'
  <2>1. \A u, v \in Workers :
          pc'[u] = "run" /\ pc'[v] = "run" /\ func'[u] = func'[v] => u = v
    BY DEF IInv, TypeOK, TasksConserved
  <2>2. \A u \in Tasks : Queued(u)' <=> Queued(u)
    BY DEF Queued
  <2>3. \A u \in Tasks :
          /\ submitter'[u] = "new" <=> ~Queued(u)' /\ u \notin Running' /\ u \notin finished'
          /\ ~(Queued(u)' /\ u \in Running')
          /\ ~(Queued(u)' /\ u \in finished')
          /\ ~(u \in Running' /\ u \in finished')
    BY <1>1, <1>6, <2>2 DEF IInv, TasksConserved
  <2> QED BY <2>1, <2>3 DEF IInv, TasksConserved
<1> QED BY <1>1, <1>2, <1>3, <1>4, <1>5, <1>6, <1>7 DEF IInv

LEMMA EnqueueIInv ==
  ASSUME IInv, NEW t \in Tasks, Enqueue(t)
  PROVE  /\ IInv'
         /\ Running' = Running
         /\ queue' = Append(queue, t)
         /\ ~Queued(t) /\ t \notin Running /\ t \notin finished
<1> USE DEF Enqueue
<1>1. ~Queued(t) /\ t \notin Running /\ t \notin finished
  BY DEF IInv, TasksConserved
<1>2. /\ queue' \in Seq(Tasks)
      /\ \A u \in Tasks : Queued(u)' <=> u = t \/ Queued(u)
      /\ \A i, j \in 1..Len(queue') : queue'[i] = queue'[j] => i = j
  BY <1>1, AppendQueue DEF IInv, TypeOK, TasksConserved, Queued
<1>3. TypeOK'
  BY <1>2 DEF IInv, TypeOK
<1>4. MutexHeld' /\ RunInv' /\ OwnerInv'
  BY DEF IInv, MutexHeld, RunInv, OwnerInv
<1>5. Running' = Running
  BY DEF Running
<1>6. TasksConserved'
  BY <1>1, <1>2, <1>5 DEF IInv, TypeOK, TasksConserved
<1>7. AwakeInv'
  <2>1. submitter'[t] = "notify"
    BY DEF IInv, TypeOK
  <2>2. Covered'
    BY <2>1 DEF Covered
  <2> QED BY <2>2 DEF AwakeInv, SleepInv
<1> QED BY <1>1, <1>3, <1>4, <1>5, <1>6, <1>7 DEF IInv

LEMMA NotifyOneIInv ==
  ASSUME IInv, NEW t \in Tasks, NotifyOne(t)
  PROVE  IInv' /\ Running' = Running
<1> USE DEF NotifyOne, GoTo, Sleepers
<1>1. TypeOK'
  BY DEF IInv, TypeOK, WorkerPlaces
<1>2. MutexHeld'
  BY DEF IInv, TypeOK, MutexHeld
<1>3. \A w \in Workers : pc'[w] = pc[w] \/ (pc[w] = "waiting" /\ pc'[w] = "wake")
  BY DEF IInv, TypeOK
<1>4. RunInv' /\ OwnerInv'
  BY <1>3 DEF IInv, RunInv, OwnerInv
<1>5. Running' = Running
  BY <1>3 DEF Running
<1>6. TasksConserved'
  <2>1. \A u \in Tasks : submitter'[u] = "new" <=> submitter[u] = "new"
    BY DEF IInv, TypeOK
  <2>2. \A w \in Workers : pc'[w] = "run" <=> pc[w] = "run"
    BY <1>3
  <2> QED BY <1>5, <2>1, <2>2 DEF IInv, TasksConserved, Queued
<1>7. AwakeInv'
  <2> SUFFICES ASSUME NEW u \in Workers, NEW v \in Workers, u # v
               PROVE  SleepInv' /\ \E x \in Workers : pc'[x] # "waiting"
    BY DEF AwakeInv
  <2>1. CASE Sleepers = {}
    BY <2>1 DEF SleepInv
  <2>2. CASE Sleepers # {}
    <3>1. PICK x \in Sleepers : pc' = [pc EXCEPT ![x] = "wake"]
      BY <2>2
    <3>2. x \in Workers /\ pc'[x] = "wake"
      BY <3>1 DEF IInv, TypeOK
    <3> QED BY <3>2 DEF SleepInv
  <2> QED BY <2>1, <2>2
<1> QED BY <1>1, <1>2, <1>4, <1>5, <1>6, <1>7 DEF IInv

-----------------------------------------------------------------------------
(* The owner's steps.                                                      *)

LEMMA InitThreadsIInv ==
  ASSUME IInv, InitThreads
  PROVE  IInv' /\ Running' = Running
<1> USE DEF InitThreads
<1>1. \A w \in Workers : pc[w] \in {"none", "exited"} /\ pc'[w] = "check"
  BY DEF IInv, OwnerInv
<1>2. TypeOK'
  BY DEF IInv, TypeOK, WorkerPlaces
<1>3. MutexHeld'
  BY <1>1 DEF IInv, MutexHeld
<1>4. RunInv' /\ OwnerInv' /\ AwakeInv'
  BY <1>1 DEF RunInv, OwnerInv, AwakeInv, SleepInv
<1>5. Running = {} /\ Running' = {}
  BY <1>1 DEF Running
<1>6. TasksConserved'
  BY <1>1, <1>5 DEF IInv, TasksConserved, Queued
<1> QED BY <1>2, <1>3, <1>4, <1>5, <1>6 DEF IInv

LEMMA OwnerIInv ==
  ASSUME IInv, Terminate \/ Shutdown \/ NotifyAll \/ Join
  PROVE  IInv' /\ Running' = Running
<1> USE DEF Terminate, Shutdown, NotifyAll, Join
<1>1. \A w \in Workers : pc'[w] = pc[w] \/ (pc[w] = "waiting" /\ pc'[w] = "wake")
  BY DEF IInv, TypeOK
<1>2. TypeOK'
  BY DEF IInv, TypeOK, WorkerPlaces
<1>3. MutexHeld'
  BY <1>1 DEF IInv, MutexHeld
<1>4. TasksConserved' /\ RunInv' /\ Running' = Running
  <2>1. UNCHANGED <<queue, submitter, func, finished>>
    OBVIOUS
  <2> QED BY <1>1, <2>1, SameTasks
<1>5. OwnerInv'
  BY DEF OwnerInv
<1>6. AwakeInv'
  BY <1>1 DEF IInv, AwakeInv, SleepInv, Covered
<1> QED BY <1>2, <1>3, <1>4, <1>5, <1>6 DEF IInv

-----------------------------------------------------------------------------
(* The theorems.                                                           *)

LEMMA NextIInv == IInv /\ [Next]_vars => IInv'
<1> SUFFICES ASSUME IInv, [Next]_vars PROVE IInv'
  OBVIOUS
<1>1. CASE UNCHANGED vars
  BY <1>1 DEF IInv, TypeOK, MutexHeld, TasksConserved, RunInv, OwnerInv, AwakeInv,
              SleepInv, Covered, Queued, Running, vars
<1> QED
  BY <1>1, QuietStep, DequeueIInv, ReturnIInv, EnqueueIInv, NotifyOneIInv, InitThreadsIInv,
     OwnerIInv DEF Next, WorkerStep

LEMMA SpecIInv == Spec => []IInv
BY InitIInv, NextIInv, PTL DEF Spec

\* Every variable of the pool keeps its type.
THEOREM TypeCorrect == Spec => []TypeOK
<1>1. IInv => TypeOK
  BY DEF IInv
<1> QED BY <1>1, SpecIInv, PTL

\* Testing and dequeuing exclude each other, across wait and wakeup.
THEOREM MutexHeldAlways == Spec => []MutexHeld
<1>1. IInv => MutexHeld
  BY DEF IInv
<1> QED BY <1>1, SpecIInv, PTL

\* No task is lost, duplicated or run twice, whatever the interleaving of
\* workers, submitters, spurious wakeups, init and shutdown.
THEOREM TasksConservedAlways == Spec => []TasksConserved
<1>1. IInv => TasksConserved
  BY DEF IInv
<1> QED BY <1>1, SpecIInv, PTL

\* Two workers are enough for no notification to be lost for good.
THEOREM NeverAllAsleepHolds ==
  ASSUME \E v, w \in Workers : v # w
  PROVE  Spec => []NeverAllAsleep
<1>1. IInv => NeverAllAsleep
  BY DEF IInv, AwakeInv, Covered, NeverAllAsleep
<1> QED BY <1>1, SpecIInv, PTL

\* The pool implements TaskPool: a step of the pool is a Submit, a Start, a
\* Finish or no step of it.
THEOREM Refinement == Spec => ImplementsTaskPool
<1>1. Init => Pool!Init
  BY DEF Init, Pool!Init, Running
<1>2. IInv /\ [Next]_vars => [Pool!Next]_(Pool!vars)
  <2> SUFFICES ASSUME IInv, [Next]_vars
               PROVE  Pool!Next \/ UNCHANGED <<queue, Running, finished>>
    BY DEF Pool!vars
  <2>1. CASE UNCHANGED vars
    BY <2>1 DEF vars, Running
  <2>2. ASSUME NEW t \in Tasks, Enqueue(t) PROVE Pool!Next
    <3>1. /\ Running' = Running
          /\ queue' = Append(queue, t)
          /\ ~Queued(t) /\ t \notin Running /\ t \notin finished
      BY <2>2, EnqueueIInv
    <3>2. ~Pool!Submitted(t)
      BY <3>1 DEF Pool!Submitted, Queued, IInv, TypeOK
    <3>3. Pool!Submit(t)
      BY <2>2, <3>1, <3>2 DEF Pool!Submit, Enqueue
    <3> QED BY <3>3 DEF Pool!Next
  <2>3. ASSUME NEW w \in Workers, Dequeue(w)
        PROVE  Pool!Next \/ UNCHANGED <<queue, Running, finished>>
    BY <2>3, DequeueIInv DEF Dequeue, Pool!Next, Pool!Start
  <2>4. ASSUME NEW w \in Workers, Return(w) PROVE Pool!Next
    <3>1. func[w] \in Running /\ Running' = Running \ {func[w]} /\ func[w] \in Tasks
      BY <2>4, ReturnIInv DEF IInv, RunInv, Return
    <3>2. Pool!Finish(func[w])
      BY <2>4, <3>1 DEF Pool!Finish, Return
    <3> QED BY <3>1, <3>2 DEF Pool!Next
  <2>5. ASSUME NEW w \in Workers,
               Check(w) \/ Lock(w) \/ Test(w) \/ Wait(w) \/ Wake(w) \/ SpuriousWakeup(w)
        PROVE  UNCHANGED <<queue, Running, finished>>
    BY <2>5, QuietStep DEF Check, Lock, Test, Wait, Wake, SpuriousWakeup
  <2>6. ASSUME NEW t \in Tasks, NotifyOne(t) PROVE UNCHANGED <<queue, Running, finished>>
    BY <2>6, NotifyOneIInv DEF NotifyOne
  <2>7. CASE InitThreads \/ Terminate \/ Shutdown \/ NotifyAll \/ Join
    BY <2>7, InitThreadsIInv, OwnerIInv DEF InitThreads, Terminate, Shutdown, NotifyAll, Join
  <2> QED
    BY <2>1, <2>2, <2>3, <2>4, <2>5, <2>6, <2>7 DEF Next, WorkerStep
<1> QED BY <1>1, <1>2, SpecIInv, PTL DEF Spec, ImplementsTaskPool, Pool!Spec

=============================================================================
