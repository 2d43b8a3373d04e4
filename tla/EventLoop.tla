----------------------------- MODULE EventLoop -----------------------------
(***************************************************************************)
(* Loop::runLoop and what it calls: one iteration polls epoll, runs one    *)
(* task of the task queue, then lets every reported EpollFdEvent handle    *)
(* its signals.  Everything happens on the loop's own thread, but an       *)
(* iteration works on pointers collected at its start (activeEvents_)      *)
(* while tasks and callbacks enable, disable, remove and delete events.    *)
(*                                                                         *)
(* The user of the library is the application: between two steps of the    *)
(* loop, in a task or in a callback it may make any call the classes offer *)
(* to it.  It follows the rule the library's own users follow              *)
(* (TcpServer::removeConnection, TcpClient::removeConnection and           *)
(* Connector::removeAndResetChannel): an event object is not deleted on    *)
(* the spot, its deletion is posted with runTask once it is disabled.      *)
(***************************************************************************)
EXTENDS Poller, Naturals, Sequences, FiniteSets

CONSTANTS OneShot,         \* events initialised with Event::Mode::kOneshot
          Signals,         \* epoll signals the kernel raises
          AlwaysReady,     \* descriptors that always have input to read
          InitialEntries,  \* events_.size() of a new Poller
          AppTask,         \* a task of the application
          MaxTasks         \* bound: length of the task queue

ASSUME ConstantsAssumption ==
  /\ IsFiniteSet(Fds) /\ AppTask \notin Events
  /\ OneShot \subseteq Events
  /\ InitialEntries \in Nat \ {0} /\ MaxTasks \in Nat

VARIABLES
  reg,          \* events, the Poller's map and the kernel's interest list
  live,         \* event objects that exist
  doomed,       \* event objects whose deletion is posted
  revents,      \* EpollFdEvent::revents_
  locked,       \* EpollFdEvent::lockEvent_
  active,       \* activeEvents_ still to be handled, the current one first
  calls,        \* callbacks the current event has still to make
  taskQueue,    \* Loop::taskQueue_; an event stands for its deletion
  keepRunning,  \* Loop::keepRunning_
  poolUp,       \* threadPool_->init() has been called
  cap,          \* Poller::events_.size()
  phase         \* where the loop's thread is

loopVars == <<active, calls, revents, locked, cap>>
vars == <<reg, live, doomed, taskQueue, keepRunning, poolUp, phase, loopVars>>

Phases == {"idle", "poll", "task", "intask", "handle", "incallback", "aborted"}

Callbacks == {"close", "error", "read", "write"}

InSeq(x, s) == \E i \in 1..Len(s) : s[i] = x

TypeOK ==
  /\ reg \in Registry
  /\ live \subseteq Events
  /\ doomed \subseteq Events
  /\ revents \in [Events -> SUBSET Signals]
  /\ locked \in [Events -> BOOLEAN]
  /\ active \in Seq(Events)
  /\ calls \in Seq(Callbacks)
  /\ taskQueue \in Seq(Events \cup {AppTask})
  /\ keepRunning \in BOOLEAN
  /\ poolUp \in BOOLEAN
  /\ cap \in Nat \ {0}
  /\ phase \in Phases

-----------------------------------------------------------------------------
(* Loop::Loop: keepRunning_ is true before the loop ever runs.             *)
Init ==
  /\ \E fd \in [Events -> Fds] : reg = EmptyRegistry(fd)
  /\ live = {}
  /\ doomed = {}
  /\ revents = [e \in Events |-> {}]
  /\ locked = [e \in Events |-> FALSE]
  /\ active = <<>>
  /\ calls = <<>>
  /\ taskQueue = <<>>
  /\ keepRunning = TRUE
  /\ poolUp = FALSE
  /\ cap = InitialEntries
  /\ phase = "idle"

-----------------------------------------------------------------------------
(* The application's calls.                                                *)

AppTurn == phase \in {"idle", "intask", "incallback"}

Usable(e) == e \in live /\ e \notin doomed

\* A reported one-shot event that is yet to be handled, or is being handled,
\* calls disableAll() after its callbacks.
DisablePending(e) == e \in OneShot /\ ~locked[e] /\ InSeq(e, active)

\* CreatFdEvent and init() on an open descriptor nothing is registered for;
\* the allocator may return the address of an event deleted before.
Create(e, f) ==
  /\ AppTurn
  /\ e \notin live
  /\ reg.map[f] = NoEvent
  /\ reg' = Construct(reg, e, f)
  /\ live' = live \cup {e}
  /\ revents' = [revents EXCEPT ![e] = {}]
  /\ locked' = [locked EXCEPT ![e] = FALSE]
  /\ UNCHANGED <<doomed, active, calls, taskQueue, keepRunning, poolUp, cap, phase>>

\* enableReading, enableWriting, disableReading, disableWriting, disableAll.
Update(e) ==
  /\ AppTurn
  /\ Usable(e)
  /\ reg.index[e] = "kNew" => reg.map[reg.fd[e]] = NoEvent
  /\ reg' \in { EnableReading(reg, e), EnableWriting(reg, e), DisableAll(reg, e),
                DisableReading(reg, e), DisableWriting(reg, e) }
  /\ UNCHANGED <<live, doomed, taskQueue, keepRunning, poolUp, phase, loopVars>>

\* EpollFdEvent::remove: asserts that nothing is enabled.
RemoveCall(e) ==
  /\ AppTurn
  /\ Usable(e)
  /\ reg.index[e] # "kNew"
  /\ reg.events[e] = {}
  /\ reg' = RemoveEvent(reg, e)
  /\ UNCHANGED <<live, doomed, taskQueue, keepRunning, poolUp, phase, loopVars>>

Remove(e) == RemoveCall(e) /\ ~DisablePending(e)

Post(task) ==
  /\ Len(taskQueue) < MaxTasks
  /\ taskQueue' = Append(taskQueue, task)

\* Mutant: a disabled event is removed and deleted on the spot.
DeleteNow(e) ==
  /\ AppTurn
  /\ Usable(e)
  /\ ~DisablePending(e)
  /\ reg.index[e] # "kAdded"
  /\ reg' = IF reg.index[e] = "kNew" THEN reg ELSE RemoveEvent(reg, e)
  /\ live' = live \ {e}
  /\ UNCHANGED <<doomed, taskQueue, keepRunning, poolUp, phase, loopVars>>

\* A disabled event (removed, or only taken out of epoll by disableAll) is
\* handed to a task that removes it if need be and deletes it.
PostDelete(e) ==
  /\ AppTurn
  /\ Usable(e)
  /\ ~DisablePending(e)
  /\ reg.index[e] # "kAdded"
  /\ Post(e)
  /\ doomed' = doomed \cup {e}
  /\ UNCHANGED <<reg, live, keepRunning, poolUp, phase, loopVars>>

\* runTask(fun, false)
PostTask ==
  /\ AppTurn
  /\ Post(AppTask)
  /\ UNCHANGED <<reg, live, doomed, keepRunning, poolUp, phase, loopVars>>

\* Called before runLoop it has no effect; the wait time is ignored.
ExitLoop ==
  /\ AppTurn
  /\ keepRunning' = FALSE
  /\ UNCHANGED <<reg, live, doomed, taskQueue, poolUp, phase, loopVars>>

App ==
  \/ \E e \in Events, f \in Fds : Create(e, f)
  \/ \E e \in Events : Update(e) \/ Remove(e) \/ PostDelete(e)
  \/ PostTask
  \/ ExitLoop

-----------------------------------------------------------------------------
(* runLoop.  A second call starts the pool's threads over threads that are *)
(* still joinable, and std::terminate ends the program.                    *)

RunLoop ==
  /\ phase = "idle"
  /\ keepRunning' \in BOOLEAN                \* mode kOnce or kForever
  /\ poolUp' = TRUE
  /\ phase' = IF poolUp THEN "aborted" ELSE "poll"
  /\ UNCHANGED <<reg, live, doomed, taskQueue, loopVars>>

\* Mutant: poll() does not double the full array of events.
GrowNever(n) == cap' = cap

\* Mutant: the array is resized to what the kernel reported.
GrowToFit(n) == cap' = n

Grow(n) == cap' = IF n = cap THEN 2 * cap ELSE cap

Registered == {f \in Fds : reg.kptr[f] # NoEvent}

MustReport == {f \in Registered \cap AlwaysReady : "read" \in reg.kmask[f]}

Raised(f) ==
  { s \in SUBSET (Reportable(reg.kmask[f]) \cap Signals) :
      s # {} /\ (f \in MustReport => "IN" \in s) }

Orders(S) ==
  { s \in [1..Cardinality(S) -> S] : \A i, j \in DOMAIN s : s[i] = s[j] => i = j }

\* poll collects what the kernel reports, in the order it reports it.
Report(ready, sig) ==
  /\ \E order \in Orders(ready) : active' = [i \in DOMAIN order |-> reg.kptr[order[i]]]
  /\ revents' = [e \in Events |->
       IF \E f \in ready : reg.kptr[f] = e THEN sig[reg.fd[e]] ELSE revents[e]]
  /\ Grow(Cardinality(ready))
  /\ phase' = "task"
  /\ UNCHANGED <<reg, live, doomed, taskQueue, keepRunning, poolUp, calls, locked>>

\* poll(0, &activeEvents_): the kernel leaves a ready descriptor out only when
\* the array is full.
Poll ==
  /\ phase = "poll"
  /\ \E ready \in SUBSET Registered :
       /\ Cardinality(ready) <= cap
       /\ MustReport \subseteq ready \/ Cardinality(ready) = cap
       /\ \E sig \in [ready -> SUBSET Signals] :
            /\ \A f \in ready : sig[f] \in Raised(f)
            /\ Report(ready, sig)

\* handleTaskFun runs the first task, if there is one; the task leaves the
\* queue after it has run.
NoTask ==
  /\ phase = "task"
  /\ taskQueue = <<>>
  /\ phase' = "handle"
  /\ UNCHANGED <<reg, live, doomed, taskQueue, keepRunning, poolUp, loopVars>>

StartTask ==
  /\ phase = "task"
  /\ taskQueue # <<>>
  /\ Head(taskQueue) = AppTask
  /\ phase' = "intask"
  /\ UNCHANGED <<reg, live, doomed, taskQueue, keepRunning, poolUp, loopVars>>

\* Mutant: handleTaskFun without its pop_front.
TaskReturnsNoPop ==
  /\ phase = "intask"
  /\ phase' = "handle"
  /\ UNCHANGED <<reg, live, doomed, taskQueue, keepRunning, poolUp, loopVars>>

TaskReturns ==
  /\ phase = "intask"
  /\ taskQueue' = Tail(taskQueue)
  /\ phase' = "handle"
  /\ UNCHANGED <<reg, live, doomed, keepRunning, poolUp, loopVars>>

\* Mutant: the posted task removes an event that was removed before.
DeleteEventRemovingTwice ==
  /\ phase = "task"
  /\ taskQueue # <<>>
  /\ LET e == Head(taskQueue)
     IN  /\ e \in Events
         /\ reg' = RemoveEvent(reg, e)
         /\ live' = live \ {e}
         /\ doomed' = doomed \ {e}
  /\ taskQueue' = Tail(taskQueue)
  /\ phase' = "handle"
  /\ UNCHANGED <<keepRunning, poolUp, loopVars>>

DeleteEvent ==
  /\ phase = "task"
  /\ taskQueue # <<>>
  /\ LET e == Head(taskQueue)
     IN  /\ e \in Events
         /\ reg' = IF reg.index[e] = "kNew" THEN reg ELSE RemoveEvent(reg, e)
         /\ live' = live \ {e}
         /\ doomed' = doomed \ {e}
  /\ taskQueue' = Tail(taskQueue)
  /\ phase' = "handle"
  /\ UNCHANGED <<keepRunning, poolUp, loopVars>>

\* handleLockEvent: the callbacks the signals call for, in the code's order.
Calls(sig) ==
  (IF "HUP" \in sig /\ "IN" \notin sig THEN <<"close">> ELSE <<>>)
    \o (IF "ERR" \in sig THEN <<"error">> ELSE <<>>)
    \o (IF sig \cap {"IN", "PRI", "RDHUP"} # {} THEN <<"read">> ELSE <<>>)
    \o (IF "OUT" \in sig THEN <<"write">> ELSE <<>>)

\* Mutant: a one-shot event that has fired is handled again.
HandleLocked ==
  /\ phase = "handle"
  /\ active # <<>>
  /\ calls' = Calls(revents[Head(active)])
  /\ phase' = "incallback"
  /\ UNCHANGED <<reg, live, doomed, taskQueue, keepRunning, poolUp, active, revents, locked, cap>>

HandleEvent ==
  /\ phase = "handle"
  /\ active # <<>>
  /\ ~locked[Head(active)]
  /\ calls' = Calls(revents[Head(active)])
  /\ phase' = "incallback"
  /\ UNCHANGED <<reg, live, doomed, taskQueue, keepRunning, poolUp, active, revents, locked, cap>>

SkipLocked ==
  /\ phase = "handle"
  /\ active # <<>>
  /\ locked[Head(active)]
  /\ active' = Tail(active)
  /\ UNCHANGED <<reg, live, doomed, taskQueue, keepRunning, poolUp, phase, calls, revents, locked, cap>>

NextCallback ==
  /\ phase = "incallback"
  /\ Len(calls) > 1
  /\ calls' = Tail(calls)
  /\ UNCHANGED <<reg, live, doomed, taskQueue, keepRunning, poolUp, phase, active, revents, locked, cap>>

\* After the last callback a one-shot event locks and disables itself.
EventHandled ==
  /\ phase = "incallback"
  /\ Len(calls) <= 1
  /\ LET e == Head(active)
     IN  IF e \in OneShot
           THEN /\ locked' = [locked EXCEPT ![e] = TRUE]
                /\ reg' = DisableAll(reg, e)
           ELSE UNCHANGED <<locked, reg>>
  /\ calls' = <<>>
  /\ active' = Tail(active)
  /\ phase' = "handle"
  /\ UNCHANGED <<live, doomed, taskQueue, keepRunning, poolUp, revents, cap>>

\* The end of the iteration: the next one, or the return of runLoop.
EndIteration ==
  /\ phase = "handle"
  /\ active = <<>>
  /\ phase' = IF keepRunning THEN "poll" ELSE "idle"
  /\ UNCHANGED <<reg, live, doomed, taskQueue, keepRunning, poolUp, loopVars>>

LoopStep ==
  \/ Poll
  \/ NoTask \/ StartTask \/ TaskReturns \/ DeleteEvent
  \/ HandleEvent \/ SkipLocked \/ NextCallback \/ EventHandled
  \/ EndIteration

Next == App \/ RunLoop \/ LoopStep

Spec == Init /\ [][Next]_vars

\* The loop's thread is scheduled and every task and callback returns.
FairSpec == Spec /\ WF_vars(LoopStep)

-----------------------------------------------------------------------------
(* Safety.                                                                 *)

\* The loop never holds a pointer to a deleted event: a posted deletion runs
\* between poll and the handling of what it reported (Loop.cpp:72-81), so it
\* must never hit an event the same poll has reported.
NoUseAfterFree == \A i \in 1..Len(active) : active[i] \in live

\* The kernel's interest list, the Poller's map and the index_ and events_ of
\* the events agree, across re-adds with an empty mask, reused addresses and
\* reused descriptors: no entry points to a deleted or a wrong event
\* (Poller.cpp:65-116).
RegistryAgrees ==
  /\ \A f \in Fds :
       /\ reg.kptr[f] # NoEvent =>
            /\ reg.map[f] = reg.kptr[f]
            /\ reg.index[reg.kptr[f]] = "kAdded"
            /\ reg.kmask[f] = reg.events[reg.kptr[f]]
       /\ reg.map[f] # NoEvent =>
            /\ reg.map[f] \in live
            /\ reg.fd[reg.map[f]] = f
            /\ reg.index[reg.map[f]] # "kNew"
  /\ \A e \in Events :
       /\ reg.index[e] # "kNew" => reg.map[reg.fd[e]] = e
       /\ reg.index[e] = "kAdded" => reg.kptr[reg.fd[e]] = e

\* An application that follows the rule never breaks an assert of the Poller
\* (Poller.cpp:74-91, 104-110), whatever the order of its calls.
AssertsHold == reg.asserts

\* An event whose deletion is posted is out of epoll and stays out until it
\* is deleted (EpollFdEvent::remove, EpollFdEvent.h:95): nothing the loop does
\* on its own, disableAll() of a one-shot event included, puts it back.
RemovedStaysOut == \A e \in doomed : reg.index[e] # "kAdded"

\* EpollFdEvent::remove as EpollFdEvent.h:95 describes it: it takes the event
\* out of epoll, and no step of the loop registers it again.
RemoveLasts ==
  [][LoopStep => \A e \in Events : reg.index[e] = "kNew" => reg'.index[e] = "kNew"]_vars

-----------------------------------------------------------------------------
(* Liveness.                                                               *)

Stopped == phase \in {"idle", "aborted"}

\* One task per iteration and new tasks at every turn of the application do
\* not delay a posted deletion for ever: it runs unless the loop ends first.
DeletionRuns == \A e \in Events : e \in doomed ~> e \notin doomed \/ Stopped

WaitsToRead(e) ==
  /\ reg.index[e] = "kAdded"
  /\ "read" \in reg.events[e]
  /\ reg.fd[e] \in AlwaysReady
  /\ ~locked[e]

Reads(e) == phase = "incallback" /\ Head(active) = e /\ InSeq("read", calls)

\* No descriptor starves: an event whose descriptor stays ready gets its read
\* callback even when more descriptors are ready than events_ has room for
\* (Poller.cpp:44-46), unless it is disabled or the loop ends.
ReadyIsRead == \A e \in Events : WaitsToRead(e) ~> ~WaitsToRead(e) \/ Reads(e) \/ Stopped

=============================================================================
