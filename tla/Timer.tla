------------------------------- MODULE Timer -------------------------------
(***************************************************************************)
(* Timers on the event loop: Timer.cpp.  Every timer has an event of its   *)
(* own, created with it and never deleted, and from init() to cleanup() a  *)
(* timerfd.  A timer without interval is a one-shot event.                 *)
(***************************************************************************)
EXTENDS EventLoop

CONSTANTS NoFd    \* timerFd_ = -1

ASSUME TimerAssumption == NoFd \notin Fds /\ AlwaysReady = {} /\ "IN" \in Signals

Timers == Events

VARIABLES
  timerFd,   \* Timer::timerFd_
  armed,     \* timers whose timerfd is armed: remainTime() is not zero
  expired,   \* timers whose timerfd has an expiration to read
  calling,   \* the timer whose callback the application is in
  fired,     \* timers that have called back; no part of the code
  due        \* timers started and not stopped since; no part of the code

timerOnly == <<timerFd, armed, expired, calling, fired, due>>
timerVars == <<vars, timerOnly>>

TimerTypeOK ==
  /\ TypeOK
  /\ timerFd \in [Timers -> Fds \cup {NoFd}]
  /\ armed \cup expired \subseteq {t \in Timers : timerFd[t] # NoFd}
  /\ calling \in Timers \cup {NoEvent}
  /\ fired \cup due \subseteq Timers

\* The constructors of the timers have created their events.
TimersInit ==
  /\ \E fd \in [Events -> Fds] : reg = EmptyRegistry(fd)
  /\ live = Events /\ doomed = {}
  /\ revents = [e \in Events |-> {}]
  /\ locked = [e \in Events |-> FALSE]
  /\ active = <<>> /\ calls = <<>> /\ taskQueue = <<>>
  /\ keepRunning = TRUE /\ poolUp = FALSE
  /\ cap = InitialEntries /\ phase = "idle"
  /\ timerFd = [t \in Timers |-> NoFd]
  /\ armed = {} /\ expired = {} /\ fired = {} /\ due = {}
  /\ calling = NoEvent

-----------------------------------------------------------------------------
(* The application's calls.                                                *)

CanCall == phase \in {"idle", "intask"} \/ calling # NoEvent

Inited(t) == timerFd[t] # NoFd

On(t) == "read" \in reg.events[t]

FreeFds == Fds \ {timerFd[t] : t \in Timers}

\* A new descriptor for a timer that has none.  The event gets it, and its
\* mode; its index, mask and lock stay as they are.
InitTimer(t) ==
  /\ CanCall
  /\ ~Inited(t)
  /\ \E f \in FreeFds :
       /\ timerFd' = [timerFd EXCEPT ![t] = f]
       /\ reg' = [reg EXCEPT !.fd[t] = f]
  /\ UNCHANGED <<live, doomed, taskQueue, keepRunning, poolUp, phase, loopVars,
                 armed, expired, calling, fired, due>>

\* timerfd_settime with timerSpec_.
Arm(t) == armed' = armed \cup {t} /\ expired' = expired \ {t}

\* A one-shot event that is locked, or reported and about to disable itself:
\* a start() is no longer of use.
Spent(t) == locked[t] \/ DisablePending(t)

Asked(t) == due' = IF Spent(t) THEN due \ {t} ELSE due \cup {t}

\* Mutant: start() does not set the timer.
StartNotSet(t) ==
  /\ CanCall
  /\ Inited(t)
  /\ reg' = EnableReading(reg, t)
  /\ Asked(t)
  /\ UNCHANGED <<live, doomed, taskQueue, keepRunning, poolUp, phase, loopVars,
                 timerFd, armed, expired, calling, fired>>

Start(t) ==
  /\ CanCall
  /\ Inited(t)
  /\ reg' = EnableReading(reg, t)
  /\ Arm(t)
  /\ Asked(t)
  /\ UNCHANGED <<live, doomed, taskQueue, keepRunning, poolUp, phase, loopVars,
                 timerFd, calling, fired>>

\* stop() sets the timer to timerSpec_, not to the zero time it has prepared.
Stop(t) ==
  /\ CanCall
  /\ Inited(t)
  /\ Arm(t)
  /\ reg' = DisableReading(reg, t)
  /\ due' = due \ {t}
  /\ UNCHANGED <<live, doomed, taskQueue, keepRunning, poolUp, phase, loopVars,
                 timerFd, calling, fired>>

\* The descriptor is closed, of a timer that is not on; neither the event nor
\* the Poller's map is told.
Cleanup(t) ==
  /\ CanCall
  /\ Inited(t) /\ ~On(t)
  /\ timerFd' = [timerFd EXCEPT ![t] = NoFd]
  /\ armed' = armed \ {t} /\ expired' = expired \ {t}
  /\ reg' = Entry(reg, timerFd[t], NoEvent, {})
  /\ due' = due \ {t}
  /\ UNCHANGED <<live, doomed, taskQueue, keepRunning, poolUp, phase, loopVars,
                 calling, fired>>

-----------------------------------------------------------------------------
(* The kernel and the callback.                                            *)

\* A timer without interval expires once; it may have expired again before
\* the last expiration is read.
Expire(t) ==
  /\ t \in armed
  /\ expired' = expired \cup {t}
  /\ armed' = IF t \in OneShot THEN armed \ {t} ELSE armed
  /\ UNCHANGED <<vars, timerFd, calling, fired, due>>

Due(f) == "read" \in reg.kmask[f] /\ \E t \in expired : timerFd[t] = f

TimerPoll ==
  /\ phase = "poll"
  /\ Report({f \in Registered : Due(f)}, [f \in Fds |-> {"IN"}])
  /\ UNCHANGED timerOnly

OnTimer(t) == phase = "incallback" /\ calling = NoEvent /\ calls # <<>> /\ Head(active) = t

\* read() gets the number of expirations, and the application is called.
Fire(t) ==
  /\ OnTimer(t)
  /\ t \in expired
  /\ expired' = expired \ {t}
  /\ calling' = t
  /\ fired' = fired \cup {t}
  /\ due' = IF t \in OneShot THEN due \ {t} ELSE due
  /\ UNCHANGED <<vars, timerFd, armed>>

BodyDone ==
  /\ calls' = <<>>
  /\ UNCHANGED <<reg, live, doomed, taskQueue, keepRunning, poolUp, phase, active, revents,
                 locked, cap, timerFd, armed, expired, fired, due>>

\* Nothing to read: the timer was set again or closed since the poll.
NotExpired(t) == OnTimer(t) /\ t \notin expired /\ BodyDone /\ UNCHANGED calling

CallbackReturns == calling # NoEvent /\ calling' = NoEvent /\ BodyDone

TimerHandled == calls = <<>> /\ EventHandled /\ UNCHANGED timerOnly

-----------------------------------------------------------------------------
(* The timers among the application and the loop.                          *)

TimerStep ==
  \/ TimerPoll
  \/ UNCHANGED timerOnly /\ (NoTask \/ StartTask \/ TaskReturns)
  \/ UNCHANGED timerOnly /\ (HandleEvent \/ SkipLocked \/ EndIteration)
  \/ \E t \in Timers : Fire(t) \/ NotExpired(t)
  \/ CallbackReturns
  \/ TimerHandled

LoopCall ==
  /\ CanCall
  /\ PostTask \/ ExitLoop
  /\ UNCHANGED timerOnly

TimerCalls ==
  \/ \E t \in Timers : InitTimer(t) \/ Stop(t)
  \/ LoopCall
  \/ UNCHANGED timerOnly /\ ~poolUp /\ RunLoop

TimerFairness == WF_timerVars(TimerStep) /\ \A t \in Timers : WF_timerVars(Expire(t))

CleanupAtRest(t) == reg.index[t] # "kAdded" /\ ~DisablePending(t) /\ Cleanup(t)

\* A timer is cleaned up when it is out of epoll and, one-shot, not about to
\* disable itself.
TimerNext ==
  \/ TimerStep
  \/ TimerCalls
  \/ \E t \in Timers : Start(t) \/ CleanupAtRest(t) \/ Expire(t)

TimerSpec == TimersInit /\ [][TimerNext]_timerVars /\ TimerFairness

-----------------------------------------------------------------------------
(* Safety.                                                                 *)

\* A timer that is on is registered for reading with its own descriptor,
\* whatever was stopped, closed and reused around it (Timer.cpp:66-85).
OnRegistered ==
  \A t \in Timers : On(t) =>
    /\ Inited(t) /\ reg.kptr[timerFd[t]] = t
    /\ "read" \in reg.kmask[timerFd[t]]

\* So it stays while every variable keeps its type: only an initialised timer
\* is armed or has expired.
TimersSound == TimerTypeOK /\ OnRegistered

\* A one-shot timer calls back once at most, although stop() arms it again
\* (Timer.cpp:79) and start() enables it again.
OneShotOnce == [][\A t \in OneShot \cap fired : calling' = t => calling = t]_timerVars

-----------------------------------------------------------------------------
(* Liveness.                                                               *)

\* The application starts the timer again and again, each time before it calls
\* back.
SetForEver(t) == []<><<Start(t)>>_timerVars

\* A timer that is started calls back (Timer.h:43-48) unless the application
\* stops it or sets it for ever, or the loop ends.  Only a one-shot timer may be
\* started in vain: when its event is locked, or has been reported and locks and
\* disables itself (EpollFdEvent.cpp:71-74) after a read() that finds the timer
\* set again (Timer.cpp:107).  A repeating one is not, whatever stale
\* registrations of closed descriptors and empty reads come in between.
StartedFires ==
  \A t \in Timers : (t \in due ~> calling = t \/ t \notin due \/ Stopped) \/ SetForEver(t)

\* The same of every timer that is on and has not called back yet, spent or not,
\* as long as it is on: start() starts it (Timer.h:48).
FreshFires ==
  \A t \in Timers :
    (On(t) /\ t \notin fired ~> calling = t \/ ~On(t) \/ Stopped) \/ SetForEver(t)

=============================================================================
