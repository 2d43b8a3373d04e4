---------------------------- MODULE Timer_proofs ----------------------------
(***************************************************************************)
(* Proofs about Timer: for any number of timers and descriptors a timer    *)
(* that is on is registered with its own descriptor, however descriptors   *)
(* are closed and reused, every variable keeps its type, and a one-shot    *)
(* timer calls back once.                                                  *)
(***************************************************************************)
EXTENDS Timer, EventLoop_proofs

-----------------------------------------------------------------------------
(* What the registry and the timers' descriptors tf know of each other.    *)
(* The Poller's map is left out: cleanup() leaves stale entries in it.     *)

Matches(r, tf) ==
  /\ \A t \in Events : r.index[t] = "kAdded" =>
       /\ tf[t] # NoFd
       /\ r.kptr[tf[t]] = t
       /\ r.kmask[tf[t]] = r.events[t]
  /\ \A t \in Events : r.index[t] # "kAdded" => r.events[t] = {}
  /\ \A t \in Events : tf[t] # NoFd => r.fd[t] = tf[t]
  /\ \A f \in Fds : r.kptr[f] # NoEvent => tf[r.kptr[f]] = f /\ r.index[r.kptr[f]] = "kAdded"
  /\ \A t, u \in Events : t # u /\ tf[t] # NoFd => tf[t] # tf[u]

\* Enabling and disabling an initialised timer.
LEMMA SetEventsMatches ==
  ASSUME NEW r \in Registry, NEW tf \in [Events -> Fds \cup {NoFd}], Matches(r, tf),
         NEW e \in Events, NEW mask \in Masks, tf[e] # NoFd
  PROVE  SetEvents(r, e, mask) \in Registry /\ Matches(SetEvents(r, e, mask), tf)
<1> DEFINE q == [r EXCEPT !.events[e] = mask]
           f == r.fd[e]
           s == SetEvents(r, e, mask)
<1>0. /\ q \in Registry
      /\ q.index = r.index
      /\ q.events = [r.events EXCEPT ![e] = mask]
      /\ q.fd = r.fd
      /\ q.map = r.map
      /\ q.kptr = r.kptr
      /\ q.kmask = r.kmask
      /\ q.fd[e] = f /\ q.events[e] = mask /\ f \in Fds /\ tf[e] = f
  <2>1. tf[e] = r.fd[e]
    BY DEF Matches
  <2>2. q = [index |-> r.index, events |-> [r.events EXCEPT ![e] = mask], fd |-> r.fd,
             map |-> r.map, kptr |-> r.kptr, kmask |-> r.kmask, asserts |-> r.asserts]
    BY RegistryFields
  <2> QED BY <2>1, <2>2, RegistryFields DEF Registry
<1>1. s = UpdateEvent(q, e)
  BY DEF SetEvents
<1> HIDE DEF q, s
<1>2. \A claim \in BOOLEAN :
        /\ Claim(q, claim) \in Registry
        /\ Claim(q, claim).index = r.index
        /\ Claim(q, claim).events = q.events
        /\ Claim(q, claim).fd = r.fd
        /\ Claim(q, claim).map = r.map
        /\ Claim(q, claim).kptr = r.kptr
        /\ Claim(q, claim).kmask = r.kmask
  BY <1>0, RegistryFields DEF Claim, Registry
<1>3. CASE r.index[e] \in {"kNew", "kDeleted"}
  <2>1. r.kptr[f] = NoEvent
    BY <1>0, <1>3, RegistryFields, NoEventAssumption, TimerAssumption DEF Matches
  <2>2. /\ s \in Registry
        /\ s.index = [r.index EXCEPT ![e] = "kAdded"]
        /\ s.events = [r.events EXCEPT ![e] = mask]
        /\ s.fd = r.fd
        /\ s.kptr = [r.kptr EXCEPT ![f] = e]
        /\ s.kmask = [r.kmask EXCEPT ![f] = mask]
    <3>1. PICK p \in Registry :
            /\ s = EpollAdd(p, e)
            /\ p.index = [r.index EXCEPT ![e] = "kAdded"]
            /\ p.events = q.events /\ p.fd = r.fd /\ p.kptr = r.kptr /\ p.kmask = r.kmask
      <4>1. CASE r.index[e] = "kNew"
        <5> DEFINE c == Claim(q, q.map[f] = NoEvent)
                   p == [c EXCEPT !.map[f] = e, !.index[e] = "kAdded"]
        <5>1. s = EpollAdd(p, e)
          BY <4>1, <1>0, <1>1 DEF UpdateEvent, AddNew
        <5>2. /\ c \in Registry
              /\ c.index = r.index /\ c.events = q.events /\ c.fd = r.fd
              /\ c.kptr = r.kptr /\ c.kmask = r.kmask
          BY <1>2
        <5> HIDE DEF c
        <5>3. /\ p \in Registry
              /\ p.index = [r.index EXCEPT ![e] = "kAdded"]
              /\ p.events = q.events /\ p.fd = r.fd /\ p.kptr = r.kptr /\ p.kmask = r.kmask
          BY <1>0, <5>2, RegistryFields DEF Registry, Indexes
        <5> HIDE DEF p
        <5> QED BY <5>1, <5>3
      <4>2. CASE r.index[e] = "kDeleted"
        <5> DEFINE c == Claim(q, q.map[q.fd[e]] = e)
                   p == [c EXCEPT !.index[e] = "kAdded"]
        <5>1. s = EpollAdd(p, e)
          BY <4>2, <1>0, <1>1 DEF UpdateEvent, AddAgain
        <5>2. /\ c \in Registry
              /\ c.index = r.index /\ c.events = q.events /\ c.fd = r.fd
              /\ c.kptr = r.kptr /\ c.kmask = r.kmask
          BY <1>2
        <5> HIDE DEF c
        <5>3. /\ p \in Registry
              /\ p.index = [r.index EXCEPT ![e] = "kAdded"]
              /\ p.events = q.events /\ p.fd = r.fd /\ p.kptr = r.kptr /\ p.kmask = r.kmask
          BY <5>2, RegistryFields DEF Registry, Indexes
        <5> HIDE DEF p
        <5> QED BY <5>1, <5>3
      <4> QED BY <1>3, <4>1, <4>2
    <3>2. s = Entry(p, f, e, mask)
      BY <1>0, <2>1, <3>1 DEF EpollAdd
    <3>3. s = [index |-> p.index, events |-> p.events, fd |-> p.fd, map |-> p.map,
               kptr |-> [p.kptr EXCEPT ![f] = e], kmask |-> [p.kmask EXCEPT ![f] = mask],
               asserts |-> p.asserts]
      <4> HIDE DEF f
      <4>1. p = [index |-> p.index, events |-> p.events, fd |-> p.fd, map |-> p.map,
                 kptr |-> p.kptr, kmask |-> p.kmask, asserts |-> p.asserts]
        BY RegistryFields
      <4>2. s = [p EXCEPT !.kptr = [p.kptr EXCEPT ![f] = e],
                          !.kmask = [p.kmask EXCEPT ![f] = mask]]
        BY <3>2, <4>1 DEF Entry
      <4> QED BY <4>1, <4>2
    <3>4. /\ [p.kptr EXCEPT ![f] = e] \in [Fds -> Events \cup {NoEvent}]
          /\ [p.kmask EXCEPT ![f] = mask] \in [Fds -> Masks]
      BY <1>0, RegistryFields
    <3>5. s \in Registry
      BY <3>3, <3>4, RegistryFields DEF Registry
    <3> QED BY <1>0, <3>1, <3>3, <3>5
  <2>3. Matches(s, tf)
    BY <1>0, <1>3, <2>1, <2>2, RegistryFields, NoEventAssumption, TimerAssumption DEF Matches
  <2> QED BY <2>2, <2>3 DEF s
<1>4. CASE r.index[e] = "kAdded"
  <2> DEFINE c == Claim(q, q.map[q.fd[e]] = e)
  <2>1. r.kptr[f] = e
    BY <1>0, <1>4 DEF Matches
  <2>2. s = Change(q, e)
    BY <1>0, <1>1, <1>4 DEF UpdateEvent
  <2>3. /\ c \in Registry
        /\ c.index = r.index /\ c.events = q.events /\ c.fd = r.fd
        /\ c.kptr = r.kptr /\ c.kmask = r.kmask
    BY <1>2
  <2>4. s = IF mask = {} THEN [EpollDel(c, e) EXCEPT !.index[e] = "kDeleted"]
            ELSE EpollMod(c, e)
    BY <1>0, <2>2 DEF Change
  <2> HIDE DEF c
  <2>5. CASE mask = {}
    <3>1. s = [Entry(c, f, NoEvent, {}) EXCEPT !.index[e] = "kDeleted"]
      BY <1>0, <2>3, <2>4, <2>5 DEF EpollDel
    <3>2. /\ s \in Registry
          /\ s.index = [r.index EXCEPT ![e] = "kDeleted"]
          /\ s.events = [r.events EXCEPT ![e] = {}]
          /\ s.fd = r.fd
          /\ s.kptr = [r.kptr EXCEPT ![f] = NoEvent]
          /\ s.kmask = [r.kmask EXCEPT ![f] = {}]
      BY <1>0, <2>3, <2>5, <3>1, RegistryFields DEF Entry, Registry, Indexes, Masks
    <3>3. Matches(s, tf)
      BY <1>0, <2>1, <3>2, RegistryFields, NoEventAssumption, TimerAssumption DEF Matches
    <3> QED BY <3>2, <3>3 DEF s
  <2>6. CASE mask # {}
    <3>1. s = Entry(c, f, e, mask)
      BY <1>0, <2>1, <2>3, <2>4, <2>6, NoEventAssumption DEF EpollMod
    <3>2. /\ s \in Registry
          /\ s.index = r.index
          /\ s.events = [r.events EXCEPT ![e] = mask]
          /\ s.fd = r.fd
          /\ s.kptr = [r.kptr EXCEPT ![f] = e]
          /\ s.kmask = [r.kmask EXCEPT ![f] = mask]
      BY <1>0, <2>3, <3>1, RegistryFields DEF Entry, Registry
    <3>3. Matches(s, tf)
      BY <1>0, <1>4, <2>1, <3>2, RegistryFields, NoEventAssumption, TimerAssumption DEF Matches
    <3> QED BY <3>2, <3>3 DEF s
  <2> QED BY <2>5, <2>6
<1> QED BY <1>3, <1>4, RegistryFields DEF Indexes
-----------------------------------------------------------------------------
(* The inductive invariant.                                                *)

\* A one-shot event that is reported and still to lock itself is the event of
\* an initialised timer: its own disableAll() has a descriptor to work on.
PendingInited == \A t \in Events : DisablePending(t) => Inited(t)

TInv ==
  /\ TimerTypeOK
  /\ Matches(reg, timerFd)
  /\ PendingInited
  /\ PhaseInv

LEMMA InitTInv == TimersInit => TInv
<1> SUFFICES ASSUME TimersInit PROVE TInv
  OBVIOUS
<1>1. PICK fd \in [Events -> Fds] : reg = EmptyRegistry(fd)
  BY DEF TimersInit
<1>2. reg \in Registry
  BY <1>1, EmptyRegistryInv
<1>3. /\ \A t \in Events : reg.index[t] = "kNew" /\ reg.events[t] = {}
      /\ \A f \in Fds : reg.kptr[f] = NoEvent
      /\ \A t \in Events : timerFd[t] = NoFd
  BY <1>1 DEF EmptyRegistry, TimersInit, Timers
<1>4. TimerTypeOK
  <2>1. active \in Seq(Events) /\ calls \in Seq(Callbacks) /\ taskQueue \in Seq(Events \cup {AppTask})
    BY DEF TimersInit
  <2>2. TypeOK
    BY <1>2, <2>1, ConstantsAssumption DEF TimersInit, TypeOK, Phases
  <2> QED BY <2>2 DEF TimersInit, TimerTypeOK, Timers
<1>5. Matches(reg, timerFd)
  BY <1>3 DEF Matches
<1>6. PendingInited
  BY DEF TimersInit, PendingInited, DisablePending, InSeq
<1>7. PhaseInv
  BY DEF TimersInit, PhaseInv
<1> QED BY <1>4, <1>5, <1>6, <1>7 DEF TInv

\* A call of the application that changes no more than the registry, the
\* descriptors and the kernel's timers.
LEMMA CallTInv ==
  ASSUME TInv, TimerTypeOK', Matches(reg, timerFd)',
         UNCHANGED <<active, locked, taskQueue, phase>>,
         \A t \in Events : DisablePending(t) /\ timerFd[t] # NoFd => timerFd'[t] # NoFd
  PROVE  TInv'
<1>1. PendingInited'
  BY DEF TInv, PendingInited, DisablePending, Inited, InSeq
<1>2. PhaseInv'
  BY DEF TInv, PhaseInv
<1> QED BY <1>1, <1>2 DEF TInv

\* A step that changes neither registry nor descriptors, and reports nothing.
LEMMA QuietTInv ==
  ASSUME TInv, TimerTypeOK', PhaseInv',
         UNCHANGED <<reg, active, locked, timerFd>>
  PROVE  TInv'
BY DEF TInv, PendingInited, DisablePending, Inited, InSeq

-----------------------------------------------------------------------------
(* The application's calls.                                                *)

LEMMA InitTimerTInv ==
  ASSUME TInv, NEW t \in Events, InitTimer(t)
  PROVE  TInv'
<1>1. PICK f \in FreeFds : /\ timerFd' = [timerFd EXCEPT ![t] = f]
                           /\ reg' = [reg EXCEPT !.fd[t] = f]
  BY DEF InitTimer
<1>2. /\ f \in Fds /\ f # NoFd
      /\ \A u \in Events : timerFd[u] # f
      /\ timerFd[t] = NoFd
      /\ UNCHANGED <<live, doomed, taskQueue, keepRunning, poolUp, phase, active, calls,
                     revents, locked, cap, armed, expired, calling, fired, due>>
  BY TimerAssumption DEF InitTimer, FreeFds, Inited, loopVars, Timers
<1>3. /\ reg' \in Registry
      /\ reg'.index = reg.index /\ reg'.events = reg.events
      /\ reg'.fd = [reg.fd EXCEPT ![t] = f]
      /\ reg'.kptr = reg.kptr /\ reg'.kmask = reg.kmask
  BY <1>1, <1>2, RegistryFields DEF TInv, TimerTypeOK, TypeOK, Registry
<1>4. TimerTypeOK'
  BY <1>1, <1>2, <1>3 DEF TInv, TimerTypeOK, TypeOK, Timers
<1>5. Matches(reg, timerFd)'
  <2>1. timerFd \in [Events -> Fds \cup {NoFd}]
    BY DEF TInv, TimerTypeOK, Timers
  <2>2. reg \in Registry
    BY DEF TInv, TimerTypeOK, TypeOK
  <2>3. reg.index[t] # "kAdded"
    BY <1>2 DEF TInv, Matches
  <2> QED
    BY <1>1, <1>2, <1>3, <2>1, <2>2, <2>3, RegistryFields, NoEventAssumption, TimerAssumption
    DEF TInv, Matches
<1>6. \A u \in Events : timerFd[u] # NoFd => timerFd'[u] # NoFd
  BY <1>1, <1>2 DEF TInv, TimerTypeOK, Timers
<1> QED BY <1>2, <1>4, <1>5, <1>6, CallTInv

\* start() and stop() change the mask of an initialised timer.
LEMMA SwitchTInv ==
  ASSUME TInv, NEW t \in Events, Start(t) \/ Stop(t)
  PROVE  TInv'
<1>1. /\ timerFd[t] # NoFd
      /\ armed' = armed \cup {t} /\ expired' = expired \ {t}
      /\ due' \subseteq due \cup {t}
      /\ UNCHANGED <<live, doomed, taskQueue, keepRunning, poolUp, phase, active, calls,
                     revents, locked, cap, timerFd, calling, fired>>
  BY DEF Start, Stop, Arm, Asked, Inited, loopVars
<1>2. reg \in Registry /\ timerFd \in [Events -> Fds \cup {NoFd}]
  BY DEF TInv, TimerTypeOK, TypeOK, Timers
<1>3. PICK mask \in Masks : reg' = SetEvents(reg, t, mask)
  <2>1. reg.events[t] \in Masks
    BY <1>2, RegistryFields
  <2>2. reg.events[t] \cup {"read"} \in Masks /\ reg.events[t] \ {"read"} \in Masks
    BY <2>1 DEF Masks
  <2> QED BY <2>2 DEF Start, Stop, EnableReading, DisableReading
<1>4. reg' \in Registry /\ Matches(reg', timerFd)
  BY <1>1, <1>2, <1>3, SetEventsMatches DEF TInv
<1>5. TimerTypeOK'
  BY <1>1, <1>4 DEF TInv, TimerTypeOK, TypeOK, Timers
<1> QED BY <1>1, <1>4, <1>5, CallTInv

LEMMA CleanupTInv ==
  ASSUME TInv, NEW t \in Events, CleanupAtRest(t)
  PROVE  TInv'
<1> DEFINE f == timerFd[t]
<1>1. /\ f # NoFd /\ reg.index[t] # "kAdded" /\ ~DisablePending(t)
      /\ timerFd' = [timerFd EXCEPT ![t] = NoFd]
      /\ armed' = armed \ {t} /\ expired' = expired \ {t}
      /\ reg' = Entry(reg, f, NoEvent, {})
      /\ due' \subseteq due
      /\ UNCHANGED <<live, doomed, taskQueue, keepRunning, poolUp, phase, active, calls,
                     revents, locked, cap, calling, fired>>
  BY DEF CleanupAtRest, Cleanup, Inited, loopVars
<1>2. reg \in Registry /\ timerFd \in [Events -> Fds \cup {NoFd}] /\ f \in Fds
  BY <1>1 DEF TInv, TimerTypeOK, TypeOK, Timers
<1> HIDE DEF f
<1>3. /\ reg' \in Registry
      /\ reg'.index = reg.index /\ reg'.events = reg.events /\ reg'.fd = reg.fd
      /\ reg'.kptr = [reg.kptr EXCEPT ![f] = NoEvent]
      /\ reg'.kmask = [reg.kmask EXCEPT ![f] = {}]
  BY <1>1, <1>2, RegistryFields DEF Entry, Registry, Masks
<1>4. TimerTypeOK'
  BY <1>1, <1>2, <1>3 DEF TInv, TimerTypeOK, TypeOK, Timers
<1>5. \A u \in Events : timerFd[u] = f => u = t
  BY <1>1, <1>2 DEF f, TInv, Matches
<1>6. Matches(reg, timerFd)'
  BY <1>1, <1>2, <1>3, <1>5, RegistryFields, NoEventAssumption, TimerAssumption DEF TInv, Matches
<1>7. \A u \in Events : DisablePending(u) /\ timerFd[u] # NoFd => timerFd'[u] # NoFd
  BY <1>1, <1>2
<1> QED BY <1>1, <1>4, <1>6, <1>7, CallTInv

LEMMA LoopCallTInv ==
  ASSUME TInv, LoopCall
  PROVE  TInv'
<1>1. CASE PostTask
  <2>1. /\ taskQueue' = Append(taskQueue, AppTask)
        /\ UNCHANGED <<reg, live, doomed, keepRunning, poolUp, phase, active, calls, revents,
                       locked, cap, timerFd, armed, expired, calling, fired, due>>
    BY <1>1 DEF LoopCall, PostTask, Post, loopVars, timerOnly
  <2>2. taskQueue' \in Seq(Events \cup {AppTask}) /\ taskQueue' # <<>>
    BY <2>1 DEF TInv, TimerTypeOK, TypeOK
  <2>3. TimerTypeOK'
    BY <2>1, <2>2 DEF TInv, TimerTypeOK, TypeOK
  <2>4. PhaseInv'
    BY <2>1, <2>2 DEF TInv, PhaseInv
  <2> QED BY <2>1, <2>3, <2>4, QuietTInv
<1>2. CASE ExitLoop
  <2>1. /\ keepRunning' = FALSE
        /\ UNCHANGED <<reg, live, doomed, taskQueue, poolUp, phase, active, calls, revents,
                       locked, cap, timerFd, armed, expired, calling, fired, due>>
    BY <1>2 DEF LoopCall, ExitLoop, loopVars, timerOnly
  <2>2. TimerTypeOK'
    BY <2>1 DEF TInv, TimerTypeOK, TypeOK
  <2>3. PhaseInv'
    BY <2>1 DEF TInv, PhaseInv
  <2> QED BY <2>1, <2>2, <2>3, QuietTInv
<1> QED BY <1>1, <1>2 DEF LoopCall

-----------------------------------------------------------------------------
(* The kernel and the loop.                                                *)

LEMMA ExpireTInv ==
  ASSUME TInv, NEW t \in Events, Expire(t)
  PROVE  TInv'
<1>1. /\ t \in armed /\ expired' = expired \cup {t} /\ armed' \subseteq armed
      /\ UNCHANGED <<reg, live, doomed, taskQueue, keepRunning, poolUp, phase, active, calls,
                     revents, locked, cap, timerFd, calling, fired, due>>
  BY DEF Expire, vars, loopVars
<1>2. TimerTypeOK'
  BY <1>1 DEF TInv, TimerTypeOK, TypeOK
<1>3. PhaseInv'
  BY <1>1 DEF TInv, PhaseInv
<1> QED BY <1>1, <1>2, <1>3, QuietTInv

LEMMA TimerPollTInv ==
  ASSUME TInv, TimerPoll
  PROVE  TInv'
<1> DEFINE ready == {f \in Registered : Due(f)}
           sig == [f \in Fds |-> {"IN"}]
           n == Cardinality(ready)
<1>1. /\ Report(ready, sig)
      /\ UNCHANGED <<timerFd, armed, expired, calling, fired, due>>
  BY DEF TimerPoll, timerOnly
<1>2. ready \subseteq Registered /\ Registered \subseteq Fds
  BY DEF Registered
<1>3. \A f \in Fds : sig[f] = {"IN"}
  OBVIOUS
<1> HIDE DEF ready, sig
<1>4. PICK order \in Orders(ready) : active' = [i \in DOMAIN order |-> reg.kptr[order[i]]]
  BY <1>1 DEF Report
<1>5. n \in Nat
  <2>1. IsFiniteSet(ready)
    BY <1>2, ConstantsAssumption, FS_Subset
  <2> QED BY <2>1, FS_CardinalityType
<1>6. \A i \in 1..n : reg.kptr[order[i]] \in Events /\ timerFd[reg.kptr[order[i]]] # NoFd
  BY <1>2, <1>4, RegistryFields, TimerAssumption
  DEF TInv, TimerTypeOK, TypeOK, Matches, Orders, Registered
<1>7. active' = [i \in 1..n |-> reg.kptr[order[i]]]
  BY <1>4 DEF Orders
<1> HIDE DEF n
<1>8. active' \in Seq(Events) /\ Len(active') = n
  BY <1>5, <1>6, <1>7
<1>9. revents' \in [Events -> SUBSET Signals]
  <2>1. \A e \in Events : reg.fd[e] \in Fds
    BY RegistryFields DEF TInv, TimerTypeOK, TypeOK
  <2> QED BY <1>1, <1>3, <2>1, TimerAssumption DEF Report, TInv, TimerTypeOK, TypeOK
<1>10. cap' \in Nat \ {0}
  <2>1. cap' = IF n = cap THEN 2 * cap ELSE cap
    BY <1>1 DEF Report, Grow, n
  <2> QED BY <2>1 DEF TInv, TimerTypeOK, TypeOK
<1>11. /\ phase' = "task"
       /\ UNCHANGED <<reg, live, doomed, taskQueue, keepRunning, poolUp, calls, locked>>
  BY <1>1 DEF Report
<1>12. TimerTypeOK'
  BY <1>1, <1>8, <1>9, <1>10, <1>11 DEF TInv, TimerTypeOK, TypeOK, Phases
<1>13. PendingInited'
  <2>1. \A i \in 1..Len(active') : timerFd[active'[i]] # NoFd
    BY <1>6, <1>7, <1>8
  <2> QED BY <1>1, <2>1 DEF PendingInited, DisablePending, InSeq, Inited
<1>14. Matches(reg, timerFd)' /\ PhaseInv'
  BY <1>1, <1>11 DEF TInv, PhaseInv
<1> QED BY <1>12, <1>13, <1>14 DEF TInv
\* handleLockEvent: a one-shot event disables itself, whose timer has a
\* descriptor still.
LEMMA TimerHandledTInv ==
  ASSUME TInv, TimerHandled
  PROVE  TInv'
<1> DEFINE e == Head(active)
<1>1. /\ active # <<>> /\ ~locked[e] /\ e \in Events /\ InSeq(e, active)
  BY DEF TimerHandled, EventHandled, TInv, TimerTypeOK, TypeOK, PhaseInv, InSeq
<1>2. /\ active' = Tail(active) /\ calls' = <<>> /\ phase' = "handle"
      /\ UNCHANGED <<live, doomed, taskQueue, keepRunning, poolUp, revents, cap,
                     timerFd, armed, expired, calling, fired, due>>
  BY DEF TimerHandled, EventHandled, timerOnly
<1>3. /\ active' \in Seq(Events)
      /\ \A x \in Events : InSeq(x, active') => InSeq(x, active)
  BY <1>1, <1>2, TailActive DEF TInv, TimerTypeOK, InSeq
<1>4. /\ reg' \in Registry /\ Matches(reg', timerFd)
      /\ locked' \in [Events -> BOOLEAN]
      /\ \A x \in Events : ~locked'[x] => ~locked[x]
  <2>1. CASE e \notin OneShot
    BY <2>1 DEF TimerHandled, EventHandled, TInv, TimerTypeOK, TypeOK
  <2>2. CASE e \in OneShot
    <3>1. timerFd[e] # NoFd
      BY <1>1, <2>2 DEF TInv, PendingInited, DisablePending, Inited
    <3>2. reg' = SetEvents(reg, e, {}) /\ locked' = [locked EXCEPT ![e] = TRUE]
      BY <2>2 DEF TimerHandled, EventHandled, DisableAll
    <3>3. reg' \in Registry /\ Matches(reg', timerFd)
      BY <1>1, <3>1, <3>2, SetEventsMatches DEF TInv, TimerTypeOK, TypeOK, Timers, Masks
    <3>4. /\ locked' \in [Events -> BOOLEAN]
          /\ \A x \in Events : ~locked'[x] => ~locked[x]
      BY <1>1, <3>2 DEF TInv, TimerTypeOK, TypeOK
    <3> QED BY <3>3, <3>4
  <2> QED BY <2>1, <2>2
<1> HIDE DEF e
<1>5. calls' \in Seq(Callbacks)
  BY <1>2
<1>6. TimerTypeOK'
  BY <1>2, <1>3, <1>4, <1>5 DEF TInv, TimerTypeOK, TypeOK, Phases
<1>7. PendingInited'
  BY <1>2, <1>3, <1>4 DEF TInv, PendingInited, DisablePending, Inited
<1>8. Matches(reg, timerFd)' /\ PhaseInv'
  BY <1>2, <1>4 DEF PhaseInv
<1> QED BY <1>6, <1>7, <1>8 DEF TInv

\* The callback: registry, descriptors and reported events stay.
LEMMA CallbackTInv ==
  ASSUME TInv, (\E t \in Events : Fire(t) \/ NotExpired(t)) \/ CallbackReturns
  PROVE  TInv'
<1>1. /\ UNCHANGED <<reg, live, doomed, taskQueue, keepRunning, poolUp, phase, active,
                     revents, locked, cap, timerFd, armed>>
      /\ expired' \subseteq expired
      /\ calls' = calls \/ calls' = <<>>
      /\ calling' \in Events \cup {NoEvent}
      /\ fired' \subseteq fired \cup Events /\ due' \subseteq due
  BY DEF TInv, TimerTypeOK, Timers, Fire, NotExpired, CallbackReturns, BodyDone, vars, loopVars
<1>2. calls' \in Seq(Callbacks)
  <2>1. calls \in Seq(Callbacks) /\ <<>> \in Seq(Callbacks)
    BY DEF TInv, TimerTypeOK, TypeOK
  <2> QED BY <1>1, <2>1
<1>3. TimerTypeOK'
  BY <1>1, <1>2 DEF TInv, TimerTypeOK, TypeOK, Timers
<1>4. PhaseInv'
  BY <1>1 DEF TInv, PhaseInv
<1> QED BY <1>1, <1>3, <1>4, QuietTInv

LEMMA SkipLockedTInv ==
  ASSUME TInv, SkipLocked, UNCHANGED timerOnly
  PROVE  TInv'
<1>1. /\ active # <<>> /\ active' = Tail(active) /\ phase = "handle"
      /\ UNCHANGED <<reg, live, doomed, taskQueue, keepRunning, poolUp, phase, calls, revents,
                     locked, cap, timerFd, armed, expired, calling, fired, due>>
  BY DEF SkipLocked, timerOnly
<1>2. /\ active' \in Seq(Events)
      /\ \A x \in Events : InSeq(x, active') => InSeq(x, active)
  BY <1>1, TailActive DEF TInv, TimerTypeOK, InSeq
<1>3. TimerTypeOK'
  BY <1>1, <1>2 DEF TInv, TimerTypeOK, TypeOK
<1>4. PendingInited'
  BY <1>1, <1>2 DEF TInv, PendingInited, DisablePending, Inited
<1>5. Matches(reg, timerFd)' /\ PhaseInv'
  BY <1>1 DEF TInv, PhaseInv
<1> QED BY <1>3, <1>4, <1>5 DEF TInv

\* The other steps of the loop.
LEMMA LoopTInv ==
  ASSUME TInv, UNCHANGED timerOnly,
         NoTask \/ StartTask \/ TaskReturns \/ HandleEvent \/ EndIteration \/ RunLoop
  PROVE  TInv'
<1> USE DEF timerOnly, loopVars
<1>1. UNCHANGED <<reg, active, locked, timerFd, armed, expired, calling, fired, due, live, doomed,
                  revents, cap>>
  BY DEF NoTask, StartTask, TaskReturns, HandleEvent, EndIteration, RunLoop
<1>2. TypeOK' /\ PhaseInv'
  <2>1. CASE NoTask
    BY <2>1 DEF NoTask, TInv, TimerTypeOK, TypeOK, Phases, PhaseInv
  <2>2. CASE StartTask
    BY <2>2 DEF StartTask, TInv, TimerTypeOK, TypeOK, Phases, PhaseInv
  <2>3. CASE TaskReturns
    <3>1. taskQueue # <<>>
      BY <2>3 DEF TaskReturns, TInv, PhaseInv
    <3> QED BY <2>3, <3>1 DEF TaskReturns, TInv, TimerTypeOK, TypeOK, Phases, PhaseInv
  <2>4. CASE HandleEvent
    BY <2>4, CallsType DEF HandleEvent, TInv, TimerTypeOK, TypeOK, Phases, PhaseInv
  <2>5. CASE EndIteration
    BY <2>5 DEF EndIteration, TInv, TimerTypeOK, TypeOK, Phases, PhaseInv
  <2>6. CASE RunLoop
    BY <2>6 DEF RunLoop, TInv, TimerTypeOK, TypeOK, Phases, PhaseInv
  <2> QED BY <2>1, <2>2, <2>3, <2>4, <2>5, <2>6
<1>3. TimerTypeOK'
  BY <1>1, <1>2 DEF TInv, TimerTypeOK
<1> QED BY <1>1, <1>2, <1>3, QuietTInv

-----------------------------------------------------------------------------
(* The invariant is inductive.                                             *)

LEMMA NextTInv == TInv /\ [TimerNext]_timerVars => TInv'
<1> SUFFICES ASSUME TInv, [TimerNext]_timerVars PROVE TInv'
  OBVIOUS
<1>1. CASE TimerStep
  BY <1>1, TimerPollTInv, LoopTInv, SkipLockedTInv, CallbackTInv, TimerHandledTInv
  DEF TimerStep, Timers
<1>2. CASE TimerCalls
  BY <1>2, InitTimerTInv, SwitchTInv, LoopCallTInv, LoopTInv DEF TimerCalls, Timers
<1>3. CASE \E t \in Timers : Start(t) \/ CleanupAtRest(t) \/ Expire(t)
  BY <1>3, SwitchTInv, CleanupTInv, ExpireTInv DEF Timers
<1>4. CASE UNCHANGED timerVars
  <2>1. UNCHANGED <<reg, live, doomed, taskQueue, keepRunning, poolUp, phase, active, calls,
                    revents, locked, cap, timerFd, armed, expired, calling, fired, due>>
    BY <1>4 DEF timerVars, vars, loopVars, timerOnly
  <2>2. TimerTypeOK' /\ PhaseInv'
    BY <2>1 DEF TInv, TimerTypeOK, TypeOK, PhaseInv
  <2> QED BY <2>1, <2>2, QuietTInv
<1> QED BY <1>1, <1>2, <1>3, <1>4 DEF TimerNext

LEMMA SpecTInv == TimerSpec => []TInv
BY InitTInv, NextTInv, PTL DEF TimerSpec

-----------------------------------------------------------------------------
(* The theorems.                                                           *)

\* A timer that is on is registered for reading with its own descriptor, for
\* any number of timers taking descriptors from one another, and every
\* variable keeps its type.
THEOREM TimersSoundAlways == TimerSpec => []TimersSound
<1>1. TInv => TimersSound
  <2> SUFFICES ASSUME TInv PROVE TimersSound
    OBVIOUS
  <2>1. OnRegistered
    BY DEF TInv, Matches, OnRegistered, On, Inited, Timers
  <2> QED BY <2>1 DEF TInv, TimersSound
<1> QED BY <1>1, SpecTInv, PTL
-----------------------------------------------------------------------------
(* A one-shot timer calls back once: what handles it locks its event after *)
(* its callbacks, and no event is unlocked.                                *)

OnceInv ==
  /\ phase = "incallback" => ~locked[Head(active)]
  /\ calling # NoEvent => phase = "incallback" /\ calls # <<>>
  /\ \A t \in OneShot \cap fired :
       \/ locked[t]
       \/ phase = "incallback" /\ Head(active) = t /\ (calling = t \/ calls = <<>>)

OnceStep == \A t \in OneShot \cap fired : calling' = t => calling = t

\* What the application calls, and the kernel, leave it alone.
LEMMA QuietOnce ==
  ASSUME OnceInv, UNCHANGED <<phase, active, locked, calls, calling, fired>>
  PROVE  OnceInv'
BY DEF OnceInv

\* Nor does a step of the loop that is neither in a callback nor starts one.
LEMMA LoopOnce ==
  ASSUME OnceInv, phase # "incallback", phase' # "incallback",
         UNCHANGED <<locked, calls, calling, fired>>
  PROVE  OnceInv'
BY DEF OnceInv

LEMMA CallOnce ==
  ASSUME OnceInv,
         \/ TimerCalls
         \/ \E t \in Timers : Start(t) \/ CleanupAtRest(t) \/ Expire(t)
  PROVE  OnceInv' /\ UNCHANGED calling
<1> USE DEF vars, loopVars, timerOnly
<1>1. CASE UNCHANGED timerOnly /\ RunLoop
  <2>1. /\ phase = "idle" /\ phase' \in {"aborted", "poll"}
        /\ UNCHANGED <<locked, calls, calling, fired>>
    BY <1>1 DEF RunLoop
  <2> QED BY <2>1, LoopOnce
<1>2. CASE LoopCall \/ \E t \in Timers : InitTimer(t) \/ Stop(t)
  <2>1. UNCHANGED <<phase, active, locked, calls, calling, fired>>
    BY <1>2 DEF LoopCall, PostTask, ExitLoop, InitTimer, Stop
  <2> QED BY <2>1, QuietOnce
<1>3. CASE \E t \in Timers : Start(t) \/ CleanupAtRest(t) \/ Expire(t)
  <2>1. UNCHANGED <<phase, active, locked, calls, calling, fired>>
    BY <1>3 DEF Start, CleanupAtRest, Cleanup, Expire
  <2> QED BY <2>1, QuietOnce
<1> QED BY <1>1, <1>2, <1>3 DEF TimerCalls

\* The event being handled: the callback of a one-shot timer is made when its
\* event has not been locked, and its event is locked next.
LEMMA StepOnce ==
  ASSUME TInv, OnceInv, TimerStep
  PROVE  OnceInv' /\ OnceStep
<1> USE DEF loopVars, timerOnly
<1>1. /\ locked \in [Events -> BOOLEAN] /\ NoEvent \notin Events
      /\ OneShot \subseteq Events /\ fired \subseteq Events
  BY NoEventAssumption, ConstantsAssumption DEF TInv, TimerTypeOK, TypeOK, Timers
<1>2. CASE \/ TimerPoll
           \/ UNCHANGED timerOnly /\ (NoTask \/ StartTask \/ TaskReturns)
           \/ UNCHANGED timerOnly /\ (SkipLocked \/ EndIteration)
  <2>1. /\ phase # "incallback" /\ phase' # "incallback"
        /\ UNCHANGED <<locked, calls, calling, fired>>
    BY <1>2 DEF TimerPoll, Report, NoTask, StartTask, TaskReturns, SkipLocked, EndIteration
  <2> QED BY <2>1, LoopOnce DEF OnceStep
<1>3. CASE UNCHANGED timerOnly /\ HandleEvent
  <2>1. /\ phase = "handle" /\ phase' = "incallback" /\ ~locked[Head(active)]
        /\ UNCHANGED <<active, locked, calling, fired>>
    BY <1>3 DEF HandleEvent
  <2> QED BY <2>1 DEF OnceInv, OnceStep
<1>4. ASSUME NEW t \in Timers, Fire(t) PROVE OnceInv' /\ OnceStep
  <2>1. /\ phase = "incallback" /\ calling = NoEvent /\ calls # <<>> /\ Head(active) = t
        /\ calling' = t /\ fired' = fired \cup {t}
        /\ UNCHANGED <<phase, calls, active, locked>>
    BY <1>4 DEF Fire, OnTimer, vars
  <2>2. t \in Events /\ t # NoEvent /\ ~locked[t]
    BY <1>1, <2>1 DEF OnceInv, Timers
  <2>3. t \notin OneShot \cap fired
    BY <2>1, <2>2 DEF OnceInv
  <2>4. OnceInv'
    BY <2>1, <2>2 DEF OnceInv
  <2>5. OnceStep
    BY <2>1, <2>3 DEF OnceStep
  <2> QED BY <2>4, <2>5
<1>5. CASE CallbackReturns \/ \E t \in Timers : NotExpired(t)
  <2>1. /\ calls' = <<>> /\ calling' = NoEvent
        /\ UNCHANGED <<phase, active, locked, fired>>
    BY <1>5 DEF CallbackReturns, NotExpired, OnTimer, BodyDone
  <2> QED BY <1>1, <2>1 DEF OnceInv, OnceStep
<1>6. CASE TimerHandled
  <2> DEFINE e == Head(active)
  <2>1. /\ calls = <<>> /\ phase = "incallback" /\ phase' = "handle"
        /\ locked' = IF e \in OneShot THEN [locked EXCEPT ![e] = TRUE] ELSE locked
        /\ UNCHANGED <<calling, fired>>
    BY <1>6 DEF TimerHandled, EventHandled
  <2>2. \A t \in OneShot \cap fired : locked[t] \/ t = e
    BY <2>1 DEF OnceInv
  <2> HIDE DEF e
  <2>3. \A t \in OneShot \cap fired : locked'[t]
    BY <1>1, <2>1, <2>2
  <2>4. calling = NoEvent
    BY <2>1 DEF OnceInv
  <2> QED BY <2>1, <2>3, <2>4 DEF OnceInv, OnceStep
<1> HIDE DEF loopVars, timerOnly
<1> QED BY <1>2, <1>3, <1>4, <1>5, <1>6 DEF TimerStep

\* A one-shot timer calls back at most once in the life of its event, however
\* often it is stopped, cleaned up, initialised and started again.
THEOREM OneShotOnceAlways == TimerSpec => OneShotOnce
<1>1. TimersInit => OnceInv
  BY DEF TimersInit, OnceInv
<1>2. TInv /\ OnceInv /\ [TimerNext]_timerVars => OnceInv' /\ [OnceStep]_timerVars
  <2> SUFFICES ASSUME TInv, OnceInv, [TimerNext]_timerVars
               PROVE  OnceInv' /\ [OnceStep]_timerVars
    OBVIOUS
  <2>1. CASE TimerStep
    BY <2>1, StepOnce
  <2>2. CASE \/ TimerCalls
             \/ \E t \in Timers : Start(t) \/ CleanupAtRest(t) \/ Expire(t)
    <3>1. OnceInv' /\ calling' = calling
      BY <2>2, CallOnce
    <3> QED BY <3>1 DEF OnceStep
  <2>3. CASE UNCHANGED timerVars
    BY <2>3, QuietOnce DEF timerVars, vars, loopVars, timerOnly
  <2> QED BY <2>1, <2>2, <2>3 DEF TimerNext
<1> QED BY <1>1, <1>2, SpecTInv, PTL DEF TimerSpec, OneShotOnce, OnceStep
=============================================================================
