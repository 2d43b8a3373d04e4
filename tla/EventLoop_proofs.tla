-------------------------- MODULE EventLoop_proofs --------------------------
(***************************************************************************)
(* Proofs about EventLoop: type correctness and its safety invariants for  *)
(* any number of events, descriptors, queued tasks and epoll entries.      *)
(***************************************************************************)
EXTENDS EventLoop, FiniteSetTheorems, TLAPS

-----------------------------------------------------------------------------
(* The Poller's operations, and what they keep true of a registry.         *)

\* What the Poller's operations preserve among the fields of a registry.
Linked(r) ==
  /\ \A f \in Fds : r.kptr[f] # NoEvent =>
       /\ r.map[f] = r.kptr[f]
       /\ r.index[r.kptr[f]] = "kAdded"
       /\ r.kmask[f] = r.events[r.kptr[f]]
  /\ \A f \in Fds : r.map[f] # NoEvent =>
       /\ r.fd[r.map[f]] = f
       /\ r.index[r.map[f]] # "kNew"
  /\ \A e \in Events :
       /\ r.index[e] # "kNew" => r.map[r.fd[e]] = e
       /\ r.index[e] = "kAdded" => r.kptr[r.fd[e]] = e
       /\ r.index[e] # "kAdded" => r.events[e] = {}

RegInv(r) == Linked(r) /\ r.asserts

-----------------------------------------------------------------------------
(* The calls keep a registry well typed and consistent, provided that a    *)
(* new event is only registered on a descriptor nothing else uses and only *)
(* a disabled event is removed.                                            *)

LEMMA EmptyRegistryInv ==
  ASSUME NEW fd \in [Events -> Fds]
  PROVE  EmptyRegistry(fd) \in Registry /\ RegInv(EmptyRegistry(fd))
BY NoEventAssumption, SMT DEF EmptyRegistry, Registry, RegInv, Linked, Indexes, Masks

\* A registry is known by its seven fields.
LEMMA RegistryFields ==
  ASSUME NEW r \in Registry
  PROVE  /\ r = [ index |-> r.index, events |-> r.events, fd |-> r.fd, map |-> r.map,
                  kptr |-> r.kptr, kmask |-> r.kmask, asserts |-> r.asserts ]
         /\ r.index \in [Events -> Indexes]
         /\ r.events \in [Events -> Masks]
         /\ r.fd \in [Events -> Fds]
         /\ r.map \in [Fds -> Events \cup {NoEvent}]
         /\ r.kptr \in [Fds -> Events \cup {NoEvent}]
         /\ r.kmask \in [Fds -> Masks]
         /\ r.asserts \in BOOLEAN
BY DEF Registry

LEMMA ConstructLinked ==
  ASSUME NEW r \in Registry, Linked(r),
         NEW e \in Events, NEW f \in Fds,
         r.index[e] = "kNew"
  PROVE  /\ Construct(r, e, f) \in Registry
         /\ Linked(Construct(r, e, f))
         /\ Construct(r, e, f).index = r.index
         /\ Construct(r, e, f).events = r.events
         /\ Construct(r, e, f).fd = [r.fd EXCEPT ![e] = f]
         /\ Construct(r, e, f).map = r.map
         /\ Construct(r, e, f).asserts = r.asserts
<1> DEFINE s == Construct(r, e, f)
<1>1. /\ s.index = [r.index EXCEPT ![e] = "kNew"]
      /\ s.events = [r.events EXCEPT ![e] = {}]
      /\ s.fd = [r.fd EXCEPT ![e] = f]
      /\ s.map = r.map
      /\ s.kptr = r.kptr
      /\ s.kmask = r.kmask
      /\ s.asserts = r.asserts
  BY RegistryFields DEF Construct
<1>2. s.index = r.index /\ s.events = r.events
  <2>1. r.events[e] = {}
    BY DEF Linked
  <2>2. /\ [r.index EXCEPT ![e] = "kNew"] = r.index
        /\ [r.events EXCEPT ![e] = {}] = r.events
    BY <2>1, RegistryFields
  <2> QED BY <1>1, <2>2
<1>3. s \in Registry
  BY RegistryFields DEF Construct, Registry, Indexes, Masks
<1> HIDE DEF s
<1>4. Linked(s)
  BY <1>1, <1>2, RegistryFields, NoEventAssumption DEF Linked
<1> QED BY <1>1, <1>2, <1>3, <1>4 DEF s

LEMMA ConstructInv ==
  ASSUME NEW r \in Registry, RegInv(r),
         NEW e \in Events, NEW f \in Fds,
         r.index[e] = "kNew"
  PROVE  /\ Construct(r, e, f) \in Registry
         /\ RegInv(Construct(r, e, f))
         /\ Construct(r, e, f).index = r.index
         /\ Construct(r, e, f).events = r.events
         /\ Construct(r, e, f).fd = [r.fd EXCEPT ![e] = f]
         /\ Construct(r, e, f).map = r.map
BY ConstructLinked DEF RegInv

LEMMA ClaimTrue ==
  ASSUME NEW r \in Registry, NEW claim, claim
  PROVE  Claim(r, claim) = r
<1>1. r.asserts \in BOOLEAN
  BY RegistryFields
<1>2. (r.asserts /\ claim) = r.asserts
  BY <1>1
<1>3. Claim(r, claim) = [r EXCEPT !.asserts = r.asserts]
  BY <1>2 DEF Claim
<1> QED BY <1>3, RegistryFields

\* Enabling and disabling: every member of EpollFdEvent that calls update().
Arms(r, e, mask, s) ==
  /\ s \in Registry /\ Linked(s)
  /\ s.asserts = r.asserts
  /\ \A x \in Events \ {e} : s.index[x] = r.index[x]
  /\ s.index[e] # "kNew"
  /\ mask # {} => s.index[e] = "kAdded"
  /\ mask = {} /\ r.index[e] = "kAdded" => s.index[e] = "kDeleted"
  /\ s.events = [r.events EXCEPT ![e] = mask]
  /\ s.fd = r.fd

LEMMA SetEventsLinked ==
  ASSUME NEW r \in Registry, Linked(r),
         NEW e \in Events, NEW mask \in Masks,
         r.index[e] = "kNew" => r.map[r.fd[e]] = NoEvent
  PROVE  Arms(r, e, mask, SetEvents(r, e, mask))
<1> DEFINE q == [r EXCEPT !.events[e] = mask]
           f == r.fd[e]
           s == SetEvents(r, e, mask)
<1>0. /\ q \in Registry
      /\ q.index = r.index
      /\ q.events = [r.events EXCEPT ![e] = mask]
      /\ q.fd = r.fd
      /\ q.map = r.map
      /\ q.kptr = r.kptr
      /\ q.kmask = r.kmask
      /\ q.asserts = r.asserts
      /\ q.fd[e] = f /\ q.events[e] = mask /\ f \in Fds
  <2>1. q \in Registry
    BY RegistryFields DEF Registry
  <2>2. /\ q.index = r.index /\ q.fd = r.fd /\ q.map = r.map /\ q.kptr = r.kptr
        /\ q.kmask = r.kmask /\ q.asserts = r.asserts
        /\ q.events = [r.events EXCEPT ![e] = mask]
    BY RegistryFields
  <2>3. f \in Fds /\ [r.events EXCEPT ![e] = mask][e] = mask
    BY RegistryFields
  <2> QED BY <2>1, <2>2, <2>3
<1>1. s = UpdateEvent(q, e)
  BY DEF SetEvents
<1> SUFFICES Arms(r, e, mask, s)
  OBVIOUS
<1> HIDE DEF q, s
<1>2. CASE r.index[e] \in {"kNew", "kDeleted"}
  <2>1. r.kptr[f] = NoEvent
    BY <1>2, RegistryFields, NoEventAssumption DEF Linked
  <2>2. s = IF r.index[e] = "kNew" THEN AddNew(q, e) ELSE AddAgain(q, e)
    BY <1>0, <1>1, <1>2 DEF UpdateEvent
  <2>3. /\ s.index = [r.index EXCEPT ![e] = "kAdded"]
        /\ s.events = [r.events EXCEPT ![e] = mask]
        /\ s.fd = r.fd
        /\ s.map = [r.map EXCEPT ![f] = e]
        /\ s.kptr = [r.kptr EXCEPT ![f] = e]
        /\ s.kmask = [r.kmask EXCEPT ![f] = mask]
        /\ s.asserts = r.asserts
        /\ s \in Registry
    <3>1. CASE r.index[e] = "kNew"
      <4>1. s = [q EXCEPT !.map[f] = e, !.index[e] = "kAdded",
                          !.kptr[f] = e, !.kmask[f] = mask]
        <5> DEFINE p == [q EXCEPT !.map[f] = e, !.index[e] = "kAdded"]
        <5>1. q.map[f] = NoEvent
          BY <3>1, <1>0
        <5>2. s = EpollAdd(p, e)
          BY <3>1, <1>0, <2>2, <5>1, ClaimTrue DEF AddNew
        <5>3. p.fd = q.fd /\ p.kptr = q.kptr /\ p.events = q.events
          BY <1>0 DEF Registry
        <5> HIDE DEF p
        <5>4. s = Entry(p, f, e, mask)
          BY <1>0, <2>1, <5>2, <5>3 DEF EpollAdd
        <5> QED BY <5>4 DEF Entry, p
      <4> QED
        BY <1>0, <4>1, RegistryFields DEF Registry, Indexes
    <3>2. CASE r.index[e] = "kDeleted"
      <4>1. r.map[f] = e
        BY <3>2 DEF Linked
      <4>2. r.map = [r.map EXCEPT ![f] = e]
        BY <4>1, RegistryFields
      <4>3. s = [q EXCEPT !.index[e] = "kAdded",
                          !.kptr[f] = e, !.kmask[f] = mask]
        <5> DEFINE p == [q EXCEPT !.index[e] = "kAdded"]
        <5>2. s = EpollAdd(p, e)
          BY <3>2, <1>0, <2>2, <4>1, ClaimTrue DEF AddAgain
        <5>3. p.fd = q.fd /\ p.kptr = q.kptr /\ p.events = q.events
          BY <1>0 DEF Registry
        <5> HIDE DEF p
        <5>4. s = Entry(p, f, e, mask)
          BY <1>0, <2>1, <5>2, <5>3 DEF EpollAdd
        <5> QED BY <5>4 DEF Entry, p
      <4> QED
        BY <1>0, <4>2, <4>3, RegistryFields DEF Registry, Indexes
    <3> QED BY <3>1, <3>2, <1>2
  <2>4. Linked(s)
    BY <1>2, <2>3, RegistryFields, NoEventAssumption DEF Linked
  <2>5. /\ \A x \in Events \ {e} : s.index[x] = r.index[x]
        /\ s.index[e] = "kAdded"
    BY <2>3, RegistryFields
  <2>6. s.index[e] # "kNew" /\ r.index[e] # "kAdded"
    BY <1>2, <2>5
  <2> QED BY <2>3, <2>4, <2>5, <2>6 DEF Arms
<1>3. CASE r.index[e] = "kAdded"
  <2>1. r.map[f] = e /\ r.kptr[f] = e
    BY <1>3 DEF Linked
  <2>2. s = Change(q, e)
    BY <1>0, <1>1, <1>3 DEF UpdateEvent
  <2>3. CASE mask = {}
    <3>1. /\ s.index = [r.index EXCEPT ![e] = "kDeleted"]
          /\ s.events = [r.events EXCEPT ![e] = {}]
          /\ s.fd = r.fd
          /\ s.map = r.map
          /\ s.kptr = [r.kptr EXCEPT ![f] = NoEvent]
          /\ s.kmask = [r.kmask EXCEPT ![f] = {}]
          /\ s.asserts = r.asserts
          /\ s \in Registry
      <4>1. s = [q EXCEPT !.index[e] = "kDeleted",
                          !.kptr[f] = NoEvent, !.kmask[f] = {}]
        <5>1. s = [EpollDel(q, e) EXCEPT !.index[e] = "kDeleted"]
          BY <1>0, <2>1, <2>2, <2>3, ClaimTrue DEF Change
        <5>2. s = [Entry(q, f, NoEvent, {}) EXCEPT !.index[e] = "kDeleted"]
          BY <1>0, <5>1 DEF EpollDel
        <5> QED BY <1>0, <5>2 DEF Entry, Registry
      <4> QED
        BY <1>0, <2>3, <4>1, RegistryFields DEF Registry, Indexes, Masks
    <3>2. Linked(s)
      BY <1>3, <2>1, <3>1, RegistryFields, NoEventAssumption DEF Linked
    <3>3. /\ \A x \in Events \ {e} : s.index[x] = r.index[x]
          /\ s.index[e] = "kDeleted"
      BY <3>1, RegistryFields
    <3>4. s.index[e] # "kNew"
      BY <3>3
    <3>5. s.events = [r.events EXCEPT ![e] = mask]
      BY <2>3, <3>1
    <3> QED BY <2>3, <3>1, <3>2, <3>3, <3>4, <3>5 DEF Arms
  <2>4. CASE mask # {}
    <3>1. /\ s.index = r.index
          /\ s.events = [r.events EXCEPT ![e] = mask]
          /\ s.fd = r.fd
          /\ s.map = r.map
          /\ s.kptr = [r.kptr EXCEPT ![f] = e]
          /\ s.kmask = [r.kmask EXCEPT ![f] = mask]
          /\ s.asserts = r.asserts
          /\ s \in Registry
      <4>1. s = [q EXCEPT !.kptr[f] = e, !.kmask[f] = mask]
        <5>1. s = EpollMod(q, e)
          BY <1>0, <2>1, <2>2, <2>4, ClaimTrue DEF Change
        <5>2. q.kptr[f] # NoEvent
          BY <1>0, <2>1, NoEventAssumption
        <5>3. s = Entry(q, f, e, mask)
          BY <1>0, <5>1, <5>2 DEF EpollMod
        <5> QED BY <1>0, <5>3 DEF Entry, Registry
      <4> QED
        BY <1>0, <4>1, RegistryFields DEF Registry
    <3>2. Linked(s)
      BY <1>3, <2>1, <3>1, RegistryFields, NoEventAssumption DEF Linked
    <3>3. s.index[e] = "kAdded" /\ s.index[e] # "kNew"
      BY <1>3, <3>1
    <3> QED BY <2>4, <3>1, <3>2, <3>3 DEF Arms
  <2> QED BY <2>3, <2>4
<1>4. r.index[e] \in Indexes
  BY RegistryFields
<1> QED BY <1>2, <1>3, <1>4 DEF Indexes

Sets(r, e, mask, s) == Arms(r, e, mask, s) /\ RegInv(s)

LEMMA SetEventsResult ==
  ASSUME NEW r \in Registry, RegInv(r),
         NEW e \in Events, NEW mask \in Masks,
         r.index[e] = "kNew" => r.map[r.fd[e]] = NoEvent
  PROVE  Sets(r, e, mask, SetEvents(r, e, mask))
<1>1. Arms(r, e, mask, SetEvents(r, e, mask))
  BY SetEventsLinked DEF RegInv
<1> QED BY <1>1, Zenon DEF Sets, Arms, RegInv

LEMMA SetEventsInv ==
  ASSUME NEW r \in Registry, RegInv(r),
         NEW e \in Events, NEW mask \in Masks,
         r.index[e] = "kNew" => r.map[r.fd[e]] = NoEvent
  PROVE  /\ SetEvents(r, e, mask) \in Registry
         /\ RegInv(SetEvents(r, e, mask))
         /\ \A x \in Events \ {e} : SetEvents(r, e, mask).index[x] = r.index[x]
         /\ SetEvents(r, e, mask).index[e] # "kNew"
<1> DEFINE s == SetEvents(r, e, mask)
<1>1. Sets(r, e, mask, s)
  BY SetEventsResult
<1> HIDE DEF s
<1>2. /\ s \in Registry /\ RegInv(s)
      /\ \A x \in Events \ {e} : s.index[x] = r.index[x]
      /\ s.index[e] # "kNew"
  BY <1>1, Zenon DEF Sets, Arms
<1> QED BY <1>2 DEF s

LEMMA RemoveEventLinked ==
  ASSUME NEW r \in Registry, Linked(r),
         NEW e \in Events,
         r.index[e] # "kNew", r.events[e] = {}
  PROVE  /\ RemoveEvent(r, e) \in Registry
         /\ Linked(RemoveEvent(r, e))
         /\ RemoveEvent(r, e).index = [r.index EXCEPT ![e] = "kNew"]
         /\ RemoveEvent(r, e).events = r.events
         /\ RemoveEvent(r, e).fd = r.fd
         /\ RemoveEvent(r, e).asserts = r.asserts
<1> DEFINE s == RemoveEvent(r, e)
           f == r.fd[e]
<1>1. /\ s.index = [r.index EXCEPT ![e] = "kNew"]
      /\ s.events = r.events
      /\ s.fd = r.fd
      /\ s.map = [r.map EXCEPT ![f] = NoEvent]
      /\ s.asserts = r.asserts
  BY RegistryFields DEF RemoveEvent, EpollDel, Entry, Claim, Linked, Indexes
<1>2. CASE r.index[e] = "kAdded"
  <2>1. /\ s.kptr = [r.kptr EXCEPT ![f] = NoEvent]
        /\ s.kmask = [r.kmask EXCEPT ![f] = {}]
    BY <1>2, RegistryFields DEF RemoveEvent, EpollDel, Entry, Claim
  <2>2. s \in Registry
    BY <1>2, RegistryFields DEF RemoveEvent, EpollDel, Entry, Claim, Registry, Indexes, Masks
  <2> HIDE DEF s
  <2>3. Linked(s)
    BY <1>1, <2>1, RegistryFields, NoEventAssumption DEF Linked
  <2> QED BY <1>1, <2>2, <2>3 DEF s
<1>3. CASE r.index[e] # "kAdded"
  <2>1. s.kptr = r.kptr /\ s.kmask = r.kmask
    BY <1>3, RegistryFields DEF RemoveEvent, EpollDel, Entry, Claim
  <2>2. s \in Registry
    BY <1>3, RegistryFields DEF RemoveEvent, EpollDel, Entry, Claim, Registry, Indexes, Masks
  <2> HIDE DEF s
  <2>3. Linked(s)
    BY <1>1, <2>1, <1>3, RegistryFields, NoEventAssumption DEF Linked
  <2> QED BY <1>1, <2>2, <2>3 DEF s
<1> QED BY <1>2, <1>3

LEMMA RemoveEventResult ==
  ASSUME NEW r \in Registry, RegInv(r),
         NEW e \in Events,
         r.index[e] # "kNew", r.events[e] = {}
  PROVE  /\ RemoveEvent(r, e) \in Registry
         /\ RegInv(RemoveEvent(r, e))
         /\ RemoveEvent(r, e).index = [r.index EXCEPT ![e] = "kNew"]
         /\ RemoveEvent(r, e).events = r.events
         /\ RemoveEvent(r, e).fd = r.fd
BY RemoveEventLinked DEF RegInv

LEMMA RemoveEventInv ==
  ASSUME NEW r \in Registry, RegInv(r),
         NEW e \in Events,
         r.index[e] # "kNew", r.events[e] = {}
  PROVE  /\ RemoveEvent(r, e) \in Registry
         /\ RegInv(RemoveEvent(r, e))
         /\ RemoveEvent(r, e).index = [r.index EXCEPT ![e] = "kNew"]
BY RemoveEventResult

-----------------------------------------------------------------------------
(* Sequences.                                                              *)

LEMMA InSeqAppend ==
  ASSUME NEW S, NEW s \in Seq(S), NEW y \in S, NEW x
  PROVE  InSeq(x, Append(s, y)) <=> InSeq(x, s) \/ x = y
BY DEF InSeq

LEMMA TailElements ==
  ASSUME NEW S, NEW s \in Seq(S), s # <<>>
  PROVE  /\ Tail(s) \in Seq(S) /\ Head(s) \in S /\ Head(s) = s[1] /\ 1 \in 1..Len(s)
         /\ \A i \in 1..Len(Tail(s)) : i + 1 \in 1..Len(s) /\ Tail(s)[i] = s[i + 1]
         /\ \A i \in 1..Len(s) : i # 1 => i - 1 \in 1..Len(Tail(s)) /\ Tail(s)[i - 1] = s[i]
<1> DEFINE t == Tail(s)
<1>1. Len(s) \in Nat \ {0} /\ 1 \in 1..Len(s)
  OBVIOUS
<1>2. t \in Seq(S) /\ Head(s) \in S /\ Head(s) = s[1]
  OBVIOUS
<1>3. Len(t) = Len(s) - 1
  OBVIOUS
<1>4. \A i \in 1..Len(t) : t[i] = s[i + 1]
  OBVIOUS
<1> HIDE DEF t
<1>5. \A i \in 1..Len(t) : i + 1 \in 1..Len(s)
  BY <1>1, <1>3
<1>6. \A i \in 1..Len(s) : i # 1 => i - 1 \in 1..Len(t)
  BY <1>1, <1>3
<1>7. \A i \in 1..Len(s) : i # 1 => t[i - 1] = s[i]
  <2> SUFFICES ASSUME NEW i \in 1..Len(s), i # 1 PROVE t[i - 1] = s[i]
    OBVIOUS
  <2>1. i - 1 \in 1..Len(t) /\ (i - 1) + 1 = i
    BY <1>1, <1>6
  <2> QED BY <1>4, <2>1
<1> QED BY <1>1, <1>2, <1>4, <1>5, <1>6, <1>7 DEF t

LEMMA InSeqTail ==
  ASSUME NEW S, NEW s \in Seq(S), s # <<>>, NEW x
  PROVE  /\ InSeq(x, Tail(s)) => InSeq(x, s)
         /\ InSeq(x, s) => x = Head(s) \/ InSeq(x, Tail(s))
<1> DEFINE t == Tail(s)
<1>1. /\ Head(s) = s[1]
      /\ \A i \in 1..Len(t) : i + 1 \in 1..Len(s) /\ t[i] = s[i + 1]
      /\ \A i \in 1..Len(s) : i # 1 => i - 1 \in 1..Len(t) /\ t[i - 1] = s[i]
  BY TailElements
<1> HIDE DEF t
<1>2. ASSUME InSeq(x, t) PROVE InSeq(x, s)
  <2>1. PICK i \in 1..Len(t) : t[i] = x
    BY <1>2 DEF InSeq
  <2> QED BY <1>1, <2>1 DEF InSeq
<1>3. ASSUME InSeq(x, s), x # Head(s) PROVE InSeq(x, t)
  <2>1. PICK i \in 1..Len(s) : s[i] = x
    BY <1>3 DEF InSeq
  <2> QED BY <1>1, <1>3, <2>1 DEF InSeq
<1> QED BY <1>2, <1>3 DEF t

-----------------------------------------------------------------------------
(* The inductive invariant.                                                *)

\* Only live events are registered.
RegisteredLive == \A e \in Events : reg.index[e] # "kNew" => e \in live

\* A posted deletion is one queued task, of a live and disabled event.
DoomedInv ==
  /\ doomed \subseteq live
  /\ \A e \in doomed : reg.index[e] # "kAdded"
  /\ \A i \in 1..Len(taskQueue) : taskQueue[i] \in Events => taskQueue[i] \in doomed
  /\ \A i, j \in 1..Len(taskQueue) :
       i # j /\ taskQueue[i] = taskQueue[j] => taskQueue[i] \notin Events

\* The reported events: all registered when the tasks start, and a one-shot
\* event not locked yet stays registered until the loop has handled it.
ActiveInv ==
  \A i \in 1..Len(active) :
    /\ active[i] \in live
    /\ phase = "task" => reg.index[active[i]] = "kAdded"
    /\ active[i] \in OneShot /\ ~locked[active[i]] =>
         reg.index[active[i]] # "kNew" /\ active[i] \notin doomed

\* The running task is in the queue, the event in its callbacks is unlocked.
PhaseInv ==
  /\ phase = "intask" => taskQueue # <<>>
  /\ phase = "incallback" => active # <<>> /\ ~locked[Head(active)]

IInv ==
  /\ TypeOK
  /\ RegInv(reg)
  /\ RegisteredLive
  /\ DoomedInv
  /\ ActiveInv
  /\ PhaseInv

-----------------------------------------------------------------------------
(* The initial states, and the application's calls.                        *)

LEMMA InitIInv == Init => IInv
<1> SUFFICES ASSUME Init PROVE IInv
  OBVIOUS
<1>1. PICK fd \in [Events -> Fds] : reg = EmptyRegistry(fd)
  BY DEF Init
<1>2. reg \in Registry /\ RegInv(reg)
  BY <1>1, EmptyRegistryInv
<1>3. \A e \in Events : reg.index[e] = "kNew"
  BY <1>1 DEF EmptyRegistry
<1>4. TypeOK
  <2>1. /\ active \in Seq(Events)
        /\ calls \in Seq(Callbacks)
        /\ taskQueue \in Seq(Events \cup {AppTask})
    BY DEF Init
  <2> QED BY <1>2, <2>1, ConstantsAssumption DEF Init, TypeOK, Phases
<1> QED
  BY <1>2, <1>3, <1>4 DEF Init, IInv, RegisteredLive, DoomedInv, ActiveInv, PhaseInv

LEMMA CreateIInv ==
  ASSUME IInv, NEW e \in Events, NEW f \in Fds, Create(e, f)
  PROVE  IInv'
<1>1. reg.index[e] = "kNew" /\ e \notin live
  BY DEF IInv, RegisteredLive, Create
<1>2. reg' \in Registry /\ RegInv(reg') /\ reg'.index = reg.index
  BY <1>1, ConstructInv DEF IInv, TypeOK, Create
<1>3. TypeOK'
  BY <1>2 DEF IInv, TypeOK, Create
<1>4. RegInv(reg)'
  BY <1>2
<1>5. RegisteredLive'
  BY <1>2 DEF IInv, RegisteredLive, Create
<1>6. DoomedInv'
  BY <1>2 DEF IInv, DoomedInv, Create
<1>7. ActiveInv'
  BY <1>1, <1>2 DEF IInv, TypeOK, ActiveInv, Create
<1>8. PhaseInv'
  BY <1>1 DEF IInv, TypeOK, ActiveInv, PhaseInv, Create
<1> QED BY <1>3, <1>4, <1>5, <1>6, <1>7, <1>8 DEF IInv

\* A call that changes the registration of one usable event, not to kNew if
\* the loop may still disable the event itself.
LEMMA RegistrationIInv ==
  ASSUME IInv, NEW e \in Events, Usable(e), AppTurn,
         UNCHANGED <<live, doomed, taskQueue, keepRunning, poolUp, phase, loopVars>>,
         reg' \in Registry, RegInv(reg'),
         \A x \in Events \ {e} : reg'.index[x] = reg.index[x],
         reg'.index[e] # "kNew" \/ ~DisablePending(e)
  PROVE  IInv'
<1>1. TypeOK'
  BY DEF IInv, TypeOK, loopVars
<1>2. RegInv(reg)'
  OBVIOUS
<1>3. RegisteredLive'
  BY DEF IInv, RegisteredLive, Usable
<1>4. DoomedInv'
  BY DEF IInv, TypeOK, DoomedInv, Usable
<1>5. ActiveInv'
  BY DEF IInv, TypeOK, ActiveInv, Usable, AppTurn, DisablePending, InSeq, loopVars
<1>6. PhaseInv'
  BY DEF IInv, PhaseInv, loopVars
<1> QED BY <1>1, <1>2, <1>3, <1>4, <1>5, <1>6 DEF IInv

LEMMA UpdateIInv ==
  ASSUME IInv, NEW e \in Events, Update(e)
  PROVE  IInv'
<1>1. PICK mask \in Masks : reg' = SetEvents(reg, e, mask)
  <2>1. reg.events[e] \in Masks
    BY RegistryFields DEF IInv, TypeOK
  <2> QED
    BY <2>1 DEF Update, Masks, EnableReading, EnableWriting, DisableReading,
                DisableWriting, DisableAll
<1>2. /\ reg' \in Registry
      /\ RegInv(reg')
      /\ \A x \in Events \ {e} : reg'.index[x] = reg.index[x]
      /\ reg'.index[e] # "kNew"
  BY <1>1, SetEventsInv DEF IInv, TypeOK, Update
<1> QED BY <1>2, RegistrationIInv DEF Update

LEMMA RemoveIInv ==
  ASSUME IInv, NEW e \in Events, Remove(e)
  PROVE  IInv'
<1>1. /\ reg' \in Registry
      /\ RegInv(reg')
      /\ reg'.index = [reg.index EXCEPT ![e] = "kNew"]
  BY RemoveEventInv DEF IInv, TypeOK, Remove, RemoveCall
<1>2. \A x \in Events \ {e} : reg'.index[x] = reg.index[x]
  BY <1>1, RegistryFields DEF IInv, TypeOK
<1> QED BY <1>1, <1>2, RegistrationIInv DEF Remove, RemoveCall

LEMMA PostDeleteIInv ==
  ASSUME IInv, NEW e \in Events, PostDelete(e)
  PROVE  IInv'
<1> USE DEF PostDelete, Post
<1>1. TypeOK' /\ taskQueue' # <<>>
  BY DEF IInv, TypeOK, loopVars
<1>2. RegInv(reg)' /\ RegisteredLive' /\ PhaseInv'
  BY <1>1 DEF IInv, RegisteredLive, PhaseInv, loopVars
<1>3. DoomedInv'
  BY DEF IInv, TypeOK, DoomedInv, Usable
<1>4. ActiveInv'
  BY DEF IInv, TypeOK, ActiveInv, DisablePending, InSeq, loopVars
<1> QED BY <1>1, <1>2, <1>3, <1>4 DEF IInv

LEMMA PostTaskIInv ==
  ASSUME IInv, PostTask
  PROVE  IInv'
<1> USE DEF PostTask, Post
<1>1. TypeOK' /\ taskQueue' # <<>>
  <2>1. taskQueue \in Seq(Events \cup {AppTask}) /\ taskQueue' = Append(taskQueue, AppTask)
    BY DEF IInv, TypeOK
  <2>2. taskQueue' \in Seq(Events \cup {AppTask}) /\ taskQueue' # <<>>
    BY <2>1
  <2> HIDE DEF Post
  <2> QED BY <2>2 DEF IInv, TypeOK, loopVars
<1>2. RegInv(reg)' /\ RegisteredLive' /\ PhaseInv'
  BY <1>1 DEF IInv, RegisteredLive, PhaseInv, loopVars
<1>3. DoomedInv'
  <2>1. taskQueue \in Seq(Events \cup {AppTask}) /\ taskQueue' = Append(taskQueue, AppTask)
    BY DEF IInv, TypeOK
  <2>2. /\ Len(taskQueue) \in Nat /\ Len(taskQueue') = Len(taskQueue) + 1
        /\ taskQueue'[Len(taskQueue) + 1] = AppTask
        /\ \A i \in 1..Len(taskQueue) : taskQueue'[i] = taskQueue[i]
    BY <2>1
  <2>3. \A i \in 1..Len(taskQueue') :
          taskQueue'[i] \in Events => i \in 1..Len(taskQueue) /\ taskQueue'[i] = taskQueue[i]
    BY <2>2, ConstantsAssumption
  <2>4. DoomedInv /\ UNCHANGED <<reg, live, doomed>>
    BY DEF IInv
  <2> HIDE DEF PostTask, Post
  <2> QED BY <2>3, <2>4 DEF DoomedInv
<1>4. ActiveInv'
  BY DEF IInv, ActiveInv, loopVars
<1> QED BY <1>1, <1>2, <1>3, <1>4 DEF IInv

-----------------------------------------------------------------------------
(* The steps of the loop.                                                  *)

\* A step that leaves the events, the queue and the reported events alone.
LEMMA ControlIInv ==
  ASSUME IInv, TypeOK',
         UNCHANGED <<reg, live, doomed, taskQueue, active, locked>>,
         phase' \notin {"task", "intask"} \/ (phase' = "intask" /\ taskQueue # <<>>),
         phase' = "incallback" => active # <<>> /\ ~locked[Head(active)]
  PROVE  IInv'
BY DEF IInv, RegisteredLive, DoomedInv, ActiveInv, PhaseInv

LEMMA PollIInv ==
  ASSUME IInv, Poll
  PROVE  IInv'
<1>0. PICK ready \in SUBSET Registered :
        \E sig \in [ready -> SUBSET Signals] : Report(ready, sig)
  BY DEF Poll
<1>1. PICK sig \in [ready -> SUBSET Signals] : Report(ready, sig)
  BY <1>0
<1>2. PICK order \in Orders(ready) : active' = [i \in DOMAIN order |-> reg.kptr[order[i]]]
  BY <1>1 DEF Report
<1> DEFINE n == Cardinality(ready)
<1>3. n \in Nat
  <2>1. ready \subseteq Fds
    BY <1>1 DEF Registered
  <2>2. IsFiniteSet(ready)
    BY <2>1, ConstantsAssumption, FS_Subset
  <2> QED BY <2>2, FS_CardinalityType
<1>4. \A i \in 1..n : /\ reg.kptr[order[i]] \in Events
                      /\ reg.index[reg.kptr[order[i]]] = "kAdded"
  BY RegistryFields DEF IInv, TypeOK, RegInv, Linked, Orders, Registered
<1>5. active' = [i \in 1..n |-> reg.kptr[order[i]]]
  BY <1>2 DEF Orders
<1> HIDE DEF n
<1>6. active' \in Seq(Events) /\ Len(active') = n
  BY <1>3, <1>4, <1>5
<1>7. revents' \in [Events -> SUBSET Signals]
  <2>1. \A e \in Events : (\E f \in ready : reg.kptr[f] = e) => reg.fd[e] \in ready
    BY RegistryFields DEF IInv, TypeOK, RegInv, Linked, Registered
  <2> QED BY <1>1, <2>1 DEF Report, IInv, TypeOK
<1>8. TypeOK'
  <2>1. cap' \in Nat \ {0}
    BY <1>1, <1>3 DEF Report, Grow, IInv, TypeOK
  <2> QED BY <1>1, <1>6, <1>7, <2>1 DEF Report, IInv, TypeOK, Phases
<1>9. ActiveInv'
  <2>1. \A i \in 1..Len(active') : active'[i] \in Events /\ reg.index[active'[i]] = "kAdded"
    BY <1>4, <1>5, <1>6
  <2> QED
    BY <1>1, <2>1 DEF Report, IInv, ActiveInv, RegisteredLive, DoomedInv
<1>10. RegInv(reg)' /\ RegisteredLive' /\ DoomedInv' /\ PhaseInv'
  BY <1>1 DEF Report, IInv, RegisteredLive, DoomedInv, PhaseInv
<1> QED BY <1>8, <1>9, <1>10 DEF IInv

LEMMA DeleteEventIInv ==
  ASSUME IInv, DeleteEvent
  PROVE  IInv'
<1> DEFINE e == Head(taskQueue)
<1>1. e \in Events /\ taskQueue # <<>> /\ e = taskQueue[1]
  BY DEF DeleteEvent, IInv, TypeOK
<1>2. e \in doomed /\ reg.index[e] # "kAdded" /\ phase = "task"
  BY <1>1 DEF DeleteEvent, IInv, TypeOK, DoomedInv
<1>3. /\ reg' \in Registry
      /\ RegInv(reg')
      /\ reg'.index[e] = "kNew"
      /\ \A x \in Events \ {e} : reg'.index[x] = reg.index[x]
  <2>1. CASE reg.index[e] = "kNew"
    BY <1>1, <2>1 DEF DeleteEvent, IInv, TypeOK
  <2>2. CASE reg.index[e] # "kNew"
    <3>1. reg' = RemoveEvent(reg, e)
      BY <2>2 DEF DeleteEvent
    <3>2. reg.events[e] = {}
      BY <1>1, <1>2 DEF IInv, RegInv, Linked
    <3>3. /\ reg' \in Registry
          /\ RegInv(reg')
          /\ reg'.index = [reg.index EXCEPT ![e] = "kNew"]
      BY <1>1, <2>2, <3>1, <3>2, RemoveEventInv DEF IInv, TypeOK
    <3> QED BY <1>1, <3>3, RegistryFields DEF IInv, TypeOK
  <2> QED BY <2>1, <2>2
<1>4. /\ live' = live \ {e}
      /\ doomed' = doomed \ {e}
      /\ taskQueue' = Tail(taskQueue)
      /\ phase' = "handle"
      /\ UNCHANGED <<keepRunning, poolUp, loopVars>>
  BY DEF DeleteEvent
<1> HIDE DEF e
<1>5. TypeOK'
  BY <1>1, <1>3, <1>4 DEF IInv, TypeOK, loopVars, Phases
<1>6. RegisteredLive'
  BY <1>3, <1>4 DEF IInv, RegisteredLive
<1>7. DoomedInv'
  <2>1. \A i \in 1..Len(taskQueue') : i + 1 \in 1..Len(taskQueue)
                                   /\ taskQueue'[i] = taskQueue[i + 1]
    BY <1>1, <1>4 DEF IInv, TypeOK
  <2>2. \A i \in 1..Len(taskQueue') : taskQueue'[i] \in Events => taskQueue'[i] # e
    BY <1>1, <2>1 DEF IInv, TypeOK, DoomedInv
  <2>3. doomed' \subseteq live' /\ \A x \in doomed' : reg'.index[x] # "kAdded"
    BY <1>3, <1>4 DEF IInv, TypeOK, DoomedInv
  <2>4. \A i \in 1..Len(taskQueue') : taskQueue'[i] \in Events => taskQueue'[i] \in doomed'
    BY <1>4, <2>1, <2>2 DEF IInv, DoomedInv
  <2>5. \A i, j \in 1..Len(taskQueue') :
          i # j /\ taskQueue'[i] = taskQueue'[j] => taskQueue'[i] \notin Events
    BY <2>1 DEF IInv, TypeOK, DoomedInv
  <2> QED BY <2>3, <2>4, <2>5 DEF DoomedInv
<1>8. ActiveInv'
  BY <1>2, <1>3, <1>4 DEF IInv, TypeOK, ActiveInv, loopVars
<1>9. PhaseInv'
  BY <1>4 DEF PhaseInv
<1> QED BY <1>3, <1>5, <1>6, <1>7, <1>8, <1>9 DEF IInv

LEMMA TaskReturnsIInv ==
  ASSUME IInv, TaskReturns
  PROVE  IInv'
<1> USE DEF TaskReturns
<1>1. taskQueue # <<>>
  BY DEF IInv, PhaseInv
<1>2. TypeOK'
  BY <1>1 DEF IInv, TypeOK, Phases, loopVars
<1>3. \A i \in 1..Len(taskQueue') : i + 1 \in 1..Len(taskQueue)
                                 /\ taskQueue'[i] = taskQueue[i + 1]
  BY <1>1 DEF IInv, TypeOK
<1>4. DoomedInv'
  <2>1. \A i, j \in 1..Len(taskQueue') :
          i # j /\ taskQueue'[i] = taskQueue'[j] => taskQueue'[i] \notin Events
    BY <1>3 DEF IInv, TypeOK, DoomedInv
  <2> QED BY <1>3, <2>1 DEF IInv, TypeOK, DoomedInv
<1>5. RegInv(reg)' /\ RegisteredLive' /\ ActiveInv' /\ PhaseInv'
  BY DEF IInv, RegisteredLive, ActiveInv, PhaseInv, loopVars
<1> QED BY <1>2, <1>4, <1>5 DEF IInv

\* The events left once the first one is done with.
LEMMA TailActive ==
  ASSUME TypeOK, active # <<>>
  PROVE  /\ Tail(active) \in Seq(Events)
         /\ \A i \in 1..Len(Tail(active)) :
              i + 1 \in 1..Len(active) /\ Tail(active)[i] = active[i + 1]
BY DEF TypeOK

LEMMA SkipLockedIInv ==
  ASSUME IInv, SkipLocked
  PROVE  IInv'
<1> USE DEF SkipLocked
<1>1. TypeOK'
  BY TailActive DEF IInv, TypeOK
<1>2. ActiveInv'
  BY TailActive DEF IInv, ActiveInv
<1>3. RegInv(reg)' /\ RegisteredLive' /\ DoomedInv' /\ PhaseInv'
  BY DEF IInv, RegisteredLive, DoomedInv, PhaseInv
<1> QED BY <1>1, <1>2, <1>3 DEF IInv

LEMMA EventHandledIInv ==
  ASSUME IInv, EventHandled
  PROVE  IInv'
<1> DEFINE e == Head(active)
<1>1. active # <<>> /\ ~locked[e] /\ e \in Events /\ e = active[1] /\ 1 \in 1..Len(active)
  BY DEF EventHandled, IInv, TypeOK, PhaseInv
<1>2. CASE e \notin OneShot
  <2>1. UNCHANGED <<reg, locked>>
    BY <1>2 DEF EventHandled
  <2>2. TypeOK'
    BY <1>1, <2>1, TailActive DEF EventHandled, IInv, TypeOK, Phases
  <2>3. ActiveInv'
    BY <1>1, <2>1, TailActive DEF EventHandled, IInv, ActiveInv
  <2>4. RegInv(reg)' /\ RegisteredLive' /\ DoomedInv' /\ PhaseInv'
    BY <2>1 DEF EventHandled, IInv, RegisteredLive, DoomedInv, PhaseInv
  <2> QED BY <2>2, <2>3, <2>4 DEF IInv
<1>3. CASE e \in OneShot
  <2>1. reg.index[e] # "kNew" /\ e \notin doomed /\ e \in live
    BY <1>1, <1>3 DEF IInv, ActiveInv
  <2>2. /\ reg' = SetEvents(reg, e, {})
        /\ locked' = [locked EXCEPT ![e] = TRUE]
        /\ active' = Tail(active)
        /\ calls' = <<>>
        /\ phase' = "handle"
        /\ UNCHANGED <<live, doomed, taskQueue, keepRunning, poolUp, revents, cap>>
    BY <1>3 DEF EventHandled, DisableAll
  <2>3. /\ reg' \in Registry
        /\ RegInv(reg')
        /\ \A x \in Events \ {e} : reg'.index[x] = reg.index[x]
        /\ reg'.index[e] # "kNew"
    BY <1>1, <2>1, <2>2, SetEventsInv DEF IInv, TypeOK, Masks
  <2> HIDE DEF e
  <2>4. TypeOK'
    BY <1>1, <2>2, <2>3, TailActive DEF IInv, TypeOK, Phases
  <2>5. ActiveInv'
    <3>1. \A x \in Events : ~locked'[x] => ~locked[x] /\ x # e
      BY <1>1, <2>2 DEF IInv, TypeOK
    <3>2. \A i \in 1..Len(active') : /\ active'[i] \in Events
                                     /\ i + 1 \in 1..Len(active)
                                     /\ active'[i] = active[i + 1]
      BY <1>1, <2>2, TailActive DEF IInv, TypeOK
    <3> QED BY <2>2, <2>3, <3>1, <3>2 DEF IInv, ActiveInv
  <2>6. RegisteredLive' /\ DoomedInv' /\ PhaseInv'
    BY <2>1, <2>2, <2>3 DEF IInv, TypeOK, RegisteredLive, DoomedInv, PhaseInv
  <2> QED BY <2>3, <2>4, <2>5, <2>6 DEF IInv
<1> QED BY <1>2, <1>3

\* The callbacks of an event are a sequence of at most four.
LEMMA CallsType == \A sig : Calls(sig) \in Seq(Callbacks)
<1> SUFFICES ASSUME NEW sig PROVE Calls(sig) \in Seq(Callbacks)
  OBVIOUS
<1> DEFINE a == IF "HUP" \in sig /\ "IN" \notin sig THEN <<"close">> ELSE <<>>
           b == IF "ERR" \in sig THEN <<"error">> ELSE <<>>
           c == IF sig \cap {"IN", "PRI", "RDHUP"} # {} THEN <<"read">> ELSE <<>>
           d == IF "OUT" \in sig THEN <<"write">> ELSE <<>>
<1>1. a \in Seq(Callbacks) /\ b \in Seq(Callbacks) /\ c \in Seq(Callbacks) /\ d \in Seq(Callbacks)
  <2>1. \A x \in Callbacks : <<x>> \in Seq(Callbacks)
    OBVIOUS
  <2>2. <<>> \in Seq(Callbacks)
    OBVIOUS
  <2>3. {"close", "error", "read", "write"} = Callbacks
    BY DEF Callbacks
  <2>4. a \in Seq(Callbacks)
    BY <2>1, <2>2, <2>3
  <2>5. b \in Seq(Callbacks)
    BY <2>1, <2>2, <2>3
  <2>6. c \in Seq(Callbacks)
    BY <2>1, <2>2, <2>3
  <2>7. d \in Seq(Callbacks)
    BY <2>1, <2>2, <2>3
  <2> QED BY <2>4, <2>5, <2>6, <2>7
<1>2. Calls(sig) = a \o b \o c \o d
  BY DEF Calls
<1> HIDE DEF a, b, c, d
<1>3. a \o b \in Seq(Callbacks)
  BY <1>1
<1>4. a \o b \o c \in Seq(Callbacks)
  BY <1>1, <1>3
<1>5. a \o b \o c \o d \in Seq(Callbacks)
  BY <1>1, <1>4
<1> QED BY <1>2, <1>5

-----------------------------------------------------------------------------
(* The invariant is inductive.                                             *)

LEMMA NextIInv == IInv /\ [Next]_vars => IInv'
<1> SUFFICES ASSUME IInv, [Next]_vars PROVE IInv'
  OBVIOUS
<1>1. CASE App
  <2>1. CASE \E e \in Events, f \in Fds : Create(e, f)
    BY <2>1, CreateIInv
  <2>2. CASE \E e \in Events : Update(e) \/ Remove(e) \/ PostDelete(e)
    BY <2>2, UpdateIInv, RemoveIInv, PostDeleteIInv
  <2>3. CASE PostTask
    BY <2>3, PostTaskIInv
  <2>4. CASE ExitLoop
    BY <2>4 DEF ExitLoop, IInv, TypeOK, RegisteredLive, DoomedInv, ActiveInv, PhaseInv, loopVars
  <2> QED BY <1>1, <2>1, <2>2, <2>3, <2>4 DEF App
<1>2. CASE RunLoop
  <2>1. TypeOK'
    BY <1>2 DEF RunLoop, IInv, TypeOK, Phases, loopVars
  <2> QED BY <1>2, <2>1, ControlIInv DEF RunLoop, loopVars
<1>3. CASE LoopStep
  <2>1. CASE NoTask
    <3>1. TypeOK'
      BY <2>1 DEF NoTask, IInv, TypeOK, Phases, loopVars
    <3> QED BY <2>1, <3>1, ControlIInv DEF NoTask, loopVars
  <2>2. CASE StartTask
    <3>1. TypeOK'
      BY <2>2 DEF StartTask, IInv, TypeOK, Phases, loopVars
    <3> QED BY <2>2, <3>1, ControlIInv DEF StartTask, loopVars
  <2>3. CASE HandleEvent
    <3>1. TypeOK'
      BY <2>3, CallsType DEF HandleEvent, IInv, TypeOK, Phases
    <3> QED BY <2>3, <3>1, ControlIInv DEF HandleEvent
  <2>4. CASE NextCallback
    <3>1. TypeOK'
      BY <2>4 DEF NextCallback, IInv, TypeOK, Phases
    <3> QED BY <2>4, <3>1, ControlIInv DEF NextCallback, IInv, PhaseInv
  <2>5. CASE EndIteration
    <3>1. TypeOK'
      BY <2>5 DEF EndIteration, IInv, TypeOK, Phases, loopVars
    <3> QED BY <2>5, <3>1, ControlIInv DEF EndIteration, loopVars
  <2> QED
    BY <1>3, <2>1, <2>2, <2>3, <2>4, <2>5, PollIInv, TaskReturnsIInv,
       DeleteEventIInv, SkipLockedIInv, EventHandledIInv DEF LoopStep
<1>4. CASE UNCHANGED vars
  BY <1>4 DEF IInv, TypeOK, RegisteredLive, DoomedInv, ActiveInv, PhaseInv, vars, loopVars
<1> QED BY <1>1, <1>2, <1>3, <1>4 DEF Next

LEMMA SpecIInv == Spec => []IInv
BY InitIInv, NextIInv, PTL DEF Spec

-----------------------------------------------------------------------------
(* The theorems.                                                           *)

\* Every variable of the loop keeps its type.
THEOREM TypeCorrect == Spec => []TypeOK
<1>1. IInv => TypeOK
  BY DEF IInv
<1> QED BY <1>1, SpecIInv, PTL

\* A deletion posted by a task or a callback never hits an event the loop
\* still has to handle, for any number of events, tasks and epoll entries.
THEOREM NoUseAfterFreeHolds == Spec => []NoUseAfterFree
<1>1. IInv => NoUseAfterFree
  BY DEF IInv, ActiveInv, NoUseAfterFree
<1> QED BY <1>1, SpecIInv, PTL

\* Kernel, map and events agree after any sequence of calls.
THEOREM RegistryAgreesHolds == Spec => []RegistryAgrees
<1>1. IInv => RegistryAgrees
  BY NoEventAssumption, RegistryFields
  DEF IInv, TypeOK, RegInv, Linked, RegisteredLive, RegistryAgrees
<1> QED BY <1>1, SpecIInv, PTL

\* No call and no step of the loop breaks an assert of the Poller.
THEOREM AssertsHoldAlways == Spec => []AssertsHold
<1>1. IInv => AssertsHold
  BY DEF IInv, RegInv, Linked, AssertsHold
<1> QED BY <1>1, SpecIInv, PTL

\* What is to be deleted is not registered again.
THEOREM RemovedStaysOutHolds == Spec => []RemovedStaysOut
<1>1. IInv => RemovedStaysOut
  BY DEF IInv, DoomedInv, RemovedStaysOut
<1> QED BY <1>1, SpecIInv, PTL

\* An application that removes no event whose disableAll() is still to come
\* never finds an event it has removed registered again by the loop.
THEOREM RemoveLastsHolds == Spec => RemoveLasts
<1>1. IInv /\ [Next]_vars
        => [LoopStep => \A e \in Events : reg.index[e] = "kNew" => reg'.index[e] = "kNew"]_vars
  <2> SUFFICES ASSUME IInv, LoopStep, NEW e \in Events, reg.index[e] = "kNew"
               PROVE  reg'.index[e] = "kNew"
    OBVIOUS
  <2>1. CASE EventHandled
    <3>1. CASE Head(active) \in OneShot
      <4>1. /\ Head(active) \in Events
            /\ reg.index[Head(active)] # "kNew"
        BY <2>1, <3>1 DEF EventHandled, IInv, TypeOK, PhaseInv, ActiveInv
      <4>2. reg' = SetEvents(reg, Head(active), {})
        BY <2>1, <3>1 DEF EventHandled, DisableAll
      <4>3. \A x \in Events \ {Head(active)} : reg'.index[x] = reg.index[x]
        BY <4>1, <4>2, SetEventsInv DEF IInv, TypeOK, Masks
      <4> QED BY <4>1, <4>3
    <3>2. CASE Head(active) \notin OneShot
      BY <2>1, <3>2 DEF EventHandled
    <3> QED BY <3>1, <3>2
  <2>2. CASE DeleteEvent
    <3>1. CASE reg.index[Head(taskQueue)] = "kNew"
      BY <2>2, <3>1 DEF DeleteEvent
    <3>2. CASE reg.index[Head(taskQueue)] # "kNew"
      <4>1. /\ Head(taskQueue) \in Events
            /\ reg' = RemoveEvent(reg, Head(taskQueue))
        BY <2>2, <3>2 DEF DeleteEvent
      <4>2. reg.events[Head(taskQueue)] = {}
        BY <2>2, <4>1 DEF DeleteEvent, IInv, TypeOK, DoomedInv, RegInv, Linked
      <4>3. reg'.index = [reg.index EXCEPT ![Head(taskQueue)] = "kNew"]
        BY <3>2, <4>1, <4>2, RemoveEventInv DEF IInv, TypeOK
      <4> QED BY <4>3, RegistryFields DEF IInv, TypeOK
    <3> QED BY <3>1, <3>2
  <2>3. CASE UNCHANGED reg
    BY <2>3
  <2> QED
    BY <2>1, <2>2, <2>3
    DEF LoopStep, Poll, Report, NoTask, StartTask, TaskReturns, HandleEvent, SkipLocked,
        NextCallback, EndIteration
<1> QED BY <1>1, SpecIInv, PTL DEF Spec, RemoveLasts

=============================================================================
