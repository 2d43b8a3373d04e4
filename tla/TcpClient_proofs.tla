-------------------------- MODULE TcpClient_proofs --------------------------
(***************************************************************************)
(* Proofs about TcpClient: its safety invariants for any number of events, *)
(* descriptors and queued tasks.                                           *)
(***************************************************************************)
EXTENDS TcpClient, EventLoop_proofs, SequenceTheorems

-----------------------------------------------------------------------------
(* The inductive invariant.  What the registry, the connector, the         *)
(* connections and the task queue have to do with each other is stated of  *)
(* values, not of the variables: a handler is a composition of calls.      *)

CoreType(r, lv, at, sk, cn, cs, tq) ==
  /\ r \in Registry
  /\ lv \subseteq Events
  /\ at \in Attempts \cup {NoEvent}
  /\ sk \in Fds \cup {NoFd}
  /\ cn \in Conns \cup {NoEvent}
  /\ cs \in [Conns -> ConnStates]
  /\ tq \in Seq(Events \cup {AppTask})

\* The connector has one event, and while it is Connecting that event watches
\* its socket; afterwards it is out of epoll until it is deleted.
Trying(r, lv, ct, at, sk) ==
  /\ at # NoEvent => at \in lv
  /\ \A e \in lv \cap Attempts : e = at
  /\ ct \in ConnectorStates
  /\ ct = "Connecting" =>
       /\ sk \in Fds /\ Attempts # {}
       /\ at # NoEvent => r.fd[at] = sk
  /\ ct # "Connecting" /\ at # NoEvent => r.index[at] = "kNew"

\* A descriptor of its own for the connector and for every connection; only
\* live events are registered.
Apart(r, lv, sk) ==
  /\ \A e \in Events : r.index[e] # "kNew" => e \in lv
  /\ \A c \in lv \cap Conns : r.fd[c] # sk
  /\ \A c, d \in lv \cap Conns : r.fd[c] = r.fd[d] => c = d

\* The client's connection is in epoll until it is stopped; no other one is
\* Connected.
Kept(r, lv, ct, cn, cs) ==
  /\ cn # NoEvent =>
       /\ cn \in lv
       /\ ct = "Connected"
       /\ cs[cn] # "Disconnected"
       /\ cs[cn] = "Connecting" => r.index[cn] = "kNew"
       /\ cs[cn] = "Connected" => r.index[cn] = "kAdded"
  /\ \A c \in lv \cap Conns : cs[c] = "Connected" => c = cn

\* A posted disconnect() is of a lost connection that is still there.
Queued(r, lv, cn, cs, tq) ==
  \A i \in 1 .. Len(tq) : tq[i] \in Conns =>
    /\ tq[i] \in lv /\ tq[i] # cn
    /\ cs[tq[i]] = "Disconnected"
    /\ r.events[tq[i]] = {}

Core(r, lv, ct, at, sk, cn, cs, tq) ==
  /\ CoreType(r, lv, at, sk, cn, cs, tq)
  /\ Linked(r)
  /\ Trying(r, lv, ct, at, sk)
  /\ Apart(r, lv, sk)
  /\ Kept(r, lv, ct, cn, cs)
  /\ Queued(r, lv, cn, cs, tq)

\* It is posted once, and its event stays out of epoll: of the connections
\* only the client's own is there.
Once(r, cn, tq) ==
  /\ \A c \in Conns : r.index[c] = "kAdded" => c = cn
  /\ \A i \in 1 .. Len(tq) : tq[i] \in Conns => r.index[tq[i]] = "kDeleted"
  /\ \A i, j \in 1 .. Len(tq) : tq[i] = tq[j] /\ tq[i] \in Conns => i = j

\* What is left of the callbacks of an event.
CallSeqs ==
  {<<>>, <<"close">>, <<"read">>, <<"write">>, <<"close", "write">>, <<"read", "write">>}

Where ==
  /\ phase # "aborted"
  /\ frame # "none" => phase = "incallback" /\ calls # <<>>
  /\ phase = "incallback" => active # <<>>
  /\ phase = "intask" => taskQueue # <<>>
  /\ calls \in CallSeqs
  /\ \A e \in Events : revents[e] \subseteq {"IN", "OUT", "HUP"}

\* A reported event may still call handleRead() or handleClose().
Waits(i) ==
  \/ i # 1 \/ phase # "incallback"
  \/ frame # "closed" /\ calls \notin {<<>>, <<"write">>}

\* The reported events are alive.  A connection among them is the client's own,
\* and one that was stopped is not Connected again; the connector's event is
\* not replaced before it has been handled, but by its own callback.
Reported ==
  /\ \A i \in 1 .. Len(active) :
       /\ active[i] \in live
       /\ phase = "task" => reg.index[active[i]] = "kAdded"
       /\ active[i] \in Conns /\ Waits(i) => active[i] = connection
       /\ active[i] \in Attempts /\ connector # "Connecting" =>
            /\ phase = "incallback" /\ i = 1
            /\ connector = "Disconnected" => frame = "none"
       /\ active[i] = connection =>
            /\ frame # "connected"
            /\ cstate[connection] = "Connecting" => client # "Connected"
  /\ \A i, j \in 1 .. Len(active) : active[i] = active[j] => i = j

\* After a handleClose() of a stopped connection the client never connects
\* again.
Late ==
  /\ connection = NoEvent /\ connector = "Connected"
  /\ client # "Connected" /\ frame # "connected"

ClientCore == Core(reg, live, connector, attempt, sock, connection, cstate, taskQueue)

ClientOnce == Once(reg, connection, taskQueue)

Good ==
  /\ ClientCore
  /\ Where
  /\ cause = "closedLate" => Late
  /\ cause # "closedLate" => ClientOnce /\ Reported
  /\ cause = "none" => reg.asserts

\* The types of the variables Core says nothing of.
RestType ==
  /\ doomed \subseteq Events
  /\ revents \in [Events -> SUBSET Signals]
  /\ locked \in [Events -> BOOLEAN]
  /\ active \in Seq(Events)
  /\ calls \in Seq(Callbacks)
  /\ keepRunning \in BOOLEAN
  /\ poolUp \in BOOLEAN
  /\ cap \in Nat \ {0}
  /\ phase \in Phases
  /\ client \in ClientStates
  /\ recon \in BOOLEAN
  /\ frame \in Frames
  /\ peer \in [Fds -> PeerStates]
  /\ cause \in Causes

\* Nothing is said of a program that uses a deleted event.
ClientIInv ==
  /\ ClientTypeOK
  /\ OneConnection
  /\ cause \notin Faults => Good

-----------------------------------------------------------------------------
(* The calls that make up the handlers, on a registry alone.               *)

\* Nobody is registered on a descriptor.
LEMMA FreeDescriptor ==
  ASSUME NEW r \in Registry, Linked(r), NEW f \in Fds,
         \A x \in Events : r.index[x] # "kNew" => r.fd[x] # f
  PROVE  r.map[f] = NoEvent /\ r.kptr[f] = NoEvent
<1>1. r.map[f] = NoEvent
  BY RegistryFields DEF Linked
<1> QED BY <1>1 DEF Linked

\* Closing such a descriptor changes nothing but its mask in epoll.
Keeps(r, s) ==
  /\ s \in Registry /\ Linked(s)
  /\ s.index = r.index /\ s.events = r.events /\ s.fd = r.fd
  /\ s.asserts = r.asserts

LEMMA CloseFdResult ==
  ASSUME NEW r \in Registry, Linked(r), NEW f \in Fds \cup {NoFd},
         f \in Fds => \A x \in Events : r.index[x] # "kNew" => r.fd[x] # f
  PROVE  Keeps(r, CloseFd(r, f))
<1>1. CASE f = NoFd
  BY <1>1 DEF CloseFd, Keeps
<1>2. CASE f # NoFd
  <2> DEFINE s == CloseFd(r, f)
  <2>1. f \in Fds /\ r.kptr[f] = NoEvent
    BY <1>2, FreeDescriptor
  <2>2. s = [r EXCEPT !.kptr[f] = NoEvent, !.kmask[f] = {}]
    BY <1>2 DEF CloseFd
  <2>3. [r.kptr EXCEPT ![f] = NoEvent] = r.kptr
    BY <2>1, RegistryFields
  <2>4. /\ s.index = r.index /\ s.events = r.events /\ s.fd = r.fd /\ s.map = r.map
        /\ s.asserts = r.asserts
        /\ s.kptr = r.kptr
        /\ s.kmask = [r.kmask EXCEPT ![f] = {}]
    BY <2>2, <2>3, RegistryFields
  <2>5. s \in Registry
    BY <2>1, <2>2, RegistryFields DEF Registry, Masks
  <2> HIDE DEF s
  <2>6. \A g \in Fds : r.kptr[g] # NoEvent => s.kmask[g] = r.kmask[g]
    BY <2>1, <2>4, RegistryFields
  <2>7. Linked(s)
    BY <2>4, <2>6 DEF Linked
  <2> QED BY <2>4, <2>5, <2>7 DEF Keeps, s
<1> QED BY <1>1, <1>2

\* removeAndResetChannel() takes an event out of epoll and of the map.
Leaves(r, e, s) ==
  /\ s \in Registry /\ Linked(s)
  /\ s.index = [r.index EXCEPT ![e] = "kNew"]
  /\ s.events = [r.events EXCEPT ![e] = {}]
  /\ s.fd = r.fd
  /\ s.asserts = r.asserts

LEMMA OutOfEpollResult ==
  ASSUME NEW r \in Registry, Linked(r), NEW e \in Events,
         r.index[e] = "kNew" => r.map[r.fd[e]] = NoEvent
  PROVE  Leaves(r, e, OutOfEpoll(r, e))
<1> DEFINE q == DisableAll(r, e)
           s == RemoveEvent(q, e)
<1>1. Arms(r, e, {}, q)
  BY SetEventsLinked DEF DisableAll, Masks
<1> HIDE DEF q
<1>2. /\ q \in Registry /\ Linked(q) /\ q.asserts = r.asserts /\ q.fd = r.fd
      /\ \A x \in Events \ {e} : q.index[x] = r.index[x]
      /\ q.index[e] # "kNew"
      /\ q.events = [r.events EXCEPT ![e] = {}]
  BY <1>1, Zenon DEF Arms
<1>3. q.events[e] = {}
  BY <1>2, RegistryFields
<1>4. /\ s \in Registry /\ Linked(s)
      /\ s.index = [q.index EXCEPT ![e] = "kNew"]
      /\ s.events = q.events /\ s.fd = q.fd /\ s.asserts = q.asserts
  BY <1>2, <1>3, RemoveEventLinked
<1> HIDE DEF s
<1>5. s.index = [r.index EXCEPT ![e] = "kNew"]
  BY <1>2, <1>4, RegistryFields
<1>6. Leaves(r, e, s)
  BY <1>2, <1>4, <1>5 DEF Leaves
<1> QED BY <1>6 DEF OutOfEpoll, s, q

\* A claim changes nothing but what is known of the asserts.
LEMMA ClaimResult ==
  ASSUME NEW r \in Registry, NEW claim \in BOOLEAN
  PROVE  /\ Claim(r, claim) \in Registry
         /\ Linked(r) => Linked(Claim(r, claim))
         /\ Claim(r, claim).index = r.index
         /\ Claim(r, claim).events = r.events
         /\ Claim(r, claim).fd = r.fd
         /\ Claim(r, claim).map = r.map
         /\ claim => Claim(r, claim) = r
<1> DEFINE b == r.asserts /\ claim
           s == [r EXCEPT !.asserts = b]
<1>1. b \in BOOLEAN
  OBVIOUS
<1>2. Claim(r, claim) = s
  BY DEF Claim
<1> HIDE DEF b
<1>3. s \in Registry
  BY <1>1, RegistryFields DEF Registry
<1>4. /\ s.index = r.index /\ s.events = r.events /\ s.fd = r.fd /\ s.map = r.map
      /\ s.kptr = r.kptr /\ s.kmask = r.kmask
  BY RegistryFields
<1> HIDE DEF s
<1>5. Linked(r) => Linked(s)
  BY <1>4 DEF Linked
<1>6. claim => Claim(r, claim) = r
  BY ClaimTrue
<1> QED BY <1>2, <1>3, <1>4, <1>5, <1>6

\* remove() of an event that is disabled, or was removed before: the assert it
\* breaks then is all that happens.
LEMMA RemovedResult ==
  ASSUME NEW r \in Registry, Linked(r), NEW e \in Events,
         r.events[e] = {},
         r.index[e] = "kNew" => r.map[r.fd[e]] = NoEvent
  PROVE  /\ RemoveEvent(r, e) \in Registry /\ Linked(RemoveEvent(r, e))
         /\ RemoveEvent(r, e).index = [r.index EXCEPT ![e] = "kNew"]
         /\ RemoveEvent(r, e).events = r.events
         /\ RemoveEvent(r, e).fd = r.fd
         /\ r.index[e] # "kNew" => RemoveEvent(r, e).asserts = r.asserts
<1>1. CASE r.index[e] # "kNew"
  BY <1>1, RemoveEventLinked
<1>2. CASE r.index[e] = "kNew"
  <2> DEFINE s == RemoveEvent(r, e)
             f == r.fd[e]
  <2>1. r.map[f] = NoEvent /\ f \in Fds
    BY <1>2, RegistryFields
  <2>2. [r.map EXCEPT ![f] = NoEvent] = r.map /\ [r.index EXCEPT ![e] = "kNew"] = r.index
    BY <1>2, <2>1, RegistryFields
  <2>3. /\ s.index = r.index /\ s.events = r.events /\ s.fd = r.fd /\ s.map = r.map
        /\ s.kptr = r.kptr /\ s.kmask = r.kmask
    BY <1>2, <2>2, RegistryFields DEF RemoveEvent, Claim
  <2>4. s \in Registry
    <3> DEFINE claim == /\ r.map[f] = e /\ r.events[e] = {}
                        /\ r.index[e] \in {"kAdded", "kDeleted"}
               q == Claim(r, claim)
    <3>1. s = [q EXCEPT !.map[f] = NoEvent, !.index[e] = "kNew"]
      BY <1>2 DEF RemoveEvent
    <3>2. claim \in BOOLEAN
      OBVIOUS
    <3> HIDE DEF claim
    <3>3. q \in Registry
      BY <3>2, ClaimResult
    <3> HIDE DEF q
    <3> DEFINE m == [q.map EXCEPT ![f] = NoEvent]
               x == [q.index EXCEPT ![e] = "kNew"]
    <3>4. s = [q EXCEPT !.map = m, !.index = x]
      BY <3>1, <3>3, RegistryFields
    <3>5. m \in [Fds -> Events \cup {NoEvent}] /\ x \in [Events -> Indexes]
      BY <2>1, <3>3, RegistryFields DEF Indexes
    <3> HIDE DEF m, x
    <3> QED BY <3>3, <3>4, <3>5 DEF Registry
  <2> HIDE DEF s
  <2>5. Linked(s)
    BY <2>3 DEF Linked
  <2> QED BY <1>2, <2>2, <2>3, <2>4, <2>5 DEF s
<1> QED BY <1>1, <1>2

\* What a new or a deleted event holds, when it was not registered.
LEMMA DeleteResult ==
  ASSUME NEW r \in Registry, Linked(r), NEW e \in Events \cup {NoEvent},
         e # NoEvent => r.index[e] = "kNew"
  PROVE  /\ Delete(r, e) \in Registry /\ Linked(Delete(r, e))
         /\ Delete(r, e).index = r.index
         /\ Delete(r, e).events = r.events
         /\ \A x \in Events : x # e => Delete(r, e).fd[x] = r.fd[x]
         /\ Delete(r, e).asserts = r.asserts
<1>1. CASE e = NoEvent
  BY <1>1 DEF Delete
<1>2. CASE e # NoEvent
  <2>1. e \in Events /\ AnyFd \in Fds
    BY <1>2, RegistryFields DEF AnyFd
  <2> DEFINE s == Construct(r, e, AnyFd)
  <2>2. /\ s \in Registry /\ Linked(s)
        /\ s.index = r.index /\ s.events = r.events
        /\ s.fd = [r.fd EXCEPT ![e] = AnyFd] /\ s.asserts = r.asserts
    BY <1>2, <2>1, ConstructLinked
  <2> HIDE DEF s
  <2>3. \A x \in Events : x # e => s.fd[x] = r.fd[x]
    BY <2>1, <2>2, RegistryFields
  <2> QED BY <1>2, <2>2, <2>3 DEF Delete, s
<1> QED BY <1>1, <1>2

-----------------------------------------------------------------------------
(* The same calls on the whole core.                                       *)

LEMMA Kinds ==
  /\ Conns \subseteq Events /\ Attempts \subseteq Events
  /\ \A x \in Attempts : x \notin Conns
  /\ \A x \in Events : x \in Conns \/ x \in Attempts
  /\ NoEvent \notin Events /\ AppTask \notin Events /\ NoFd \notin Fds
  /\ Attempts # {} => ResetEvent \in Attempts
BY NoEventAssumption, ConstantsAssumption, ClientAssumption DEF Conns, ResetEvent

\* Nobody else is registered on the descriptor of a connection, or of the
\* connector's event.
LEMMA OwnDescriptor ==
  ASSUME NEW r, NEW lv, NEW ct, NEW at, NEW sk, NEW cn, NEW cs, NEW tq,
         Core(r, lv, ct, at, sk, cn, cs, tq),
         NEW e \in lv, e \in Conns \/ (ct = "Connecting" /\ e = at)
  PROVE  /\ \A x \in Events : r.index[x] # "kNew" /\ r.fd[x] = r.fd[e] => x = e
         /\ r.index[e] = "kNew" => r.map[r.fd[e]] = NoEvent
<1>1. r \in Registry /\ Linked(r) /\ lv \subseteq Events
  BY DEF Core, CoreType
<1>2. \A x \in Events : r.index[x] # "kNew" /\ r.fd[x] = r.fd[e] => x = e
  <2> SUFFICES ASSUME NEW x \in Events, r.index[x] # "kNew", r.fd[x] = r.fd[e]
               PROVE  x = e
    OBVIOUS
  <2>1. x \in lv
    BY DEF Core, Apart
  <2>2. x \in Attempts => x = at /\ ct = "Connecting" /\ r.fd[x] = sk
    BY <2>1, Kinds DEF Core, Trying, ConnectorStates
  <2>3. x \in Conns => r.fd[x] # sk
    BY <2>1 DEF Core, Apart
  <2>4. e \in Conns => r.fd[e] # sk
    BY DEF Core, Apart
  <2>5. e = at /\ ct = "Connecting" /\ e \notin Conns => r.fd[e] = sk
    BY <1>1, Kinds DEF Core, Trying
  <2>6. x \in Conns /\ e \in Conns => x = e
    BY <2>1 DEF Core, Apart
  <2> QED BY <2>2, <2>3, <2>4, <2>5, <2>6, Kinds
<1>3. r.fd[e] \in Fds
  BY <1>1, RegistryFields
<1>4. r.index[e] = "kNew" => r.map[r.fd[e]] = NoEvent
  BY <1>1, <1>2, <1>3, FreeDescriptor
<1> QED BY <1>2, <1>4

\* removeAndResetChannel(): the event that was tried is out of epoll; what
\* becomes of the connector's state is for the caller to say.
LEMMA TakeOutResult ==
  ASSUME NEW r, NEW lv, NEW at, NEW sk, NEW cn, NEW cs, NEW tq, NEW next \in ConnectorStates,
         Core(r, lv, "Connecting", at, sk, cn, cs, tq), at # NoEvent
  PROVE  /\ Core(OutOfEpoll(r, at), lv, next, at, sk, cn, cs, tq)
         /\ Leaves(r, at, OutOfEpoll(r, at))
         /\ r \in Registry /\ at \in lv /\ at \in Attempts /\ cn = NoEvent
<1> DEFINE s == OutOfEpoll(r, at)
<1>1. /\ r \in Registry /\ Linked(r) /\ lv \subseteq Events
      /\ at \in Attempts /\ at \in lv /\ at \in Events
  BY Kinds DEF Core, CoreType, Trying
<1>2. r.index[at] = "kNew" => r.map[r.fd[at]] = NoEvent
  BY <1>1, OwnDescriptor
<1>3. Leaves(r, at, s)
  BY <1>1, <1>2, OutOfEpollResult
<1> HIDE DEF s
<1>4. /\ s \in Registry /\ Linked(s) /\ s.fd = r.fd /\ s.asserts = r.asserts
      /\ s.index[at] = "kNew" /\ s.events[at] = {}
      /\ \A x \in Events \ {at} : s.index[x] = r.index[x] /\ s.events[x] = r.events[x]
  BY <1>1, <1>3, RegistryFields DEF Leaves
<1>5. cn = NoEvent
  BY DEF Core, Kept
<1>6. CoreType(s, lv, at, sk, cn, cs, tq)
  BY <1>4 DEF Core, CoreType
<1>7. Trying(s, lv, next, at, sk)
  BY <1>4 DEF Core, Trying
<1>8. Apart(s, lv, sk)
  <2>1. \A e \in Events : s.index[e] # "kNew" => e \in lv
    BY <1>4 DEF Core, Apart
  <2> QED BY <1>4, <2>1 DEF Core, Apart
<1>9. Kept(s, lv, next, cn, cs)
  BY <1>5 DEF Core, Kept
<1>10. Queued(s, lv, cn, cs, tq)
  <2>1. \A x \in Conns : s.events[x] = r.events[x]
    BY <1>1, <1>4, Kinds
  <2> QED BY <2>1 DEF Core, Queued
<1> QED BY <1>1, <1>3, <1>4, <1>5, <1>6, <1>7, <1>8, <1>9, <1>10 DEF Core, s

\* A task that is no disconnect() is posted.
LEMMA PostResult ==
  ASSUME NEW r, NEW lv, NEW ct, NEW at, NEW sk, NEW cn, NEW cs, NEW tq,
         Core(r, lv, ct, at, sk, cn, cs, tq),
         NEW task \in (Events \cup {AppTask}) \ Conns
  PROVE  /\ Core(r, lv, ct, at, sk, cn, cs, Append(tq, task))
         /\ Once(r, cn, tq) => Once(r, cn, Append(tq, task))
<1> DEFINE t == Append(tq, task)
<1>1. tq \in Seq(Events \cup {AppTask})
  BY DEF Core, CoreType
<1>2. /\ t \in Seq(Events \cup {AppTask})
      /\ \A i \in 1 .. Len(t) : t[i] \in Conns => i \in 1 .. Len(tq) /\ t[i] = tq[i]
  BY <1>1
<1> HIDE DEF t
<1>3. CoreType(r, lv, at, sk, cn, cs, t)
  BY <1>2 DEF Core, CoreType
<1>4. Queued(r, lv, cn, cs, t)
  BY <1>2 DEF Core, Queued
<1>5. Once(r, cn, tq) => Once(r, cn, t)
  BY <1>2 DEF Once
<1> QED BY <1>3, <1>4, <1>5 DEF Core, t

\* A task is done with.
LEMMA PopResult ==
  ASSUME NEW r, NEW lv, NEW ct, NEW at, NEW sk, NEW cn, NEW cs, NEW tq,
         Core(r, lv, ct, at, sk, cn, cs, tq), tq # <<>>
  PROVE  /\ Core(r, lv, ct, at, sk, cn, cs, Tail(tq))
         /\ Once(r, cn, tq) => Once(r, cn, Tail(tq))
<1> DEFINE t == Tail(tq)
<1>1. tq \in Seq(Events \cup {AppTask})
  BY DEF Core, CoreType
<1>2. /\ t \in Seq(Events \cup {AppTask})
      /\ \A i \in 1 .. Len(t) : i + 1 \in 1 .. Len(tq) /\ t[i] = tq[i + 1]
  BY <1>1, TailElements
<1> HIDE DEF t
<1>3. CoreType(r, lv, at, sk, cn, cs, t)
  BY <1>2 DEF Core, CoreType
<1>4. Queued(r, lv, cn, cs, t)
  BY <1>2 DEF Core, Queued
<1>5. ASSUME Once(r, cn, tq) PROVE Once(r, cn, t)
  <2>1. \A i, j \in 1 .. Len(t) : t[i] = t[j] /\ t[i] \in Conns => i + 1 = j + 1
    BY <1>2, <1>5 DEF Once
  <2>2. \A i, j \in 1 .. Len(t) : i + 1 = j + 1 => i = j
    OBVIOUS
  <2>3. \A i \in 1 .. Len(t) : t[i] \in Conns => r.index[t[i]] = "kDeleted"
    BY <1>2, <1>5 DEF Once
  <2>4. \A c \in Conns : r.index[c] = "kAdded" => c = cn
    BY <1>5 DEF Once
  <2> QED BY <2>1, <2>2, <2>3, <2>4 DEF Once
<1> QED BY <1>3, <1>4, <1>5 DEF Core, t

\* For the connections nothing changes in the registry, nor do the asserts.
ConnsSame(r, s) == s.asserts = r.asserts /\ \A x \in Conns : s.index[x] = r.index[x]

\* connect() again: the event tried before is deleted, its socket closed, and
\* a new one waits to write.
LEMMA StartResult ==
  ASSUME NEW r, NEW lv, NEW at, NEW sk, NEW cn, NEW cs, NEW tq,
         Core(r, lv, "Disconnected", at, sk, cn, cs, tq),
         NEW e \in Attempts \ lv, NEW f \in Fds,
         f # sk, \A c \in lv \cap Conns : r.fd[c] # f
  PROVE  LET s == Armed(Construct(Delete(CloseFd(r, sk), at), e, f), e)
         IN /\ Core(s, (lv \ {at}) \cup {e}, "Connecting", e, f, cn, cs, tq)
            /\ ConnsSame(r, s)
            /\ cn = NoEvent
<1> DEFINE p == CloseFd(r, sk)
           q == Delete(p, at)
           u == Construct(q, e, f)
           s == Armed(u, e)
<1>1. /\ r \in Registry /\ Linked(r) /\ lv \subseteq Events /\ sk \in Fds \cup {NoFd}
      /\ e \in Events /\ e \notin Conns /\ e # NoEvent /\ e # at
  BY Kinds DEF Core, CoreType, Trying
<1>2. \A x \in Events : r.index[x] # "kNew" => x \in lv \cap Conns
  BY Kinds DEF Core, Apart, Trying
<1>3. \A x \in Events : r.index[x] # "kNew" => r.fd[x] # sk /\ r.fd[x] # f
  BY <1>2 DEF Core, Apart
<1>4. Keeps(r, p)
  BY <1>1, <1>3, CloseFdResult
<1> HIDE DEF p
<1>5. at \in Events \cup {NoEvent} /\ (at # NoEvent => p.index[at] = "kNew")
  BY <1>4, Kinds DEF Keeps, Core, CoreType, Trying
<1>6. /\ q \in Registry /\ Linked(q)
      /\ q.index = r.index /\ q.events = r.events /\ q.asserts = r.asserts
      /\ \A x \in Events : x # at => q.fd[x] = r.fd[x]
  BY <1>4, <1>5, DeleteResult DEF Keeps
<1> HIDE DEF q
<1>7. q.index[e] = "kNew"
  BY <1>1, <1>2, <1>6
<1>8. /\ u \in Registry /\ Linked(u)
      /\ u.index = r.index /\ u.events = r.events /\ u.asserts = r.asserts
      /\ u.fd = [q.fd EXCEPT ![e] = f]
  BY <1>1, <1>6, <1>7, ConstructLinked
<1> HIDE DEF u
<1>9. u.fd[e] = f /\ \A x \in Events : x # at /\ x # e => u.fd[x] = r.fd[x]
  BY <1>1, <1>6, <1>8, RegistryFields
<1>10. u.map[u.fd[e]] = NoEvent
  <2>1. \A x \in Events : u.index[x] # "kNew" => x # at /\ x # e
    BY <1>2, <1>8, Kinds, <1>1 DEF Core, CoreType
  <2>2. \A x \in Events : u.index[x] # "kNew" => u.fd[x] # f
    BY <1>3, <1>8, <1>9, <2>1
  <2> QED BY <1>8, <1>9, <2>2, FreeDescriptor
<1> DEFINE mask == u.events[e] \cup {"write"}
<1>11. mask \in Masks /\ mask # {}
  BY <1>1, <1>8, RegistryFields DEF Masks
<1>12. Arms(u, e, mask, s)
  BY <1>1, <1>8, <1>10, <1>11, SetEventsLinked DEF Armed, EnableWriting
<1> HIDE DEF s, mask
<1>13. /\ s \in Registry /\ Linked(s) /\ s.asserts = r.asserts /\ s.fd = u.fd
       /\ \A x \in Events \ {e} : s.index[x] = r.index[x]
       /\ s.events = [u.events EXCEPT ![e] = mask]
  BY <1>8, <1>12, Zenon DEF Arms
<1>14. \A x \in Conns : s.index[x] = r.index[x] /\ s.events[x] = r.events[x] /\ s.fd[x] = r.fd[x]
  <2>1. at \notin Conns /\ \A x \in Conns : x \in Events /\ x # e /\ x # at
    BY <1>1, Kinds DEF Core, CoreType
  <2>2. u.events \in [Events -> Masks]
    BY <1>8, RegistryFields
  <2>3. \A x \in Conns : s.events[x] = r.events[x]
    BY <1>8, <1>13, <2>1, <2>2
  <2>4. \A x \in Conns : s.index[x] = r.index[x] /\ s.fd[x] = r.fd[x]
    BY <1>9, <1>13, <2>1
  <2> QED BY <2>3, <2>4
<1> DEFINE now == (lv \ {at}) \cup {e}
<1>15. /\ now \subseteq Events /\ e \in now
       /\ \A x \in Conns : x \in now <=> x \in lv
       /\ \A x \in now \cap Attempts : x = e
  BY <1>1, Kinds DEF Core, CoreType, Trying
<1> HIDE DEF now
<1>16. CoreType(s, now, e, f, cn, cs, tq)
  BY <1>13, <1>15 DEF Core, CoreType
<1>17. Trying(s, now, "Connecting", e, f)
  BY <1>9, <1>13, <1>15 DEF Trying, ConnectorStates
<1>18. Apart(s, now, f)
  <2>1. \A x \in Events : s.index[x] # "kNew" => x \in now
    BY <1>2, <1>13, <1>15
  <2>2. \A c \in now \cap Conns : c \in lv /\ s.fd[c] = r.fd[c]
    BY <1>14, <1>15
  <2> QED BY <2>1, <2>2 DEF Core, Apart
<1>19. cn = NoEvent
  BY DEF Core, Kept
<1>20. Kept(s, now, "Connecting", cn, cs)
  BY <1>15, <1>19 DEF Core, Kept
<1>21. Queued(s, now, cn, cs, tq)
  BY <1>14, <1>15 DEF Core, Queued
<1>22. ConnsSame(r, s)
  BY <1>13, <1>14 DEF ConnsSame
<1>23. Core(s, now, "Connecting", e, f, cn, cs, tq)
  BY <1>13, <1>16, <1>17, <1>18, <1>20, <1>21 DEF Core
<1> QED BY <1>19, <1>22, <1>23 DEF s, u, q, p, now

\* The socket connects: the connector gives it to a connection, which is read.
LEMMA EstablishResult ==
  ASSUME NEW r, NEW lv, NEW at, NEW sk, NEW cn, NEW cs, NEW tq,
         Core(r, lv, "Connecting", at, sk, cn, cs, tq), at # NoEvent,
         NEW c \in Conns \ lv
  PROVE  LET s == EnableReading(Construct(OutOfEpoll(r, at), c, sk), c)
         IN /\ Core(s, lv \cup {c}, "Connected", at, NoFd, c,
                    [cs EXCEPT ![c] = "Connected"], tq)
            /\ \A x \in Conns \ {c} : s.index[x] = r.index[x]
            /\ s.asserts = r.asserts
<1> DEFINE q == OutOfEpoll(r, at)
           u == Construct(q, c, sk)
           s == EnableReading(u, c)
           now == [cs EXCEPT ![c] = "Connected"]
           all == lv \cup {c}
<1>1. /\ Core(q, lv, "Connected", at, sk, cn, cs, tq)
      /\ \A x \in Events \ {at} : q.index[x] = r.index[x]
      /\ q.index[at] = "kNew" /\ q.fd = r.fd /\ q.asserts = r.asserts
      /\ at \in lv /\ cn = NoEvent
  <2>1. "Connected" \in ConnectorStates
    BY DEF ConnectorStates
  <2>2. Core(q, lv, "Connected", at, sk, cn, cs, tq)
    BY <2>1, TakeOutResult, Zenon
  <2>3. Leaves(r, at, q) /\ r \in Registry /\ at \in lv /\ at \in Attempts /\ cn = NoEvent
    BY <2>1, TakeOutResult, Zenon
  <2> HIDE DEF q
  <2>4. q.index = [r.index EXCEPT ![at] = "kNew"] /\ q.fd = r.fd /\ q.asserts = r.asserts
    BY <2>3 DEF Leaves
  <2>5. at \in Events /\ r.index \in [Events -> Indexes]
    BY <2>3, Kinds, RegistryFields
  <2> QED BY <2>2, <2>3, <2>4, <2>5
<1> HIDE DEF q
<1>2. /\ q \in Registry /\ Linked(q) /\ lv \subseteq Events
      /\ c \in Events /\ c \notin lv /\ c # at /\ sk \in Fds
  BY <1>1, Kinds DEF Core, CoreType, Trying
<1>3. q.index[c] = "kNew"
  BY <1>1, <1>2 DEF Core, Apart
<1>4. /\ u \in Registry /\ Linked(u)
      /\ u.index = q.index /\ u.events = q.events /\ u.asserts = q.asserts
      /\ u.fd = [q.fd EXCEPT ![c] = sk]
  BY <1>2, <1>3, ConstructLinked
<1> HIDE DEF u
<1>5. u.fd[c] = sk /\ \A x \in Events : x # c => u.fd[x] = q.fd[x]
  BY <1>2, <1>4, RegistryFields
<1>6. \A x \in Events : u.index[x] # "kNew" => x \in lv \cap Conns
  BY <1>1, <1>4, Kinds DEF Core, Apart, Trying
<1>7. u.map[u.fd[c]] = NoEvent
  <2>1. \A x \in Events : u.index[x] # "kNew" => u.fd[x] # sk
    BY <1>1, <1>2, <1>5, <1>6 DEF Core, Apart
  <2> QED BY <1>2, <1>4, <1>5, <2>1, FreeDescriptor
<1> DEFINE mask == u.events[c] \cup {"read"}
<1>8. mask \in Masks /\ mask # {}
  BY <1>2, <1>4, RegistryFields DEF Masks
<1>9. Arms(u, c, mask, s)
  BY <1>2, <1>4, <1>7, <1>8, SetEventsLinked DEF EnableReading
<1> HIDE DEF s, mask
<1>10. /\ s \in Registry /\ Linked(s) /\ s.asserts = r.asserts /\ s.fd = u.fd
       /\ \A x \in Events \ {c} : s.index[x] = q.index[x]
       /\ s.events = [u.events EXCEPT ![c] = mask]
       /\ s.index[c] = "kAdded"
  BY <1>1, <1>4, <1>8, <1>9, Zenon DEF Arms
<1>11. \A x \in Events \ {c} : s.events[x] = q.events[x] /\ s.fd[x] = q.fd[x]
  <2>1. u.events \in [Events -> Masks]
    BY <1>4, RegistryFields
  <2>2. \A x \in Events \ {c} : s.events[x] = q.events[x]
    BY <1>4, <1>10, <2>1
  <2> QED BY <1>5, <1>10, <2>2
<1>12. now \in [Conns -> ConnStates] /\ now[c] = "Connected" /\ \A d \in Conns \ {c} : now[d] = cs[d]
  BY DEF Core, CoreType, ConnStates
<1> HIDE DEF now
<1>13. /\ all \subseteq Events /\ c \in all
       /\ \A x \in Events \ {c} : x \in all <=> x \in lv
  BY <1>2
<1> HIDE DEF all
<1>14. CoreType(s, all, at, NoFd, c, now, tq)
  BY <1>10, <1>12, <1>13 DEF Core, CoreType
<1>15. Trying(s, all, "Connected", at, NoFd)
  <2>1. \A x \in all \cap Attempts : x = at
    BY <1>13, Kinds DEF Core, Trying
  <2> QED BY <1>1, <1>2, <1>10, <1>13, <2>1 DEF Trying, ConnectorStates
<1>16. Apart(s, all, NoFd)
  <2>1. \A x \in Events : s.index[x] # "kNew" => x \in all
    BY <1>4, <1>6, <1>10, <1>13
  <2>2. \A d \in Conns : s.fd[d] # NoFd
    BY <1>10, Kinds, RegistryFields
  <2>3. \A d \in (all \cap Conns) \ {c} : d \in lv /\ s.fd[d] = q.fd[d] /\ s.fd[d] # sk
    BY <1>1, <1>11, <1>13, Kinds DEF Core, Apart
  <2>4. s.fd[c] = sk
    BY <1>5, <1>10
  <2> QED BY <1>1, <2>1, <2>2, <2>3, <2>4 DEF Core, Apart
<1>17. Kept(s, all, "Connected", c, now)
  <2>1. \A d \in (all \cap Conns) \ {c} : now[d] # "Connected"
    BY <1>1, <1>12, <1>13, Kinds DEF Core, Kept
  <2> QED BY <1>10, <1>12, <1>13, <2>1 DEF Kept
<1>18. Queued(s, all, c, now, tq)
  <2>1. \A i \in 1 .. Len(tq) : tq[i] \in Conns => tq[i] # c /\ tq[i] \in Events
    BY <1>2, Kinds DEF Core, Queued
  <2> QED BY <1>1, <1>11, <1>12, <1>13, <2>1 DEF Core, Queued
<1>19. \A x \in Conns \ {c} : s.index[x] = r.index[x]
  BY <1>1, <1>10, Kinds DEF Core, CoreType
<1> QED BY <1>10, <1>14, <1>15, <1>16, <1>17, <1>18, <1>19 DEF Core, s, u, q, now, all

\* The application stops the client: its connection is out of epoll and keeps
\* its place; a second time the assert of remove() is broken.
LEMMA PartResult ==
  ASSUME NEW r, NEW lv, NEW ct, NEW at, NEW sk, NEW cn, NEW cs, NEW tq,
         Core(r, lv, ct, at, sk, cn, cs, tq), cn # NoEvent
  PROVE  LET on == cs[cn] = "Connected"
             s == RemoveEvent(IF on THEN DisableAll(r, cn) ELSE r, cn)
         IN /\ Core(s, lv, ct, at, sk, cn, IF on THEN [cs EXCEPT ![cn] = "Connecting"] ELSE cs, tq)
            /\ \A x \in Events : x # cn => s.index[x] = r.index[x]
            /\ on => s.asserts = r.asserts
            /\ r.index[cn] = "kNew" => ~on
<1> DEFINE on == cs[cn] = "Connected"
           s == RemoveEvent(IF on THEN DisableAll(r, cn) ELSE r, cn)
           now == IF on THEN [cs EXCEPT ![cn] = "Connecting"] ELSE cs
<1>1. /\ r \in Registry /\ Linked(r) /\ lv \subseteq Events
      /\ cn \in Conns /\ cn \in Events /\ cn \in lv /\ cn # at
      /\ cs[cn] \in ConnStates
  <2>1. r \in Registry /\ Linked(r) /\ lv \subseteq Events
    BY DEF Core, CoreType
  <2>2. cn \in Conns /\ cs[cn] \in ConnStates
    BY DEF Core, CoreType
  <2>3. cn \in lv
    BY DEF Core, Kept
  <2>4. cn \in Events /\ cn # at
    BY <2>2, Kinds DEF Core, CoreType
  <2> QED BY <2>1, <2>2, <2>3, <2>4
<1>2. r.index[cn] = "kNew" => r.map[r.fd[cn]] = NoEvent
  BY <1>1, OwnDescriptor
<1>3. /\ s \in Registry /\ Linked(s)
      /\ s.index = [r.index EXCEPT ![cn] = "kNew"] /\ s.fd = r.fd
      /\ s.events = [r.events EXCEPT ![cn] = {}]
      /\ on => s.asserts = r.asserts
  <2>1. CASE on
    <3>1. s = OutOfEpoll(r, cn)
      BY <2>1 DEF OutOfEpoll
    <3> HIDE DEF s
    <3>2. Leaves(r, cn, s)
      BY <1>1, <1>2, <3>1, OutOfEpollResult
    <3> QED BY <3>2 DEF Leaves
  <2>2. CASE ~on
    <3>1. s = RemoveEvent(r, cn)
      BY <2>2
    <3> HIDE DEF s
    <3>2. r.index[cn] = "kNew"
      BY <1>1, <2>2 DEF Core, Kept, ConnStates
    <3>3. r.events[cn] = {}
      BY <1>1, <3>2 DEF Linked
    <3>4. [r.events EXCEPT ![cn] = {}] = r.events
      BY <1>1, <3>3, RegistryFields
    <3> QED BY <1>1, <1>2, <2>2, <3>1, <3>3, <3>4, RemovedResult
  <2> QED BY <2>1, <2>2
<1>4. r.index[cn] = "kNew" => ~on
  BY <1>1 DEF Core, Kept
<1>5. now \in [Conns -> ConnStates] /\ now[cn] = "Connecting" /\ \A x \in Conns : x # cn => now[x] = cs[x]
  BY <1>1 DEF Core, CoreType, Kept, ConnStates
<1> HIDE DEF s, now, on
<1>6. /\ s.index[cn] = "kNew" /\ s.events[cn] = {}
      /\ \A x \in Events : x # cn => s.index[x] = r.index[x] /\ s.events[x] = r.events[x]
  BY <1>1, <1>3, RegistryFields
<1>7. CoreType(s, lv, at, sk, cn, now, tq)
  BY <1>3, <1>5 DEF Core, CoreType
<1>8. Trying(s, lv, ct, at, sk)
  BY <1>1, <1>3, <1>6 DEF Core, Trying
<1>9. Apart(s, lv, sk)
  <2>1. \A x \in Events : s.index[x] # "kNew" => x \in lv
    BY <1>6 DEF Core, Apart
  <2> QED BY <1>3, <2>1 DEF Core, Apart
<1>10. Kept(s, lv, ct, cn, now)
  BY <1>1, <1>5, <1>6 DEF Core, Kept
<1>11. Queued(s, lv, cn, now, tq)
  BY <1>1, <1>5, <1>6, Kinds DEF Core, Queued
<1>12. Core(s, lv, ct, at, sk, cn, now, tq)
  BY <1>3, <1>7, <1>8, <1>9, <1>10, <1>11 DEF Core
<1> QED BY <1>3, <1>4, <1>6, <1>12 DEF s, now, on

\* Disabling takes an event out of epoll, not out of the map.
Shuts(r, c, s) ==
  /\ \A x \in Events : x # c => s.index[x] = r.index[x]
  /\ r.index[c] = "kAdded" => s.index[c] = "kDeleted"
  /\ s.fd = r.fd

\* handleClose() of the client's connection, or of one that it no longer has:
\* a disconnect() is posted.
LEMMA CloseResult ==
  ASSUME NEW r, NEW lv, NEW ct, NEW at, NEW sk, NEW cn, NEW cs, NEW tq,
         Core(r, lv, ct, at, sk, cn, cs, tq), ct # "Connecting",
         NEW c \in lv \cap Conns, cn \in {c, NoEvent},
         NEW claim \in BOOLEAN, NEW next \in {ct, "Disconnected"}
  PROVE  LET s == DisableAll(Claim(r, claim), c)
         IN /\ Core(s, lv, next, at, sk, NoEvent, [cs EXCEPT ![c] = "Disconnected"], Append(tq, c))
            /\ Shuts(r, c, s)
            /\ claim => s.asserts = r.asserts
<1> DEFINE q == Claim(r, claim)
           s == DisableAll(q, c)
           now == [cs EXCEPT ![c] = "Disconnected"]
           t == Append(tq, c)
<1>1. /\ r \in Registry /\ Linked(r) /\ lv \subseteq Events
      /\ c \in Conns /\ c \in Events /\ c \in lv /\ c # at
  BY Kinds DEF Core, CoreType
<1>2. r.index[c] = "kNew" => r.map[r.fd[c]] = NoEvent
  BY <1>1, OwnDescriptor
<1>3. /\ q \in Registry /\ Linked(q)
      /\ q.index = r.index /\ q.events = r.events /\ q.fd = r.fd /\ q.map = r.map
      /\ claim => q.asserts = r.asserts
  <2>1. q \in Registry /\ Linked(q)
    BY <1>1, ClaimResult, Zenon
  <2>2. q.index = r.index /\ q.events = r.events /\ q.fd = r.fd /\ q.map = r.map
    BY <1>1, ClaimResult, Zenon
  <2>3. claim => q = r
    BY <1>1, ClaimResult, Zenon
  <2> HIDE DEF q
  <2> QED BY <2>1, <2>2, <2>3
<1> HIDE DEF q
<1>4. {} \in Masks
  BY DEF Masks
<1>5. Arms(q, c, {}, s)
  BY <1>1, <1>2, <1>3, <1>4, SetEventsLinked DEF DisableAll
<1> HIDE DEF s
<1>6. /\ s \in Registry /\ Linked(s) /\ s.fd = r.fd /\ (claim => s.asserts = r.asserts)
      /\ \A x \in Events \ {c} : s.index[x] = r.index[x]
      /\ r.index[c] = "kAdded" => s.index[c] = "kDeleted"
      /\ s.events = [r.events EXCEPT ![c] = {}]
  BY <1>3, <1>5, Zenon DEF Arms
<1>7. s.events[c] = {} /\ \A x \in Events : x # c => s.events[x] = r.events[x]
  BY <1>1, <1>6, RegistryFields
<1>8. now \in [Conns -> ConnStates] /\ now[c] = "Disconnected" /\ \A x \in Conns : x # c => now[x] = cs[x]
  BY <1>1 DEF Core, CoreType, ConnStates
<1>9. /\ t \in Seq(Events \cup {AppTask})
      /\ \A i \in 1 .. Len(t) : t[i] = c \/ (i \in 1 .. Len(tq) /\ t[i] = tq[i])
  BY <1>1 DEF Core, CoreType
<1> HIDE DEF now, t
<1>10. CoreType(s, lv, at, sk, NoEvent, now, t)
  BY <1>6, <1>8, <1>9 DEF Core, CoreType
<1>11. Trying(s, lv, next, at, sk)
  <2>1. next \in ConnectorStates /\ next # "Connecting"
    BY DEF Core, Trying, ConnectorStates
  <2>2. at # NoEvent => s.index[at] = "kNew"
    BY <1>1, <1>6, Kinds DEF Core, CoreType, Trying
  <2> QED BY <2>1, <2>2 DEF Core, Trying
<1>12. Apart(s, lv, sk)
  <2>1. \A x \in Events : s.index[x] # "kNew" => x \in lv
    BY <1>1, <1>6 DEF Core, Apart
  <2> QED BY <1>6, <2>1 DEF Core, Apart
<1>13. Kept(s, lv, next, NoEvent, now)
  <2>1. \A d \in lv \cap Conns : now[d] # "Connected"
    BY <1>8, Kinds DEF Core, Kept
  <2> QED BY <2>1 DEF Kept
<1>14. Queued(s, lv, NoEvent, now, t)
  <2> SUFFICES ASSUME NEW i \in 1 .. Len(t), t[i] \in Conns
               PROVE  t[i] \in lv /\ t[i] # NoEvent /\ now[t[i]] = "Disconnected" /\ s.events[t[i]] = {}
    BY DEF Queued
  <2>1. CASE t[i] = c
    BY <1>1, <1>7, <1>8, <2>1, Kinds
  <2>2. CASE t[i] # c
    <3>1. i \in 1 .. Len(tq) /\ t[i] = tq[i]
      BY <1>9, <2>2
    <3>2. t[i] \in lv /\ cs[t[i]] = "Disconnected" /\ r.events[t[i]] = {}
      BY <3>1 DEF Core, Queued
    <3> QED BY <1>7, <1>8, <2>2, <3>2, Kinds
  <2> QED BY <2>1, <2>2
<1>15. Core(s, lv, next, at, sk, NoEvent, now, t)
  BY <1>6, <1>10, <1>11, <1>12, <1>13, <1>14 DEF Core
<1>16. Shuts(r, c, s)
  BY <1>6 DEF Shuts
<1> QED BY <1>6, <1>15, <1>16 DEF s, q, now, t

\* resetEvent() of an event that is out of epoll.
LEMMA ForgetResult ==
  ASSUME NEW r, NEW lv, NEW ct, NEW at, NEW sk, NEW cn, NEW cs, NEW tq,
         Core(r, lv, ct, at, sk, cn, cs, tq), at # NoEvent => r.index[at] = "kNew"
  PROVE  /\ Core(Delete(r, at), lv \ {at}, ct, NoEvent, sk, cn, cs, tq)
         /\ Delete(r, at).index = r.index
         /\ Delete(r, at).asserts = r.asserts
<1> DEFINE s == Delete(r, at)
           some == lv \ {at}
<1>1. /\ r \in Registry /\ Linked(r) /\ lv \subseteq Events
      /\ at \in Events \cup {NoEvent} /\ at \notin Conns
  BY Kinds DEF Core, CoreType
<1>2. /\ s \in Registry /\ Linked(s)
      /\ s.index = r.index /\ s.events = r.events /\ s.asserts = r.asserts
      /\ \A x \in Events : x # at => s.fd[x] = r.fd[x]
  BY <1>1, DeleteResult
<1> HIDE DEF s
<1>3. some \subseteq Events /\ \A x \in Conns : x \in some <=> x \in lv
  BY <1>1
<1>4. \A x \in Events : r.index[x] # "kNew" => x \in some
  BY Kinds DEF Core, Apart
<1>5. \A x \in some \cap Attempts : FALSE
  BY DEF Core, Trying
<1> HIDE DEF some
<1>6. CoreType(s, some, NoEvent, sk, cn, cs, tq)
  BY <1>2, <1>3 DEF Core, CoreType
<1>7. Trying(s, some, ct, NoEvent, sk)
  BY <1>5 DEF Core, Trying
<1>8. Apart(s, some, sk)
  <2>1. \A x \in Conns : s.fd[x] = r.fd[x]
    BY <1>1, <1>2, Kinds
  <2> QED BY <1>2, <1>3, <1>4, <2>1 DEF Core, Apart
<1>9. Kept(s, some, ct, cn, cs)
  <2>1. cn # NoEvent => cn \in Conns
    BY DEF Core, CoreType
  <2> QED BY <1>2, <1>3, <2>1 DEF Core, Kept
<1>10. Queued(s, some, cn, cs, tq)
  BY <1>2, <1>3 DEF Core, Queued
<1>11. Core(s, some, ct, NoEvent, sk, cn, cs, tq)
  BY <1>2, <1>6, <1>7, <1>8, <1>9, <1>10 DEF Core
<1> QED BY <1>2, <1>11 DEF s, some

\* The posted disconnect(): the connection is removed from the Poller.
LEMMA RemoveResult ==
  ASSUME NEW r, NEW lv, NEW ct, NEW at, NEW sk, NEW cn, NEW cs, NEW tq,
         Core(r, lv, ct, at, sk, cn, cs, tq),
         NEW c \in lv \cap Conns, c # cn, r.events[c] = {}
  PROVE  /\ Core(RemoveEvent(r, c), lv, ct, at, sk, cn, cs, tq)
         /\ RemoveEvent(r, c).index[c] = "kNew"
         /\ \A x \in Events : x # c => RemoveEvent(r, c).index[x] = r.index[x]
         /\ RemoveEvent(r, c).fd = r.fd
         /\ r.index[c] # "kNew" => RemoveEvent(r, c).asserts = r.asserts
<1> DEFINE s == RemoveEvent(r, c)
<1>1. /\ r \in Registry /\ Linked(r) /\ lv \subseteq Events
      /\ c \in Conns /\ c \in Events /\ c \in lv /\ c # at
  BY Kinds DEF Core, CoreType
<1>2. r.index[c] = "kNew" => r.map[r.fd[c]] = NoEvent
  BY <1>1, OwnDescriptor
<1>3. /\ s \in Registry /\ Linked(s)
      /\ s.index = [r.index EXCEPT ![c] = "kNew"]
      /\ s.events = r.events /\ s.fd = r.fd
      /\ r.index[c] # "kNew" => s.asserts = r.asserts
  BY <1>1, <1>2, RemovedResult
<1> HIDE DEF s
<1>4. s.index[c] = "kNew" /\ \A x \in Events : x # c => s.index[x] = r.index[x]
  BY <1>1, <1>3, RegistryFields
<1>5. CoreType(s, lv, at, sk, cn, cs, tq)
  BY <1>3 DEF Core, CoreType
<1>6. Trying(s, lv, ct, at, sk)
  BY <1>1, <1>3, <1>4 DEF Core, Trying
<1>7. Apart(s, lv, sk)
  <2>1. \A x \in Events : s.index[x] # "kNew" => x \in lv
    BY <1>4 DEF Core, Apart
  <2> QED BY <1>3, <2>1 DEF Core, Apart
<1>8. Kept(s, lv, ct, cn, cs)
  <2>1. cn # NoEvent => s.index[cn] = r.index[cn]
    BY <1>4, Kinds DEF Core, CoreType
  <2> QED BY <2>1 DEF Core, Kept
<1>9. Queued(s, lv, cn, cs, tq)
  BY <1>3 DEF Core, Queued
<1>10. Core(s, lv, ct, at, sk, cn, cs, tq)
  BY <1>3, <1>5, <1>6, <1>7, <1>8, <1>9 DEF Core
<1> QED BY <1>3, <1>4, <1>10 DEF s

\* Nobody points to the connection any more: it is deleted, its socket closed.
LEMMA DestroyResult ==
  ASSUME NEW r, NEW lv, NEW ct, NEW at, NEW sk, NEW cn, NEW cs, NEW tq,
         Core(r, lv, ct, at, sk, cn, cs, tq),
         NEW c \in lv \cap Conns, c # cn, r.index[c] = "kNew", ~InSeq(c, tq)
  PROVE  LET s == Delete(CloseFd(r, r.fd[c]), c)
         IN /\ Core(s, lv \ {c}, ct, at, sk, cn, [cs EXCEPT ![c] = "Connecting"], tq)
            /\ s.index = r.index
            /\ s.asserts = r.asserts
<1> DEFINE p == CloseFd(r, r.fd[c])
           s == Delete(p, c)
           some == lv \ {c}
           now == [cs EXCEPT ![c] = "Connecting"]
<1>1. /\ r \in Registry /\ Linked(r) /\ lv \subseteq Events
      /\ c \in Conns /\ c \in Events /\ c \in lv /\ c # at /\ c # NoEvent
  BY Kinds DEF Core, CoreType
<1>2. r.fd[c] \in Fds /\ \A x \in Events : r.index[x] # "kNew" => r.fd[x] # r.fd[c]
  <2>1. \A x \in Events : r.index[x] # "kNew" /\ r.fd[x] = r.fd[c] => x = c
    BY <1>1, OwnDescriptor
  <2>2. r.fd[c] \in Fds
    BY <1>1, RegistryFields
  <2> QED BY <2>1, <2>2
<1>3. Keeps(r, p)
  BY <1>1, <1>2, CloseFdResult
<1> HIDE DEF p
<1>4. /\ p \in Registry /\ Linked(p) /\ p.index = r.index /\ p.events = r.events
      /\ p.fd = r.fd /\ p.asserts = r.asserts
  BY <1>3 DEF Keeps
<1>5. /\ s \in Registry /\ Linked(s)
      /\ s.index = r.index /\ s.events = r.events /\ s.asserts = r.asserts
      /\ \A x \in Events : x # c => s.fd[x] = r.fd[x]
  BY <1>1, <1>4, DeleteResult
<1> HIDE DEF s
<1>6. some \subseteq Events /\ \A x \in Events : x \in some <=> x \in lv /\ x # c
  BY <1>1
<1>7. \A x \in Events : r.index[x] # "kNew" => x \in some
  BY <1>6 DEF Core, Apart
<1> HIDE DEF some
<1>8. now \in [Conns -> ConnStates] /\ now[c] # "Connected" /\ \A x \in Conns : x # c => now[x] = cs[x]
  BY DEF Core, CoreType, ConnStates
<1> HIDE DEF now
<1>9. CoreType(s, some, at, sk, cn, now, tq)
  BY <1>5, <1>6, <1>8 DEF Core, CoreType
<1>10. Trying(s, some, ct, at, sk)
  <2>1. at # NoEvent => at \in some /\ s.fd[at] = r.fd[at]
    BY <1>1, <1>5, <1>6, Kinds DEF Core, CoreType, Trying
  <2> QED BY <1>1, <1>5, <1>6, <2>1 DEF Core, Trying
<1>11. Apart(s, some, sk)
  <2>1. \A x \in some : x \in lv /\ s.fd[x] = r.fd[x]
    BY <1>5, <1>6
  <2> QED BY <1>5, <1>7, <2>1 DEF Core, Apart
<1>12. Kept(s, some, ct, cn, now)
  <2>1. cn # NoEvent => cn \in some /\ now[cn] = cs[cn]
    BY <1>1, <1>6, <1>8, Kinds DEF Core, CoreType, Kept
  <2>2. \A x \in some \cap Conns : x \in lv /\ now[x] = cs[x]
    BY <1>6, <1>8
  <2> QED BY <1>5, <2>1, <2>2 DEF Core, Kept
<1>13. Queued(s, some, cn, now, tq)
  <2>1. \A i \in 1 .. Len(tq) : tq[i] # c
    BY DEF InSeq
  <2>2. \A i \in 1 .. Len(tq) : tq[i] \in Conns => tq[i] \in some /\ now[tq[i]] = cs[tq[i]]
    BY <1>6, <1>8, <2>1, Kinds DEF Core, Queued
  <2> QED BY <1>5, <2>2 DEF Core, Queued
<1>14. Core(s, some, ct, at, sk, cn, now, tq)
  BY <1>5, <1>9, <1>10, <1>11, <1>12, <1>13 DEF Core
<1> QED BY <1>5, <1>14 DEF s, p, some, now

-----------------------------------------------------------------------------
(* The states.                                                             *)

LEMMA ClientTypes ==
  ASSUME RestType, ClientCore
  PROVE  ClientTypeOK
BY DEF RestType, ClientCore, Core, CoreType, Trying, ClientTypeOK, TypeOK

LEMMA CallTails ==
  ASSUME NEW s \in CallSeqs, s # <<>>
  PROVE  /\ Tail(s) \in {<<>>, <<"write">>} /\ Tail(s) \in CallSeqs
         /\ Tail(s) \in Seq(Callbacks)
         /\ Head(s) = "write" => Tail(s) = <<>>
         /\ Head(s) # "write" => s # <<"write">>
<1>1. /\ Head(<<"close">>) = "close" /\ Tail(<<"close">>) = <<>>
      /\ Head(<<"read">>) = "read" /\ Tail(<<"read">>) = <<>>
  OBVIOUS
<1>2. /\ Head(<<"close", "write">>) = "close" /\ Tail(<<"close", "write">>) = <<"write">>
      /\ Head(<<"read", "write">>) = "read" /\ Tail(<<"read", "write">>) = <<"write">>
  OBVIOUS
<1>3. Head(<<"write">>) = "write" /\ Tail(<<"write">>) = <<>>
  OBVIOUS
<1>4. <<"write">> \in Seq(Callbacks) /\ <<>> \in Seq(Callbacks)
  BY DEF Callbacks
<1>5. Tail(s) \in {<<>>, <<"write">>} /\ (Head(s) = "write" => s = <<"write">>)
  BY <1>1, <1>2, <1>3, Zenon DEF CallSeqs
<1>6. Tail(s) \in CallSeqs /\ Tail(s) \in Seq(Callbacks)
  BY <1>4, <1>5 DEF CallSeqs
<1> QED BY <1>3, <1>5, <1>6

\* The event whose callbacks run is the first one.
LEMMA HandledFirst ==
  ASSUME RestType, Where, phase = "incallback"
  PROVE  /\ active # <<>> /\ active \in Seq(Events)
         /\ Head(active) = active[1] /\ 1 \in 1 .. Len(active) /\ Head(active) \in Events
<1>1. active # <<>> /\ active \in Seq(Events)
  BY DEF RestType, Where
<1> QED BY <1>1, TailElements

LEMMA RunsFacts ==
  ASSUME RestType, Where, NEW e, NEW callback, Runs(e, callback)
  PROVE  /\ phase = "incallback" /\ frame = "none"
         /\ calls # <<>> /\ calls \in CallSeqs
         /\ callback # "write" => calls # <<"write">> /\ Waits(1)
         /\ callback = "write" => Tail(calls) = <<>>
         /\ active # <<>> /\ active \in Seq(Events)
         /\ e = active[1] /\ 1 \in 1 .. Len(active) /\ e \in Events
<1>1. /\ phase = "incallback" /\ frame = "none" /\ calls # <<>>
      /\ Head(calls) = callback /\ Head(active) = e
  BY DEF Runs
<1>2. calls \in CallSeqs
  BY DEF Where
<1>3. /\ callback # "write" => calls # <<"write">>
      /\ callback = "write" => Tail(calls) = <<>>
  BY <1>1, <1>2, CallTails
<1>4. callback # "write" => Waits(1)
  BY <1>1, <1>3 DEF Waits
<1> QED BY <1>1, <1>2, <1>3, <1>4, HandledFirst

\* What the core says of the client's connection.
LEMMA CoreOne ==
  ASSUME ClientCore
  PROVE  /\ connection # NoEvent => connector = "Connected" /\ connection \in live
         /\ \A c \in LiveConns : cstate[c] = "Connected" => connection = c
BY DEF ClientCore, Core, Kept, LiveConns

LEMMA GoodOne ==
  ASSUME RestType, Good
  PROVE  OneConnection
<1>1. ClientCore /\ Where
  BY DEF Good
<1>2. ASSUME NEW c \in LiveConns, Runs(c, "close") \/ Runs(c, "read")
      PROVE  connection \in {c, NoEvent}
  <2>1. c \in Conns
    BY DEF LiveConns
  <2>2. c = active[1] /\ 1 \in 1 .. Len(active) /\ Waits(1)
    BY <1>1, <1>2, RunsFacts
  <2>3. CASE cause = "closedLate"
    BY <2>3 DEF Good, Late
  <2>4. CASE cause # "closedLate"
    BY <2>1, <2>2, <2>4 DEF Good, Reported
  <2> QED BY <2>3, <2>4
<1> QED BY <1>1, <1>2, CoreOne DEF OneConnection

-----------------------------------------------------------------------------
(* Every action keeps it.  First the loop's own.                           *)

\* A step of the loop's thread that takes it elsewhere, outside of callbacks.
LEMMA ElsewhereKeeps ==
  ASSUME RestType, Good, phase # "incallback",
         phase' \in Phases \ {"aborted", "incallback", "task"},
         phase' = "intask" => taskQueue' # <<>>,
         keepRunning' \in BOOLEAN, poolUp' \in BOOLEAN,
         ClientCore', ClientOnce => ClientOnce',
         UNCHANGED <<reg, live, doomed, loopVars, netVars>>
  PROVE  RestType' /\ Good'
<1>1. RestType'
  BY DEF RestType, loopVars, netVars
<1>2. Where'
  BY DEF Good, Where, loopVars, netVars
<1>3. Late => Late'
  BY DEF Late, netVars
<1>4. ASSUME Reported PROVE Reported'
  <2>1. \A i \in 1 .. Len(active) : Waits(i)
    BY DEF Waits
  <2> QED BY <1>4, <2>1 DEF Reported, loopVars, netVars
<1> QED BY <1>1, <1>2, <1>3, <1>4 DEF Good, netVars

LEMMA ThreadKeeps ==
  ASSUME RestType, Good, UNCHANGED netVars,
         NoTask \/ StartTask \/ EndIteration \/ (~poolUp /\ RunLoop)
  PROVE  RestType' /\ Good'
<1>1. UNCHANGED <<reg, live, doomed, taskQueue, loopVars>> /\ phase # "incallback"
  BY DEF NoTask, StartTask, EndIteration, RunLoop
<1>2. /\ phase' \in Phases \ {"aborted", "incallback", "task"}
      /\ phase' = "intask" => taskQueue' # <<>>
      /\ keepRunning' \in BOOLEAN /\ poolUp' \in BOOLEAN
  BY DEF NoTask, StartTask, EndIteration, RunLoop, Phases, RestType
<1>3. ClientCore'
  BY <1>1 DEF Good, ClientCore, netVars
<1>4. ClientOnce => ClientOnce'
  BY <1>1 DEF ClientOnce, netVars
<1> QED BY <1>1, <1>2, <1>3, <1>4, ElsewhereKeeps

LEMMA TaskReturnsKeeps ==
  ASSUME RestType, Good, UNCHANGED netVars, TaskReturns
  PROVE  RestType' /\ Good'
<1>1. /\ phase = "intask" /\ phase' = "handle" /\ taskQueue' = Tail(taskQueue)
      /\ UNCHANGED <<reg, live, doomed, keepRunning, poolUp, loopVars, netVars>>
  BY DEF TaskReturns
<1>2. taskQueue # <<>>
  BY <1>1 DEF Good, Where
<1>3. ClientCore' /\ (ClientOnce => ClientOnce')
  BY <1>1, <1>2, PopResult DEF Good, ClientCore, ClientOnce, netVars
<1>4. /\ phase' \in Phases \ {"aborted", "incallback", "task"} /\ phase' # "intask"
      /\ keepRunning' \in BOOLEAN /\ poolUp' \in BOOLEAN
  BY <1>1 DEF Phases, RestType
<1> QED BY <1>1, <1>3, <1>4, ElsewhereKeeps

LEMMA TwoCalls ==
  ASSUME NEW S, NEW x \in S, NEW y \in S
  PROVE  <<x>> \o <<y>> = <<x, y>>
<1> DEFINE a == <<x>>
           b == <<y>>
           c == <<x, y>>
<1>1. a \in Seq(S) /\ Len(a) = 1 /\ a[1] = x /\ b \in Seq(S) /\ Len(b) = 1 /\ b[1] = y
  OBVIOUS
<1>2. c \in Seq(S) /\ Len(c) = 2 /\ c[1] = x /\ c[2] = y
  OBVIOUS
<1> HIDE DEF a, b, c
<1>3. /\ a \o b \in Seq(S) /\ Len(a \o b) = Len(a) + Len(b)
      /\ \A i \in 1 .. Len(a) + Len(b) :
           (a \o b)[i] = IF i <= Len(a) THEN a[i] ELSE b[i - Len(a)]
  BY <1>1, ConcatProperties, Zenon
<1>4. Len(a \o b) = 2
  BY <1>1, <1>3
<1>5. (a \o b)[1] = x /\ (a \o b)[2] = y
  BY <1>1, <1>3
<1>6. a \o b = c
  BY <1>2, <1>3, <1>4, <1>5, SeqEqual
<1> QED BY <1>6 DEF a, b, c

\* Of the callbacks only close, read and write come.
LEMMA CallsOf ==
  ASSUME NEW sig \in SUBSET {"IN", "OUT", "HUP"}
  PROVE  Calls(sig) \in CallSeqs
<1> DEFINE a == IF "HUP" \in sig /\ "IN" \notin sig THEN <<"close">> ELSE <<>>
           b == IF "IN" \in sig THEN <<"read">> ELSE <<>>
           d == IF "OUT" \in sig THEN <<"write">> ELSE <<>>
<1>1. "ERR" \notin sig /\ (sig \cap {"IN", "PRI", "RDHUP"} # {} <=> "IN" \in sig)
  OBVIOUS
<1>2. Calls(sig) = a \o <<>> \o b \o d
  BY <1>1 DEF Calls
<1>3. a \in {<<>>, <<"close">>} /\ b \in {<<>>, <<"read">>} /\ d \in {<<>>, <<"write">>}
      /\ (a = <<>> \/ b = <<>>)
  OBVIOUS
<1>4. {<<>>, <<"close">>, <<"read">>, <<"write">>} \subseteq Seq(Callbacks)
  BY DEF Callbacks
<1>5. \A x \in Seq(Callbacks) : <<>> \o x = x /\ x \o <<>> = x
  OBVIOUS
<1>6. /\ <<"close">> \o <<"write">> = <<"close", "write">>
      /\ <<"read">> \o <<"write">> = <<"read", "write">>
  <2>1. "close" \in Callbacks /\ "read" \in Callbacks /\ "write" \in Callbacks
    BY DEF Callbacks
  <2> QED BY <2>1, TwoCalls, Zenon
<1> HIDE DEF a, b, d
<1>7. a \o <<>> \o b \in {<<>>, <<"close">>, <<"read">>}
  <2>1. a \in Seq(Callbacks) /\ b \in Seq(Callbacks)
    BY <1>3, <1>4
  <2>2. a \o <<>> = a
    BY <1>5, <2>1
  <2>3. a \o b = b \/ a \o b = a
    BY <1>3, <1>5, <2>1
  <2> QED BY <1>3, <2>2, <2>3
<1>8. Calls(sig) \in {<<>>, <<"close">>, <<"read">>, <<"write">>,
                     <<"close">> \o <<"write">>, <<"read">> \o <<"write">>}
  BY <1>2, <1>3, <1>4, <1>5, <1>7, Zenon
<1> QED BY <1>6, <1>8 DEF CallSeqs

LEMMA ClientHandles ==
  ASSUME RestType, Good, HandleEvent, UNCHANGED netVars
  PROVE  RestType' /\ Good'
<1> DEFINE e == Head(active)
<1>1. /\ phase = "handle" /\ phase' = "incallback" /\ active # <<>>
      /\ calls' = Calls(revents[e])
      /\ UNCHANGED <<reg, live, doomed, taskQueue, keepRunning, poolUp, active, revents, locked, cap, netVars>>
  BY DEF HandleEvent
<1>2. e \in Events
  BY <1>1 DEF RestType
<1> HIDE DEF e
<1>3. calls' \in Seq(Callbacks) /\ calls' \in CallSeqs
  BY <1>1, <1>2, CallsType, CallsOf DEF Good, Where
<1>4. RestType'
  BY <1>1, <1>3 DEF RestType, Phases, netVars
<1>5. Where'
  BY <1>1, <1>3 DEF Good, Where, netVars
<1>6. Late => Late'
  BY <1>1 DEF Late, netVars
<1>7. ClientCore' /\ (ClientOnce => ClientOnce')
  BY <1>1 DEF Good, ClientCore, ClientOnce, netVars
<1>8. ASSUME Reported PROVE Reported'
  <2>1. \A i \in 1 .. Len(active) : Waits(i)
    BY <1>1 DEF Waits
  <2> QED BY <1>1, <1>8, <2>1 DEF Reported, netVars
<1> QED BY <1>1, <1>4, <1>5, <1>6, <1>7, <1>8 DEF Good, netVars

LEMMA CallbacksDoneKeeps ==
  ASSUME RestType, Good, CallbacksDone
  PROVE  RestType' /\ Good'
<1>1. Head(active) \notin OneShot
  BY ClientAssumption
<1>2. /\ phase = "incallback" /\ phase' = "handle" /\ calls' = <<>> /\ active' = Tail(active)
      /\ frame = "none"
      /\ UNCHANGED <<reg, live, doomed, taskQueue, keepRunning, poolUp, revents, locked, cap, netVars>>
  BY <1>1 DEF CallbacksDone, EventHandled
<1>3. /\ Tail(active) \in Seq(Events)
      /\ \A i \in 1 .. Len(Tail(active)) :
           i + 1 \in 1 .. Len(active) /\ Tail(active)[i] = active[i + 1]
  BY <1>2, HandledFirst, TailElements DEF Good
<1>4. RestType'
  BY <1>2, <1>3 DEF RestType, Phases, netVars
<1>5. Where'
  BY <1>2 DEF Good, Where, CallSeqs, netVars
<1>6. Late => Late'
  BY <1>2 DEF Late, netVars
<1>7. ClientCore' /\ (ClientOnce => ClientOnce')
  BY <1>2 DEF Good, ClientCore, ClientOnce, netVars
<1>8. ASSUME Reported PROVE Reported'
  <2>1. \A i \in 1 .. Len(active') : /\ i + 1 \in 1 .. Len(active) /\ i + 1 # 1
                                     /\ active'[i] = active[i + 1] /\ Waits(i + 1)
    BY <1>2, <1>3 DEF Waits
  <2>2. \A i, j \in 1 .. Len(active') : active'[i] = active'[j] => i + 1 = j + 1
    BY <1>8, <2>1 DEF Reported
  <2>3. \A i, j \in 1 .. Len(active') : i + 1 = j + 1 => i = j
    OBVIOUS
  <2> QED BY <1>2, <1>8, <2>1, <2>2, <2>3 DEF Reported, netVars
<1> QED BY <1>2, <1>4, <1>5, <1>6, <1>7, <1>8 DEF Good, netVars

\* A callback is done with: the application returns, or the library does.
LEMMA CallReturns ==
  ASSUME RestType, Good, phase = "incallback", calls # <<>>,
         calls' = Tail(calls), frame' = "none",
         client' = IF frame = "connected" THEN "Connected" ELSE client,
         peer' \in [Fds -> PeerStates],
         UNCHANGED <<reg, live, doomed, taskQueue, keepRunning, poolUp, phase, active, revents,
                     locked, cap, connector, attempt, sock, connection, cstate, recon, cause>>
  PROVE  RestType' /\ Good'
<1>1. calls' \in {<<>>, <<"write">>} /\ calls' \in CallSeqs /\ calls' \in Seq(Callbacks)
  BY CallTails DEF Good, Where
<1>2. RestType'
  BY <1>1 DEF RestType, Frames, ClientStates
<1>3. Where'
  BY <1>1 DEF Good, Where
<1>4. Late => Late'
  BY DEF Late
<1>5. ClientCore' /\ (ClientOnce => ClientOnce')
  BY DEF Good, ClientCore, ClientOnce
<1>6. ASSUME Reported PROVE Reported'
  <2>1. \A i \in 1 .. Len(active) : Waits(i)' => i # 1 /\ Waits(i)
    BY <1>1 DEF Waits
  <2> QED BY <1>6, <2>1 DEF Reported
<1> QED BY <1>2, <1>3, <1>4, <1>5, <1>6 DEF Good

LEMMA AppReturnsKeeps ==
  ASSUME RestType, Good, AppReturns
  PROVE  RestType' /\ Good'
<1>1. phase = "incallback" /\ calls # <<>>
  BY DEF AppReturns, Good, Where
<1>2. peer' \in [Fds -> PeerStates]
  BY DEF AppReturns, RestType
<1> QED BY <1>1, <1>2, CallReturns DEF AppReturns

LEMMA PassKeeps ==
  ASSUME RestType, Good, NEW e, NEW callback, Pass(e, callback)
  PROVE  RestType' /\ Good'
<1>1. phase = "incallback" /\ calls # <<>> /\ frame = "none"
  BY DEF Pass, Runs
<1>2. peer' \in [Fds -> PeerStates]
  BY DEF Pass, RestType, netVars
<1> QED BY <1>1, <1>2, CallReturns DEF Pass, netVars

LEMMA ReadResetKeeps ==
  ASSUME RestType, Good, NEW c \in Conns, ReadReset(c)
  PROVE  RestType' /\ Good'
<1>1. phase = "incallback" /\ calls # <<>> /\ frame = "none"
  BY DEF ReadReset, Runs
<1>2. peer' \in [Fds -> PeerStates]
  BY DEF ReadReset, RestType, PeerStates
<1> QED BY <1>1, <1>2, CallReturns DEF ReadReset

\* handleRead() calls the application back.
LEMMA ReadDataKeeps ==
  ASSUME RestType, Good, NEW c \in Conns, ReadData(c)
  PROVE  RestType' /\ Good'
<1>1. /\ Runs(c, "read") /\ frame' = "received"
      /\ peer' = [peer EXCEPT ![reg.fd[c]] = "quiet"]
      /\ UNCHANGED <<vars, connector, attempt, sock, client, connection, cstate, recon, cause>>
  BY DEF ReadData
<1>2. /\ phase = "incallback" /\ frame = "none" /\ calls # <<>>
      /\ c = active[1] /\ 1 \in 1 .. Len(active) /\ Waits(1)
  BY <1>1, RunsFacts DEF Good
<1>3. RestType'
  BY <1>1 DEF RestType, Frames, PeerStates, vars, loopVars
<1>4. Where'
  BY <1>1, <1>2 DEF Good, Where, vars, loopVars
<1>5. Late => Late'
  BY <1>1 DEF Late, vars, loopVars
<1>6. ClientCore' /\ (ClientOnce => ClientOnce')
  BY <1>1 DEF Good, ClientCore, ClientOnce, vars, loopVars
<1>7. ASSUME Reported PROVE Reported'
  <2>1. \A i \in 1 .. Len(active) : Waits(i)' => Waits(i)
    BY <1>1, <1>2 DEF Waits, vars, loopVars
  <2>2. active[1] \notin Attempts
    BY <1>2, Kinds
  <2> QED BY <1>1, <1>2, <1>7, <2>1, <2>2 DEF Reported, vars, loopVars
<1> QED BY <1>1, <1>3, <1>4, <1>5, <1>6, <1>7 DEF Good, vars, loopVars

-----------------------------------------------------------------------------
(* The application's calls, and the server's.                              *)

\* The application calls outside of the library, or from a callback of its own.
LEMMA CallFacts ==
  ASSUME RestType, Good, CanCall
  PROVE  phase # "task" /\ (phase = "incallback" => frame # "none")
BY DEF CanCall, Good, Where

\* One more task in the queue, at most, and the connector's event out of epoll.
LEMMA CallKeeps ==
  ASSUME RestType, Good, CanCall,
         ClientCore', ClientOnce => ClientOnce',
         client' \in {"Inited", "Connecting"} \cup {client}, cause' = cause,
         cause = "none" => reg'.asserts,
         taskQueue' = taskQueue \/ taskQueue' # <<>>,
         UNCHANGED <<live, doomed, keepRunning, poolUp, phase, loopVars,
                     connector, attempt, sock, connection, cstate, recon, frame, peer>>
  PROVE  RestType' /\ Good'
<1>1. phase # "task"
  BY CallFacts
<1>2. RestType'
  BY DEF RestType, ClientStates, loopVars
<1>3. Where'
  BY DEF Good, Where, loopVars
<1>4. Late => Late'
  BY DEF Late
<1>5. ASSUME Reported PROVE Reported'
  <2>1. \A i \in 1 .. Len(active) : Waits(i)' => Waits(i)
    BY DEF Waits, loopVars
  <2> QED BY <1>1, <1>5, <2>1 DEF Reported, loopVars
<1> QED BY <1>2, <1>3, <1>4, <1>5 DEF Good

LEMMA LoopCallKeeps ==
  ASSUME RestType, Good, LoopCall
  PROVE  RestType' /\ Good'
<1>1. /\ CanCall /\ taskQueue' = Append(taskQueue, AppTask)
      /\ UNCHANGED <<reg, live, doomed, keepRunning, poolUp, phase, loopVars, netVars>>
  BY DEF LoopCall, PostTask, Post
<1>2. AppTask \in (Events \cup {AppTask}) \ Conns
  BY Kinds
<1>3. ClientCore' /\ (ClientOnce => ClientOnce')
  BY <1>1, <1>2, PostResult DEF Good, ClientCore, ClientOnce, netVars
<1>4. taskQueue' # <<>>
  BY <1>1 DEF Good, ClientCore, Core, CoreType
<1>5. cause = "none" => reg'.asserts
  BY <1>1 DEF Good
<1> QED BY <1>1, <1>3, <1>4, <1>5, CallKeeps DEF netVars

LEMMA PeerActsKeeps ==
  ASSUME RestType, Good, PeerActs
  PROVE  RestType' /\ Good'
<1>1. UNCHANGED <<vars, connector, attempt, sock, client, connection, cstate, recon, frame, cause>>
  BY DEF PeerActs
<1>2. peer' \in [Fds -> PeerStates]
  BY DEF PeerActs, RestType, PeerStates
<1>3. RestType'
  BY <1>1, <1>2 DEF RestType, vars, loopVars
<1>4. Where' /\ (Late => Late')
  BY <1>1 DEF Good, Where, Late, vars, loopVars
<1>5. ClientCore' /\ (ClientOnce => ClientOnce')
  BY <1>1 DEF Good, ClientCore, ClientOnce, vars, loopVars
<1>6. Reported => Reported'
  BY <1>1 DEF Reported, Waits, vars, loopVars
<1> QED BY <1>1, <1>3, <1>4, <1>5, <1>6 DEF Good, vars, loopVars

\* A new attempt: what start() does when it connects.
Attempted(r, e, f) ==
  /\ reg' = Armed(Construct(Delete(CloseFd(r, sock), attempt), e, f), e)
  /\ live' = (live \ {attempt}) \cup {e}
  /\ revents' = Silent(attempt)
  /\ peer' = Quiet(sock)
  /\ attempt' = e /\ sock' = f
  /\ connector' = "Connecting"

LEMMA StartCases ==
  ASSUME NEW r, NEW state, ConnectorStart(r, state)
  PROVE  \/ connector' = state /\ reg' = r /\ UNCHANGED <<attempt, sock, live, revents, peer>>
         \/ /\ MayStart(state)
            /\ \E e \in Attempts \ live, f \in FreeFds : Attempted(r, e, f)
<1>1. CASE connector' = state /\ reg' = r /\ UNCHANGED <<attempt, sock, live, revents, peer>>
  BY <1>1
<1>2. CASE /\ MayStart(state) /\ FreeFds # {} /\ connector' = "Connecting"
           /\ \E e \in Attempts \ live, f \in {CHOOSE f \in FreeFds : TRUE} :
                /\ reg' = Armed(Construct(Delete(CloseFd(r, sock), attempt), e, f), e)
                /\ live' = (live \ {attempt}) \cup {e}
                /\ revents' = Silent(attempt)
                /\ peer' = Quiet(sock)
                /\ attempt' = e /\ sock' = f
  <2>1. (CHOOSE f \in FreeFds : TRUE) \in FreeFds
    BY <1>2
  <2> QED BY <1>2, <2>1 DEF Attempted
<1> QED BY <1>1, <1>2 DEF ConnectorStart

\* Its effect on the state, whatever registry it starts from.
LEMMA AttemptedResult ==
  ASSUME RestType, NEW r, NEW cn, NEW cs, NEW tq,
         Core(r, live, "Disconnected", attempt, sock, cn, cs, tq), r.fd = reg.fd,
         NEW e \in Attempts \ live, NEW f \in FreeFds, Attempted(r, e, f)
  PROVE  /\ Core(reg', live', connector', attempt', sock', cn, cs, tq)
         /\ ConnsSame(r, reg')
         /\ revents' \in [Events -> SUBSET Signals] /\ peer' \in [Fds -> PeerStates]
         /\ \A x \in Events : revents'[x] \subseteq revents[x]
         /\ \A x \in live \cap Conns : x \in live'
         /\ live' \cap Conns \subseteq live
         /\ cn = NoEvent
<1>1. f \in Fds /\ f # sock /\ \A c \in live \cap Conns : r.fd[c] # f
  BY DEF FreeFds, LiveConns
<1> DEFINE s == Armed(Construct(Delete(CloseFd(r, sock), attempt), e, f), e)
<1>2. /\ Core(s, (live \ {attempt}) \cup {e}, "Connecting", e, f, cn, cs, tq)
      /\ ConnsSame(r, s)
      /\ cn = NoEvent
  BY <1>1, StartResult
<1>3. reg' = s
  BY DEF Attempted
<1> HIDE DEF s
<1>4. Core(reg', live', connector', attempt', sock', cn, cs, tq)
  BY <1>2, <1>3 DEF Attempted
<1>5. revents' \in [Events -> SUBSET Signals] /\ \A x \in Events : revents'[x] \subseteq revents[x]
  BY DEF RestType, Attempted, Silent
<1>6. peer' \in [Fds -> PeerStates]
  BY DEF RestType, Attempted, Quiet, PeerStates
<1>7. attempt \notin Conns /\ e \notin Conns
  BY Kinds DEF Core, CoreType
<1>8. live' \cap Conns = live \cap Conns
  BY <1>7 DEF Attempted
<1> QED BY <1>2, <1>3, <1>4, <1>5, <1>6, <1>8

LEMMA StartClientKeeps ==
  ASSUME RestType, Good, StartClient
  PROVE  RestType' /\ Good'
<1>1. /\ CanCall /\ client' = "Connecting" /\ ConnectorStart(reg, connector)
      /\ UNCHANGED <<doomed, taskQueue, keepRunning, poolUp, phase, active, calls, locked, cap,
                     connection, cstate, recon, frame, cause>>
  BY DEF StartClient
<1>2. CASE reg' = reg /\ UNCHANGED <<connector, attempt, sock, live, revents, peer>>
  <2>1. ClientCore' /\ (ClientOnce => ClientOnce')
    BY <1>1, <1>2 DEF Good, ClientCore, ClientOnce
  <2>2. cause = "none" => reg'.asserts
    BY <1>2 DEF Good
  <2> QED BY <1>1, <1>2, <2>1, <2>2, CallKeeps DEF loopVars
<1>3. CASE MayStart(connector) /\ \E e \in Attempts \ live, f \in FreeFds : Attempted(reg, e, f)
  <2>1. connector = "Disconnected" /\ connector' = "Connecting"
    BY <1>3 DEF MayStart, Attempted
  <2>2. /\ Core(reg', live', connector', attempt', sock', connection, cstate, taskQueue)
        /\ \A x \in Conns : reg'.index[x] = reg.index[x]
        /\ reg'.asserts = reg.asserts
        /\ revents' \in [Events -> SUBSET Signals] /\ peer' \in [Fds -> PeerStates]
        /\ \A x \in Events : revents'[x] \subseteq revents[x]
        /\ \A x \in live \cap Conns : x \in live'
        /\ connection = NoEvent
    BY <1>3, <2>1, AttemptedResult DEF Good, ClientCore, ConnsSame
  <2>3. cause # "closedLate"
    BY <2>1 DEF Good, Late
  <2>4. phase # "task" /\ (phase = "incallback" => frame # "none")
    BY <1>1, CallFacts
  <2>5. RestType'
    BY <1>1, <2>2 DEF RestType, ClientStates
  <2>6. Where'
    <3>1. \A x \in Events : revents'[x] \subseteq {"IN", "OUT", "HUP"}
      BY <2>2 DEF Good, Where
    <3> QED BY <1>1, <3>1 DEF Good, Where
  <2>7. ClientCore'
    BY <1>1, <2>2 DEF ClientCore
  <2>8. ClientOnce'
    BY <1>1, <2>2, <2>3 DEF Good, ClientOnce, Once
  <2>9. Reported'
    <3>1. Reported /\ \A i \in 1 .. Len(active) : Waits(i)' => Waits(i)
      BY <1>1, <2>3 DEF Good, Waits
    <3>2. \A i \in 1 .. Len(active) : active[i] \notin Attempts /\ active[i] \in live \cap Conns
      <4>1. \A i \in 1 .. Len(active) : active[i] \notin Attempts
        BY <2>1, <2>4, <3>1 DEF Reported
      <4>2. \A i \in 1 .. Len(active) : active[i] \in Events /\ active[i] \in live
        BY <3>1 DEF Reported, RestType
      <4> QED BY <4>1, <4>2, Kinds
    <3> QED BY <1>1, <2>2, <2>4, <3>1, <3>2 DEF Reported
  <2> QED BY <1>1, <2>2, <2>3, <2>5, <2>6, <2>7, <2>8, <2>9 DEF Good
<1> QED BY <1>1, <1>2, <1>3, StartCases, Zenon

\* Stopping a client that is not connecting, or that has nothing to stop.
LEMMA StopConnectionKeeps ==
  ASSUME RestType, Good, StopClient, client = "Inited" \/ connector # "Connecting"
  PROVE  RestType' /\ Good'
<1> DEFINE parts == client = "Connected" /\ connection # NoEvent
<1>1. /\ CanCall /\ client' = "Inited"
      /\ reg' = IF parts THEN Disconnected(reg, connection) ELSE reg
      /\ cstate' = IF parts THEN Parted(connection) ELSE cstate
      /\ cause' = IF parts /\ cstate[connection] # "Connected" /\ cause = "none"
                    THEN "partedTwice" ELSE cause
      /\ UNCHANGED <<live, doomed, keepRunning, poolUp, phase, taskQueue, loopVars,
                     connector, attempt, sock, connection, recon, frame, peer>>
  BY DEF StopClient, ConnectorStop
<1>2. CASE ~parts
  <2>1. reg' = reg /\ cstate' = cstate /\ cause' = cause
    BY <1>1, <1>2
  <2>2. ClientCore' /\ (ClientOnce => ClientOnce')
    BY <1>1, <2>1 DEF Good, ClientCore, ClientOnce
  <2>3. cause = "none" => reg'.asserts
    BY <2>1 DEF Good
  <2> QED BY <1>1, <2>1, <2>2, <2>3, CallKeeps
<1>3. CASE parts
  <2> DEFINE on == cstate[connection] = "Connected"
             s == RemoveEvent(IF on THEN DisableAll(reg, connection) ELSE reg, connection)
             now == IF on THEN [cstate EXCEPT ![connection] = "Connecting"] ELSE cstate
  <2>1. reg' = s /\ cstate' = now
    BY <1>1, <1>3 DEF Disconnected, Parted
  <2>2. /\ Core(s, live, connector, attempt, sock, connection, now, taskQueue)
        /\ \A x \in Events : x # connection => s.index[x] = reg.index[x]
        /\ on => s.asserts = reg.asserts
    BY <1>3, PartResult DEF Good, ClientCore
  <2> HIDE DEF s, now
  <2>3. ClientCore'
    BY <1>1, <2>1, <2>2 DEF ClientCore
  <2>4. cause # "closedLate" /\ cause' # "closedLate"
    BY <1>1, <1>3 DEF Good, Late
  <2>5. phase # "task"
    BY <1>1, CallFacts
  <2>6. ClientOnce'
    <3>1. /\ Queued(reg, live, connection, cstate, taskQueue)
          /\ Once(reg, connection, taskQueue)
      BY <2>4 DEF Good, ClientCore, Core, ClientOnce
    <3>2. Once(s, connection, taskQueue)
      BY <2>2, <3>1, Kinds DEF Once, Queued
    <3> QED BY <1>1, <2>1, <3>2 DEF ClientOnce
  <2>7. Reported'
    <3>1. Reported /\ \A i \in 1 .. Len(active) : Waits(i)' => Waits(i)
      BY <1>1, <2>4 DEF Good, Waits, loopVars
    <3> QED BY <1>1, <2>5, <3>1 DEF Reported, loopVars
  <2>8. cause' = "none" => reg'.asserts
    BY <1>1, <1>3, <2>1, <2>2 DEF Good
  <2>9. RestType'
    BY <1>1 DEF RestType, ClientStates, Causes, loopVars
  <2>10. Where'
    BY <1>1 DEF Good, Where, loopVars
  <2> QED BY <2>3, <2>4, <2>6, <2>7, <2>8, <2>9, <2>10 DEF Good
<1> QED BY <1>2, <1>3

\* Stopping an attempt.
LEMMA StopAttemptKeeps ==
  ASSUME RestType, Good, StopClient, client # "Inited", connector = "Connecting",
         attempt # NoEvent
  PROVE  RestType' /\ Good'
<1>1. connection = NoEvent
  BY DEF Good, ClientCore, Core, Kept
<1>2. /\ CanCall /\ client' = "Inited" /\ cause' = cause
      /\ reg' = OutOfEpoll(reg, attempt)
      /\ taskQueue' = Append(taskQueue, ResetEvent)
      /\ UNCHANGED <<live, doomed, keepRunning, poolUp, phase, loopVars, cstate,
                     connector, attempt, sock, connection, recon, frame, peer>>
  BY <1>1 DEF StopClient, ConnectorStop, PostReset
<1> DEFINE s == OutOfEpoll(reg, attempt)
<1>3. "Connecting" \in ConnectorStates
  BY DEF ConnectorStates
<1>4. /\ Core(s, live, "Connecting", attempt, sock, connection, cstate, taskQueue)
      /\ Leaves(reg, attempt, s)
      /\ reg \in Registry /\ attempt \in Attempts
  BY <1>3, TakeOutResult, Zenon DEF Good, ClientCore
<1> HIDE DEF s
<1>5. ConnsSame(reg, s)
  BY <1>4, Kinds, RegistryFields DEF Leaves, ConnsSame
<1>6. ResetEvent \in (Events \cup {AppTask}) \ Conns
  BY <1>4, Kinds
<1>7. ClientOnce => Once(s, connection, taskQueue)
  BY <1>4, <1>5, Kinds DEF ClientOnce, Once, Core, Queued, ConnsSame
<1>8. ClientCore' /\ (ClientOnce => ClientOnce')
  BY <1>2, <1>4, <1>6, <1>7, PostResult DEF ClientCore, ClientOnce, s
<1>9. taskQueue' # <<>>
  BY <1>2, <1>6 DEF Good, ClientCore, Core, CoreType
<1>10. cause = "none" => reg'.asserts
  BY <1>2, <1>4 DEF Good, Leaves, s
<1> QED BY <1>2, <1>8, <1>9, <1>10, CallKeeps

\* A stop() that finds the connector Connecting without an event.
LEMMA StopFails ==
  ASSUME RestType, Good, StopClient, client # "Inited", connector = "Connecting",
         attempt = NoEvent
  PROVE  ClientTypeOK' /\ OneConnection' /\ cause' \in Faults
<1>1. /\ phase' = "aborted" /\ cause' = "nullEvent"
      /\ UNCHANGED <<reg, taskQueue, client, cstate, live, doomed, keepRunning, poolUp, loopVars,
                     connector, attempt, sock, connection, recon, frame, peer>>
  BY DEF StopClient
<1>2. ClientTypeOK'
  <2>1. ClientTypeOK
    BY ClientTypes DEF Good
  <2> QED BY <1>1, <2>1 DEF ClientTypeOK, TypeOK, Phases, Causes, Faults, loopVars
<1>3. OneConnection'
  BY <1>1, CoreOne DEF Good, OneConnection, LiveConns, Runs
<1> QED BY <1>1, <1>2, <1>3 DEF Faults

-----------------------------------------------------------------------------
(* The library's callbacks.                                                *)

\* handleWrite() of an attempt: nothing is reported but events of the
\* connector, of which there is one.
LEMMA WriteFacts ==
  ASSUME RestType, Good, Sound, NEW e \in Attempts, Runs(e, "write"), connector = "Connecting"
  PROVE  /\ phase = "incallback" /\ frame = "none" /\ calls # <<>> /\ Tail(calls) = <<>>
         /\ e = attempt /\ e \in live /\ active[1] = e /\ 1 \in 1 .. Len(active)
         /\ attempt # NoEvent /\ connection = NoEvent
         /\ ResetEvent \in (Events \cup {AppTask}) \ Conns
         /\ cause # "closedLate" /\ ClientOnce /\ Reported
         /\ \A i \in 1 .. Len(active) :
              active[i] \in Events /\ (active[i] \in Attempts => i = 1)
<1>1. /\ phase = "incallback" /\ frame = "none" /\ calls # <<>> /\ Tail(calls) = <<>>
      /\ e = active[1] /\ 1 \in 1 .. Len(active) /\ active \in Seq(Events)
  BY RunsFacts DEF Good
<1>2. \A i \in 1 .. Len(active) : active[i] \in live /\ active[i] \in Events
  BY <1>1 DEF Sound, NoUseAfterFree
<1>3. \A x \in live \cap Attempts : x = attempt
  BY DEF Good, ClientCore, Core, Trying
<1>4. e = attempt /\ e \in live /\ attempt # NoEvent
  BY <1>1, <1>2, <1>3, Kinds
<1>5. connection = NoEvent
  BY DEF Good, ClientCore, Core, Kept
<1>6. cause # "closedLate" /\ ClientOnce /\ Reported
  BY DEF Good, Late
<1>7. \A i \in 1 .. Len(active) : active[i] \in Attempts => i = 1
  BY <1>1, <1>2, <1>3, <1>4, <1>6 DEF Reported
<1>8. ResetEvent \in (Events \cup {AppTask}) \ Conns
  BY Kinds
<1> QED BY <1>1, <1>2, <1>4, <1>5, <1>6, <1>7, <1>8

\* It finds the connection established.
LEMMA EstablishedKeeps ==
  ASSUME RestType, Good, Sound, NEW e \in Attempts, NEW c \in Conns \ live, Established(e, c)
  PROVE  RestType' /\ Good'
<1> DEFINE s == EnableReading(Construct(OutOfEpoll(reg, attempt), c, sock), c)
           now == [cstate EXCEPT ![c] = "Connected"]
<1>1. /\ Runs(e, "write") /\ connector = "Connecting"
      /\ reg' = s /\ cstate' = now
      /\ taskQueue' = Append(taskQueue, ResetEvent)
      /\ connector' = "Connected"
      /\ live' = live \cup {c} /\ revents' = revents
      /\ connection' = c
      /\ sock' = NoFd /\ frame' = "connected"
      /\ UNCHANGED <<doomed, keepRunning, poolUp, phase, active, calls, locked, cap,
                     attempt, client, recon, peer, cause>>
  BY DEF Established, PostReset
<1>2. /\ phase = "incallback" /\ frame = "none" /\ calls # <<>>
      /\ attempt # NoEvent /\ connection = NoEvent
      /\ ResetEvent \in (Events \cup {AppTask}) \ Conns
      /\ cause # "closedLate" /\ ClientOnce /\ Reported
      /\ \A i \in 1 .. Len(active) :
           active[i] \in Events /\ (active[i] \in Attempts => i = 1)
  BY <1>1, WriteFacts
<1>3. /\ Core(s, live \cup {c}, "Connected", attempt, NoFd, c, now, taskQueue)
      /\ \A x \in Conns \ {c} : s.index[x] = reg.index[x]
      /\ s.asserts = reg.asserts
  BY <1>1, <1>2, EstablishResult DEF Good, ClientCore
<1> HIDE DEF s, now
<1>4. Once(s, c, taskQueue)
  <2>1. \A x \in Conns \ {c} : s.index[x] # "kAdded"
    BY <1>2, <1>3, Kinds DEF ClientOnce, Once
  <2>2. \A i \in 1 .. Len(taskQueue) : taskQueue[i] \in Conns => taskQueue[i] # c
    BY <1>3 DEF Core, Queued
  <2> QED BY <1>2, <1>3, <2>1, <2>2 DEF ClientOnce, Once
<1>5. ClientCore' /\ ClientOnce'
  BY <1>1, <1>2, <1>3, <1>4, PostResult DEF ClientCore, ClientOnce
<1>6. RestType'
  BY <1>1 DEF RestType, Frames
<1>7. Where'
  BY <1>1, <1>2 DEF Good, Where
<1>8. Reported'
  <2>1. \A i \in 1 .. Len(active) : Waits(i)' => Waits(i)
    BY <1>1, <1>2 DEF Waits
  <2>2. \A i \in 1 .. Len(active) : active[i] \in live /\ active[i] # c
    BY <1>2 DEF Reported
  <2>3. \A i \in 1 .. Len(active) : ~(active[i] \in Conns /\ Waits(i))
    BY <1>2, Kinds DEF Reported
  <2> QED BY <1>1, <1>2, <2>1, <2>2, <2>3 DEF Reported
<1>9. cause' # "closedLate" /\ (cause' = "none" => reg'.asserts)
  BY <1>1, <1>2, <1>3 DEF Good
<1> QED BY <1>5, <1>6, <1>7, <1>8, <1>9 DEF Good

\* It finds an error, and the new attempt fails.
LEMMA RetryFailsKeeps ==
  ASSUME RestType, Good, Sound, NEW e \in Attempts, Retry(e),
         connector' = "Disconnected", reg' = OutOfEpoll(reg, attempt),
         UNCHANGED <<attempt, sock, live, revents, peer>>
  PROVE  RestType' /\ Good'
<1> DEFINE s == OutOfEpoll(reg, attempt)
<1>1. /\ Runs(e, "write") /\ connector = "Connecting"
      /\ taskQueue' = Append(taskQueue, ResetEvent)
      /\ calls' = Tail(calls)
      /\ UNCHANGED <<doomed, keepRunning, poolUp, phase, active, locked, cap,
                     client, connection, cstate, recon, frame, cause>>
  BY DEF Retry, PostReset
<1>2. /\ phase = "incallback" /\ frame = "none" /\ Tail(calls) = <<>>
      /\ attempt # NoEvent /\ connection = NoEvent
      /\ ResetEvent \in (Events \cup {AppTask}) \ Conns
      /\ cause # "closedLate" /\ ClientOnce /\ Reported
      /\ \A i \in 1 .. Len(active) :
           active[i] \in Events /\ (active[i] \in Attempts => i = 1)
  BY <1>1, WriteFacts
<1>3. "Disconnected" \in ConnectorStates
  BY DEF ConnectorStates
<1>4. /\ Core(s, live, "Disconnected", attempt, sock, connection, cstate, taskQueue)
      /\ Leaves(reg, attempt, s)
      /\ reg \in Registry /\ attempt \in Attempts
  BY <1>1, <1>2, <1>3, TakeOutResult, Zenon DEF Good, ClientCore
<1> HIDE DEF s
<1>5. ConnsSame(reg, s)
  BY <1>4, Kinds, RegistryFields DEF Leaves, ConnsSame
<1>6. Once(s, connection, taskQueue)
  BY <1>2, <1>4, <1>5, Kinds DEF ClientOnce, Once, Core, Queued, ConnsSame
<1>7. ClientCore' /\ ClientOnce'
  BY <1>1, <1>2, <1>4, <1>6, PostResult DEF ClientCore, ClientOnce, s
<1>8. calls' \in CallSeqs /\ calls' \in Seq(Callbacks)
  <2>1. calls' = <<>>
    BY <1>1, <1>2, Zenon
  <2> QED BY <2>1 DEF CallSeqs
<1>9. RestType'
  BY <1>1, <1>8 DEF RestType
<1>10. Where'
  BY <1>1, <1>2, <1>8 DEF Good, Where
<1>11. Reported'
  <2>1. \A i \in 1 .. Len(active) : Waits(i)' => Waits(i)
    BY <1>1, <1>2 DEF Waits
  <2> QED BY <1>1, <1>2, <2>1 DEF Reported
<1>12. cause' # "closedLate" /\ (cause' = "none" => reg'.asserts)
  BY <1>1, <1>2, <1>4 DEF Good, Leaves, s
<1> QED BY <1>7, <1>9, <1>10, <1>11, <1>12 DEF Good

\* It finds an error, and connects again in the callback of the event it
\* deletes.
LEMMA RetryFails ==
  ASSUME RestType, Good, Sound, NEW e \in Attempts, Retry(e),
         NEW x \in Attempts \ live, NEW f \in FreeFds,
         Attempted(OutOfEpoll(reg, attempt), x, f)
  PROVE  ClientTypeOK' /\ OneConnection' /\ cause' \in Faults
<1> DEFINE s == OutOfEpoll(reg, attempt)
<1>1. /\ Runs(e, "write") /\ connector = "Connecting"
      /\ IF attempt' = attempt THEN UNCHANGED cause ELSE cause' = "ownCallback"
      /\ taskQueue' = Append(taskQueue, ResetEvent)
      /\ calls' = Tail(calls)
      /\ UNCHANGED <<doomed, keepRunning, poolUp, phase, active, locked, cap,
                     client, connection, cstate, recon, frame>>
  BY DEF Retry, PostReset
<1>2. /\ Tail(calls) = <<>> /\ e = attempt /\ e \in live
      /\ attempt # NoEvent /\ connection = NoEvent
      /\ ResetEvent \in (Events \cup {AppTask}) \ Conns
  BY <1>1, WriteFacts
<1>3. "Disconnected" \in ConnectorStates
  BY DEF ConnectorStates
<1>4. /\ Core(s, live, "Disconnected", attempt, sock, connection, cstate, taskQueue)
      /\ Leaves(reg, attempt, s)
  BY <1>1, <1>2, <1>3, TakeOutResult, Zenon DEF Good, ClientCore
<1> HIDE DEF s
<1>5. s.fd = reg.fd /\ Attempted(s, x, f)
  BY <1>4 DEF Leaves, s
<1>6. /\ Core(reg', live', connector', attempt', sock', connection, cstate, taskQueue)
      /\ revents' \in [Events -> SUBSET Signals] /\ peer' \in [Fds -> PeerStates]
  BY <1>4, <1>5, AttemptedResult
<1>7. ClientCore'
  BY <1>1, <1>2, <1>6, PostResult DEF ClientCore
<1>8. cause' = "ownCallback" /\ calls' = <<>>
  BY <1>1, <1>2, <1>5, Zenon DEF Attempted
<1>9. RestType'
  <2>1. calls' \in Seq(Callbacks) /\ cause' \in Causes
    BY <1>8 DEF Causes, Faults
  <2>2. doomed \subseteq Events /\ locked \in [Events -> BOOLEAN] /\ active \in Seq(Events)
    BY DEF RestType
  <2> QED BY <1>1, <1>6, <2>1, <2>2 DEF RestType
<1>10. ClientTypeOK' /\ OneConnection'
  <2>1. ClientTypeOK'
    BY <1>7, <1>9 DEF RestType, ClientCore, Core, CoreType, Trying, ClientTypeOK, TypeOK
  <2>2. \A c \in (LiveConns)' : cstate'[c] = "Connected" => connection' = c
    BY <1>7 DEF ClientCore, Core, Kept, LiveConns
  <2> QED BY <1>1, <1>2, <2>1, <2>2 DEF OneConnection
<1> QED BY <1>8, <1>10 DEF Faults

\* The connection that is closed is the client's own, unless one closed late
\* is closed again.
LEMMA CloseFacts ==
  ASSUME RestType, Good, Sound, NEW c \in Conns, HandleClose(c)
  PROVE  /\ phase = "incallback" /\ frame = "none" /\ calls # <<>>
         /\ c \in live \cap Conns /\ active[1] = c /\ 1 \in 1 .. Len(active)
         /\ connector = "Connected" /\ connection \in {c, NoEvent}
         /\ cause = "closedLate" => client # "Connected"
         /\ cause # "closedLate" =>
              /\ connection = c /\ ClientOnce /\ Reported
              /\ cstate[c] # "Connected" => client # "Connected"
              /\ cstate[c] = "Connected" => reg.index[c] = "kAdded"
              /\ \A i \in 1 .. Len(active) : i # 1 => active[i] \notin Conns
              /\ \A i \in 1 .. Len(active) : active[i] \notin Attempts
              /\ \A i \in 1 .. Len(active) : active[i] \in live /\ active[i] \in Events
<1>1. /\ phase = "incallback" /\ frame = "none" /\ calls # <<>>
      /\ c = active[1] /\ 1 \in 1 .. Len(active) /\ Waits(1) /\ active \in Seq(Events)
  BY RunsFacts DEF Good, HandleClose
<1>2. \A i \in 1 .. Len(active) : active[i] \in live /\ active[i] \in Events
  BY <1>1 DEF Sound, NoUseAfterFree
<1>3. c # NoEvent /\ c \notin Attempts
  BY Kinds
<1>4. CASE cause = "closedLate"
  BY <1>1, <1>2, <1>4 DEF Good, Late
<1>5. CASE cause # "closedLate"
  <2>1. ClientOnce /\ Reported /\ ClientCore
    BY <1>5 DEF Good
  <2>2. connection = c
    BY <1>1, <2>1 DEF Reported
  <2>3. /\ connector = "Connected" /\ cstate[c] # "Disconnected"
        /\ cstate[c] = "Connected" => reg.index[c] = "kAdded"
        /\ cstate[c] \in ConnStates
    BY <1>3, <2>1, <2>2 DEF ClientCore, Core, CoreType, Kept
  <2>4. cstate[c] # "Connected" => client # "Connected"
    BY <1>1, <2>1, <2>2, <2>3 DEF Reported, ConnStates
  <2>5. \A i \in 1 .. Len(active) : i # 1 => active[i] \notin Conns
    BY <1>1, <2>1, <2>2 DEF Reported, Waits
  <2>6. \A i \in 1 .. Len(active) : active[i] \notin Attempts
    BY <1>1, <1>3, <2>1, <2>3 DEF Reported
  <2> QED BY <1>1, <1>2, <1>5, <2>1, <2>2, <2>3, <2>4, <2>5, <2>6
<1> QED BY <1>4, <1>5

\* handleClose(), whether or not the connector starts again.
LEMMA CloseKeeps ==
  ASSUME RestType, Good, Sound, NEW c \in Conns, HandleClose(c)
  PROVE  RestType' /\ Good'
<1> DEFINE claim == cstate[c] = "Connected"
           s == DisableAll(Claim(reg, claim), c)
           now == [cstate EXCEPT ![c] = "Disconnected"]
           tq == Append(taskQueue, c)
<1>1. /\ cstate' = now /\ connection' = NoEvent /\ taskQueue' = tq
      /\ IF recon /\ client = "Connected"
           THEN ConnectorStart(s, "Disconnected")
           ELSE reg' = s /\ UNCHANGED <<connector, attempt, sock, live, revents, peer>>
      /\ frame' = "closed"
      /\ cause' = IF ~claim /\ cause \notin Faults THEN "closedLate" ELSE cause
      /\ UNCHANGED <<doomed, keepRunning, poolUp, phase, active, calls, locked, cap,
                     client, recon>>
  BY DEF HandleClose, Closed, PostDisconnect
<1> DEFINE Facts ==
      /\ phase = "incallback" /\ frame = "none" /\ calls # <<>>
      /\ c \in live \cap Conns /\ active[1] = c /\ 1 \in 1 .. Len(active)
      /\ connector = "Connected" /\ connection \in {c, NoEvent}
      /\ cause = "closedLate" => client # "Connected"
      /\ cause # "closedLate" =>
           /\ connection = c /\ ClientOnce /\ Reported
           /\ cstate[c] # "Connected" => client # "Connected"
           /\ cstate[c] = "Connected" => reg.index[c] = "kAdded"
           /\ \A i \in 1 .. Len(active) : i # 1 => active[i] \notin Conns
           /\ \A i \in 1 .. Len(active) : active[i] \notin Attempts
           /\ \A i \in 1 .. Len(active) : active[i] \in live /\ active[i] \in Events
<1>2. Facts
  BY CloseFacts
<1>3. claim \in BOOLEAN /\ cause \notin Faults
  BY DEF Sound
<1> HIDE DEF claim
<1>4. /\ Core(s, live, "Connected", attempt, sock, NoEvent, now, tq)
      /\ Core(s, live, "Disconnected", attempt, sock, NoEvent, now, tq)
      /\ Shuts(reg, c, s)
      /\ claim => s.asserts = reg.asserts
  <2>1. Core(reg, live, "Connected", attempt, sock, connection, cstate, taskQueue)
    BY <1>2 DEF Good, ClientCore
  <2>2. c \in live \cap Conns /\ connection \in {c, NoEvent}
    BY <1>2
  <2> QED BY <1>3, <2>1, <2>2, CloseResult
<1>5. \A i \in 1 .. Len(tq) :
        (i = Len(tq) /\ tq[i] = c) \/ (i \in 1 .. Len(taskQueue) /\ tq[i] = taskQueue[i])
  BY DEF Good, ClientCore, Core, CoreType
<1> HIDE DEF s, now, tq
<1>6. cause' # "closedLate" => cause # "closedLate" /\ claim /\ cause' = cause
  BY <1>1, <1>3
<1>7. ASSUME cause # "closedLate", claim
      PROVE  Once(s, NoEvent, tq)
  <2>1. /\ connection = c /\ reg.index[c] = "kAdded"
        /\ Once(reg, connection, taskQueue)
    BY <1>2, <1>7 DEF claim, ClientOnce
  <2>2. s.index[c] = "kDeleted" /\ \A x \in Events : x # c => s.index[x] = reg.index[x]
    BY <1>4, <2>1 DEF Shuts
  <2>3. \A x \in Conns : s.index[x] # "kAdded"
    BY <2>1, <2>2, Kinds DEF Once
  <2>4. \A i \in 1 .. Len(taskQueue) : taskQueue[i] \in Conns => taskQueue[i] # c
    BY <2>1 DEF Good, ClientCore, Core, Queued
  <2>5. \A i \in 1 .. Len(tq) : tq[i] \in Conns => s.index[tq[i]] = "kDeleted"
    BY <1>5, <2>1, <2>2, <2>4, Kinds DEF Once
  <2>6. \A i, j \in 1 .. Len(tq) : tq[i] = tq[j] /\ tq[i] \in Conns => i = j
    BY <1>2, <1>5, <2>1, <2>4 DEF Once
  <2> QED BY <2>3, <2>5, <2>6 DEF Once
<1> DEFINE Moved ==
      /\ Core(reg', live', connector', attempt', sock', NoEvent, now, tq)
      /\ \A x \in Conns : reg'.index[x] = s.index[x]
      /\ reg'.asserts = s.asserts
      /\ revents' \in [Events -> SUBSET Signals] /\ peer' \in [Fds -> PeerStates]
      /\ \A x \in Events : revents'[x] \subseteq {"IN", "OUT", "HUP"}
      /\ \A x \in live \cap Conns : x \in live'
      /\ connector' = "Connected" \/ (recon /\ client = "Connected")
<1>8. Moved
  <2>1. /\ revents \in [Events -> SUBSET Signals] /\ peer \in [Fds -> PeerStates]
        /\ \A x \in Events : revents[x] \subseteq {"IN", "OUT", "HUP"}
    BY DEF RestType, Good, Where
  <2>2. CASE reg' = s /\ UNCHANGED <<attempt, sock, live, revents, peer>>
             /\ (connector' = "Connected" \/ (connector' = "Disconnected" /\ recon /\ client = "Connected"))
    BY <1>4, <2>1, <2>2
  <2>3. CASE recon /\ client = "Connected" /\ \E x \in Attempts \ live, f \in FreeFds : Attempted(s, x, f)
    BY <1>4, <2>1, <2>3, AttemptedResult DEF ConnsSame, Shuts
  <2> QED BY <1>1, <1>2, <2>2, <2>3, StartCases, Zenon
<1>9. ClientCore'
  BY <1>1, <1>8 DEF ClientCore
<1>10. RestType'
  BY <1>1, <1>8 DEF RestType, Frames, Causes
<1>11. Where'
  BY <1>1, <1>2, <1>8 DEF Good, Where
<1>12. cause' = "closedLate" => Late'
  BY <1>1, <1>2, <1>3, <1>8 DEF Late, claim
<1>13. ASSUME cause' # "closedLate" PROVE ClientOnce'
  BY <1>1, <1>6, <1>7, <1>8, <1>13 DEF ClientOnce, Once
<1>14. ASSUME cause' # "closedLate" PROVE Reported'
  <2>1. /\ Reported
        /\ \A i \in 1 .. Len(active) : i # 1 => active[i] \notin Conns
        /\ \A i \in 1 .. Len(active) : active[i] \notin Attempts
        /\ \A i \in 1 .. Len(active) : active[i] \in live /\ active[i] \in Events
    BY <1>2, <1>6, <1>14
  <2>2. ~Waits(1)'
    BY <1>1, <1>2 DEF Waits
  <2>3. \A i \in 1 .. Len(active) : active[i] \in live' /\ active[i] # NoEvent
    BY <1>8, <2>1, Kinds
  <2> QED BY <1>1, <1>2, <2>1, <2>2, <2>3 DEF Reported
<1>15. cause' = "none" => reg'.asserts
  BY <1>4, <1>6, <1>8 DEF Good
<1> QED BY <1>9, <1>10, <1>11, <1>12, <1>13, <1>14, <1>15 DEF Good

-----------------------------------------------------------------------------
(* The posted tasks.                                                       *)

\* A task of the library, that has deleted no reported event.
LEMMA TaskKeeps ==
  ASSUME RestType, Good, phase = "task", TaskDone,
         ClientCore', cause # "closedLate" => ClientOnce',
         cause = "none" => reg'.asserts,
         revents' \in [Events -> SUBSET Signals],
         \A x \in Events : revents'[x] \subseteq revents[x],
         peer' \in [Fds -> PeerStates],
         cause # "closedLate" =>
           \A x \in live : reg.index[x] = "kAdded" => x \in live',
         connection # NoEvent => cstate'[connection] = cstate[connection],
         UNCHANGED <<connector, sock, client, connection, recon, frame, cause>>
  PROVE  RestType' /\ Good'
<1>1. /\ phase' = "handle"
      /\ UNCHANGED <<doomed, keepRunning, poolUp, active, calls, locked, cap>>
  BY DEF TaskDone
<1>2. frame = "none"
  BY DEF Good, Where
<1>3. RestType'
  BY <1>1 DEF RestType, Phases
<1>4. Where'
  <2>1. \A x \in Events : revents'[x] \subseteq {"IN", "OUT", "HUP"}
    BY DEF Good, Where
  <2> QED BY <1>1, <1>2, <2>1 DEF Good, Where
<1>5. Late => Late'
  BY DEF Late
<1>6. ASSUME cause # "closedLate" PROVE Reported'
  <2>1. Reported /\ \A i \in 1 .. Len(active) : Waits(i)
    BY <1>6 DEF Good, Waits
  <2>2. \A i \in 1 .. Len(active) : active[i] \in live' /\ active[i] # NoEvent
    BY <1>6, <2>1, Kinds DEF Reported, RestType
  <2> QED BY <1>1, <1>2, <2>1, <2>2 DEF Reported
<1> QED BY <1>3, <1>4, <1>5, <1>6 DEF Good

\* disconnect().
LEMMA DisconnectTaskKeeps ==
  ASSUME RestType, Good, DisconnectTask
  PROVE  RestType' /\ Good'
<1> DEFINE c == Head(taskQueue)
           tq == Tail(taskQueue)
           s == RemoveEvent(reg, c)
<1>1. /\ phase = "task" /\ taskQueue # <<>> /\ TaskDone /\ c \in Conns
      /\ UNCHANGED <<connector, attempt, sock, client, connection, recon, frame, cause>>
  BY DEF DisconnectTask
<1>2. /\ taskQueue \in Seq(Events \cup {AppTask}) /\ reg \in Registry
      /\ cstate \in [Conns -> ConnStates]
  BY DEF Good, ClientCore, Core, CoreType
<1>3. /\ c = taskQueue[1] /\ 1 \in 1 .. Len(taskQueue)
      /\ \A i \in 1 .. Len(tq) : i + 1 \in 1 .. Len(taskQueue) /\ tq[i] = taskQueue[i + 1]
  BY <1>1, <1>2, TailElements
<1>4. taskQueue' = tq
  BY <1>1 DEF TaskDone
<1> HIDE DEF c, tq
<1>5. /\ c \in live \cap Conns /\ c # connection /\ cstate[c] = "Disconnected"
      /\ reg.events[c] = {} /\ c \in Events
  BY <1>1, <1>3, Kinds DEF Good, ClientCore, Core, Queued
<1>6. Disconnected(reg, c) = s
  BY <1>5 DEF Disconnected
<1>7. /\ Core(s, live, connector, attempt, sock, connection, cstate, taskQueue)
      /\ s.index[c] = "kNew"
      /\ \A x \in Events : x # c => s.index[x] = reg.index[x]
      /\ s.fd = reg.fd
      /\ reg.index[c] # "kNew" => s.asserts = reg.asserts
  BY <1>5, RemoveResult DEF Good, ClientCore
<1> HIDE DEF s
<1>8. Core(s, live, connector, attempt, sock, connection, cstate, tq)
  BY <1>1, <1>7, PopResult DEF tq
<1>9. ASSUME cause # "closedLate"
      PROVE  reg.index[c] = "kDeleted" /\ ~InSeq(c, tq) /\ Once(s, connection, tq)
  <2>1. Once(reg, connection, taskQueue)
    BY <1>9 DEF Good, ClientOnce
  <2>2. reg.index[c] = "kDeleted"
    BY <1>3, <1>5, <2>1 DEF Once
  <2>3. \A i \in 1 .. Len(tq) : tq[i] # c
    <3> SUFFICES ASSUME NEW i \in 1 .. Len(tq), tq[i] = c PROVE FALSE
      OBVIOUS
    <3>1. i + 1 = 1
      BY <1>3, <1>5, <2>1 DEF Once
    <3> QED BY <3>1
  <2>4. Once(reg, connection, tq)
    BY <1>1, <2>1, PopResult DEF Good, ClientCore, tq
  <2>5. Once(s, connection, tq)
    BY <1>7, <2>3, <2>4, Kinds DEF Once
  <2> QED BY <2>2, <2>3, <2>5 DEF InSeq
<1>10. cause = "none" => s.asserts
  BY <1>7, <1>9 DEF Good
<1>11. CASE InSeq(c, tq)
  <2>1. reg' = s /\ UNCHANGED <<cstate, peer, live, revents>>
    BY <1>6, <1>11 DEF DisconnectTask, c, tq
  <2>2. ClientCore'
    BY <1>1, <1>4, <1>8, <2>1 DEF ClientCore
  <2>3. cause = "closedLate"
    BY <1>9, <1>11
  <2>4. revents' \in [Events -> SUBSET Signals] /\ peer' \in [Fds -> PeerStates]
    BY <2>1 DEF RestType
  <2> QED BY <1>1, <1>10, <2>1, <2>2, <2>3, <2>4, TaskKeeps
<1>12. CASE ~InSeq(c, tq)
  <2> DEFINE u == Delete(CloseFd(s, s.fd[c]), c)
             now == [cstate EXCEPT ![c] = "Connecting"]
  <2>1. /\ reg' = u /\ cstate' = now
        /\ peer' = Quiet(reg.fd[c]) /\ live' = live \ {c} /\ revents' = Silent(c)
    BY <1>6, <1>7, <1>12 DEF DisconnectTask, c, tq
  <2>2. /\ Core(u, live \ {c}, connector, attempt, sock, connection, now, tq)
        /\ u.index = s.index
        /\ u.asserts = s.asserts
    BY <1>5, <1>7, <1>8, <1>12, DestroyResult
  <2> HIDE DEF u
  <2>3. connection # NoEvent => cstate'[connection] = cstate[connection]
    BY <1>2, <1>5, <2>1 DEF now
  <2> HIDE DEF now
  <2>4. ClientCore'
    BY <1>1, <1>4, <2>1, <2>2 DEF ClientCore
  <2>5. cause # "closedLate" => ClientOnce'
    BY <1>1, <1>4, <1>9, <2>1, <2>2 DEF ClientOnce, Once
  <2>6. /\ revents' \in [Events -> SUBSET Signals] /\ peer' \in [Fds -> PeerStates]
        /\ \A x \in Events : revents'[x] \subseteq revents[x]
    BY <2>1 DEF RestType, Silent, Quiet, PeerStates
  <2>7. cause # "closedLate" => \A x \in live : reg.index[x] = "kAdded" => x \in live'
    BY <1>9, <2>1
  <2>8. cause = "none" => reg'.asserts
    BY <1>10, <2>1, <2>2
  <2> QED BY <1>1, <2>3, <2>4, <2>5, <2>6, <2>7, <2>8, TaskKeeps
<1> QED BY <1>11, <1>12

\* resetEvent() finds the event it was posted for, or none.
LEMMA ResetTaskKeeps ==
  ASSUME RestType, Good, ResetTask, attempt # NoEvent => reg.index[attempt] = "kNew"
  PROVE  RestType' /\ Good'
<1> DEFINE s == Delete(reg, attempt)
           tq == Tail(taskQueue)
<1>1. /\ phase = "task" /\ taskQueue # <<>> /\ TaskDone
      /\ live' = live \ {attempt} /\ revents' = Silent(attempt)
      /\ reg' = s /\ attempt' = NoEvent /\ cause' = cause /\ taskQueue' = tq
      /\ UNCHANGED <<connector, sock, client, connection, cstate, recon, frame, peer>>
  BY DEF ResetTask, TaskDone
<1>2. /\ Core(s, live \ {attempt}, connector, NoEvent, sock, connection, cstate, taskQueue)
      /\ s.index = reg.index
      /\ s.asserts = reg.asserts
  BY ForgetResult DEF Good, ClientCore
<1> HIDE DEF s
<1>3. Core(s, live \ {attempt}, connector, NoEvent, sock, connection, cstate, tq)
  BY <1>1, <1>2, PopResult
<1>4. ASSUME cause # "closedLate" PROVE Once(s, connection, tq)
  <2>1. Once(reg, connection, tq)
    BY <1>1, <1>4, PopResult DEF Good, ClientCore, ClientOnce
  <2> HIDE DEF tq
  <2> QED BY <1>2, <2>1 DEF Once
<1> HIDE DEF tq
<1>5. ClientCore'
  BY <1>1, <1>3 DEF ClientCore
<1>6. cause # "closedLate" => ClientOnce'
  BY <1>1, <1>4 DEF ClientOnce
<1>7. /\ revents' \in [Events -> SUBSET Signals] /\ peer' \in [Fds -> PeerStates]
      /\ \A x \in Events : revents'[x] \subseteq revents[x]
  BY <1>1 DEF RestType, Silent
<1>8. \A x \in live : reg.index[x] = "kAdded" => x \in live'
  <2>1. live \subseteq Events
    BY DEF Good, ClientCore, Core, CoreType
  <2> QED BY <1>1, <2>1, Kinds
<1>9. cause = "none" => reg'.asserts
  BY <1>1, <1>2 DEF Good
<1> QED BY <1>1, <1>5, <1>6, <1>7, <1>8, <1>9, TaskKeeps

\* It finds the event of a newer attempt.
LEMMA ResetFails ==
  ASSUME RestType, Good, ResetTask, attempt # NoEvent, reg.index[attempt] # "kNew"
  PROVE  ClientTypeOK' /\ OneConnection' /\ cause' \in Faults
<1>1. /\ phase' = "handle" /\ taskQueue # <<>> /\ taskQueue' = Tail(taskQueue)
      /\ live' = live \ {attempt} /\ revents' = Silent(attempt)
      /\ reg' = Construct(reg, attempt, AnyFd) /\ attempt' = NoEvent /\ cause' = "overtaken"
      /\ UNCHANGED <<doomed, keepRunning, poolUp, active, calls, locked, cap,
                     connector, sock, client, connection, cstate, recon, frame, peer>>
  BY DEF ResetTask, TaskDone, Delete
<1>2. ClientTypeOK /\ ClientCore
  BY ClientTypes DEF Good
<1>3. attempt \in Events /\ attempt \notin Conns /\ reg \in Registry
  BY <1>2, Kinds DEF ClientTypeOK, TypeOK
<1>4. reg' \in Registry
  <2>1. AnyFd \in Fds
    BY <1>3, RegistryFields DEF AnyFd
  <2> QED BY <1>1, <1>3, <2>1 DEF Construct, Registry, Indexes, Masks
<1>5. taskQueue' \in Seq(Events \cup {AppTask})
  BY <1>1, <1>2 DEF ClientTypeOK, TypeOK
<1>6. TypeOK'
  <2>1. revents' \in [Events -> SUBSET Signals]
    BY <1>1 DEF RestType, Silent
  <2> QED BY <1>1, <1>2, <1>4, <1>5, <2>1 DEF ClientTypeOK, TypeOK, Phases
<1>7. ClientTypeOK'
  BY <1>1, <1>2, <1>6 DEF ClientTypeOK, Causes, Faults
<1>8. OneConnection'
  <2>1. connection # attempt
    BY <1>2, <1>3 DEF ClientCore, Core, CoreType
  <2> QED BY <1>1, <1>2, <2>1, CoreOne DEF OneConnection, LiveConns, Runs
<1> QED BY <1>1, <1>7, <1>8 DEF Faults

-----------------------------------------------------------------------------
(* Polling.                                                                *)

LEMMA SigIn ==
  ASSUME RestType, NEW f \in Fds
  PROVE  Sig(f) \subseteq {"IN", "OUT", "HUP"} /\ Sig(f) \in SUBSET Signals
<1>1. peer[f] \in PeerStates
  BY DEF RestType
<1>2. Raw(peer[f]) \subseteq {"IN", "OUT", "HUP"}
  BY <1>1 DEF Raw, PeerStates
<1> QED BY <1>2, ClientAssumption DEF Sig

LEMMA ClientPollKeeps ==
  ASSUME RestType, Good, ClientPoll
  PROVE  RestType' /\ Good'
<1> DEFINE sig == [f \in Ready |-> Sig(f)]
<1>1. /\ phase = "poll" /\ UNCHANGED netVars /\ Report(Ready, sig)
  BY DEF ClientPoll
<1>2. PICK order \in Orders(Ready) : active' = [i \in DOMAIN order |-> reg.kptr[order[i]]]
  BY <1>1 DEF Report
<1>3. /\ revents' = [e \in Events |->
            IF \E f \in Ready : reg.kptr[f] = e THEN sig[reg.fd[e]] ELSE revents[e]]
      /\ Grow(Cardinality(Ready)) /\ phase' = "task"
      /\ UNCHANGED <<reg, live, doomed, taskQueue, keepRunning, poolUp, calls, locked>>
  BY <1>1 DEF Report
<1> DEFINE n == Cardinality(Ready)
<1>4. n \in Nat
  <2>1. Ready \subseteq Fds
    BY DEF Ready, Registered
  <2>2. IsFiniteSet(Ready)
    BY <2>1, ConstantsAssumption, FS_Subset
  <2> QED BY <2>2, FS_CardinalityType
<1>5. /\ order \in [1..n -> Ready]
      /\ \A i, j \in 1..n : order[i] = order[j] => i = j
      /\ active' = [i \in 1..n |-> reg.kptr[order[i]]]
  BY <1>2 DEF Orders
<1> HIDE DEF n
<1>6. ClientCore /\ reg \in Registry /\ Linked(reg)
  BY DEF Good, ClientCore, Core, CoreType
<1>7. \A f \in Ready : /\ f \in Fds
                       /\ reg.kptr[f] \in Events /\ reg.index[reg.kptr[f]] = "kAdded"
                       /\ reg.fd[reg.kptr[f]] = f
  BY <1>6, RegistryFields DEF Linked, Ready, Registered
<1>8. /\ active' \in Seq(Events) /\ Len(active') = n
      /\ \A i \in 1..n : order[i] \in Ready /\ active'[i] = reg.kptr[order[i]]
  BY <1>4, <1>5, <1>7
<1>9. \A f \in Ready : revents'[reg.kptr[f]] = Sig(f)
  <2> SUFFICES ASSUME NEW f \in Ready PROVE revents'[reg.kptr[f]] = Sig(f)
    OBVIOUS
  <2>1. sig[f] = Sig(f)
    OBVIOUS
  <2> HIDE DEF sig
  <2>2. reg.kptr[f] \in Events /\ reg.fd[reg.kptr[f]] = f
    BY <1>7
  <2> QED BY <1>3, <2>1, <2>2
<1>10. /\ revents' \in [Events -> SUBSET Signals]
       /\ \A e \in Events : revents'[e] \subseteq {"IN", "OUT", "HUP"}
  <2>1. \A e \in Events : (\E f \in Ready : reg.kptr[f] = e) =>
          revents'[e] \subseteq {"IN", "OUT", "HUP"} /\ revents'[e] \in SUBSET Signals
    BY <1>7, <1>9, SigIn
  <2>2. \A e \in Events : ~(\E f \in Ready : reg.kptr[f] = e) => revents'[e] = revents[e]
    BY <1>3
  <2>3. /\ revents \in [Events -> SUBSET Signals]
        /\ \A e \in Events : revents[e] \subseteq {"IN", "OUT", "HUP"}
    BY DEF RestType, Good, Where
  <2>4. \A e \in Events : revents'[e] \subseteq {"IN", "OUT", "HUP"} /\ revents'[e] \in SUBSET Signals
    BY <2>1, <2>2, <2>3
  <2>5. DOMAIN revents' = Events /\ revents' = [e \in DOMAIN revents' |-> revents'[e]]
    BY <1>3
  <2> HIDE DEF sig
  <2> QED BY <2>4, <2>5
<1>11. RestType'
  <2>1. cap' \in Nat \ {0}
    BY <1>3, <1>4 DEF Grow, RestType, n
  <2> QED BY <1>1, <1>3, <1>8, <1>10, <2>1 DEF RestType, Phases, netVars
<1>12. Where'
  BY <1>1, <1>3, <1>10 DEF Good, Where, netVars
<1>13. Late => Late'
  BY <1>1 DEF Late, netVars
<1>14. ClientCore' /\ (ClientOnce => ClientOnce')
  BY <1>1, <1>3 DEF Good, ClientCore, ClientOnce, netVars
<1>15. ASSUME ClientOnce PROVE Reported'
  <2>1. ASSUME NEW f \in Ready
        PROVE  /\ reg.kptr[f] \in live
               /\ reg.kptr[f] \in Conns => reg.kptr[f] = connection
               /\ reg.kptr[f] \in Attempts => connector = "Connecting"
               /\ reg.kptr[f] = connection => cstate[connection] # "Connecting"
    <3> DEFINE e == reg.kptr[f]
    <3>1. e \in Events /\ reg.index[e] = "kAdded"
      BY <1>7
    <3> HIDE DEF e
    <3>2. e \in live
      BY <1>6, <3>1 DEF ClientCore, Core, Apart
    <3>3. e \in Conns => e = connection
      BY <1>15, <3>1 DEF ClientOnce, Once
    <3>4. e \in Attempts => connector = "Connecting"
      <4>1. e \in Attempts => e = attempt /\ attempt # NoEvent
        BY <1>6, <3>1, <3>2, Kinds DEF ClientCore, Core, Trying
      <4> QED BY <1>6, <3>1, <4>1 DEF ClientCore, Core, Trying
    <3>5. e = connection => cstate[connection] # "Connecting"
      BY <1>6, <3>1, Kinds DEF ClientCore, Core, Kept
    <3> QED BY <3>2, <3>3, <3>4, <3>5 DEF e
  <2>2. \A i \in 1..n : \E f \in Ready : active'[i] = reg.kptr[f]
    BY <1>8
  <2>3. \A i \in 1..n : /\ active'[i] \in live /\ reg.index[active'[i]] = "kAdded"
                        /\ active'[i] \in Conns => active'[i] = connection
                        /\ active'[i] \in Attempts => connector = "Connecting"
                        /\ active'[i] = connection => cstate[connection] # "Connecting"
    BY <1>7, <2>1, <2>2
  <2>4. ASSUME NEW i \in 1..n, NEW j \in 1..n, active'[i] = active'[j]
        PROVE  i = j
    <3>1. order[i] = order[j]
      BY <1>7, <1>8, <2>4
    <3> QED BY <1>5, <3>1
  <2>5. frame = "none"
    BY <1>1 DEF Good, Where
  <2> HIDE DEF sig
  <2> QED BY <1>1, <1>3, <1>8, <2>3, <2>4, <2>5 DEF Reported, netVars
<1> QED BY <1>1, <1>3, <1>11, <1>12, <1>13, <1>14, <1>15 DEF Good, netVars

-----------------------------------------------------------------------------
(* The invariant is inductive.                                             *)

LEMMA ClientInitIInv == ClientInit => ClientIInv
<1> SUFFICES ASSUME ClientInit PROVE ClientIInv
  OBVIOUS
<1> DEFINE fd == [e \in Events |-> AnyFd]
<1>1. PICK g \in [Events -> Fds] : reg = EmptyRegistry(g)
  BY DEF ClientInit, Init
<1>2. reg \in Registry /\ Linked(reg) /\ reg.asserts
  BY <1>1, EmptyRegistryInv DEF RegInv
<1>3. \A e \in Events : reg.index[e] = "kNew"
  BY <1>1 DEF EmptyRegistry
<1>4. /\ live = {} /\ doomed = {} /\ active = <<>> /\ calls = <<>> /\ taskQueue = <<>>
      /\ phase = "idle" /\ connector = "Disconnected" /\ attempt = NoEvent /\ sock = NoFd
      /\ client = "Inited" /\ connection = NoEvent /\ frame = "none" /\ cause = "none"
      /\ cstate = [c \in Conns |-> "Connecting"]
      /\ revents = [e \in Events |-> {}] /\ locked = [e \in Events |-> FALSE]
      /\ peer = [f \in Fds |-> "quiet"]
      /\ keepRunning = TRUE /\ poolUp = FALSE /\ cap = InitialEntries /\ recon \in BOOLEAN
  BY DEF ClientInit, Init
<1>5. ClientCore
  <2>1. CoreType(reg, live, attempt, sock, connection, cstate, taskQueue)
    BY <1>2, <1>4 DEF CoreType, ConnStates
  <2>2. Trying(reg, live, connector, attempt, sock)
    BY <1>4 DEF Trying, ConnectorStates
  <2>3. Apart(reg, live, sock)
    BY <1>3, <1>4 DEF Apart
  <2>4. Kept(reg, live, connector, connection, cstate)
    BY <1>4 DEF Kept
  <2>5. Queued(reg, live, connection, cstate, taskQueue)
    BY <1>4 DEF Queued
  <2> QED BY <1>2, <2>1, <2>2, <2>3, <2>4, <2>5 DEF ClientCore, Core
<1>6. Where
  BY <1>4 DEF Where, CallSeqs
<1>7. ClientOnce /\ Reported
  <2>1. ClientOnce
    BY <1>3, <1>4, Kinds DEF ClientOnce, Once
  <2>2. Reported
    BY <1>4 DEF Reported
  <2> QED BY <2>1, <2>2
<1>8. RestType
  <2>1. /\ [e \in Events |-> {}] \in [Events -> SUBSET Signals]
        /\ [e \in Events |-> FALSE] \in [Events -> BOOLEAN]
    OBVIOUS
  <2>2. [f \in Fds |-> "quiet"] \in [Fds -> PeerStates]
    BY DEF PeerStates
  <2>3. <<>> \in Seq(Events) /\ <<>> \in Seq(Callbacks)
    OBVIOUS
  <2>4. /\ revents \in [Events -> SUBSET Signals] /\ locked \in [Events -> BOOLEAN]
        /\ peer \in [Fds -> PeerStates]
    BY <1>4, <2>1, <2>2, Zenon
  <2>5. active \in Seq(Events) /\ calls \in Seq(Callbacks)
    BY <1>4, <2>3, Zenon
  <2>6. doomed \subseteq Events /\ cap \in Nat \ {0}
    BY <1>4, ConstantsAssumption
  <2>7. phase \in Phases /\ client \in ClientStates /\ frame \in Frames /\ cause \in Causes
    BY <1>4 DEF Phases, ClientStates, Frames, Causes
  <2>8. keepRunning \in BOOLEAN /\ poolUp \in BOOLEAN /\ recon \in BOOLEAN
    BY <1>4
  <2> QED BY <2>4, <2>5, <2>6, <2>7, <2>8, Zenon DEF RestType
<1>9. Good
  BY <1>2, <1>4, <1>5, <1>6, <1>7 DEF Good
<1> QED BY <1>5, <1>8, <1>9, ClientTypes, GoodOne DEF ClientIInv

\* A step without a fault of the connector, and one with it.
Faulty == ClientTypeOK /\ OneConnection /\ cause \in Faults

LEMMA StepKeeps ==
  ASSUME RestType, Good, Sound, ClientStep
  PROVE  (RestType /\ Good)' \/ Faulty'
<1>1. CASE ClientPoll
  BY <1>1, ClientPollKeeps
<1>2. CASE UNCHANGED netVars /\ (NoTask \/ StartTask \/ TaskReturns \/ HandleEvent \/ EndIteration)
  BY <1>2, ThreadKeeps, TaskReturnsKeeps, ClientHandles
<1>3. CASE DisconnectTask
  BY <1>3, DisconnectTaskKeeps
<1>4. CASE ResetTask
  BY <1>4, ResetTaskKeeps, ResetFails DEF Faulty
<1>5. ASSUME NEW e \in Attempts,
             \/ Pass(e, "close") \/ Retry(e)
             \/ connector # "Connecting" /\ Pass(e, "write")
             \/ \E c \in Conns \ live : Established(e, c)
      PROVE  (RestType /\ Good)' \/ Faulty'
  <2>1. CASE Pass(e, "close") \/ Pass(e, "write")
    BY <2>1, PassKeeps
  <2>2. CASE Retry(e)
    <3>1. ConnectorStart(OutOfEpoll(reg, attempt), "Disconnected")
      BY <2>2 DEF Retry
    <3> DEFINE s == OutOfEpoll(reg, attempt)
    <3>2. CASE connector' = "Disconnected" /\ reg' = s /\ UNCHANGED <<attempt, sock, live, revents, peer>>
      BY <2>2, <3>2, RetryFailsKeeps
    <3>3. CASE \E x \in Attempts \ live, f \in FreeFds : Attempted(s, x, f)
      BY <2>2, <3>3, RetryFails DEF Faulty
    <3> QED BY <3>1, <3>2, <3>3, StartCases, Zenon
  <2>3. CASE \E c \in Conns \ live : Established(e, c)
    BY <2>3, EstablishedKeeps
  <2> QED BY <1>5, <2>1, <2>2, <2>3
<1>6. ASSUME NEW c \in Conns, ReadData(c) \/ ReadReset(c) \/ HandleClose(c)
      PROVE  (RestType /\ Good)'
  BY <1>6, ReadDataKeeps, ReadResetKeeps, CloseKeeps
<1>7. CASE AppReturns
  BY <1>7, AppReturnsKeeps
<1>8. CASE CallbacksDone
  BY <1>8, CallbacksDoneKeeps
<1> QED BY <1>1, <1>2, <1>3, <1>4, <1>5, <1>6, <1>7, <1>8 DEF ClientStep

LEMMA AppKeeps ==
  ASSUME RestType, Good, AppCalls
  PROVE  (RestType /\ Good)' \/ Faulty'
<1>1. CASE StartClient
  BY <1>1, StartClientKeeps
<1>2. CASE StopClient
  BY <1>2, StopConnectionKeeps, StopAttemptKeeps, StopFails DEF Faulty
<1>3. CASE LoopCall
  BY <1>3, LoopCallKeeps
<1>4. CASE UNCHANGED netVars /\ ~poolUp /\ RunLoop
  BY <1>4, ThreadKeeps
<1> QED BY <1>1, <1>2, <1>3, <1>4 DEF AppCalls

LEMMA GoodIInv == RestType /\ Good => ClientIInv
BY ClientTypes, GoodOne DEF ClientIInv, Good

LEMMA FaultyIInv == Faulty => ClientIInv
BY DEF Faulty, ClientIInv

LEMMA ClientNextKeeps ==
  ClientIInv /\ [ClientNext]_clientVars => (RestType /\ Good)' \/ Faulty' \/ UNCHANGED clientVars
<1> SUFFICES ASSUME ClientIInv, ClientNext
             PROVE  (RestType /\ Good)' \/ Faulty'
  BY DEF clientVars
<1>1. Sound
  BY DEF ClientNext
<1>2. RestType /\ Good
  BY <1>1 DEF ClientIInv, Sound, RestType, ClientTypeOK, TypeOK
<1> QED BY <1>1, <1>2, StepKeeps, AppKeeps, PeerActsKeeps DEF ClientNext

\* Nothing changes.
LEMMA ClientStutters == ClientIInv /\ UNCHANGED clientVars => ClientIInv'
<1> SUFFICES ASSUME ClientIInv, UNCHANGED clientVars PROVE ClientIInv'
  OBVIOUS
<1> USE DEF clientVars, vars, loopVars, netVars
<1>1. ClientTypeOK'
  BY DEF ClientIInv, ClientTypeOK, TypeOK
<1>2. OneConnection'
  BY DEF ClientIInv, OneConnection, LiveConns, Runs
<1>3. ClientCore /\ ClientOnce /\ Late /\ Where => ClientCore' /\ ClientOnce' /\ Late' /\ Where'
  BY DEF ClientCore, ClientOnce, Late, Where
<1>4. Good => Good'
  <2>1. (ClientCore => ClientCore') /\ (ClientOnce => ClientOnce')
    BY DEF ClientCore, ClientOnce
  <2>2. (Where => Where') /\ (Late => Late')
    BY DEF Where, Late
  <2>3. Reported => Reported'
    BY DEF Reported, Waits
  <2> QED BY <2>1, <2>2, <2>3 DEF Good
<1> QED BY <1>1, <1>2, <1>4 DEF ClientIInv

LEMMA ClientSpecIInv == ClientSpec => []ClientIInv
<1>1. ClientIInv /\ [ClientNext]_clientVars => ClientIInv'
  BY ClientNextKeeps, ClientStutters, GoodIInv, FaultyIInv, PTL
<1> QED BY <1>1, ClientInitIInv, PTL DEF ClientSpec

-----------------------------------------------------------------------------
(* The theorems.                                                           *)

\* OneConnection for every instance: the client keeps the connection that is
\* Connected and has none while it is connecting to another.
THEOREM OneConnectionHolds == ClientSpec => []OneConnection
<1>1. ClientIInv => OneConnection
  BY DEF ClientIInv
<1> QED BY <1>1, ClientSpecIInv, PTL

\* ClientRegistryAgrees for every instance: without a fault of the connector
\* the Poller and the kernel agree on every descriptor, and an assert fails
\* only for a known reason.
THEOREM ClientRegistryAgreesHolds == ClientSpec => []ClientRegistryAgrees
<1>1. ClientIInv => ClientRegistryAgrees
  <2> SUFFICES ASSUME ClientIInv PROVE ClientRegistryAgrees
    OBVIOUS
  <2>1. ClientTypeOK /\ (cause \notin Faults => Good)
    BY DEF ClientIInv
  <2>2. ASSUME Good PROVE RegistryAgrees /\ (cause = "none" => AssertsHold)
    <3>1. reg \in Registry /\ Linked(reg) /\ \A e \in Events : reg.index[e] # "kNew" => e \in live
      BY <2>2 DEF Good, ClientCore, Core, CoreType, Apart
    <3>2. \A f \in Fds : reg.map[f] # NoEvent => reg.map[f] \in live
      BY <3>1, RegistryFields DEF Linked
    <3>3. RegistryAgrees
      BY <3>1, <3>2 DEF RegistryAgrees, Linked
    <3> QED BY <2>2, <3>3 DEF Good, AssertsHold
  <2>3. cause = "none" => cause \notin Faults
    BY DEF Faults
  <2> QED BY <2>1, <2>2, <2>3 DEF ClientRegistryAgrees
<1> QED BY <1>1, ClientSpecIInv, PTL

\* FaultsExplained for every instance: the loop meets a deleted event, or the
\* connector a null pointer, for the four known reasons only.
THEOREM FaultsExplainedHolds == ClientSpec => []FaultsExplained
<1>1. ClientIInv => FaultsExplained
  <2> SUFFICES ASSUME ClientIInv, cause \notin Faults, cause # "closedLate"
               PROVE  NoUseAfterFree /\ phase # "aborted"
    BY DEF FaultsExplained
  <2>1. Good
    BY DEF ClientIInv
  <2> QED BY <2>1 DEF Good, Where, Reported, NoUseAfterFree
<1> QED BY <1>1, ClientSpecIInv, PTL

=============================================================================
