-------------------------- MODULE TcpServer_proofs --------------------------
(***************************************************************************)
(* Proofs about TcpServer serving clients in turn: its safety invariants   *)
(* for any number of connections, descriptors and queued tasks.            *)
(***************************************************************************)
EXTENDS TcpServer, EventLoop_proofs

-----------------------------------------------------------------------------
(* The inductive invariant.  What the registry, the connections and the    *)
(* task queue have to do with each other is stated of values, not of the   *)
(* variables: a handler is a composition of calls, and holds the facts in  *)
(* between too.                                                            *)

CoreType(r, lv, cs, cn, us, tq) ==
  /\ r \in Registry
  /\ lv \subseteq Events
  /\ cs \in [Conns -> ConnStates]
  /\ cn \subseteq lv \ {Acc} /\ us \subseteq lv \ {Acc}
  /\ tq \in Seq(Events \cup {AppTask})

\* A descriptor of its own for every connection and for the acceptor.
Sockets(r, lv, ac) ==
  /\ ac \in {"Inited", "Started"}
  /\ ac = "Started" <=> Acc \in lv
  /\ Acc \in lv => r.fd[Acc] = ListenFd
  /\ \A c \in lv \cap Conns : r.fd[c] # ListenFd
  /\ \A c, d \in lv \cap Conns : r.fd[c] = r.fd[d] => c = d

\* Only live events are registered.  A Connected connection is in the map and
\* is read; another one is out of epoll, and registered only as long as its
\* posted disconnect is to come.
Standing(r, lv, cs, cn, us, tq) ==
  /\ \A e \in Events : r.index[e] # "kNew" => e \in lv
  /\ \A c \in lv \cap Conns :
       /\ cs[c] = "Connected" =>
            /\ c \in cn
            /\ r.index[c] = "kAdded"
            /\ "read" \in r.events[c]
            /\ c \in us => "write" \in r.events[c]
       /\ r.index[c] # "kNew" /\ cs[c] # "Connected" =>
            /\ r.index[c] = "kDeleted"
            /\ InSeq(c, tq)
  /\ \A c \in cn : cs[c] # "Disconnected"

\* A queued task of the library closes a lost connection, once.
Closing(r, lv, cs, tq) ==
  /\ \A i \in 1..Len(tq) : tq[i] # AppTask =>
       /\ tq[i] \in lv \cap Conns
       /\ cs[tq[i]] = "Disconnected"
       /\ r.index[tq[i]] = "kDeleted"
  /\ \A i, j \in 1..Len(tq) : tq[i] = tq[j] /\ tq[i] # AppTask => i = j

Core(r, lv, ac, cs, cn, us, tq) ==
  /\ CoreType(r, lv, cs, cn, us, tq)
  /\ RegInv(r)
  /\ Sockets(r, lv, ac)
  /\ Standing(r, lv, cs, cn, us, tq)
  /\ Closing(r, lv, cs, tq)

\* One client is served or waits to be.
OneClient ==
  /\ backlog \in {0, 1}
  /\ backlog = 1 => \A c \in LiveConns : cstate[c] # "Connected"
  /\ \A c, d \in LiveConns : cstate[c] = "Connected" /\ cstate[d] = "Connected" => c = d

HasInput(sig) == sig \cap {"IN", "PRI", "RDHUP"} # {}

Awaits(c) == SomethingToRead(peer[reg.fd[c]], revents[c])

\* An event the loop has still to handle is alive; a connection among them is
\* Connected, and has something to read if poll has said so.
Reported ==
  /\ \A i \in 1..Len(active) :
       /\ active[i] \in live
       /\ active[i] \in Conns /\ (i = 1 => phase # "incallback") =>
            /\ cstate[active[i]] = "Connected"
            /\ HasInput(revents[active[i]]) => Awaits(active[i])
  /\ \A i, j \in 1..Len(active) : active[i] = active[j] => i = j

OneRead(s) == \A i, j \in 1..Len(s) : s[i] = "read" /\ s[j] = "read" => i = j

\* The application is called back from handleRead only; until then, the
\* connection to be read is Connected and has something to read.
CallingBack ==
  /\ phase = "intask" => taskQueue # <<>> /\ Head(taskQueue) = AppTask
  /\ arg # NoEvent =>
       /\ phase = "incallback"
       /\ calls # <<>> /\ Head(calls) = "read"
       /\ \A i \in 2..Len(active) : active[i] \notin Conns
  /\ phase = "incallback" =>
       /\ active # <<>>
       /\ OneRead(calls)
       /\ Head(active) \in Conns =>
            /\ Head(active) \in connections \/ InSeq(Head(active), taskQueue)
            /\ arg = NoEvent /\ InSeq("read", calls) =>
                 cstate[Head(active)] = "Connected" /\ Awaits(Head(active))

\* The types of the variables Core says nothing of.
RestType ==
  /\ doomed \subseteq Events
  /\ revents \in [Events -> SUBSET Signals]
  /\ locked \in [Events -> BOOLEAN]
  /\ active \in Seq(Events)
  /\ calls \in Seq(Callbacks)
  /\ keepRunning \in BOOLEAN
  /\ poolUp \in BOOLEAN
  /\ cap \in Nat \ {0}
  /\ phase \in Phases
  /\ held \subseteq live \ {Acc}
  /\ arg \in (live \ {Acc}) \cup {NoEvent}
  /\ peer \in [Fds -> PeerStates]
  /\ backlog \in 0..Cardinality(Conns)

ServerIInv ==
  /\ RestType
  /\ Core(reg, live, accState, cstate, connections, unsent, taskQueue)
  /\ OneClient
  /\ Reported
  /\ CallingBack

-----------------------------------------------------------------------------
(* The calls that make up the handlers.                                    *)

\* What the destructors do to a registry that no longer has the destroyed
\* connections in its interest list: nothing.
LEMMA DestroyResult ==
  ASSUME NEW r \in Registry, RegInv(r), NEW S \in SUBSET Events,
         \A d \in S, f \in Fds : r.kptr[f] # NoEvent => r.fd[d] # f
  PROVE  /\ Destroy(r, S) \in Registry
         /\ RegInv(Destroy(r, S))
         /\ Destroy(r, S).index = r.index
         /\ Destroy(r, S).events = r.events
         /\ Destroy(r, S).fd = r.fd
         /\ Destroy(r, S).map = r.map
<1> DEFINE s == Destroy(r, S)
           mask == [f \in Fds |-> IF f \in FdsOf(r, S) THEN {} ELSE r.kmask[f]]
<1>1. \A f \in Fds : r.kptr[f] # NoEvent => f \notin FdsOf(r, S)
  BY DEF FdsOf
<1>2. [f \in Fds |-> IF f \in FdsOf(r, S) THEN NoEvent ELSE r.kptr[f]] = r.kptr
  BY <1>1, RegistryFields
<1>3. s = [r EXCEPT !.kptr = r.kptr, !.kmask = mask]
  BY <1>2 DEF Destroy
<1>4. mask \in [Fds -> Masks] /\ \A f \in Fds : r.kptr[f] # NoEvent => mask[f] = r.kmask[f]
  BY <1>1, RegistryFields DEF Masks
<1> HIDE DEF s, mask
<1>5. /\ s.index = r.index /\ s.events = r.events /\ s.fd = r.fd /\ s.map = r.map
      /\ s.kptr = r.kptr /\ s.kmask = mask /\ s.asserts = r.asserts
      /\ s \in Registry
  BY <1>3, <1>4, RegistryFields DEF Registry
<1>6. RegInv(s)
  BY <1>4, <1>5 DEF RegInv, Linked
<1> QED BY <1>5, <1>6 DEF s

\* Whoever nobody points to any more, neither the map nor a task, has no
\* entry in the interest list.
LEMMA LostResult ==
  ASSUME NEW r, NEW lv, NEW ac, NEW cs, NEW cn, NEW us, NEW tq,
         Core(r, lv, ac, cs, cn, us, tq),
         NEW lost \in SUBSET (lv \cap Conns),
         \A d \in lost : d \notin cn /\ ~InSeq(d, tq)
  PROVE  /\ Core(Destroy(r, lost), lv \ lost, ac, cs, cn, us \ lost, tq)
         /\ Destroy(r, lost).fd = r.fd
         /\ Destroy(r, lost).map = r.map
         /\ \A d \in lost : cs[d] # "Connected" /\ r.index[d] = "kNew"
<1> DEFINE s == Destroy(r, lost)
<1>1. \A d \in lost : cs[d] # "Connected" /\ r.index[d] = "kNew"
  BY DEF Core, Standing
<1>2. r \in Registry /\ RegInv(r) /\ lost \subseteq Events /\ lv \subseteq Events
  BY DEF Core, CoreType, Conns
<1>3. ASSUME NEW d \in lost, NEW f \in Fds, r.kptr[f] # NoEvent
      PROVE  r.fd[d] # f
  <2> DEFINE e == r.kptr[f]
  <2>1. e \in Events /\ r.index[e] = "kAdded" /\ r.fd[e] = f
    BY <1>2, <1>3, RegistryFields DEF RegInv, Linked
  <2>2. e \in lv /\ e # d
    BY <1>1, <2>1 DEF Core, Standing
  <2> HIDE DEF e
  <2> QED BY <2>1, <2>2 DEF Core, Sockets, Conns
<1>4. /\ s \in Registry /\ RegInv(s)
      /\ s.index = r.index /\ s.events = r.events /\ s.fd = r.fd /\ s.map = r.map
  BY <1>2, <1>3, DestroyResult
<1> HIDE DEF s
<1>5. CoreType(s, lv \ lost, cs, cn, us \ lost, tq)
  BY <1>4 DEF Core, CoreType
<1>6. Sockets(s, lv \ lost, ac)
  BY <1>4 DEF Core, Sockets, Conns
<1>7. Standing(s, lv \ lost, cs, cn, us \ lost, tq)
  BY <1>1, <1>4 DEF Core, Standing
<1>8. Closing(s, lv \ lost, cs, tq)
  <2>1. \A i \in 1..Len(tq) : tq[i] \notin lost
    BY DEF InSeq
  <2> QED BY <1>4, <2>1 DEF Core, Closing
<1> QED BY <1>1, <1>4, <1>5, <1>6, <1>7, <1>8 DEF Core, s

\* Reading and writing of a Connected connection: SetEvents keeps it read, and
\* writing enabled as long as it has something to send.
LEMMA ArmResult ==
  ASSUME NEW r, NEW lv, NEW ac, NEW cs, NEW cn, NEW us, NEW tq,
         Core(r, lv, ac, cs, cn, us, tq),
         NEW c \in lv \cap Conns, cs[c] = "Connected",
         NEW mask \in Masks, "read" \in mask,
         NEW left \in SUBSET (lv \ {Acc}),
         left \ {c} = us \ {c}, c \in left => "write" \in mask
  PROVE  /\ Core(SetEvents(r, c, mask), lv, ac, cs, cn, left, tq)
         /\ SetEvents(r, c, mask).fd = r.fd
<1> DEFINE s == SetEvents(r, c, mask)
<1>1. r \in Registry /\ RegInv(r) /\ c \in Events /\ r.index[c] = "kAdded"
  BY DEF Core, CoreType, Standing, Conns
<1>2. Sets(r, c, mask, s)
  BY <1>1, SetEventsResult
<1> HIDE DEF s
<1>3. /\ s \in Registry /\ RegInv(s) /\ s.fd = r.fd
      /\ \A x \in Events \ {c} : s.index[x] = r.index[x]
      /\ s.events = [r.events EXCEPT ![c] = mask]
  BY <1>2, Zenon DEF Sets, Arms
<1>4. mask # {}
  OBVIOUS
<1>5. s.index[c] = "kAdded"
  BY <1>2, <1>4, Zenon DEF Sets, Arms
<1>6. s.index = r.index
  BY <1>1, <1>3, <1>5, RegistryFields
<1>7. s.events[c] = mask /\ \A x \in Events \ {c} : s.events[x] = r.events[x]
  BY <1>1, <1>3, RegistryFields
<1>8. CoreType(s, lv, cs, cn, left, tq)
  BY <1>3 DEF Core, CoreType
<1>9. Sockets(s, lv, ac) /\ Closing(s, lv, cs, tq)
  BY <1>3, <1>6 DEF Core, Sockets, Closing
<1>10. Standing(s, lv, cs, cn, left, tq)
  <2>1. \A d \in lv \cap Conns : d # c => s.events[d] = r.events[d] /\ (d \in left <=> d \in us)
    BY <1>7 DEF Conns
  <2> QED BY <1>6, <1>7, <2>1 DEF Core, Standing
<1> QED BY <1>3, <1>8, <1>9, <1>10 DEF Core, s

\* The application disconnects a Connected connection: it is out of epoll and
\* the map keeps it.
LEMMA DisconnectResult ==
  ASSUME NEW r, NEW lv, NEW ac, NEW cs, NEW cn, NEW us, NEW tq,
         Core(r, lv, ac, cs, cn, us, tq),
         NEW c \in lv \cap Conns, cs[c] = "Connected"
  PROVE  /\ Core(RemoveEvent(DisableAll(r, c), c), lv, ac, [cs EXCEPT ![c] = "Connecting"], cn, us, tq)
         /\ RemoveEvent(DisableAll(r, c), c).fd = r.fd
<1> DEFINE q == DisableAll(r, c)
           s == RemoveEvent(q, c)
           now == [cs EXCEPT ![c] = "Connecting"]
<1>1. r \in Registry /\ RegInv(r) /\ c \in Events /\ r.index[c] = "kAdded"
  BY DEF Core, CoreType, Standing, Conns
<1>2. Sets(r, c, {}, q)
  BY <1>1, SetEventsResult DEF DisableAll, Masks
<1> HIDE DEF q
<1>3. /\ q \in Registry /\ RegInv(q) /\ q.fd = r.fd
      /\ \A x \in Events \ {c} : q.index[x] = r.index[x]
      /\ q.events = [r.events EXCEPT ![c] = {}]
      /\ q.index[c] # "kNew"
  BY <1>2, Zenon DEF Sets, Arms
<1>4. q.events[c] = {} /\ \A x \in Events \ {c} : q.events[x] = r.events[x]
  BY <1>1, <1>3, RegistryFields
<1>5. /\ s \in Registry /\ RegInv(s) /\ s.fd = r.fd
      /\ s.index = [q.index EXCEPT ![c] = "kNew"]
      /\ s.events = q.events
  BY <1>1, <1>3, <1>4, RemoveEventResult
<1> HIDE DEF s
<1>6. s.index[c] = "kNew" /\ \A x \in Events \ {c} : s.index[x] = r.index[x]
  BY <1>1, <1>3, <1>5, RegistryFields
<1>7. /\ now \in [Conns -> ConnStates] /\ now[c] = "Connecting"
      /\ \A d \in Conns \ {c} : now[d] = cs[d]
  BY DEF Core, CoreType, ConnStates
<1> HIDE DEF now
<1>8. CoreType(s, lv, now, cn, us, tq)
  BY <1>5, <1>7 DEF Core, CoreType
<1>9. Sockets(s, lv, ac)
  BY <1>5 DEF Core, Sockets
<1>10. Standing(s, lv, now, cn, us, tq)
  <2>1. \A d \in lv \cap Conns : d # c => /\ s.index[d] = r.index[d] /\ s.events[d] = r.events[d]
                                          /\ now[d] = cs[d]
    BY <1>4, <1>5, <1>6, <1>7 DEF Conns
  <2>2. \A e \in Events : s.index[e] # "kNew" => e \in lv
    BY <1>6 DEF Core, Standing
  <2>3. \A d \in cn : now[d] # "Disconnected"
    BY <1>7 DEF Core, CoreType, Standing, Conns
  <2> QED BY <1>6, <1>7, <2>1, <2>2, <2>3 DEF Core, Standing
<1>11. Closing(s, lv, now, tq)
  <2>1. \A i \in 1..Len(tq) : tq[i] # AppTask => tq[i] \in Conns /\ tq[i] # c
    BY DEF Core, Closing
  <2> QED BY <1>6, <1>7, <2>1 DEF Core, Closing, Conns
<1> QED BY <1>5, <1>8, <1>9, <1>10, <1>11 DEF Core, s, q, now

\* A new connection is constructed on a descriptor, the address nobody uses.
LEMMA ConstructResult ==
  ASSUME NEW r, NEW lv, NEW ac, NEW cs, NEW cn, NEW us, NEW tq,
         Core(r, lv, ac, cs, cn, us, tq),
         NEW c \in Conns \ lv, NEW f \in Fds
  PROVE  /\ Core(Construct(r, c, f), lv, ac, cs, cn, us, tq)
         /\ Construct(r, c, f).fd = [r.fd EXCEPT ![c] = f]
         /\ Construct(r, c, f).map = r.map
<1> DEFINE s == Construct(r, c, f)
<1>1. r \in Registry /\ RegInv(r) /\ c \in Events /\ r.index[c] = "kNew" /\ c # Acc
  BY DEF Core, CoreType, Standing, Conns
<1>2. /\ s \in Registry /\ RegInv(s)
      /\ s.index = r.index /\ s.events = r.events /\ s.map = r.map
      /\ s.fd = [r.fd EXCEPT ![c] = f]
  BY <1>1, ConstructInv
<1>3. \A x \in Events \ {c} : s.fd[x] = r.fd[x]
  BY <1>1, <1>2, RegistryFields
<1> HIDE DEF s
<1>4. CoreType(s, lv, cs, cn, us, tq)
  BY <1>2 DEF Core, CoreType
<1>5. Sockets(s, lv, ac)
  <2>1. \A x \in lv : s.fd[x] = r.fd[x]
    BY <1>3 DEF Core, CoreType
  <2> QED BY <2>1 DEF Core, Sockets
<1>6. Standing(s, lv, cs, cn, us, tq) /\ Closing(s, lv, cs, tq)
  BY <1>2 DEF Core, Standing, Closing
<1> QED BY <1>2, <1>4, <1>5, <1>6 DEF Core, s

\* It is registered for reading and takes its place in the map.
LEMMA ServeResult ==
  ASSUME NEW r, NEW lv, NEW ac, NEW cs, NEW us, NEW tq,
         Core(r, lv, ac, cs, {}, us, tq),
         NEW c \in Conns \ lv,
         r.fd[c] # ListenFd, \A d \in lv \cap Conns : r.fd[d] # r.fd[c],
         r.map[r.fd[c]] = NoEvent
  PROVE  /\ Core(EnableReading(r, c), lv \cup {c}, ac, [cs EXCEPT ![c] = "Connected"],
                 {c}, us \ {c}, tq)
         /\ EnableReading(r, c).fd = r.fd
<1> DEFINE s == EnableReading(r, c)
           now == [cs EXCEPT ![c] = "Connected"]
           mask == r.events[c] \cup {"read"}
<1>1. r \in Registry /\ RegInv(r) /\ c \in Events /\ c # Acc /\ mask \in Masks /\ mask # {}
  BY RegistryFields DEF Core, CoreType, Conns, Masks
<1>2. Sets(r, c, mask, s)
  BY <1>1, SetEventsResult DEF EnableReading
<1>3. "read" \in mask
  OBVIOUS
<1> HIDE DEF s, mask
<1>4. /\ s \in Registry /\ RegInv(s) /\ s.fd = r.fd
      /\ \A x \in Events \ {c} : s.index[x] = r.index[x]
      /\ s.events = [r.events EXCEPT ![c] = mask]
  BY <1>2, Zenon DEF Sets, Arms
<1>5. s.index[c] = "kAdded"
  BY <1>1, <1>2, Zenon DEF Sets, Arms
<1>6. "read" \in s.events[c] /\ \A x \in Events \ {c} : s.events[x] = r.events[x]
  BY <1>1, <1>3, <1>4, RegistryFields
<1>7. /\ now \in [Conns -> ConnStates] /\ now[c] = "Connected"
      /\ \A d \in Conns \ {c} : now[d] = cs[d]
  BY DEF Core, CoreType, ConnStates
<1> HIDE DEF now
<1>8. CoreType(s, lv \cup {c}, now, {c}, us \ {c}, tq)
  BY <1>1, <1>4, <1>7 DEF Core, CoreType
<1>9. Sockets(s, lv \cup {c}, ac)
  BY <1>1, <1>4 DEF Core, Sockets
<1>10. Standing(s, lv \cup {c}, now, {c}, us \ {c}, tq)
  <2>1. \A d \in lv \cap Conns : /\ s.index[d] = r.index[d] /\ s.events[d] = r.events[d]
                                 /\ now[d] = cs[d] /\ cs[d] # "Connected"
    BY <1>4, <1>6, <1>7 DEF Core, Standing, Conns
  <2>2. \A e \in Events : s.index[e] # "kNew" => e \in lv \cup {c}
    BY <1>4 DEF Core, Standing
  <2> QED BY <1>5, <1>6, <1>7, <2>1, <2>2 DEF Core, Standing
<1>11. Closing(s, lv \cup {c}, now, tq)
  <2>1. \A i \in 1..Len(tq) : tq[i] # AppTask => tq[i] \in (lv \cap Conns) \ {c}
    BY DEF Core, Closing
  <2> QED BY <1>4, <1>7, <2>1 DEF Core, Closing, Conns
<1> QED BY <1>4, <1>8, <1>9, <1>10, <1>11 DEF Core, s, now

\* handleClose of the only Connected connection: it leaves epoll and the map,
\* a task is posted.
LEMMA CloseResult ==
  ASSUME NEW r, NEW lv, NEW ac, NEW cs, NEW cn, NEW us, NEW tq,
         Core(r, lv, ac, cs, cn, us, tq),
         NEW c \in lv \cap Conns, cs[c] = "Connected",
         \A d \in lv \cap Conns : cs[d] = "Connected" => d = c
  PROVE  /\ Core(DisableAll(r, c), lv, ac, [cs EXCEPT ![c] = "Disconnected"], {}, us, Append(tq, c))
         /\ DisableAll(r, c).fd = r.fd
<1> DEFINE s == DisableAll(r, c)
           now == [cs EXCEPT ![c] = "Disconnected"]
           queue == Append(tq, c)
<1>1. r \in Registry /\ RegInv(r) /\ c \in Events /\ r.index[c] = "kAdded" /\ c # AppTask
  BY ConstantsAssumption DEF Core, CoreType, Standing, Conns
<1>2. Sets(r, c, {}, s)
  BY <1>1, SetEventsResult DEF DisableAll, Masks
<1> HIDE DEF s
<1>3. /\ s \in Registry /\ RegInv(s) /\ s.fd = r.fd
      /\ \A x \in Events \ {c} : s.index[x] = r.index[x]
  BY <1>2, Zenon DEF Sets, Arms
<1>4. s.index[c] = "kDeleted"
  BY <1>1, <1>2, Zenon DEF Sets, Arms
<1>5. /\ now \in [Conns -> ConnStates] /\ now[c] = "Disconnected"
      /\ \A d \in Conns \ {c} : now[d] = cs[d]
  BY DEF Core, CoreType, ConnStates
<1> HIDE DEF now
<1>6. tq \in Seq(Events \cup {AppTask}) /\ c \in Events \cup {AppTask}
  BY <1>1 DEF Core, CoreType
<1>7. \A d : InSeq(d, queue) <=> InSeq(d, tq) \/ d = c
  BY <1>6, InSeqAppend
<1>8. CoreType(s, lv, now, {}, us, queue)
  BY <1>3, <1>5, <1>6 DEF Core, CoreType
<1>9. Sockets(s, lv, ac)
  BY <1>3 DEF Core, Sockets
<1>10. Standing(s, lv, now, {}, us, queue)
  <2>1. \A d \in lv \cap Conns : d # c =>
          s.index[d] = r.index[d] /\ now[d] = cs[d] /\ cs[d] # "Connected"
    BY <1>3, <1>5 DEF Conns
  <2>2. \A e \in Events : s.index[e] # "kNew" => e \in lv
    BY <1>3 DEF Core, Standing
  <2> HIDE DEF queue
  <2> QED BY <1>4, <1>5, <1>7, <2>1, <2>2 DEF Core, Standing
<1>11. Closing(s, lv, now, queue)
  <2>1. /\ Len(queue) = Len(tq) + 1 /\ queue[Len(tq) + 1] = c /\ Len(tq) \in Nat
        /\ \A i \in 1..Len(tq) : queue[i] = tq[i]
    BY <1>6
  <2>2. \A i \in 1..Len(tq) : tq[i] # AppTask =>
          /\ tq[i] \in lv \cap Conns /\ tq[i] # c
          /\ cs[tq[i]] = "Disconnected" /\ r.index[tq[i]] = "kDeleted"
    BY <1>1 DEF Core, Closing
  <2> HIDE DEF queue
  <2>3. \A i \in 1..Len(queue) : i \in 1..Len(tq) \/ i = Len(tq) + 1
    BY <2>1
  <2>4. \A i \in 1..Len(queue) : queue[i] # AppTask =>
          /\ queue[i] \in lv \cap Conns
          /\ now[queue[i]] = "Disconnected"
          /\ s.index[queue[i]] = "kDeleted"
    BY <1>3, <1>4, <1>5, <2>1, <2>2, <2>3 DEF Conns
  <2>5. \A i, j \in 1..Len(queue) : queue[i] = queue[j] /\ queue[i] # AppTask => i = j
    BY <2>1, <2>2, <2>3 DEF Core, Closing
  <2> QED BY <2>4, <2>5 DEF Closing
<1> QED BY <1>3, <1>8, <1>9, <1>10, <1>11 DEF Core, s, now, queue

\* The posted disconnect removes the event.
LEMMA RemoveResult ==
  ASSUME NEW r, NEW lv, NEW ac, NEW cs, NEW cn, NEW us, NEW tq,
         Core(r, lv, ac, cs, cn, us, tq),
         tq # <<>>, Head(tq) \in Conns
  PROVE  /\ Core(RemoveEvent(r, Head(tq)), lv, ac, cs, cn, us, Tail(tq))
         /\ RemoveEvent(r, Head(tq)).fd = r.fd
         /\ Head(tq) \in lv /\ cs[Head(tq)] = "Disconnected"
<1> DEFINE c == Head(tq)
           s == RemoveEvent(r, c)
           queue == Tail(tq)
<1>1. /\ tq \in Seq(Events \cup {AppTask})
      /\ queue \in Seq(Events \cup {AppTask}) /\ c = tq[1] /\ 1 \in 1..Len(tq)
      /\ \A i \in 1..Len(queue) : i + 1 \in 1..Len(tq) /\ queue[i] = tq[i + 1]
  BY TailElements DEF Core, CoreType
<1>2. c \in Conns /\ c \in Events /\ c # AppTask
  BY ConstantsAssumption DEF Conns
<1>3. \A d : d # c => (InSeq(d, queue) <=> InSeq(d, tq))
  BY <1>1, InSeqTail
<1> HIDE DEF c, queue
<1>4. c \in lv /\ cs[c] = "Disconnected" /\ r.index[c] = "kDeleted"
  BY <1>1, <1>2 DEF Core, Closing
<1>5. r \in Registry /\ RegInv(r) /\ r.index[c] # "kNew" /\ r.events[c] = {}
  BY <1>2, <1>4 DEF Core, CoreType, RegInv, Linked
<1>6. /\ s \in Registry /\ RegInv(s) /\ s.fd = r.fd /\ s.events = r.events
      /\ s.index = [r.index EXCEPT ![c] = "kNew"]
  BY <1>2, <1>5, RemoveEventResult
<1> HIDE DEF s
<1>7. s.index[c] = "kNew" /\ \A x \in Events \ {c} : s.index[x] = r.index[x]
  BY <1>2, <1>5, <1>6, RegistryFields
<1>8. CoreType(s, lv, cs, cn, us, queue)
  BY <1>1, <1>6 DEF Core, CoreType
<1>9. Sockets(s, lv, ac)
  BY <1>6 DEF Core, Sockets
<1>10. Standing(s, lv, cs, cn, us, queue)
  <2>1. \A e \in Events : s.index[e] # "kNew" => e \in lv
    BY <1>7 DEF Core, Standing
  <2>2. \A d \in lv \cap Conns : d # c => s.index[d] = r.index[d]
    BY <1>7 DEF Conns
  <2> QED BY <1>3, <1>4, <1>6, <1>7, <2>1, <2>2 DEF Core, Standing
<1>11. Closing(s, lv, cs, queue)
  <2>1. \A i \in 1..Len(queue) : queue[i] # AppTask =>
          /\ queue[i] \in lv \cap Conns /\ cs[queue[i]] = "Disconnected"
          /\ r.index[queue[i]] = "kDeleted"
    BY <1>1 DEF Core, Closing
  <2>2. \A i \in 1..Len(queue) : queue[i] # c
    <3> SUFFICES ASSUME NEW i \in 1..Len(queue), queue[i] = c PROVE FALSE
      OBVIOUS
    <3>1. tq[i + 1] = tq[1] /\ i + 1 \in 1..Len(tq) /\ tq[1] # AppTask
      BY <1>1, <1>2
    <3>2. i + 1 = 1
      BY <1>1, <3>1 DEF Core, Closing
    <3> QED BY <3>2
  <2>3. \A i, j \in 1..Len(queue) : queue[i] = queue[j] /\ queue[i] # AppTask => i = j
    <3> SUFFICES ASSUME NEW i \in 1..Len(queue), NEW j \in 1..Len(queue),
                        queue[i] = queue[j], queue[i] # AppTask
                 PROVE  i = j
      OBVIOUS
    <3>1. i + 1 = j + 1
      BY <1>1 DEF Core, Closing
    <3> QED BY <3>1
  <2> QED BY <1>7, <2>1, <2>2, <2>3 DEF Closing, Conns
<1> QED BY <1>4, <1>6, <1>8, <1>9, <1>10, <1>11 DEF Core, s, c, queue

\* The listening socket is registered for reading.
LEMMA ListenResult ==
  ASSUME NEW r, NEW lv, NEW cs, NEW cn, NEW us, NEW tq,
         Core(r, lv, "Inited", cs, cn, us, tq)
  PROVE  /\ Core(EnableReading(Construct(r, Acc, ListenFd), Acc), lv \cup {Acc}, "Started",
                 cs, cn, us, tq)
         /\ \A c \in Conns : EnableReading(Construct(r, Acc, ListenFd), Acc).fd[c] = r.fd[c]
<1> DEFINE q == Construct(r, Acc, ListenFd)
           mask == q.events[Acc] \cup {"read"}
           s == EnableReading(q, Acc)
<1>1. /\ r \in Registry /\ RegInv(r) /\ Acc \in Events /\ ListenFd \in Fds
      /\ Acc \notin lv /\ r.index[Acc] = "kNew"
  BY ServerAssumption DEF Core, CoreType, Sockets, Standing
<1>2. /\ q \in Registry /\ RegInv(q)
      /\ q.index = r.index /\ q.events = r.events /\ q.map = r.map
      /\ q.fd = [r.fd EXCEPT ![Acc] = ListenFd]
  BY <1>1, ConstructInv
<1> HIDE DEF q
<1>3. q.fd[Acc] = ListenFd /\ \A x \in Events \ {Acc} : q.fd[x] = r.fd[x]
  BY <1>1, <1>2, RegistryFields
<1>4. q.map[q.fd[Acc]] = NoEvent
  <2> SUFFICES ASSUME r.map[ListenFd] # NoEvent PROVE FALSE
    BY <1>2, <1>3
  <2> DEFINE e == r.map[ListenFd]
  <2>1. e \in Events /\ r.fd[e] = ListenFd /\ r.index[e] # "kNew"
    BY <1>1, RegistryFields DEF RegInv, Linked
  <2> HIDE DEF e
  <2>2. e \in lv /\ e # Acc
    BY <1>1, <2>1 DEF Core, Standing
  <2> QED BY <2>1, <2>2 DEF Core, Sockets, Conns
<1>5. mask \in Masks /\ mask # {}
  BY <1>1, <1>2, RegistryFields DEF Masks
<1>6. Sets(q, Acc, mask, s)
  BY <1>1, <1>2, <1>4, <1>5, SetEventsResult DEF EnableReading
<1> HIDE DEF s, mask
<1>7. /\ s \in Registry /\ RegInv(s) /\ s.fd = q.fd
      /\ \A x \in Events \ {Acc} : s.index[x] = r.index[x]
      /\ s.events = [r.events EXCEPT ![Acc] = mask]
  BY <1>2, <1>6, Zenon DEF Sets, Arms
<1>8. /\ \A x \in Conns : s.index[x] = r.index[x] /\ s.events[x] = r.events[x] /\ s.fd[x] = r.fd[x]
      /\ s.fd[Acc] = ListenFd
  BY <1>1, <1>3, <1>7, RegistryFields DEF Conns
<1>9. CoreType(s, lv \cup {Acc}, cs, cn, us, tq)
  BY <1>1, <1>7 DEF Core, CoreType
<1>10. Sockets(s, lv \cup {Acc}, "Started")
  <2>1. (lv \cup {Acc}) \cap Conns = lv \cap Conns
    BY DEF Conns
  <2> QED BY <1>8, <2>1 DEF Core, Sockets
<1>11. Standing(s, lv \cup {Acc}, cs, cn, us, tq)
  <2>1. (lv \cup {Acc}) \cap Conns = lv \cap Conns
    BY DEF Conns
  <2>2. \A e \in Events : s.index[e] # "kNew" => e \in lv \cup {Acc}
    BY <1>7 DEF Core, Standing
  <2> QED BY <1>8, <2>1, <2>2 DEF Core, Standing
<1>12. Closing(s, lv \cup {Acc}, cs, tq)
  BY <1>8 DEF Core, Closing
<1> QED BY <1>7, <1>8, <1>9, <1>10, <1>11, <1>12 DEF Core, s, q

\* Tasks of the application in the queue change nothing.
LEMMA AppTaskPushed ==
  ASSUME NEW r, NEW lv, NEW ac, NEW cs, NEW cn, NEW us, NEW tq,
         Core(r, lv, ac, cs, cn, us, tq)
  PROVE  Core(r, lv, ac, cs, cn, us, Append(tq, AppTask))
<1> DEFINE queue == Append(tq, AppTask)
<1>1. tq \in Seq(Events \cup {AppTask}) /\ queue \in Seq(Events \cup {AppTask})
  BY DEF Core, CoreType
<1>2. \A c \in Conns : InSeq(c, tq) => InSeq(c, queue)
  BY <1>1, InSeqAppend
<1>3. /\ Len(tq) \in Nat
      /\ \A i \in 1..Len(queue) : queue[i] # AppTask => i \in 1..Len(tq) /\ queue[i] = tq[i]
  BY <1>1
<1> HIDE DEF queue
<1>4. CoreType(r, lv, cs, cn, us, queue)
  BY <1>1 DEF Core, CoreType
<1>5. Standing(r, lv, cs, cn, us, queue)
  BY <1>2 DEF Core, Standing
<1>6. Closing(r, lv, cs, queue)
  BY <1>3 DEF Core, Closing
<1> QED BY <1>4, <1>5, <1>6 DEF Core, queue

LEMMA AppTaskPopped ==
  ASSUME NEW r, NEW lv, NEW ac, NEW cs, NEW cn, NEW us, NEW tq,
         Core(r, lv, ac, cs, cn, us, tq), tq # <<>>, Head(tq) = AppTask
  PROVE  /\ Core(r, lv, ac, cs, cn, us, Tail(tq))
         /\ \A c \in Conns : InSeq(c, tq) => InSeq(c, Tail(tq))
<1> DEFINE queue == Tail(tq)
<1>1. /\ tq \in Seq(Events \cup {AppTask})
      /\ queue \in Seq(Events \cup {AppTask})
      /\ \A i \in 1..Len(queue) : i + 1 \in 1..Len(tq) /\ queue[i] = tq[i + 1]
  BY TailElements DEF Core, CoreType
<1>2. \A c \in Conns : InSeq(c, tq) => InSeq(c, queue)
  BY <1>1, InSeqTail, ConstantsAssumption DEF Conns
<1> HIDE DEF queue
<1>3. CoreType(r, lv, cs, cn, us, queue)
  BY <1>1 DEF Core, CoreType
<1>4. Standing(r, lv, cs, cn, us, queue)
  BY <1>2 DEF Core, Standing
<1>5. Closing(r, lv, cs, queue)
  <2>1. \A i, j \in 1..Len(queue) : queue[i] = queue[j] /\ queue[i] # AppTask => i = j
    <3> SUFFICES ASSUME NEW i \in 1..Len(queue), NEW j \in 1..Len(queue),
                        queue[i] = queue[j], queue[i] # AppTask
                 PROVE  i = j
      OBVIOUS
    <3>1. i + 1 = j + 1
      BY <1>1 DEF Core, Closing
    <3> QED BY <3>1
  <2>2. \A i \in 1..Len(queue) : queue[i] # AppTask =>
          /\ queue[i] \in lv \cap Conns /\ cs[queue[i]] = "Disconnected"
          /\ r.index[queue[i]] = "kDeleted"
    BY <1>1 DEF Core, Closing
  <2> QED BY <2>1, <2>2 DEF Closing
<1> QED BY <1>2, <1>3, <1>4, <1>5 DEF Core, queue

-----------------------------------------------------------------------------
(* The handlers and the calls keep the invariant.                          *)

ServerCore == Core(reg, live, accState, cstate, connections, unsent, taskQueue)

LEMMA ConnFacts ==
  /\ Acc \in Events /\ Acc \notin Conns /\ Conns \subseteq Events
  /\ AppTask \notin Conns /\ NoEvent \notin Events /\ NoEvent \notin Conns
  /\ Cardinality(Conns) \in Nat
<1>1. IsFiniteSet(Conns)
  BY ServerAssumption, FS_Subset DEF Conns
<1>2. Cardinality(Conns) \in Nat
  BY <1>1, FS_CardinalityType
<1> QED
  BY <1>2, ServerAssumption, ConstantsAssumption, NoEventAssumption DEF Conns

LEMMA ServerTypes ==
  ASSUME ServerIInv
  PROVE  ServerTypeOK
BY DEF ServerIInv, RestType, Core, CoreType, Sockets, ServerTypeOK, TypeOK, AcceptorStates

\* Whom the application can call is alive.
LEMMA ReachLive ==
  ASSUME ServerIInv, NEW c \in Conns, Reach(c)
  PROVE  c \in live \cap Conns
BY ConnFacts DEF ServerIInv, RestType, Reach

\* A step that touches registrations and what is to be sent, at most.
LEMMA RegistrationKeeps ==
  ASSUME ServerIInv, ServerCore', accState' = accState,
         \A c \in Conns : reg'.fd[c] = reg.fd[c],
         UNCHANGED <<live, doomed, taskQueue, keepRunning, poolUp, phase, loopVars,
                     cstate, connections, held, arg, peer, backlog>>
  PROVE  ServerIInv'
<1>1. RestType'
  BY DEF ServerIInv, RestType, loopVars
<1>2. OneClient'
  BY DEF ServerIInv, OneClient, LiveConns
<1>3. Reported'
  BY DEF ServerIInv, Reported, loopVars, Awaits
<1>4. CallingBack'
  BY DEF ServerIInv, CallingBack, loopVars, Awaits
<1> QED BY <1>1, <1>2, <1>3, <1>4 DEF ServerIInv, ServerCore

LEMMA StartIInv ==
  ASSUME ServerIInv, Start
  PROVE  ServerIInv'
<1>1. accState = "Inited"
  BY DEF ServerIInv, Core, Sockets, Start
<1>2. /\ reg' = EnableReading(Construct(reg, Acc, ListenFd), Acc)
      /\ live' = live \cup {Acc} /\ accState' = "Started"
      /\ UNCHANGED <<doomed, taskQueue, keepRunning, poolUp, phase, loopVars,
                     cstate, connections, held, unsent, arg, peer, backlog>>
  BY <1>1 DEF Start
<1>3. Core(reg', live', accState', cstate, connections, unsent, taskQueue)
  BY <1>1, <1>2, ListenResult DEF ServerIInv
<1>4. \A c \in Conns : reg'.fd[c] = reg.fd[c]
  BY <1>1, <1>2, ListenResult DEF ServerIInv
<1>5. LiveConns' = LiveConns
  BY <1>2 DEF LiveConns, Conns
<1>6. RestType'
  BY <1>2 DEF ServerIInv, RestType, loopVars
<1>7. OneClient'
  BY <1>2, <1>5 DEF ServerIInv, OneClient
<1>8. Reported'
  BY <1>2, <1>4 DEF ServerIInv, Reported, loopVars, Awaits
<1>9. CallingBack'
  BY <1>2, <1>4 DEF ServerIInv, CallingBack, loopVars, Awaits
<1> QED BY <1>2, <1>3, <1>6, <1>7, <1>8, <1>9 DEF ServerIInv

\* More to send, with writing enabled already.
LEMMA MoreToSend ==
  ASSUME NEW r, NEW lv, NEW ac, NEW cs, NEW cn, NEW us, NEW tq,
         Core(r, lv, ac, cs, cn, us, tq),
         NEW c \in lv \cap Conns, "write" \in r.events[c]
  PROVE  Core(r, lv, ac, cs, cn, us \cup {c}, tq)
<1>1. CoreType(r, lv, cs, cn, us \cup {c}, tq)
  BY DEF Core, CoreType, Conns
<1>2. Standing(r, lv, cs, cn, us \cup {c}, tq)
  BY DEF Core, Standing
<1> QED BY <1>1, <1>2 DEF Core

LEMMA SendIInv ==
  ASSUME ServerIInv, NEW c \in Conns, Send(c)
  PROVE  ServerIInv'
<1>1. c \in live \cap Conns /\ cstate[c] = "Connected" /\ c # Acc
  BY ReachLive, ConnFacts DEF Send
<1>2. ServerCore' /\ reg'.fd = reg.fd
  <2>1. CASE "write" \in reg.events[c]
    BY <1>1, <2>1, MoreToSend DEF Send, ServerIInv, ServerCore
  <2>2. CASE "write" \notin reg.events[c]
    <3> DEFINE mask == reg.events[c] \cup {"write"}
               left == unsent \cup {c}
    <3>1. /\ mask \in Masks /\ "read" \in mask /\ "write" \in mask
          /\ left \in SUBSET (live \ {Acc}) /\ left \ {c} = unsent \ {c}
      BY <1>1, RegistryFields DEF ServerIInv, Core, CoreType, Standing, Masks, Conns
    <3>2. reg' = SetEvents(reg, c, mask) /\ unsent' = left
      BY <2>2 DEF Send, EnableWriting
    <3> HIDE DEF mask, left
    <3>3. /\ Core(reg', live, accState, cstate, connections, left, taskQueue)
          /\ reg'.fd = reg.fd
      BY <1>1, <3>1, <3>2, ArmResult DEF ServerIInv
    <3> QED BY <3>2, <3>3 DEF Send, ServerCore
  <2> QED BY <2>1, <2>2
<1> QED BY <1>2, RegistrationKeeps DEF Send

LEMMA DisconnectIInv ==
  ASSUME ServerIInv, NEW c \in Conns, arg = c, Disconnect(c)
  PROVE  ServerIInv'
<1>1. c \in live \cap Conns /\ cstate[c] = "Connected" /\ arg # NoEvent
  BY ReachLive, ConnFacts DEF Disconnect
<1>2. /\ reg' = RemoveEvent(DisableAll(reg, c), c)
      /\ cstate' = [cstate EXCEPT ![c] = "Connecting"]
      /\ UNCHANGED <<live, doomed, taskQueue, keepRunning, poolUp, phase, loopVars,
                     accState, connections, held, unsent, arg, peer, backlog>>
  BY <1>1 DEF Disconnect, Disconnected, ToConnecting
<1>3. /\ Core(reg', live, accState, cstate', connections, unsent, taskQueue)
      /\ reg'.fd = reg.fd
  <2>1. ServerCore
    BY DEF ServerIInv, ServerCore
  <2>2. /\ Core(RemoveEvent(DisableAll(reg, c), c), live, accState,
                [cstate EXCEPT ![c] = "Connecting"], connections, unsent, taskQueue)
        /\ RemoveEvent(DisableAll(reg, c), c).fd = reg.fd
    BY <1>1, <2>1, DisconnectResult DEF ServerCore
  <2> QED BY <1>2, <2>2, Zenon
<1>4. \A d \in Conns : d # c => cstate'[d] = cstate[d]
  BY <1>2 DEF ServerIInv, Core, CoreType
<1>5. cstate'[c] = "Connecting"
  BY <1>1, <1>2 DEF ServerIInv, Core, CoreType
<1>6. RestType'
  BY <1>2 DEF ServerIInv, RestType, loopVars
<1>7. OneClient'
  BY <1>2, <1>4, <1>5 DEF ServerIInv, OneClient, LiveConns
<1>8. Reported'
  <2>1. phase = "incallback" /\ \A i \in 1..Len(active) : i # 1 => active[i] \notin Conns
    BY <1>1 DEF ServerIInv, CallingBack, RestType
  <2> QED BY <1>2, <2>1 DEF ServerIInv, Reported, loopVars
<1>9. CallingBack'
  BY <1>1, <1>2, <1>3 DEF ServerIInv, CallingBack, loopVars
<1> QED BY <1>2, <1>3, <1>6, <1>7, <1>8, <1>9 DEF ServerIInv

\* A step of the loop's thread that takes it elsewhere, outside of callbacks.
LEMMA PhaseKeeps ==
  ASSUME ServerIInv, phase' \in Phases, keepRunning' \in BOOLEAN, poolUp' \in BOOLEAN,
         phase # "incallback", phase' # "incallback",
         phase' = "intask" => taskQueue # <<>> /\ Head(taskQueue) = AppTask,
         UNCHANGED <<reg, live, doomed, taskQueue, loopVars, netVars>>
  PROVE  ServerIInv'
<1>1. arg = NoEvent
  BY DEF ServerIInv, CallingBack
<1>2. RestType'
  BY DEF ServerIInv, RestType, loopVars, netVars
<1>3. Core(reg, live, accState, cstate, connections, unsent, taskQueue)'
  BY DEF ServerIInv, netVars
<1>4. OneClient' /\ Reported'
  BY DEF ServerIInv, OneClient, Reported, LiveConns, loopVars, netVars, Awaits
<1>5. CallingBack'
  BY <1>1 DEF ServerIInv, CallingBack, loopVars, netVars
<1> QED BY <1>2, <1>3, <1>4, <1>5 DEF ServerIInv

LEMMA ThreadIInv ==
  ASSUME ServerIInv, UNCHANGED netVars,
         NoTask \/ StartTask \/ EndIteration \/ RunLoop
  PROVE  ServerIInv'
<1>1. CASE NoTask
  BY <1>1, PhaseKeeps DEF NoTask, Phases, ServerIInv, RestType
<1>2. CASE StartTask
  BY <1>2, PhaseKeeps DEF StartTask, Phases, ServerIInv, RestType
<1>3. CASE EndIteration
  BY <1>3, PhaseKeeps DEF EndIteration, Phases, ServerIInv, RestType
<1>4. CASE RunLoop
  BY <1>4, PhaseKeeps DEF RunLoop, Phases
<1> QED BY <1>1, <1>2, <1>3, <1>4

LEMMA BrokenPipeIInv ==
  ASSUME ServerIInv, NEW c \in Conns, BrokenPipe(c)
  PROVE  ServerIInv'
<1>1. /\ phase = "incallback" /\ arg = NoEvent /\ Head(active) = c /\ phase' = "aborted"
      /\ cstate[c] = "Connected" /\ peer[reg.fd[c]] = "dead"
      /\ UNCHANGED <<reg, live, doomed, taskQueue, keepRunning, poolUp, loopVars, netVars>>
  BY DEF BrokenPipe, Runs
<1>2. active # <<>> /\ active \in Seq(Events)
  BY <1>1 DEF ServerIInv, CallingBack, RestType
<1>3. active[1] = c
  BY <1>1, <1>2
<1>4. RestType'
  BY <1>1 DEF ServerIInv, RestType, Phases, loopVars, netVars
<1>5. Core(reg, live, accState, cstate, connections, unsent, taskQueue)'
  BY <1>1 DEF ServerIInv, netVars
<1>6. OneClient'
  BY <1>1 DEF ServerIInv, OneClient, LiveConns, netVars
<1>7. Reported'
  BY <1>1, <1>3 DEF ServerIInv, Reported, loopVars, netVars, Awaits, SomethingToRead
<1>8. CallingBack'
  BY <1>1 DEF CallingBack, netVars
<1> QED BY <1>4, <1>5, <1>6, <1>7, <1>8 DEF ServerIInv

\* The application keeps a copy, posts a task or asks the loop to end.
LEMMA HoldIInv ==
  ASSUME ServerIInv, NEW c \in Conns, Hold(c)
  PROVE  ServerIInv'
<1> USE DEF Hold, vars, loopVars
<1>1. RestType'
  BY ConnFacts DEF ServerIInv, RestType
<1>2. Core(reg, live, accState, cstate, connections, unsent, taskQueue)'
  BY DEF ServerIInv
<1>3. OneClient' /\ Reported' /\ CallingBack'
  BY DEF ServerIInv, OneClient, Reported, CallingBack, LiveConns, Awaits
<1> QED BY <1>1, <1>2, <1>3 DEF ServerIInv

LEMMA LoopCallIInv ==
  ASSUME ServerIInv, LoopCall
  PROVE  ServerIInv'
<1>1. CASE ExitLoop
  <2>1. UNCHANGED <<reg, live, doomed, taskQueue, poolUp, phase, loopVars, netVars>>
        /\ keepRunning' \in BOOLEAN
    BY <1>1 DEF ExitLoop, LoopCall
  <2>2. RestType'
    BY <2>1 DEF ServerIInv, RestType, loopVars, netVars
  <2>3. Core(reg, live, accState, cstate, connections, unsent, taskQueue)'
    BY <2>1 DEF ServerIInv, netVars
  <2>4. OneClient' /\ Reported' /\ CallingBack'
    BY <2>1 DEF ServerIInv, OneClient, Reported, CallingBack, LiveConns, loopVars, netVars, Awaits
  <2> QED BY <2>2, <2>3, <2>4 DEF ServerIInv
<1>2. CASE PostTask
  <2>1. /\ taskQueue' = Append(taskQueue, AppTask)
        /\ UNCHANGED <<reg, live, doomed, keepRunning, poolUp, phase, loopVars, netVars>>
    BY <1>2 DEF PostTask, Post, LoopCall
  <2>2. taskQueue \in Seq(Events \cup {AppTask})
    BY DEF ServerIInv, Core, CoreType
  <2>3. RestType'
    BY <2>1 DEF ServerIInv, RestType, loopVars, netVars
  <2>4. Core(reg, live, accState, cstate, connections, unsent, taskQueue)'
    BY <2>1, AppTaskPushed DEF ServerIInv, netVars
  <2>5. OneClient' /\ Reported'
    BY <2>1 DEF ServerIInv, OneClient, Reported, LiveConns, loopVars, netVars, Awaits
  <2>6. CallingBack'
    <3>1. \A d : InSeq(d, taskQueue) => InSeq(d, taskQueue')
      BY <2>1, <2>2, InSeqAppend
    <3>2. taskQueue # <<>> => taskQueue' # <<>> /\ Head(taskQueue') = Head(taskQueue)
      BY <2>1, <2>2
    <3> QED BY <2>1, <3>1, <3>2 DEF ServerIInv, CallingBack, loopVars, netVars, Awaits
  <2> QED BY <2>3, <2>4, <2>5, <2>6 DEF ServerIInv
<1> QED BY <1>1, <1>2 DEF LoopCall

\* Pointers go: who is still pointed to, or Connected, lives on.
LEMMA ReleaseResult ==
  ASSUME NEW r, NEW cs, NEW map, NEW copies, NEW queue, NEW frame,
         Core(r, live, accState, cs, map, unsent, queue),
         Release(r, map, copies, queue, frame)
  PROVE  /\ Core(reg', live', accState, cs, map, unsent', queue)
         /\ reg'.fd = r.fd
         /\ live' \subseteq live
         /\ \A x \in live :
              (\/ x \notin Conns
               \/ x \in map \cup copies \cup {frame}
               \/ InSeq(x, queue)
               \/ cs[x] = "Connected") => x \in live'
<1> DEFINE lost == Unreferenced(LiveConns, map, copies, queue, frame)
<1>1. /\ lost \in SUBSET (live \cap Conns)
      /\ \A d \in lost : d \notin map \cup copies \cup {frame} /\ ~InSeq(d, queue)
  BY DEF Unreferenced, LiveConns
<1>2. reg' = Destroy(r, lost) /\ live' = live \ lost /\ unsent' = unsent \ lost
  BY DEF Release
<1> HIDE DEF lost
<1>3. /\ Core(Destroy(r, lost), live \ lost, accState, cs, map, unsent \ lost, queue)
      /\ Destroy(r, lost).fd = r.fd
      /\ \A d \in lost : cs[d] # "Connected"
  <2>1. Core(r, live, accState, cs, map, unsent, queue)
    OBVIOUS
  <2>2. \A d \in lost : d \notin map /\ ~InSeq(d, queue)
    BY <1>1
  <2>3. lost \in SUBSET (live \cap Conns)
    BY <1>1
  <2> QED BY <2>1, <2>2, <2>3, LostResult
<1>4. Core(reg', live', accState, cs, map, unsent', queue) /\ reg'.fd = r.fd
  BY <1>2, <1>3
<1> QED BY <1>1, <1>2, <1>3, <1>4

\* The loop's pointers are among those that keep alive.
LEMMA ActiveKept ==
  ASSUME ServerIInv, NEW i \in 1..Len(active)
  PROVE  /\ active[i] \in live
         /\ \/ active[i] \notin Conns
            \/ cstate[active[i]] = "Connected"
            \/ active[i] \in connections \/ InSeq(active[i], taskQueue)
<1>1. active \in Seq(Events) /\ active # <<>> => Head(active) = active[1]
  BY DEF ServerIInv, RestType
<1>2. active # <<>>
  BY <1>1 DEF ServerIInv, RestType
<1>3. active[i] \in live
  BY DEF ServerIInv, Reported
<1>4. CASE i = 1 /\ phase = "incallback"
  BY <1>1, <1>2, <1>3, <1>4 DEF ServerIInv, CallingBack, RestType
<1>5. CASE ~(i = 1 /\ phase = "incallback")
  BY <1>3, <1>5 DEF ServerIInv, Reported
<1> QED BY <1>4, <1>5

\* A release while the states and the map stay as they are.
LEMMA ReleaseKeeps ==
  ASSUME ServerIInv, NEW copies, NEW frame,
         Release(reg, connections, copies, taskQueue, frame),
         held' \subseteq copies \cap held, arg' \in {frame, NoEvent}, arg' \in {arg, NoEvent},
         phase = "incallback" => OneRead(calls'), calls' \in Seq(Callbacks), InSeq("read", calls') => InSeq("read", calls),
         arg' # NoEvent => calls' = calls,
         arg # NoEvent /\ arg' = NoEvent => ~InSeq("read", calls'),
         UNCHANGED <<doomed, taskQueue, keepRunning, poolUp, phase, active, revents, locked, cap,
                     accState, cstate, connections, peer, backlog>>
  PROVE  ServerIInv'
<1>1. /\ Core(reg', live', accState, cstate, connections, unsent', taskQueue)
      /\ reg'.fd = reg.fd
      /\ live' \subseteq live
      /\ \A x \in live :
           (\/ x \notin Conns
            \/ x \in connections \cup copies \cup {frame}
            \/ InSeq(x, taskQueue)
            \/ cstate[x] = "Connected") => x \in live'
  BY ReleaseResult DEF ServerIInv
<1>2. RestType'
  BY <1>1 DEF ServerIInv, RestType
<1>3. OneClient'
  BY <1>1 DEF ServerIInv, OneClient, LiveConns
<1>4. Reported'
  <2>1. \A i \in 1..Len(active) : active[i] \in live'
    BY <1>1, ActiveKept
  <2> QED BY <1>1, <2>1 DEF ServerIInv, Reported, Awaits
<1>5. CallingBack'
  BY <1>1 DEF ServerIInv, CallingBack, Awaits
<1> QED BY <1>1, <1>2, <1>3, <1>4, <1>5 DEF ServerIInv

LEMMA DropIInv ==
  ASSUME ServerIInv, NEW c \in Conns, Drop(c)
  PROVE  ServerIInv'
<1>1. /\ Release(reg, connections, held', taskQueue, arg)
      /\ held' \subseteq held
      /\ UNCHANGED <<doomed, taskQueue, keepRunning, poolUp, phase, loopVars,
                     accState, cstate, connections, arg, peer, backlog>>
  BY DEF Drop
<1>2. /\ phase = "incallback" => OneRead(calls)
      /\ calls \in Seq(Callbacks)
  BY DEF ServerIInv, CallingBack, RestType
<1>3. /\ UNCHANGED <<doomed, taskQueue, keepRunning, poolUp, phase, active, revents, locked, cap,
                     accState, cstate, connections, peer, backlog>>
      /\ calls' = calls /\ arg' = arg
  BY <1>1 DEF loopVars
<1>4. /\ held' \subseteq held' \cap held
      /\ arg' \in {arg, NoEvent}
  BY <1>1, <1>3
<1> QED BY <1>1, <1>2, <1>3, <1>4, ReleaseKeeps

\* The rest of the callbacks, after the application has been called back.
LEMMA AfterRead ==
  ASSUME ServerIInv, phase = "incallback", calls # <<>>
  PROVE  /\ Tail(calls) \in Seq(Callbacks)
         /\ OneRead(Tail(calls))
         /\ InSeq("read", Tail(calls)) => InSeq("read", calls)
         /\ Head(calls) = "read" => ~InSeq("read", Tail(calls))
<1> DEFINE t == Tail(calls)
<1>1. calls \in Seq(Callbacks) /\ OneRead(calls)
  BY DEF ServerIInv, RestType, CallingBack
<1>2. /\ t \in Seq(Callbacks) /\ Head(calls) = calls[1] /\ 1 \in 1..Len(calls)
      /\ \A i \in 1..Len(t) : i + 1 \in 1..Len(calls) /\ t[i] = calls[i + 1]
  BY <1>1, TailElements
<1>3. InSeq("read", t) => InSeq("read", calls)
  BY <1>1, InSeqTail
<1> HIDE DEF t
<1>4. ASSUME NEW i \in 1..Len(t), NEW j \in 1..Len(t), t[i] = "read", t[j] = "read"
      PROVE  i = j
  <2>1. i + 1 = j + 1
    BY <1>1, <1>2, <1>4 DEF OneRead
  <2> QED BY <2>1
<1>5. ASSUME Head(calls) = "read", NEW i \in 1..Len(t) PROVE t[i] # "read"
  <2> SUFFICES ASSUME t[i] = "read" PROVE FALSE
    OBVIOUS
  <2>1. i + 1 = 1
    BY <1>1, <1>2, <1>5 DEF OneRead
  <2> QED BY <2>1
<1> QED BY <1>2, <1>3, <1>4, <1>5 DEF OneRead, InSeq, t

LEMMA AppReturnsIInv ==
  ASSUME ServerIInv, AppReturns
  PROVE  ServerIInv'
<1>1. /\ arg # NoEvent /\ arg' = NoEvent /\ calls' = Tail(calls) /\ held' = held
      /\ Release(reg, connections, held, taskQueue, NoEvent)
      /\ UNCHANGED <<doomed, taskQueue, keepRunning, poolUp, phase, active, revents, locked, cap,
                     accState, cstate, connections, peer, backlog>>
  BY DEF AppReturns
<1>2. phase = "incallback" /\ calls # <<>> /\ Head(calls) = "read"
  BY <1>1 DEF ServerIInv, CallingBack
<1>3. /\ calls' \in Seq(Callbacks) /\ OneRead(calls')
      /\ InSeq("read", calls') => InSeq("read", calls)
      /\ ~InSeq("read", calls')
  BY <1>1, <1>2, AfterRead
<1>4. held' \subseteq held \cap held /\ arg' \in {NoEvent, NoEvent} /\ arg' \in {arg, NoEvent}
  BY <1>1
<1> QED BY <1>1, <1>3, <1>4, ReleaseKeeps

\* Away from the callbacks the application is not being called back, and every
\* connection still to be handled is Connected.
LEMMA BetweenCallbacks ==
  ASSUME ServerIInv, phase # "incallback"
  PROVE  /\ arg = NoEvent
         /\ \A i \in 1..Len(active) : active[i] \in Conns => cstate[active[i]] = "Connected"
BY DEF ServerIInv, CallingBack, Reported

LEMMA DisconnectTaskIInv ==
  ASSUME ServerIInv, DisconnectTask
  PROVE  ServerIInv'
<1> DEFINE c == Head(taskQueue)
<1>1. /\ phase = "task" /\ taskQueue # <<>> /\ c \in Conns
      /\ taskQueue' = Tail(taskQueue) /\ phase' = "handle"
      /\ Release(Disconnected(reg, c), connections, held, taskQueue', NoEvent)
      /\ ToConnecting(c)
      /\ UNCHANGED <<doomed, keepRunning, poolUp, loopVars,
                     accState, connections, held, arg, peer, backlog>>
  BY DEF DisconnectTask
<1>2. ServerCore
  BY DEF ServerIInv, ServerCore
<1>3. /\ Core(RemoveEvent(reg, c), live, accState, cstate, connections, unsent, Tail(taskQueue))
      /\ RemoveEvent(reg, c).fd = reg.fd
      /\ cstate[c] = "Disconnected"
  BY <1>1, <1>2, RemoveResult DEF ServerCore
<1>4. Disconnected(reg, c) = RemoveEvent(reg, c) /\ cstate' = cstate
  BY <1>1, <1>3 DEF Disconnected, ToConnecting
<1>5. Release(RemoveEvent(reg, c), connections, held, Tail(taskQueue), NoEvent)
  BY <1>1, <1>4
<1>6. /\ Core(reg', live', accState, cstate, connections, unsent', Tail(taskQueue))
      /\ reg'.fd = RemoveEvent(reg, c).fd
      /\ live' \subseteq live
      /\ \A x \in live :
           x \notin Conns \/ x \in held \/ cstate[x] = "Connected" => x \in live'
  BY <1>3, <1>5, ReleaseResult
<1> HIDE DEF c
<1>7. arg = NoEvent /\ \A i \in 1..Len(active) : active[i] \in live'
  BY <1>1, <1>6, BetweenCallbacks, ActiveKept
<1>8. RestType'
  BY <1>1, <1>6, <1>7 DEF ServerIInv, RestType, Phases, loopVars
<1>9. OneClient'
  BY <1>1, <1>4, <1>6 DEF ServerIInv, OneClient, LiveConns
<1>10. Reported'
  BY <1>1, <1>3, <1>4, <1>6, <1>7 DEF ServerIInv, Reported, loopVars, Awaits
<1>11. CallingBack'
  BY <1>1, <1>7 DEF CallingBack
<1> QED BY <1>1, <1>4, <1>6, <1>8, <1>9, <1>10, <1>11 DEF ServerIInv

LEMMA ServerTaskReturns ==
  ASSUME ServerIInv, TaskReturns, UNCHANGED netVars
  PROVE  ServerIInv'
<1>1. /\ phase = "intask" /\ taskQueue' = Tail(taskQueue) /\ phase' = "handle"
      /\ UNCHANGED <<reg, live, doomed, keepRunning, poolUp, loopVars, netVars>>
  BY DEF TaskReturns
<1>2. taskQueue # <<>> /\ Head(taskQueue) = AppTask /\ ServerCore
  BY <1>1 DEF ServerIInv, CallingBack, ServerCore
<1>3. Core(reg, live, accState, cstate, connections, unsent, Tail(taskQueue))
  BY <1>2, AppTaskPopped DEF ServerCore
<1>4. Core(reg, live, accState, cstate, connections, unsent, taskQueue)'
  BY <1>1, <1>3 DEF netVars
<1>5. RestType'
  BY <1>1 DEF ServerIInv, RestType, Phases, loopVars, netVars
<1>6. OneClient' /\ Reported'
  BY <1>1 DEF ServerIInv, OneClient, Reported, LiveConns, loopVars, netVars, Awaits
<1>7. CallingBack'
  BY <1>1, BetweenCallbacks DEF CallingBack, netVars
<1> QED BY <1>4, <1>5, <1>6, <1>7 DEF ServerIInv

LEMMA CallbacksDoneIInv ==
  ASSUME ServerIInv, CallbacksDone
  PROVE  ServerIInv'
<1>1. /\ phase = "incallback" /\ arg = NoEvent
      /\ calls' = <<>> /\ active' = Tail(active) /\ phase' = "handle"
      /\ UNCHANGED <<reg, live, doomed, taskQueue, keepRunning, poolUp, revents, locked, cap, netVars>>
  BY ServerAssumption DEF CallbacksDone, EventHandled
<1>2. active # <<>> /\ active \in Seq(Events)
  BY <1>1 DEF ServerIInv, CallingBack, RestType
<1>3. /\ active' \in Seq(Events)
      /\ \A i \in 1..Len(active') : i + 1 \in 1..Len(active) /\ i + 1 # 1
                                  /\ active'[i] = active[i + 1]
  BY <1>1, <1>2, TailElements
<1>4. RestType'
  <2>1. calls' \in Seq(Callbacks)
    BY <1>1
  <2> QED BY <1>1, <1>3, <2>1 DEF ServerIInv, RestType, Phases, netVars
<1>5. Core(reg, live, accState, cstate, connections, unsent, taskQueue)'
  BY <1>1 DEF ServerIInv, netVars
<1>6. OneClient' /\ CallingBack'
  BY <1>1 DEF ServerIInv, OneClient, CallingBack, LiveConns, netVars
<1>7. Reported'
  <2>1. ASSUME NEW i \in 1..Len(active') PROVE
          /\ active'[i] \in live'
          /\ active'[i] \in Conns =>
               /\ cstate'[active'[i]] = "Connected"
               /\ HasInput(revents'[active'[i]]) =>
                    SomethingToRead(peer'[reg'.fd[active'[i]]], revents'[active'[i]])
    BY <1>1, <1>3, <2>1 DEF ServerIInv, Reported, netVars, Awaits
  <2>2. ASSUME NEW i \in 1..Len(active'), NEW j \in 1..Len(active'), active'[i] = active'[j]
        PROVE  i = j
    <3>1. \A k, l \in 1..Len(active) : active[k] = active[l] => k = l
      BY DEF ServerIInv, Reported
    <3>2. i + 1 = j + 1
      BY <1>3, <2>2, <3>1
    <3> QED BY <3>2
  <2> QED BY <2>1, <2>2 DEF Reported, Awaits
<1> QED BY <1>4, <1>5, <1>6, <1>7 DEF ServerIInv

\* handleLockEvent calls handleRead once at most, and only for input.
LEMMA ConcatElements ==
  ASSUME NEW S, NEW s \in Seq(S), NEW t \in Seq(S), NEW i \in 1..Len(s \o t)
  PROVE  \/ i \in 1..Len(s) /\ (s \o t)[i] = s[i]
         \/ i - Len(s) \in 1..Len(t) /\ (s \o t)[i] = t[i - Len(s)]
OBVIOUS

LEMMA ConcatRead ==
  ASSUME NEW s \in Seq(Callbacks), NEW t \in Seq(Callbacks),
         OneRead(s), OneRead(t), ~InSeq("read", s) \/ ~InSeq("read", t)
  PROVE  /\ OneRead(s \o t)
         /\ InSeq("read", s \o t) => InSeq("read", s) \/ InSeq("read", t)
<1> DEFINE u == s \o t
           n == Len(s)
<1>1. \A i \in 1..Len(u) : \/ i \in 1..n /\ u[i] = s[i]
                           \/ i - n \in 1..Len(t) /\ u[i] = t[i - n]
  BY ConcatElements
<1>2. n \in Nat /\ Len(u) \in Nat
  OBVIOUS
<1> HIDE DEF u, n
<1>3. InSeq("read", u) => InSeq("read", s) \/ InSeq("read", t)
  BY <1>1 DEF InSeq, n
<1>4. ASSUME NEW i \in 1..Len(u), NEW j \in 1..Len(u), u[i] = "read", u[j] = "read"
      PROVE  i = j
  <2>1. CASE InSeq("read", s)
    <3>1. i \in 1..n /\ s[i] = "read" /\ j \in 1..n /\ s[j] = "read"
      BY <1>1, <1>4, <2>1 DEF InSeq
    <3> QED BY <3>1 DEF OneRead, n
  <2>2. CASE ~InSeq("read", s)
    <3>1. /\ i - n \in 1..Len(t) /\ t[i - n] = "read"
          /\ j - n \in 1..Len(t) /\ t[j - n] = "read"
      BY <1>1, <1>4, <2>2 DEF InSeq, n
    <3>2. i - n = j - n
      BY <3>1 DEF OneRead
    <3> QED BY <1>2, <3>2
  <2> QED BY <2>1, <2>2
<1> QED BY <1>3, <1>4 DEF OneRead, u

LEMMA CallsRead ==
  ASSUME NEW sig
  PROVE  OneRead(Calls(sig)) /\ (InSeq("read", Calls(sig)) => HasInput(sig))
<1> DEFINE a == IF "HUP" \in sig /\ "IN" \notin sig THEN <<"close">> ELSE <<>>
           b == IF "ERR" \in sig THEN <<"error">> ELSE <<>>
           c == IF sig \cap {"IN", "PRI", "RDHUP"} # {} THEN <<"read">> ELSE <<>>
           d == IF "OUT" \in sig THEN <<"write">> ELSE <<>>
<1>1. ASSUME NEW x \in Callbacks, NEW s \in {<<x>>, <<>>}
      PROVE  /\ s \in Seq(Callbacks) /\ OneRead(s)
             /\ InSeq("read", s) => x = "read" /\ s # <<>>
  <2>1. CASE s = <<x>>
    BY <2>1 DEF OneRead, InSeq
  <2>2. CASE s = <<>>
    BY <2>2 DEF OneRead, InSeq
  <2> QED BY <2>1, <2>2
<1>2. /\ "close" \in Callbacks /\ "error" \in Callbacks
      /\ "read" \in Callbacks /\ "write" \in Callbacks
      /\ "close" # "read" /\ "error" # "read" /\ "write" # "read"
  BY DEF Callbacks
<1>3. /\ a \in {<<"close">>, <<>>} /\ b \in {<<"error">>, <<>>}
      /\ c \in {<<"read">>, <<>>} /\ d \in {<<"write">>, <<>>}
  OBVIOUS
<1>4. c # <<>> => HasInput(sig)
  BY DEF HasInput
<1>5. Calls(sig) = a \o b \o c \o d
  BY DEF Calls
<1> HIDE DEF a, b, c, d
<1>6. /\ a \in Seq(Callbacks) /\ OneRead(a) /\ ~InSeq("read", a)
      /\ b \in Seq(Callbacks) /\ OneRead(b) /\ ~InSeq("read", b)
  BY <1>1, <1>2, <1>3
<1>7. c \in Seq(Callbacks) /\ OneRead(c) /\ (InSeq("read", c) => HasInput(sig))
  BY <1>1, <1>2, <1>3, <1>4
<1>8. d \in Seq(Callbacks) /\ OneRead(d) /\ ~InSeq("read", d)
  BY <1>1, <1>2, <1>3
<1>9. a \o b \in Seq(Callbacks) /\ OneRead(a \o b) /\ ~InSeq("read", a \o b)
  BY <1>6, ConcatRead
<1>10. /\ a \o b \o c \in Seq(Callbacks) /\ OneRead(a \o b \o c)
       /\ InSeq("read", a \o b \o c) => HasInput(sig)
  <2>1. a \o b \o c \in Seq(Callbacks)
    BY <1>7, <1>9
  <2> DEFINE ab == a \o b
  <2> HIDE DEF ab
  <2>2. ab \in Seq(Callbacks) /\ OneRead(ab) /\ ~InSeq("read", ab)
    BY <1>9 DEF ab
  <2>3. OneRead(ab \o c) /\ (InSeq("read", ab \o c) => HasInput(sig))
    BY <1>7, <2>2, ConcatRead
  <2> QED BY <2>1, <2>3 DEF ab
<1>11. /\ OneRead(a \o b \o c \o d)
       /\ InSeq("read", a \o b \o c \o d) => HasInput(sig)
  BY <1>8, <1>10, ConcatRead
<1> QED BY <1>5, <1>11

LEMMA ServerHandles ==
  ASSUME ServerIInv, HandleEvent, UNCHANGED netVars
  PROVE  ServerIInv'
<1> DEFINE e == Head(active)
<1>1. /\ phase = "handle" /\ phase' = "incallback" /\ active # <<>>
      /\ calls' = Calls(revents[e])
      /\ UNCHANGED <<reg, live, doomed, taskQueue, keepRunning, poolUp, active, revents, locked, cap, netVars>>
  BY DEF HandleEvent
<1>2. arg = NoEvent
  BY <1>1, BetweenCallbacks
<1>3. active \in Seq(Events)
  BY DEF ServerIInv, RestType
<1>4. e = active[1] /\ 1 \in 1..Len(active)
  BY <1>1, <1>3
<1>5. calls' \in Seq(Callbacks) /\ OneRead(calls')
      /\ (InSeq("read", calls') => HasInput(revents[e]))
  BY <1>1, CallsType, CallsRead
<1> HIDE DEF e
<1>6. e \in live /\ (e \in Conns => cstate[e] = "Connected")
  BY <1>1, <1>4 DEF ServerIInv, Reported
<1>7. e \in Conns => e \in connections
  BY <1>6 DEF ServerIInv, Core, Standing
<1>8. e \in Conns /\ HasInput(revents[e]) => Awaits(e)
  BY <1>1, <1>4 DEF ServerIInv, Reported
<1>9. RestType'
  BY <1>1, <1>5 DEF ServerIInv, RestType, Phases, netVars
<1>10. Core(reg, live, accState, cstate, connections, unsent, taskQueue)'
  BY <1>1 DEF ServerIInv, netVars
<1>11. OneClient'
  BY <1>1 DEF ServerIInv, OneClient, LiveConns, netVars
<1>12. Reported'
  BY <1>1 DEF ServerIInv, Reported, netVars, Awaits
<1>13. CallingBack'
  BY <1>1, <1>2, <1>5, <1>6, <1>7, <1>8 DEF CallingBack, netVars, e, Awaits
<1> QED BY <1>9, <1>10, <1>11, <1>12, <1>13 DEF ServerIInv

\* A callback of a connection.
LEMMA RunningFacts ==
  ASSUME ServerIInv, NEW c \in Conns, NEW callback, Runs(c, callback)
  PROVE  /\ phase = "incallback" /\ arg = NoEvent /\ calls # <<>> /\ Head(calls) = callback
         /\ active # <<>> /\ Head(active) = c /\ active[1] = c /\ 1 \in 1..Len(active)
         /\ c \in live \cap Conns
         /\ c \in connections \/ InSeq(c, taskQueue)
<1>1. active # <<>> /\ active \in Seq(Events)
  BY DEF ServerIInv, CallingBack, RestType, Runs
<1>2. active[1] = c /\ 1 \in 1..Len(active)
  BY <1>1 DEF Runs
<1>3. c \in live
  BY <1>2 DEF ServerIInv, Reported
<1> QED BY <1>1, <1>2, <1>3 DEF ServerIInv, CallingBack, Runs

LEMMA ReadingFacts ==
  ASSUME ServerIInv, NEW c \in Conns, Runs(c, "read")
  PROVE  /\ cstate[c] = "Connected" /\ Awaits(c)
         /\ \A d \in live \cap Conns : cstate[d] = "Connected" => d = c
         /\ \A i \in 2..Len(active) : active[i] \notin Conns
<1>1. InSeq("read", calls)
  <2>1. calls \in Seq(Callbacks) /\ calls # <<>> /\ Head(calls) = "read"
    BY RunningFacts DEF ServerIInv, RestType
  <2> QED BY <2>1 DEF InSeq
<1>2. cstate[c] = "Connected" /\ Awaits(c)
  BY <1>1, RunningFacts DEF ServerIInv, CallingBack
<1>3. \A d \in live \cap Conns : cstate[d] = "Connected" => d = c
  BY <1>2, RunningFacts DEF ServerIInv, OneClient, LiveConns
<1>4. ASSUME NEW i \in 2..Len(active), active[i] \in Conns PROVE FALSE
  <2>1. i \in 1..Len(active) /\ i # 1
    BY <1>4
  <2>2. active[i] \in live /\ cstate[active[i]] = "Connected"
    BY <1>4, <2>1 DEF ServerIInv, Reported
  <2>3. active[i] = active[1]
    BY <1>3, <1>4, <2>2, RunningFacts
  <2>4. 1 \in 1..Len(active)
    BY RunningFacts
  <2> QED BY <2>1, <2>3, <2>4 DEF ServerIInv, Reported
<1> QED BY <1>2, <1>3, <1>4

\* What there was to read is still there.
StillToRead ==
  \A f \in Fds : \A sig : SomethingToRead(peer[f], sig) => SomethingToRead(peer'[f], sig)

LEMMA ErrorTakenKeeps ==
  ASSUME ServerIInv, NEW f, ErrorTaken(f) \/ UNCHANGED peer
  PROVE  peer' \in [Fds -> PeerStates] /\ StillToRead
<1>1. peer' = peer \/ (peer[f] = "rst" /\ peer' = [peer EXCEPT ![f] = "dead"])
  BY DEF ErrorTaken
<1> QED BY <1>1 DEF ServerIInv, RestType, PeerStates, StillToRead, SomethingToRead

\* A callback of the library's own: it goes on to the next one.
LEMMA CallbackKeeps ==
  ASSUME ServerIInv, NEW c \in Conns, NEW callback, Runs(c, callback),
         ToNextCallback, ServerCore', reg'.fd = reg.fd,
         peer' \in [Fds -> PeerStates],
         StillToRead
  PROVE  ServerIInv'
<1>1. /\ calls' = Tail(calls)
      /\ UNCHANGED <<live, doomed, taskQueue, keepRunning, poolUp, phase, active, revents,
                     locked, cap, accState, cstate, connections, held, arg, backlog>>
  BY DEF ToNextCallback
<1>2. phase = "incallback" /\ arg = NoEvent /\ calls # <<>>
  BY RunningFacts
<1>3. calls' \in Seq(Callbacks) /\ OneRead(calls') /\ (InSeq("read", calls') => InSeq("read", calls))
  BY <1>1, <1>2, AfterRead
<1>4. \A x \in Conns : Awaits(x) => Awaits(x)'
  <2>1. \A x \in Conns : reg.fd[x] \in Fds
    BY RegistryFields DEF ServerIInv, Core, CoreType, Conns
  <2> QED BY <1>1, <2>1 DEF Awaits, StillToRead
<1>5. RestType'
  BY <1>1, <1>3 DEF ServerIInv, RestType
<1>6. OneClient'
  BY <1>1 DEF ServerIInv, OneClient, LiveConns
<1>7. Reported'
  BY <1>1, <1>4 DEF ServerIInv, Reported
<1>8. CallingBack'
  BY <1>1, <1>2, <1>3, <1>4 DEF ServerIInv, CallingBack
<1> QED BY <1>5, <1>6, <1>7, <1>8 DEF ServerIInv, ServerCore

LEMMA ReadResetIInv ==
  ASSUME ServerIInv, NEW c \in Conns, ReadReset(c)
  PROVE  ServerIInv'
<1>1. /\ Runs(c, "read") /\ ToNextCallback /\ UNCHANGED <<reg, unsent>>
      /\ ErrorTaken(reg.fd[c])
  BY DEF ReadReset
<1>2. ServerCore'
  BY <1>1 DEF ServerIInv, ServerCore, ToNextCallback
<1> QED BY <1>1, <1>2, ErrorTakenKeeps, CallbackKeeps

LEMMA ErrorCallbackIInv ==
  ASSUME ServerIInv, NEW c \in Conns, ErrorCallback(c)
  PROVE  ServerIInv'
<1>1. /\ Runs(c, "error") /\ ToNextCallback /\ UNCHANGED <<reg, unsent>>
      /\ ErrorTaken(reg.fd[c])
  BY DEF ErrorCallback
<1>2. ServerCore'
  BY <1>1 DEF ServerIInv, ServerCore, ToNextCallback
<1> QED BY <1>1, <1>2, ErrorTakenKeeps, CallbackKeeps

\* A connection that is not Connected may drop what it has to send.
LEMMA LessToSend ==
  ASSUME NEW r, NEW lv, NEW ac, NEW cs, NEW cn, NEW us, NEW tq,
         Core(r, lv, ac, cs, cn, us, tq), NEW c
  PROVE  Core(r, lv, ac, cs, cn, us \ {c}, tq)
<1>1. CoreType(r, lv, cs, cn, us \ {c}, tq)
  BY DEF Core, CoreType
<1>2. Standing(r, lv, cs, cn, us \ {c}, tq)
  BY DEF Core, Standing
<1> QED BY <1>1, <1>2 DEF Core

LEMMA HandleWriteIInv ==
  ASSUME ServerIInv, NEW c \in Conns, HandleWrite(c)
  PROVE  ServerIInv'
<1>1. /\ Runs(c, "write") /\ ToNextCallback
      /\ ErrorTaken(reg.fd[c]) \/ UNCHANGED peer
      /\ UNCHANGED <<live, accState, cstate, connections, taskQueue>>
  BY DEF HandleWrite, ToNextCallback
<1>2. c \in live \cap Conns
  BY <1>1, RunningFacts
<1>3. ServerCore' /\ reg'.fd = reg.fd
  <2>1. CASE cstate[c] = "Connected" /\ "write" \in reg.events[c]
    <3> DEFINE mask == reg.events[c] \ {"write"}
               left == unsent \ {c}
    <3>1. /\ mask \in Masks /\ "read" \in mask /\ c \notin left
          /\ left \in SUBSET (live \ {Acc}) /\ left \ {c} = unsent \ {c}
      BY <1>2, <2>1, RegistryFields DEF ServerIInv, Core, CoreType, Standing, Masks, Conns
    <3>2. reg' = SetEvents(reg, c, mask) /\ unsent' = left
      BY <2>1 DEF HandleWrite, DisableWriting
    <3> HIDE DEF mask, left
    <3>3. /\ Core(reg', live, accState, cstate, connections, left, taskQueue)
          /\ reg'.fd = reg.fd
      BY <1>2, <2>1, <3>1, <3>2, ArmResult DEF ServerIInv
    <3> QED BY <1>1, <3>2, <3>3 DEF ServerCore
  <2>2. CASE cstate[c] = "Connected" /\ "write" \notin reg.events[c]
    BY <1>1, <2>2 DEF HandleWrite, ServerIInv, ServerCore
  <2>3. CASE cstate[c] # "Connected"
    <3>1. reg' = reg /\ unsent' = unsent \ {c}
      BY <2>3 DEF HandleWrite
    <3> QED BY <1>1, <3>1, LessToSend DEF ServerIInv, ServerCore
  <2> QED BY <2>1, <2>2, <2>3
<1> QED BY <1>1, <1>3, ErrorTakenKeeps, CallbackKeeps

LEMMA ReadDataIInv ==
  ASSUME ServerIInv, NEW c \in Conns, ReadData(c)
  PROVE  ServerIInv'
<1>1. /\ Runs(c, "read") /\ arg' = c
      /\ peer' = [peer EXCEPT ![reg.fd[c]] = "quiet"]
      /\ UNCHANGED <<vars, accState, cstate, connections, held, unsent, backlog>>
  BY DEF ReadData
<1>2. /\ phase = "incallback" /\ calls # <<>> /\ Head(calls) = "read"
      /\ Head(active) = c /\ active[1] = c /\ c \in live /\ c # Acc
  BY <1>1, RunningFacts, ConnFacts
<1>3. \A i \in 2..Len(active) : active[i] \notin Conns
  BY <1>1, ReadingFacts
<1>4. RestType'
  BY <1>1, <1>2 DEF ServerIInv, RestType, PeerStates, vars, loopVars
<1>5. Core(reg, live, accState, cstate, connections, unsent, taskQueue)'
  BY <1>1 DEF ServerIInv, vars
<1>6. OneClient'
  BY <1>1 DEF ServerIInv, OneClient, LiveConns, vars
<1>7. Reported'
  <2>1. \A i \in 1..Len(active) : i # 1 => i \in 2..Len(active)
    BY DEF ServerIInv, RestType
  <2> QED BY <1>1, <1>2, <1>3, <2>1 DEF ServerIInv, Reported, vars, loopVars
<1>8. CallingBack'
  BY <1>1, <1>2, <1>3, ConnFacts DEF ServerIInv, CallingBack, vars, loopVars
<1> QED BY <1>4, <1>5, <1>6, <1>7, <1>8 DEF ServerIInv

LEMMA ReadEndIInv ==
  ASSUME ServerIInv, NEW c \in Conns, ReadEnd(c)
  PROVE  ServerIInv'
<1> DEFINE r == DisableAll(reg, c)
<1>1. Runs(c, "read") /\ HandleClose(c)
  BY DEF ReadEnd
<1>2. /\ phase = "incallback" /\ calls # <<>> /\ Head(calls) = "read"
      /\ Head(active) = c /\ active[1] = c /\ c \in live \cap Conns /\ c # Acc
  BY <1>1, RunningFacts, ConnFacts
<1>3. /\ cstate[c] = "Connected"
      /\ \A d \in live \cap Conns : cstate[d] = "Connected" => d = c
      /\ \A i \in 2..Len(active) : active[i] \notin Conns
  BY <1>1, ReadingFacts
<1>4. Claim(reg, cstate[c] \in {"Connected", "Disconnecting"}) = reg
  BY <1>3, ClaimTrue DEF ServerIInv, Core, CoreType, RegInv, Linked
<1>5. connections' = {}
  BY <1>1 DEF HandleClose, RemoveConnection, WithoutName, Name
<1>6. /\ cstate' = [cstate EXCEPT ![c] = "Disconnected"]
      /\ taskQueue' = Append(taskQueue, c) /\ arg' = c
      /\ Release(r, {}, held, Append(taskQueue, c), c)
      /\ UNCHANGED <<doomed, keepRunning, poolUp, phase, loopVars, accState, held, peer, backlog>>
  BY <1>1, <1>4, <1>5 DEF HandleClose, RemoveConnection
<1>7. /\ Core(r, live, accState, [cstate EXCEPT ![c] = "Disconnected"], {}, unsent,
              Append(taskQueue, c))
      /\ r.fd = reg.fd
  BY <1>2, <1>3, CloseResult DEF ServerIInv
<1> HIDE DEF r
<1>8. /\ Core(reg', live', accState, [cstate EXCEPT ![c] = "Disconnected"], {}, unsent',
              Append(taskQueue, c))
      /\ reg'.fd = r.fd
      /\ live' \subseteq live
      /\ \A x \in live : x \notin Conns \/ x \in held \cup {c} => x \in live'
  BY <1>6, <1>7, ReleaseResult
<1>9. /\ \A d \in Conns : d # c => cstate'[d] = cstate[d]
      /\ cstate'[c] = "Disconnected"
  BY <1>6 DEF ServerIInv, Core, CoreType
<1>10. RestType'
  BY <1>2, <1>6, <1>8 DEF ServerIInv, RestType, loopVars
<1>11. OneClient'
  BY <1>6, <1>8, <1>9 DEF ServerIInv, OneClient, LiveConns
<1>12. Reported'
  <2>1. \A i \in 1..Len(active) : i # 1 => i \in 2..Len(active)
    BY DEF ServerIInv, RestType
  <2>2. \A i \in 1..Len(active) : active[i] \in live'
    BY <1>2, <1>3, <1>8, <2>1 DEF ServerIInv, Reported
  <2> QED BY <1>2, <1>3, <1>6, <2>1, <2>2 DEF ServerIInv, Reported, loopVars
<1>13. CallingBack'
  <2>1. InSeq(c, taskQueue')
    BY <1>2, <1>6, InSeqAppend DEF ServerIInv, Core, CoreType, Conns
  <2> QED BY <1>2, <1>3, <1>6, <2>1, ConnFacts DEF ServerIInv, CallingBack, loopVars
<1>14. Core(reg, live, accState, cstate, connections, unsent, taskQueue)'
  BY <1>5, <1>6, <1>8
<1> QED BY <1>10, <1>11, <1>12, <1>13, <1>14 DEF ServerIInv

\* With nobody Connected the map may as well be empty.
LEMMA NobodyServed ==
  ASSUME NEW r, NEW lv, NEW ac, NEW cs, NEW cn, NEW us, NEW tq,
         Core(r, lv, ac, cs, cn, us, tq),
         \A d \in lv \cap Conns : cs[d] # "Connected"
  PROVE  Core(r, lv, ac, cs, {}, us, tq)
<1>1. CoreType(r, lv, cs, {}, us, tq)
  BY DEF Core, CoreType
<1>2. Standing(r, lv, cs, {}, us, tq)
  BY DEF Core, Standing
<1> QED BY <1>1, <1>2 DEF Core

LEMMA AcceptIInv ==
  ASSUME ServerIInv, NEW c \in Conns, Accept(c)
  PROVE  ServerIInv'
<1>1. /\ phase = "incallback" /\ calls # <<>> /\ Head(calls) = "read" /\ Head(active) = Acc
      /\ arg = NoEvent /\ backlog > 0 /\ c \in Conns \ live
      /\ connections' = {c} /\ arg' = c /\ backlog' = backlog - 1
      /\ revents' = [revents EXCEPT ![c] = {}]
      /\ cstate' = [cstate EXCEPT ![c] = "Connected"]
      /\ UNCHANGED <<doomed, taskQueue, keepRunning, poolUp, phase, active, calls, locked, cap,
                     accState, held>>
  BY DEF Accept, Runs, Served, WithoutName, Name
<1> DEFINE lost == Unreferenced(LiveConns, {}, held, taskQueue, NoEvent)
<1>2. PICK f \in FreeFds, p \in PeerStates :
        /\ reg' = ConnectFinished(Destroy(Constructed(c, f), lost), c)
        /\ live' = (live \ lost) \cup {c}
        /\ unsent' = unsent \ (lost \cup {c})
        /\ peer' = [peer EXCEPT ![f] = p]
  <2>1. WithoutName(c) = {}
    BY DEF WithoutName, Name
  <2> QED BY <2>1 DEF Accept
<1>3. /\ lost \in SUBSET (live \cap Conns)
      /\ \A d \in lost : d \notin held /\ ~InSeq(d, taskQueue)
  BY DEF Unreferenced, LiveConns
<1> HIDE DEF lost
<1>4. /\ backlog = 1 /\ backlog' = 0
      /\ \A d \in live \cap Conns : cstate[d] # "Connected"
  BY <1>1 DEF ServerIInv, OneClient, LiveConns
<1>5. f \in Fds /\ f # ListenFd /\ \A d \in live \cap Conns : reg.fd[d] # f
  BY DEF FreeFds, FdsOf, LiveConns
<1> DEFINE q == Construct(reg, c, f)
           r == Destroy(q, lost)
<1>6. Core(reg, live, accState, cstate, {}, unsent, taskQueue)
  BY <1>4, NobodyServed DEF ServerIInv
<1>7. /\ Core(q, live, accState, cstate, {}, unsent, taskQueue)
      /\ q.fd = [reg.fd EXCEPT ![c] = f]
      /\ q.map = reg.map
  BY <1>1, <1>5, <1>6, ConstructResult
<1>8. reg.map[f] = NoEvent
  <2> SUFFICES ASSUME reg.map[f] # NoEvent PROVE FALSE
    OBVIOUS
  <2> DEFINE e == reg.map[f]
  <2>1. e \in Events /\ reg.fd[e] = f /\ reg.index[e] # "kNew"
    BY <1>5, RegistryFields DEF ServerIInv, Core, CoreType, RegInv, Linked
  <2> HIDE DEF e
  <2>2. e \in live
    BY <2>1 DEF ServerIInv, Core, Standing
  <2> QED BY <1>5, <2>1, <2>2 DEF ServerIInv, Core, Sockets, Conns
<1> HIDE DEF q
<1>9. /\ Core(r, live \ lost, accState, cstate, {}, unsent \ lost, taskQueue)
      /\ r.fd = q.fd /\ r.map = q.map
  <2>1. \A d \in lost : d \notin {} /\ ~InSeq(d, taskQueue)
    BY <1>3
  <2>2. Core(q, live, accState, cstate, {}, unsent, taskQueue)
    BY <1>7
  <2> QED BY <1>3, <2>1, <2>2, LostResult
<1> HIDE DEF r
<1>10. r.fd[c] = f /\ \A d \in Conns \ {c} : r.fd[d] = reg.fd[d]
  <2>1. reg.fd \in [Events -> Fds] /\ c \in Events
    BY <1>1, RegistryFields DEF ServerIInv, Core, CoreType, Conns
  <2>2. r.fd = [reg.fd EXCEPT ![c] = f]
    BY <1>7, <1>9
  <2> QED BY <2>1, <2>2, ConnFacts
<1>11. r.map[r.fd[c]] = NoEvent
  BY <1>7, <1>8, <1>9, <1>10
<1>12. /\ c \in Conns \ (live \ lost) /\ r.fd[c] # ListenFd
       /\ \A d \in (live \ lost) \cap Conns : r.fd[d] # r.fd[c]
  BY <1>1, <1>5, <1>10
<1>13. /\ Core(EnableReading(r, c), (live \ lost) \cup {c}, accState,
               [cstate EXCEPT ![c] = "Connected"], {c}, (unsent \ lost) \ {c}, taskQueue)
       /\ EnableReading(r, c).fd = r.fd
  BY <1>9, <1>11, <1>12, ServeResult
<1>14. reg' = EnableReading(r, c) /\ unsent' = (unsent \ lost) \ {c}
  BY <1>2 DEF ConnectFinished, Constructed, q, r
<1>15. Core(reg, live, accState, cstate, connections, unsent, taskQueue)'
  BY <1>1, <1>2, <1>13, <1>14
<1>16. /\ \A d \in Conns : d # c => cstate'[d] = cstate[d]
       /\ cstate'[c] = "Connected"
  BY <1>1 DEF ServerIInv, Core, CoreType
<1>17. \A i \in 1..Len(active) : active[i] \in live /\ active[i] \notin Conns
  <2>1. active # <<>> /\ active \in Seq(Events)
    BY <1>1 DEF ServerIInv, CallingBack, RestType
  <2>2. active[1] = Acc
    BY <1>1, <2>1
  <2> QED BY <1>4, <2>2, ConnFacts DEF ServerIInv, Reported
<1>18. RestType'
  BY <1>1, <1>2, <1>3, <1>4, <1>5, ConnFacts DEF ServerIInv, RestType
<1>19. OneClient'
  BY <1>2, <1>4, <1>16 DEF OneClient, LiveConns
<1>20. Reported'
  BY <1>1, <1>2, <1>3, <1>17 DEF ServerIInv, Reported
<1>21. CallingBack'
  <2>1. \A i \in 2..Len(active) : i \in 1..Len(active)
    BY DEF ServerIInv, RestType
  <2>2. active # <<>> /\ OneRead(calls)
    BY <1>1 DEF ServerIInv, CallingBack
  <2> QED BY <1>1, <1>17, <2>1, <2>2, ConnFacts DEF CallingBack
<1> QED BY <1>15, <1>18, <1>19, <1>20, <1>21 DEF ServerIInv

\* What poll reports: entries of live events, each once; a connection among
\* them is Connected, and has something to read if it is said to.
LEMMA ServerPollIInv ==
  ASSUME ServerIInv, ServerPoll
  PROVE  ServerIInv'
<1> DEFINE sig == [f \in Ready |-> Sig(f)]
<1>1. /\ phase = "poll" /\ UNCHANGED netVars /\ Report(Ready, sig)
  BY DEF ServerPoll
<1>2. PICK order \in Orders(Ready) : active' = [i \in DOMAIN order |-> reg.kptr[order[i]]]
  BY <1>1 DEF Report
<1>3. /\ revents' = [e \in Events |->
            IF \E f \in Ready : reg.kptr[f] = e THEN sig[reg.fd[e]] ELSE revents[e]]
      /\ Grow(Cardinality(Ready)) /\ phase' = "task"
      /\ UNCHANGED <<reg, live, doomed, taskQueue, keepRunning, poolUp, calls, locked>>
  BY <1>1 DEF Report
<1> DEFINE n == Cardinality(Ready)
<1>4. n \in Nat
  <2>1. Ready \subseteq Fds
    BY DEF Ready, Registered
  <2>2. IsFiniteSet(Ready)
    BY <2>1, ConstantsAssumption, FS_Subset
  <2> QED BY <2>2, FS_CardinalityType
<1>5. /\ order \in [1..n -> Ready]
      /\ \A i, j \in 1..n : order[i] = order[j] => i = j
      /\ active' = [i \in 1..n |-> reg.kptr[order[i]]]
  BY <1>2 DEF Orders
<1> HIDE DEF n
<1>6. reg \in Registry /\ RegInv(reg)
  BY DEF ServerIInv, Core, CoreType
<1>7. \A f \in Ready : /\ f \in Fds
                       /\ reg.kptr[f] \in Events /\ reg.index[reg.kptr[f]] = "kAdded"
                       /\ reg.fd[reg.kptr[f]] = f
  BY <1>6, RegistryFields DEF RegInv, Linked, Ready, Registered
<1>8. \A f \in Ready : /\ reg.kptr[f] \in live
                       /\ reg.kptr[f] \in Conns => cstate[reg.kptr[f]] = "Connected"
  <2>1. \A e \in Events : reg.index[e] # "kNew" => e \in live
    BY DEF ServerIInv, Core, Standing
  <2>2. \A c \in live \cap Conns : reg.index[c] = "kAdded" => cstate[c] = "Connected"
    BY DEF ServerIInv, Core, Standing
  <2> QED BY <1>7, <2>1, <2>2
<1>9. ASSUME NEW f \in Ready, reg.kptr[f] \in Conns
      PROVE  HasInput(Sig(f)) => SomethingToRead(peer[f], Sig(f))
  <2>1. \A c \in live \cap Conns : reg.fd[c] # ListenFd
    BY DEF ServerIInv, Core, Sockets
  <2>2. f # ListenFd
    BY <1>7, <1>8, <1>9, <2>1
  <2>3. Sig(f) \subseteq Raw(peer[f])
    BY <2>2 DEF Sig
  <2>4. Raw("quiet") = {"OUT"} /\ Raw("urgent") = {"PRI", "OUT"}
    BY DEF Raw
  <2> QED BY <2>3, <2>4 DEF HasInput, SomethingToRead
<1>10. \A f \in Ready : revents'[reg.kptr[f]] = Sig(f)
  <2> SUFFICES ASSUME NEW f \in Ready PROVE revents'[reg.kptr[f]] = Sig(f)
    OBVIOUS
  <2>1. sig[f] = Sig(f)
    OBVIOUS
  <2> HIDE DEF sig
  <2>2. reg.kptr[f] \in Events /\ reg.fd[reg.kptr[f]] = f
    BY <1>7
  <2> QED BY <1>3, <2>1, <2>2
<1>11. /\ active' \in Seq(Events) /\ Len(active') = n
       /\ \A i \in 1..n : order[i] \in Ready /\ active'[i] = reg.kptr[order[i]]
  BY <1>4, <1>5, <1>7
<1>12. arg = NoEvent
  BY <1>1, BetweenCallbacks
<1>13. RestType'
  <2>1. \A f \in Fds : Sig(f) \in SUBSET Signals
    <3> SUFFICES ASSUME NEW f \in Fds PROVE Sig(f) \subseteq Signals
      OBVIOUS
    <3>1. peer[f] \in PeerStates
      BY DEF ServerIInv, RestType
    <3>2. Raw(peer[f]) \subseteq Signals
      BY <3>1, ServerAssumption DEF PeerStates, Raw
    <3>3. f = ListenFd => Sig(f) \subseteq {"IN"}
      BY DEF Sig
    <3>4. f # ListenFd => Sig(f) \subseteq Raw(peer[f])
      BY DEF Sig
    <3> QED BY <3>2, <3>3, <3>4, ServerAssumption
  <2>2. revents \in [Events -> SUBSET Signals] /\ Ready \subseteq Fds
    BY DEF ServerIInv, RestType, Ready, Registered
  <2>3. \A e \in Events : (\E f \in Ready : reg.kptr[f] = e) => revents'[e] \in SUBSET Signals
    BY <1>10, <2>1, <2>2
  <2>4. revents' \in [Events -> SUBSET Signals]
    BY <1>3, <2>2, <2>3
  <2>5. cap' \in Nat \ {0}
    BY <1>3, <1>4 DEF Grow, ServerIInv, RestType, n
  <2> QED BY <1>1, <1>3, <1>11, <2>4, <2>5 DEF ServerIInv, RestType, Phases, netVars
<1>14. Core(reg, live, accState, cstate, connections, unsent, taskQueue)'
  BY <1>1, <1>3 DEF ServerIInv, netVars
<1>15. OneClient'
  BY <1>1, <1>3 DEF ServerIInv, OneClient, LiveConns, netVars
<1>16. Reported'
  <2>1. ASSUME NEW i \in 1..Len(active') PROVE
          /\ active'[i] \in live'
          /\ active'[i] \in Conns =>
               /\ cstate'[active'[i]] = "Connected"
               /\ HasInput(revents'[active'[i]]) =>
                    SomethingToRead(peer'[reg'.fd[active'[i]]], revents'[active'[i]])
    <3>1. PICK f \in Ready : active'[i] = reg.kptr[f]
      BY <1>11, <2>1
    <3> DEFINE e == reg.kptr[f]
    <3>2. /\ e \in live /\ reg.fd[e] = f /\ revents'[e] = Sig(f)
          /\ e \in Conns => cstate[e] = "Connected"
      BY <1>7, <1>8, <1>10, <3>1
    <3>3. e \in Conns => (HasInput(Sig(f)) => SomethingToRead(peer[f], Sig(f)))
      BY <1>9
    <3> HIDE DEF e
    <3>4. UNCHANGED <<live, cstate, peer, reg>>
      BY <1>1, <1>3 DEF netVars
    <3>5. active'[i] = e
      BY <3>1 DEF e
    <3> QED BY <3>2, <3>3, <3>4, <3>5
  <2>2. ASSUME NEW i \in 1..Len(active'), NEW j \in 1..Len(active'), active'[i] = active'[j]
        PROVE  i = j
    <3>1. order[i] = order[j]
      BY <1>7, <1>11, <2>2
    <3> QED BY <1>5, <1>11, <3>1
  <2> QED BY <2>1, <2>2 DEF Reported, Awaits
<1>17. CallingBack'
  BY <1>1, <1>3, <1>12 DEF CallingBack, netVars
<1> QED BY <1>13, <1>14, <1>15, <1>16, <1>17 DEF ServerIInv

\* The clients.
LEMMA ArriveIInv ==
  ASSUME ServerIInv, InTurn, Arrive
  PROVE  ServerIInv'
<1>1. /\ backlog = 0 /\ backlog' = 1
      /\ \A c \in LiveConns : cstate[c] # "Connected"
      /\ UNCHANGED <<vars, accState, cstate, connections, held, unsent, arg, peer>>
  BY DEF InTurn, Arrive
<1>2. Cardinality(LiveConns) \in Nat
  <2>1. IsFiniteSet(LiveConns)
    BY ServerAssumption, FS_Subset DEF LiveConns, Conns
  <2> QED BY <2>1, FS_CardinalityType
<1>3. Cardinality(LiveConns) < Cardinality(Conns)
  BY <1>1, <1>2 DEF Arrive
<1>4. 1 \in 0..Cardinality(Conns)
  BY <1>2, <1>3, ConnFacts
<1>5. RestType'
  BY <1>1, <1>4 DEF ServerIInv, RestType, vars, loopVars
<1>6. Core(reg, live, accState, cstate, connections, unsent, taskQueue)'
  BY <1>1 DEF ServerIInv, vars
<1>7. OneClient'
  BY <1>1 DEF ServerIInv, OneClient, LiveConns, vars
<1>8. Reported' /\ CallingBack'
  BY <1>1 DEF ServerIInv, Reported, CallingBack, vars, loopVars, Awaits
<1> QED BY <1>5, <1>6, <1>7, <1>8 DEF ServerIInv

LEMMA PeerActsIInv ==
  ASSUME ServerIInv, PeerActs
  PROVE  ServerIInv'
<1>1. UNCHANGED <<vars, accState, cstate, connections, held, unsent, arg, backlog>>
  BY DEF PeerActs
<1>2. PICK f \in Fds, p \in PeerStates \ {"quiet"} :
        peer' = [peer EXCEPT ![f] = p] /\ (p = "urgent" => peer[f] \in {"quiet", "urgent"})
  <2>1. PICK c \in LiveConns :
          \/ /\ peer[reg.fd[c]] \in {"quiet", "urgent"}
             /\ \E p \in {"urgent", "data", "fin"} : peer' = [peer EXCEPT ![reg.fd[c]] = p]
          \/ peer' = [peer EXCEPT ![reg.fd[c]] = "rst"]
    BY DEF PeerActs
  <2>2. reg.fd[c] \in Fds
    BY RegistryFields DEF ServerIInv, Core, CoreType, LiveConns
  <2>3. {"urgent", "data", "fin", "rst"} \subseteq PeerStates \ {"quiet"}
    BY DEF PeerStates
  <2> QED BY <2>1, <2>2, <2>3
<1>3. peer' \in [Fds -> PeerStates] /\ StillToRead
  BY <1>2 DEF ServerIInv, RestType, StillToRead, SomethingToRead
<1>4. \A x \in Conns : Awaits(x) => Awaits(x)'
  <2>1. \A x \in Conns : reg.fd[x] \in Fds
    BY RegistryFields DEF ServerIInv, Core, CoreType, Conns
  <2> QED BY <1>1, <1>3, <2>1 DEF Awaits, StillToRead, vars, loopVars
<1>5. RestType'
  BY <1>1, <1>3 DEF ServerIInv, RestType, vars, loopVars
<1>6. Core(reg, live, accState, cstate, connections, unsent, taskQueue)'
  BY <1>1 DEF ServerIInv, vars
<1>7. OneClient'
  BY <1>1 DEF ServerIInv, OneClient, LiveConns, vars
<1>8. Reported' /\ CallingBack'
  BY <1>1, <1>4 DEF ServerIInv, Reported, CallingBack, vars, loopVars
<1> QED BY <1>5, <1>6, <1>7, <1>8 DEF ServerIInv

-----------------------------------------------------------------------------
(* The invariant is inductive.                                             *)

LEMMA ServerInitIInv == ServerInit => ServerIInv
<1> SUFFICES ASSUME ServerInit PROVE ServerIInv
  OBVIOUS
<1>1. PICK fd \in [Events -> Fds] : reg = EmptyRegistry(fd)
  BY DEF ServerInit, Init
<1>2. reg \in Registry /\ RegInv(reg)
  BY <1>1, EmptyRegistryInv
<1>3. \A e \in Events : reg.index[e] = "kNew"
  BY <1>1 DEF EmptyRegistry
<1>4. /\ live = {} /\ active = <<>> /\ calls = <<>> /\ taskQueue = <<>> /\ phase = "idle"
      /\ accState = "Inited" /\ connections = {} /\ unsent = {} /\ arg = NoEvent /\ backlog = 0
      /\ cstate = [c \in Conns |-> "Connecting"]
  BY DEF ServerInit, Init
<1>5. RestType
  <2>1. active \in Seq(Events) /\ calls \in Seq(Callbacks)
    BY <1>4
  <2>2. 0 \in 0..Cardinality(Conns)
    BY ConnFacts
  <2>3. /\ revents = [e \in Events |-> {}] /\ locked = [e \in Events |-> FALSE]
        /\ keepRunning = TRUE /\ poolUp = FALSE /\ cap = InitialEntries /\ doomed = {} /\ held = {}
        /\ peer = [f \in Fds |-> "quiet"]
    BY DEF ServerInit, Init
  <2>4. peer \in [Fds -> PeerStates] /\ cap \in Nat \ {0} /\ phase \in Phases
    BY <1>4, <2>3, ConstantsAssumption DEF PeerStates, Phases
  <2> QED BY <1>4, <2>1, <2>2, <2>3, <2>4 DEF RestType
<1>6. CoreType(reg, live, cstate, connections, unsent, taskQueue)
  <2>1. taskQueue \in Seq(Events \cup {AppTask})
    BY <1>4
  <2> QED BY <1>2, <1>4, <2>1 DEF CoreType, ConnStates
<1>7. /\ Sockets(reg, live, accState)
      /\ Standing(reg, live, cstate, connections, unsent, taskQueue)
      /\ Closing(reg, live, cstate, taskQueue)
  BY <1>3, <1>4 DEF Sockets, Standing, Closing
<1>8. OneClient /\ Reported /\ CallingBack
  BY <1>4 DEF OneClient, Reported, CallingBack, LiveConns
<1> QED BY <1>2, <1>5, <1>6, <1>7, <1>8 DEF ServerIInv, Core

LEMMA TurnNextIInv == ServerIInv /\ [TurnNext]_serverVars => ServerIInv'
<1> SUFFICES ASSUME ServerIInv, [TurnNext]_serverVars PROVE ServerIInv'
  OBVIOUS
<1>1. CASE ServerStep
  <2>1. CASE ServerPoll
    BY <2>1, ServerPollIInv
  <2>2. CASE UNCHANGED netVars /\ (NoTask \/ StartTask \/ TaskReturns)
    BY <2>2, ThreadIInv, ServerTaskReturns
  <2>3. CASE DisconnectTask
    BY <2>3, DisconnectTaskIInv
  <2>4. CASE UNCHANGED netVars /\ HandleEvent
    BY <2>4, ServerHandles
  <2>5. CASE \E c \in Conns :
               \/ Accept(c) \/ ReadData(c) \/ ReadEnd(c) \/ ReadReset(c)
               \/ ErrorCallback(c) \/ HandleWrite(c) \/ BrokenPipe(c)
    BY <2>5, AcceptIInv, ReadDataIInv, ReadEndIInv, ReadResetIInv,
       ErrorCallbackIInv, HandleWriteIInv, BrokenPipeIInv
  <2>6. CASE AppReturns
    BY <2>6, AppReturnsIInv
  <2>7. CASE CallbacksDone
    BY <2>7, CallbacksDoneIInv
  <2>8. CASE UNCHANGED netVars /\ EndIteration
    BY <2>8, ThreadIInv
  <2> QED BY <1>1, <2>1, <2>2, <2>3, <2>4, <2>5, <2>6, <2>7, <2>8 DEF ServerStep
<1>2. CASE AppCalls
  <2>1. CASE Start
    BY <2>1, StartIInv
  <2>2. CASE \E c \in Conns : Send(c) \/ Hold(c) \/ Drop(c) \/ (arg = c /\ Disconnect(c))
    BY <2>2, SendIInv, HoldIInv, DropIInv, DisconnectIInv
  <2>3. CASE LoopCall
    BY <2>3, LoopCallIInv
  <2>4. CASE UNCHANGED netVars /\ ~poolUp /\ RunLoop
    BY <2>4, ThreadIInv
  <2> QED BY <1>2, <2>1, <2>2, <2>3, <2>4 DEF AppCalls
<1>3. CASE PeerActs
  BY <1>3, PeerActsIInv
<1>4. CASE InTurn /\ Arrive
  BY <1>4, ArriveIInv
<1>5. CASE UNCHANGED serverVars
  <2>1. RestType' /\ OneClient'
    BY <1>5 DEF ServerIInv, RestType, OneClient, LiveConns, serverVars, netVars, vars, loopVars
  <2>2. Core(reg, live, accState, cstate, connections, unsent, taskQueue)'
    BY <1>5 DEF ServerIInv, serverVars, netVars, vars
  <2>3. Reported' /\ CallingBack'
    BY <1>5 DEF ServerIInv, Reported, CallingBack, serverVars, netVars, vars, loopVars, Awaits
  <2> QED BY <2>1, <2>2, <2>3 DEF ServerIInv
<1> QED BY <1>1, <1>2, <1>3, <1>4, <1>5 DEF TurnNext

LEMMA TurnSpecIInv == TurnSpec => []ServerIInv
<1>1. ServerInit /\ [][TurnNext]_serverVars => []ServerIInv
  BY ServerInitIInv, TurnNextIInv, PTL
<1> QED BY <1>1, PTL DEF TurnSpec

-----------------------------------------------------------------------------
(* The theorems.                                                           *)

\* Under the server the loop stays sound: the Poller, the kernel and the events
\* agree, no assert fails, and no destroyed event is used, whichever pointer to
\* a connection is the last to go.
THEOREM LoopSoundHolds == TurnSpec => []LoopSound
<1>1. ServerIInv => LoopSound
  <2> SUFFICES ASSUME ServerIInv PROVE LoopSound
    OBVIOUS
  <2>1. reg \in Registry /\ RegInv(reg) /\ (\A e \in Events : reg.index[e] # "kNew" => e \in live)
    BY DEF ServerIInv, Core, CoreType, Standing
  <2>2. RegistryAgrees
    BY <2>1, NoEventAssumption, RegistryFields DEF RegInv, Linked, RegistryAgrees
  <2>3. AssertsHold
    BY <2>1 DEF RegInv, Linked, AssertsHold
  <2>4. NoUseAfterFree
    BY DEF ServerIInv, Reported, NoUseAfterFree
  <2> QED BY <2>2, <2>3, <2>4, ServerTypes DEF LoopSound
<1> QED BY <1>1, TurnSpecIInv, PTL

\* The map of connections and their states agree, whoever closes them.
THEOREM ServedAreConnectedHolds == TurnSpec => []ServedAreConnected
<1>1. ServerIInv => ServedAreConnected
  BY DEF ServerIInv, Core, CoreType, Standing, ServedAreConnected, LiveConns
<1> QED BY <1>1, TurnSpecIInv, PTL

\* No message waits with writing disabled.
THEOREM SendsArmedHolds == TurnSpec => []SendsArmed
<1>1. ServerIInv => SendsArmed
  <2> SUFFICES ASSUME ServerIInv, NEW c \in LiveConns, cstate[c] = "Connected", c \in unsent
               PROVE  reg.kptr[reg.fd[c]] = c /\ "write" \in reg.kmask[reg.fd[c]]
    BY DEF SendsArmed
  <2>1. c \in Events /\ reg.index[c] = "kAdded" /\ "write" \in reg.events[c]
    BY DEF ServerIInv, Core, Standing, LiveConns, Conns
  <2>2. reg.fd[c] \in Fds
    BY <2>1, RegistryFields DEF ServerIInv, Core, CoreType
  <2> QED BY <2>1, <2>2, NoEventAssumption DEF ServerIInv, Core, RegInv, Linked
<1> QED BY <1>1, TurnSpecIInv, PTL

\* When handleRead is called there is something to read, or poll has reported an
\* urgent byte and no input: only such a byte makes recv stop the loop.
THEOREM BlocksForUrgentOnlyHolds == TurnSpec => []BlocksForUrgentOnly
<1>1. ServerIInv => BlocksForUrgentOnly
  BY ReadingFacts DEF BlocksForUrgentOnly, Awaits
<1> QED BY <1>1, TurnSpecIInv, PTL

=============================================================================
