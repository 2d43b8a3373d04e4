----------------------------- MODULE TcpServer -----------------------------
(***************************************************************************)
(* A TCP server on the event loop: Acceptor, TcpConnection and TcpServer.  *)
(* A connection and its event are one object here, alive while something   *)
(* holds a pointer to it: the server's map of connections, a queued task,  *)
(* the frame that calls the application back, or a copy the application    *)
(* keeps.  When the last pointer goes, the event is deleted and the socket *)
(* is closed.                                                              *)
(***************************************************************************)
EXTENDS EventLoop

CONSTANTS Acc,        \* the acceptor's event
          ListenFd    \* its listening socket

Conns == Events \ {Acc}

ASSUME ServerAssumption ==
  /\ IsFiniteSet(Events)
  /\ Acc \in Events /\ ListenFd \in Fds
  /\ OneShot = {} /\ Cardinality(Fds) <= InitialEntries
  /\ {"IN", "PRI", "OUT", "ERR", "HUP"} \subseteq Signals

VARIABLES
  accState,     \* Acceptor::state_
  cstate,       \* TcpConnection::state_
  connections,  \* TcpServer::connections_, the connections it holds
  held,         \* connections of which the application keeps a copy
  unsent,       \* connections whose write_buffer_ has bytes to send
  arg,          \* the connection the application is being called back for
  peer,         \* what the other end of a descriptor has done
  backlog       \* clients waiting to be accepted

netVars == <<accState, cstate, connections, held, unsent, arg, peer, backlog>>
serverVars == <<vars, netVars>>

AcceptorStates == {"Inited", "Started", "Stoped"}
ConnStates == {"Disconnected", "Connecting", "Connected", "Disconnecting"}

\* "urgent": an urgent byte has come and nothing behind it.  "dead": the error
\* of the reset has been taken, the descriptor stays at its end.
PeerStates == {"quiet", "urgent", "data", "fin", "rst", "dead"}

ServerTypeOK ==
  /\ TypeOK
  /\ accState \in AcceptorStates
  /\ cstate \in [Conns -> ConnStates]
  /\ connections \cup held \cup unsent \subseteq live \ {Acc}
  /\ arg \in (live \ {Acc}) \cup {NoEvent}
  /\ peer \in [Fds -> PeerStates]
  /\ backlog \in 0..Cardinality(Conns)

ServerInit ==
  /\ Init
  /\ accState = "Inited"
  /\ cstate = [c \in Conns |-> "Connecting"]
  /\ connections = {} /\ held = {} /\ unsent = {}
  /\ arg = NoEvent
  /\ peer = [f \in Fds |-> "quiet"]
  /\ backlog = 0

-----------------------------------------------------------------------------
(* Lifetimes.                                                              *)

\* The key of a connection in the map: address, port and connId_, which is
\* set once and never changes.
Name(c) == 1

WithoutName(c) == {d \in connections : Name(d) # Name(c)}

\* Mutant: a posted disconnect is bound to a plain pointer.
UnreferencedByTasks(S, map, copies, queue, frame) == S \ (map \cup copies \cup {frame})

\* Connections nobody points to any more.
Unreferenced(S, map, copies, queue, frame) ==
  {c \in S \ (map \cup copies \cup {frame}) : ~InSeq(c, queue)}

FdsOf(r, S) == {r.fd[c] : c \in S}

\* The destructors: the event is deleted, not removed, and the socket closes.
Destroy(r, S) ==
  [r EXCEPT !.kptr = [f \in Fds |-> IF f \in FdsOf(r, S) THEN NoEvent ELSE @[f]],
            !.kmask = [f \in Fds |-> IF f \in FdsOf(r, S) THEN {} ELSE @[f]]]

LiveConns == live \cap Conns

FreeFds == Fds \ ({ListenFd} \cup FdsOf(reg, LiveConns))

-----------------------------------------------------------------------------
(* The application's calls, made where it has control.                     *)

CanCall == phase \in {"idle", "intask"} \/ arg # NoEvent

Reach(c) == CanCall /\ c \in held \cup {arg}

\* TcpServer::start and Acceptor::start: the listening socket is registered
\* for reading; an acceptor that is Started already has nothing to do.  The
\* server never calls Acceptor::stop.
Start ==
  /\ CanCall
  /\ accState # "Started"
  /\ accState' = "Started"
  /\ reg' = EnableReading(IF accState = "Inited" THEN Construct(reg, Acc, ListenFd) ELSE reg, Acc)
  /\ live' = live \cup {Acc}
  /\ UNCHANGED <<doomed, taskQueue, keepRunning, poolUp, phase, loopVars,
                 cstate, connections, held, unsent, arg, peer, backlog>>

\* Mutant: the message is buffered, writing is not enabled.
SendNotArmed(c) ==
  /\ Reach(c)
  /\ cstate[c] = "Connected"
  /\ unsent' = unsent \cup {c}
  /\ UNCHANGED <<vars, accState, cstate, connections, held, arg, peer, backlog>>

\* Both send functions; without a connection they drop the message.
Send(c) ==
  /\ Reach(c)
  /\ cstate[c] = "Connected"
  /\ reg' = IF "write" \in reg.events[c] THEN reg ELSE EnableWriting(reg, c)
  /\ unsent' = unsent \cup {c}
  /\ UNCHANGED <<live, doomed, taskQueue, keepRunning, poolUp, phase, loopVars,
                 accState, cstate, connections, held, arg, peer, backlog>>

Disconnected(r, c) == RemoveEvent(IF cstate[c] = "Connected" THEN DisableAll(r, c) ELSE r, c)

ToConnecting(c) ==
  cstate' = IF cstate[c] = "Connected" THEN [cstate EXCEPT ![c] = "Connecting"] ELSE cstate

\* An application asks state() first: a second disconnect removes the event again.
Disconnect(c) ==
  /\ Reach(c)
  /\ cstate[c] = "Connected"
  /\ reg' = Disconnected(reg, c)
  /\ ToConnecting(c)
  /\ UNCHANGED <<live, doomed, taskQueue, keepRunning, poolUp, phase, loopVars,
                 accState, connections, held, unsent, arg, peer, backlog>>

Hold(c) ==
  /\ arg = c
  /\ held' = held \cup {c}
  /\ UNCHANGED <<vars, accState, cstate, connections, unsent, arg, peer, backlog>>

\* Pointers go; what nobody points to is destroyed.
Release(r, map, copies, queue, frame) ==
  LET lost == Unreferenced(LiveConns, map, copies, queue, frame)
  IN  /\ reg' = Destroy(r, lost)
      /\ live' = live \ lost
      /\ unsent' = unsent \ lost

Drop(c) ==
  /\ CanCall
  /\ c \in held
  /\ held' = held \ {c}
  /\ Release(reg, connections, held', taskQueue, arg)
  /\ UNCHANGED <<doomed, taskQueue, keepRunning, poolUp, phase, loopVars,
                 accState, cstate, connections, arg, peer, backlog>>

LoopCall ==
  /\ CanCall
  /\ ExitLoop \/ (Len(taskQueue) < MaxTasks /\ PostTask)
  /\ UNCHANGED netVars

AppReturns ==
  /\ arg # NoEvent
  /\ arg' = NoEvent
  /\ calls' = Tail(calls)
  /\ Release(reg, connections, held, taskQueue, NoEvent)
  /\ UNCHANGED <<doomed, taskQueue, keepRunning, poolUp, phase, active, revents, locked, cap,
                 accState, cstate, connections, held, peer, backlog>>

-----------------------------------------------------------------------------
(* The kernel and the clients.                                             *)

\* Signals of a connected descriptor, before the mask is applied; an urgent
\* byte alone is no input for recv.
Raw(p) ==
  CASE p = "quiet"          -> {"OUT"}
    [] p = "urgent"         -> {"PRI", "OUT"}
    [] p \in {"data", "fin"} -> {"IN", "OUT"}
    [] p = "rst"            -> {"IN", "OUT", "ERR", "HUP"}
    [] p = "dead"           -> {"IN", "OUT", "HUP"}

Sig(f) ==
  Reportable(reg.kmask[f]) \cap
    (IF f = ListenFd THEN (IF backlog > 0 THEN {"IN"} ELSE {}) ELSE Raw(peer[f]))

Ready == {f \in Registered : Sig(f) # {}}

ServerPoll ==
  /\ phase = "poll"
  /\ Report(Ready, [f \in Ready |-> Sig(f)])
  /\ UNCHANGED netVars

\* Bound: the model has Conns objects for connections.
Arrive ==
  /\ accState = "Started"
  /\ Cardinality(LiveConns) + backlog < Cardinality(Conns)
  /\ backlog' = backlog + 1
  /\ UNCHANGED <<vars, accState, cstate, connections, held, unsent, arg, peer>>

PeerActs ==
  /\ \E c \in LiveConns :
       LET f == reg.fd[c]
       IN  \/ /\ peer[f] \in {"quiet", "urgent"}
              /\ peer' \in {[peer EXCEPT ![f] = p] : p \in {"urgent", "data", "fin"}}
           \/ /\ peer[f] \in {"quiet", "urgent", "data", "fin"}
              /\ peer' = [peer EXCEPT ![f] = "rst"]
  /\ UNCHANGED <<vars, accState, cstate, connections, held, unsent, arg, backlog>>

-----------------------------------------------------------------------------
(* The library's callbacks.                                                *)

\* Taking the error of a reset, as recv, send and SO_ERROR do, clears it.
ErrorTaken(f) == peer' = IF peer[f] = "rst" THEN [peer EXCEPT ![f] = "dead"] ELSE peer

Runs(e, callback) ==
  /\ phase = "incallback"
  /\ arg = NoEvent
  /\ calls # <<>>
  /\ Head(active) = e
  /\ Head(calls) = callback

Constructed(c, f) == Construct(reg, c, f)

\* TcpServer::newConnection: the new connection takes the place of the one
\* stored under its name.
Served(c) == WithoutName(c) \cup {c}

\* Reading is enabled; the state is set and the application called in Accept.
ConnectFinished(r, c) == EnableReading(r, c)

\* Acceptor::handleRead, with all it calls.
Accept(c) ==
  /\ Runs(Acc, "read")
  /\ backlog > 0
  /\ c \in Conns \ live
  /\ \E f \in FreeFds, p \in PeerStates \ {"dead"} :
       LET lost == Unreferenced(LiveConns, WithoutName(c), held, taskQueue, NoEvent)
       IN  /\ reg' = ConnectFinished(Destroy(Constructed(c, f), lost), c)
           /\ live' = (live \ lost) \cup {c}
           /\ unsent' = unsent \ (lost \cup {c})
           /\ peer' = [peer EXCEPT ![f] = p]
  /\ revents' = [revents EXCEPT ![c] = {}]
  /\ connections' = Served(c)
  /\ cstate' = [cstate EXCEPT ![c] = "Connected"]
  /\ backlog' = backlog - 1
  /\ arg' = c
  /\ UNCHANGED <<doomed, taskQueue, keepRunning, poolUp, phase, active, calls, locked, cap,
                 accState, held>>

\* Mutant: removeConnection does not erase the connection.
HandleCloseNoErase(c) ==
  /\ cstate' = [cstate EXCEPT ![c] = "Disconnected"]
  /\ taskQueue' = Append(taskQueue, c)
  /\ arg' = c
  /\ reg' = DisableAll(reg, c)
  /\ UNCHANGED <<live, doomed, keepRunning, poolUp, phase, loopVars, connections, unsent,
                 accState, held, peer, backlog>>

\* The task keeps a pointer to the connection.
RemoveConnection(c) ==
  /\ connections' = WithoutName(c)
  /\ taskQueue' = Append(taskQueue, c)

HandleClose(c) ==
  /\ cstate' = [cstate EXCEPT ![c] = "Disconnected"]
  /\ RemoveConnection(c)
  /\ arg' = c
  /\ Release(DisableAll(Claim(reg, cstate[c] \in {"Connected", "Disconnecting"}), c),
             connections', held, taskQueue', c)
  /\ UNCHANGED <<doomed, keepRunning, poolUp, phase, loopVars,
                 accState, held, peer, backlog>>

\* With an urgent byte alone handleRead takes no step: the sockets block, recv
\* goes past the byte and waits for the client.
Blocked == \E c \in Conns : Runs(c, "read") /\ peer[reg.fd[c]] = "urgent"

\* Mutant: handleRead goes on reading after it has got something.
ReadDataAgain(c) ==
  /\ Runs(c, "read")
  /\ peer[reg.fd[c]] = "data"
  /\ peer' = [peer EXCEPT ![reg.fd[c]] = "quiet"]
  /\ arg' = c
  /\ calls' = <<"read">> \o calls
  /\ UNCHANGED <<reg, live, doomed, taskQueue, keepRunning, poolUp, phase, active, revents,
                 locked, cap, accState, cstate, connections, held, unsent, backlog>>

ReadData(c) ==
  /\ Runs(c, "read")
  /\ peer[reg.fd[c]] = "data"
  /\ peer' = [peer EXCEPT ![reg.fd[c]] = "quiet"]
  /\ arg' = c
  /\ UNCHANGED <<vars, accState, cstate, connections, held, unsent, backlog>>

ToNextCallback ==
  /\ calls' = Tail(calls)
  /\ UNCHANGED <<live, doomed, taskQueue, keepRunning, poolUp, phase, active, revents,
                 locked, cap, accState, cstate, connections, held, arg, backlog>>

\* Mutant: the end of the stream is not noticed.
ReadEndIgnored(c) ==
  /\ Runs(c, "read")
  /\ peer[reg.fd[c]] \in {"fin", "dead"}
  /\ ToNextCallback
  /\ UNCHANGED <<reg, unsent, peer>>

\* recv returns 0.
ReadEnd(c) ==
  /\ Runs(c, "read")
  /\ peer[reg.fd[c]] \in {"fin", "dead"}
  /\ HandleClose(c)

\* recv fails; handleError only logs.
ReadReset(c) ==
  /\ Runs(c, "read")
  /\ peer[reg.fd[c]] = "rst"
  /\ ErrorTaken(reg.fd[c])
  /\ ToNextCallback
  /\ UNCHANGED <<reg, unsent>>

\* handleError asks for SO_ERROR, so that recv, called next, returns 0.  The
\* kernel raises HUP together with IN, and the close callback is called for HUP
\* without IN only: no event of a connection that is read gets it.
ErrorCallback(c) ==
  /\ Runs(c, "error")
  /\ ErrorTaken(reg.fd[c])
  /\ ToNextCallback
  /\ UNCHANGED <<reg, unsent>>

\* Mutant: nothing is sent and writing is disabled.
HandleWriteNothing(c) ==
  /\ Runs(c, "write")
  /\ reg' = DisableWriting(reg, c)
  /\ ToNextCallback
  /\ UNCHANGED <<peer, unsent>>

\* handleWrite sends the whole buffer, or drops it when not connected.
HandleWrite(c) ==
  /\ Runs(c, "write")
  /\ IF cstate[c] = "Connected"
       THEN IF "write" \in reg.events[c]
              THEN /\ reg' = DisableWriting(reg, c)
                   /\ unsent' = unsent \ {c}
                   /\ ErrorTaken(reg.fd[c])
              ELSE UNCHANGED <<reg, unsent, peer>>
       ELSE unsent' = unsent \ {c} /\ UNCHANGED <<reg, peer>>
  /\ ToNextCallback

\* Sending after a reset raises SIGPIPE, which ends the program unless the
\* application ignores the signal.
BrokenPipe(c) ==
  /\ Runs(c, "write")
  /\ cstate[c] = "Connected"
  /\ "write" \in reg.events[c]
  /\ peer[reg.fd[c]] = "dead"
  /\ phase' = "aborted"
  /\ UNCHANGED <<reg, live, doomed, taskQueue, keepRunning, poolUp, loopVars, netVars>>

CallbacksDone ==
  /\ calls = <<>> /\ arg = NoEvent
  /\ EventHandled
  /\ UNCHANGED netVars

\* The posted TcpConnection::disconnect; the task's pointer goes with it.
DisconnectTask ==
  /\ phase = "task"
  /\ taskQueue # <<>>
  /\ Head(taskQueue) \in Conns
  /\ LET c == Head(taskQueue)
     IN  /\ ToConnecting(c)
         /\ taskQueue' = Tail(taskQueue)
         /\ Release(Disconnected(reg, c), connections, held, taskQueue', NoEvent)
  /\ phase' = "handle"
  /\ UNCHANGED <<doomed, keepRunning, poolUp, loopVars,
                 accState, connections, held, arg, peer, backlog>>

-----------------------------------------------------------------------------
(* The server among its application, the clients and the loop.             *)

ServerStep ==
  \/ ServerPoll
  \/ UNCHANGED netVars /\ (NoTask \/ StartTask \/ TaskReturns)
  \/ DisconnectTask
  \/ UNCHANGED netVars /\ HandleEvent
  \/ \E c \in Conns :
       \/ Accept(c) \/ ReadData(c) \/ ReadEnd(c) \/ ReadReset(c)
       \/ ErrorCallback(c) \/ HandleWrite(c) \/ BrokenPipe(c)
  \/ AppReturns
  \/ CallbacksDone
  \/ UNCHANGED netVars /\ EndIteration

AppCalls ==
  \/ Start
  \/ \E c \in Conns : Send(c) \/ Hold(c) \/ Drop(c) \/ (arg = c /\ Disconnect(c))
  \/ LoopCall
  \/ UNCHANGED netVars /\ ~poolUp /\ RunLoop

\* The loop's thread is scheduled, callbacks and tasks return.
ServerFairness == WF_serverVars(ServerStep)

\* Clients in turn: none comes while the server serves another.
InTurn == backlog = 0 /\ \A c \in LiveConns : cstate[c] # "Connected"

TurnNext == ServerStep \/ AppCalls \/ PeerActs \/ (InTurn /\ Arrive)

TurnSpec == ServerInit /\ [][TurnNext]_serverVars /\ ServerFairness

\* Clients come when they like.
CrowdNext == ServerStep \/ AppCalls \/ PeerActs \/ Arrive

CrowdSpec == ServerInit /\ [][CrowdNext]_serverVars /\ ServerFairness

-----------------------------------------------------------------------------
(* Safety.                                                                 *)

\* Under the server the loop is as sound as it is by itself, although a
\* connection is destroyed when the last pointer to it goes, be it the map's,
\* a task's or the application's: no destroyed event is used, the Poller, the
\* kernel and the events agree, no assert fails (TcpServer.cpp:53-61).
LoopSound == ServerTypeOK /\ NoUseAfterFree /\ RegistryAgrees /\ AssertsHold

\* The map of connections and the states agree across closing by either side:
\* every Connected connection is in the map, and the map holds none that is
\* destroyed or lost (TcpServer.cpp:40-61, TcpConnection.cpp:58-121).
ServedAreConnected ==
  /\ \A c \in LiveConns : cstate[c] = "Connected" => c \in connections
  /\ \A c \in connections : c \in live /\ cstate[c] # "Disconnected"

\* No message is stranded: while a connection has bytes to send, the kernel
\* is asked to tell when it can (TcpConnection::send and handleWrite enable and
\* disable writing on their own).
SendsArmed ==
  \A c \in LiveConns : cstate[c] = "Connected" /\ c \in unsent =>
     reg.kptr[reg.fd[c]] = c /\ "write" \in reg.kmask[reg.fd[c]]

\* What poll has reported is still there for recv; only PRI without IN says
\* nothing of what recv will find.
SomethingToRead(p, sig) == p # "quiet" /\ ("IN" \in sig => p # "urgent")

\* The sockets block, and recv, called in handleRead (TcpConnection.cpp:133),
\* stops the whole loop when it finds nothing.  That happens for one reason
\* only: poll reported an urgent byte and no input (EpollFdEvent.cpp:13, 64),
\* and none has come since.  Input that was reported is still there when its
\* callback runs, whatever task, callbacks and client do in between.
BlocksForUrgentOnly ==
  \A c \in Conns : Runs(c, "read") => SomethingToRead(peer[reg.fd[c]], revents[c])

-----------------------------------------------------------------------------
(* Liveness.                                                               *)

PeerGone(c) == c \in live /\ cstate[c] = "Connected" /\ peer[reg.fd[c]] \in {"fin", "rst", "dead"}

ClosedByApp(c) == cstate[c] = "Connecting"

\* A connection the client has closed or reset is destroyed and its socket
\* closed, through handleClose, removeConnection and the posted disconnect,
\* unless the application keeps it or has closed it, or the loop ends.
LostIsFreed ==
  \A c \in Conns : PeerGone(c) ~> c \notin live \/ c \in held \/ ClosedByApp(c) \/ Stopped

\* A buffered message is sent (TcpConnection::send, handleWrite) unless the
\* connection ends before, the loop stops, or it waits for ever in recv for a
\* client that has sent an urgent byte and nothing after it.
SentOrLost ==
  \A c \in Conns :
     c \in unsent ~> c \notin unsent \/ cstate[c] # "Connected" \/ Stopped \/ []Blocked

=============================================================================
