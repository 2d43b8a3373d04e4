----------------------------- MODULE TcpClient -----------------------------
(***************************************************************************)
(* A TCP client on the event loop: TcpClient, its Connector and the        *)
(* TcpConnection it gets.  A connection and its event are one object, as   *)
(* in TcpServer; what it sends is TcpServer's subject.                     *)
(*                                                                         *)
(* The connector deletes its event_ in two ways: by a posted resetEvent(), *)
(* which deletes whatever event_ is by then, and by assigning a new one.   *)
(* A queued connection stands for its posted disconnect(), which keeps a   *)
(* pointer to it.                                                          *)
(***************************************************************************)
EXTENDS EventLoop

CONSTANTS Attempts,    \* addresses of the connector's events
          NoFd         \* no socket

Conns == Events \ Attempts

ASSUME ClientAssumption ==
  /\ IsFiniteSet(Events) /\ Attempts \subseteq Events /\ NoFd \notin Fds
  /\ OneShot = {} /\ Cardinality(Fds) <= InitialEntries
  /\ {"IN", "OUT", "HUP"} \subseteq Signals

VARIABLES
  connector,   \* Connector::state_
  attempt,     \* Connector::event_
  sock,        \* the descriptor of Connector::sock_ptr
  client,      \* TcpClient::state_
  connection,  \* TcpClient::connection_
  cstate,      \* TcpConnection::state_
  recon,       \* TcpClient::recon_enable_
  frame,       \* the callback of the application that is running
  peer,        \* what the server has done with a descriptor's connection
  cause        \* why a deleted event is met, once it is

netVars == <<connector, attempt, sock, client, connection, cstate, recon, frame, peer, cause>>
clientVars == <<vars, netVars>>

ConnectorStates == {"Disconnected", "Connecting", "Connected"}
ClientStates == {"Inited", "Connecting", "Connected"}
ConnStates == {"Disconnected", "Connecting", "Connected"}
Frames == {"none", "connected", "received", "closed"}
PeerStates == {"quiet", "data", "fin", "rst", "dead"}
Faults == {"overtaken", "ownCallback", "nullEvent"}
Causes == Faults \cup {"none", "partedTwice", "closedLate"}

ClientTypeOK ==
  /\ TypeOK
  /\ connector \in ConnectorStates /\ client \in ClientStates
  /\ attempt \in Attempts \cup {NoEvent} /\ sock \in Fds \cup {NoFd}
  /\ connection \in Conns \cup {NoEvent}
  /\ cstate \in [Conns -> ConnStates] /\ recon \in BOOLEAN
  /\ frame \in Frames /\ peer \in [Fds -> PeerStates] /\ cause \in Causes

\* One fd_ stands for those an event not initialised yet may hold.
AnyFd == CHOOSE f \in Fds : TRUE

ClientInit ==
  /\ Init /\ reg = EmptyRegistry([e \in Events |-> AnyFd])
  /\ connector = "Disconnected" /\ attempt = NoEvent /\ sock = NoFd
  /\ client = "Inited" /\ connection = NoEvent
  /\ cstate = [c \in Conns |-> "Connecting"]
  /\ recon \in BOOLEAN
  /\ frame = "none" /\ peer = [f \in Fds |-> "quiet"] /\ cause = "none"

LiveConns == live \cap Conns

\* Sockets that are closed.
FreeFds == Fds \ ({sock} \cup {reg.fd[c] : c \in LiveConns})

\* Closing a descriptor takes its entry out of epoll, not out of the map.
CloseFd(r, f) ==
  IF f = NoFd THEN r ELSE [r EXCEPT !.kptr[f] = NoEvent, !.kmask[f] = {}]

\* What a deleted event held is gone, and index_ with it.
Delete(r, e) == IF e = NoEvent THEN r ELSE Construct(r, e, AnyFd)

Quiet(f) == [g \in Fds |-> IF g = f THEN "quiet" ELSE peer[g]]

Silent(e) == [x \in Events |-> IF x = e THEN {} ELSE revents[x]]

-----------------------------------------------------------------------------
(* The connector.                                                          *)

\* Mutant: the connector may be started while it is Connected.
MayStartConnected(state) == state # "Connecting"

MayStart(state) == state = "Disconnected"

\* Mutant: the new event waits to read.
ArmedToRead(r, e) == EnableReading(r, e)

Armed(r, e) == EnableWriting(r, e)

\* start(): nothing unless Disconnected; connect() blocks and fails, or a new
\* socket and a new event take the places of the old ones.
ConnectorStart(r, state) ==
  \/ /\ connector' = state
     /\ reg' = r
     /\ UNCHANGED <<attempt, sock, live, revents, peer>>
  \/ /\ MayStart(state)
     /\ FreeFds # {}
     /\ \E e \in Attempts \ live, f \in {CHOOSE f \in FreeFds : TRUE} :
          /\ reg' = Armed(Construct(Delete(CloseFd(r, sock), attempt), e, f), e)
          /\ live' = (live \ {attempt}) \cup {e}
          /\ revents' = Silent(attempt)
          /\ peer' = Quiet(sock)
          /\ attempt' = e /\ sock' = f
     /\ connector' = "Connecting"

\* removeAndResetChannel() up to its runTask.

\* Mutant: the event is not disabled first.
OutOfEpollArmed(r, e) == RemoveEvent(r, e)

OutOfEpoll(r, e) == RemoveEvent(DisableAll(r, e), e)

\* resetEvent() does not know which event it was posted for.
ResetEvent == CHOOSE e \in Attempts : TRUE

PostReset == taskQueue' = Append(taskQueue, ResetEvent)

\* stop() compares state_ with Disconnected where it should set it.
ConnectorStop(r) ==
  IF connector = "Connecting"
    THEN reg' = OutOfEpoll(r, attempt) /\ PostReset
    ELSE reg' = r /\ UNCHANGED taskQueue

-----------------------------------------------------------------------------
(* The application's calls.                                                *)

\* Before the loop runs, in a task, or in a callback.  Every stop() of a client
\* that is started again posts one more task: the bound is on the calls.
CanCall ==
  /\ (phase = "idle" /\ ~poolUp) \/ phase = "intask" \/ frame # "none"
  /\ Len(taskQueue) <= MaxTasks

StartClient ==
  /\ CanCall
  /\ client' = "Connecting"
  /\ ConnectorStart(reg, connector)
  /\ UNCHANGED <<doomed, taskQueue, keepRunning, poolUp, phase, active, calls, locked, cap,
                 connection, cstate, recon, frame, cause>>

Disconnected(r, c) == RemoveEvent(IF cstate[c] = "Connected" THEN DisableAll(r, c) ELSE r, c)

Parted(c) == IF cstate[c] = "Connected" THEN [cstate EXCEPT ![c] = "Connecting"] ELSE cstate

\* Stopping while the connector is Connecting but its event_ is gone already
\* uses a null pointer.
StopClient ==
  /\ CanCall
  /\ IF client # "Inited" /\ connector = "Connecting" /\ attempt = NoEvent
       THEN /\ phase' = "aborted" /\ cause' = "nullEvent"
            /\ UNCHANGED <<reg, taskQueue, client, cstate>>
       ELSE /\ LET parts == client = "Connected" /\ connection # NoEvent
                   r == IF parts THEN Disconnected(reg, connection) ELSE reg
               IN /\ IF client = "Inited" THEN UNCHANGED <<reg, taskQueue>> ELSE ConnectorStop(r)
                  /\ cstate' = IF parts THEN Parted(connection) ELSE cstate
                  /\ cause' = IF parts /\ cstate[connection] # "Connected" /\ cause = "none"
                                THEN "partedTwice" ELSE cause
            /\ client' = "Inited"
            /\ UNCHANGED phase
  /\ UNCHANGED <<live, doomed, keepRunning, poolUp, loopVars,
                 connector, attempt, sock, connection, recon, frame, peer>>

LoopCall == CanCall /\ PostTask /\ UNCHANGED netVars

\* The callback returns; after the connected one newConnection() sets state_.
AppReturns ==
  /\ frame # "none"
  /\ client' = IF frame = "connected" THEN "Connected" ELSE client
  /\ frame' = "none"
  /\ calls' = Tail(calls)
  /\ UNCHANGED <<reg, live, doomed, taskQueue, keepRunning, poolUp, phase, active, revents,
                 locked, cap, connector, attempt, sock, connection, cstate, recon, peer, cause>>

-----------------------------------------------------------------------------
(* The kernel and the server.                                              *)

\* ERR is left out: the connector sets no callback for it, and handleError() of a
\* connection clears it, so that recv() then ends the stream as it does after
\* "fin".  This server sends no urgent byte: TcpServer has what one does.
Raw(p) ==
  CASE p = "quiet"           -> {"OUT"}
    [] p \in {"data", "fin"} -> {"IN", "OUT"}
    [] p \in {"rst", "dead"} -> {"IN", "OUT", "HUP"}

Sig(f) == Reportable(reg.kmask[f]) \cap Raw(peer[f])

Ready == {f \in Registered : Sig(f) # {}}

ClientPoll ==
  /\ phase = "poll"
  /\ Report(Ready, [f \in Ready |-> Sig(f)])
  /\ UNCHANGED netVars

PeerActs ==
  /\ \E f \in Fds \ FreeFds :
       \/ peer[f] = "quiet" /\ peer' \in {[peer EXCEPT ![f] = p] : p \in {"data", "fin"}}
       \/ peer[f] \in {"quiet", "data", "fin"} /\ peer' = [peer EXCEPT ![f] = "rst"]
  /\ UNCHANGED <<vars, connector, attempt, sock, client, connection, cstate, recon, frame, cause>>

-----------------------------------------------------------------------------
(* The library's callbacks and tasks.                                      *)

Runs(e, callback) ==
  /\ phase = "incallback" /\ frame = "none"
  /\ calls # <<>> /\ Head(calls) = callback /\ Head(active) = e

\* A callback that is not set, or does nothing but log.
Pass(e, callback) ==
  /\ Runs(e, callback)
  /\ calls' = Tail(calls)
  /\ UNCHANGED <<reg, live, doomed, taskQueue, keepRunning, poolUp, phase, active, revents,
                 locked, cap, netVars>>

\* handleWrite() with SO_ERROR set, or of a socket connected to itself: the
\* new attempt deletes the event whose callback is running.
Retry(e) ==
  /\ Runs(e, "write")
  /\ connector = "Connecting"
  /\ peer[sock] \in {"rst", "quiet"}
  /\ ConnectorStart(OutOfEpoll(reg, attempt), "Disconnected")
  /\ IF attempt' = attempt THEN UNCHANGED cause ELSE cause' = "ownCallback"
  /\ PostReset
  /\ calls' = Tail(calls)
  /\ UNCHANGED <<doomed, keepRunning, poolUp, phase, active, locked, cap,
                 client, connection, cstate, recon, frame>>

\* handleWrite() of a socket without error: newConnection() and
\* connectFinished(), up to the application's callback.
Established(e, c) ==
  /\ Runs(e, "write")
  /\ connector = "Connecting" /\ peer[sock] # "rst"
  /\ reg' = EnableReading(Construct(OutOfEpoll(reg, attempt), c, sock), c)
  /\ PostReset
  /\ connector' = "Connected"
  /\ live' = live \cup {c} /\ UNCHANGED revents
  /\ connection' = c /\ cstate' = [cstate EXCEPT ![c] = "Connected"]
  /\ sock' = NoFd
  /\ frame' = "connected"
  /\ UNCHANGED <<doomed, keepRunning, poolUp, phase, active, calls, locked, cap,
                 attempt, client, recon, peer, cause>>

ReadData(c) ==
  /\ Runs(c, "read")
  /\ peer[reg.fd[c]] = "data"
  /\ peer' = [peer EXCEPT ![reg.fd[c]] = "quiet"]
  /\ frame' = "received"
  /\ UNCHANGED <<vars, connector, attempt, sock, client, connection, cstate, recon, cause>>

\* recv fails; the error is logged, and gone.
ReadReset(c) ==
  /\ Runs(c, "read")
  /\ peer[reg.fd[c]] = "rst"
  /\ peer' = [peer EXCEPT ![reg.fd[c]] = "dead"]
  /\ calls' = Tail(calls)
  /\ UNCHANGED <<reg, live, doomed, taskQueue, keepRunning, poolUp, phase, active, revents,
                 locked, cap, connector, attempt, sock, client, connection, cstate, recon,
                 frame, cause>>

\* Mutant: handleClose() leaves the event enabled.
ClosedArmed(c) == Claim(reg, cstate[c] = "Connected")

Closed(c) == DisableAll(Claim(reg, cstate[c] = "Connected"), c)

\* Mutant: removeConnection() does not post disconnect().
PostNothing(c) == taskQueue' = taskQueue

PostDisconnect(c) == taskQueue' = Append(taskQueue, c)

\* handleClose(), when recv gives nothing or for HUP without IN: it calls
\* removeConnection(), which may start the connector again.
HandleClose(c) ==
  /\ \/ Runs(c, "close")
     \/ Runs(c, "read") /\ peer[reg.fd[c]] \in {"fin", "dead"}
  /\ cstate' = [cstate EXCEPT ![c] = "Disconnected"]
  /\ connection' = NoEvent
  /\ PostDisconnect(c)
  /\ IF recon /\ client = "Connected"
       THEN ConnectorStart(Closed(c), "Disconnected")
       ELSE reg' = Closed(c) /\ UNCHANGED <<connector, attempt, sock, live, revents, peer>>
  /\ frame' = "closed"
  /\ cause' = IF cstate[c] # "Connected" /\ cause \notin Faults THEN "closedLate" ELSE cause
  /\ UNCHANGED <<doomed, keepRunning, poolUp, phase, active, calls, locked, cap,
                 client, recon>>

CallbacksDone == calls = <<>> /\ frame = "none" /\ EventHandled /\ UNCHANGED netVars

TaskDone ==
  /\ taskQueue' = Tail(taskQueue)
  /\ phase' = "handle"
  /\ UNCHANGED <<doomed, keepRunning, poolUp, active, calls, locked, cap>>

\* The posted disconnect(); its pointer is the last one, unless it was posted
\* twice.
DisconnectTask ==
  /\ phase = "task" /\ taskQueue # <<>>
  /\ LET c == Head(taskQueue)
     IN /\ c \in Conns
        /\ IF InSeq(c, Tail(taskQueue))
             THEN reg' = Disconnected(reg, c) /\ UNCHANGED <<cstate, peer, live, revents>>
             ELSE /\ cstate' = [cstate EXCEPT ![c] = "Connecting"]
                  /\ reg' = Delete(CloseFd(Disconnected(reg, c), reg.fd[c]), c)
                  /\ peer' = Quiet(reg.fd[c])
                  /\ live' = live \ {c} /\ revents' = Silent(c)
  /\ TaskDone
  /\ UNCHANGED <<connector, attempt, sock, client, connection, recon, frame, cause>>

\* resetEvent(): when it finds an event that is registered, that is a newer
\* one than the one it was posted for.
ResetTask ==
  /\ phase = "task" /\ taskQueue # <<>> /\ Head(taskQueue) = ResetEvent
  /\ live' = live \ {attempt} /\ revents' = Silent(attempt)
  /\ reg' = Delete(reg, attempt)
  /\ attempt' = NoEvent
  /\ cause' = IF attempt # NoEvent /\ reg.index[attempt] # "kNew" THEN "overtaken" ELSE cause
  /\ TaskDone
  /\ UNCHANGED <<connector, sock, client, connection, cstate, recon, frame, peer>>

-----------------------------------------------------------------------------
ClientStep ==
  \/ ClientPoll
  \/ UNCHANGED netVars /\ (NoTask \/ StartTask \/ TaskReturns \/ HandleEvent \/ EndIteration)
  \/ DisconnectTask \/ ResetTask
  \/ \E e \in Attempts :
       \/ Pass(e, "close") \/ Retry(e)
       \/ connector # "Connecting" /\ Pass(e, "write")
       \/ \E c \in Conns \ live : Established(e, c)
  \/ \E c \in Conns : ReadData(c) \/ ReadReset(c) \/ HandleClose(c)
  \/ AppReturns
  \/ CallbacksDone

AppCalls ==
  \/ StartClient \/ StopClient \/ LoopCall
  \/ UNCHANGED netVars /\ ~poolUp /\ RunLoop

\* Nothing is said of a program that uses a deleted event or has one in epoll.
Sound == NoUseAfterFree /\ cause \notin Faults

ClientNext == Sound /\ (ClientStep \/ AppCalls \/ PeerActs)

ClientSpec == ClientInit /\ [][ClientNext]_clientVars /\ WF_clientVars(Sound /\ ClientStep)

-----------------------------------------------------------------------------
(* Safety.                                                                 *)

\* The loop meets a deleted event, or the connector a null pointer, for four
\* reasons only: a posted resetEvent() that finds the event of a newer attempt,
\* a new attempt in the callback of the old one's event, a stop() after the
\* one that has reset the event (Connector.cpp:37-76), and a handleClose() of
\* a connection stopped since the poll, which puts its event back into epoll
\* (TcpConnection.cpp:113-121).
FaultsExplained == ~NoUseAfterFree \/ phase = "aborted" => cause \in Faults \cup {"closedLate"}

\* Without a fault of the connector the Poller and the kernel agree on every descriptor,
\* which the connector's event and the connection's take in turn; an assert
\* fails only in that handleClose() or in a second disconnect(): stop() in the
\* callback of newConnection() leaves the client Connected (TcpClient.cpp:72-76).
ClientRegistryAgrees ==
  /\ ClientTypeOK
  /\ cause \notin Faults => RegistryAgrees
  /\ cause = "none" => AssertsHold

\* One connection at a time: the client keeps the one that is Connected and
\* has none while it is connecting to another; connection_.reset() in the
\* callback of a connection never drops another one (TcpClient.cpp:60-88).
OneConnection ==
  /\ connection # NoEvent => connector = "Connected" /\ connection \in live
  /\ \A c \in LiveConns :
       /\ cstate[c] = "Connected" => connection = c
       /\ Runs(c, "close") \/ Runs(c, "read") => connection \in {c, NoEvent}

-----------------------------------------------------------------------------
(* Liveness.                                                               *)

Over == Stopped \/ ~Sound

\* An attempt that waits in epoll is decided: connected, given up, or stopped.
AttemptDecided ==
  connector = "Connecting" /\ attempt # NoEvent ~>
    connector # "Connecting" \/ attempt = NoEvent \/ Over

\* A connection the server closes is destroyed and its socket closed, unless
\* the client was stopped: then its event is out of epoll, and nobody looks.
LossIsHandled ==
  \A c \in Conns :
    c \in live /\ cstate[c] = "Connected" /\ peer[reg.fd[c]] \in {"fin", "rst", "dead"} ~>
      c \notin live \/ cstate[c] = "Connecting" \/ Over
=============================================================================
