------------------------------- MODULE Socket -------------------------------
(***************************************************************************)
(* Class Socket: a descriptor held by an Fd, and what the object remembers *)
(* of the socket behind it, its two addresses and whether it is connected. *)
(***************************************************************************)
EXTENDS Fd

CONSTANTS Sockets      \* variables that hold a Socket; each has a handle

ASSUME SocketAssumption == Sockets \subseteq Handles /\ Sockets # {}

VARIABLES
  sock,     \* the Socket objects
  net,      \* the kernel's sockets
  crashed,  \* a null Address has been used
  misled    \* what the application has done to mislead its Sockets

socketVars == <<sock, net, crashed, misled>>

\* "any" is the wildcard, "mine" and "other" are addresses of this host, or two
\* of its ports, and "null" is no Address.
Addresses == {"any", "mine", "other", "peer", "null"}

Objects ==
  [ made : BOOLEAN, isConnected : BOOLEAN,
    local : Addresses, remote : Addresses ]    \* localAddress_, remoteAddress_

KernelSockets ==
  [ local : {"any", "mine", "other"}, bound : {"null", "any", "mine"},  \* what bind() was given
    peer : {"null", "peer"},
    at : {"new", "listening", "connecting", "established", "failed", "dead"} ]

\* The address before a connection, and those a connection may get.
Unconnected(s) == IF s.bound = "mine" THEN "mine" ELSE "any"

Chosen(s) == IF s.bound = "mine" THEN {"mine"} ELSE {"mine", "other"}

NoObject == [made |-> FALSE, isConnected |-> FALSE, local |-> "null", remote |-> "null"]

FreshObject == [NoObject EXCEPT !.made = TRUE]

FreshSocket == [local |-> "any", bound |-> "null", peer |-> "null", at |-> "new"]

SocketInit ==
  /\ sock = [x \in Sockets |-> NoObject]
  /\ net = [f \in Files |-> FreshSocket]
  /\ crashed = FALSE /\ misled = {}

File(x) == IF Get(fds, x) = -1 THEN 0 ELSE fds.table[Get(fds, x)]

IsOpen(x) == sock[x].made /\ File(x) # 0

\* A file that is closed is no socket any more.
Kernel(w, n) ==
  [f \in Files |-> IF \E k \in Numbers : w.table[k] = f THEN n[f] ELSE FreshSocket]

\* What holds of a new object, or of none.
NotMisled(x) == misled \ {<<"renewed", x>>, <<"checked", x>>, <<"again", x>>}

\* getLocalAddress() and getPeerAddress(), of an object on the kernel's s.
Local(o, s) == IF o.local # "null" THEN o.local ELSE s.local

Remote(o, s) == IF o.remote # "null" THEN o.remote ELSE s.peer

Remember(o, s) == [o EXCEPT !.local = Local(o, s), !.remote = Remote(o, s)]

\* ~Socket() and the ~Fd() of its member.
Dropped(w, x) == Destroy(CloseFd(w, x), x)

-----------------------------------------------------------------------------
(* Making and dropping sockets.                                            *)

\* CreateTcpSocket() or CreateUdpSocket(), kept in x: the socket is made before
\* the old object goes; the object is called connected whatever happens.
CreateSocket(x) ==
  /\ HasRoom(fds)
  /\ sock' = [sock EXCEPT ![x] = [FreshObject EXCEPT !.isConnected = TRUE]]
  /\ \/ /\ CanOpen(fds)
        /\ LET w == OpenFile(fds)
           IN fds' = Construct(Dropped(w, x), x, NextNumber(fds))
     \/ fds' = Construct(Dropped(fds, x), x, -1)
  /\ net' = Kernel(fds', net) /\ misled' = NotMisled(x)
  /\ UNCHANGED crashed

\* newSocket(): the descriptor is replaced, what is remembered is not.
NewSocket(x) ==
  /\ HasRoom(fds) /\ sock[x].made
  /\ \/ /\ CanOpen(fds)
        /\ LET w == OpenFile(fds) IN fds' = AssignNew(w, x, NextNumber(fds))
     \/ fds' = AssignNew(fds, x, -1)
  /\ misled' = IF sock[x].local # "null" THEN misled \cup {<<"renewed", x>>} ELSE misled
  /\ net' = Kernel(fds', net)
  /\ UNCHANGED <<sock, crashed>>

DropSocket(x) ==
  /\ sock[x].made
  /\ fds' = Dropped(fds, x) /\ sock' = [sock EXCEPT ![x] = NoObject]
  /\ net' = Kernel(fds', net) /\ misled' = NotMisled(x)
  /\ UNCHANGED crashed

\* close(): the addresses stay.
CloseSocket(x) ==
  /\ IsOpen(x)
  /\ fds' = CloseFd(fds, x)
  /\ sock' = [sock EXCEPT ![x].isConnected = FALSE]
  /\ net' = Kernel(fds', net)
  /\ UNCHANGED <<crashed, misled>>

-----------------------------------------------------------------------------
(* bind, listen, accept, connect.                                          *)

\* A failing bind() or listen() closes the descriptor, and only that.
Refused(x) ==
  /\ fds' = CloseFd(fds, x) /\ net' = Kernel(fds', net)
  /\ UNCHANGED <<sock, crashed, misled>>

Bind(x, address) ==
  /\ sock[x].made
  /\ \/ Refused(x)
     \/ LET s == [net[File(x)] EXCEPT !.local = address, !.bound = address]
        IN /\ IsOpen(x) /\ net[File(x)].at = "new" /\ net[File(x)].bound = "null"
           /\ net' = [net EXCEPT ![File(x)] = s]
           /\ sock' = [sock EXCEPT ![x].local = Local(sock[x], s)]
           /\ UNCHANGED <<fds, crashed, misled>>

Listen(x) ==
  /\ sock[x].made
  /\ \/ Refused(x)
     \/ /\ IsOpen(x) /\ net[File(x)].at \in {"new", "listening"}
        /\ net' = [net EXCEPT ![File(x)].at = "listening"]
        /\ UNCHANGED <<fds, sock, crashed, misled>>

\* accept(), kept in y: init() remembers both addresses.
Accept(x, y) ==
  /\ sock[x].made /\ x # y /\ HasRoom(fds)
  /\ \/ /\ fds' = Dropped(fds, y) /\ sock' = [sock EXCEPT ![y] = NoObject]
        /\ net' = Kernel(fds', net)
     \/ /\ IsOpen(x) /\ net[File(x)].at = "listening" /\ CanOpen(fds)
        /\ \E address \in Chosen(net[File(x)]) :
             LET w == OpenFile(fds)
                 s == [FreshSocket EXCEPT !.local = address, !.peer = "peer", !.at = "established"]
             IN /\ fds' = Construct(Dropped(w, y), y, NextNumber(fds))
                /\ net' = Kernel(fds', [net EXCEPT ![w.opened] = s])
                /\ sock' = [sock EXCEPT ![y] = Remember([FreshObject EXCEPT !.isConnected = TRUE], s)]
  /\ misled' = NotMisled(y)
  /\ UNCHANGED crashed

\* Mutant: a connection in progress does not count.
ConnectedNow(done) == done

Connected(done) == TRUE

\* The kernel ends a failed attempt with an error and a socket as it was before,
\* which gets an address anew when it connects again.
Ended(s) ==
  IF s.at = "failed" THEN [s EXCEPT !.local = Unconnected(s), !.at = "new"] ELSE s

\* The object remembers an address that such a socket does not keep.
Forgets(o, s) == s.at = "failed" /\ s.bound # "mine" /\ o.local # "null"

\* connect(): the object is connected and knows its peer, whatever it returns.
Connect(x) ==
  /\ sock[x].made
  /\ LET o == [sock[x] EXCEPT !.remote = "peer", !.isConnected = Connected(FALSE)]
     IN \/ /\ IsOpen(x) /\ net[File(x)].at = "new"
           /\ \E address \in Chosen(net[File(x)]) :
                LET s == [net[File(x)] EXCEPT !.local = address, !.at = "connecting"]
                IN /\ net' = [net EXCEPT ![File(x)] = s]
                   /\ sock' = [sock EXCEPT ![x] = Remember(o, s)]
           /\ UNCHANGED misled
        \/ /\ IsOpen(x)
           /\ LET s == Ended(net[File(x)])
              IN /\ net' = [net EXCEPT ![File(x)] = s]
                 /\ sock' = [sock EXCEPT ![x] = Remember(o, s)]
           /\ misled' = IF Forgets(o, net[File(x)]) THEN misled \cup {<<"again", x>>} ELSE misled
        \/ ~IsOpen(x) /\ sock' = [sock EXCEPT ![x] = o] /\ UNCHANGED <<net, misled>>
  /\ UNCHANGED <<fds, crashed>>

\* The kernel and the peer: connections are made, refused and lost.
Network(f) ==
  /\ \E to \in {"established", "failed", "dead"} :
       /\ net[f].at = IF to = "dead" THEN "established" ELSE "connecting"
       /\ net' = [net EXCEPT ![f].at = to, ![f].peer = IF to = "established" THEN "peer" ELSE "null"]
  /\ UNCHANGED <<fds, sock, crashed, misled>>

-----------------------------------------------------------------------------
(* Questions.                                                              *)

\* checkConnected(): without a socket the answer is what the stack holds.
CheckConnected(x) ==
  /\ sock[x].made
  /\ \E yes \in BOOLEAN :
       /\ IsOpen(x) => yes = (net[File(x)].at = "established")
       /\ sock' = [sock EXCEPT ![x].isConnected = yes]
       /\ misled' = IF yes THEN misled ELSE misled \cup {<<"checked", x>>}
  /\ UNCHANGED <<fds, net, crashed>>

\* getLocalAddress() and getPeerAddress().
AskAddresses(x) ==
  /\ IsOpen(x)
  /\ sock' = [sock EXCEPT ![x] = Remember(sock[x], net[File(x)])]
  /\ UNCHANGED <<fds, net, crashed, misled>>

\* isSelfConnect() uses both without looking whether there are any.
IsSelfConnect(x) ==
  /\ sock[x].made
  /\ LET o == IF IsOpen(x) THEN Remember(sock[x], net[File(x)]) ELSE sock[x]
     IN /\ sock' = [sock EXCEPT ![x] = o]
        /\ crashed' = (o.local = "null" \/ o.remote = "null")
  /\ UNCHANGED <<fds, net, misled>>

=============================================================================
