------------------------------ MODULE Devices ------------------------------
(***************************************************************************)
(* The classes that hold descriptors, in one process: handles of class Fd, *)
(* Sockets, the converter's plain int, and IOControl, which opens its      *)
(* device for one call.  They meet in the table of descriptors, where a    *)
(* number closed by one is the next number another gets.                   *)
(***************************************************************************)
EXTENDS Socket, ADCDevice

VARIABLES
  users,      \* who runs: all at once would be too many (a bound)
  leaked,     \* files whose last holder lost them
  thefts      \* files closed by one that does not hold them

ghostVars == <<leaked, thefts>>
devicesVars == <<fds, socketVars, adcVars, users, ghostVars>>

Plain == Handles \ Sockets        \* the application's own handles

HandlesOn(d) == {h \in Handles : fds.on[h] = d}

\* Every variable has its type, and no handle is on a deleted Detail.
DevicesTypeOK ==
  /\ fds \in World /\ \A d \in Free(fds) : HandlesOn(d) = {}
  /\ sock \in [Sockets -> Objects] /\ net \in [Files -> KernelSockets]
  /\ crashed \in BOOLEAN /\ misled \subseteq {"renewed", "checked", "again"} \X Sockets
  /\ adcFd \in Numbers \cup {-1} /\ bus \in {0} \cup Files
  /\ chip \subseteq 0 .. 15 /\ missed \subseteq Fields
  /\ leaked \subseteq Files /\ thefts \subseteq Files

DevicesInit ==
  /\ fds = NewWorld /\ SocketInit /\ ADCInit
  /\ users \in {{"fd"}, {"socket"}, {"adc"}, {"fd", "adc"}, {"fd", "gpio"}, {"socket", "adc"}}
  /\ leaked = {} /\ thefts = {}

-----------------------------------------------------------------------------
(* The handles of the application.                                         *)

Handle(w) ==
  /\ fds' = w
  /\ UNCHANGED <<socketVars, adcVars, users, ghostVars>>

HandleCalls ==
  /\ "fd" \in users
  /\ \E h \in Plain :
       \/ HasRoom(fds) /\ Handle(Open(fds, h))
       \/ Handle(Destroy(fds, h))                        \* also reset(), h = Fd()
       \/ Handle(CloseFd(fds, h))
       \/ \E g \in Plain \ {h} :
            \/ HasRoom(fds) /\ Handle(CopyConstruct(Destroy(fds, h), h, g))
            \/ HasRoom(fds) /\ Handle(CopyAssign(fds, h, g))
            \/ Handle(MoveAssign(fds, h, g))
            \/ Handle(Swap(fds, h, g))

-----------------------------------------------------------------------------
(* Sockets, the converter, the pins.                                       *)

\* One Socket is made by the application; the others it gets from accept(),
\* and beside the converter there are none of them (a bound).
Own == CHOOSE x \in Sockets : TRUE

Active == IF users = {"socket"} THEN Sockets ELSE {Own}

SocketCalls ==
  /\ "socket" \in users
  /\ \/ CreateSocket(Own) \/ NewSocket(Own) \/ Listen(Own) \/ Connect(Own)
     \/ \E address \in {"any", "mine"} : Bind(Own, address)
     \/ \E y \in Active : Accept(Own, y)
     \/ \E x \in Active :
          DropSocket(x) \/ CloseSocket(x) \/ CheckConnected(x) \/ AskAddresses(x) \/ IsSelfConnect(x)
     \/ \E f \in Files : Network(f)
  /\ UNCHANGED <<adcVars, users, ghostVars>>

ConverterSet(x) ==
  /\ users = {"adc"}
  /\ \E v \in Values[x] : Set(x, v)
  /\ UNCHANGED <<socketVars, users, ghostVars>>

\* With others at work the converter is always opened the same way and no
\* setter works, and on its own it is opened once (bounds).
Openings ==
  IF users = {"adc"} THEN Arguments \X SUBSET (Fields \ {"single"})
  ELSE {<<[x \in Fields \ {"single"} |-> Max(Values[x])], {}>>}

\* A second init() forgets the descriptor of the first.
ConverterOpen ==
  /\ "adc" \in users /\ (users = {"adc"} => fds.opened = 0)
  /\ \E opening \in Openings :
       LET args == opening[1]
           done == opening[2]
       IN ADCOpen(args, done) \/ (done = {} /\ ADCOpenFails(args))
  /\ leaked' = IF bus = 0 THEN leaked ELSE leaked \cup {bus}
  /\ UNCHANGED <<socketVars, users, thefts>>

ConverterClose ==
  /\ "adc" \in users
  /\ ADCClose
  /\ thefts' = IF adcFd = -1 THEN thefts ELSE thefts \cup ({fds.table[adcFd]} \ {0, bus})
  /\ UNCHANGED <<socketVars, users, leaked>>

\* The converter ends with its descriptor open, and another is made.
ConverterRenewed ==
  /\ "adc" \in users
  /\ ADCRenewed
  /\ leaked' = IF bus = 0 THEN leaked ELSE leaked \cup {bus}
  /\ UNCHANGED <<socketVars, users, thefts>>

\* IOControl: 0 means that the device could not be opened; getValue() returns
\* at once when its ioctl fails.
Pins(get, works) ==
  /\ "gpio" \in users /\ CanOpen(fds)
  /\ LET w == OpenFile(fds)
         n == NextNumber(fds)
         left == n = 0 \/ (get /\ ~works)
     IN /\ fds' = IF left THEN w ELSE CloseNumber(w, n)
        /\ leaked' = IF left THEN leaked \cup {w.opened} ELSE leaked
  /\ UNCHANGED <<socketVars, adcVars, users, thefts>>

-----------------------------------------------------------------------------
DevicesNext ==
  /\ ~crashed /\ thefts = {}
  /\ \/ HandleCalls
     \/ SocketCalls
     \/ ConverterOpen \/ ConverterClose \/ ConverterRenewed \/ \E x \in Fields : ConverterSet(x)
     \/ \E get, works \in BOOLEAN : Pins(get, works)

DevicesSpec == DevicesInit /\ [][DevicesNext]_devicesVars

-----------------------------------------------------------------------------
(* Descriptors.                                                            *)

\* Every reference counted is a handle's, but for those a copy assignment has
\* overwritten; so the last handle closes the file, unless there are such
\* (Fd.cpp:46-54).
RefsCounted ==
  \A d \in Details : fds.ref[d] = Cardinality(HandlesOn(d)) + fds.lost[d]

\* The counts are right, and no handle is on a deleted Detail.
HandlesCounted == DevicesTypeOK /\ RefsCounted

\* The number in a Detail is open, is the file it was opened for, and is in no
\* other Detail: until the converter closes a number that it no longer, or not
\* yet, holds, nobody closes what another uses.
NumbersTrue ==
  thefts = {} =>
    \A d \in Details : fds.num[d] # -1 =>
      /\ fds.file[d] # 0 /\ fds.table[fds.num[d]] = fds.file[d]
      /\ \A c \in Details \ {d} : fds.num[c] # fds.num[d]

\* What is open is held by a handle, by a Detail whose reference was lost, or
\* by the converter, or was leaked: by a second init() or the end of a
\* converter not closed, or by IOControl, on descriptor 0 or with a failing
\* ioctl (ADCDevice.cpp:33, 271, IOControl.h:53, 70).
NothingElseLeaks ==
  \A n \in Numbers :
    LET f == fds.table[n]
    IN f # 0 => \/ f \in leaked \cup {bus}
                \/ \E d \in Details :
                     fds.file[d] = f /\ (HandlesOn(d) # {} \/ fds.lost[d] > 0)

-----------------------------------------------------------------------------
(* The converter and the sockets.                                          *)

\* Every field of the register holds what was last asked for, whatever fields
\* were set before and after, unless the transfer for it failed; bits of no
\* field never change (ADCDevice.cpp:67-155).
FieldsAsAsked ==
  /\ \A x \in Fields \ missed : Value(chip, x) = asked[x]
  /\ chip \ UNION {Bits(x) : x \in Fields} = {0, 1, 10, 15} \ UNION {Bits(x) : x \in Fields}

\* The local address an open socket remembers is the kernel's, or the wildcard
\* if it was asked for too early, unless the object had asked and then either
\* newSocket() replaced its socket, or connect() was called again after a failed
\* attempt, which gives the socket another address (Socket.cpp:29, 92-99, 161-177).
RememberedIsTrue ==
  \A x \in Sockets :
    IsOpen(x) /\ sock[x].local # "null" /\ {<<"renewed", x>>, <<"again", x>>} \cap misled = {} =>
      sock[x].local \in {net[File(x)].local, "any"}

\* A socket that connects, or is connected, remembers both its addresses, as
\* isSelfConnect() takes for granted (Socket.cpp:92-99, 197-211).
ConnectedRemembers ==
  \A x \in Sockets :
    IsOpen(x) /\ net[File(x)].at \in {"connecting", "established"} =>
      sock[x].local # "null" /\ sock[x].remote # "null"

\* send() of an established connection is not refused, unless checkConnected()
\* was asked while there was none: the answer is kept (Socket.cpp:84-90, 124).
EstablishedMaySend ==
  \A x \in Sockets :
    IsOpen(x) /\ net[File(x)].at = "established" /\ <<"checked", x>> \notin misled =>
      sock[x].isConnected

\* What a Socket keeps of the kernel's state is true, but for those calls.
CachedIsTrue == RememberedIsTrue /\ ConnectedRemembers /\ EstablishedMaySend
=============================================================================
