---------------------------- MODULE SerialDevice ----------------------------
(***************************************************************************)
(* A serial port on the event loop: its life cycle, the event it owns by a *)
(* plain pointer, and its two buffers.  Bytes are numbered in the order    *)
(* they are sent, or arrive; the receive buffer is a ByteBuf, the send     *)
(* buffer, only ever appended to and emptied, the sequence of its unread   *)
(* bytes.  SerialLine has the settings of the line.                        *)
(***************************************************************************)
EXTENDS EventLoop, SerialLine

CONSTANTS NoFd,        \* no descriptor: Fd(-1)
          FlushBytes,  \* sizeof of the int32_t that readableBytes() returns
          MaxRead,   \* the bytes a readv takes at most: its two buffers
          Traffics,    \* bound: what happens, of "in", "out" and "set"
          MaxSent,     \* bound: bytes sent
          MaxArrived   \* bound: bytes that arrive

ASSUME SerialAssumption ==
  /\ NoFd \notin Fds /\ OneShot = {} /\ FlushBytes \in Nat \ {0}
  /\ MaxRead \in Nat \ {0} /\ Traffics \subseteq {"in", "out", "set"}
  /\ MaxSent \in Nat /\ MaxArrived \in Nat
  /\ {"IN", "OUT", "HUP"} \subseteq Signals

Buffer == INSTANCE ByteBuf WITH IntWidth <- 4, DoubleWidth <- 8

VARIABLES
  state,        \* IODevice::state_
  event,        \* serialEvent_
  fd,           \* fd_
  readCallback, \* the event's read callback is set
  readBuffer,   \* readBuffer_
  writeBuffer,  \* writeBuffer_
  frame,        \* where the read callback is
  hung,         \* the line has hung up
  unread,       \* bytes the kernel holds
  arrived,      \* bytes that have arrived
  delivered,    \* bytes given to the application
  sent,         \* bytes the application has sent
  wire,         \* bytes written; 0 for one that is no byte of the buffer
  cause,        \* why a deleted event is met, once it is
  harm,         \* what has been done to the data
  line,         \* the terminal's word, which closing does not reset
  asked,        \* the settings last asked for
  traffic       \* bytes come, bytes go, or the line is set

portVars == <<state, event, fd, readCallback, line, asked, traffic>>
rxVars == <<readBuffer, frame, hung, unread, arrived, delivered>>
txVars == <<writeBuffer, sent, wire>>
serialVars == <<vars, portVars, rxVars, txVars, cause, harm>>

States == {"kNone", "kInited", "kRunning"}
Causes == {"none", "initInUse", "cleanedUp", "closedStopped", "deletedReported"}
Harms == {"shortWrite", "flush", "readAgain", "reopened", "stopped", "destroyed"}

SerialTypeOK ==
  /\ TypeOK
  /\ state \in States /\ event \in Events \cup {NoEvent} /\ fd \in Fds \cup {NoFd}
  /\ readCallback \in BOOLEAN
  /\ readBuffer.data \in Seq(1 .. MaxArrived) /\ readBuffer.r = 0
  /\ readBuffer.w \in 0 .. Len(readBuffer.data)
  /\ writeBuffer \in Seq(1 .. MaxSent) /\ wire \in Seq(0 .. MaxSent)
  /\ unread \in Seq(1 .. MaxArrived) /\ delivered \in Seq(1 .. MaxArrived)
  /\ arrived \in 0 .. MaxArrived /\ sent \in 0 .. MaxSent
  /\ frame \in {"none", "reading", "received"} /\ hung \in BOOLEAN
  /\ cause \in Causes /\ harm \subseteq Harms /\ traffic \in Traffics
  /\ line \subseteq LineBits /\ asked \in Settings

AnyFd == CHOOSE f \in Fds : TRUE

SerialInit ==
  /\ Init /\ reg = EmptyRegistry([e \in Events |-> AnyFd])
  /\ state = "kNone" /\ event = NoEvent /\ fd = NoFd /\ readCallback = FALSE
  /\ readBuffer = Buffer!New(<<>>) /\ frame = "none" /\ hung = FALSE
  /\ unread = <<>> /\ arrived = 0 /\ delivered = <<>>
  /\ writeBuffer = <<>> /\ sent = 0 /\ wire = <<>>
  /\ cause = "none" /\ harm = {} /\ traffic \in Traffics
  /\ line \in (IF traffic = "set" THEN {{}, LineBits} ELSE {{}}) /\ asked = Usual

-----------------------------------------------------------------------------
(* The application's calls.                                                *)

\* In a task or in the read callback; what the application does before the
\* loop runs it may as well do in the first task.
\* After a fault it only starts, stops and closes (a bound).
CanCall == phase = "intask" \/ frame = "received"

\* Calls change none of the loop's own variables, and only the opening and the
\* end of the port change readBuffer and the line.
LoopFrame ==
  UNCHANGED <<doomed, taskQueue, keepRunning, poolUp, active, calls, locked, cap,
              frame, arrived, delivered>>

AppFrame == LoopFrame /\ UNCHANGED <<readBuffer, hung>>

\* While the line is set nothing runs on the port, and what is set after other
\* settings than the usual ones is of no interest (a bound).
Moving == traffic # "set"

Numbered(k) == [i \in 1 .. k |-> sent + i]

\* Closing a descriptor takes its entry out of epoll, not out of the map.
CloseFd(r, f) ==
  IF f = NoFd THEN r ELSE [r EXCEPT !.kptr[f] = NoEvent, !.kmask[f] = {}]

Fault(why) == IF cause = "none" THEN why ELSE cause

\* init() of a device that is in use: the event is deleted, but not removed
\* from the Poller, before the state is looked at.
InitInUse ==
  /\ CanCall /\ Moving /\ state # "kNone"
  /\ cause' = Fault("initInUse")
  /\ live' = live \ {event} /\ event' = NoEvent
  /\ AppFrame
  /\ UNCHANGED <<reg, revents, phase, state, fd, readCallback, line, asked, traffic, unread, txVars, harm>>

\* cleanup() by itself deletes the event likewise, which a failed init() may
\* have left; the state stays.
CleanUp ==
  /\ CanCall /\ Moving /\ cause = "none"
  /\ cause' = IF state = "kNone" THEN cause ELSE "cleanedUp"
  /\ live' = live \ {event} /\ event' = NoEvent
  /\ AppFrame
  /\ UNCHANGED <<reg, revents, phase, state, fd, readCallback, line, asked, traffic, unread, txVars, harm>>

\* Mutant: the event gets the descriptor before the port is opened.
WatchedBefore(f) == IF fd = NoFd THEN AnyFd ELSE fd

Watched(f) == IF f = NoFd THEN AnyFd ELSE f

\* init(): a new event and a new descriptor, or none; the line may be refused
\* (no descriptor, no terminal, ParityMark), which leaves the event behind.
InitDevice ==
  /\ CanCall /\ state = "kNone" /\ cause = "none" /\ (Moving \/ asked = Usual)
  /\ \E e \in Events \ (live \ {event}), f \in (Fds \ {fd}) \cup {NoFd}, set \in BOOLEAN,
        s \in (IF Moving THEN {Usual} ELSE NearUsual) :
       /\ set => f # NoFd /\ Accepted(s)
       /\ reg' = Construct(CloseFd(reg, fd), e, Watched(f))
       /\ live' = (live \ {event}) \cup {e}
       /\ revents' = [revents EXCEPT ![e] = {}]
       /\ event' = e /\ fd' = f
       /\ state' = IF set THEN "kInited" ELSE "kNone"
       /\ line' = IF set THEN UartSet(line, s) ELSE line
       /\ asked' = s
  /\ readCallback' = FALSE
  /\ unread' = <<>> /\ hung' = FALSE
  /\ harm' = IF unread = <<>> THEN harm ELSE harm \cup {"reopened"}
  /\ LoopFrame
  /\ UNCHANGED <<phase, readBuffer, traffic, txVars, cause>>

\* Without traffic in nothing is ever passed to it (a bound).
SetReadCallback ==
  /\ CanCall /\ traffic = "in" /\ event # NoEvent /\ cause = "none"
  /\ readCallback' = TRUE
  /\ AppFrame
  /\ UNCHANGED <<reg, live, revents, phase, state, event, fd, line, asked, traffic, unread, txVars, cause, harm>>

\* A member of the event called through serialEvent_, which may be null.
OnEvent(r) ==
  IF event = NoEvent
    THEN phase' = "aborted" /\ UNCHANGED reg
    ELSE reg' = r /\ UNCHANGED phase

StartDevice ==
  /\ CanCall /\ Moving /\ state = "kInited"
  /\ OnEvent(EnableReading(reg, event))
  /\ state' = "kRunning"
  /\ AppFrame
  /\ UNCHANGED <<live, revents, event, fd, readCallback, line, asked, traffic, unread, txVars, cause, harm>>

Stranded == IF writeBuffer = <<>> THEN harm ELSE harm \cup {"stopped"}

\* stop() disables the event; the state stays kRunning.
StopDevice ==
  /\ CanCall /\ state = "kRunning"
  /\ OnEvent(DisableAll(reg, event))
  /\ harm' = Stranded
  /\ AppFrame
  /\ UNCHANGED <<live, revents, portVars, unread, txVars, cause>>

Closing(r) == IF state = "kRunning" THEN DisableAll(r, event) ELSE r

\* Mutant: close() leaves the state as it is.
SameState == state

Closed == "kNone"

StoppedBefore == state = "kRunning" /\ event # NoEvent /\ reg.index[event] = "kDeleted"

\* close(): stop(), cleanup(); the descriptor stays open.  The stop() of a
\* device stopped before puts its event back into epoll.
CloseDevice ==
  /\ CanCall
  /\ IF state = "kRunning" /\ event = NoEvent
       THEN /\ OnEvent(reg)
            /\ UNCHANGED <<live, event, state, cause>>
       ELSE /\ reg' = Closing(reg)
            /\ live' = live \ {event} /\ event' = NoEvent
            /\ state' = Closed
            /\ cause' = CASE StoppedBefore          -> Fault("closedStopped")
                         [] InSeq(event, active) -> Fault("deletedReported")
                         [] OTHER                -> cause
            /\ UNCHANGED phase
  /\ harm' = Stranded
  /\ AppFrame
  /\ UNCHANGED <<revents, fd, readCallback, line, asked, traffic, unread, txVars>>

\* ~SerialDevice(): cleanup(), and with fd_ the descriptor is closed.  The
\* program may make another device, which has nothing of this one.
DestroyDevice ==
  /\ CanCall /\ Moving /\ cause = "none"
  /\ cause' = IF InSeq(event, active) THEN "deletedReported" ELSE cause
  /\ reg' = CloseFd(reg, fd)
  /\ live' = live \ {event} /\ event' = NoEvent
  /\ fd' = NoFd /\ state' = "kNone"
  /\ readBuffer' = Buffer!New(<<>>) /\ writeBuffer' = <<>>
  /\ unread' = <<>> /\ hung' = FALSE
  /\ harm' = harm \cup (IF unread = <<>> THEN {} ELSE {"reopened"})
                  \cup (IF writeBuffer = <<>> THEN {} ELSE {"destroyed"})
  /\ LoopFrame
  /\ UNCHANGED <<revents, phase, readCallback, line, asked, traffic, sent, wire>>

\* write() takes n of the bytes, or fails (-1).
Written(n, k) == IF n < 0 THEN 0 ELSE n

\* Mutant: data is written at once though older data is still buffered.
MayWriteAlways == TRUE

MayWrite == writeBuffer = <<>>

\* Mutant: writing is not enabled for what is left.
NotArmed(r) == r

Armed(r) == EnableWriting(r, event)

\* send(): behind buffered data, or written; what a short write leaves is
\* buffered by its length, from the start of the data.
Send(k) ==
  /\ CanCall /\ state = "kRunning" /\ traffic = "out" /\ cause = "none" /\ sent + k <= MaxSent
  /\ sent' = sent + k
  /\ \/ /\ ~MayWrite
        /\ writeBuffer' = writeBuffer \o Numbered(k)
        /\ UNCHANGED <<reg, phase, wire, harm>>
     \/ /\ MayWrite
        /\ \E n \in -1 .. k :
             LET left == k - Written(n, k)
             IN /\ wire' = wire \o SubSeq(Numbered(k), 1, Written(n, k))
                /\ writeBuffer' = writeBuffer \o SubSeq(Numbered(k), 1, left)
                /\ IF left > 0 THEN OnEvent(Armed(reg))
                   ELSE UNCHANGED <<reg, phase>>
                /\ harm' = IF left \in 1 .. k - 1 THEN harm \cup {"shortWrite"} ELSE harm
  /\ AppFrame
  /\ UNCHANGED <<live, revents, portVars, unread, cause>>

LoopCall == ((Moving /\ CanCall) \/ ~poolUp) /\ PostTask /\ UNCHANGED <<portVars, rxVars, txVars, cause, harm>>

-----------------------------------------------------------------------------
(* The line and the kernel.                                                *)

Arrive ==
  /\ fd # NoFd /\ ~hung /\ traffic = "in" /\ cause = "none" /\ arrived < MaxArrived
  /\ arrived' = arrived + 1 /\ unread' = Append(unread, arrived + 1)
  /\ UNCHANGED <<vars, portVars, readBuffer, frame, hung, delivered, txVars, cause, harm>>

HangUp ==
  /\ Moving /\ fd # NoFd /\ hung' = TRUE
  /\ UNCHANGED <<vars, portVars, readBuffer, frame, unread, arrived, delivered, txVars, cause, harm>>

Raw ==
  {"OUT"} \cup (IF hung THEN {"IN", "HUP"} ELSE IF unread # <<>> THEN {"IN"} ELSE {})

Sig(f) == Reportable(reg.kmask[f]) \cap Raw

Ready == {f \in Registered : Sig(f) # {}}

SerialPoll ==
  /\ phase = "poll"
  /\ Report(Ready, [f \in Ready |-> Sig(f)])
  /\ UNCHANGED <<portVars, rxVars, txVars, cause, harm>>

-----------------------------------------------------------------------------
(* The event's callbacks.                                                  *)

Runs(callback) ==
  /\ phase = "incallback" /\ calls # <<>> /\ Head(calls) = callback

\* What a callback leaves alone.
CallbackFrame ==
  UNCHANGED <<live, doomed, taskQueue, keepRunning, poolUp, phase, active, revents, locked, cap,
              portVars, hung, arrived, cause>>

Keep(bytes) == readBuffer' = Buffer!WriteData(readBuffer, bytes)

\* What a readv takes of the bytes that are there, and what it leaves.
Taken == SubSeq(unread, 1, Buffer!Least(MaxRead, Len(unread)))

Left == SubSeq(unread, Len(Taken) + 1, Len(unread))

\* onReadCallBack(): the first readv.
ReadFirst ==
  /\ Runs("read") /\ readCallback /\ frame = "none" /\ unread # <<>>
  /\ Keep(Taken) /\ unread' = Left
  /\ frame' = "reading"
  /\ CallbackFrame
  /\ UNCHANGED <<reg, calls, delivered, txVars, harm>>

\* Every later readv leaves 1 in rsize, the value of the comparison.
ReadAgain ==
  /\ frame = "reading" /\ unread # <<>>
  /\ Keep(<<Head(unread)>>) /\ unread' = Left
  /\ harm' = IF Len(Taken) > 1 THEN harm \cup {"readAgain"} ELSE harm
  /\ CallbackFrame
  /\ UNCHANGED <<reg, calls, frame, delivered, txVars>>

\* There is no more to read: the application gets data() and readableBytes().
ReadDone ==
  /\ frame = "reading" /\ unread = <<>>
  /\ delivered' = delivered \o SubSeq(readBuffer.data, 1, readBuffer.w)
  /\ frame' = "received"
  /\ CallbackFrame
  /\ UNCHANGED <<reg, calls, readBuffer, unread, txVars, harm>>

Cleared(b) == Buffer!Clear(b)

AppReturns ==
  /\ frame = "received"
  /\ readBuffer' = Cleared(readBuffer)
  /\ frame' = "none" /\ calls' = Tail(calls)
  /\ CallbackFrame
  /\ UNCHANGED <<reg, unread, delivered, txVars, harm>>

\* No callback is set; or there is nothing to read: that is logged, and the
\* buffer cleared.
Pass ==
  /\ \/ Runs("close")
     \/ Runs("read") /\ frame = "none" /\ (~readCallback \/ unread = <<>>)
  /\ readBuffer' = IF Runs("read") /\ readCallback THEN Cleared(readBuffer) ELSE readBuffer
  /\ calls' = Tail(calls)
  /\ CallbackFrame
  /\ UNCHANGED <<reg, frame, unread, delivered, txVars, harm>>

\* FlushBytes bytes from where the buffer's bytes begin.
Flushed == [i \in 1 .. FlushBytes |-> IF i <= Len(writeBuffer) THEN writeBuffer[i] ELSE 0]

\* onWriteCallBack(): the buffer is emptied; its first FlushBytes bytes are
\* offered to write(), whatever it held and whatever write() takes.
WriteCallback ==
  /\ Runs("write")
  /\ IF writeBuffer = <<>>
       THEN reg' = DisableWriting(reg, event) /\ UNCHANGED <<txVars, harm>>
       ELSE /\ \E n \in -1 .. FlushBytes :
                 /\ wire' = wire \o SubSeq(Flushed, 1, Written(n, FlushBytes))
                 /\ harm' = IF n = FlushBytes /\ Len(writeBuffer) = FlushBytes
                              THEN harm ELSE harm \cup {"flush"}
            /\ writeBuffer' = <<>>
            /\ UNCHANGED <<reg, sent>>
  /\ calls' = Tail(calls)
  /\ CallbackFrame
  /\ UNCHANGED <<readBuffer, frame, unread, delivered>>

LoopOnly ==
  /\ \/ NoTask \/ StartTask \/ TaskReturns \/ HandleEvent \/ EndIteration
     \/ calls = <<>> /\ EventHandled
  /\ UNCHANGED <<portVars, rxVars, txVars, cause, harm>>

-----------------------------------------------------------------------------
Sound == NoUseAfterFree /\ phase # "aborted"

DeviceStep ==
  \/ SerialPoll \/ LoopOnly
  \/ ReadFirst \/ ReadAgain \/ ReadDone \/ Pass \/ WriteCallback
  \/ AppReturns

AppCalls ==
  \/ InitInUse \/ InitDevice \/ SetReadCallback \/ CleanUp \/ DestroyDevice
  \/ StartDevice \/ StopDevice \/ CloseDevice
  \/ \E k \in 1 .. MaxSent : Send(k)
  \/ LoopCall
  \/ RunLoop /\ ~poolUp /\ keepRunning' /\ UNCHANGED <<portVars, rxVars, txVars, cause, harm>>

\* Nothing is said of a program that uses a deleted or a null event.
SerialNext == Sound /\ (DeviceStep \/ AppCalls \/ Arrive \/ HangUp)

SerialSpec == SerialInit /\ [][SerialNext]_serialVars /\ WF_serialVars(Sound /\ DeviceStep)

-----------------------------------------------------------------------------
(* Safety.                                                                 *)

\* A deleted or null event is used for four reasons only: init() of a device in
\* use, cleanup() of one, a close() after a stop(), whose second stop() puts the
\* event back into epoll, and a close() or the end of the device between the
\* poll that reported the event and the return of its callback
\* (SerialDevice.cpp:31, 37-40, 78-92).
PortFaultsExplained == ~Sound => cause # "none"

\* Without such a fault epoll knows no event but the device's, on the
\* descriptor it has, with the mask it wants: close() leaves only the map behind.
PortAgrees ==
  /\ SerialTypeOK
  /\ cause = "none" =>
       \A f \in Fds : reg.kptr[f] # NoEvent =>
         f = fd /\ reg.kptr[f] = event /\ reg.kmask[f] = reg.events[event]

\* The bytes on the line and in the buffer are the bytes sent, once each and
\* in order, unless a write was short, a flush did not find, or not get rid of,
\* exactly FlushBytes bytes, or the device ended with bytes in its buffer
\* (SerialDevice.cpp:31, 252-287).
SentInOrder ==
  harm \cap {"shortWrite", "flush", "destroyed"} = {} => wire \o writeBuffer = [i \in 1 .. sent |-> i]

\* The bytes delivered, read and waiting are the bytes that arrived, once each
\* and in order; they have gaps only when a readv after the first takes more
\* than one byte, or the port is opened anew or closed with the device
\* (SerialDevice.cpp:31, 228-248).
ReadInOrder ==
  LET held == IF frame = "received" THEN <<>> ELSE Buffer!Readable(readBuffer)
      all == delivered \o held \o unread
  IN /\ \A i \in 1 .. Len(all) - 1 : all[i] < all[i + 1]
     /\ harm \cap {"readAgain", "reopened"} = {} => all = [i \in 1 .. arrived |-> i]

\* Nothing is lost, repeated or disordered on the way but for those reasons.
BytesInOrder == SentInOrder /\ ReadInOrder

\* A terminal is set as asked, whatever it was set to before, except that two
\* rates keep the old speed, software flow control sets a bit of the speed, and
\* hardware flow control and space parity are as none (SerialDevice.cpp:103-213).
LineAsAsked ==
  state = "kInited" =>
    /\ \/ line \cap CBAUD = BaudRate2Enum(asked.rate)
       \/ asked.rate \in {14400, 56000}
       \/ asked.flow = "Software" /\ line \cap CBAUD = BaudRate2Enum(asked.rate) \cup {12}
    /\ line \cap CSIZE = Size(asked.dataBits)
    /\ CSTOPB \subseteq line <=> asked.stopBits = 2
    /\ PARENB \subseteq line <=> asked.parity \in {"Odd", "Even"}
    /\ PARENB \subseteq line => (PARODD \subseteq line <=> asked.parity = "Odd")
    /\ CRTSCTS \cap line = {}

-----------------------------------------------------------------------------
(* Liveness.                                                               *)

Over == Stopped \/ ~Sound \/ cause # "none"

\* Buffered data leaves the buffer, whatever is sent behind it, unless the device
\* was stopped with data in it: after that nothing enables writing, and all that
\* is sent is only kept.
BufferedIsFlushed == writeBuffer # <<>> ~> writeBuffer = <<>> \/ "stopped" \in harm \/ Over
=============================================================================
