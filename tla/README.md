# A verification of CPPToolBox in TLA+

CPPToolBox (`src/gwcpp`) is a C++ library for embedded Linux: an epoll event
loop with a thread pool, timers, TCP servers and clients, serial lines, ADC
chips, and the buffers and the logging these use.  The repository has no
tests; the specifications are read off the code, the few comments of the
headers and `src/README.md` say what it is meant to do.  The build type
`CMakeLists.txt` selects is Release: an `assert` does not stop the program, so
the models record whether every assert met so far would have held, and go on.

## The system

| Component | State | Operations |
|---|---|---|
| `Poller` (event/Poller.*) | epoll descriptor, map from descriptor to event, array of reported events | `poll`, `updateEvent`, `removeEvent`, `hasEvent` |
| `EpollFdEvent` (event/EpollFdEvent.*, Event.h) | descriptor, enabled mask, `index_` (new, added, deleted), reported signals, one-shot flag, lock | `init`, `enable*/disable*`, `remove`, `handleEvent` |
| `Loop` (event/Loop.*) | `keepRunning_`, task queue, collected events, poller, pool | `runLoop`, `runTask`, `exitLoop`, `isRunning`, `updateEvent`, `removeEvent` |
| `ThreadPool`, `SafeQueue` (event/ThreadPool.h, base/SafeQueue.h) | threads, queue of functions, shutdown flag, mutex, condition variable | `init`, `submit`, `shutdown`, worker threads |
| `Timer` (event/Timer.*) | timerfd, its interval, an event | `init`, `start`, `stop`, `cleanup`, `remainTime`, `onTimer` |
| `Fd` (event/Fd.*) | descriptor and reference count shared by copies | copy, assign, move, `close`, destructor |
| `Acceptor`, `TcpConnection`, `TcpServer` (net/) | listening socket, connection states, buffers, map of connections by name | `start`, `stop`, `handleRead/Write/Close`, `disconnect`, `newConnection`, `removeConnection` |
| `Connector`, `TcpClient` (net/) | connector state, its event and socket, current connection | `start`, `stop`, `reStart`, `handleWrite`, `newConnection`, `removeConnection` |
| `Socket`, `Address` (net/) | an `Fd` and an address | wrappers of the system calls |
| `ByteBuf` (base/ByteBuf.*) | stored bytes, reader and writer index | typed reads and writes, `discardReadBytes`, `clear`, comparison |
| `SerialDevice`, `Module`, `IODevice` (device/, base/Module.h) | module state, descriptor, event, send buffer | `init`, `start`, `stop`, `close`, `cleanup`, `send`, read and write callbacks |
| `ADCDevice`, `IOControl` (device/) | I2C or GPIO descriptors | register reads and writes |
| `CLog`, `LogStream` (base/) | a bounded buffer per message | formatted output |
| `FileHelper`, `Utils`, `MacroDef` (base/) | none | helpers for files and strings |

How they interact.  Everything but the pool's functions happens on the one
thread that runs `Loop::runLoop`.  An iteration (1) asks the `Poller` what is
ready and collects pointers to the `EpollFdEvent`s in `activeEvents_`, (2)
runs at most one task of the queue, (3) lets every collected event call its
owner back.  The owners (timers, connections, devices) change the registration
of their events and of others in these callbacks and tasks, and destroy
objects: deletion is postponed by posting it as a task.  The pool's threads
share a queue, a mutex and a condition variable with `submit` and `shutdown`.

What is hard:

  - an iteration works on pointers and signals collected at its start while
    tasks and callbacks disable, remove, re-register and delete events;
  - three parties keep a copy of every registration: the event (`index_`,
    `events_`), the Poller's map, the kernel;
  - a one-shot event changes its own registration after its callbacks;
  - `poll` sees only as many ready descriptors as its array has room for;
  - workers, submitters and `shutdown` interleave around a condition variable
    that is notified without its mutex;
  - connections end by the peer, by the application and by the server, in any
    order, and their objects are kept alive by a map, tasks and callbacks;
  - a client retries while an earlier attempt's event is still being handled,
    and posts tasks that do not say which attempt they are for;
  - a serial port may be stopped, closed and opened again between a poll and
    the callbacks it leads to, and its buffer outlives the port;
  - a buffer has two indexes and two marks, which `clear`, `discardReadBytes`
    and going back to a mark move independently;
  - a closed descriptor is soon another object's, while handles are copied and
    assigned, Sockets remember, and the converter keeps a plain number.

What makes it correct: the three copies of a registration agree; the loop never
touches a deleted event; a removed event stays removed; no ready descriptor and
no posted deletion starves; no task of the pool is lost or run twice and none
waits while every worker sleeps; a timer that is on calls back, a one-shot one
once; a connection that ends is destroyed; bytes leave a buffer, a connection
and a port in order, once and completely; nobody closes a descriptor that
another holds, and none is left open.  Where the code falls short, a property
names the exceptions, or a run shows the violation.

## The modules

| Module | Models | Extends |
|---|---|---|
| `Poller` | registration: operators on a record holding what events, map and kernel know | |
| `EventLoop` | `Loop::runLoop`, `EpollFdEvent::handleEvent`, `Poller::poll`, and the application's calls | `Poller` |
| `TaskPool` | abstract: what a pool of threads promises | |
| `ThreadPool` | `ThreadPool` and `SafeQueue`, one action per step of a thread | instance of `TaskPool` |
| `Timer` | timers on the loop, with the timerfds of the kernel | `EventLoop` |
| `TcpServer` | `Acceptor`, `TcpConnection`, `TcpServer` on the loop, their application and clients | `EventLoop` |
| `TcpClient` | `TcpClient`, `Connector` and the connection they get, on the loop | `EventLoop` |
| `SerialLine` | what `uartSet` makes of the terminal's control word | |
| `SerialDevice` | a serial port on the loop, its buffers and its line | `EventLoop`, `SerialLine`, instance of `ByteBuf` |
| `ByteStream` | abstract: what a byte buffer promises | |
| `ByteBuf` | the buffer's member functions as operators | |
| `BufferUse` | a program that calls them in any order | `ByteBuf`, instance of `ByteStream` |
| `Fd` | counted handles and the table of descriptors, as operators | |
| `Socket` | class `Socket` and the kernel's sockets | `Fd` |
| `ADCDevice` | the converter's descriptor and register | `Fd` |
| `Devices` | handles, Sockets, converter and pins in one process | `Socket`, `ADCDevice` |
| `*_proofs` | theorems and proofs | the module of that name |
| `MCTcpServer` | symmetry for TLC | `TcpServer` |

`EventLoop` checks the loop under the most general application.  `Timer`,
`TcpServer`, `TcpClient` and `SerialDevice` replace that application by the
library's own classes: they use the steps of the loop (`HandleEvent`,
`EventHandled`, `EndIteration`, ...) and the operators of the Poller, and give
the callbacks their bodies.  `Devices` and `BufferUse` stand beside the loop:
these classes have no thread and no callback.

### Poller

A registry is one record: `index`, `events` and `fd` are the members
`index_`, `events_`, `fd_` of every event object, `map` is
`Poller::fdEventMaps_`, `kptr` and `kmask` are the kernel's entry of every
descriptor.  `UpdateEvent` and `RemoveEvent` are `Poller::updateEvent` and
`Poller::removeEvent`; the enable and disable members are built on them.
`epoll_ctl` fails as the kernel's does (ADD of a present, MOD of an absent
descriptor) and, as in `Poller::update`, failure is only logged.  `asserts`
remembers whether every assert so far held.

### EventLoop

`phase` is where the loop's thread is: outside `runLoop`, about to poll, about
to run a task, in a task, about to handle the next collected event, in a
callback.  `active` is the rest of `activeEvents_`, `calls` the callbacks the
current event has still to make.  The application is any program that uses the
classes: whenever it has control (outside the loop, in a task, in a callback)
it may create events on any descriptor not in the map, enable, disable and
remove events, post tasks and deletions and call `exitLoop`.  Its one rule is
the rule the library's own classes follow (`TcpServer::removeConnection`,
`TcpClient::removeConnection`, `Connector::removeAndResetChannel`): an event
object is deleted by a posted task, and the event is disabled when the task is
posted.  It does not remove a one-shot event whose own `disableAll()` is still
to come (`EpollFdEvent.cpp:73`): that call would register the event again, so
that `remove()` in a one-shot's own callback does not last.
The kernel reports any registered descriptors with any signals their masks
allow, in any order, leaving out a ready one (`AlwaysReady`) only when the
array is full.  A second `runLoop` ends the program (`aborted`), because the
pool's `init` assigns over joinable threads.

### ThreadPool and TaskPool

A worker is at one of the places `WorkerPlaces`: the test of `m_shutdown`, the
lock, the test of the queue, the wait, the wake-up, the dequeue, the call of
the function.  A worker in `wait` is asleep until a notification or a spurious
wake-up.  `submit` is two steps, enqueue and notify, as in the code, and any
number of submissions may be between the two; `shutdown` is three, the flag,
`notify_all` and the joins.  `TaskPool` forgets threads, mutex and condition
variable: tasks are submitted, start in the order of submission, at most once
each, and finish; `ImplementsTaskPool` is the refinement.

### Timer

`timerFd` is `timerFd_`; `armed` and `expired` are the state of the timerfd,
set and expired but not read.  `InitTimer`, `Start`, `Stop` and `Cleanup` are
the member functions, in the code's order and with what they leave behind:
`Stop` arms the timerfd again (it passes `timerSpec_`), `Cleanup` closes the
descriptor and tells neither the event nor the Poller, a closed descriptor may
come back for any timer.  `TimerPoll` is `poll`; `Fire` and `NotExpired` are
the two outcomes of the read in `onTimer`, and while `calling` is a timer the
application is in its callback and may call anything.  The application cleans
a timer up only when its event is out of epoll and not about to disable itself
(`CleanupAtRest`), the rule `EventLoop` has for deletions.  `Timers` and
`Events` are the same set: a timer's event lives as long as the timer.
The application starts, stops and cleans up timers that are initialised, a
timer that is on included, and initialises one only after `cleanup`: `start`
and `stop` do not check, and what they do without a descriptor is outside the
model.  `due`, no part of the code, holds the timers that are started and owe a
callback; a one-shot timer started when it is `Spent`, locked or reported and
about to disable itself, owes none.  `StartedFires` is about the timers that
are due, `FreshFires`, which the code violates, about all that are on and have
not called back.

### TcpServer

A connection and its event are one object, alive while something points to
it: `connections` (the server's map), a posted `disconnect` in the task queue,
the frame `arg` that calls the application back, or a copy in `held`.
`Release` is what happens when pointers go: the destructors delete the event
without removing it and close the socket.  `Accept` is `Acceptor::handleRead`
with `newConnection` and `connectFinished`; `ReadData`, `ReadEnd`, `ReadReset`
are the outcomes of `recv` in `handleRead`, the last two ending in
`handleClose` (through `removeConnection`) and `handleError`; `HandleWrite`,
`DisconnectTask` and `Disconnect` are `handleWrite`, the posted and the direct
`disconnect`.  Of the buffers only `unsent` is kept: whether bytes wait.
`peer` is what the client has done to a descriptor (sent, sent an urgent byte
and nothing else, closed, reset), and `Sig` computes the signals from it, HUP
with IN as Linux does, PRI without IN for a lone urgent byte.  PRI runs the read
callback, whose `recv` then finds nothing and waits: the loop stands still
(`Blocked`) until the client does something more.  Taking the error of a reset
clears it (`ErrorTaken`), in the error callback (`getsockopt`) as in `recv`, so
of an event that reports ERR and IN the error callback takes the error and
`recv` finds the end of the stream.  Every connection has the same `Name`,
because `connId_` never changes.

Two specifications keep one defect of the code from hiding the rest.
`TurnSpec`: a client comes when no other is served, and the application closes
a connection only in that connection's callbacks; it may send, keep copies,
drop them, post tasks and stop the loop wherever it has control.  `CrowdSpec`
lets clients come at any time.  A write after a reset raises SIGPIPE, which
nothing in the library ignores, and ends the program (`BrokenPipe`).

### TcpClient

The application may call `start()` and `stop()` wherever it has control,
callbacks included.  `ConnectorStart` is `Connector::start` with the outcomes
of `connect` (in progress, or failed with the state as it was); `Established`
and `Retry` are the branches of `handleWrite`, with everything they call up to
the application's callback; `HandleClose` goes through `removeConnection` and,
if reconnecting is enabled, starts the connector again.  The task queue holds
connections (their posted `disconnect`) and `ResetEvent` (the connector's
posted `resetEvent`, which does not say which event it is for).  The server a
client talks to sends no urgent byte, and ERR is not reported: the connector
has no callback for it, and `handleError` of a connection only takes the error
away, after which `recv` ends the stream as it does for a close.  `TcpServer`
has both.

The code uses deleted events, so the model stops where the loop meets one
(`Sound`) and `cause` says how it came to that: a posted `resetEvent` that
finds the event of a newer attempt (`overtaken`, Connector.cpp:75), a new
attempt in the callback of the old attempt's event (`ownCallback`, line 106), a
`stop()` whose `event_` has already been reset (`nullEvent`; line 61 compares
`state_` where it should set it), and a `handleClose` of a connection stopped
since the poll, whose event goes back into epoll (`closedLate`,
TcpConnection.cpp:117).  `FaultsExplained` says that these are all, which is
what a reader who repairs the class needs to know.  `partedTwice` is a fifth
cause, of a failing assert only.

### SerialLine and SerialDevice

`UartSet` is `uartSet` on a word that is the set of its bits, numbered as
Linux numbers them, because the code sets flags of `c_iflag` in `c_cflag`,
where some are bits of the speed.  `SerialDevice` has the member functions as
actions: `InitDevice` and `InitInUse` (`init` deletes the event before it looks
at the state), `StartDevice`, `StopDevice`, `CleanUp` (the public `cleanup`,
which deletes the event in any state), `CloseDevice` (which stops, cleans up and
leaves the descriptor open), `DestroyDevice` (the destructor, after which the
program may make another device), `Send`, the callbacks
`ReadFirst`/`ReadAgain`/`ReadDone`/`AppReturns` and `WriteCallback`.  A `readv`
takes at most `MaxRead` (2048 in the program), and whoever opens the port anew
finds a line that has not hung up.  Bytes are
numbers, in the order they are sent or arrive, so a repeated, lost or
disordered byte shows.  `cause` names, as in `TcpClient`, how a deleted or null
event came to be used, and `harm` what was done to the data: a short write, a
flush that was not of exactly `sizeof(int32_t)` bytes, a read that went on
after its first `readv`, a port opened anew with bytes unread, stopped or
destroyed with data in the buffer.

### ByteBuf, ByteStream and BufferUse

A buffer is a record of the stored bytes, the two indexes and the two marks; a
member function is an operator that gives its outcome, an exception included.
Typed reads and writes are parameterised by the width of the type, and a shift
by the width of `int` or more gives `Garbage` or the right number, as the build
may.  Every action of `BufferUse` is one call; `out` is what it was given and
what it returned.  `ByteStream` is what a buffer promises; `StreamSteps` is the
refinement, as long as the indexes are in bounds.  `ByteBuf.h:236-238`
says that `copy()` copies the readable bytes; the code copies all it stores, and
`LooksAgree` says when that is the same.

### Fd, Socket, ADCDevice and Devices

`fds` is one record: the kernel's table of descriptors, and the Details with
their counts.  An open file is named by the number of its opening, so that a
descriptor used again is told from what it was.  `lost` counts the references
copy assignment overwrites (Fd.cpp:50).  A `Socket` is a handle and what the
object remembers of its socket (addresses, `isConnected_`) beside what the
kernel knows (`net`); `misled` names the calls after which the two may differ.  A
socket that is not bound to an address gets one when it connects, `mine` or
`other`, and loses it when the attempt fails and `connect` is called again; the
object keeps the first.
The converter keeps its descriptor as a plain `int` with no initial value, its
destructor closes nothing (`ConverterRenewed`), and its register is a set of
bits.  `IOControl` opens, uses and closes a device in
one call.  `leaked` and `thefts` record which files lost their last holder and
which were closed by one that did not hold them.

## Model checking

| Run | Shows |
|---|---|
| `loop` | two events (one of them one-shot), two descriptors, an array of one entry: no use of a deleted event, the registrations agree, the asserts hold, a removed event stays out; posted deletions run, an always ready descriptor is read although the array starts too small |
| `pool` | three workers, two tasks, spurious wake-ups, `init` and `shutdown` at any moment: no task lost or run twice, no task waiting while every worker sleeps, the pool implements `TaskPool`, every task is executed when tasks return, though notifications can be lost |
| `pool_shutdown` | violation: `shutdown` may wait for ever for a worker that missed `notify_all` |
| `timer` | two timers, one of them one-shot, on two descriptors that are closed and used again: a timer that is on is registered with its own descriptor, a one-shot timer calls back once at most, a timer that is started, on already or not, calls back unless it is stopped, or is a one-shot timer already locked or reported |
| `timer_restart` | violation: a one-shot timer that never called back is started and never calls back, because a `stop()` between `poll` and its callback locked its event |
| `server_turns` | two connections, clients in turn that send, also an urgent byte, close and reset at any moment: no use of a destroyed connection, registrations, map and states agree, the asserts hold, no message is stranded, `recv` blocks the loop for a lone urgent byte only |
| `server_live` | one connection: one the client ends is destroyed and its socket closed; a buffered message is sent unless the connection ends or the loop waits in `recv` for ever |
| `server_crowd` | violation: a second client makes the server destroy the first connection while it is registered, and the next user of the descriptor meets the stale entry of the map |
| `client` | started and stopped at any moment, reconnecting or not: a deleted or null event is met for four reasons only; without them registrations agree and there is one connection; an attempt is decided, a lost connection is destroyed |
| `serial` | opened, started, stopped, cleaned up, closed, destroyed and opened again at any moment: a deleted or null event is used for four reasons only; bytes are lost, repeated or disordered for the named reasons only; the line is as asked but for the named settings; buffered data leaves the buffer, whatever tasks send behind it, unless the port is stopped with it |
| `buffer` | every sequence of calls: in bounds the buffer is a stream, indexes leave their bounds and calls throw only where named, numbers and hexadecimal text read back, searches find the first place, `copy()` is the documented one of unread buffers only |
| `devices` | handles copied, moved, assigned and closed, Sockets made, refused, lost and connected again, converters and pins in one table: references are counted, nobody closes what another uses, what is open is held, what Sockets and the register remember is true, with every exception named |

Bounds.  Two events and two descriptors let an address or a descriptor be
reused while the other one is still registered or reported, and give both
orders of handling; two queued tasks hold a deletion and a plain task.  `loop`
has the signals IN and OUT: HUP and ERR only change which callbacks are called,
and the runs of the server, the client and the port, which extend the same
module, have them.  Three workers and two tasks let a notification reach a
worker that is waking, sleeping or between test and wait while the others run.
Two connections are enough for one to be served while another is still being
destroyed, with two queued tasks for the posted disconnect and the
application's own; the liveness run has one connection, whose descriptor and
address are used again and again.  The client has two events for the connector
(a new one is made before the old one is deleted) and two connections (one
current, one waiting for its `disconnect`), and three queued tasks.  A serial
port either receives three bytes, sends three, or has its line set (`traffic`):
the two directions share no variable but the event, and the line is set before
the port is started.  With two queued tasks the application can post the next
task from the one that runs, so its sends, stops and closes fall between any two
steps of the loop, any number of times.  Two descriptors let a port be opened
while its old descriptor is still open; there is one event object, whose address
every new event gets, the harder case, and a fault ends what the application may
do with the port; settings differ from the usual ones in two members at most
(`NearUsual`), which covers every pair that interacts in the word.
`FlushBytes` is 2 where the program has 4, so that the buffer can hold less
than, exactly, and more than a flush takes, and `MaxRead` is
2, so that a first `readv` can leave a byte.  A buffer stores at most three
bytes, one of them zero (what `std::string` makes of a pointer ends there), of
types of one to three bytes, with an `int` of two: a type fits, is exactly as
wide, or is too wide.  `devices` has three descriptors, three openings and
counts up to three; users of the table run alone and in the pairs that can
meet (`DevicesInit`).  `MaxTasks` bounds the task queue, the sets bound
everything else; the array of reported events doubles at most twice on two
descriptors and never fills in the modules that extend `EventLoop`.
Descriptors and connections of the server are interchangeable, and symmetry is
used only in its safety run.  `CHECK_DEADLOCK FALSE` stands where the program
may end (not in the runs of `Timer`, which calls `runLoop` once, and of
`BufferUse`): by a second `runLoop`, by SIGPIPE, by the use of a deleted or null
object, or with the pool shut down, and in `server_crowd` and `devices`, where
the bounded resources can all be in use.

Fairness.  `EventLoop!FairSpec` is weak fairness of the loop's own steps: the
thread is scheduled, `poll(0, ..)` does not block, callbacks and tasks return.
`ServerFairness`, `TimerFairness`, `ClientSpec` and `SerialSpec` have the same
for the loop with the bodies of the callbacks; a timerfd that stays armed
expires, and clients, servers and the line are not obliged to do anything.
`send` of the library is taken to return: a client that never reads what it is
sent would block it, and with it the loop.  A `recv` that waits for a client is
not taken to return; `SentOrLost` names the case (`Blocked`).
Nothing is assumed of the application: it may stay silent or never stop
calling.  `ThreadPool!FairSpec` is weak fairness of each worker's steps and of
the steps a started `submit` or `shutdown` still has to make; tasks return
unless they are in `Blocking`, which the runs leave empty; submissions,
`shutdown` and spurious wake-ups are not fair.  Locking is fair because the
mutex is held for a few instructions and Linux hands it on.

What the properties leave out, and the code does.  Each of these is an
exception a property names, or a rule an action follows:

  - with a task that blocks, another one may wait for ever beside a sleeping
    worker, whose notification was lost (ThreadPool.h:84);
  - a connection of the server that the application closes in a task, after
    `poll` has reported the client's close, fails the assert of `handleClose`
    (TcpConnection.cpp:115); the Release build goes on, registers the removed
    event with an empty mask, and may use it deleted; the client's model has
    this case (`closedLate`);
  - a connection the application has disconnected stays in the server's map,
    its socket open (TcpConnection.cpp:58); `Acceptor::stop` compares its state
    instead of setting it (Acceptor.cpp:67); `isRunning()` is true before
    `runLoop` (Loop.cpp:49);
  - a client that sends an urgent byte and nothing else stops the loop: PRI runs
    the read callback (EpollFdEvent.cpp:13, 64), and its blocking `recv`
    (TcpConnection.cpp:133) waits for ordinary data;
  - a stopped timer is armed (Timer.cpp:79); a one-shot timer that is started when
    it is locked or reported may never call back (EpollFdEvent.cpp:71-74); `Timer::cleanup` leaves the map
    entry, so an assert fails when the descriptor comes back (Timer.cpp:66,
    Poller.cpp:74), and a timer cleaned up while its event is registered with an
    empty mask never works again;
  - `discardReadBytes` drops one unread byte more and throws when there is none
    (ByteBuf.cpp:116); `clear` forgets no byte, so a buffer used as a queue
    grows; `readDouble` and its like always throw; `fromHex` of empty text ends
    the program; `getBytes` into a caller's array stores one byte; `copy` copies
    what has been read too (ByteBuf.cpp:111);
  - data that a stopped port still buffers is never written, not even after
    `close`, `init` and `start` (SerialDevice.cpp:271); `cleanup` and the
    destructor delete the event of a port in use (SerialDevice.cpp:31, 92);
  - `setCloseOnExec` clears O_NONBLOCK and does not set FD_CLOEXEC (Fd.cpp:136);
    a converter that ends without `close` leaves its descriptor open
    (ADCDevice.cpp:271); a Socket that connects again after a failed attempt
    remembers the address of the first (Socket.cpp:162);
  - the faults of `TcpClient`, `SerialDevice`, `Fd` and `ADCDevice` listed with
    their modules above and in the comments of their properties.

## Proofs

All constants are arbitrary: any number of events, descriptors, workers, tasks,
timers, handles, Sockets, openings, bytes and widths.

`EventLoop_proofs` starts with the Poller: every operator keeps the relation
between the three copies of a registration, `Linked`, whatever its caller does,
and `RegInv`, which is `Linked` with every assert so far met, when the caller
meets the asserts.  The modules that extend `EventLoop` use these lemmas.  For
the loop it uses an invariant `IInv` that adds to the properties:
every collected event is alive and registered in the map or doomed only if it
is not reported any more, no event is posted twice, an event in the queue is
doomed and not added.  `NoUseAfterFree` alone is not inductive: that a posted
deletion hits nothing that was collected needs "doomed events are not in
the kernel's list", and that needs the agreement of map, kernel and `index_`
and the absence of a pending `disableAll()`.  `RemoveLastsHolds` is about
a step: if no event is removed while its own
`disableAll()` is to come, the loop never registers a removed event again.

`ThreadPool_proofs` proves types, the mutex, the conservation of tasks,
`NeverAllAsleep` for at least two workers (with one worker it is false: its
only notification can be lost), and the step simulation for `TaskPool`.

`Timer_proofs` proves `TimersSound`.  That a timer that is on is registered is
not inductive: `stop` and the loop take events out of epoll, `cleanup` closes a
descriptor whose entry the Poller keeps, and `init` may get a descriptor that
another timer's event still names.  The invariant `TInv` says which entries of
the three copies belong to the timer that holds the descriptor now
(`Matches`), that only initialised timers are armed or collected
(`PendingInited`), and where the callback of a one-shot timer stands when its
own `disableAll()` is still to come (`PhaseInv`).  `OneShotOnce` needs one fact
more (`OnceInv`): a one-shot timer that has called back is locked, as its
event is after its last callback and for good, or still in that callback.

`TcpServer_proofs` proves the four safety invariants of `TurnSpec`:
`LoopSound`, `ServedAreConnected`, `SendsArmed` and `BlocksForUrgentOnly`.  A handler of
the server is a composition of calls (`handleClose`, `removeConnection`,
`disconnect`, the destructors), and between them the variables have no value of
their own; so the main part of `ServerIInv`, `Core`, is stated of values, and
each call is a lemma that takes a core to a core.  `Core` says that a connection
is in epoll while it is Connected and registered after that only as long as its
posted `disconnect` is to come (`Standing`), that such a task is posted once
(`Closing`), and that descriptors are not shared (`Sockets`).  `Reported` says
what `poll` has said: a reported connection is still Connected when its turn
comes, and has something to read if IN was reported.  It is here that
`TurnSpec` is needed: `OneClient`, that one client is served or waits to be,
keeps the map from losing a connection that is in use.  `CallingBack` ties the
stack of callbacks to the connection they are of.

`TcpClient_proofs` proves `OneConnection`, `ClientRegistryAgrees` and
`FaultsExplained`, the latter two of a program without a fault of the connector,
`OneConnection` with one too.  `ClientIInv` is built as the server's: `Core` says
of values where the connector's event is registered in each of its states
(`Trying`), that descriptors are not shared (`Apart`), that the client's
connection is in epoll until it is stopped (`Kept`), and of what is lost
(`Queued`).  `Reported` follows the reported events through the callbacks:
until it has been handled the connector's event is replaced by its own callback
only, which is a named fault.  After a late `handleClose()` an event is in epoll
that nobody owns, and of `ClientIInv` only `Core` is left and that the client
never connects again (`Late`).  A step of a fault keeps the types and
`OneConnection`; after it the model stops.

`Devices_proofs` proves `HandlesCounted`, `NumbersTrue` and `NothingElseLeaks`.
Each member function of `Fd` is a lemma: it keeps `Good`, which says of the
table and the Details together that a Detail counts the handles on it and what
copy assignment has lost (`Counted`), that its number is open on its own file,
which is no other's and not the converter's (`Named`), that a file is open
under one number (`Opened`), and that an open file is held (`Held`).  None of
these is inductive alone: that the last handle closes nothing of another's
needs `Named` and `Opened`, that the file it closes is no longer held needs
`Counted`.  The members that release (`Releases`) take numbers and references
away and leave a file alone that is in no Detail, which is why the descriptor
just opened for a new object survives the end of the old one (`StaysFresh`).
Of a `close()` of the converter that hits another's descriptor, `DevicesInv`
keeps only the counts and the holders.

Its last part proves what the devices remember.  `FieldsAsAsked` is about numbers cut out of the
register; `FieldsInv` says the same of its bits (`Shifted`), with the fields
apart (`FieldsApart`) and every value that is asked small enough for its field.
`CachedIsTrue` needs `DevicesInv`, because the file a Socket is on is what its
handle's Detail names: `SocketInv` says that a Socket that was made agrees with
the kernel's socket of its file (`Truthful`), whose address is the one it is
bound to, if any, unless it has connected (`Settled`), that no two Sockets share
a Detail, and that a file not yet opened has a fresh one.

`SerialDevice_proofs` proves `PortFaultsExplained`, `PortAgrees`, `BytesInOrder`
and `LineAsAsked`.  `SerialIInv` has a part for each.  `RegPart` and `LoopPart`
hold with a fault too: the device's event is the only one that exists, and an
entry of epoll is on its own event's descriptor.  `PortGood` holds until there is
a fault: what a poll has reported is the device's event, a device that is not
running has no entry in epoll and nothing reported, and one that runs has the
mask it wants there.  None of this mentions the Poller's map, where `close()`
leaves entries of deleted events, so the lemma about enabling and disabling
(`Updates`) does not ask for it.  `RxInv` and `TxInv` follow the bytes: what is
delivered, held in the buffer (between two reads only what the application has
not been given) and waiting is one sequence, and every callback moves bytes
within it, or notes that it loses the tail (`RxMoves`, `RxLoses`).  `LineIs` is
proved of `uartSet` bit by bit, for every word the terminal had and all settings
it accepts, where the run has two words and few settings.

`BufferUse_proofs` proves `BoundsKept`, `LooksAgree`, `StreamSteps` and
`ReadsBack` for every sequence of calls.  The invariant is that a buffer is
formed, a sequence and four natural numbers (`Formed`), that it holds bytes
(`BytesIn`), and that the last number read is the one whose bytes were given.
For the bounds each call is a lemma about lengths (`SetDataFormed`,
`WriteDataFormed`, `SliceLen`, `ReadsGive`); for the stream it is one about what
is readable: `WrittenBehind` says that a write in front of what `clear()` left
adds at the end of the readable bytes, `FrontTaken` that a read takes from their
front.  The searches are proved to give the least place there is (`IndexFound`,
`ByteFound`, `RunFound`).

That the bytes written for a number are the bytes it was read from (`RoundTrip`)
is an induction over the bytes.  The library's induction theorems cannot be used,
but the well-foundedness of the naturals can: a set of numbers that is not empty
has a least one (`LeastIn`).  It gives the existence of a function defined by
recursion (`Recursion`), and, with the least number of shifts at which it would
fail, that shifting a number drops its trailing bytes one by one
(`ShiftedDigits`).  `Number` and `Shifted` are recursive functions for that
reason.

Assumptions: the named `ASSUME`s of the modules (sentinel values are none of
the real ones, sets are finite, a timerfd is readable by IN, the signals that
clients, servers and serial ports raise are signals), which TLC evaluates in the runs.

Only model-checked: all liveness, which is out of the prover's reach, and the
violations.  Every invariant and every action property that a passing run checks
is also proved.

## Not modelled

  - `Loop::runTask` of another thread, which pushes to the task queue without
    the lock `handleTaskFun` holds (Loop.cpp:56): what a torn `std::deque` does
    is undefined, and a model that says "anything" says nothing.
  - The destructors of `Loop`, `Acceptor`, `TcpServer` and `TcpClient`, which
    the models' programs never run, and `SafeQueue::clear` and `size`, which
    nobody calls.
  - Of `Socket`: the options (`setKeepAlive` and its like), `shutDownWrite`,
    `send`, `recv`, `getSocketError`, which keep nothing in the object; class
    `Address`, a value.
  - Of `Fd`: `setNonBlock` and `setCloseOnExec`, which change flags of the
    kernel's file and nothing the object keeps.
  - Of `ADCDevice`: `continuousRead`, which changes no state, the voltages, and
    the results of the setters (`setChannel` returns 0, which is false, when it
    succeeds, ADCDevice.cpp:82); of `Timer`: the conversions of times.
  - Of `TcpConnection`, in `TcpClient`: the error signal after a reset, whose
    callback only clears the pending error before the same end of the
    connection; `TcpServer` has it.
  - `CLog` and `LogStream`: formatting and output to files, on which nothing
    else depends.
  - `FileHelper`, `Utils`, `MacroDef`: helpers without state of their own.
  - `TcpConnection`'s buffers beyond whether bytes wait: `ByteBuf` and
    `SerialDevice` have the buffers.  `handleWrite` empties its buffer whatever
    `send` returns (TcpConnection.cpp:94-100), and the model takes it as sent.
