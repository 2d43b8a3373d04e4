------------------------------- MODULE Poller -------------------------------
(***************************************************************************)
(* The registration of descriptor events with epoll: Poller.cpp together   *)
(* with the enable/disable/remove members of EpollFdEvent.h.  A registry   *)
(* is one record holding what the EpollFdEvent objects, the Poller's map   *)
(* and the kernel's interest list know about each other; every member      *)
(* function of the two classes is an operator from registries to           *)
(* registries, so that a callback making several calls is a composition.   *)
(*                                                                         *)
(* The build type CMakeLists.txt chooses is Release: an assert of the code *)
(* does not stop the program.  "asserts" records that every assert met so  *)
(* far would have held.                                                    *)
(***************************************************************************)
CONSTANTS Events,    \* addresses of EpollFdEvent objects
          Fds,       \* file descriptors
          NoEvent    \* no pointer stored

ASSUME NoEventAssumption == NoEvent \notin Events

Masks == SUBSET {"read", "write"}        \* kReadEvent, kWriteEvent

Indexes == {"kNew", "kAdded", "kDeleted"}

Registry ==
  [ index   : [Events -> Indexes],                \* EpollFdEvent::index_
    events  : [Events -> Masks],                  \* EpollFdEvent::events_
    fd      : [Events -> Fds],                    \* EpollFdEvent::fd_
    map     : [Fds -> Events \cup {NoEvent}],     \* Poller::fdEventMaps_
    kptr    : [Fds -> Events \cup {NoEvent}],     \* epoll: data.ptr of the entry
    kmask   : [Fds -> Masks],                     \* epoll: requested events
    asserts : BOOLEAN ]

\* No event registered; an object not initialised yet may hold any fd_.
EmptyRegistry(fd) ==
  [ index   |-> [e \in Events |-> "kNew"],
    events  |-> [e \in Events |-> {}],
    fd      |-> fd,
    map     |-> [f \in Fds |-> NoEvent],
    kptr    |-> [f \in Fds |-> NoEvent],
    kmask   |-> [f \in Fds |-> {}],
    asserts |-> TRUE ]

\* The constructor followed by init(fd, mode).
Construct(reg, e, f) ==
  [reg EXCEPT !.index[e] = "kNew", !.events[e] = {}, !.fd[e] = f]

(***************************************************************************)
(* epoll_ctl.  ADD fails on a descriptor already in the interest list, MOD *)
(* and DEL on one that is not; Poller::update only logs the failure.       *)
(***************************************************************************)
Entry(reg, f, ptr, mask) == [reg EXCEPT !.kptr[f] = ptr, !.kmask[f] = mask]

EpollAdd(reg, e) ==
  LET f == reg.fd[e]
  IN  IF reg.kptr[f] = NoEvent THEN Entry(reg, f, e, reg.events[e]) ELSE reg

EpollMod(reg, e) ==
  LET f == reg.fd[e]
  IN  IF reg.kptr[f] # NoEvent THEN Entry(reg, f, e, reg.events[e]) ELSE reg

EpollDel(reg, e) == Entry(reg, reg.fd[e], NoEvent, {})

(***************************************************************************)
(* Poller::updateEvent: the first branch serves events that are new or     *)
(* were deleted, whatever their mask is now.                               *)
(***************************************************************************)
Claim(reg, claim) == [reg EXCEPT !.asserts = @ /\ claim]

AddNew(reg, e) ==
  LET f == reg.fd[e]
  IN  EpollAdd([Claim(reg, reg.map[f] = NoEvent)
                  EXCEPT !.map[f] = e, !.index[e] = "kAdded"], e)

AddAgain(reg, e) ==
  EpollAdd([Claim(reg, reg.map[reg.fd[e]] = e) EXCEPT !.index[e] = "kAdded"], e)

\* Mutant: an event with nothing enabled stays in the kernel's list.
ChangeKeepEntry(reg, e) ==
  LET r == Claim(reg, reg.map[reg.fd[e]] = e)
  IN  IF reg.events[e] = {}
        THEN [EpollMod(r, e) EXCEPT !.index[e] = "kDeleted"]
        ELSE EpollMod(r, e)

Change(reg, e) ==
  LET r == Claim(reg, reg.map[reg.fd[e]] = e)
  IN  IF reg.events[e] = {}
        THEN [EpollDel(r, e) EXCEPT !.index[e] = "kDeleted"]
        ELSE EpollMod(r, e)

UpdateEvent(reg, e) ==
  CASE reg.index[e] = "kNew"     -> AddNew(reg, e)
    [] reg.index[e] = "kDeleted" -> AddAgain(reg, e)
    [] reg.index[e] = "kAdded"   -> Change(reg, e)

RemoveEvent(reg, e) ==
  LET f == reg.fd[e]
      r == Claim(reg, /\ reg.map[f] = e
                      /\ reg.events[e] = {}
                      /\ reg.index[e] \in {"kAdded", "kDeleted"})
      s == IF reg.index[e] = "kAdded" THEN EpollDel(r, e) ELSE r
  IN  [s EXCEPT !.map[f] = NoEvent, !.index[e] = "kNew"]

(***************************************************************************)
(* The members of EpollFdEvent that change events_ and call update().      *)
(***************************************************************************)
SetEvents(reg, e, mask) == UpdateEvent([reg EXCEPT !.events[e] = mask], e)

EnableReading(reg, e)  == SetEvents(reg, e, reg.events[e] \cup {"read"})
EnableWriting(reg, e)  == SetEvents(reg, e, reg.events[e] \cup {"write"})
DisableReading(reg, e) == SetEvents(reg, e, reg.events[e] \ {"read"})
DisableWriting(reg, e) == SetEvents(reg, e, reg.events[e] \ {"write"})
DisableAll(reg, e)     == SetEvents(reg, e, {})
HasEvent(reg, e)       == reg.map[reg.fd[e]] = e

(***************************************************************************)
(* What epoll_wait may report on an entry: what was asked for, and error   *)
(* and hang-up in any case.                                                *)
(***************************************************************************)
Reportable(mask) ==
  (IF "read" \in mask THEN {"IN", "PRI"} ELSE {})
    \cup (IF "write" \in mask THEN {"OUT"} ELSE {})
    \cup {"ERR", "HUP"}

=============================================================================
