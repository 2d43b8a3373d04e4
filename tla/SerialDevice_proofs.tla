------------------------- MODULE SerialDevice_proofs -------------------------
(***************************************************************************)
(* Proofs about SerialDevice: its safety invariants for any number of      *)
(* events, descriptors and bytes, any word of the terminal and any size of *)
(* a flush.                                                                *)
(***************************************************************************)
EXTENDS SerialDevice, EventLoop_proofs, SequenceTheorems

-----------------------------------------------------------------------------
(* What uartSet does to the word, bit by bit: each of its steps has bits of *)
(* its own, and leaves the others alone.                                   *)

LEMMA Speeds ==
  ASSUME NEW rate \in Rates
  PROVE  /\ BaudRate2Enum(rate) \subseteq CBAUD \/ rate \in {14400, 56000}
         /\ BaudRate2Enum(rate) = Unknown \/ BaudRate2Enum(rate) \subseteq CBAUD
<1>1. CASE rate \in {14400, 56000}
  BY <1>1 DEF BaudRate2Enum
<1>2. CASE rate \in {110, 300, 600, 1200, 2400, 4800}
  BY <1>2 DEF BaudRate2Enum, CBAUD
<1>3. CASE rate \in {9600, 19200, 38400, 57600, 115200, 921600}
  BY <1>3 DEF BaudRate2Enum, CBAUD
<1> QED BY <1>1, <1>2, <1>3 DEF Rates

\* The steps of uartSet, after the parity and before it.
Speeded(w, s) == SetSpeed(w, s.rate)
Paired(w, s) == SetParity(Speeded(w, s), s.parity)
Sized(w, s) == SetDataBits(Paired(w, s), s.dataBits)
Stopped2(w, s) == SetStopBits(Sized(w, s), s.stopBits)
Flowing(w, s) == SetFlow(Stopped2(w, s), s.flow)

LEMMA UartSteps ==
  ASSUME NEW w, NEW s
  PROVE  UartSet(w, s) = (Flowing(w, s) \ CRTSCTS) \cup Enabled
BY DEF UartSet, Flowing, Stopped2, Sized, Paired, Speeded

LEMMA ParityBits ==
  ASSUME NEW w, NEW p \in Parities \ {"Mark"}
  PROVE  /\ \A b : b \notin {4, 5, 6, 8, 9} => (b \in SetParity(w, p) <=> b \in w)
         /\ 8 \in SetParity(w, p) <=> p \in {"Odd", "Even"}
         /\ p = "Odd" => 9 \in SetParity(w, p)
         /\ p = "Even" => 9 \notin SetParity(w, p)
<1>1. CASE p = "None"
  BY <1>1 DEF SetParity, PARENB, INPCK
<1>2. CASE p = "Odd"
  BY <1>2 DEF SetParity, PARENB, PARODD, INPCK, ISTRIP
<1>3. CASE p = "Even"
  BY <1>3 DEF SetParity, PARENB, PARODD, INPCK, ISTRIP
<1>4. CASE p = "Space"
  BY <1>4 DEF SetParity, PARENB, CSTOPB
<1> QED BY <1>1, <1>2, <1>3, <1>4 DEF Parities

LEMMA SizeBits ==
  ASSUME NEW w, NEW n \in 5 .. 8
  PROVE  /\ \A b : b \notin CSIZE => (b \in SetDataBits(w, n) <=> b \in w)
         /\ SetDataBits(w, n) \cap CSIZE = Size(n)
         /\ Size(n) \subseteq CSIZE
<1>1. Size(n) \subseteq CSIZE
  <2>1. n = 5 \/ n = 6 \/ n = 7 \/ n = 8
    OBVIOUS
  <2> QED BY <2>1 DEF Size, CSIZE
<1> QED BY <1>1 DEF SetDataBits

LEMMA StopBits ==
  ASSUME NEW w, NEW n \in {1, 2}
  PROVE  /\ \A b : b # 6 => (b \in SetStopBits(w, n) <=> b \in w)
         /\ 6 \in SetStopBits(w, n) <=> n = 2
BY DEF SetStopBits, CSTOPB

LEMMA FlowBits ==
  ASSUME NEW w, NEW f \in {"None", "Hardware", "Software"}
  PROVE  /\ \A b : b \notin {10, 11, 12, 31} => (b \in SetFlow(w, f) <=> b \in w)
         /\ 12 \in SetFlow(w, f) <=> 12 \in w \/ f = "Software"
<1>1. CASE f = "None"
  BY <1>1 DEF SetFlow, CRTSCTS
<1>2. CASE f = "Hardware"
  BY <1>2 DEF SetFlow, CRTSCTS
<1>3. CASE f = "Software"
  BY <1>3 DEF SetFlow, SoftFlow
<1> QED BY <1>1, <1>2, <1>3

\* The word of a terminal that was set is in order.
LineIs(l, s) ==
  /\ \/ l \cap CBAUD = BaudRate2Enum(s.rate)
     \/ s.rate \in {14400, 56000}
     \/ s.flow = "Software" /\ l \cap CBAUD = BaudRate2Enum(s.rate) \cup {12}
  /\ l \cap CSIZE = Size(s.dataBits)
  /\ CSTOPB \subseteq l <=> s.stopBits = 2
  /\ PARENB \subseteq l <=> s.parity \in {"Odd", "Even"}
  /\ PARENB \subseteq l => (PARODD \subseteq l <=> s.parity = "Odd")
  /\ CRTSCTS \cap l = {}

LEMMA UartSetIs ==
  ASSUME NEW w, NEW s \in Settings, Accepted(s)
  PROVE  LineIs(UartSet(w, s), s)
<1> DEFINE l == UartSet(w, s)
           q == Paired(w, s)
           z == Sized(w, s)
           t == Stopped2(w, s)
           v == Flowing(w, s)
<1>1. /\ s.rate \in Rates /\ s.parity \in Parities \ {"Mark"} /\ s.dataBits \in 5 .. 8
      /\ s.stopBits \in {1, 2} /\ s.flow \in {"None", "Hardware", "Software"}
  BY DEF Settings, Accepted
<1>2. /\ \A b : b \notin {10, 11, 12, 31} => (b \in v <=> b \in t)
      /\ 12 \in v <=> 12 \in t \/ s.flow = "Software"
  BY <1>1, FlowBits DEF Flowing
<1>3. /\ \A b : b # 6 => (b \in t <=> b \in z)
      /\ 6 \in t <=> s.stopBits = 2
  BY <1>1, StopBits DEF Stopped2
<1>4. /\ \A b : b \notin CSIZE => (b \in z <=> b \in q)
      /\ z \cap CSIZE = Size(s.dataBits)
  BY <1>1, SizeBits DEF Sized
<1>5. /\ \A b : b \notin {4, 5, 6, 8, 9} => (b \in q <=> b \in Speeded(w, s))
      /\ 8 \in q <=> s.parity \in {"Odd", "Even"}
      /\ s.parity = "Odd" => 9 \in q
      /\ s.parity = "Even" => 9 \notin q
  BY <1>1, ParityBits DEF Paired
<1>6. \A b : b \in l <=> (b \in v /\ b # 31) \/ b \in {7, 10, 11}
  BY UartSteps DEF Enabled, CRTSCTS
<1> HIDE DEF l, q, z, t, v
<1>7. l \cap CSIZE = Size(s.dataBits)
  BY <1>2, <1>3, <1>4, <1>6 DEF CSIZE
<1>8. CSTOPB \subseteq l <=> s.stopBits = 2
  BY <1>2, <1>3, <1>6 DEF CSTOPB
<1>9. /\ 8 \in l <=> s.parity \in {"Odd", "Even"}
      /\ 9 \in l <=> 9 \in q
  BY <1>2, <1>3, <1>4, <1>5, <1>6 DEF CSIZE
<1>10. /\ PARENB \subseteq l <=> s.parity \in {"Odd", "Even"}
       /\ PARENB \subseteq l => (PARODD \subseteq l <=> s.parity = "Odd")
  BY <1>5, <1>9 DEF PARENB, PARODD
<1>11. CRTSCTS \cap l = {}
  BY <1>6 DEF CRTSCTS
<1>12. ASSUME s.rate \notin {14400, 56000}
       PROVE  \/ l \cap CBAUD = BaudRate2Enum(s.rate)
              \/ s.flow = "Software" /\ l \cap CBAUD = BaudRate2Enum(s.rate) \cup {12}
  <2> DEFINE speed == BaudRate2Enum(s.rate)
  <2>1. speed \subseteq CBAUD /\ speed # Unknown
    BY <1>1, <1>12, Speeds DEF CBAUD, Unknown
  <2> HIDE DEF speed
  <2>2. \A b \in CBAUD : b \in Speeded(w, s) <=> b \in speed
    BY <2>1 DEF Speeded, SetSpeed, speed
  <2>3. \A b \in CBAUD : b \in t <=> b \in speed
    BY <2>2, <1>3, <1>4, <1>5 DEF CBAUD, CSIZE
  <2>4. \A b \in {0, 1, 2, 3} : b \in l <=> b \in speed
    BY <2>3, <1>2, <1>6 DEF CBAUD
  <2>5. 12 \in l <=> 12 \in speed \/ s.flow = "Software"
    BY <2>3, <1>2, <1>6 DEF CBAUD
  <2>6. CBAUD = {0, 1, 2, 3} \cup {12}
    BY DEF CBAUD
  <2> QED BY <2>1, <2>4, <2>5, <2>6 DEF speed
<1> QED BY <1>7, <1>8, <1>10, <1>11, <1>12 DEF LineIs, l

LEMMA UartSetIn ==
  ASSUME NEW w \in SUBSET LineBits, NEW s \in Settings, Accepted(s)
  PROVE  UartSet(w, s) \subseteq LineBits
<1>1. /\ s.rate \in Rates /\ s.parity \in Parities \ {"Mark"} /\ s.dataBits \in 5 .. 8
      /\ s.stopBits \in {1, 2} /\ s.flow \in {"None", "Hardware", "Software"}
  BY DEF Settings, Accepted
<1>2. {0, 1, 2, 3, 4, 5, 6, 7, 8, 9, 10, 11, 12} \subseteq LineBits
  BY DEF LineBits
<1>3. Speeded(w, s) \subseteq LineBits
  BY <1>1, <1>2, Speeds DEF Speeded, SetSpeed, CBAUD
<1>4. Paired(w, s) \subseteq LineBits
  <2>1. PARENB \cup PARODD \cup INPCK \cup ISTRIP \subseteq LineBits
    BY <1>2 DEF PARENB, PARODD, INPCK, ISTRIP
  <2> QED BY <1>1, <1>3, <2>1 DEF Paired, SetParity, Parities
<1>5. Sized(w, s) \subseteq LineBits
  <2>1. Size(s.dataBits) \subseteq LineBits
    BY <1>1, <1>2, SizeBits DEF CSIZE
  <2> QED BY <1>4, <2>1 DEF Sized, SetDataBits
<1>6. Stopped2(w, s) \subseteq LineBits
  BY <1>2, <1>5 DEF Stopped2, SetStopBits, CSTOPB
<1>7. Flowing(w, s) \subseteq LineBits
  <2>1. SoftFlow \cup CRTSCTS \subseteq LineBits
    BY <1>2 DEF SoftFlow, CRTSCTS, LineBits
  <2> QED BY <1>1, <1>6, <2>1 DEF Flowing, SetFlow
<1> QED BY <1>2, <1>7, UartSteps DEF Enabled

-----------------------------------------------------------------------------
(* The calls on a registry.  Of the Poller's map nothing is known: close() *)
(* leaves entries of deleted events in it.                                 *)

\* Enabling and disabling an event, whatever the map says: the event's entry
\* appears, goes, or gets the mask, and nothing else changes.
Updates(r, e, mask, s) ==
  /\ s \in Registry
  /\ s.fd = r.fd
  /\ s.events = [r.events EXCEPT ![e] = mask]
  /\ \A x \in Events \ {e} : s.index[x] = r.index[x]
  /\ s.index[e] = IF r.index[e] = "kAdded" /\ mask = {} THEN "kDeleted" ELSE "kAdded"
  /\ \/ s.kptr = r.kptr /\ s.kmask = r.kmask /\ ~(r.index[e] = "kAdded" /\ mask = {})
        /\ (r.index[e] = "kAdded" <=> r.kptr[r.fd[e]] = NoEvent)
     \/ /\ s.kptr = [r.kptr EXCEPT ![r.fd[e]] =
                       IF r.index[e] = "kAdded" /\ mask = {} THEN NoEvent ELSE e]
        /\ s.kmask = [r.kmask EXCEPT ![r.fd[e]] =
                       IF r.index[e] = "kAdded" /\ mask = {} THEN {} ELSE mask]

LEMMA ClaimFields ==
  ASSUME NEW r \in Registry, NEW claim \in BOOLEAN
  PROVE  /\ Claim(r, claim) \in Registry
         /\ Claim(r, claim).index = r.index
         /\ Claim(r, claim).events = r.events
         /\ Claim(r, claim).fd = r.fd
         /\ Claim(r, claim).map = r.map
         /\ Claim(r, claim).kptr = r.kptr
         /\ Claim(r, claim).kmask = r.kmask
<1> DEFINE b == r.asserts /\ claim
           s == [r EXCEPT !.asserts = b]
<1>1. b \in BOOLEAN
  OBVIOUS
<1>2. Claim(r, claim) = s
  BY DEF Claim
<1> HIDE DEF b
<1>3. s \in Registry
  BY <1>1 DEF Registry
<1>4. /\ s.index = r.index /\ s.events = r.events /\ s.fd = r.fd /\ s.map = r.map
      /\ s.kptr = r.kptr /\ s.kmask = r.kmask
  BY RegistryFields
<1> QED BY <1>2, <1>3, <1>4

\* An entry of the kernel's list is written.
Enters(r, f, p, m, s) ==
  /\ s \in Registry
  /\ s.index = r.index /\ s.events = r.events /\ s.fd = r.fd
  /\ s.kptr = [r.kptr EXCEPT ![f] = p]
  /\ s.kmask = [r.kmask EXCEPT ![f] = m]

LEMMA EntryFields ==
  ASSUME NEW r \in Registry, NEW f \in Fds, NEW p \in Events \cup {NoEvent}, NEW m \in Masks
  PROVE  Enters(r, f, p, m, Entry(r, f, p, m))
<1> DEFINE k == [r.kptr EXCEPT ![f] = p]
           n == [r.kmask EXCEPT ![f] = m]
           s == [r EXCEPT !.kptr = k, !.kmask = n]
<1>1. Entry(r, f, p, m) = s
  BY RegistryFields DEF Entry
<1>2. k \in [Fds -> Events \cup {NoEvent}] /\ n \in [Fds -> Masks]
  BY RegistryFields
<1> HIDE DEF k, n
<1>3. s \in Registry
  BY <1>2 DEF Registry
<1>4. s.index = r.index /\ s.events = r.events /\ s.fd = r.fd /\ s.kptr = k /\ s.kmask = n
  BY RegistryFields
<1> QED BY <1>1, <1>3, <1>4 DEF k, n, Enters

LEMMA SetEventsUpdates ==
  ASSUME NEW r \in Registry, NEW e \in Events, NEW mask \in Masks
  PROVE  Updates(r, e, mask, SetEvents(r, e, mask))
<1> DEFINE q == [r EXCEPT !.events[e] = mask]
           f == r.fd[e]
           s == SetEvents(r, e, mask)
<1>0. /\ q \in Registry
      /\ q.index = r.index
      /\ q.events = [r.events EXCEPT ![e] = mask]
      /\ q.fd = r.fd
      /\ q.kptr = r.kptr
      /\ q.kmask = r.kmask
      /\ q.fd[e] = f /\ q.events[e] = mask /\ f \in Fds
  <2>1. q = [index |-> r.index, events |-> [r.events EXCEPT ![e] = mask], fd |-> r.fd,
             map |-> r.map, kptr |-> r.kptr, kmask |-> r.kmask, asserts |-> r.asserts]
    BY RegistryFields
  <2> QED BY <2>1, RegistryFields DEF Registry
<1>1. s = UpdateEvent(q, e)
  BY DEF SetEvents
<1> HIDE DEF q, s
<1>2. CASE r.index[e] # "kAdded"
  <2>1. PICK p \in Registry :
          /\ s = EpollAdd(p, e)
          /\ p.index = [r.index EXCEPT ![e] = "kAdded"]
          /\ p.events = q.events /\ p.fd = r.fd /\ p.kptr = r.kptr /\ p.kmask = r.kmask
    <3>1. CASE r.index[e] = "kNew"
      <4> DEFINE claim == q.map[f] = NoEvent
                 c == Claim(q, claim)
                 m == [c.map EXCEPT ![f] = e]
                 x == [c.index EXCEPT ![e] = "kAdded"]
                 p == [c EXCEPT !.map = m, !.index = x]
      <4>1. s = EpollAdd([c EXCEPT !.map[f] = e, !.index[e] = "kAdded"], e)
        BY <3>1, <1>0, <1>1 DEF UpdateEvent, AddNew
      <4>2. claim \in BOOLEAN
        OBVIOUS
      <4> HIDE DEF claim
      <4>3. /\ c \in Registry
            /\ c.index = r.index /\ c.events = q.events /\ c.fd = r.fd
            /\ c.kptr = r.kptr /\ c.kmask = r.kmask
        BY <1>0, <4>2, ClaimFields
      <4> HIDE DEF c
      <4>4. m \in [Fds -> Events \cup {NoEvent}] /\ x \in [Events -> Indexes]
        BY <1>0, <4>3, RegistryFields DEF Indexes
      <4>5. s = EpollAdd(p, e)
        BY <4>1, <4>3, RegistryFields
      <4>6. x = [r.index EXCEPT ![e] = "kAdded"]
        BY <4>3
      <4> HIDE DEF m, x
      <4>7. /\ p \in Registry
            /\ p.index = x
            /\ p.events = q.events /\ p.fd = r.fd /\ p.kptr = r.kptr /\ p.kmask = r.kmask
        BY <4>3, <4>4, RegistryFields DEF Registry
      <4> HIDE DEF p
      <4> QED BY <4>5, <4>6, <4>7
    <3>2. CASE r.index[e] = "kDeleted"
      <4> DEFINE claim == q.map[q.fd[e]] = e
                 c == Claim(q, claim)
                 x == [c.index EXCEPT ![e] = "kAdded"]
                 p == [c EXCEPT !.index = x]
      <4>1. s = EpollAdd([c EXCEPT !.index[e] = "kAdded"], e)
        BY <3>2, <1>0, <1>1 DEF UpdateEvent, AddAgain
      <4>2. claim \in BOOLEAN
        OBVIOUS
      <4> HIDE DEF claim
      <4>3. /\ c \in Registry
            /\ c.index = r.index /\ c.events = q.events /\ c.fd = r.fd
            /\ c.kptr = r.kptr /\ c.kmask = r.kmask
        BY <1>0, <4>2, ClaimFields
      <4> HIDE DEF c
      <4>4. x \in [Events -> Indexes]
        BY <4>3, RegistryFields DEF Indexes
      <4>5. s = EpollAdd(p, e)
        BY <4>1, <4>3, RegistryFields
      <4>6. x = [r.index EXCEPT ![e] = "kAdded"]
        BY <4>3
      <4> HIDE DEF x
      <4>7. /\ p \in Registry
            /\ p.index = x
            /\ p.events = q.events /\ p.fd = r.fd /\ p.kptr = r.kptr /\ p.kmask = r.kmask
        BY <4>3, <4>4, RegistryFields DEF Registry
      <4> HIDE DEF p
      <4> QED BY <4>5, <4>6, <4>7
    <3> QED BY <1>2, <3>1, <3>2, RegistryFields DEF Indexes
  <2>2. \A x \in Events \ {e} : p.index[x] = r.index[x]
    BY <2>1, RegistryFields
  <2>3. p.index[e] = "kAdded"
    BY <2>1, RegistryFields
  <2>4. CASE r.kptr[f] = NoEvent
    <3>1. s = Entry(p, f, e, mask)
      BY <1>0, <2>1, <2>4 DEF EpollAdd
    <3>2. /\ s \in Registry /\ s.index = p.index /\ s.events = p.events /\ s.fd = p.fd
          /\ s.kptr = [p.kptr EXCEPT ![f] = e] /\ s.kmask = [p.kmask EXCEPT ![f] = mask]
      BY <1>0, <3>1, EntryFields DEF Enters
    <3> QED BY <1>0, <1>2, <2>1, <2>2, <2>3, <3>2 DEF Updates, s
  <2>5. CASE r.kptr[f] # NoEvent
    <3>1. s = p
      BY <2>1, <2>5 DEF EpollAdd
    <3> QED BY <1>0, <1>2, <2>1, <2>2, <2>3, <2>5, <3>1 DEF Updates, s
  <2> QED BY <2>4, <2>5
<1>3. CASE r.index[e] = "kAdded"
  <2> DEFINE claim == q.map[q.fd[e]] = e
             c == Claim(q, claim)
  <2>1. s = IF mask = {} THEN [EpollDel(c, e) EXCEPT !.index[e] = "kDeleted"]
            ELSE EpollMod(c, e)
    BY <1>0, <1>1, <1>3 DEF UpdateEvent, Change
  <2>2. claim \in BOOLEAN
    OBVIOUS
  <2> HIDE DEF claim
  <2>3. /\ c \in Registry
        /\ c.index = r.index /\ c.events = q.events /\ c.fd = r.fd
        /\ c.kptr = r.kptr /\ c.kmask = r.kmask
    BY <1>0, <2>2, ClaimFields
  <2> HIDE DEF c
  <2>4. CASE mask = {}
    <3> DEFINE p == Entry(c, f, NoEvent, {})
               x == [p.index EXCEPT ![e] = "kDeleted"]
    <3>1. /\ p \in Registry /\ p.index = c.index /\ p.events = c.events /\ p.fd = c.fd
          /\ p.kptr = [c.kptr EXCEPT ![f] = NoEvent] /\ p.kmask = [c.kmask EXCEPT ![f] = {}]
      <4>1. {} \in Masks
        BY DEF Masks
      <4>2. f \in Fds /\ c \in Registry
        BY <1>0, <2>3
      <4> HIDE DEF f
      <4>3. Enters(c, f, NoEvent, {}, p)
        BY <4>1, <4>2, EntryFields
      <4> HIDE DEF p
      <4> QED BY <4>3 DEF Enters
    <3>2. s = [p EXCEPT !.index[e] = "kDeleted"]
      BY <1>0, <2>1, <2>3, <2>4 DEF EpollDel
    <3> HIDE DEF p
    <3>3. s = [p EXCEPT !.index = x]
      BY <3>1, <3>2, RegistryFields
    <3>4. /\ x \in [Events -> Indexes] /\ x[e] = "kDeleted"
          /\ \A y \in Events \ {e} : x[y] = r.index[y]
      BY <2>3, <3>1, RegistryFields DEF Indexes
    <3> HIDE DEF x
    <3>5. /\ s \in Registry /\ s.index = x /\ s.events = p.events /\ s.fd = p.fd
          /\ s.kptr = p.kptr /\ s.kmask = p.kmask
      BY <3>1, <3>3, <3>4, RegistryFields DEF Registry
    <3> QED BY <1>0, <1>3, <2>3, <2>4, <3>1, <3>4, <3>5 DEF Updates, s
  <2>5. CASE mask # {}
    <3>1. \A y \in Events \ {e} : c.index[y] = r.index[y]
      BY <2>3
    <3>2. CASE r.kptr[f] # NoEvent
      <4>1. s = Entry(c, f, e, mask)
        BY <1>0, <2>1, <2>3, <2>5, <3>2 DEF EpollMod
      <4>2. /\ s \in Registry /\ s.index = c.index /\ s.events = c.events /\ s.fd = c.fd
            /\ s.kptr = [c.kptr EXCEPT ![f] = e] /\ s.kmask = [c.kmask EXCEPT ![f] = mask]
        BY <1>0, <2>3, <4>1, EntryFields DEF Enters
      <4> QED BY <1>0, <1>3, <2>3, <2>5, <3>1, <4>2 DEF Updates, s
    <3>3. CASE r.kptr[f] = NoEvent
      <4>1. s = c
        BY <1>0, <2>1, <2>3, <2>5, <3>3 DEF EpollMod
      <4> QED BY <1>0, <1>3, <2>3, <2>5, <3>1, <3>3, <4>1 DEF Updates, s
    <3> QED BY <3>2, <3>3
  <2> QED BY <2>4, <2>5
<1> QED BY <1>2, <1>3

-----------------------------------------------------------------------------
(* Bytes in order.                                                         *)

Iota(n) == [i \in 1 .. n |-> i]

\* Bytes of the first n, with gaps perhaps.
Rising(s, n) == s \in Seq(1 .. n) /\ \A i, j \in 1 .. Len(s) : i < j => s[i] < s[j]

LEMMA IotaSeq ==
  ASSUME NEW n \in Nat
  PROVE  Iota(n) \in Seq(1 .. n) /\ Len(Iota(n)) = n /\ \A i \in 1 .. n : Iota(n)[i] = i
<1>1. Iota(n) \in [1 .. n -> 1 .. n] /\ \A i \in 1 .. n : Iota(n)[i] = i
  BY DEF Iota
<1> QED BY <1>1

LEMMA NumberedSeq ==
  ASSUME NEW k \in Nat, sent \in Nat
  PROVE  /\ Numbered(k) \in Seq(1 .. sent + k) /\ Len(Numbered(k)) = k
         /\ \A i \in 1 .. k : Numbered(k)[i] = sent + i
<1>1. Numbered(k) \in [1 .. k -> 1 .. sent + k] /\ \A i \in 1 .. k : Numbered(k)[i] = sent + i
  BY DEF Numbered
<1> QED BY <1>1

\* The next k bytes continue the first ones.
LEMMA NumberedNext ==
  ASSUME NEW k \in Nat, sent \in Nat
  PROVE  Iota(sent) \o Numbered(k) = Iota(sent + k)
<1> DEFINE s == Iota(sent)
           t == Numbered(k)
           u == Iota(sent + k)
<1>1. s \in Seq(Nat) /\ Len(s) = sent /\ \A i \in 1 .. sent : s[i] = i
  <2>1. s \in Seq(1 .. sent)
    BY IotaSeq
  <2>2. s \in Seq(Nat)
    BY <2>1, SeqMonotonic
  <2> QED BY <2>2, IotaSeq
<1>2. t \in Seq(Nat) /\ Len(t) = k /\ \A i \in 1 .. k : t[i] = sent + i
  <2>1. t \in Seq(1 .. sent + k)
    BY NumberedSeq
  <2>2. t \in Seq(Nat)
    BY <2>1, SeqMonotonic
  <2> QED BY <2>2, NumberedSeq
<1>3. u \in Seq(Nat) /\ Len(u) = sent + k /\ \A i \in 1 .. sent + k : u[i] = i
  <2>1. sent + k \in Nat
    OBVIOUS
  <2>2. u \in Seq(1 .. sent + k)
    BY <2>1, IotaSeq
  <2>3. u \in Seq(Nat)
    BY <2>2, SeqMonotonic
  <2> QED BY <2>1, <2>3, IotaSeq
<1> HIDE DEF s, t, u
<1> DEFINE v == s \o t
<1>4. /\ v \in Seq(Nat) /\ Len(v) = sent + k
      /\ \A i \in 1 .. sent + k : v[i] = IF i <= sent THEN s[i] ELSE t[i - sent]
  BY <1>1, <1>2, ConcatProperties
<1> HIDE DEF v
<1>5. \A i \in 1 .. sent + k : v[i] = u[i]
  <2> SUFFICES ASSUME NEW i \in 1 .. sent + k PROVE v[i] = u[i]
    OBVIOUS
  <2>1. CASE i <= sent
    BY <1>1, <1>3, <1>4, <2>1
  <2>2. CASE i > sent
    <3>1. i - sent \in 1 .. k /\ sent + (i - sent) = i
      BY <2>2
    <3> QED BY <1>2, <1>3, <1>4, <2>2, <3>1
  <2> QED BY <2>1, <2>2
<1>6. v = u
  BY <1>3, <1>4, <1>5, SeqEqual
<1> QED BY <1>6 DEF s, t, u, v

LEMMA IotaAppend ==
  ASSUME NEW n \in Nat
  PROVE  Append(Iota(n), n + 1) = Iota(n + 1)
<1> DEFINE s == Iota(n)
           u == Iota(n + 1)
           v == Append(s, n + 1)
<1>1. s \in Seq(Nat) /\ Len(s) = n /\ \A i \in 1 .. n : s[i] = i
  <2>1. s \in Seq(1 .. n)
    BY IotaSeq
  <2>2. s \in Seq(Nat)
    BY <2>1, SeqMonotonic
  <2> QED BY <2>2, IotaSeq
<1>2. u \in Seq(Nat) /\ Len(u) = n + 1 /\ \A i \in 1 .. n + 1 : u[i] = i
  <2>1. n + 1 \in Nat
    OBVIOUS
  <2>2. u \in Seq(1 .. n + 1)
    BY <2>1, IotaSeq
  <2>3. u \in Seq(Nat)
    BY <2>2, SeqMonotonic
  <2> QED BY <2>1, <2>3, IotaSeq
<1> HIDE DEF s, u
<1>3. /\ v \in Seq(Nat) /\ Len(v) = n + 1
      /\ \A i \in 1 .. n : v[i] = s[i]
      /\ v[n + 1] = n + 1
  BY <1>1, AppendProperties
<1> HIDE DEF v
<1>4. \A i \in 1 .. n + 1 : v[i] = u[i]
  BY <1>1, <1>2, <1>3
<1>5. v = u
  BY <1>2, <1>3, <1>4, SeqEqual
<1> QED BY <1>5 DEF s, u, v

LEMMA RisingAppend ==
  ASSUME NEW n \in Nat, NEW s, Rising(s, n)
  PROVE  Rising(Append(s, n + 1), n + 1)
<1> DEFINE v == Append(s, n + 1)
<1>1. s \in Seq(1 .. n) /\ Len(s) \in Nat /\ \A i \in 1 .. Len(s) : s[i] \in 1 .. n
  BY DEF Rising
<1>2. s \in Seq(1 .. n + 1)
  <2>1. 1 .. n \subseteq 1 .. n + 1
    OBVIOUS
  <2> QED BY <1>1, <2>1, SeqMonotonic
<1>3. /\ v \in Seq(1 .. n + 1) /\ Len(v) = Len(s) + 1
      /\ \A i \in 1 .. Len(s) : v[i] = s[i]
      /\ v[Len(s) + 1] = n + 1
  <2>1. n + 1 \in 1 .. n + 1
    OBVIOUS
  <2> QED BY <1>2, <2>1, AppendProperties
<1> HIDE DEF v
<1>4. ASSUME NEW i \in 1 .. Len(v), NEW j \in 1 .. Len(v), i < j
      PROVE  v[i] < v[j]
  <2>1. i \in 1 .. Len(s) /\ v[i] = s[i]
    BY <1>1, <1>3, <1>4
  <2>2. CASE j = Len(v)
    BY <1>1, <1>3, <2>1, <2>2
  <2>3. CASE j # Len(v)
    <3>1. j \in 1 .. Len(s) /\ v[j] = s[j]
      BY <1>1, <1>3, <2>3
    <3> QED BY <1>4, <2>1, <3>1 DEF Rising
  <2> QED BY <2>2, <2>3
<1> QED BY <1>3, <1>4 DEF Rising, v

\* A rising sequence from which a middle part is taken.
LEMMA RisingGap ==
  ASSUME NEW n \in Nat, NEW s \in Seq(Nat), NEW t \in Seq(Nat), NEW c \in Seq(Nat),
         Rising((s \o t) \o c, n)
  PROVE  Rising(s \o c, n)
<1> DEFINE u == s \o t
           v == u \o c
           x == s \o c
           at(i) == IF i <= Len(s) THEN i ELSE i + Len(t)
<1>1. Len(s) \in Nat /\ Len(t) \in Nat /\ Len(c) \in Nat
  OBVIOUS
<1>2. /\ u \in Seq(Nat) /\ Len(u) = Len(s) + Len(t)
      /\ \A i \in 1 .. Len(s) : u[i] = s[i]
  BY ConcatProperties
<1> HIDE DEF u
<1>3. /\ Len(v) = Len(s) + Len(t) + Len(c)
      /\ \A i \in 1 .. Len(s) : v[i] = s[i]
      /\ \A i \in 1 .. Len(c) : v[Len(s) + Len(t) + i] = c[i]
  <2>1. /\ Len(v) = Len(u) + Len(c)
        /\ \A i \in 1 .. Len(u) + Len(c) : v[i] = IF i <= Len(u) THEN u[i] ELSE c[i - Len(u)]
    BY <1>2, ConcatProperties
  <2> HIDE DEF v
  <2>2. \A i \in 1 .. Len(s) : v[i] = s[i]
    BY <1>1, <1>2, <2>1
  <2>3. ASSUME NEW i \in 1 .. Len(c) PROVE v[Len(s) + Len(t) + i] = c[i]
    <3>1. Len(s) + Len(t) + i \in 1 .. Len(u) + Len(c)
      BY <1>1, <1>2
    <3>2. ~(Len(s) + Len(t) + i <= Len(u)) /\ Len(s) + Len(t) + i - Len(u) = i
      BY <1>1, <1>2
    <3> QED BY <2>1, <3>1, <3>2
  <2> QED BY <1>2, <2>1, <2>2, <2>3
<1>4. /\ x \in Seq(Nat) /\ Len(x) = Len(s) + Len(c)
      /\ \A i \in 1 .. Len(s) + Len(c) : x[i] = IF i <= Len(s) THEN s[i] ELSE c[i - Len(s)]
  BY ConcatProperties
<1>5. /\ \A i \in 1 .. Len(v) : v[i] \in 1 .. n
      /\ \A i, j \in 1 .. Len(v) : i < j => v[i] < v[j]
  <2>1. Rising(v, n)
    BY DEF u
  <2> HIDE DEF v
  <2> QED BY <2>1 DEF Rising
<1> HIDE DEF v, x
<1>6. ASSUME NEW i \in 1 .. Len(x)
      PROVE  at(i) \in 1 .. Len(v) /\ x[i] = v[at(i)]
  <2>1. i \in 1 .. Len(s) + Len(c) /\ i \in Nat
    BY <1>1, <1>4
  <2>2. CASE i <= Len(s)
    <3>1. i \in 1 .. Len(s) /\ i \in 1 .. Len(v)
      BY <1>1, <1>3, <2>1, <2>2
    <3>2. x[i] = s[i] /\ v[i] = s[i]
      BY <1>3, <1>4, <2>1, <2>2, <3>1
    <3> QED BY <2>2, <3>1, <3>2
  <2>3. CASE ~(i <= Len(s))
    <3>1. i - Len(s) \in 1 .. Len(c) /\ Len(s) + Len(t) + (i - Len(s)) = i + Len(t)
      BY <1>1, <2>1, <2>3
    <3>2. i + Len(t) \in 1 .. Len(v)
      BY <1>1, <1>3, <2>1, <2>3
    <3>3. x[i] = c[i - Len(s)]
      BY <1>4, <2>1, <2>3
    <3>4. v[i + Len(t)] = c[i - Len(s)]
      BY <1>3, <3>1
    <3> QED BY <2>3, <3>2, <3>3, <3>4
  <2> QED BY <2>2, <2>3
<1>7. \A i, j \in 1 .. Len(x) : i < j => at(i) < at(j)
  BY <1>1, <1>4
<1> HIDE DEF at
<1>8. \A i, j \in 1 .. Len(x) : i < j => x[i] < x[j]
  BY <1>5, <1>6, <1>7
<1>9. \A i \in 1 .. Len(x) : x[i] \in 1 .. n
  BY <1>5, <1>6
<1>10. x \in Seq(1 .. n)
  <2>1. Len(x) \in Nat /\ x \in [1 .. Len(x) -> Nat]
    BY <1>4, LenProperties
  <2>2. x \in [1 .. Len(x) -> 1 .. n]
    BY <1>9, <2>1
  <2>3. x \in UNION {[1 .. k -> 1 .. n] : k \in Nat}
    BY <2>1, <2>2
  <2> QED BY <2>3, SeqDef, Zenon
<1> QED BY <1>8, <1>10 DEF Rising, x

LEMMA Front ==
  ASSUME NEW S, NEW s \in Seq(S), NEW t \in Seq(S)
  PROVE  SubSeq(s \o t, 1, Len(s)) = s
<1> DEFINE v == s \o t
           u == SubSeq(v, 1, Len(s))
<1>1. /\ v \in Seq(S) /\ Len(v) = Len(s) + Len(t) /\ Len(s) \in Nat /\ Len(t) \in Nat
      /\ \A i \in 1 .. Len(s) : i \in 1 .. Len(v) /\ v[i] = s[i]
  BY ConcatProperties
<1> HIDE DEF v
<1>2. \A i \in 1 .. Len(s) : v[i] \in S
  BY <1>1
<1>3. /\ u \in Seq(S) /\ Len(u) = Len(s)
      /\ \A i \in 1 .. Len(s) : u[i] = v[i]
  BY <1>1, <1>2, SubSeqProperties
<1> HIDE DEF u
<1>4. u = s
  BY <1>1, <1>3, SeqEqual
<1> QED BY <1>4 DEF u, v

-----------------------------------------------------------------------------
(* The receive buffer.                                                     *)

Received == 1 .. MaxArrived

IsBuffer(b) ==
  /\ b \in [data : Seq(Received), r : {0}, w : Nat, mr : Nat, mw : Nat]
  /\ b.w <= Len(b.data)

LEMMA BufferFields ==
  ASSUME NEW b, IsBuffer(b)
  PROVE  /\ b = [data |-> b.data, r |-> b.r, w |-> b.w, mr |-> b.mr, mw |-> b.mw]
         /\ b.data \in Seq(Received) /\ b.r = 0 /\ b.mr \in Nat /\ b.mw \in Nat
         /\ b.w \in 0 .. Len(b.data) /\ b.w \in Nat /\ Len(b.data) \in Nat
<1>1. /\ b = [data |-> b.data, r |-> b.r, w |-> b.w, mr |-> b.mr, mw |-> b.mw]
      /\ b.data \in Seq(Received) /\ b.r = 0 /\ b.mr \in Nat /\ b.mw \in Nat /\ b.w \in Nat
      /\ b.w <= Len(b.data)
  BY DEF IsBuffer
<1>2. Len(b.data) \in Nat
  BY <1>1
<1> QED BY <1>1, <1>2

LEMMA EmptyResult ==
  /\ IsBuffer(Buffer!New(<<>>)) /\ Buffer!New(<<>>).w = 0
  /\ Buffer!New(<<>>).data = <<>>
<1>1. <<>> \in Seq(Received) /\ Len(<<>>) = 0
  BY EmptySeq
<1> QED BY <1>1 DEF IsBuffer, Buffer!New

LEMMA Given ==
  ASSUME NEW b, IsBuffer(b)
  PROVE  /\ Buffer!Readable(b) = SubSeq(b.data, 1, b.w)
         /\ Buffer!Readable(b) \in Seq(Received)
         /\ b.w = 0 => Buffer!Readable(b) = <<>>
<1>1. /\ b.data \in Seq(Received) /\ b.r = 0 /\ b.w \in 0 .. Len(b.data) /\ b.w \in Int
  BY BufferFields
<1>2. Buffer!Readable(b) = SubSeq(b.data, 1, b.w)
  BY <1>1 DEF Buffer!Readable
<1>3. \A i \in 1 .. b.w : b.data[i] \in Received
  BY <1>1
<1>4. SubSeq(b.data, 1, b.w) \in Seq(Received)
  BY <1>1, <1>3, SubSeqProperties
<1>5. b.w = 0 => SubSeq(b.data, 1, b.w) = <<>>
  BY <1>1, SubSeqEmpty
<1> QED BY <1>2, <1>4, <1>5

\* clear() forgets what can be read, and nothing else.
LEMMA ClearResult ==
  ASSUME NEW b, IsBuffer(b)
  PROVE  IsBuffer(Buffer!Clear(b)) /\ Buffer!Clear(b).w = 0
<1> DEFINE c == Buffer!Clear(b)
<1>1. c = [data |-> b.data, r |-> 0, w |-> 0, mr |-> b.mr, mw |-> b.mw]
  <2>1. c = [b EXCEPT !.r = 0, !.w = 0]
    BY DEF Buffer!Clear
  <2> HIDE DEF c
  <2>2. b = [data |-> b.data, r |-> b.r, w |-> b.w, mr |-> b.mr, mw |-> b.mw]
    BY BufferFields
  <2> QED BY <2>1, <2>2
<1> HIDE DEF c
<1>2. c.data = b.data /\ c.w = 0 /\ 0 \in Nat
  BY <1>1
<1>3. c \in [data : Seq(Received), r : {0}, w : Nat, mr : Nat, mw : Nat]
  BY <1>1, BufferFields
<1> QED BY <1>2, <1>3, BufferFields DEF IsBuffer, c

\* writeData() puts the bytes behind the readable ones.
LEMMA KeepResult ==
  ASSUME NEW b, IsBuffer(b), NEW s \in Seq(Received)
  PROVE  /\ IsBuffer(Buffer!WriteData(b, s))
         /\ Buffer!Readable(Buffer!WriteData(b, s)) = Buffer!Readable(b) \o s
         /\ Buffer!WriteData(b, s).w = b.w + Len(s)
<1> DEFINE c == Buffer!WriteData(b, s)
           front == SubSeq(b.data, 1, b.w)
           back == SubSeq(b.data, b.w + 1, Len(b.data))
           d == front \o s \o back
<1>1. /\ b = [data |-> b.data, r |-> b.r, w |-> b.w, mr |-> b.mr, mw |-> b.mw]
      /\ b.data \in Seq(Received) /\ b.r = 0 /\ b.mr \in Nat /\ b.mw \in Nat
      /\ b.w \in 0 .. Len(b.data) /\ b.w \in Nat /\ Len(b.data) \in Nat
  BY BufferFields
<1>2. ~(b.w > Len(b.data)) /\ Len(s) \in Nat
  BY <1>1
<1>3. c = [data |-> d, r |-> 0, w |-> b.w + Len(s), mr |-> b.mr, mw |-> b.mw]
  <2>1. Buffer!SetData(b, b.w, s) = [data |-> d, r |-> 0, w |-> b.w, mr |-> b.mr, mw |-> b.mw]
    <3>1. Buffer!SetData(b, b.w, s) = [b EXCEPT !.data = d]
      BY <1>1, <1>2 DEF Buffer!SetData
    <3> HIDE DEF d
    <3>2. PICK x, y, z, u, v : b = [data |-> x, r |-> y, w |-> z, mr |-> u, mw |-> v]
      BY <1>1
    <3>3. [b EXCEPT !.data = d] = [data |-> d, r |-> y, w |-> z, mr |-> u, mw |-> v]
      BY <3>2
    <3>4. b.r = y /\ b.w = z /\ b.mr = u /\ b.mw = v
      BY <3>2
    <3> QED BY <1>1, <3>1, <3>3, <3>4
  <2> HIDE DEF d
  <2> QED BY <1>2, <2>1 DEF Buffer!WriteData
<1> HIDE DEF c
<1>4. front \in Seq(Received) /\ Len(front) = b.w
  <2>1. \A i \in 1 .. b.w : b.data[i] \in Received
    BY <1>1
  <2>2. /\ front \in Seq(Received)
        /\ Len(front) = IF 1 <= b.w THEN b.w - 1 + 1 ELSE 0
    BY <1>1, <2>1, SubSeqProperties
  <2> QED BY <1>1, <2>2
<1>5. back \in Seq(Received) /\ Len(back) \in Nat
  <2>1. \A i \in b.w + 1 .. Len(b.data) : b.data[i] \in Received
    BY <1>1
  <2>2. b.w + 1 \in Int /\ Len(b.data) \in Int
    BY <1>1
  <2>3. back \in Seq(Received)
    BY <2>1, <2>2, SubSeqProperties
  <2> QED BY <2>3
<1>6. Buffer!Readable(b) = front
  BY Given
<1> HIDE DEF front, back
<1>7. front \o s \in Seq(Received) /\ Len(front \o s) = b.w + Len(s)
  BY <1>4, ConcatProperties
<1>8. d \in Seq(Received) /\ Len(d) = b.w + Len(s) + Len(back)
  BY <1>5, <1>7, ConcatProperties
<1>9. SubSeq(d, 1, b.w + Len(s)) = front \o s
  <2>1. SubSeq((front \o s) \o back, 1, Len(front \o s)) = front \o s
    BY <1>5, <1>7, Front
  <2> QED BY <1>7, <2>1
<1> HIDE DEF d
<1>10. /\ c.data = d /\ c.w = b.w + Len(s)
       /\ c \in [data : Seq(Received), r : {0}, w : Nat, mr : Nat, mw : Nat]
  BY <1>1, <1>2, <1>3, <1>8
<1>11. IsBuffer(c)
  BY <1>1, <1>2, <1>5, <1>8, <1>10 DEF IsBuffer
<1>12. Buffer!Readable(c) = front \o s
  BY <1>9, <1>10, <1>11, Given
<1> QED BY <1>6, <1>10, <1>11, <1>12 DEF c

-----------------------------------------------------------------------------
(* The bytes that arrive.                                                  *)

Held == IF frame = "received" THEN <<>> ELSE Buffer!Readable(readBuffer)

Stream == delivered \o Held \o unread

Gapless == harm \cap {"readAgain", "reopened"} = {}

RxInv ==
  /\ IsBuffer(readBuffer)
  /\ unread \in Seq(Received) /\ delivered \in Seq(Received)
  /\ arrived \in 0 .. MaxArrived
  /\ frame \in {"none", "reading", "received"} /\ hung \in BOOLEAN
  /\ frame = "none" => readBuffer.w = 0
  /\ Rising(Stream, arrived)
  /\ Gapless => Stream = Iota(arrived)

LEMMA RxInvIs ==
  RxInv => ReadInOrder
<1> SUFFICES ASSUME RxInv PROVE ReadInOrder
  OBVIOUS
<1>1. ASSUME NEW i \in 1 .. Len(Stream) - 1 PROVE Stream[i] < Stream[i + 1]
  <2>1. Stream \in Seq(1 .. arrived) /\ Len(Stream) \in Nat
    BY DEF RxInv, Rising
  <2>2. i \in 1 .. Len(Stream) /\ i + 1 \in 1 .. Len(Stream) /\ i < i + 1
    BY <2>1
  <2> QED BY <2>2 DEF RxInv, Rising
<1> QED BY <1>1 DEF RxInv, ReadInOrder, Stream, Held, Gapless, Iota

LEMMA HeldSeq ==
  ASSUME RxInv
  PROVE  Held \in Seq(Received) /\ (frame \in {"none", "received"} => Held = <<>>)
<1>1. Buffer!Readable(readBuffer) \in Seq(Received) /\ <<>> \in Seq(Received)
  BY Given, EmptySeq DEF RxInv
<1>2. frame = "none" => Buffer!Readable(readBuffer) = <<>>
  BY Given DEF RxInv
<1> QED BY <1>1, <1>2 DEF Held

LEMMA Naturals == Received \subseteq Nat
BY DEF Received

LEMMA RxInitially ==
  SerialInit => RxInv
<1> SUFFICES ASSUME SerialInit PROVE RxInv
  OBVIOUS
<1>1. /\ readBuffer = Buffer!New(<<>>) /\ frame = "none" /\ hung = FALSE
      /\ unread = <<>> /\ arrived = 0 /\ delivered = <<>>
  BY DEF SerialInit
<1>2. IsBuffer(readBuffer) /\ readBuffer.w = 0
  BY <1>1, EmptyResult
<1>3. <<>> \in Seq(Received) /\ <<>> \in Seq(1 .. 0) /\ Len(<<>>) = 0
  BY EmptySeq
<1>4. Held = <<>>
  BY <1>1, <1>2, Given DEF Held
<1>5. Stream = <<>>
  <2>1. Stream = (<<>> \o <<>>) \o <<>>
    BY <1>1, <1>4 DEF Stream
  <2> QED BY <1>3, <2>1, ConcatEmptySeq
<1>6. Rising(Stream, 0) /\ Stream = Iota(0)
  <2>1. Iota(0) \in Seq(1 .. 0) /\ Len(Iota(0)) = 0
    BY IotaSeq
  <2>2. <<>> = Iota(0)
    BY <1>3, <2>1, SeqEqual
  <2> QED BY <1>3, <1>5, <2>2 DEF Rising
<1>7. arrived \in 0 .. MaxArrived /\ Rising(Stream, arrived) /\ Stream = Iota(arrived)
  BY <1>1, <1>6, SerialAssumption
<1>8. unread \in Seq(Received) /\ delivered \in Seq(Received)
  BY <1>1, <1>3
<1>9. frame \in {"none", "reading", "received"} /\ hung \in BOOLEAN
  BY <1>1
<1> QED BY <1>2, <1>7, <1>8, <1>9 DEF RxInv

\* What is left alone stays in order.
LEMMA RxStays ==
  ASSUME RxInv, UNCHANGED rxVars, harm \subseteq harm'
  PROVE  RxInv'
BY DEF RxInv, rxVars, Stream, Held, Gapless

\* The same bytes, held elsewhere.
LEMMA RxMoves ==
  ASSUME RxInv, Stream' = Stream, UNCHANGED arrived, hung' \in {hung, FALSE}, harm \subseteq harm',
         IsBuffer(readBuffer)', unread' \in Seq(Received), delivered' \in Seq(Received),
         frame' \in {"none", "reading", "received"},
         frame' = "none" => readBuffer'.w = 0
  PROVE  RxInv'
BY DEF RxInv, Gapless

\* A part of the stream is lost, and that is noted.
LEMMA RxLoses ==
  ASSUME RxInv, NEW s \in Seq(Received), NEW t \in Seq(Received), NEW c \in Seq(Received),
         Stream = (s \o t) \o c, Stream' = s \o c, ~Gapless',
         UNCHANGED arrived, hung' \in {hung, FALSE},
         IsBuffer(readBuffer)', unread' \in Seq(Received), delivered' \in Seq(Received),
         frame' \in {"none", "reading", "received"},
         frame' = "none" => readBuffer'.w = 0
  PROVE  RxInv'
<1>1. Rising((s \o t) \o c, arrived) /\ arrived \in Nat
  BY DEF RxInv
<1>2. s \in Seq(Nat) /\ t \in Seq(Nat) /\ c \in Seq(Nat)
  BY Naturals, SeqMonotonic
<1>3. Rising(Stream', arrived)
  BY <1>1, <1>2, RisingGap
<1> QED BY <1>3 DEF RxInv

LEMMA ArriveKeepsRx ==
  ASSUME RxInv, Arrive
  PROVE  RxInv'
<1> DEFINE n == arrived
           front == delivered \o Held
<1>1. /\ arrived' = n + 1 /\ unread' = Append(unread, n + 1) /\ n < MaxArrived
      /\ UNCHANGED <<readBuffer, frame, hung, delivered, harm>>
  BY DEF Arrive
<1>2. n \in Nat /\ n \in 0 .. MaxArrived /\ MaxArrived \in Nat
  BY SerialAssumption DEF RxInv
<1>3. n + 1 \in Received
  BY <1>1, <1>2 DEF Received
<1>4. unread \in Seq(Received) /\ delivered \in Seq(Received) /\ Held \in Seq(Received)
  BY HeldSeq DEF RxInv
<1>5. Held' = Held
  BY <1>1 DEF Held
<1>6. front \in Seq(Received)
  BY <1>4, ConcatProperties
<1>7. Stream' = front \o Append(unread, n + 1)
  BY <1>1, <1>5 DEF Stream
<1> HIDE DEF front
<1>8. front \o Append(unread, n + 1) = Append(front \o unread, n + 1)
  <2>1. <<n + 1>> \in Seq(Received)
    BY <1>3
  <2>2. Append(unread, n + 1) = unread \o <<n + 1>>
    BY <1>3, <1>4, AppendIsConcat
  <2>3. front \o unread \in Seq(Received)
    BY <1>4, <1>6, ConcatProperties
  <2>4. Append(front \o unread, n + 1) = (front \o unread) \o <<n + 1>>
    BY <1>3, <2>3, AppendIsConcat
  <2>5. (front \o unread) \o <<n + 1>> = front \o (unread \o <<n + 1>>)
    BY <1>4, <1>6, <2>1, ConcatAssociative
  <2> QED BY <2>2, <2>4, <2>5
<1>9. Stream' = Append(Stream, n + 1)
  BY <1>7, <1>8 DEF Stream, front
<1>10. Rising(Stream', arrived')
  <2>1. Rising(Append(Stream, n + 1), n + 1)
    BY <1>2, RisingAppend DEF RxInv
  <2> QED BY <1>1, <1>9, <2>1
<1>11. Gapless' => Stream' = Iota(arrived')
  <2> SUFFICES ASSUME Gapless' PROVE Stream' = Iota(arrived')
    OBVIOUS
  <2>1. Stream = Iota(n)
    BY <1>1 DEF RxInv, Gapless
  <2>2. Append(Iota(n), n + 1) = Iota(n + 1)
    BY <1>2, IotaAppend
  <2> QED BY <1>1, <1>9, <2>1, <2>2
<1>12. unread' \in Seq(Received) /\ arrived' \in 0 .. MaxArrived
  BY <1>1, <1>2, <1>3, <1>4, AppendProperties
<1> QED BY <1>1, <1>10, <1>11, <1>12 DEF RxInv

\* A new descriptor has nothing to read, and none has.
LEMMA ReopenKeepsRx ==
  ASSUME RxInv, UNCHANGED <<frame, arrived, delivered>>, hung' = FALSE, unread' = <<>>,
         \/ readBuffer' = readBuffer
         \/ frame # "reading" /\ readBuffer' = Buffer!New(<<>>),
         harm \subseteq harm', unread # <<>> => "reopened" \in harm'
  PROVE  RxInv'
<1> DEFINE front == delivered \o Held
<1>1. /\ unread \in Seq(Received) /\ delivered \in Seq(Received) /\ Held \in Seq(Received)
      /\ <<>> \in Seq(Received)
  BY HeldSeq, EmptySeq DEF RxInv
<1>2. IsBuffer(readBuffer)' /\ Held' = Held /\ (frame' = "none" => readBuffer'.w = 0)
  <2>1. CASE readBuffer' = readBuffer
    BY <2>1 DEF RxInv, Held
  <2>2. CASE frame # "reading" /\ readBuffer' = Buffer!New(<<>>)
    <3>1. IsBuffer(readBuffer') /\ readBuffer'.w = 0
      BY <2>2, EmptyResult
    <3>2. Buffer!Readable(readBuffer') = <<>>
      BY <3>1, Given
    <3>3. Held = <<>>
      BY <2>2, HeldSeq DEF RxInv
    <3>4. Held' = IF frame' = "received" THEN <<>> ELSE Buffer!Readable(readBuffer')
      BY DEF Held
    <3> QED BY <3>1, <3>2, <3>3, <3>4
  <2> QED BY <2>1, <2>2
<1>3. front \in Seq(Received)
  BY <1>1, ConcatProperties
<1>4. Stream' = front \o <<>> /\ Stream = front \o unread
  BY <1>2 DEF Stream
<1>5. /\ unread' \in Seq(Received) /\ delivered' \in Seq(Received)
      /\ frame' \in {"none", "reading", "received"}
  BY <1>1 DEF RxInv
<1> HIDE DEF front
<1>6. CASE unread = <<>>
  BY <1>2, <1>4, <1>5, <1>6, RxMoves
<1>7. CASE unread # <<>>
  <2>1. ~Gapless'
    BY <1>7 DEF Gapless
  <2>2. Stream = (front \o unread) \o <<>>
    <3>1. front \o unread \in Seq(Received)
      BY <1>1, <1>3, ConcatProperties
    <3> QED BY <1>4, <3>1, ConcatEmptySeq
  <2> QED BY <1>1, <1>2, <1>3, <1>4, <1>5, <2>1, <2>2, RxLoses
<1> QED BY <1>6, <1>7

\* A readv takes the front of what there is, and something.
LEMMA TakenLeft ==
  ASSUME RxInv, unread # <<>>
  PROVE  /\ Taken \in Seq(Received) /\ Left \in Seq(Received)
         /\ Taken # <<>> /\ Head(Taken) = Head(unread) /\ unread = Taken \o Left
<1> DEFINE m == Buffer!Least(MaxRead, Len(unread))
<1>1. unread \in Seq(Received) /\ Len(unread) \in Nat \ {0}
  BY EmptySeq DEF RxInv
<1>2. m \in 1 .. Len(unread)
  BY <1>1, SerialAssumption DEF Buffer!Least
<1> HIDE DEF m
<1>3. Taken = SubSeq(unread, 1, m)
  BY DEF Taken, m
<1>4. \A i \in 1 .. Len(unread) : unread[i] \in Received
  BY <1>1
<1>5. Taken \in Seq(Received) /\ Len(Taken) = m
  <2>1. \A i \in 1 .. m : unread[i] \in Received
    BY <1>2, <1>4
  <2>2. /\ SubSeq(unread, 1, m) \in Seq(Received)
        /\ Len(SubSeq(unread, 1, m)) = IF 1 <= m THEN m - 1 + 1 ELSE 0
    BY <1>1, <1>2, <2>1, SubSeqProperties
  <2> QED BY <1>2, <1>3, <2>2
<1>6. Left = SubSeq(unread, m + 1, Len(unread))
  BY <1>5 DEF Left
<1>7. Left \in Seq(Received)
  <2>1. \A i \in m + 1 .. Len(unread) : unread[i] \in Received
    BY <1>2, <1>4
  <2>2. m + 1 \in Int /\ Len(unread) \in Int
    BY <1>1, <1>2
  <2> QED BY <1>1, <1>6, <2>1, <2>2, SubSeqProperties
<1>8. Taken # <<>>
  BY <1>2, <1>5, EmptySeq
<1>9. Head(Taken) = Head(unread)
  <2>1. 1 \in 1 .. Len(unread) /\ m \in 1 .. Len(unread)
    BY <1>1, <1>2
  <2>2. Head(SubSeq(unread, 1, m)) = unread[1]
    BY <1>1, <1>2, <2>1, HeadTailOfSubSeq
  <2>3. Head(unread) = unread[1]
    BY <1>1, <1>2
  <2> QED BY <1>3, <2>2, <2>3, Zenon
<1>10. unread = Taken \o Left
  <2>1. SubSeq(unread, 1, m) \o SubSeq(unread, m + 1, Len(unread)) = SubSeq(unread, 1, Len(unread))
    BY <1>1, <1>2, ConcatAdjacentSubSeq
  <2>2. SubSeq(unread, 1, Len(unread)) = unread
    BY <1>1, SubSeqFull
  <2> QED BY <1>3, <1>6, <2>1, <2>2
<1> QED BY <1>5, <1>7, <1>8, <1>9, <1>10

LEMMA ReadFirstKeepsRx ==
  ASSUME RxInv, ReadFirst
  PROVE  RxInv'
<1>1. /\ frame = "none" /\ readBuffer' = Buffer!WriteData(readBuffer, Taken) /\ unread' = Left
      /\ frame' = "reading" /\ unread # <<>> /\ UNCHANGED <<hung, arrived, delivered, harm>>
  BY DEF ReadFirst, Keep, CallbackFrame
<1>2. /\ unread \in Seq(Received) /\ delivered \in Seq(Received) /\ Held = <<>>
      /\ <<>> \in Seq(Received)
  BY <1>1, HeldSeq, EmptySeq DEF RxInv
<1>3. Taken \in Seq(Received) /\ Left \in Seq(Received) /\ unread = Taken \o Left
  BY <1>1, TakenLeft
<1> HIDE DEF Taken, Left
<1>4. IsBuffer(readBuffer)' /\ Held' = Buffer!Readable(readBuffer) \o Taken
  BY <1>1, <1>3, KeepResult DEF RxInv, Held
<1>5. Held' = Taken
  <2>1. Buffer!Readable(readBuffer) = <<>>
    BY <1>1, <1>2 DEF Held
  <2> QED BY <1>3, <1>4, <2>1, ConcatEmptySeq
<1>6. Stream' = Stream
  <2>1. Stream' = (delivered \o Taken) \o Left
    BY <1>1, <1>5 DEF Stream
  <2>2. Stream = (delivered \o <<>>) \o (Taken \o Left)
    BY <1>2, <1>3 DEF Stream
  <2>3. delivered \o <<>> = delivered
    BY <1>2, ConcatEmptySeq
  <2>4. (delivered \o Taken) \o Left = delivered \o (Taken \o Left)
    BY <1>2, <1>3, ConcatAssociative
  <2> QED BY <2>1, <2>2, <2>3, <2>4
<1>7. unread' \in Seq(Received) /\ delivered' \in Seq(Received) /\ harm \subseteq harm'
  BY <1>1, <1>2, <1>3
<1> QED BY <1>1, <1>4, <1>6, <1>7, RxMoves

LEMMA HeadThenTail ==
  ASSUME NEW S, NEW s \in Seq(S), s # <<>>
  PROVE  s = <<Head(s)>> \o Tail(s)
<1>1. Len(s) \in Nat \ {0}
  BY EmptySeq
<1>2. Len(s) \in 1 .. Len(s) /\ 1 \in 1 .. Len(s)
  BY <1>1
<1>3. SubSeq(s, 1, Len(s)) = <<s[1]>> \o SubSeq(s, 1 + 1, Len(s))
  BY <1>2, SubSeqRecursiveFirst
<1>4. SubSeq(s, 1, Len(s)) = s
  BY SubSeqFull
<1>5. Tail(s) = SubSeq(s, 1 + 1, Len(s)) /\ Head(s) = s[1]
  BY <1>1, TailIsSubSeq
<1> QED BY <1>3, <1>4, <1>5

\* Of what a later readv takes one byte is kept.
LEMMA ReadAgainKeepsRx ==
  ASSUME RxInv, ReadAgain
  PROVE  RxInv'
<1> DEFINE x == <<Head(unread)>>
           t == Tail(Taken)
           c == Left
           front == delivered \o Held
<1>1. /\ frame = "reading" /\ unread # <<>> /\ readBuffer' = Buffer!WriteData(readBuffer, x)
      /\ unread' = c /\ UNCHANGED <<frame, hung, arrived, delivered>>
      /\ harm' = IF Len(Taken) > 1 THEN harm \cup {"readAgain"} ELSE harm
  BY DEF ReadAgain, Keep, CallbackFrame
<1>2. /\ delivered \in Seq(Received) /\ Held \in Seq(Received) /\ <<>> \in Seq(Received)
  BY HeldSeq, EmptySeq DEF RxInv
<1>3. /\ Taken \in Seq(Received) /\ c \in Seq(Received) /\ Taken # <<>>
      /\ Head(Taken) = Head(unread) /\ unread = Taken \o c
  BY <1>1, TakenLeft
<1> HIDE DEF Taken, Left
<1>4. Head(unread) \in Received /\ t \in Seq(Received)
  BY <1>3, HeadTailProperties
<1>5. x \in Seq(Received)
  BY <1>4
<1>6. Taken = x \o t
  BY <1>3, HeadThenTail
<1> HIDE DEF x, t, c
<1>7. IsBuffer(readBuffer)' /\ Held' = Held \o x
  <2>1. /\ IsBuffer(Buffer!WriteData(readBuffer, x))
        /\ Buffer!Readable(Buffer!WriteData(readBuffer, x)) = Buffer!Readable(readBuffer) \o x
    BY <1>5, KeepResult DEF RxInv
  <2>2. Held = Buffer!Readable(readBuffer) /\ Held' = Buffer!Readable(readBuffer')
    BY <1>1 DEF Held
  <2> QED BY <1>1, <2>1, <2>2
<1>8. front \in Seq(Received)
  BY <1>2, ConcatProperties
<1>9. Stream' = (front \o x) \o c
  <2>1. Stream' = (delivered \o (Held \o x)) \o c
    BY <1>1, <1>7 DEF Stream
  <2>2. (delivered \o Held) \o x = delivered \o (Held \o x)
    <3> HIDE DEF front
    <3> QED BY <1>2, <1>5, ConcatAssociative
  <2> QED BY <2>1, <2>2
<1>10. Stream = ((front \o x) \o t) \o c
  <2>1. Stream = front \o ((x \o t) \o c)
    BY <1>3, <1>6 DEF Stream
  <2> HIDE DEF front
  <2>2. x \o t \in Seq(Received)
    BY <1>3, <1>6
  <2>3. front \o ((x \o t) \o c) = (front \o (x \o t)) \o c
    <3> DEFINE taken == x \o t
    <3>1. taken \in Seq(Received) /\ c \in Seq(Received) /\ front \in Seq(Received)
      BY <1>3, <1>8, <2>2
    <3> HIDE DEF taken
    <3>2. front \o (taken \o c) = (front \o taken) \o c
      BY <3>1, ConcatAssociative
    <3> QED BY <3>2 DEF taken
  <2>4. front \o (x \o t) = (front \o x) \o t
    BY <1>4, <1>5, <1>8, ConcatAssociative
  <2> QED BY <2>1, <2>3, <2>4
<1>11. front \o x \in Seq(Received)
  <2> HIDE DEF front
  <2> QED BY <1>5, <1>8, ConcatProperties
<1> DEFINE y == front \o x
<1> HIDE DEF y, front
<1>12. /\ unread' \in Seq(Received) /\ delivered' \in Seq(Received)
       /\ frame' \in {"none", "reading", "received"} /\ (frame' = "none" => readBuffer'.w = 0)
  BY <1>1, <1>2, <1>3
<1>13. CASE Len(Taken) > 1
  <2>1. ~Gapless'
    BY <1>1, <1>13 DEF Gapless
  <2>2. y \in Seq(Received) /\ Stream = (y \o t) \o c /\ Stream' = y \o c
    BY <1>9, <1>10, <1>11 DEF y
  <2> QED BY <1>1, <1>3, <1>4, <1>7, <1>12, <2>1, <2>2, RxLoses
<1>14. CASE ~(Len(Taken) > 1)
  <2>1. t = <<>>
    BY <1>3, <1>14 DEF t
  <2>2. Stream' = Stream
    BY <1>9, <1>10, <1>11, <2>1, ConcatEmptySeq
  <2>3. harm \subseteq harm'
    BY <1>1, <1>14
  <2> QED BY <1>1, <1>7, <1>12, <2>2, <2>3, RxMoves
<1> QED BY <1>13, <1>14

LEMMA ReadDoneKeepsRx ==
  ASSUME RxInv, ReadDone
  PROVE  RxInv'
<1>1. /\ frame = "reading" /\ unread = <<>> /\ frame' = "received"
      /\ delivered' = delivered \o SubSeq(readBuffer.data, 1, readBuffer.w)
      /\ UNCHANGED <<readBuffer, unread, hung, arrived, harm>>
  BY DEF ReadDone, CallbackFrame
<1>2. /\ delivered \in Seq(Received) /\ Held \in Seq(Received) /\ <<>> \in Seq(Received)
  BY HeldSeq, EmptySeq DEF RxInv
<1>3. delivered' = delivered \o Held /\ Held' = <<>>
  <2>1. Buffer!Readable(readBuffer) = SubSeq(readBuffer.data, 1, readBuffer.w)
    BY Given DEF RxInv
  <2> QED BY <1>1, <2>1 DEF Held
<1>4. delivered' \in Seq(Received)
  BY <1>2, <1>3, ConcatProperties
<1>5. Stream' = Stream
  <2>1. Stream' = (delivered' \o <<>>) \o <<>>
    BY <1>1, <1>3 DEF Stream
  <2>2. Stream = delivered' \o <<>>
    BY <1>1, <1>3 DEF Stream
  <2>3. delivered' \o <<>> = delivered'
    BY <1>4, ConcatEmptySeq
  <2> QED BY <2>1, <2>2, <2>3
<1>6. IsBuffer(readBuffer)' /\ unread' \in Seq(Received) /\ harm \subseteq harm'
  BY <1>1, <1>2 DEF RxInv
<1> QED BY <1>1, <1>4, <1>5, <1>6, RxMoves

\* The buffer is cleared when nothing is held in it any more.
LEMMA ClearingKeepsRx ==
  ASSUME RxInv, frame \in {"none", "received"}, readBuffer' = Cleared(readBuffer),
         frame' = "none", UNCHANGED <<unread, hung, arrived, delivered, harm>>
  PROVE  RxInv'
<1>1. IsBuffer(readBuffer)' /\ readBuffer'.w = 0
  BY ClearResult DEF RxInv, Cleared
<1>2. Held = <<>>
  BY HeldSeq
<1>3. Held' = <<>>
  BY <1>1, Given DEF Held
<1>4. Stream' = Stream
  BY <1>2, <1>3 DEF Stream
<1>5. unread' \in Seq(Received) /\ delivered' \in Seq(Received) /\ harm \subseteq harm'
  BY DEF RxInv
<1> QED BY <1>1, <1>4, <1>5, RxMoves

LEMMA PassKeepsRx ==
  ASSUME RxInv, Pass
  PROVE  RxInv'
<1>1. UNCHANGED <<frame, unread, hung, arrived, delivered, harm>>
  BY DEF Pass, CallbackFrame
<1>2. CASE Runs("read") /\ readCallback
  <2>1. ~Runs("close")
    BY <1>2 DEF Runs
  <2>2. frame = "none" /\ readBuffer' = Cleared(readBuffer)
    BY <1>2, <2>1 DEF Pass
  <2> QED BY <1>1, <2>2, ClearingKeepsRx
<1>3. CASE ~(Runs("read") /\ readCallback)
  <2>1. UNCHANGED rxVars /\ harm \subseteq harm'
    BY <1>1, <1>3 DEF Pass, rxVars
  <2> QED BY <2>1, RxStays
<1> QED BY <1>2, <1>3

\* The bytes that arrive stay in order, whatever the step.
LEMMA RxStep ==
  ASSUME RxInv, phase = "intask" => frame = "none", [SerialNext]_serialVars
  PROVE  RxInv'
<1>1. CASE UNCHANGED serialVars
  BY <1>1, RxStays DEF serialVars
<1>2. CASE Arrive
  BY <1>2, ArriveKeepsRx
<1>3. CASE HangUp
  <2>1. /\ hung' \in BOOLEAN
        /\ UNCHANGED <<readBuffer, frame, unread, arrived, delivered, harm>>
    BY <1>3 DEF HangUp
  <2>2. Stream' = Stream /\ (Gapless' <=> Gapless)
    BY <2>1 DEF Stream, Held, Gapless
  <2> QED BY <2>1, <2>2 DEF RxInv
<1>4. CASE SerialPoll \/ LoopOnly
  <2>1. UNCHANGED rxVars /\ harm \subseteq harm'
    BY <1>4 DEF SerialPoll, LoopOnly
  <2> QED BY <2>1, RxStays
<1>5. CASE ReadFirst
  BY <1>5, ReadFirstKeepsRx
<1>6. CASE ReadAgain
  BY <1>6, ReadAgainKeepsRx
<1>7. CASE ReadDone
  BY <1>7, ReadDoneKeepsRx
<1>8. CASE Pass
  BY <1>8, PassKeepsRx
<1>9. CASE WriteCallback
  <2>1. UNCHANGED <<readBuffer, frame, unread, delivered, hung, arrived>>
    BY <1>9 DEF WriteCallback, CallbackFrame
  <2>2. harm \subseteq harm'
    BY <1>9 DEF WriteCallback, txVars
  <2> QED BY <2>1, <2>2, RxStays DEF rxVars
<1>10. CASE AppReturns
  <2>1. /\ frame = "received" /\ readBuffer' = Cleared(readBuffer) /\ frame' = "none"
        /\ UNCHANGED <<unread, hung, arrived, delivered, harm>>
    BY <1>10 DEF AppReturns, CallbackFrame
  <2> QED BY <2>1, ClearingKeepsRx
<1>11. CASE InitInUse \/ CleanUp \/ SetReadCallback \/ StartDevice
  <2>1. UNCHANGED rxVars /\ harm \subseteq harm'
    BY <1>11 DEF InitInUse, CleanUp, SetReadCallback, StartDevice, AppFrame, LoopFrame, rxVars
  <2> QED BY <2>1, RxStays
<1>12. CASE StopDevice \/ CloseDevice
  <2>1. UNCHANGED rxVars /\ harm' = Stranded
    BY <1>12 DEF StopDevice, CloseDevice, AppFrame, LoopFrame, rxVars
  <2>2. harm \subseteq harm'
    BY <2>1 DEF Stranded
  <2> QED BY <2>1, <2>2, RxStays
<1>13. CASE InitDevice
  <2>1. /\ UNCHANGED <<readBuffer, frame, arrived, delivered>> /\ unread' = <<>> /\ hung' = FALSE
        /\ harm' = IF unread = <<>> THEN harm ELSE harm \cup {"reopened"}
    BY <1>13 DEF InitDevice, LoopFrame
  <2>2. harm \subseteq harm' /\ (unread # <<>> => "reopened" \in harm')
    BY <2>1
  <2> QED BY <2>1, <2>2, ReopenKeepsRx
<1>14. ASSUME NEW k \in 1 .. MaxSent, Send(k)
       PROVE  RxInv'
  <2>1. UNCHANGED rxVars
    BY <1>14 DEF Send, AppFrame, LoopFrame, rxVars
  <2>2. harm \subseteq harm'
    BY <1>14 DEF Send
  <2> QED BY <2>1, <2>2, RxStays
<1>15. CASE LoopCall \/ (RunLoop /\ ~poolUp /\ keepRunning' /\ UNCHANGED <<portVars, rxVars, txVars, cause, harm>>)
  <2>1. UNCHANGED rxVars /\ harm \subseteq harm'
    BY <1>15 DEF LoopCall
  <2> QED BY <2>1, RxStays
<1>16. CASE DestroyDevice
  <2>1. /\ UNCHANGED <<frame, arrived, delivered>> /\ unread' = <<>> /\ hung' = FALSE
        /\ readBuffer' = Buffer!New(<<>>) /\ frame # "reading"
        /\ harm' = harm \cup (IF unread = <<>> THEN {} ELSE {"reopened"})
                        \cup (IF writeBuffer = <<>> THEN {} ELSE {"destroyed"})
    BY <1>16 DEF DestroyDevice, CanCall, LoopFrame
  <2>2. harm \subseteq harm' /\ (unread # <<>> => "reopened" \in harm')
    BY <2>1
  <2> QED BY <2>1, <2>2, ReopenKeepsRx
<1> QED BY <1>1, <1>2, <1>3, <1>4, <1>5, <1>6, <1>7, <1>8, <1>9, <1>10, <1>11, <1>12,
           <1>13, <1>14, <1>15, <1>16 DEF SerialNext, DeviceStep, AppCalls

-----------------------------------------------------------------------------
(* The bytes that are sent.                                                *)

Whole == harm \cap {"shortWrite", "flush", "destroyed"} = {}

TxInv ==
  /\ writeBuffer \in Seq(1 .. MaxSent) /\ wire \in Seq(0 .. MaxSent)
  /\ sent \in 0 .. MaxSent
  /\ Whole => wire \o writeBuffer = Iota(sent)

LEMMA TxInvIs ==
  TxInv => SentInOrder
BY DEF TxInv, SentInOrder, Whole, Iota

LEMMA TxInitially ==
  SerialInit => TxInv
<1> SUFFICES ASSUME SerialInit PROVE TxInv
  OBVIOUS
<1>1. writeBuffer = <<>> /\ sent = 0 /\ wire = <<>>
  BY DEF SerialInit
<1>2. <<>> \in Seq(1 .. MaxSent) /\ <<>> \in Seq(0 .. MaxSent) /\ <<>> \in Seq(1 .. 0) /\ Len(<<>>) = 0
  BY EmptySeq
<1>3. Iota(0) \in Seq(1 .. 0) /\ Len(Iota(0)) = 0
  BY IotaSeq
<1>4. <<>> = Iota(0)
  BY <1>2, <1>3, SeqEqual
<1>5. <<>> \o <<>> = Iota(0)
  BY <1>2, <1>4, ConcatEmptySeq
<1>6. wire \o writeBuffer = Iota(sent) /\ sent \in 0 .. MaxSent
  BY <1>1, <1>5, SerialAssumption
<1>7. writeBuffer \in Seq(1 .. MaxSent) /\ wire \in Seq(0 .. MaxSent)
  BY <1>1, <1>2
<1> QED BY <1>6, <1>7 DEF TxInv

LEMMA TxStays ==
  ASSUME TxInv, UNCHANGED txVars, harm \subseteq harm'
  PROVE  TxInv'
BY DEF TxInv, txVars, Whole

\* What is put behind buffered data.
LEMMA SendBehindKeepsTx ==
  ASSUME TxInv, NEW k \in 1 .. MaxSent, sent + k <= MaxSent, sent' = sent + k,
         writeBuffer' = writeBuffer \o Numbered(k), UNCHANGED <<wire, harm>>
  PROVE  TxInv'
<1> DEFINE t == Numbered(k)
<1>1. sent \in Nat /\ k \in Nat /\ MaxSent \in Nat /\ sent' \in 0 .. MaxSent
  BY SerialAssumption DEF TxInv
<1>2. t \in Seq(1 .. MaxSent)
  <2>1. t \in Seq(1 .. sent + k)
    BY <1>1, NumberedSeq
  <2>2. 1 .. sent + k \subseteq 1 .. MaxSent
    BY <1>1
  <2> HIDE DEF t
  <2> QED BY <2>1, <2>2, SeqMonotonic
<1>3. writeBuffer' \in Seq(1 .. MaxSent)
  <2>1. writeBuffer \in Seq(1 .. MaxSent)
    BY DEF TxInv
  <2> HIDE DEF t
  <2> QED BY <1>2, <2>1, ConcatProperties DEF t
<1>4. Whole' => wire' \o writeBuffer' = Iota(sent')
  <2> SUFFICES ASSUME Whole' PROVE wire' \o writeBuffer' = Iota(sent')
    OBVIOUS
  <2>1. wire \o writeBuffer = Iota(sent)
    BY DEF TxInv, Whole
  <2>2. wire \in Seq(Nat) /\ writeBuffer \in Seq(Nat) /\ t \in Seq(Nat)
    <3>1. 0 .. MaxSent \subseteq Nat /\ 1 .. MaxSent \subseteq Nat
      OBVIOUS
    <3> HIDE DEF t
    <3> QED BY <1>2, <3>1, SeqMonotonic DEF TxInv
  <2>3. (wire \o writeBuffer) \o t = wire \o (writeBuffer \o t)
    <3> HIDE DEF t
    <3> QED BY <2>2, ConcatAssociative
  <2>4. Iota(sent) \o t = Iota(sent + k)
    BY <1>1, NumberedNext
  <2> QED BY <2>1, <2>3, <2>4
<1> QED BY <1>1, <1>3, <1>4 DEF TxInv

\* A write that takes n bytes; what is left is buffered.
LEMMA WriteKeepsTx ==
  ASSUME TxInv, NEW k \in 1 .. MaxSent, NEW n \in 0 .. k, sent + k <= MaxSent, sent' = sent + k,
         writeBuffer = <<>>,
         wire' = wire \o SubSeq(Numbered(k), 1, n),
         writeBuffer' = SubSeq(Numbered(k), 1, k - n),
         harm' = IF k - n \in 1 .. k - 1 THEN harm \cup {"shortWrite"} ELSE harm
  PROVE  TxInv'
<1> DEFINE t == Numbered(k)
           S == 0 .. MaxSent
<1>1. sent \in Nat /\ k \in Nat /\ MaxSent \in Nat /\ sent' \in 0 .. MaxSent
  BY SerialAssumption DEF TxInv
<1>2. t \in Seq(1 .. MaxSent) /\ Len(t) = k
  <2>1. t \in Seq(1 .. sent + k) /\ Len(t) = k
    BY <1>1, NumberedSeq
  <2>2. 1 .. sent + k \subseteq 1 .. MaxSent
    BY <1>1
  <2> HIDE DEF t
  <2> QED BY <2>1, <2>2, SeqMonotonic
<1>3. wire \in Seq(S) /\ t \in Seq(S)
  <2>1. 1 .. MaxSent \subseteq S
    OBVIOUS
  <2> HIDE DEF t, S
  <2>2. t \in Seq(S)
    BY <1>2, <2>1, SeqMonotonic
  <2> QED BY <2>2 DEF TxInv, S
<1>4. \A m \in 0 .. k : SubSeq(t, 1, m) \in Seq(1 .. MaxSent) /\ SubSeq(t, 1, m) \in Seq(S)
  <2> SUFFICES ASSUME NEW m \in 0 .. k
               PROVE  SubSeq(t, 1, m) \in Seq(1 .. MaxSent) /\ SubSeq(t, 1, m) \in Seq(S)
    OBVIOUS
  <2> HIDE DEF t
  <2>1. ASSUME NEW i \in 1 .. m PROVE t[i] \in 1 .. MaxSent
    <3>1. i \in 1 .. Len(t) /\ t \in Seq(1 .. MaxSent)
      BY <1>1, <1>2
    <3> QED BY ONLY <3>1, ElementOfSeq
  <2>2. SubSeq(t, 1, m) \in Seq(1 .. MaxSent)
    BY <2>1, SubSeqProperties
  <2>3. 1 .. MaxSent \subseteq S
    OBVIOUS
  <2> QED BY <2>2, <2>3, SeqMonotonic
<1> HIDE DEF t, S
<1>5. wire' \in Seq(S) /\ writeBuffer' \in Seq(1 .. MaxSent)
  <2>1. k - n \in 0 .. k
    OBVIOUS
  <2>2. wire' = wire \o SubSeq(t, 1, n) /\ writeBuffer' = SubSeq(t, 1, k - n)
    BY DEF t
  <2> QED BY <1>3, <1>4, <2>1, <2>2, ConcatProperties
<1>6. Whole' => wire' \o writeBuffer' = Iota(sent')
  <2> SUFFICES ASSUME Whole' PROVE wire' \o writeBuffer' = Iota(sent')
    OBVIOUS
  <2>1. k - n \notin 1 .. k - 1 /\ harm' = harm
    BY DEF Whole
  <2>2. wire = Iota(sent)
    <3>1. wire \o <<>> = Iota(sent)
      BY <2>1 DEF TxInv, Whole
    <3> QED BY <1>3, <3>1, ConcatEmptySeq
  <2>3. Iota(sent) \o t = Iota(sent + k)
    BY <1>1, NumberedNext DEF t
  <2>4. SubSeq(t, 1, k) = t /\ SubSeq(t, 1, 0) = <<>>
    BY <1>2, SubSeqFull, SubSeqEmpty
  <2>5. wire \o t \in Seq(S)
    BY <1>3, ConcatProperties
  <2>6. wire' = wire \o SubSeq(t, 1, n) /\ writeBuffer' = SubSeq(t, 1, k - n)
    BY DEF t
  <2>7. CASE n = k
    <3>0. k - n = 0
      BY <1>1, <2>7
    <3>1. wire' = wire \o t /\ writeBuffer' = <<>>
      BY ONLY <2>4, <2>7, <2>6, <3>0, Zenon
    <3>2. (wire \o t) \o <<>> = wire \o t
      BY <2>5, ConcatEmptySeq
    <3> QED BY <2>2, <2>3, <3>1, <3>2
  <2>8. CASE n = 0
    <3>0. k - n = k
      BY <1>1, <2>8
    <3>1. wire' = wire \o <<>> /\ writeBuffer' = t
      BY ONLY <2>4, <2>8, <2>6, <3>0, Zenon
    <3>2. wire \o <<>> = wire
      BY <1>3, ConcatEmptySeq
    <3> QED BY <2>2, <2>3, <3>1, <3>2
  <2>9. n = k \/ n = 0
    BY <2>1
  <2> QED BY <2>7, <2>8, <2>9
<1> QED BY <1>1, <1>5, <1>6 DEF TxInv, S

LEMMA SendKeepsTx ==
  ASSUME TxInv, NEW k \in 1 .. MaxSent, Send(k)
  PROVE  TxInv'
<1>1. sent + k <= MaxSent /\ sent' = sent + k
  BY DEF Send
<1>2. CASE ~MayWrite
  <2>1. writeBuffer' = writeBuffer \o Numbered(k) /\ UNCHANGED <<wire, harm>>
    BY <1>2 DEF Send
  <2> QED BY <1>1, <2>1, SendBehindKeepsTx
<1>3. CASE MayWrite
  <2>1. PICK n \in -1 .. k :
          /\ wire' = wire \o SubSeq(Numbered(k), 1, Written(n, k))
          /\ writeBuffer' = writeBuffer \o SubSeq(Numbered(k), 1, k - Written(n, k))
          /\ harm' = IF k - Written(n, k) \in 1 .. k - 1 THEN harm \cup {"shortWrite"} ELSE harm
    BY <1>3 DEF Send
  <2> DEFINE m == Written(n, k)
  <2>2. m \in 0 .. k
    BY DEF Written
  <2> HIDE DEF m
  <2>3. writeBuffer = <<>>
    BY <1>3 DEF MayWrite
  <2>4. writeBuffer' = SubSeq(Numbered(k), 1, k - m)
    <3>1. sent \in Nat /\ k \in Nat /\ k - m \in Int
      BY <2>2 DEF TxInv
    <3>2. Numbered(k) \in Seq(1 .. sent + k) /\ Len(Numbered(k)) = k
      BY <3>1, NumberedSeq
    <3>3. ASSUME NEW i \in 1 .. k - m PROVE Numbered(k)[i] \in 1 .. sent + k
      <4>1. i \in 1 .. Len(Numbered(k))
        BY <2>2, <3>2
      <4> QED BY ONLY <3>2, <4>1, ElementOfSeq
    <3>4. SubSeq(Numbered(k), 1, k - m) \in Seq(1 .. sent + k)
      BY <3>1, <3>3, SubSeqProperties
    <3>5. <<>> \o SubSeq(Numbered(k), 1, k - m) = SubSeq(Numbered(k), 1, k - m)
      BY <3>4, ConcatEmptySeq
    <3> QED BY <2>1, <2>3, <3>5 DEF m
  <2> QED BY <1>1, <2>1, <2>2, <2>3, <2>4, WriteKeepsTx DEF m
<1> QED BY <1>2, <1>3

\* The flush: the buffer is emptied, and what is written is what it held only
\* when it held just that many bytes and write() took them all.
LEMMA FlushKeepsTx ==
  ASSUME TxInv, NEW n \in -1 .. FlushBytes,
         wire' = wire \o SubSeq(Flushed, 1, Written(n, FlushBytes)),
         harm' = IF n = FlushBytes /\ Len(writeBuffer) = FlushBytes THEN harm ELSE harm \cup {"flush"},
         writeBuffer' = <<>>, sent' = sent
  PROVE  TxInv'
<1> DEFINE t == Flushed
           m == Written(n, FlushBytes)
           S == 0 .. MaxSent
<1>1. FlushBytes \in Nat /\ MaxSent \in Nat /\ m \in 0 .. FlushBytes
  BY SerialAssumption DEF Written
<1>2. writeBuffer \in Seq(1 .. MaxSent) /\ wire \in Seq(S) /\ Len(writeBuffer) \in Nat
  BY DEF TxInv
<1>3. t \in Seq(S) /\ Len(t) = FlushBytes
  <2>1. \A i \in 1 .. FlushBytes : i <= Len(writeBuffer) => writeBuffer[i] \in S
    BY <1>1, <1>2
  <2>2. t \in [1 .. FlushBytes -> S]
    BY <1>1, <2>1 DEF Flushed
  <2> HIDE DEF t
  <2> QED BY <1>1, <2>2
<1>4. SubSeq(t, 1, m) \in Seq(S)
  <2> HIDE DEF t, m, S
  <2>1. ASSUME NEW i \in 1 .. m PROVE t[i] \in S
    <3>1. i \in 1 .. Len(t)
      BY <1>1, <1>3
    <3> QED BY ONLY <1>3, <3>1, ElementOfSeq
  <2> QED BY <1>1, <2>1, SubSeqProperties
<1>5. wire' \in Seq(S)
  <2> HIDE DEF S
  <2> QED BY <1>2, <1>4, ConcatProperties
<1>6. Whole' => wire' \o writeBuffer' = Iota(sent')
  <2> SUFFICES ASSUME Whole' PROVE wire' \o writeBuffer' = Iota(sent')
    OBVIOUS
  <2>1. n = FlushBytes /\ Len(writeBuffer) = FlushBytes /\ harm' = harm
    BY DEF Whole
  <2>2. wire \o writeBuffer = Iota(sent)
    BY <2>1 DEF TxInv, Whole
  <2>3. t = writeBuffer
    <3>1. writeBuffer \in Seq(S)
      <4>1. 1 .. MaxSent \subseteq S
        OBVIOUS
      <4> QED BY <1>2, <4>1, SeqMonotonic
    <3>2. ASSUME NEW i \in 1 .. FlushBytes PROVE t[i] = writeBuffer[i]
      BY <1>1, <2>1 DEF Flushed
    <3> HIDE DEF t, S
    <3> QED BY <1>3, <2>1, <3>1, <3>2, SeqEqual
  <2>4. m = FlushBytes
    BY <1>1, <2>1 DEF Written
  <2>5. SubSeq(t, 1, m) = writeBuffer
    <3> HIDE DEF t, m
    <3> QED BY <1>3, <2>3, <2>4, SubSeqFull
  <2>6. wire' = wire \o writeBuffer /\ wire' \o <<>> = wire'
    <3> HIDE DEF S
    <3> QED BY <1>5, <2>5, ConcatEmptySeq
  <2> QED BY <2>2, <2>6
<1>7. <<>> \in Seq(1 .. MaxSent)
  BY EmptySeq
<1> QED BY <1>5, <1>6, <1>7 DEF TxInv

\* The bytes that are sent stay in order, whatever the step.
LEMMA TxStep ==
  ASSUME TxInv, [SerialNext]_serialVars
  PROVE  TxInv'
<1>1. CASE UNCHANGED serialVars
  BY <1>1, TxStays DEF serialVars
<1>2. CASE Arrive \/ HangUp \/ SerialPoll \/ LoopOnly
  <2>1. UNCHANGED txVars /\ harm \subseteq harm'
    BY <1>2 DEF Arrive, HangUp, SerialPoll, LoopOnly
  <2> QED BY <2>1, TxStays
<1>3. CASE ReadFirst \/ ReadAgain \/ ReadDone \/ Pass \/ AppReturns
  <2>1. UNCHANGED txVars /\ harm \subseteq harm'
    BY <1>3 DEF ReadFirst, ReadAgain, ReadDone, Pass, AppReturns
  <2> QED BY <2>1, TxStays
<1>4. CASE WriteCallback
  <2>1. CASE writeBuffer = <<>>
    <3>1. UNCHANGED txVars /\ harm \subseteq harm'
      BY <1>4, <2>1 DEF WriteCallback
    <3> QED BY <3>1, TxStays
  <2>2. CASE writeBuffer # <<>>
    <3>1. PICK n \in -1 .. FlushBytes :
            /\ wire' = wire \o SubSeq(Flushed, 1, Written(n, FlushBytes))
            /\ harm' = IF n = FlushBytes /\ Len(writeBuffer) = FlushBytes
                         THEN harm ELSE harm \cup {"flush"}
      BY <1>4, <2>2 DEF WriteCallback
    <3>2. writeBuffer' = <<>> /\ sent' = sent
      BY <1>4, <2>2 DEF WriteCallback
    <3> QED BY <3>1, <3>2, FlushKeepsTx
  <2> QED BY <2>1, <2>2
<1>5. CASE InitInUse \/ CleanUp \/ SetReadCallback \/ StartDevice \/ InitDevice
  <2>1. UNCHANGED txVars /\ harm \subseteq harm'
    BY <1>5 DEF InitInUse, CleanUp, SetReadCallback, StartDevice, InitDevice
  <2> QED BY <2>1, TxStays
<1>6. CASE StopDevice \/ CloseDevice
  <2>1. UNCHANGED txVars /\ harm' = Stranded
    BY <1>6 DEF StopDevice, CloseDevice
  <2>2. harm \subseteq harm'
    BY <2>1 DEF Stranded
  <2> QED BY <2>1, <2>2, TxStays
<1>7. ASSUME NEW k \in 1 .. MaxSent, Send(k)
      PROVE  TxInv'
  BY <1>7, SendKeepsTx
<1>8. CASE LoopCall \/ (RunLoop /\ ~poolUp /\ keepRunning' /\ UNCHANGED <<portVars, rxVars, txVars, cause, harm>>)
  <2>1. UNCHANGED txVars /\ harm \subseteq harm'
    BY <1>8 DEF LoopCall
  <2> QED BY <2>1, TxStays
<1>9. CASE DestroyDevice
  <2>1. /\ writeBuffer' = <<>> /\ UNCHANGED <<sent, wire>>
        /\ harm \subseteq harm' /\ (writeBuffer # <<>> => "destroyed" \in harm')
    BY <1>9 DEF DestroyDevice
  <2>2. <<>> \in Seq(1 .. MaxSent)
    BY EmptySeq
  <2>3. Whole' => Whole /\ writeBuffer' = writeBuffer
    BY <2>1 DEF Whole
  <2> QED BY <2>1, <2>2, <2>3 DEF TxInv
<1> QED BY <1>1, <1>2, <1>3, <1>4, <1>5, <1>6, <1>7, <1>8, <1>9
    DEF SerialNext, DeviceStep, AppCalls

-----------------------------------------------------------------------------
(* The settings of the line.                                               *)

LineInv ==
  /\ asked \in Settings /\ line \in SUBSET LineBits /\ state \in States
  /\ state = "kInited" => LineIs(line, asked)

LEMMA UsualIn == Usual \in Settings
BY DEF Usual, Settings, Rates, Parities

LEMMA LineInvIs ==
  LineInv => LineAsAsked
BY DEF LineInv, LineIs, LineAsAsked

LEMMA LineStep ==
  ASSUME LineInv, [SerialNext]_serialVars
  PROVE  LineInv'
<1>1. CASE UNCHANGED <<line, asked, state>>
  BY <1>1 DEF LineInv
<1>2. CASE Arrive \/ HangUp \/ SerialPoll \/ LoopOnly \/ UNCHANGED serialVars
  BY <1>1, <1>2 DEF Arrive, HangUp, SerialPoll, LoopOnly, portVars, serialVars
<1>3. CASE ReadFirst \/ ReadAgain \/ ReadDone \/ Pass \/ AppReturns \/ WriteCallback
  BY <1>1, <1>3 DEF ReadFirst, ReadAgain, ReadDone, Pass, AppReturns, WriteCallback, CallbackFrame, portVars
<1>4. CASE InitInUse \/ CleanUp \/ SetReadCallback \/ StopDevice
  BY <1>1, <1>4 DEF InitInUse, CleanUp, SetReadCallback, StopDevice, portVars
<1>5. CASE StartDevice
  BY <1>5 DEF StartDevice, LineInv, States
<1>6. CASE CloseDevice \/ DestroyDevice
  <2>1. UNCHANGED <<line, asked>> /\ state' \in {state, "kNone"}
    BY <1>6 DEF CloseDevice, Closed, DestroyDevice
  <2> QED BY <2>1 DEF LineInv, States
<1>7. CASE InitDevice
  <2>1. PICK set \in BOOLEAN, s \in (IF Moving THEN {Usual} ELSE NearUsual) :
          /\ set => Accepted(s)
          /\ state' = IF set THEN "kInited" ELSE "kNone"
          /\ line' = IF set THEN UartSet(line, s) ELSE line
          /\ asked' = s
    BY <1>7 DEF InitDevice
  <2>2. s \in Settings
    BY UsualIn DEF NearUsual
  <2>3. CASE set
    <3>1. LineIs(UartSet(line, s), s) /\ UartSet(line, s) \subseteq LineBits
      BY <2>1, <2>2, <2>3, UartSetIs, UartSetIn DEF LineInv
    <3> QED BY <2>1, <2>2, <2>3, <3>1 DEF LineInv, States
  <2>4. CASE ~set
    BY <2>1, <2>2, <2>4 DEF LineInv, States
  <2> QED BY <2>3, <2>4
<1>8. ASSUME NEW k \in 1 .. MaxSent, Send(k)
      PROVE  LineInv'
  BY <1>1, <1>8 DEF Send, portVars
<1>9. CASE LoopCall \/ (RunLoop /\ ~poolUp /\ keepRunning' /\ UNCHANGED <<portVars, rxVars, txVars, cause, harm>>)
  BY <1>1, <1>9 DEF LoopCall, portVars
<1> QED BY <1>2, <1>3, <1>4, <1>5, <1>6, <1>7, <1>8, <1>9 DEF SerialNext, DeviceStep, AppCalls

LEMMA LineInitially ==
  SerialInit => LineInv
<1> SUFFICES ASSUME SerialInit PROVE LineInv
  OBVIOUS
<1>1. state = "kNone" /\ asked = Usual /\ line \in {{}, LineBits}
  BY DEF SerialInit
<1> QED BY <1>1, UsualIn DEF LineInv, States

-----------------------------------------------------------------------------
(* The event and the Poller.                                               *)

\* What every step keeps, faults and all: the device's event is the only one
\* that exists, and an entry of epoll is on the descriptor of its event.
RegPart ==
  /\ reg \in Registry /\ live = {event} \ {NoEvent}
  /\ state \in States /\ event \in Events \cup {NoEvent} /\ fd \in Fds \cup {NoFd}
  /\ \A f \in Fds : reg.kptr[f] # NoEvent => reg.fd[reg.kptr[f]] = f

LoopPart ==
  /\ doomed \subseteq Events /\ locked \in [Events -> BOOLEAN]
  /\ revents \in [Events -> SUBSET Signals]
  /\ active \in Seq(Events) /\ calls \in Seq(Callbacks)
  /\ taskQueue \in Seq(Events \cup {AppTask})
  /\ keepRunning \in BOOLEAN /\ poolUp \in BOOLEAN /\ cap \in Nat \ {0} /\ phase \in Phases
  /\ phase = "incallback" => active # <<>>
  /\ phase = "intask" => taskQueue # <<>>
  /\ frame # "none" =>
       phase \in {"incallback", "aborted"} /\ calls # <<>> /\ Head(calls) = "read"

RestPart ==
  /\ readCallback \in BOOLEAN /\ traffic \in Traffics
  /\ cause \in Causes /\ harm \subseteq Harms

\* While no event has been deleted too early: the poll has reported no other
\* event than the device's, a device in use has its event on its descriptor,
\* and epoll knows nothing else.
PortGood ==
  /\ phase # "aborted"
  /\ \A i \in 1 .. Len(active) : active[i] = event
  /\ state # "kNone" => event # NoEvent /\ fd # NoFd /\ reg.fd[event] = fd
  /\ state # "kRunning" => active = <<>> /\ \A f \in Fds : reg.kptr[f] = NoEvent
  /\ state = "kInited" => reg.index[event] = "kNew"
  /\ state = "kRunning" => reg.index[event] # "kNew"
  /\ \A f \in Fds : reg.kptr[f] # NoEvent =>
       /\ f = fd /\ reg.kptr[f] = event
       /\ reg.index[event] = "kAdded" /\ reg.kmask[f] = reg.events[event]

PortIInv == RegPart /\ LoopPart /\ RestPart /\ (cause = "none" => PortGood)

\* Such a state is sound.
LEMMA GoodIsSound ==
  ASSUME RegPart, LoopPart, PortGood
  PROVE  Sound
<1>1. ASSUME NEW i \in 1 .. Len(active) PROVE active[i] \in live
  <2>1. active[i] = event /\ active[i] \in Events
    BY DEF PortGood, LoopPart
  <2> QED BY <2>1, NoEventAssumption DEF RegPart
<1> QED BY <1>1 DEF Sound, NoUseAfterFree, PortGood

LEMMA PortInvIs ==
  PortIInv /\ RxInv /\ TxInv /\ LineInv => PortFaultsExplained /\ PortAgrees
<1> SUFFICES ASSUME PortIInv, RxInv, TxInv, LineInv PROVE PortFaultsExplained /\ PortAgrees
  OBVIOUS
<1>1. TypeOK
  BY NoEventAssumption DEF PortIInv, RegPart, LoopPart, TypeOK
<1>2. /\ readBuffer.data \in Seq(1 .. MaxArrived) /\ readBuffer.r = 0
      /\ readBuffer.w \in 0 .. Len(readBuffer.data)
  BY BufferFields DEF RxInv, Received
<1>3. /\ unread \in Seq(1 .. MaxArrived) /\ delivered \in Seq(1 .. MaxArrived)
      /\ arrived \in 0 .. MaxArrived /\ frame \in {"none", "reading", "received"} /\ hung \in BOOLEAN
  BY DEF RxInv, Received
<1>4. writeBuffer \in Seq(1 .. MaxSent) /\ wire \in Seq(0 .. MaxSent) /\ sent \in 0 .. MaxSent
  BY DEF TxInv
<1>5. line \subseteq LineBits /\ asked \in Settings
  BY DEF LineInv
<1>6. SerialTypeOK
  BY <1>1, <1>2, <1>3, <1>4, <1>5 DEF SerialTypeOK, PortIInv, RegPart, RestPart
<1>7. PortAgrees
  BY <1>6 DEF PortAgrees, PortIInv, PortGood
<1>8. PortFaultsExplained
  BY GoodIsSound DEF PortFaultsExplained, PortIInv
<1> QED BY <1>7, <1>8

LEMMA PortInitially ==
  SerialInit => PortIInv
<1> SUFFICES ASSUME SerialInit PROVE PortIInv
  OBVIOUS
<1> DEFINE g == [e \in Events |-> AnyFd]
<1>1. g \in [Events -> Fds]
  <2>1. PICK h \in [Events -> Fds] : TRUE
    BY DEF SerialInit, Init
  <2>2. ASSUME NEW e \in Events PROVE AnyFd \in Fds
    <3>1. h[e] \in Fds
      BY <2>1
    <3> QED BY <3>1 DEF AnyFd
  <2> QED BY <2>2
<1>2. reg = EmptyRegistry(g)
  BY DEF SerialInit
<1> HIDE DEF g
<1>3. reg \in Registry /\ \A f \in Fds : reg.kptr[f] = NoEvent
  BY <1>1, <1>2, EmptyRegistryInv DEF EmptyRegistry
<1>4. /\ live = {} /\ doomed = {} /\ active = <<>> /\ calls = <<>> /\ taskQueue = <<>>
      /\ revents = [e \in Events |-> {}] /\ locked = [e \in Events |-> FALSE]
      /\ phase = "idle" /\ keepRunning = TRUE /\ poolUp = FALSE /\ cap = InitialEntries
      /\ state = "kNone" /\ event = NoEvent /\ fd = NoFd /\ readCallback = FALSE
      /\ cause = "none" /\ harm = {} /\ traffic \in Traffics
  BY DEF SerialInit, Init
<1>5. RegPart
  BY <1>3, <1>4 DEF RegPart, States
<1>6. LoopPart
  <2>1. /\ [e \in Events |-> {}] \in [Events -> SUBSET Signals]
        /\ [e \in Events |-> FALSE] \in [Events -> BOOLEAN]
    OBVIOUS
  <2>2. <<>> \in Seq(Events) /\ <<>> \in Seq(Callbacks) /\ <<>> \in Seq(Events \cup {AppTask})
    OBVIOUS
  <2>3. revents \in [Events -> SUBSET Signals] /\ locked \in [Events -> BOOLEAN]
    BY <1>4, <2>1, Zenon
  <2>4. active \in Seq(Events) /\ calls \in Seq(Callbacks) /\ taskQueue \in Seq(Events \cup {AppTask})
    BY <1>4, <2>2, Zenon
  <2>5. doomed \subseteq Events /\ cap \in Nat \ {0}
    BY <1>4, ConstantsAssumption
  <2>6. phase \in Phases /\ keepRunning \in BOOLEAN /\ poolUp \in BOOLEAN
    BY <1>4 DEF Phases
  <2>7. phase # "incallback" /\ phase # "intask" /\ frame = "none"
    BY <1>4 DEF SerialInit
  <2> QED BY <2>3, <2>4, <2>5, <2>6, <2>7, Zenon DEF LoopPart
<1>7. RestPart
  BY <1>4 DEF RestPart, Causes
<1>8. PortGood
  BY <1>3, <1>4 DEF PortGood
<1> QED BY <1>5, <1>6, <1>7, <1>8 DEF PortIInv

\* The registry, the device and the fault are left alone.
LEMMA RegStays ==
  ASSUME RegPart, UNCHANGED <<reg, live, event, fd, state>>
  PROVE  RegPart'
BY DEF RegPart

LEMMA GoodStays ==
  ASSUME PortGood, UNCHANGED <<reg, event, fd, state, active>>, phase' # "aborted"
  PROVE  PortGood'
BY DEF PortGood

\* A step of the loop's thread that only moves it on.
LEMMA ThreadMoves ==
  ASSUME PortIInv, UNCHANGED <<reg, live, event, fd, state, active, cause>>,
         LoopPart', RestPart', phase' # "aborted"
  PROVE  PortIInv'
BY RegStays, GoodStays DEF PortIInv

\* An update of the device's event, whatever its mask becomes.
LEMMA UpdateKeepsReg ==
  ASSUME RegPart, event # NoEvent, NEW mask \in Masks, reg' = SetEvents(reg, event, mask),
         NEW x \in Events \cup {NoEvent}, event' = x, live' = {x} \ {NoEvent},
         fd' = fd, state' \in States
  PROVE  RegPart' /\ Updates(reg, event, mask, reg')
<1> DEFINE e == event
           s == reg'
<1>1. /\ e \in Events /\ reg \in Registry
      /\ \A f \in Fds : reg.kptr[f] # NoEvent => reg.fd[reg.kptr[f]] = f
  BY DEF RegPart
<1> HIDE DEF s, e
<1>2. Updates(reg, e, mask, s)
  BY <1>1, SetEventsUpdates DEF s, e
<1>3. s \in Registry /\ s.fd = reg.fd
  BY <1>2 DEF Updates
<1>4. ASSUME NEW f \in Fds, s.kptr[f] # NoEvent
      PROVE  s.fd[s.kptr[f]] = f
  <2>1. s.kptr[f] = reg.kptr[f] \/ (f = reg.fd[e] /\ s.kptr[f] = e)
    BY <1>1, <1>2, <1>4, RegistryFields DEF Updates
  <2> QED BY <1>1, <1>3, <1>4, <2>1
<1>5. RegPart'
  BY <1>3, <1>4 DEF RegPart, s
<1> QED BY <1>2, <1>5 DEF e, s

\* Of a device in use epoll then knows the event, with its new mask, or nothing.
LEMMA UpdateKeepsGood ==
  ASSUME RegPart, PortGood, state # "kNone", NEW mask \in Masks, Updates(reg, event, mask, reg'),
         UNCHANGED <<event, fd, active, phase>>, state' = "kRunning"
  PROVE  PortGood'
<1> DEFINE e == event
           s == reg'
<1>1. /\ e \in Events /\ fd \in Fds /\ reg.fd[e] = fd /\ reg \in Registry /\ s \in Registry
      /\ s.fd = reg.fd
  BY DEF RegPart, PortGood, Updates
<1>2. s.index[e] # "kNew" /\ s.events[e] = mask
  BY <1>1, RegistryFields DEF Updates
<1>3. ASSUME NEW f \in Fds, s.kptr[f] # NoEvent
      PROVE  f = fd /\ s.kptr[f] = e /\ s.index[e] = "kAdded" /\ s.kmask[f] = mask
  <2>1. CASE /\ s.kptr = reg.kptr /\ s.kmask = reg.kmask
             /\ ~(reg.index[e] = "kAdded" /\ mask = {})
             /\ (reg.index[e] = "kAdded" <=> reg.kptr[fd] = NoEvent)
    BY <1>1, <1>3, <2>1 DEF PortGood
  <2>2. CASE /\ s.kptr = [reg.kptr EXCEPT ![fd] =
                            IF reg.index[e] = "kAdded" /\ mask = {} THEN NoEvent ELSE e]
             /\ s.kmask = [reg.kmask EXCEPT ![fd] =
                            IF reg.index[e] = "kAdded" /\ mask = {} THEN {} ELSE mask]
    <3>1. f = fd
      <4>1. f # fd => reg.kptr[f] # NoEvent
        BY <1>1, <1>3, <2>2, RegistryFields
      <4> QED BY <4>1 DEF PortGood
    <3>2. s.kptr[f] = IF reg.index[e] = "kAdded" /\ mask = {} THEN NoEvent ELSE e
      BY <1>1, <2>2, <3>1, RegistryFields
    <3>3. ~(reg.index[e] = "kAdded" /\ mask = {})
      BY <1>3, <3>2
    <3>4. s.kmask[f] = mask
      BY <1>1, <2>2, <3>1, <3>3, RegistryFields
    <3>5. s.index[e] = "kAdded"
      BY <3>3 DEF Updates
    <3> QED BY <3>1, <3>2, <3>3, <3>4, <3>5
  <2> QED BY <1>1, <2>1, <2>2 DEF Updates
<1> HIDE DEF s, e
<1>4. /\ s.fd[e] = fd /\ e # NoEvent /\ fd # NoFd /\ phase # "aborted"
      /\ \A i \in 1 .. Len(active) : active[i] = e
  BY <1>1 DEF PortGood, e
<1>5. e = event /\ s = reg'
  BY DEF e, s
<1> QED BY <1>2, <1>3, <1>4, <1>5 DEF PortGood

\* A member of the event called while the device is in use: start(), stop() of
\* it, enabling and disabling it.
LEMMA MemberKeeps ==
  ASSUME PortIInv, Sound, NEW mask, event # NoEvent => mask \in Masks,
         OnEvent(SetEvents(reg, event, mask)), state # "kNone", state' = "kRunning",
         UNCHANGED <<live, event, fd, doomed, taskQueue, keepRunning, poolUp, active, calls,
                     locked, cap, revents, frame, cause>>, RestPart'
  PROVE  PortIInv'
<1>1. CASE event = NoEvent
  <2>1. phase' = "aborted" /\ reg' = reg
    BY <1>1 DEF OnEvent
  <2>2. RegPart'
    BY <2>1 DEF PortIInv, RegPart, States
  <2>3. LoopPart'
    BY <2>1 DEF PortIInv, LoopPart, Phases
  <2>4. cause # "none"
    BY <1>1 DEF PortIInv, PortGood
  <2> QED BY <2>2, <2>3, <2>4 DEF PortIInv
<1>2. CASE event # NoEvent
  <2>1. phase' = phase /\ reg' = SetEvents(reg, event, mask)
    BY <1>2 DEF OnEvent
  <2>2. /\ RegPart /\ event \in Events \cup {NoEvent} /\ live' = {event} \ {NoEvent}
        /\ state' \in States
    BY DEF PortIInv, RegPart, States
  <2>3. RegPart' /\ Updates(reg, event, mask, reg')
    <3>1. mask \in Masks /\ event' = event /\ fd' = fd
      BY <1>2
    <3> QED BY ONLY <1>2, <2>1, <2>2, <3>1, UpdateKeepsReg
  <2>4. LoopPart'
    BY <2>1 DEF PortIInv, LoopPart
  <2>5. cause = "none" => PortGood'
    <3> SUFFICES ASSUME cause = "none" PROVE PortGood'
      OBVIOUS
    <3>1. PortGood
      BY DEF PortIInv
    <3> QED BY <1>2, <2>1, <2>2, <2>3, <3>1, UpdateKeepsGood
  <2> QED BY <2>3, <2>4, <2>5 DEF PortIInv
<1> QED BY <1>1, <1>2

\* The masks that the members of the event leave.
LEMMA MaskOf ==
  ASSUME RegPart, event # NoEvent
  PROVE  /\ reg.events[event] \cup {"read"} \in Masks /\ reg.events[event] \cup {"write"} \in Masks
         /\ reg.events[event] \ {"write"} \in Masks /\ {} \in Masks
<1>1. reg.events[event] \in Masks
  BY RegistryFields DEF RegPart
<1> QED BY <1>1 DEF Masks

-----------------------------------------------------------------------------
(* Every step keeps that.                                                  *)

\* init() with a device in use.
LEMMA InitInUseKeeps ==
  ASSUME PortIInv, InitInUse
  PROVE  PortIInv'
<1>1. /\ live' = live \ {event} /\ event' = NoEvent /\ cause' = Fault("initInUse")
      /\ UNCHANGED <<reg, revents, phase, state, fd, readCallback, traffic, harm>>
      /\ UNCHANGED <<doomed, taskQueue, keepRunning, poolUp, active, calls, locked, cap, frame>>
  BY DEF InitInUse, AppFrame, LoopFrame
<1>2. cause' # "none" /\ cause' \in Causes
  BY <1>1 DEF Fault, Causes, PortIInv, RestPart
<1>3. RegPart'
  BY <1>1 DEF PortIInv, RegPart
<1>4. LoopPart'
  BY <1>1 DEF PortIInv, LoopPart
<1>5. RestPart'
  BY <1>1, <1>2 DEF PortIInv, RestPart
<1> QED BY <1>2, <1>3, <1>4, <1>5 DEF PortIInv

\* cleanup() alone: of a device that is not in use the event was never enabled.
LEMMA CleanUpKeeps ==
  ASSUME PortIInv, CleanUp
  PROVE  PortIInv'
<1>1. /\ live' = live \ {event} /\ event' = NoEvent
      /\ cause' = IF state = "kNone" THEN cause ELSE "cleanedUp"
      /\ UNCHANGED <<reg, revents, phase, state, fd, readCallback, traffic, harm>>
      /\ UNCHANGED <<doomed, taskQueue, keepRunning, poolUp, active, calls, locked, cap, frame>>
  BY DEF CleanUp, AppFrame, LoopFrame
<1>2. RegPart'
  BY <1>1 DEF PortIInv, RegPart
<1>3. LoopPart'
  BY <1>1 DEF PortIInv, LoopPart
<1>4. RestPart'
  BY <1>1 DEF PortIInv, RestPart, Causes
<1>5. cause' = "none" => PortGood'
  <2> SUFFICES ASSUME cause' = "none" PROVE PortGood'
    OBVIOUS
  <2>1. state = "kNone" /\ cause = "none"
    BY <1>1
  <2>2. PortGood
    BY <2>1 DEF PortIInv
  <2>3. active = <<>> /\ Len(<<>>) = 0 /\ \A f \in Fds : reg.kptr[f] = NoEvent
    BY <2>1, <2>2 DEF PortGood
  <2> QED BY <1>1, <2>1, <2>2, <2>3 DEF PortGood
<1> QED BY <1>2, <1>3, <1>4, <1>5 DEF PortIInv

\* A descriptor is closed: its entry goes.
LEMMA FdCloses ==
  ASSUME NEW r \in Registry, NEW p \in Fds \cup {NoFd}, NEW q, q = CloseFd(r, p)
  PROVE  /\ q \in Registry /\ q.fd = r.fd
         /\ \A f \in Fds : q.kptr[f] = IF f = p THEN NoEvent ELSE r.kptr[f]
<1>1. CASE p = NoFd
  BY <1>1, SerialAssumption DEF CloseFd
<1>2. CASE p # NoFd
  <2>1. q = Entry(r, p, NoEvent, {})
    BY <1>2 DEF CloseFd, Entry
  <2>2. p \in Fds /\ {} \in Masks
    BY <1>2 DEF Masks
  <2>3. Enters(r, p, NoEvent, {}, q)
    BY <2>1, <2>2, EntryFields
  <2>4. q \in Registry /\ q.fd = r.fd /\ q.kptr = [r.kptr EXCEPT ![p] = NoEvent]
    BY <2>3 DEF Enters
  <2> QED BY <2>2, <2>4, RegistryFields
<1> QED BY <1>1, <1>2

\* The end of the device: with its descriptor its event leaves epoll.
LEMMA DestroyDeviceKeeps ==
  ASSUME PortIInv, DestroyDevice
  PROVE  PortIInv'
<1>1. /\ cause = "none" /\ cause' = IF InSeq(event, active) THEN "deletedReported" ELSE cause
      /\ reg' = CloseFd(reg, fd) /\ live' = live \ {event} /\ event' = NoEvent
      /\ fd' = NoFd /\ state' = "kNone"
      /\ harm' \subseteq harm \cup {"reopened", "destroyed"}
      /\ UNCHANGED <<revents, phase, readCallback, traffic>>
      /\ UNCHANGED <<doomed, taskQueue, keepRunning, poolUp, active, calls, locked, cap, frame>>
  BY DEF DestroyDevice, LoopFrame
<1>2. PortGood /\ RegPart /\ LoopPart /\ RestPart
  BY <1>1 DEF PortIInv
<1>3. /\ reg' \in Registry /\ reg'.fd = reg.fd
      /\ \A f \in Fds : reg'.kptr[f] = IF f = fd THEN NoEvent ELSE reg.kptr[f]
  <2>1. reg \in Registry /\ fd \in Fds \cup {NoFd}
    BY <1>2 DEF RegPart
  <2> QED BY <1>1, <2>1, FdCloses
<1>4. \A f \in Fds : reg'.kptr[f] = NoEvent
  BY <1>2, <1>3 DEF PortGood
<1>5. RegPart'
  <2>1. live' = {}
    BY <1>1, <1>2 DEF RegPart
  <2> QED BY <1>1, <1>3, <1>4, <2>1 DEF RegPart, States
<1>6. LoopPart'
  BY <1>1, <1>2 DEF LoopPart
<1>7. RestPart'
  BY <1>1, <1>2 DEF RestPart, Causes, Harms
<1>8. cause' = "none" => PortGood'
  <2> SUFFICES ASSUME cause' = "none" PROVE PortGood'
    OBVIOUS
  <2>1. ~InSeq(event, active)
    BY <1>1
  <2>2. active = <<>>
    <3>1. active \in Seq(Events) /\ \A i \in 1 .. Len(active) : active[i] # event
      BY <1>2, <2>1 DEF LoopPart, InSeq
    <3>2. \A i \in 1 .. Len(active) : FALSE
      BY <1>2, <3>1 DEF PortGood
    <3> QED BY <3>1, <3>2, EmptySeq
  <2>3. phase' # "aborted" /\ active' = <<>> /\ Len(<<>>) = 0
    BY <1>1, <1>2, <2>2 DEF PortGood
  <2> QED BY <1>1, <1>4, <2>3 DEF PortGood
<1> QED BY <1>5, <1>6, <1>7, <1>8 DEF PortIInv

\* A registry without entries gets a new event.
LEMMA NewEvent ==
  ASSUME NEW r \in Registry, \A f \in Fds : r.kptr[f] = NoEvent, NEW p \in Fds \cup {NoFd},
         NEW e \in Events, NEW w \in Fds, NEW s, s = Construct(CloseFd(r, p), e, w)
  PROVE  /\ s \in Registry /\ s.fd[e] = w /\ s.index[e] = "kNew"
         /\ \A f \in Fds : s.kptr[f] = NoEvent
<1> DEFINE q == CloseFd(r, p)
<1> HIDE DEF q
<1>0. q = CloseFd(r, p)
  BY DEF q
<1>1. q \in Registry /\ \A f \in Fds : q.kptr[f] = NoEvent
  <2>1. q \in Registry /\ \A f \in Fds : q.kptr[f] = IF f = p THEN NoEvent ELSE r.kptr[f]
    BY <1>0, FdCloses
  <2> QED BY <2>1
<1> DEFINE x == [q.index EXCEPT ![e] = "kNew"]
           y == [q.events EXCEPT ![e] = {}]
           z == [q.fd EXCEPT ![e] = w]
<1>2. s = [q EXCEPT !.index = x, !.events = y, !.fd = z]
  BY <1>1, RegistryFields DEF Construct, q
<1>3. /\ x \in [Events -> Indexes] /\ y \in [Events -> Masks] /\ z \in [Events -> Fds]
      /\ x[e] = "kNew" /\ z[e] = w
  BY <1>1, RegistryFields DEF Indexes, Masks
<1> HIDE DEF x, y, z
<1>4. s \in Registry /\ s.index = x /\ s.fd = z /\ s.kptr = q.kptr
  BY <1>1, <1>2, <1>3, RegistryFields DEF Registry
<1> QED BY <1>1, <1>3, <1>4

LEMMA InitDeviceKeeps ==
  ASSUME PortIInv, InitDevice
  PROVE  PortIInv'
<1>1. PICK e \in Events, f \in Fds \cup {NoFd}, set \in BOOLEAN :
        /\ set => f # NoFd
        /\ reg' = Construct(CloseFd(reg, fd), e, Watched(f))
        /\ live' = (live \ {event}) \cup {e}
        /\ revents' = [revents EXCEPT ![e] = {}]
        /\ event' = e /\ fd' = f
        /\ state' = IF set THEN "kInited" ELSE "kNone"
  BY DEF InitDevice
<1>2. /\ state = "kNone" /\ cause = "none" /\ readCallback' = FALSE
      /\ harm' = IF unread = <<>> THEN harm ELSE harm \cup {"reopened"}
      /\ UNCHANGED <<phase, traffic, cause>>
      /\ UNCHANGED <<doomed, taskQueue, keepRunning, poolUp, active, calls, locked, cap, frame>>
  BY DEF InitDevice, AppFrame, LoopFrame
<1>3. PortGood /\ RegPart /\ LoopPart /\ RestPart
  BY <1>2 DEF PortIInv
<1>4. active = <<>> /\ \A h \in Fds : reg.kptr[h] = NoEvent
  BY <1>2, <1>3 DEF PortGood
<1>5. Watched(f) \in Fds /\ (f # NoFd => Watched(f) = f)
  <2>1. reg.fd[e] \in Fds
    BY <1>3, RegistryFields DEF RegPart
  <2>2. AnyFd \in Fds
    BY <2>1 DEF AnyFd
  <2> QED BY <2>2 DEF Watched
<1> DEFINE w == Watched(f)
<1> HIDE DEF w
<1>6. /\ reg' \in Registry /\ reg'.fd[e] = w /\ reg'.index[e] = "kNew"
      /\ \A h \in Fds : reg'.kptr[h] = NoEvent
  <2>1. reg \in Registry /\ fd \in Fds \cup {NoFd} /\ w \in Fds
    BY <1>3, <1>5 DEF RegPart, w
  <2>2. reg' = Construct(CloseFd(reg, fd), e, w)
    BY <1>1 DEF w
  <2> QED BY ONLY <1>4, <2>1, <2>2, e \in Events, NewEvent
<1>7. RegPart'
  <2>1. live' = {e} \ {NoEvent}
    BY <1>1, <1>3, NoEventAssumption DEF RegPart
  <2> QED BY <1>1, <1>6, <2>1 DEF RegPart, States
<1>8. LoopPart'
  <2>1. revents' \in [Events -> SUBSET Signals]
    BY <1>1, <1>3 DEF LoopPart
  <2> QED BY <1>2, <1>3, <2>1 DEF LoopPart
<1>9. RestPart'
  BY <1>2, <1>3 DEF RestPart, Harms
<1>10. PortGood'
  <2>1. phase' # "aborted" /\ active' = <<>>
    BY <1>2, <1>3, <1>4 DEF PortGood
  <2>2. state' # "kNone" => event' # NoEvent /\ fd' # NoFd /\ reg'.fd[event'] = fd'
    <3> SUFFICES ASSUME state' # "kNone" PROVE event' # NoEvent /\ fd' # NoFd /\ reg'.fd[event'] = fd'
      OBVIOUS
    <3>1. set
      BY <1>1
    <3> QED BY <1>1, <1>5, <1>6, <3>1, NoEventAssumption DEF w
  <2>3. state' # "kRunning"
    BY <1>1
  <2> QED BY <1>1, <1>6, <2>1, <2>2, <2>3 DEF PortGood
<1> QED BY <1>7, <1>8, <1>9, <1>10 DEF PortIInv

LEMMA StartDeviceKeeps ==
  ASSUME PortIInv, Sound, StartDevice
  PROVE  PortIInv'
<1> DEFINE mask == reg.events[event] \cup {"read"}
<1>1. /\ state = "kInited" /\ state' = "kRunning" /\ OnEvent(SetEvents(reg, event, mask))
      /\ UNCHANGED <<live, revents, event, fd, readCallback, traffic, cause, harm>>
      /\ UNCHANGED <<doomed, taskQueue, keepRunning, poolUp, active, calls, locked, cap, frame>>
  BY DEF StartDevice, AppFrame, LoopFrame, EnableReading
<1>2. event # NoEvent => mask \in Masks
  BY MaskOf DEF PortIInv
<1>3. RestPart'
  BY <1>1 DEF PortIInv, RestPart
<1> HIDE DEF mask
<1> QED BY <1>1, <1>2, <1>3, MemberKeeps

LEMMA StopDeviceKeeps ==
  ASSUME PortIInv, Sound, StopDevice
  PROVE  PortIInv'
<1>1. /\ state = "kRunning" /\ OnEvent(SetEvents(reg, event, {})) /\ harm' = Stranded
      /\ UNCHANGED <<live, revents, portVars, cause>>
      /\ UNCHANGED <<doomed, taskQueue, keepRunning, poolUp, active, calls, locked, cap, frame>>
  BY DEF StopDevice, AppFrame, LoopFrame, DisableAll
<1>2. {} \in Masks
  BY DEF Masks
<1>3. RestPart'
  BY <1>1 DEF PortIInv, RestPart, portVars, Stranded, Harms
<1>4. UNCHANGED <<event, fd, state>>
  BY <1>1 DEF portVars
<1> QED BY <1>1, <1>2, <1>3, <1>4, MemberKeeps

LEMMA SendKeepsPort ==
  ASSUME PortIInv, Sound, NEW k \in 1 .. MaxSent, Send(k)
  PROVE  PortIInv'
<1> DEFINE mask == reg.events[event] \cup {"write"}
<1>1. /\ state = "kRunning" /\ UNCHANGED <<live, revents, portVars, cause>>
      /\ UNCHANGED <<doomed, taskQueue, keepRunning, poolUp, active, calls, locked, cap, frame>>
      /\ harm' \in {harm, harm \cup {"shortWrite"}}
  BY DEF Send, AppFrame, LoopFrame
<1>2. UNCHANGED <<reg, phase>> \/ OnEvent(SetEvents(reg, event, mask))
  <2>1. UNCHANGED <<reg, phase>> \/ OnEvent(Armed(reg))
    BY DEF Send
  <2> QED BY <2>1 DEF Armed, EnableWriting
<1>3. RestPart'
  BY <1>1 DEF PortIInv, RestPart, portVars, Harms
<1>4. UNCHANGED <<event, fd, state>>
  BY <1>1 DEF portVars
<1>5. CASE UNCHANGED <<reg, phase>>
  <2>1. LoopPart' /\ phase' # "aborted"
    BY <1>1, <1>5 DEF PortIInv, LoopPart, Sound
  <2> QED BY <1>1, <1>3, <1>4, <1>5, <2>1, ThreadMoves
<1>6. CASE OnEvent(SetEvents(reg, event, mask))
  <2>1. event # NoEvent => mask \in Masks
    BY MaskOf DEF PortIInv
  <2> HIDE DEF mask
  <2> QED BY <1>1, <1>3, <1>4, <1>6, <2>1, MemberKeeps
<1> QED BY <1>2, <1>5, <1>6

\* close(): an event that is neither reported nor stopped before is out of
\* epoll when it is deleted.
LEMMA CloseDeviceKeeps ==
  ASSUME PortIInv, Sound, CloseDevice
  PROVE  PortIInv'
<1>1. /\ UNCHANGED <<revents, fd, readCallback, traffic>> /\ harm' = Stranded
      /\ UNCHANGED <<doomed, taskQueue, keepRunning, poolUp, active, calls, locked, cap, frame>>
  BY DEF CloseDevice, AppFrame, LoopFrame
<1>2. RegPart /\ LoopPart /\ RestPart /\ (cause = "none" => PortGood)
  BY DEF PortIInv
<1>3. harm' \subseteq Harms
  BY <1>1, <1>2 DEF Stranded, RestPart, Harms
<1>4. CASE state = "kRunning" /\ event = NoEvent
  <2>1. phase' = "aborted" /\ UNCHANGED <<reg, live, event, state, cause>>
    BY <1>4 DEF CloseDevice, OnEvent
  <2>2. RegPart' /\ LoopPart' /\ RestPart'
    BY <1>1, <1>2, <1>3, <2>1 DEF RegPart, LoopPart, RestPart, Phases
  <2>3. cause # "none"
    BY <1>2, <1>4 DEF PortGood
  <2> QED BY <2>1, <2>2, <2>3 DEF PortIInv
<1>5. CASE ~(state = "kRunning" /\ event = NoEvent)
  <2>1. /\ reg' = Closing(reg) /\ live' = live \ {event} /\ event' = NoEvent
        /\ state' = "kNone" /\ phase' = phase
        /\ cause' = CASE StoppedBefore          -> Fault("closedStopped")
                      [] InSeq(event, active) -> Fault("deletedReported")
                      [] OTHER                -> cause
    BY <1>5 DEF CloseDevice, Closed
  <2>2. /\ cause' \in Causes
        /\ cause' = "none" => cause = "none" /\ ~StoppedBefore /\ ~InSeq(event, active)
    <3>1. CASE StoppedBefore
      BY <1>2, <2>1, <3>1 DEF Fault, RestPart, Causes
    <3>2. CASE ~StoppedBefore /\ InSeq(event, active)
      BY <1>2, <2>1, <3>2 DEF Fault, RestPart, Causes
    <3>3. CASE ~StoppedBefore /\ ~InSeq(event, active)
      BY <1>2, <2>1, <3>3 DEF RestPart
    <3> QED BY <3>1, <3>2, <3>3
  <2>3. RestPart'
    BY <1>1, <1>2, <1>3, <2>2 DEF RestPart
  <2>4. LoopPart'
    BY <1>1, <1>2, <2>1 DEF LoopPart
  <2>5. live' = {} /\ {} = {NoEvent} \ {NoEvent}
    BY <1>2, <2>1 DEF RegPart
  <2>6. CASE state = "kRunning"
    <3>1. event # NoEvent /\ {} \in Masks /\ reg' = SetEvents(reg, event, {})
      BY <1>5, <2>1, <2>6 DEF Closing, DisableAll, Masks
    <3>2. RegPart' /\ Updates(reg, event, {}, reg')
      <4>1. "kNone" \in States
        BY DEF States
      <4> QED BY <1>1, <1>2, <2>1, <2>5, <3>1, <4>1, UpdateKeepsReg
    <3>3. ASSUME cause' = "none" PROVE PortGood'
      <4>1. PortGood /\ ~InSeq(event, active) /\ reg.index[event] # "kDeleted"
        BY <1>2, <2>2, <2>6, <3>1, <3>3 DEF StoppedBefore
      <4>2. active = <<>>
        <5>1. active \in Seq(Events) /\ \A i \in 1 .. Len(active) : active[i] # event
          BY <1>2, <4>1 DEF LoopPart, InSeq
        <5>2. \A i \in 1 .. Len(active) : FALSE
          BY <4>1, <5>1 DEF PortGood
        <5> QED BY <5>1, <5>2, EmptySeq
      <4>3. reg.index[event] = "kAdded" /\ reg.fd[event] = fd /\ fd \in Fds
        <5>1. event \in Events /\ reg.index[event] \in Indexes
          BY <1>2, <3>1, RegistryFields DEF RegPart
        <5> QED BY <1>2, <2>6, <4>1, <5>1 DEF PortGood, Indexes, RegPart
      <4>4. reg'.kptr = [reg.kptr EXCEPT ![fd] = NoEvent]
        BY <3>2, <4>3 DEF Updates
      <4>5. \A f \in Fds : f # fd => reg.kptr[f] = NoEvent
        BY <4>1 DEF PortGood
      <4>6. \A f \in Fds : reg'.kptr[f] = NoEvent
        BY <1>2, <4>3, <4>4, <4>5, RegistryFields DEF RegPart
      <4>7. phase' # "aborted" /\ active' = <<>> /\ Len(<<>>) = 0
        BY <1>1, <2>1, <4>1, <4>2 DEF PortGood
      <4> QED BY <2>1, <4>6, <4>7 DEF PortGood
    <3> QED BY <2>3, <2>4, <3>2, <3>3 DEF PortIInv
  <2>7. CASE state # "kRunning"
    <3>1. reg' = reg
      BY <2>1, <2>7 DEF Closing
    <3>2. RegPart'
      BY <1>1, <1>2, <2>1, <2>5, <3>1 DEF RegPart, States
    <3>3. ASSUME cause' = "none" PROVE PortGood'
      <4>1. PortGood
        BY <1>2, <2>2, <3>3
      <4>2. active = <<>> /\ \A f \in Fds : reg.kptr[f] = NoEvent
        BY <2>7, <4>1 DEF PortGood
      <4>3. phase' # "aborted" /\ active' = <<>> /\ Len(<<>>) = 0
        BY <1>1, <2>1, <4>1, <4>2 DEF PortGood
      <4> QED BY <2>1, <3>1, <4>2, <4>3 DEF PortGood
    <3> QED BY <2>3, <2>4, <3>2, <3>3 DEF PortIInv
  <2> QED BY <2>6, <2>7
<1> QED BY <1>4, <1>5

\* Callbacks that leave the event alone.
LEMMA CallbackKeeps ==
  ASSUME PortIInv, Sound, ReadFirst \/ ReadAgain \/ ReadDone \/ AppReturns \/ Pass
  PROVE  PortIInv'
<1>1. /\ UNCHANGED <<live, doomed, taskQueue, keepRunning, poolUp, phase, active, revents, locked,
                     cap, portVars, cause, reg>>
      /\ harm' \in {harm, harm \cup {"readAgain"}}
  BY DEF ReadFirst, ReadAgain, ReadDone, AppReturns, Pass, CallbackFrame
<1>2. RegPart /\ LoopPart /\ RestPart
  BY DEF PortIInv
<1>3. RestPart'
  BY <1>1, <1>2 DEF RestPart, Harms, portVars
<1>4. /\ calls' \in Seq(Callbacks)
      /\ frame' # "none" =>
           phase \in {"incallback", "aborted"} /\ calls' # <<>> /\ Head(calls') = "read"
  <2>1. CASE ReadFirst
    BY <1>2, <2>1 DEF ReadFirst, Runs, LoopPart
  <2>2. CASE ReadAgain \/ ReadDone
    BY <1>2, <2>2 DEF ReadAgain, ReadDone, LoopPart
  <2>3. CASE AppReturns
    <3>1. calls # <<>> /\ calls' = Tail(calls) /\ frame' = "none"
      BY <1>2, <2>3 DEF AppReturns, LoopPart
    <3> QED BY <1>2, <3>1, HeadTailProperties DEF LoopPart
  <2>4. CASE Pass
    <3>1. calls # <<>> /\ calls' = Tail(calls) /\ frame' = frame
      BY <2>4 DEF Pass, Runs
    <3>2. frame = "none"
      BY <1>2, <2>4 DEF Pass, Runs, LoopPart
    <3> QED BY <1>2, <3>1, <3>2, HeadTailProperties DEF LoopPart
  <2> QED BY <2>1, <2>2, <2>3, <2>4
<1>5. LoopPart'
  BY <1>1, <1>2, <1>4 DEF LoopPart
<1>6. UNCHANGED <<event, fd, state>> /\ phase' # "aborted"
  BY <1>1 DEF portVars, Sound
<1> QED BY <1>1, <1>3, <1>5, <1>6, ThreadMoves

\* The write callback disables writing through an event that exists.
LEMMA WriteCallbackKeeps ==
  ASSUME PortIInv, Sound, WriteCallback
  PROVE  PortIInv'
<1>1. /\ UNCHANGED <<live, doomed, taskQueue, keepRunning, poolUp, phase, active, revents, locked,
                     cap, portVars, cause, frame>>
      /\ harm' \in {harm, harm \cup {"flush"}}
      /\ phase = "incallback" /\ calls # <<>> /\ Head(calls) = "write" /\ calls' = Tail(calls)
  BY DEF WriteCallback, CallbackFrame, Runs, txVars
<1>2. RegPart /\ LoopPart /\ RestPart
  BY DEF PortIInv
<1>3. RestPart'
  BY <1>1, <1>2 DEF RestPart, Harms, portVars
<1>4. LoopPart'
  <2>1. frame = "none"
    BY <1>1, <1>2 DEF LoopPart
  <2>2. calls' \in Seq(Callbacks)
    BY <1>1, <1>2, HeadTailProperties DEF LoopPart
  <2> QED BY <1>1, <1>2, <2>1, <2>2 DEF LoopPart
<1>5. UNCHANGED <<event, fd, state>> /\ phase' # "aborted"
  BY <1>1 DEF portVars, Sound
<1>6. CASE reg' = reg
  BY <1>1, <1>3, <1>4, <1>5, <1>6, ThreadMoves
<1>7. CASE reg' # reg
  <2> DEFINE mask == reg.events[event] \ {"write"}
  <2>1. reg' = SetEvents(reg, event, mask)
    BY <1>7 DEF WriteCallback, DisableWriting
  <2>2. event # NoEvent /\ active # <<>>
    <3>1. active # <<>> /\ active \in Seq(Events)
      BY <1>1, <1>2 DEF LoopPart
    <3>2. 1 \in 1 .. Len(active)
      BY <3>1, EmptySeq
    <3>3. active[1] \in live
      BY <3>2 DEF Sound, NoUseAfterFree
    <3> QED BY <1>2, <3>1, <3>3 DEF RegPart
  <2>3. mask \in Masks
    BY <1>2, <2>2, MaskOf
  <2> HIDE DEF mask
  <2>4. RegPart' /\ Updates(reg, event, mask, reg')
    <3>1. /\ event \in Events \cup {NoEvent} /\ event' = event /\ live' = {event} \ {NoEvent}
          /\ fd' = fd /\ state' \in States
      BY <1>1, <1>2, <1>5 DEF RegPart
    <3> QED BY ONLY <1>2, <2>1, <2>2, <2>3, <3>1, UpdateKeepsReg
  <2>5. cause = "none" => PortGood'
    <3> SUFFICES ASSUME cause = "none" PROVE PortGood'
      OBVIOUS
    <3>1. PortGood
      BY DEF PortIInv
    <3>2. state = "kRunning"
      BY <2>2, <3>1 DEF PortGood
    <3> QED BY <1>1, <1>2, <1>5, <2>3, <2>4, <3>1, <3>2, UpdateKeepsGood
  <2> QED BY <1>1, <1>3, <1>4, <2>4, <2>5 DEF PortIInv
<1> QED BY <1>6, <1>7

\* The loop's own steps between callbacks.
LEMMA LoopOnlyKeeps ==
  ASSUME PortIInv, Sound, LoopOnly
  PROVE  PortIInv'
<1>1. UNCHANGED <<portVars, rxVars, txVars, cause, harm>>
  BY DEF LoopOnly
<1>2. /\ RegPart /\ LoopPart /\ RestPart /\ phase # "aborted"
      /\ UNCHANGED <<event, fd, state, frame>>
  BY <1>1 DEF PortIInv, Sound, portVars, rxVars
<1>3. RestPart'
  BY <1>1, <1>2 DEF RestPart, portVars
<1>4. CASE NoTask \/ StartTask \/ EndIteration
  <2>1. /\ UNCHANGED <<reg, live, doomed, taskQueue, keepRunning, poolUp, loopVars>>
        /\ phase \in {"task", "handle"} /\ phase' \in {"handle", "intask", "poll", "idle"}
        /\ phase' = "intask" => taskQueue # <<>>
    BY <1>4 DEF NoTask, StartTask, EndIteration
  <2>2. frame = "none" /\ phase' \in Phases /\ phase' # "incallback" /\ phase' # "aborted"
    BY <1>2, <2>1 DEF LoopPart, Phases
  <2>3. LoopPart'
    BY <1>2, <2>1, <2>2 DEF LoopPart, loopVars
  <2> QED BY <1>1, <1>2, <1>3, <2>1, <2>2, <2>3, ThreadMoves DEF loopVars
<1>5. CASE TaskReturns
  <2>1. /\ UNCHANGED <<reg, live, doomed, keepRunning, poolUp, loopVars>>
        /\ phase = "intask" /\ phase' = "handle" /\ taskQueue' = Tail(taskQueue)
    BY <1>5 DEF TaskReturns
  <2>2. taskQueue' \in Seq(Events \cup {AppTask}) /\ frame = "none"
    BY <1>2, <2>1, HeadTailProperties DEF LoopPart
  <2>3. LoopPart'
    BY <1>2, <2>1, <2>2 DEF LoopPart, loopVars, Phases
  <2> QED BY <1>1, <1>2, <1>3, <2>1, <2>3, ThreadMoves DEF loopVars
<1>6. CASE HandleEvent
  <2>1. /\ UNCHANGED <<reg, live, doomed, taskQueue, keepRunning, poolUp, active, revents, locked, cap>>
        /\ phase = "handle" /\ phase' = "incallback" /\ active # <<>>
        /\ calls' = Calls(revents[Head(active)])
    BY <1>6 DEF HandleEvent
  <2>2. calls' \in Seq(Callbacks) /\ frame = "none"
    BY <1>2, <2>1, CallsType DEF LoopPart
  <2>3. LoopPart'
    BY <1>2, <2>1, <2>2 DEF LoopPart, Phases
  <2> QED BY <1>1, <1>2, <1>3, <2>1, <2>3, ThreadMoves
<1>7. CASE calls = <<>> /\ EventHandled
  <2>1. /\ phase = "incallback" /\ phase' = "handle" /\ active' = Tail(active) /\ calls' = <<>>
        /\ UNCHANGED <<live, doomed, taskQueue, keepRunning, poolUp, revents, cap>>
    BY <1>7 DEF EventHandled
  <2>2. active # <<>> /\ active \in Seq(Events) /\ frame = "none"
    BY <1>2, <1>7, <2>1 DEF LoopPart
  <2>3. UNCHANGED <<locked, reg>>
    BY <1>7, SerialAssumption DEF EventHandled
  <2>4. /\ active' \in Seq(Events)
        /\ \A i \in 1 .. Len(active') : i + 1 \in 1 .. Len(active) /\ active'[i] = active[i + 1]
    BY <2>1, <2>2, TailElements
  <2>5. LoopPart'
    BY <1>2, <2>1, <2>2, <2>3, <2>4, EmptySeq DEF LoopPart, Phases
  <2>6. RegPart'
    BY <1>2, <2>1, <2>3, RegStays
  <2>7. PortGood => PortGood'
    <3> SUFFICES ASSUME PortGood PROVE PortGood'
      OBVIOUS
    <3>1. state = "kRunning"
      BY <1>2, <2>2 DEF PortGood, RegPart, States
    <3>2. \A i \in 1 .. Len(active') : active'[i] = event
      BY <2>4 DEF PortGood
    <3> QED BY <1>2, <2>1, <2>3, <3>1, <3>2 DEF PortGood
  <2> QED BY <1>1, <1>3, <2>5, <2>6, <2>7 DEF PortIInv
<1> QED BY <1>4, <1>5, <1>6, <1>7 DEF LoopOnly

LEMMA SigIn ==
  ASSUME NEW f \in Fds
  PROVE  Sig(f) \in SUBSET Signals
<1>1. Raw \subseteq {"IN", "OUT", "HUP"}
  BY DEF Raw
<1> QED BY <1>1, SerialAssumption DEF Sig

\* The poll reports what epoll knows: the device's event, or nothing.
LEMMA SerialPollKeeps ==
  ASSUME PortIInv, Sound, SerialPoll
  PROVE  PortIInv'
<1> DEFINE sig == [f \in Ready |-> Sig(f)]
           n == Cardinality(Ready)
<1>1. /\ phase = "poll" /\ UNCHANGED <<portVars, rxVars, txVars, cause, harm>>
      /\ Report(Ready, sig)
  BY DEF SerialPoll
<1>2. PICK order \in Orders(Ready) : active' = [i \in DOMAIN order |-> reg.kptr[order[i]]]
  BY <1>1 DEF Report
<1>3. /\ revents' = [e \in Events |->
            IF \E f \in Ready : reg.kptr[f] = e THEN sig[reg.fd[e]] ELSE revents[e]]
      /\ Grow(n) /\ phase' = "task"
      /\ UNCHANGED <<reg, live, doomed, taskQueue, keepRunning, poolUp, calls, locked>>
  BY <1>1 DEF Report
<1>4. RegPart /\ LoopPart /\ RestPart /\ UNCHANGED <<event, fd, state, frame>>
  BY <1>1 DEF PortIInv, portVars, rxVars
<1>5. n \in Nat
  <2>1. Ready \subseteq Fds
    BY DEF Ready, Registered
  <2>2. IsFiniteSet(Ready)
    BY <2>1, ConstantsAssumption, FS_Subset
  <2> QED BY <2>2, FS_CardinalityType
<1>6. order \in [1..n -> Ready] /\ active' = [i \in 1..n |-> reg.kptr[order[i]]]
  BY <1>2 DEF Orders
<1> HIDE DEF n
<1>7. \A f \in Ready : /\ f \in Fds /\ reg.kptr[f] # NoEvent
                       /\ reg.kptr[f] \in Events /\ reg.fd[reg.kptr[f]] = f
  BY <1>4, RegistryFields DEF RegPart, Ready, Registered
<1>8. /\ active' \in Seq(Events) /\ Len(active') = n
      /\ \A i \in 1..n : order[i] \in Ready /\ active'[i] = reg.kptr[order[i]]
  BY <1>5, <1>6, <1>7
<1>9. revents' \in [Events -> SUBSET Signals]
  <2>1. ASSUME NEW e \in Events PROVE revents'[e] \in SUBSET Signals
    <3>1. CASE \E f \in Ready : reg.kptr[f] = e
      <4>1. PICK f \in Ready : reg.kptr[f] = e
        BY <3>1
      <4>2. reg.fd[e] = f /\ f \in Fds
        BY <1>7, <4>1
      <4>3. revents'[e] = sig[f]
        BY <1>3, <4>1, <4>2
      <4>4. sig[f] = Sig(f)
        OBVIOUS
      <4> HIDE DEF sig
      <4> QED BY <4>2, <4>3, <4>4, SigIn
    <3>2. CASE ~\E f \in Ready : reg.kptr[f] = e
      <4>1. revents'[e] = revents[e]
        BY <1>3, <3>2
      <4> QED BY <1>4, <4>1 DEF LoopPart
    <3> QED BY <3>1, <3>2
  <2>2. DOMAIN revents' = Events /\ revents' = [e \in DOMAIN revents' |-> revents'[e]]
    BY <1>3
  <2> HIDE DEF sig
  <2> QED BY <2>1, <2>2
<1> HIDE DEF sig
<1>10. LoopPart'
  <2>1. cap' \in Nat \ {0}
    BY <1>3, <1>4, <1>5 DEF Grow, LoopPart
  <2>2. frame = "none"
    BY <1>1, <1>4 DEF LoopPart
  <2> QED BY <1>3, <1>4, <1>8, <1>9, <2>1, <2>2 DEF LoopPart, Phases
<1>11. RegPart' /\ RestPart'
  <2>1. RestPart'
    BY <1>1, <1>4 DEF RestPart, portVars
  <2> QED BY <1>3, <1>4, <2>1, RegStays
<1>12. PortGood => PortGood'
  <2> SUFFICES ASSUME PortGood PROVE PortGood'
    OBVIOUS
  <2>1. \A f \in Ready : reg.kptr[f] = event
    BY <1>7 DEF PortGood
  <2>2. \A i \in 1 .. Len(active') : active'[i] = event
    BY <1>8, <2>1
  <2>3. state # "kRunning" => active' = <<>>
    <3> SUFFICES ASSUME state # "kRunning" PROVE active' = <<>>
      OBVIOUS
    <3>1. \A f \in Fds : reg.kptr[f] = NoEvent
      BY DEF PortGood
    <3>2. \A i \in 1..n : FALSE
      BY <1>7, <1>8, <3>1
    <3>3. n = 0
      BY <1>5, <3>2
    <3> QED BY <1>8, <3>3, EmptySeq
  <2> QED BY <1>3, <1>4, <2>2, <2>3 DEF PortGood
<1> QED BY <1>1, <1>10, <1>11, <1>12 DEF PortIInv

LEMMA PortStep ==
  ASSUME PortIInv, [SerialNext]_serialVars
  PROVE  PortIInv'
<1>1. CASE UNCHANGED <<vars, portVars, frame, cause, harm>>
  <2>1. UNCHANGED <<reg, live, event, fd, state, active, cause, phase>>
    BY <1>1 DEF vars, loopVars, portVars
  <2>2. LoopPart' /\ RestPart'
    BY <1>1 DEF PortIInv, LoopPart, RestPart, vars, loopVars, portVars
  <2>3. RegPart' /\ (PortGood => PortGood')
    BY <2>1, RegStays, GoodStays DEF PortIInv, PortGood
  <2> QED BY <2>1, <2>2, <2>3 DEF PortIInv
<1>2. CASE UNCHANGED serialVars
  BY <1>1, <1>2 DEF serialVars, rxVars
<1>3. CASE Arrive \/ HangUp
  BY <1>1, <1>3 DEF Arrive, HangUp
<1>4. CASE Sound /\ DeviceStep
  BY <1>4, SerialPollKeeps, LoopOnlyKeeps, CallbackKeeps, WriteCallbackKeeps DEF DeviceStep
<1>5. CASE Sound /\ SetReadCallback
  <2>1. /\ UNCHANGED <<reg, live, revents, phase, state, event, fd, traffic, cause, harm>>
        /\ UNCHANGED <<doomed, taskQueue, keepRunning, poolUp, active, calls, locked, cap, frame>>
        /\ readCallback' = TRUE
    BY <1>5 DEF SetReadCallback, AppFrame, LoopFrame
  <2>2. LoopPart' /\ RestPart' /\ phase' # "aborted"
    BY <1>5, <2>1 DEF PortIInv, LoopPart, RestPart, Sound
  <2> QED BY <2>1, <2>2, ThreadMoves
<1>6. CASE Sound /\ (\/ InitInUse \/ InitDevice \/ CleanUp \/ DestroyDevice
                    \/ StartDevice \/ StopDevice \/ CloseDevice)
  BY <1>6, InitInUseKeeps, InitDeviceKeeps, CleanUpKeeps, DestroyDeviceKeeps, StartDeviceKeeps,
     StopDeviceKeeps, CloseDeviceKeeps
<1>7. CASE Sound /\ \E k \in 1 .. MaxSent : Send(k)
  BY <1>7, SendKeepsPort
<1>8. CASE Sound /\ LoopCall
  <2>1. /\ UNCHANGED <<reg, live, doomed, keepRunning, poolUp, phase, loopVars>>
        /\ UNCHANGED <<portVars, rxVars, cause, harm>>
        /\ taskQueue' = Append(taskQueue, AppTask)
    BY <1>8 DEF LoopCall, PostTask, Post
  <2>2. taskQueue' \in Seq(Events \cup {AppTask}) /\ taskQueue' # <<>>
    <3>1. taskQueue \in Seq(Events \cup {AppTask}) /\ AppTask \in Events \cup {AppTask}
      BY DEF PortIInv, LoopPart
    <3> QED BY <2>1, <3>1, AppendProperties
  <2>3. LoopPart' /\ RestPart' /\ phase' # "aborted"
    BY <1>8, <2>1, <2>2 DEF PortIInv, LoopPart, RestPart, Sound, loopVars, portVars, rxVars
  <2>4. UNCHANGED <<event, fd, state, active>>
    BY <2>1 DEF loopVars, portVars
  <2> QED BY <2>1, <2>3, <2>4, ThreadMoves
<1>9. CASE Sound /\ RunLoop /\ ~poolUp /\ keepRunning' /\ UNCHANGED <<portVars, rxVars, txVars, cause, harm>>
  <2>1. /\ UNCHANGED <<reg, live, doomed, taskQueue, loopVars>> /\ keepRunning' \in BOOLEAN
        /\ poolUp' = TRUE /\ phase = "idle" /\ phase' = "poll"
        /\ UNCHANGED <<portVars, rxVars, cause, harm>>
    BY <1>9 DEF RunLoop
  <2>2. LoopPart' /\ RestPart'
    BY <2>1 DEF PortIInv, LoopPart, RestPart, Phases, loopVars, portVars, rxVars
  <2>3. UNCHANGED <<event, fd, state, active>>
    BY <2>1 DEF loopVars, portVars
  <2> QED BY <2>1, <2>2, <2>3, ThreadMoves
<1> QED BY <1>2, <1>3, <1>4, <1>5, <1>6, <1>7, <1>8, <1>9 DEF SerialNext, AppCalls

SerialIInv == PortIInv /\ RxInv /\ TxInv /\ LineInv

LEMMA SerialSpecIInv ==
  SerialSpec => []SerialIInv
<1>1. SerialInit => SerialIInv
  BY PortInitially, RxInitially, TxInitially, LineInitially DEF SerialIInv
<1>2. SerialIInv /\ [SerialNext]_serialVars => SerialIInv'
  <2>1. SerialIInv /\ phase = "intask" => frame = "none"
    BY DEF SerialIInv, PortIInv, LoopPart
  <2> QED BY <2>1, PortStep, RxStep, TxStep, LineStep DEF SerialIInv
<1> QED BY <1>1, <1>2, PTL DEF SerialSpec

\* Without a fault of four known kinds epoll knows no event but the device's,
\* on the descriptor it has and with the mask it wants (SerialDevice.cpp:37-92).
THEOREM PortAgreesHolds ==
  SerialSpec => []PortAgrees
<1>1. SerialIInv => PortAgrees
  BY PortInvIs DEF SerialIInv
<1> QED BY <1>1, SerialSpecIInv, PTL

\* The loop meets a deleted event, or the device calls through a null pointer,
\* only after init() in use, cleanup() in use, close() after stop(), or the
\* close() or the end of a device whose event is reported
\* (SerialDevice.cpp:31, 37-40, 78-92).
THEOREM PortFaultsExplainedHolds ==
  SerialSpec => []PortFaultsExplained
<1>1. SerialIInv => PortFaultsExplained
  BY PortInvIs DEF SerialIInv
<1> QED BY <1>1, SerialSpecIInv, PTL

\* No byte is lost, repeated or disordered between the line and the
\* application but for a short write, a flush of another number of bytes, a
\* later readv of several, a new descriptor, or the end of the device
\* (SerialDevice.cpp:31, 228-287).
THEOREM BytesInOrderHolds ==
  SerialSpec => []BytesInOrder
<1>1. SerialIInv => BytesInOrder
  BY RxInvIs, TxInvIs DEF SerialIInv, BytesInOrder
<1> QED BY <1>1, SerialSpecIInv, PTL

\* A device that is initialised has its line set as was asked, whatever the
\* terminal's word was before: uartSet changes every group of bits it is about
\* (SerialDevice.cpp:103-213).
THEOREM LineAsAskedHolds ==
  SerialSpec => []LineAsAsked
<1>1. SerialIInv => LineAsAsked
  BY LineInvIs DEF SerialIInv
<1> QED BY <1>1, SerialSpecIInv, PTL

=============================================================================
