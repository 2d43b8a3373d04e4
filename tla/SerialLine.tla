----------------------------- MODULE SerialLine -----------------------------
(***************************************************************************)
(* What SerialDevice::uartSet makes of c_cflag, the word of the terminal   *)
(* that holds speed, character size, stop bits and parity.  A word is the  *)
(* set of its bits, numbered as Linux numbers them: the code also sets     *)
(* bits there that belong to c_iflag, and some of them mean a speed.       *)
(***************************************************************************)
EXTENDS Integers, FiniteSets

Rates == {110, 300, 600, 1200, 2400, 4800, 9600, 14400, 19200, 38400,
          56000, 57600, 115200, 921600}

Parities == {"None", "Odd", "Even", "Mark", "Space"}

Settings ==
  [rate : Rates, parity : Parities, dataBits : 5 .. 8, stopBits : {1, 2},
   flow : {"None", "Hardware", "Software"}]

CBAUD == {0, 1, 2, 3, 12}
CSIZE == {4, 5}
CSTOPB == {6}
PARENB == {8}
PARODD == {9}
CRTSCTS == {31}
Enabled == {7, 10, 11}              \* CREAD | HUPCL | CLOCAL

LineBits == 0 .. 12 \cup CRTSCTS

\* Flags of c_iflag, set in c_cflag.
INPCK == {4}
ISTRIP == {5}
SoftFlow == {10, 11, 12}            \* IXON | IXANY | IXOFF

\* baudRate2Enum(): two rates of BaudRate have no constant, and get -1.
Unknown == {-1}

BaudRate2Enum(rate) ==
  CASE rate = 110    -> {0, 1}
    [] rate = 300    -> {0, 1, 2}
    [] rate = 600    -> {3}
    [] rate = 1200   -> {0, 3}
    [] rate = 2400   -> {0, 1, 3}
    [] rate = 4800   -> {2, 3}
    [] rate = 9600   -> {0, 2, 3}
    [] rate = 19200  -> {1, 2, 3}
    [] rate = 38400  -> {0, 1, 2, 3}
    [] rate = 57600  -> {0, 12}
    [] rate = 115200 -> {1, 12}
    [] rate = 921600 -> {0, 1, 2, 12}
    [] OTHER         -> Unknown

\* cfsetispeed and cfsetospeed fail, unnoticed, for a speed that is none.
SetSpeed(w, rate) ==
  LET speed == BaudRate2Enum(rate)
  IN IF speed = Unknown THEN w ELSE (w \ CBAUD) \cup speed

SetParity(w, parity) ==
  CASE parity = "None"  -> w \ (PARENB \cup INPCK)
    [] parity = "Odd"   -> w \cup PARENB \cup PARODD \cup INPCK \cup ISTRIP
    [] parity = "Even"  -> (w \ PARODD) \cup PARENB \cup INPCK \cup ISTRIP
    [] parity = "Space" -> w \ (PARENB \cup CSTOPB)

Size(n) ==
  CASE n = 5 -> {} [] n = 6 -> {4} [] n = 7 -> {5} [] n = 8 -> {4, 5}

\* Mutant: the old size is not masked out.
SetDataBitsOver(w, n) == w \cup Size(n)

SetDataBits(w, n) == (w \ CSIZE) \cup Size(n)

SetStopBits(w, n) == IF n = 1 THEN w \ CSTOPB ELSE w \cup CSTOPB

SetFlow(w, flow) ==
  CASE flow = "None"     -> w \ CRTSCTS
    [] flow = "Hardware" -> w \cup CRTSCTS
    [] flow = "Software" -> w \cup SoftFlow

\* ParityMark has no case.
Accepted(s) == s.parity # "Mark"

\* uartSet() of settings it accepts, for a terminal whose word is w.
UartSet(w, s) ==
  LET sized == SetDataBits(SetParity(SetSpeed(w, s.rate), s.parity), s.dataBits)
      flowing == SetFlow(SetStopBits(sized, s.stopBits), s.flow)
  IN (flowing \ CRTSCTS) \cup Enabled

\* Settings one or two of which are not the usual ones (a bound).
Usual == [rate |-> 9600, parity |-> "None", dataBits |-> 8, stopBits |-> 1, flow |-> "None"]

NearUsual == {s \in Settings : Cardinality({x \in DOMAIN s : s[x] # Usual[x]}) <= 2}
=============================================================================
