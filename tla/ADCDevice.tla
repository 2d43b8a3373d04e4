----------------------------- MODULE ADCDevice -----------------------------
(***************************************************************************)
(* The ADS1115 converter on an I2C bus.  Its 16-bit configuration register *)
(* is the set of its bits; the device changes one field at a time, by      *)
(* reading the register, masking, and writing it back, and either transfer *)
(* may fail.  The descriptor of the bus is a plain int.                    *)
(***************************************************************************)
EXTENDS Fd

VARIABLES
  adcFd,   \* fd_
  bus,     \* the file that fd_ was opened for; 0 for none, or one closed
  chip,    \* the configuration register
  asked,   \* the value last asked for, by field
  missed   \* fields whose last transfer failed

adcVars == <<adcFd, bus, chip, asked, missed>>

PowerOn == {0, 1, 7, 8, 10, 15}     \* 0x8583

\* Fields: the lowest bit, the number of bits.
Field ==
  [ channel |-> <<12, 3>>, range |-> <<9, 3>>, rate |-> <<5, 3>>,
    compare |-> <<2, 1>>, single |-> <<8, 1>> ]

Fields == DOMAIN Field

\* Values of the enumerations, "single" cleared by start() (a bound).
Values ==
  [ channel |-> {0, 7}, range |-> {1, 5}, rate |-> {0, 7}, compare |-> {0, 1},
    single |-> {0} ]

Bits(x) == Field[x][1] .. Field[x][1] + Field[x][2] - 1

Shifted(x, v) == {b \in Bits(x) : (v \div 2 ^ (b - Field[x][1])) % 2 = 1}

\* Mutant: the mask is one bit too wide.
SetFieldWide(conf, x, v) == (conf \ (Bits(x) \cup {Field[x][1] - 1})) \cup Shifted(x, v)

\* conf &= ~(mask << at); conf |= value << at.
SetField(conf, x, v) == (conf \ Bits(x)) \cup Shifted(x, v)

Value(conf, x) ==
  CHOOSE v \in 0 .. 2 ^ Field[x][2] - 1 : Shifted(x, v) = conf \cap Bits(x)

ADCInit ==
  /\ adcFd \in Numbers \cup {-1}        \* no initial value
  /\ bus = 0
  /\ chip = PowerOn /\ asked = [x \in Fields |-> Value(PowerOn, x)] /\ missed = {}

\* The ioctl reaches the chip only if fd_ is still the bus.
Reaches(w, n) == bus # 0 /\ n # -1 /\ w.table[n] = bus

\* The setters: both transfers succeed, or the register stays as it is.
Set(x, v) ==
  /\ asked' = [asked EXCEPT ![x] = v]
  /\ \/ Reaches(fds, adcFd) /\ chip' = SetField(chip, x, v) /\ missed' = missed \ {x}
     \/ UNCHANGED chip /\ missed' = missed \cup {x}
  /\ UNCHANGED <<fds, adcFd, bus>>

Arguments ==
  {args \in [Fields \ {"single"} -> UNION {Values[x] : x \in Fields}] :
     \A x \in DOMAIN args : args[x] \in Values[x]}

\* What init() asks for, and in which order.
Asked(args) == [x \in Fields |-> IF x = "single" THEN asked[x] ELSE args[x]]

SetAll(conf, args, done) ==
  LET SetIf(c, x) == IF x \in done THEN SetField(c, x, args[x]) ELSE c
  IN SetIf(SetIf(SetIf(SetIf(conf, "channel"), "rate"), "compare"), "range")

\* init(): the results of the four setters are ignored; done are those that work.
ADCOpen(args, done) ==
  /\ CanOpen(fds)
  /\ fds' = OpenFile(fds) /\ adcFd' = NextNumber(fds) /\ bus' = fds.opened + 1
  /\ chip' = SetAll(chip, args, done)
  /\ asked' = Asked(args)
  /\ missed' = (missed \ done) \cup (DOMAIN args \ done)

ADCOpenFails(args) ==
  /\ adcFd' = -1 /\ bus' = 0
  /\ asked' = Asked(args) /\ missed' = missed \cup DOMAIN args
  /\ UNCHANGED <<fds, chip>>

\* close() resets a copy of fd_, which keeps its number.
ADCClose ==
  /\ fds' = CloseNumber(fds, adcFd)
  /\ bus' = IF Reaches(fds, adcFd) THEN 0 ELSE bus
  /\ UNCHANGED <<adcFd, chip, asked, missed>>

\* The destructor closes nothing; the next object has an fd_ of no initial value.
ADCRenewed ==
  /\ adcFd' \in Numbers \cup {-1} /\ bus' = 0
  /\ UNCHANGED <<fds, chip, asked, missed>>
=============================================================================
