----------------------------- MODULE BufferUse ------------------------------
(***************************************************************************)
(* A program that uses one ByteBuf: it calls the member functions that     *)
(* change the buffer in any order and with any arguments that are not      *)
(* negative (readBytes with -1 takes everything), and goes on when one     *)
(* throws.  The functions that only look are operators of ByteBuf, checked *)
(* in every state the program can reach.                                   *)
(***************************************************************************)
EXTENDS ByteBuf

CONSTANTS Alphabet,    \* the bytes the program writes
          Widths,      \* the sizes of the integer types, in bytes
          MaxLen       \* bound: bytes stored

ASSUME UseAssumption ==
  Alphabet \subseteq Bytes /\ Widths \subseteq Nat \ {0} /\ MaxLen \in Nat

VARIABLES buf,   \* the buffer
          out    \* the last call: its name and number, the value and the
                 \* bytes it was given or returned, and how it ended

vars == <<buf, out>>

Strings == SeqOf(Alphabet, MaxLen)

\* The call op(n) ends with outcome o.
Call(op, n, o) ==
  /\ buf' = o.buf
  /\ out' = [op |-> op, n |-> n, value |-> o.value, bytes |-> o.bytes, end |-> o.end]

\* The call only moves indexes or stores bytes.
Set(op, n, b) == Call(op, n, Returns(b, 0, <<>>))

Room(s) == Len(buf.data) + Len(s) <= MaxLen

Init ==
  /\ \E s \in Strings : buf = New(s)
  /\ out = [op |-> "new", n |-> 0, value |-> 0, bytes |-> <<>>, end |-> "returns"]

-----------------------------------------------------------------------------
\* writeChar ... writeUnsignedLongLE, of the number whose digits are s.
WriteNumber(s, le) ==
  LET n == Len(s)
      value == Number(IF le THEN Reverse(s) ELSE s)
  IN /\ n \in Widths /\ Room(s)
     /\ Call("write", n, Returns(WriteData(buf, Encoded(value, n, le)), value, s))

WriteBytes(s) == Room(s) /\ Call("write", Len(s), Returns(WriteData(buf, s), 0, s))

\* writeBytes(ByteBuf): through a pointer to characters.
WriteBuf(s) ==
  Room(s) /\ Call("writeBuf", Len(s), Returns(WriteData(buf, CString(s)), 0, s))

WriteZero(n) == WriteBytes(Zeros(n))

\* setChar ... setBytes, setZero: the bytes are inserted.
SetBytes(i, s) == Room(s) /\ Set("set", i, SetData(buf, i, s))

ReadNumber(n, le) == \E o \in Reads(buf, n, le) : Call(IF le THEN "readLE" ELSE "read", n, o)

\* Bound: a reader index past MaxLen is not driven further by exceptions.
ReadOne == buf.r <= MaxLen /\ Call("read", 1, ReadChar(buf))

Take(n) == Call("readBytes", n, ReadBytes(buf, n))

ReadReal(le) == Call("readDouble", DoubleWidth, ReadDouble(buf, le))

Skip(n) == Set("skip", n, SkipBytes(buf, n))

ClearAll == Set("clear", 0, Clear(buf))

Discard == Call("discard", 0, DiscardReadBytes(buf))

MoveReader(i) == Set("readerIndex", i, ReaderIndex(buf, i))

MoveWriter(i) == Set("writerIndex", i, WriterIndex(buf, i))

MoveBoth(i, j) == Set("setIndex", j, SetIndex(buf, i, j))

Mark == Set("mark", 0, MarkReader(buf)) \/ Set("mark", 0, MarkWriter(buf))

Reset == Set("resetReader", 0, ResetReader(buf)) \/ Set("resetWriter", 0, ResetWriter(buf))

\* Assignment of a buffer holding s of which k bytes have been read.
AssignBuf(s, k) ==
  Room(s) /\ k <= Len(s) /\ Set("assign", 0, Assign(buf, [New(s) EXCEPT !.r = k]))

Writes ==
  \E s \in Strings :
    \/ WriteBytes(s) \/ WriteBuf(s)
    \/ \E le \in BOOLEAN : WriteNumber(s, le)
    \/ \E i \in 0 .. MaxLen : SetBytes(i, s) \/ AssignBuf(s, i)

ReadsAny ==
  \/ ReadOne
  \/ \E le \in BOOLEAN : ReadReal(le) \/ \E n \in Widths : ReadNumber(n, le)
  \/ \E n \in -1 .. MaxLen : Take(n)

Moves ==
  \/ ClearAll \/ Discard \/ Mark \/ Reset
  \/ \E i \in 0 .. MaxLen :
       \/ WriteZero(i) \/ Skip(i) \/ MoveReader(i) \/ MoveWriter(i)
       \/ \E j \in 0 .. MaxLen : MoveBoth(i, j)

Next == Writes \/ ReadsAny \/ Moves

Spec == Init /\ [][Next]_vars

-----------------------------------------------------------------------------
(* Properties.                                                             *)

InBounds == 0 <= buf.r /\ buf.r <= buf.w /\ buf.w <= Len(buf.data)

Stream == INSTANCE ByteStream WITH content <- Readable(buf), moved <- out.bytes

Enough(n) == 0 <= n /\ n <= Len(Readable(buf))

\* As long as the indexes are in bounds the buffer is a stream of bytes: a
\* write, in front of whatever clear() left behind, adds its bytes at the
\* end of the readable ones, a read of readable bytes takes from their front.
StreamStep ==
  InBounds =>
    LET n == out'.n
        s == out'.bytes
    IN /\ out'.op = "write" => Stream!Write(s)
       /\ out'.op = "writeBuf" /\ ~Contains(s, 0) => Stream!Write(s)
       /\ out'.op \in {"read", "readLE", "readBytes"} /\ Enough(n) => Stream!Read(n)
       /\ out'.op = "skip" /\ Enough(n) => Stream!Skip(n)
       /\ out'.op = "clear" => Stream!Clear

\* Every call is such a step: bytes come out in the order they went in
\* (ByteBuf.h:8-15).
StreamSteps == [][StreamStep]_vars

\* A typed read gives the number whose bytes were there, in either order, if
\* an int can hold the type: the writing of that number gives the same bytes.
NumbersReadBack ==
  \A le \in BOOLEAN :
    LET n == Len(out.bytes) IN
    out.op = (IF le THEN "readLE" ELSE "read") /\ n > 0 =>
      /\ n <= IntWidth => out.value # Garbage
      /\ out.value # Garbage => Encoded(out.value, n, le) = out.bytes

\* The order of ByteBuf.h:15, readerIndex <= writerIndex <= stored bytes, is
\* left only by a read or a skip of more than is readable, by setting an
\* index to the wrong side of the other, by going back to a mark that was
\* overtaken, and by readDouble: no other call breaks it.  In bounds nothing
\* throws but readDouble and a discardReadBytes with nothing stored behind
\* the reader index (ByteBuf.cpp:115-120).
BoundsStep ==
  InBounds =>
    /\ \/ InBounds'
       \/ out'.op \in {"read", "readLE", "readBytes", "skip"} /\ ~Enough(out'.n)
       \/ out'.op = "writerIndex" /\ out'.n < buf.r
       \/ out'.op = "setIndex" /\ buf'.r > out'.n
       \/ out'.op = "resetReader" /\ buf.mr > buf.w
       \/ out'.op = "resetWriter" /\ buf.mw \notin buf.r .. Len(buf.data)
       \/ out'.op = "readDouble"
    /\ \/ out'.end = "returns"
       \/ out'.op = "readDouble"
       \/ out'.op = "discard" /\ buf.r = Len(buf.data)

\* Every call keeps the order, or is one of those (ByteBuf.h:15).
BoundsKept == [][BoundsStep]_vars

\* In bounds the searches find the first place: indexOf among the stored
\* bytes, bytesBefore among the readable ones, a run of n bytes unless it
\* ends with the last readable byte.
SearchesFind ==
  InBounds =>
    \A v \in Alphabet :
      LET s == Readable(buf) IN
      /\ BytesBefore(buf, v).value = SelectInSeq(s, LAMBDA x : x = v) - 1
      /\ \A i, to \in 0 .. MaxLen :
           LET k == IndexOf(buf, i, to, v) IN
           IF k = -1 THEN ~Contains(SubSeq(buf.data, i + 1, Least(to, Len(buf.data))), v)
           ELSE k >= i /\ buf.data[k + 1] = v /\ ~Contains(SubSeq(buf.data, i + 1, k), v)
      /\ \A n \in 1 .. MaxLen :
           LET k == RunBefore(buf, buf.r, n, v).value
               run == [i \in 1 .. n |-> v]
               at == SelectInSeq(s, LAMBDA x : x = v)
           IN IF k = -1 THEN \A i \in 1 .. Len(s) - n : SubSeq(s, i, i + n - 1) # run
              ELSE /\ SubSeq(s, k + 1, k + n) = run
                   /\ \A i \in 1 .. k : SubSeq(s, i, i + n - 1) # run

\* The searches, and looking at stored bytes: a place behind them gives nothing
\* and does not throw, except for the typed functions; bytes fetched behind k
\* zeros can be read behind k zeros; an empty buffer that is assigned this one
\* compares equal to it; a float or a double that is there is never given.  A
\* copy() is the copy of the readable bytes that ByteBuf.h:236-238 promises only
\* as long as nothing has been read and nothing lies behind the writer index: it
\* takes everything that is stored (ByteBuf.cpp:111).
LooksAgree ==
  /\ SearchesFind
  /\ InBounds =>
       (Copy(buf).bytes = Readable(buf) <=> buf.r = 0 /\ buf.w = Len(buf.data))
  /\ CompareTo(Assign(New(<<>>), buf), buf)
  /\ \A i \in 0 .. MaxLen :
       LET there == SubSeq(buf.data, i + 1, Len(buf.data)) IN
       /\ GetByte(buf, i) = IF there = <<>> THEN 0 ELSE Head(there)
       /\ GetBytes(buf, i, -1).bytes = there
       /\ i + DoubleWidth <= Len(buf.data) => GetReal(buf, i, DoubleWidth).end = "throws"
       /\ \A n \in Widths, le \in BOOLEAN : \A o \in Gets(buf, i, n, le) :
            (o.end = "throws") = (i > Len(buf.data))
       /\ \A k \in 0 .. MaxLen :
            there # <<>> => Readable(GetBytesAfter(buf, i, k, -1)) = Zeros(k) \o there

\* Stored bytes survive their hexadecimal text.
HexReadsBack ==
  buf.data # <<>> => FromHex(ToHex(buf.data)).buf.data = buf.data

\* What was stored is what is read, as a number and as hexadecimal text.
ReadsBack == NumbersReadBack /\ HexReadsBack
=============================================================================
