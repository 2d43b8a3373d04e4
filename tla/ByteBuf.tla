------------------------------ MODULE ByteBuf -------------------------------
(***************************************************************************)
(* The byte buffer of base/ByteBuf.  A buffer is a record: the stored      *)
(* bytes (originData, a std::string), the reader and the writer index and  *)
(* the two marks.  A member function is an operator that gives its         *)
(* outcome: the buffer it leaves, the number and the bytes it returns, and *)
(* how it ends.  std::string::at and substr throw std::out_of_range;       *)
(* comparisons with length() are unsigned, so that an index beyond the     *)
(* stored bytes passes the test "length() - index < width".                *)
(***************************************************************************)
EXTENDS Integers, Sequences, SequencesExt

CONSTANTS IntWidth,      \* sizeof(int) in bytes: the width shifts are made in
          DoubleWidth    \* sizeof(double) in bytes

ASSUME WidthAssumption == IntWidth \in Nat \ {0} /\ DoubleWidth \in Nat \ {0}

Bytes == 0 .. 255

Garbage == -1      \* the value an undefined shift leaves

Least(i, j) == IF i <= j THEN i ELSE j

Zeros(n) == [i \in 1 .. n |-> 0]

New(s) == [data |-> s, r |-> 0, w |-> Len(s), mr |-> 0, mw |-> 0]

Outcome(b, value, bytes, end) ==
  [buf |-> b, value |-> value, bytes |-> bytes, end |-> end]

Returns(b, value, bytes) == Outcome(b, value, bytes, "returns")

Throws(b) == Outcome(b, 0, <<>>, "throws")

\* operator=: the bytes are appended, the indexes taken over.
Assign(b, other) == [other EXCEPT !.data = b.data \o other.data]

Readable(b) == SubSeq(b.data, b.r + 1, b.w)

\* substr(i, n); a negative n is npos.
Slice(s, i, n) ==
  SubSeq(s, i + 1, IF n < 0 THEN Len(s) ELSE Least(i + n, Len(s)))

\* What std::string makes of the pointer data(): it ends at the first zero.
CString(s) ==
  LET z == SelectInSeq(s, LAMBDA x : x = 0)
  IN IF z = 0 THEN s ELSE SubSeq(s, 1, z - 1)

-----------------------------------------------------------------------------
(* Searching.                                                              *)

Positions(b, i, to, v) == {k \in i .. to - 1 : b.data[k + 1] = v}

FirstOf(K) == CHOOSE k \in K : \A j \in K : k <= j

\* bytesBefore(value): at() throws when the scan leaves the stored bytes.
BytesBefore(b, v) ==
  LET K == Positions(b, b.r, Least(b.w, Len(b.data)), v)
  IN IF K # {} THEN Returns(b, FirstOf(K) - b.r, <<>>)
     ELSE IF b.r < b.w /\ b.w > Len(b.data) THEN Throws(b)
     ELSE Returns(b, -1, <<>>)

\* Mutant: only the first byte of the run is looked at.
RunBeforeByFirst(b, i, n, v) ==
  LET K == Positions(b, i, b.w - n, v)
  IN Returns(b, IF K = {} THEN -1 ELSE FirstOf(K) - b.r, <<>>)

\* bytesBefore(index, length, value), of stored bytes only (w <= length()).
RunBefore(b, i, n, v) ==
  LET K == {k \in i .. b.w - n - 1 : \A j \in k .. k + n - 1 \cup {k} : b.data[j + 1] = v}
  IN Returns(b, IF K = {} THEN -1 ELSE FirstOf(K) - b.r, <<>>)

IndexOf(b, i, to, v) ==
  LET K == Positions(b, i, Least(to, Len(b.data)), v)
  IN IF K = {} THEN -1 ELSE FirstOf(K)

CompareTo(b, other) == b.data = other.data

-----------------------------------------------------------------------------
(* Numbers, modulo 256^n.                                                  *)

\* value >> 8 * k
Shifted(value, n) ==
  LET shifted[k \in 0 .. n] == IF k = 0 THEN value ELSE shifted[k - 1] \div 256
  IN shifted

Binary(value, n) == [i \in 1 .. n |-> Shifted(value, n)[n - i] % 256]

BinaryLE(value, n) == [i \in 1 .. n |-> Shifted(value, n)[i - 1] % 256]

Encoded(value, n, le) == IF le THEN BinaryLE(value, n) ELSE Binary(value, n)

Number(s) ==
  LET value[k \in 0 .. Len(s)] == IF k = 0 THEN 0 ELSE 256 * value[k - 1] + s[k]
  IN value[Len(s)]

\* Mutant: the order of the bytes is forgotten.
DecodingsBig(s, le) == {Number(s)}

\* Every byte is shifted as an int.  A wider type is read correctly when the
\* number is a non-negative int; otherwise the shifts are undefined.
Decodings(s, le) ==
  LET value == Number(IF le THEN Reverse(s) ELSE s)
  IN IF Len(s) <= IntWidth \/ value < 128 * 256^(IntWidth - 1)
     THEN {value} ELSE {value, Garbage}

\* getT, getTLE
Gets(b, i, n, le) ==
  IF i > Len(b.data) THEN {Throws(b)}
  ELSE IF i + n > Len(b.data) THEN {Returns(b, 0, <<>>)}
  ELSE LET s == Slice(b.data, i, n)
       IN {Returns(b, v, s) : v \in Decodings(s, le)}

\* readT, readTLE
Reads(b, n, le) ==
  {[o EXCEPT !.buf.r = b.r + Len(o.bytes)] : o \in Gets(b, b.r, n, le)}

\* readChar increments the reader index before at() throws.
ReadChar(b) ==
  IF b.r > Len(b.data) THEN Throws([b EXCEPT !.r = @ + 1])
  ELSE IF b.r = Len(b.data) THEN Returns(b, 0, <<>>)
  ELSE Returns([b EXCEPT !.r = @ + 1], b.data[b.r + 1], <<b.data[b.r + 1]>>)

\* getFloat, getDouble: the loop compares its index with itself plus the
\* width, and only the exception of at() ends it.
GetReal(b, i, n) ==
  IF i <= Len(b.data) /\ i + n > Len(b.data) THEN Returns(b, 0, <<>>) ELSE Throws(b)

\* The same loop over the reader index.
ReadDouble(b, le) ==
  LET reads == DoubleWidth - 1 - b.r \in 0 .. Len(b.data) - 1
  IN IF b.r <= Len(b.data) /\ b.r + DoubleWidth > Len(b.data) THEN Returns(b, 0, <<>>)
     ELSE IF le THEN Throws([b EXCEPT !.r = IF reads THEN DoubleWidth ELSE @])
     ELSE Throws([b EXCEPT !.r = IF @ > Len(b.data) THEN @ ELSE Len(b.data)])

-----------------------------------------------------------------------------
(* Bytes out and in.                                                       *)

ReadBytes(b, n) ==
  LET s == Slice(b.data, b.r, n)
  IN IF b.r > Len(b.data) THEN Throws(b)
     ELSE Returns([b EXCEPT !.r = @ + Len(s)], Len(s), s)

Copy(b) == Returns(b, Len(b.data), b.data)

CopyFrom(b, i, n) ==
  IF i > Len(b.data) THEN Throws(b)
  ELSE Returns(b, Len(Slice(b.data, i, n)), Slice(b.data, i, n))

GetByte(b, i) == IF i >= Len(b.data) THEN 0 ELSE b.data[i + 1]

\* getBytes(index, length); a caller's array receives the first byte only.
GetBytes(b, i, n) ==
  IF i >= Len(b.data) THEN Returns(b, 0, <<>>) ELSE CopyFrom(b, i, n)

Stored(o) == SubSeq(o.bytes, 1, 1)

SetData(b, i, s) ==
  [b EXCEPT !.data =
     IF i > Len(@) THEN @ \o s
     ELSE SubSeq(@, 1, i) \o s \o SubSeq(@, i + 1, Len(@))]

\* Mutant: written behind everything stored.
WriteDataBehind(b, s) == [b EXCEPT !.data = @ \o s, !.w = @ + Len(s)]

WriteData(b, s) ==
  [SetData(b, b.w, s) EXCEPT
     !.w = IF @ > Len(b.data) THEN Len(b.data) + Len(s) ELSE @ + Len(s)]

\* getBytes(index, dstIndex, length): dstIndex zeros, then the bytes.
GetBytesAfter(b, i, k, n) ==
  IF i >= Len(b.data) THEN New(<<>>)
  ELSE WriteData(New(Zeros(k)), CopyFrom(b, i, n).bytes)

-----------------------------------------------------------------------------
(* Indexes.                                                                *)

\* Mutant: the reader index stays.
ClearWriter(b) == [b EXCEPT !.w = 0]

Clear(b) == [b EXCEPT !.r = 0, !.w = 0]

DiscardReadBytes(b) ==
  IF b.r + 1 > Len(b.data) THEN Throws(b)
  ELSE Returns([b EXCEPT !.data = SubSeq(@, b.r + 2, Len(@)), !.r = 0, !.w = 0], 0, <<>>)

SkipBytes(b, n) == [b EXCEPT !.r = Least(@ + n, Len(b.data))]

SetIndex(b, i, j) ==
  IF b.data = <<>> THEN b
  ELSE [b EXCEPT !.r = Least(i, Len(b.data) - 1), !.w = Least(j, Len(b.data))]

ReaderIndex(b, i) == IF i <= b.w THEN [b EXCEPT !.r = i] ELSE b

WriterIndex(b, i) == IF i < Len(b.data) THEN [b EXCEPT !.w = i] ELSE b

MarkReader(b) == [b EXCEPT !.mr = b.r]

MarkWriter(b) == [b EXCEPT !.mw = b.w]

ResetReader(b) == [b EXCEPT !.r = b.mr]

ResetWriter(b) == [b EXCEPT !.w = b.mw]

-----------------------------------------------------------------------------
(* Hexadecimal text: a sequence of digits, -1 for any other character.     *)

HexDigits == 0 .. 15 \cup {-1}

ToHex(s) ==
  [i \in 1 .. 2 * Len(s) |->
     IF i % 2 = 1 THEN s[(i + 1) \div 2] \div 16 ELSE s[i \div 2] % 16]

\* ch |= (char)fromHex(c) << 4, then ch |= (char)fromHex(c).
HexByte(hi, lo) ==
  IF lo = -1 THEN 255 ELSE (IF hi = -1 THEN 240 ELSE 16 * hi) + lo

\* fromHex is noexcept and length() - 1 unsigned: empty text ends the program.
FromHex(h) ==
  IF h = <<>> THEN Outcome(New(<<>>), 0, <<>>, "terminates")
  ELSE Returns(New([i \in 1 .. Len(h) \div 2 |-> HexByte(h[2 * i - 1], h[2 * i])]), 0, <<>>)
=============================================================================
