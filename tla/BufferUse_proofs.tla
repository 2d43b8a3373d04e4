--------------------------- MODULE BufferUse_proofs ---------------------------
(***************************************************************************)
(* Proofs about BufferUse, for any bytes, widths and lengths: which calls  *)
(* may take the indexes of a buffer out of their bounds and which throw;   *)
(* that in bounds the buffer is the stream of ByteStream; that numbers and *)
(* hexadecimal text read back, and that searches find the first place.     *)
(***************************************************************************)
EXTENDS BufferUse, SequenceTheorems, WellFoundedInduction, TLAPS

-----------------------------------------------------------------------------
(* Sequences of anything.                                                  *)

IsSeq(s) == \E S : s \in Seq(S)

LEMMA SeqLen ==
  ASSUME NEW s, IsSeq(s)
  PROVE  Len(s) \in Nat /\ (Len(s) = 0 <=> s = <<>>)
BY DEF IsSeq

LEMMA FunSeq ==
  ASSUME NEW n \in Nat, NEW S, NEW f \in [1 .. n -> S]
  PROVE  IsSeq(f) /\ Len(f) = n
<1>1. f \in Seq(S)
  BY SeqDef
<1>2. DOMAIN f = 1 .. Len(f) /\ Len(f) \in Nat /\ DOMAIN f = 1 .. n
  BY <1>1, LenProperties
<1> QED BY <1>1, <1>2 DEF IsSeq

LEMMA SeqIn ==
  ASSUME NEW s, IsSeq(s), NEW T, \A i \in 1 .. Len(s) : s[i] \in T
  PROVE  s \in Seq(T)
<1>1. s = [i \in 1 .. Len(s) |-> s[i]] /\ Len(s) \in Nat
  BY DEF IsSeq
<1> QED BY <1>1

LEMMA SeqCat ==
  ASSUME NEW s, NEW t, IsSeq(s), IsSeq(t)
  PROVE  /\ IsSeq(s \o t) /\ Len(s \o t) = Len(s) + Len(t)
         /\ \A i \in 1 .. Len(s) + Len(t) :
              (s \o t)[i] = IF i <= Len(s) THEN s[i] ELSE t[i - Len(s)]
<1> DEFINE T == {s[i] : i \in 1 .. Len(s)} \cup {t[i] : i \in 1 .. Len(t)}
<1>1. s \in Seq(T)
  <2>1. \A i \in 1 .. Len(s) : s[i] \in T
    OBVIOUS
  <2> HIDE DEF T
  <2> QED BY <2>1, SeqIn
<1>2. t \in Seq(T)
  <2>1. \A i \in 1 .. Len(t) : t[i] \in T
    OBVIOUS
  <2> HIDE DEF T
  <2> QED BY <2>1, SeqIn
<1> HIDE DEF T
<1>3. /\ s \o t \in Seq(T) /\ Len(s \o t) = Len(s) + Len(t)
      /\ \A i \in 1 .. Len(s) + Len(t) :
           (s \o t)[i] = IF i <= Len(s) THEN s[i] ELSE t[i - Len(s)]
  BY <1>1, <1>2, ConcatProperties
<1> QED BY <1>3 DEF IsSeq

LEMMA SeqSub ==
  ASSUME NEW s, NEW m \in Int, NEW n \in Int
  PROVE  /\ IsSeq(SubSeq(s, m, n)) /\ Len(SubSeq(s, m, n)) = IF m <= n THEN n - m + 1 ELSE 0
         /\ \A i \in 1 .. n - m + 1 : SubSeq(s, m, n)[i] = s[m + i - 1]
<1> DEFINE T == {s[i] : i \in m .. n}
<1>1. \A i \in m .. n : s[i] \in T
  OBVIOUS
<1> HIDE DEF T
<1>2. /\ SubSeq(s, m, n) \in Seq(T) /\ Len(SubSeq(s, m, n)) = IF m <= n THEN n - m + 1 ELSE 0
      /\ \A i \in 1 .. n - m + 1 : SubSeq(s, m, n)[i] = s[m + i - 1]
  BY <1>1, SubSeqProperties
<1> QED BY <1>2 DEF IsSeq

LEMMA NoSeq == IsSeq(<<>>) /\ Len(<<>>) = 0
<1>1. <<>> \in Seq({}) /\ Len(<<>>) = 0
  BY EmptySeq
<1> QED BY <1>1 DEF IsSeq

LEMMA OneSeq ==
  ASSUME NEW x
  PROVE  IsSeq(<<x>>) /\ Len(<<x>>) = 1 /\ <<x>>[1] = x
<1>1. <<x>> \in Seq({x})
  OBVIOUS
<1> QED BY <1>1 DEF IsSeq

LEMMA StringSeq ==
  ASSUME NEW s \in Strings
  PROVE  IsSeq(s)
<1>1. PICK m \in 0 .. MaxLen : s \in [1 .. m -> Alphabet]
  BY DEF Strings, SeqOf
<1>2. m \in Nat
  BY UseAssumption
<1> QED BY <1>1, <1>2, FunSeq

LEMMA ZerosSeq ==
  ASSUME NEW n \in Nat
  PROVE  IsSeq(Zeros(n)) /\ Len(Zeros(n)) = n
<1>1. Zeros(n) \in [1 .. n -> {0}]
  BY DEF Zeros
<1> QED BY <1>1, FunSeq

LEMMA EncodedSeq ==
  ASSUME NEW n \in Nat, NEW value, NEW le
  PROVE  IsSeq(Encoded(value, n, le)) /\ Len(Encoded(value, n, le)) = n
<1> DEFINE T == {Shifted(value, n)[n - i] % 256 : i \in 1 .. n}
           U == {Shifted(value, n)[i - 1] % 256 : i \in 1 .. n}
<1>1. Binary(value, n) \in [1 .. n -> T]
  BY DEF Binary
<1>2. BinaryLE(value, n) \in [1 .. n -> U]
  BY DEF BinaryLE
<1> HIDE DEF T, U
<1> QED BY <1>1, <1>2, FunSeq DEF Encoded

LEMMA SeqSame ==
  ASSUME NEW s, NEW t, IsSeq(s), IsSeq(t), Len(s) = Len(t), \A i \in 1 .. Len(s) : s[i] = t[i]
  PROVE  s = t
<1> DEFINE T == {s[i] : i \in 1 .. Len(s)}
<1>1. (\A i \in 1 .. Len(s) : s[i] \in T) /\ (\A i \in 1 .. Len(t) : t[i] \in T)
  OBVIOUS
<1> HIDE DEF T
<1>2. s \in Seq(T) /\ t \in Seq(T)
  BY <1>1, SeqIn
<1> QED BY <1>2, SeqEqual

\* A set of numbers has a least one.
LEMMA LeastIn ==
  ASSUME NEW S, S \subseteq Nat, S # {}
  PROVE  \E x \in S : \A y \in S : x <= y
<1> DEFINE R == OpToRel(<, Nat)
<1>1. \A x, y \in Nat : <<y, x>> \in R <=> y < x
  BY DEF OpToRel
<1>2. IsWellFoundedOn(R, Nat)
  BY NatLessThanWellFounded
<1> HIDE DEF R
<1>3. \E x \in S : \A y \in S : ~(<<y, x>> \in R)
  BY <1>2, WFMin
<1>4. \E x \in S : \A y \in S : ~(y < x)
  BY <1>1, <1>3, Zenon
<1>5. PICK x \in S : \A y \in S : ~(y < x)
  BY <1>4
<1>6. \A y \in S : x <= y
  <2> SUFFICES ASSUME NEW y \in S PROVE x <= y
    OBVIOUS
  <2> QED BY <1>5
<1> QED BY <1>6

LEMMA MinIn ==
  ASSUME NEW S, S \subseteq Nat, S # {}
  PROVE  Min(S) \in S /\ \A y \in S : Min(S) <= y
BY LeastIn, Zenon DEF Min

LEMMA FirstIn ==
  ASSUME NEW S, S \subseteq Nat, S # {}
  PROVE  FirstOf(S) \in S /\ \A y \in S : FirstOf(S) <= y
BY LeastIn, Zenon DEF FirstOf

LEMMA CStringSeq ==
  ASSUME NEW s, IsSeq(s)
  PROVE  IsSeq(CString(s))
<1> DEFINE I == {i \in 1 .. Len(s) : s[i] = 0}
<1>1. CString(s) = IF (IF I # {} THEN Min(I) ELSE 0) = 0 THEN s
                   ELSE SubSeq(s, 1, (IF I # {} THEN Min(I) ELSE 0) - 1)
  BY DEF CString, SelectInSeq
<1>2. CASE I = {}
  BY <1>1, <1>2
<1>3. CASE I # {}
  <2>1. I \subseteq Nat
    OBVIOUS
  <2> HIDE DEF I
  <2>2. Min(I) \in Int
    <3>1. Min(I) \in I
      BY <1>3, <2>1, MinIn
    <3>2. Min(I) \in Nat
      BY <2>1, <3>1, Zenon
    <3> QED BY <3>2
  <2>3. CString(s) = s \/ CString(s) = SubSeq(s, 1, Min(I) - 1)
    BY <1>1, <1>3
  <2>4. IsSeq(SubSeq(s, 1, Min(I) - 1))
    BY <2>2, SeqSub
  <2> QED BY <2>3, <2>4
<1> QED BY <1>2, <1>3

-----------------------------------------------------------------------------
(* Numbers and their bytes.  A function defined by recursion over 0 .. n   *)
(* exists, by the least number for which it would not: g gives its value   *)
(* at k from k and its value at k - 1.                                     *)

Recurs(f, n, T, a, g) ==
  f \in [0 .. n -> T] /\ f[0] = a /\ \A k \in 1 .. n : f[k] = g[<<k, f[k - 1]>>]

LEMMA Recursion ==
  ASSUME NEW n \in Nat, NEW T, NEW a \in T, NEW g \in [(1 .. n) \X T -> T]
  PROVE  \E f : Recurs(f, n, T, a, g)
<1> DEFINE Upto(m, f) == f[0] = a /\ \A k \in 1 .. m : f[k] = g[<<k, f[k - 1]>>]
           S == {m \in 0 .. n : ~ \E f \in [0 .. m -> T] : Upto(m, f)}
<1>1. ASSUME S # {} PROVE FALSE
  <2>1. S \subseteq Nat
    OBVIOUS
  <2> HIDE DEF S
  <2>2. PICK m \in S : \A y \in S : m <= y
    BY <1>1, <2>1, LeastIn
  <2>3. m \in 0 .. n /\ ~ \E f \in [0 .. m -> T] : Upto(m, f)
    BY <2>2 DEF S
  <2>4. m # 0
    <3> SUFFICES ASSUME m = 0 PROVE FALSE
      OBVIOUS
    <3> DEFINE f == [k \in 0 .. 0 |-> a]
    <3>1. f \in [0 .. 0 -> T] /\ f[0] = a
      OBVIOUS
    <3>2. Upto(0, f)
      BY <3>1
    <3> QED BY <2>3, <3>1, <3>2
  <2>5. m - 1 \in 0 .. n /\ ~(m <= m - 1)
    BY <2>3, <2>4
  <2>6. m - 1 \notin S
    BY <2>2, <2>5
  <2>7. PICK f \in [0 .. m - 1 -> T] : Upto(m - 1, f)
    BY <2>5, <2>6 DEF S
  <2> DEFINE h == [k \in 0 .. m |-> IF k = m THEN g[<<m, f[m - 1]>>] ELSE f[k]]
  <2>8. f[m - 1] \in T /\ g[<<m, f[m - 1]>>] \in T
    BY <2>3, <2>4
  <2>9. h \in [0 .. m -> T]
    BY <2>3, <2>8
  <2>10. h[0] = f[0] /\ h[m] = g[<<m, f[m - 1]>>] /\ \A k \in 0 .. m - 1 : h[k] = f[k]
    BY <2>3, <2>4
  <2> HIDE DEF h
  <2>11. ASSUME NEW k \in 1 .. m PROVE h[k] = g[<<k, h[k - 1]>>]
    <3>1. CASE k = m
      <4>1. m - 1 \in 0 .. m - 1
        BY <2>3, <2>4
      <4> QED BY <2>10, <3>1, <4>1
    <3>2. CASE k # m
      <4>1. k \in 1 .. m - 1 /\ k \in 0 .. m - 1 /\ k - 1 \in 0 .. m - 1
        BY <2>3, <3>2
      <4> QED BY <2>7, <2>10, <4>1
    <3> QED BY <3>1, <3>2
  <2>12. Upto(m, h)
    BY <2>7, <2>10, <2>11
  <2> QED BY <2>3, <2>9, <2>12
<1>2. n \in 0 .. n /\ n \notin S
  BY <1>1
<1>3. PICK f \in [0 .. n -> T] : Upto(n, f)
  BY <1>2
<1>4. Recurs(f, n, T, a, g)
  BY <1>3 DEF Recurs
<1> QED BY <1>4

\* The values of a number's leading bytes, as Number computes them.
Values(s, n, v) ==
  /\ v \in [0 .. n -> Nat]
  /\ v[0] = 0
  /\ \A k \in 1 .. n : v[k] = 256 * v[k - 1] + s[k]

LEMMA BytesNat == \A x \in Bytes : x \in Nat /\ x < 256
BY DEF Bytes

LEMMA NumberValues ==
  ASSUME NEW s, IsSeq(s), NEW n, n = Len(s), \A i \in 1 .. n : s[i] \in Bytes
  PROVE  \E v : Values(s, n, v) /\ Number(s) = v[n]
<1> DEFINE g == [p \in (1 .. n) \X Nat |-> 256 * p[2] + s[p[1]]]
           Is(v) == v = [k \in 0 .. n |-> IF k = 0 THEN 0 ELSE 256 * v[k - 1] + s[k]]
           c == CHOOSE v : Is(v)
<1>1. n \in Nat
  BY SeqLen
<1>2. \A k \in 1 .. n, x \in Nat : 256 * x + s[k] \in Nat
  <2>1. \A k \in 1 .. n : s[k] \in Nat
    BY BytesNat, Zenon
  <2>2. \A x, y \in Nat : 256 * x + y \in Nat
    OBVIOUS
  <2> QED BY <2>1, <2>2, Zenon
<1>3. g \in [(1 .. n) \X Nat -> Nat]
  BY <1>2
<1>4. \A k \in 1 .. n, x \in Nat : g[<<k, x>>] = 256 * x + s[k]
  OBVIOUS
<1> HIDE DEF g
<1>5. PICK f \in [0 .. n -> Nat] : f[0] = 0 /\ \A k \in 1 .. n : f[k] = g[<<k, f[k - 1]>>]
  <2>1. 0 \in Nat
    OBVIOUS
  <2>2. PICK f : Recurs(f, n, Nat, 0, g)
    BY <1>1, <1>3, <2>1, Recursion, Zenon
  <2> QED BY <2>2, Zenon DEF Recurs
<1>6. \A k \in 1 .. n : k - 1 \in 0 .. n /\ f[k - 1] \in Nat
  BY <1>1, <1>5
<1>7. ASSUME NEW k \in 1 .. n PROVE f[k] = 256 * f[k - 1] + s[k]
  <2>1. f[k] = g[<<k, f[k - 1]>>] /\ f[k - 1] \in Nat
    BY <1>5, <1>6
  <2>2. g[<<k, f[k - 1]>>] = 256 * f[k - 1] + s[k]
    BY <1>4, <2>1, Zenon
  <2> QED BY <2>1, <2>2, Zenon
<1>8. Is(f)
  <2>1. \A k \in 0 .. n : f[k] = IF k = 0 THEN 0 ELSE 256 * f[k - 1] + s[k]
    BY <1>1, <1>5, <1>7
  <2> QED BY <1>5, <2>1
<1>9. Is(c)
  <2> HIDE DEF Is
  <2> QED BY <1>8, Zenon
<1>10. Number(s) = c[n]
  BY DEF Number
<1> HIDE DEF c
<1>11. c[0] = 0 /\ \A k \in 1 .. n : c[k] = 256 * c[k - 1] + s[k]
  BY <1>1, <1>9
<1>12. \A k \in 0 .. n : c[k] = f[k]
  <2> DEFINE S == {k \in 0 .. n : c[k] # f[k]}
  <2> SUFFICES ASSUME S # {} PROVE FALSE
    OBVIOUS
  <2>1. S \subseteq Nat
    OBVIOUS
  <2> HIDE DEF S
  <2>2. PICK m \in S : \A y \in S : m <= y
    BY <2>1, LeastIn
  <2>3. m \in 0 .. n /\ c[m] # f[m]
    BY <2>2 DEF S
  <2>4. m \in 1 .. n /\ m - 1 \in 0 .. n /\ ~(m <= m - 1)
    BY <1>1, <1>5, <1>11, <2>3
  <2>5. m - 1 \notin S
    BY <2>2, <2>4
  <2>6. c[m - 1] = f[m - 1]
    BY <2>4, <2>5 DEF S
  <2> QED BY <1>7, <1>11, <2>3, <2>4, <2>6
<1>13. c = f
  BY <1>5, <1>9, <1>12
<1> QED BY <1>5, <1>7, <1>10, <1>13 DEF Values

LEMMA ShiftedValues ==
  ASSUME NEW value \in Nat, NEW n \in Nat
  PROVE  /\ Shifted(value, n)[0] = value
         /\ \A k \in 1 .. n : Shifted(value, n)[k] = Shifted(value, n)[k - 1] \div 256
<1> DEFINE g == [p \in (1 .. n) \X Nat |-> p[2] \div 256]
           Is(v) == v = [k \in 0 .. n |-> IF k = 0 THEN value ELSE v[k - 1] \div 256]
           c == CHOOSE v : Is(v)
<1>1. \A x \in Nat : x \div 256 \in Nat
  OBVIOUS
<1>2. g \in [(1 .. n) \X Nat -> Nat]
  BY <1>1
<1>3. \A k \in 1 .. n, x \in Nat : g[<<k, x>>] = x \div 256
  OBVIOUS
<1> HIDE DEF g
<1>4. PICK f \in [0 .. n -> Nat] : f[0] = value /\ \A k \in 1 .. n : f[k] = g[<<k, f[k - 1]>>]
  <2>1. PICK f : Recurs(f, n, Nat, value, g)
    BY <1>2, Recursion, Zenon
  <2> QED BY <2>1, Zenon DEF Recurs
<1>5. \A k \in 1 .. n : k - 1 \in 0 .. n /\ f[k - 1] \in Nat
  BY <1>4
<1>6. ASSUME NEW k \in 1 .. n PROVE f[k] = f[k - 1] \div 256
  <2>1. f[k] = g[<<k, f[k - 1]>>] /\ f[k - 1] \in Nat
    BY <1>4, <1>5
  <2>2. g[<<k, f[k - 1]>>] = f[k - 1] \div 256
    BY <1>3, <2>1
  <2> QED BY <2>1, <2>2, Zenon
<1>7. Is(f)
  <2>1. \A k \in 0 .. n : f[k] = IF k = 0 THEN value ELSE f[k - 1] \div 256
    BY <1>4, <1>6
  <2> QED BY <1>4, <2>1
<1>8. Is(c)
  <2> HIDE DEF Is
  <2> QED BY <1>7, Zenon
<1>9. Shifted(value, n) = c
  BY DEF Shifted
<1> HIDE DEF c
<1>10. c[0] = value /\ \A k \in 1 .. n : c[k] = c[k - 1] \div 256
  BY <1>8
<1> QED BY <1>9, <1>10

\* Shifting a number to the right drops its trailing bytes one by one.
LEMMA ShiftedDigits ==
  ASSUME NEW s, IsSeq(s), NEW n, n = Len(s), \A i \in 1 .. n : s[i] \in Bytes
  PROVE  /\ Number(s) \in Nat
         /\ \A i \in 1 .. n : Shifted(Number(s), n)[n - i] % 256 = s[i]
<1> DEFINE h == Shifted(Number(s), n)
<1>1. n \in Nat
  BY SeqLen
<1>2. PICK v : Values(s, n, v) /\ Number(s) = v[n]
  BY NumberValues, Zenon
<1>3. v \in [0 .. n -> Nat] /\ n \in 0 .. n
  BY <1>1, <1>2 DEF Values
<1>4. Number(s) \in Nat
  BY <1>2, <1>3
<1>5. h[0] = v[n] /\ \A k \in 1 .. n : h[k] = h[k - 1] \div 256
  <2>1. h[0] = Number(s) /\ \A k \in 1 .. n : h[k] = h[k - 1] \div 256
    BY <1>1, <1>4, ShiftedValues
  <2> HIDE DEF h
  <2> QED BY <1>2, <2>1, Zenon
<1> HIDE DEF h
<1>6. ASSUME NEW i \in 1 .. n
      PROVE  v[i] \div 256 = v[i - 1] /\ v[i] % 256 = s[i] /\ v[i - 1] \in Nat
  <2>1. v[i] = 256 * v[i - 1] + s[i]
    BY <1>2, Zenon DEF Values
  <2>2. i - 1 \in 0 .. n /\ s[i] \in Bytes
    BY <1>1
  <2>3. v[i - 1] \in Nat
    BY <1>3, <2>2, Zenon
  <2>4. /\ (256 * v[i - 1] + s[i]) \div 256 = v[i - 1]
        /\ (256 * v[i - 1] + s[i]) % 256 = s[i]
    <3> DEFINE x == v[i - 1]
               y == s[i]
    <3>1. x \in Nat /\ y \in Bytes
      BY <2>2, <2>3
    <3> HIDE DEF x, y
    <3>2. (256 * x + y) \div 256 = x /\ (256 * x + y) % 256 = y
      BY <3>1 DEF Bytes
    <3> QED BY <3>2 DEF x, y
  <2> QED BY <2>1, <2>3, <2>4, Zenon
<1>7. \A k \in 0 .. n : h[k] = v[n - k]
  <2> DEFINE S == {k \in 0 .. n : h[k] # v[n - k]}
  <2> SUFFICES ASSUME S # {} PROVE FALSE
    OBVIOUS
  <2>1. S \subseteq Nat
    OBVIOUS
  <2> HIDE DEF S
  <2>2. PICK m \in S : \A y \in S : m <= y
    BY <2>1, LeastIn
  <2>3. m \in 0 .. n /\ h[m] # v[n - m]
    BY <2>2 DEF S
  <2>4. n - 0 = n
    BY <1>1
  <2>5. m # 0
    BY <1>5, <2>3, <2>4
  <2>6. /\ m \in 1 .. n /\ m - 1 \in 0 .. n /\ ~(m <= m - 1)
        /\ n - m + 1 \in 1 .. n /\ n - (m - 1) = n - m + 1 /\ (n - m + 1) - 1 = n - m
    BY <1>1, <2>3, <2>5
  <2>7. m - 1 \notin S
    BY <2>2, <2>6, Zenon
  <2>8. h[m - 1] = v[n - m + 1]
    BY <2>6, <2>7 DEF S
  <2>9. h[m] = v[n - m + 1] \div 256
    BY <1>5, <2>6, <2>8
  <2>10. v[n - m + 1] \div 256 = v[(n - m + 1) - 1]
    BY <1>6, <2>6, Zenon
  <2> QED BY <2>3, <2>6, <2>9, <2>10, Zenon
<1>8. ASSUME NEW i \in 1 .. n PROVE h[n - i] % 256 = s[i]
  <2>1. n - i \in 0 .. n /\ n - (n - i) = i
    BY <1>1
  <2>2. h[n - i] = v[i]
    BY <1>7, <2>1, Zenon
  <2> QED BY <1>6, <2>2, Zenon
<1> QED BY <1>4, <1>8 DEF h

LEMMA ReverseSeq ==
  ASSUME NEW s, IsSeq(s)
  PROVE  /\ IsSeq(Reverse(s)) /\ Len(Reverse(s)) = Len(s)
         /\ \A i \in 1 .. Len(s) : Reverse(s)[i] = s[Len(s) - i + 1]
<1> DEFINE n == Len(s)
           T == {s[i] : i \in 1 .. n}
           t == [i \in 1 .. n |-> s[n - i + 1]]
<1>1. n \in Nat
  BY SeqLen
<1> HIDE DEF n
<1>2. \A i \in 1 .. n : n - i + 1 \in 1 .. n
  BY <1>1
<1>3. t \in [1 .. n -> T]
  BY <1>2
<1>4. IsSeq(t) /\ Len(t) = n
  BY <1>1, <1>3, FunSeq
<1>5. \A i \in 1 .. n : t[i] = s[n - i + 1]
  OBVIOUS
<1>6. Reverse(s) = t
  BY DEF Reverse, n
<1> QED BY <1>4, <1>5, <1>6 DEF n

\* The number whose bytes are s, in either order, is written as these bytes.
LEMMA RoundTrip ==
  ASSUME NEW s, IsSeq(s), \A i \in 1 .. Len(s) : s[i] \in Bytes, NEW le \in BOOLEAN
  PROVE  LET value == Number(IF le THEN Reverse(s) ELSE s)
         IN value \in Nat /\ Encoded(value, Len(s), le) = s
<1> DEFINE n == Len(s)
           t == IF le THEN Reverse(s) ELSE s
           e == Encoded(Number(t), n, le)
<1>1. n \in Nat /\ IsSeq(e) /\ Len(e) = n
  <2>1. n \in Nat
    BY SeqLen
  <2> QED BY <2>1, EncodedSeq, Zenon
<1>2. IsSeq(t) /\ Len(t) = n
  BY ReverseSeq, Zenon
<1>3. \A i \in 1 .. n : n - i + 1 \in 1 .. n /\ n - (n - i + 1) = i - 1 /\ n - (n - i + 1) + 1 = i
  BY <1>1
<1>4. \A i \in 1 .. n : t[i] = IF le THEN s[n - i + 1] ELSE s[i]
  BY ReverseSeq, Zenon
<1>5. \A i \in 1 .. n : t[i] \in Bytes
  BY <1>3, <1>4, Zenon
<1>6. /\ Number(t) \in Nat
      /\ \A i \in 1 .. n : Shifted(Number(t), n)[n - i] % 256 = t[i]
  <2> HIDE DEF t, n
  <2>1. n = Len(t)
    BY <1>2
  <2> QED BY <1>2, <1>5, <2>1, ShiftedDigits, Zenon
<1>7. ASSUME NEW i \in 1 .. n PROVE e[i] = s[i]
  <2>1. CASE le
    <3>1. e = BinaryLE(Number(t), n)
      BY <2>1, Zenon DEF Encoded
    <3>2. e[i] = Shifted(Number(t), n)[i - 1] % 256
      BY <3>1 DEF BinaryLE
    <3>3. Shifted(Number(t), n)[n - (n - i + 1)] % 256 = t[n - i + 1]
      BY <1>3, <1>6, Zenon
    <3>4. t[n - i + 1] = s[n - (n - i + 1) + 1]
      BY <1>3, <1>4, <2>1, Zenon
    <3> QED BY <1>3, <3>2, <3>3, <3>4, Zenon
  <2>2. CASE ~le
    <3>1. e = Binary(Number(t), n)
      BY <2>2, Zenon DEF Encoded
    <3>2. e[i] = Shifted(Number(t), n)[n - i] % 256
      BY <3>1 DEF Binary
    <3> QED BY <1>4, <1>6, <2>2, <3>2, Zenon
  <2> QED BY <2>1, <2>2
<1>8. e = s
  <2> HIDE DEF e
  <2> QED BY <1>1, <1>7, SeqSame, Zenon
<1> QED BY <1>6, <1>8

-----------------------------------------------------------------------------
(* Buffers.                                                                *)

Formed(b) ==
  /\ b = [data |-> b.data, r |-> b.r, w |-> b.w, mr |-> b.mr, mw |-> b.mw]
  /\ IsSeq(b.data)
  /\ b.r \in Nat /\ b.w \in Nat /\ b.mr \in Nat /\ b.mw \in Nat

Fits(b) == b.r <= b.w /\ b.w <= Len(b.data)

LEMMA Made ==
  ASSUME NEW data, IsSeq(data), NEW r \in Nat, NEW w \in Nat, NEW mr \in Nat, NEW mw \in Nat,
         NEW b, b = [data |-> data, r |-> r, w |-> w, mr |-> mr, mw |-> mw]
  PROVE  /\ Formed(b) /\ b.data = data /\ b.r = r /\ b.w = w /\ b.mr = mr /\ b.mw = mw
BY DEF Formed

LEMMA NewFormed ==
  ASSUME NEW s, IsSeq(s)
  PROVE  Formed(New(s)) /\ New(s).data = s /\ New(s).r = 0 /\ New(s).w = Len(s)
<1>1. Len(s) \in Nat
  BY SeqLen
<1> QED BY <1>1, Made DEF New

\* An index is changed.
LEMMA IndexesChanged ==
  ASSUME NEW b, Formed(b), NEW i \in Nat
  PROVE  /\ Formed([b EXCEPT !.r = i]) /\ Formed([b EXCEPT !.w = i])
         /\ Formed([b EXCEPT !.mr = i]) /\ Formed([b EXCEPT !.mw = i])
<1>1. b = [data |-> b.data, r |-> b.r, w |-> b.w, mr |-> b.mr, mw |-> b.mw]
  BY DEF Formed
<1>2. /\ [b EXCEPT !.r = i] = [data |-> b.data, r |-> i, w |-> b.w, mr |-> b.mr, mw |-> b.mw]
      /\ [b EXCEPT !.w = i] = [data |-> b.data, r |-> b.r, w |-> i, mr |-> b.mr, mw |-> b.mw]
      /\ [b EXCEPT !.mr = i] = [data |-> b.data, r |-> b.r, w |-> b.w, mr |-> i, mw |-> b.mw]
      /\ [b EXCEPT !.mw = i] = [data |-> b.data, r |-> b.r, w |-> b.w, mr |-> b.mr, mw |-> i]
  BY <1>1
<1> QED BY <1>2, Made DEF Formed

LEMMA ReaderMoved ==
  ASSUME NEW b, Formed(b), NEW i \in Nat, NEW c, c = [b EXCEPT !.r = i]
  PROVE  Formed(c)
<1>1. Formed([b EXCEPT !.r = i])
  BY IndexesChanged
<1> QED BY <1>1, Zenon

\* Bytes are stored, or dropped.
LEMMA DataChanged ==
  ASSUME NEW b, Formed(b), NEW data, IsSeq(data)
  PROVE  LET c == [b EXCEPT !.data = data]
         IN /\ Formed(c) /\ c.data = data
            /\ c.r = b.r /\ c.w = b.w /\ c.mr = b.mr /\ c.mw = b.mw
<1>1. b = [data |-> b.data, r |-> b.r, w |-> b.w, mr |-> b.mr, mw |-> b.mw]
  BY DEF Formed
<1>2. [b EXCEPT !.data = data] = [data |-> data, r |-> b.r, w |-> b.w, mr |-> b.mr, mw |-> b.mw]
  BY <1>1
<1> QED BY <1>2, Made DEF Formed

LEMMA SetDataFormed ==
  ASSUME NEW b, Formed(b), NEW i \in Nat, NEW s, IsSeq(s)
  PROVE  LET c == SetData(b, i, s)
         IN /\ Formed(c) /\ Len(c.data) = Len(b.data) + Len(s)
            /\ c.r = b.r /\ c.w = b.w /\ c.mr = b.mr /\ c.mw = b.mw
<1> DEFINE front == SubSeq(b.data, 1, i)
           back == SubSeq(b.data, i + 1, Len(b.data))
           middle == front \o s
           whole == middle \o back
           data == IF i > Len(b.data) THEN b.data \o s ELSE whole
<1>1. IsSeq(b.data) /\ Len(b.data) \in Nat /\ Len(s) \in Nat
  BY SeqLen DEF Formed
<1>2. IsSeq(data) /\ Len(data) = Len(b.data) + Len(s)
  <2>1. CASE i > Len(b.data)
    BY <1>1, <2>1, SeqCat
  <2>2. CASE i <= Len(b.data)
    <3>1. IsSeq(front) /\ Len(front) = i
      BY <2>2, SeqSub
    <3>2. IsSeq(back) /\ Len(back) = Len(b.data) - i
      BY <1>1, <2>2, SeqSub
    <3> HIDE DEF front, back
    <3>3. IsSeq(middle) /\ Len(middle) = i + Len(s)
      BY <3>1, SeqCat
    <3> HIDE DEF middle
    <3>4. IsSeq(whole) /\ Len(whole) = (i + Len(s)) + (Len(b.data) - i)
      BY <3>2, <3>3, SeqCat
    <3> HIDE DEF whole
    <3>5. data = whole
      BY <1>1, <2>2
    <3> HIDE DEF data
    <3>6. IsSeq(data)
      BY <3>4, <3>5, Zenon
    <3>7. Len(data) = Len(whole)
      BY <3>5, Zenon
    <3>8. Len(whole) = Len(b.data) + Len(s)
      <4>1. \A m, n \in Nat : (i + n) + (m - i) = m + n
        OBVIOUS
      <4> QED BY <1>1, <3>4, <4>1, Zenon
    <3> QED BY <3>6, <3>7, <3>8
  <2> HIDE DEF data
  <2> QED BY <1>1, <2>1, <2>2
<1>3. SetData(b, i, s) = [b EXCEPT !.data = data]
  BY DEF SetData
<1> HIDE DEF data
<1> QED BY <1>2, <1>3, DataChanged

LEMMA WriteDataFormed ==
  ASSUME NEW b, Formed(b), NEW s, IsSeq(s)
  PROVE  Formed(WriteData(b, s)) /\ (Fits(b) => Fits(WriteData(b, s)))
<1> DEFINE c == SetData(b, b.w, s)
           i == IF b.w > Len(b.data) THEN Len(b.data) + Len(s) ELSE b.w + Len(s)
           e == WriteData(b, s)
<1>1. b.r \in Nat /\ b.w \in Nat /\ Len(b.data) \in Nat /\ Len(s) \in Nat
  BY SeqLen DEF Formed
<1>2. /\ Formed(c) /\ Len(c.data) = Len(b.data) + Len(s)
      /\ c.r = b.r /\ c.w = b.w /\ c.mr = b.mr /\ c.mw = b.mw
  BY <1>1, SetDataFormed
<1> HIDE DEF c
<1>3. e = [c EXCEPT !.w = i]
  BY <1>2 DEF WriteData, c
<1>4. i \in Nat
  BY <1>1
<1> HIDE DEF i, e
<1>5. Formed(e)
  BY <1>2, <1>3, <1>4, IndexesChanged
<1>6. e.r = b.r /\ e.w = i /\ e.data = c.data
  BY <1>2, <1>3 DEF Formed
<1>7. Fits(b) => Fits(e)
  BY <1>1, <1>2, <1>6 DEF Fits, i
<1> QED BY <1>5, <1>7 DEF e

LEMMA SliceLen ==
  ASSUME NEW s, IsSeq(s), NEW i \in Nat, i <= Len(s), NEW n \in Int
  PROVE  /\ IsSeq(Slice(s, i, n)) /\ Len(Slice(s, i, n)) \in Nat
         /\ i + Len(Slice(s, i, n)) <= Len(s)
         /\ n >= 0 => Len(Slice(s, i, n)) <= n
<1> DEFINE l == Len(s)
           m == IF n < 0 THEN l ELSE Least(i + n, l)
           t == SubSeq(s, i + 1, m)
<1>1. l \in Nat /\ i <= l
  BY SeqLen
<1>2. Slice(s, i, n) = t
  BY DEF Slice
<1> HIDE DEF l
<1>3. m \in Nat /\ i <= m /\ m <= l /\ (n >= 0 => m <= i + n)
  BY <1>1 DEF Least
<1> HIDE DEF m
<1>4. IsSeq(t) /\ Len(t) = IF i + 1 <= m THEN m - (i + 1) + 1 ELSE 0
  BY <1>3, SeqSub
<1> HIDE DEF t
<1>5. Len(t) = m - i
  BY <1>3, <1>4
<1>6. Len(t) \in Nat /\ i + Len(t) <= l /\ (n >= 0 => Len(t) <= n)
  BY <1>1, <1>3, <1>5
<1> QED BY <1>2, <1>4, <1>6, Zenon DEF l

\* The outcome o of a call.
LEMMA OutcomeFields ==
  ASSUME NEW b, NEW value, NEW bytes, NEW end
  PROVE  LET o == Outcome(b, value, bytes, end)
         IN o.buf = b /\ o.value = value /\ o.bytes = bytes /\ o.end = end
BY DEF Outcome

LEMMA ReadableLen ==
  ASSUME Formed(buf), InBounds
  PROVE  Len(Readable(buf)) = buf.w - buf.r
<1> DEFINE l == Len(buf.data)
<1>1. l \in Nat /\ buf.r \in Nat /\ buf.w \in Nat /\ buf.r <= buf.w
  BY SeqLen DEF Formed, InBounds
<1> HIDE DEF l
<1>2. Len(SubSeq(buf.data, buf.r + 1, buf.w))
        = IF buf.r + 1 <= buf.w THEN buf.w - (buf.r + 1) + 1 ELSE 0
  BY <1>1, SeqSub
<1> QED BY <1>1, <1>2 DEF Readable

\* A call that returns and keeps the order of the indexes.
LEMMA FineCall ==
  ASSUME NEW op, NEW n, NEW o, Call(op, n, o), Formed(o.buf), o.end = "returns",
         Formed(buf), Fits(buf) => Fits(o.buf)
  PROVE  Formed(buf') /\ BoundsStep
<1>1. buf' = o.buf /\ out'.end = "returns"
  BY DEF Call
<1>2. InBounds => Fits(buf)
  BY DEF InBounds, Fits
<1>3. Fits(o.buf) => InBounds'
  BY <1>1 DEF InBounds, Fits, Formed
<1> QED BY <1>1, <1>2, <1>3 DEF BoundsStep

LEMMA FineSet ==
  ASSUME NEW op, NEW n, NEW b, Set(op, n, b), Formed(b), Formed(buf), Fits(buf) => Fits(b)
  PROVE  Formed(buf') /\ BoundsStep
<1> DEFINE o == Returns(b, 0, <<>>)
<1>1. o.buf = b /\ o.end = "returns"
  BY OutcomeFields DEF Returns
<1>2. Call(op, n, o)
  BY DEF Set
<1> HIDE DEF o
<1> QED BY <1>1, <1>2, FineCall

\* A call that returns, or throws as well, and may leave the bounds.
LEMMA OtherCall ==
  ASSUME NEW op, NEW n, NEW o, Call(op, n, o), Formed(o.buf)
  PROVE  /\ Formed(buf') /\ buf' = o.buf
         /\ out'.op = op /\ out'.n = n /\ out'.end = o.end
         /\ InBounds' <=> Fits(o.buf)
BY DEF Call, InBounds, Fits, Formed

-----------------------------------------------------------------------------
(* The calls.                                                              *)

LEMMA WritesKeep ==
  ASSUME Formed(buf), Writes
  PROVE  Formed(buf') /\ BoundsStep
<1>1. PICK s \in Strings :
        \/ WriteBytes(s) \/ WriteBuf(s)
        \/ \E le \in BOOLEAN : WriteNumber(s, le)
        \/ \E i \in 0 .. MaxLen : SetBytes(i, s) \/ AssignBuf(s, i)
  BY DEF Writes
<1>2. IsSeq(s) /\ Len(s) \in Nat
  BY StringSeq, SeqLen
<1>3. ASSUME NEW t, IsSeq(t), NEW op, NEW n, NEW value,
             Call(op, n, Returns(WriteData(buf, t), value, s))
      PROVE  Formed(buf') /\ BoundsStep
  <2> DEFINE o == Returns(WriteData(buf, t), value, s)
  <2>1. o.buf = WriteData(buf, t) /\ o.end = "returns"
    BY OutcomeFields DEF Returns
  <2>2. Formed(WriteData(buf, t)) /\ (Fits(buf) => Fits(WriteData(buf, t)))
    BY <1>3, WriteDataFormed
  <2>3. Call(op, n, o)
    BY <1>3
  <2> HIDE DEF o
  <2> QED BY <2>1, <2>2, <2>3, FineCall
<1>4. CASE WriteBytes(s)
  BY <1>2, <1>3, <1>4 DEF WriteBytes
<1>5. CASE WriteBuf(s)
  BY <1>2, <1>3, <1>5, CStringSeq DEF WriteBuf
<1>6. ASSUME NEW le \in BOOLEAN, WriteNumber(s, le)
      PROVE  Formed(buf') /\ BoundsStep
  <2> DEFINE value == Number(IF le THEN Reverse(s) ELSE s)
             t == Encoded(value, Len(s), le)
  <2>1. Call("write", Len(s), Returns(WriteData(buf, t), value, s))
    BY <1>6 DEF WriteNumber
  <2> HIDE DEF value
  <2>2. IsSeq(t)
    BY <1>2, EncodedSeq
  <2> HIDE DEF t
  <2> QED BY <1>3, <2>1, <2>2
<1>7. ASSUME NEW i \in 0 .. MaxLen, SetBytes(i, s)
      PROVE  Formed(buf') /\ BoundsStep
  <2> DEFINE c == SetData(buf, i, s)
  <2>1. i \in Nat
    BY UseAssumption
  <2>2. /\ Formed(c) /\ Len(c.data) = Len(buf.data) + Len(s)
        /\ c.r = buf.r /\ c.w = buf.w
    BY <1>2, <2>1, SetDataFormed
  <2>3. Set("set", i, c)
    BY <1>7 DEF SetBytes
  <2> HIDE DEF c
  <2>4. Fits(buf) => Fits(c)
    <3>1. Len(buf.data) \in Nat /\ buf.w \in Nat
      BY SeqLen DEF Formed
    <3> QED BY <1>2, <2>2, <3>1 DEF Fits
  <2> QED BY <2>2, <2>3, <2>4, FineSet
<1>8. ASSUME NEW i \in 0 .. MaxLen, AssignBuf(s, i)
      PROVE  Formed(buf') /\ BoundsStep
  <2> DEFINE d == [New(s) EXCEPT !.r = i]
             data == buf.data \o d.data
             c == Assign(buf, d)
  <2>1. i \in Nat /\ i <= Len(s) /\ Set("assign", 0, c)
    BY <1>8, UseAssumption DEF AssignBuf
  <2>2. Formed(d) /\ d.data = s /\ d.r = i /\ d.w = Len(s)
    <3>1. Formed(New(s)) /\ New(s).data = s /\ New(s).w = Len(s)
      BY <1>2, NewFormed
    <3>2. Formed(d)
      BY <2>1, <3>1, IndexesChanged
    <3> QED BY <3>1, <3>2 DEF Formed
  <2> HIDE DEF d
  <2>3. IsSeq(data) /\ Len(data) = Len(buf.data) + Len(s)
    BY <1>2, <2>2, SeqCat DEF Formed
  <2>4. c = [d EXCEPT !.data = data]
    BY DEF Assign
  <2> HIDE DEF data, c
  <2>5. Formed(c) /\ c.data = data /\ c.r = i /\ c.w = Len(s)
    BY <2>2, <2>3, <2>4, DataChanged
  <2>6. Fits(c)
    <3>1. Len(buf.data) \in Nat
      BY SeqLen DEF Formed
    <3> QED BY <1>2, <2>1, <2>3, <2>5, <3>1 DEF Fits
  <2> QED BY <2>1, <2>5, <2>6, FineSet
<1> QED BY <1>1, <1>4, <1>5, <1>6, <1>7, <1>8

\* A typed read moves the reader over the whole number, or not at all; it
\* throws only behind the stored bytes.
LEMMA ReadsGive ==
  ASSUME NEW b, Formed(b), NEW n \in Nat, NEW le, NEW o \in Reads(b, n, le)
  PROVE  \E i \in Nat :
           /\ o.buf = [b EXCEPT !.r = i]
           /\ i = b.r \/ (i = b.r + n /\ i <= Len(b.data))
           /\ o.end = "returns" \/ (o.end = "throws" /\ b.r > Len(b.data))
<1> DEFINE l == Len(b.data)
<1>1. b.r \in Nat /\ l \in Nat /\ IsSeq(b.data)
  BY SeqLen DEF Formed
<1>2. PICK g \in Gets(b, b.r, n, le) : o = [g EXCEPT !.buf.r = b.r + Len(g.bytes)]
  BY DEF Reads
<1>3. \/ l < b.r /\ g = Throws(b)
      \/ g = Returns(b, 0, <<>>)
      \/ /\ b.r <= l /\ b.r + n <= l
         /\ \E v : g = Returns(b, v, Slice(b.data, b.r, n))
  <2> HIDE DEF l
  <2>1. Gets(b, b.r, n, le) = IF b.r > l THEN {Throws(b)}
                              ELSE IF b.r + n > l THEN {Returns(b, 0, <<>>)}
                              ELSE {Returns(b, v, Slice(b.data, b.r, n)) : v \in Decodings(Slice(b.data, b.r, n), le)}
    BY DEF Gets, l
  <2> QED BY <1>1, <2>1
<1>4. \E value, bytes, end :
        /\ g = [buf |-> b, value |-> value, bytes |-> bytes, end |-> end]
        /\ Len(bytes) = 0 \/ (Len(bytes) = n /\ b.r + n <= l)
        /\ end = "returns" \/ (end = "throws" /\ l < b.r)
  <2>1. CASE l < b.r /\ g = Throws(b)
    <3>1. g = [buf |-> b, value |-> 0, bytes |-> <<>>, end |-> "throws"]
      BY <2>1 DEF Throws, Outcome
    <3> HIDE DEF l
    <3> QED BY <2>1, <3>1, NoSeq
  <2>2. CASE g = Returns(b, 0, <<>>)
    <3>1. g = [buf |-> b, value |-> 0, bytes |-> <<>>, end |-> "returns"]
      BY <2>2 DEF Returns, Outcome
    <3> HIDE DEF l
    <3> QED BY <3>1, NoSeq
  <2>3. CASE b.r <= l /\ b.r + n <= l /\ \E v : g = Returns(b, v, Slice(b.data, b.r, n))
    <3>1. Slice(b.data, b.r, n) = SubSeq(b.data, b.r + 1, b.r + n)
      <4>1. ~(n < 0) /\ Least(b.r + n, l) = b.r + n
        BY <2>3 DEF Least
      <4> QED BY <4>1 DEF Slice
    <3>2. Len(SubSeq(b.data, b.r + 1, b.r + n))
            = IF b.r + 1 <= b.r + n THEN (b.r + n) - (b.r + 1) + 1 ELSE 0
      BY <1>1, SeqSub
    <3>3. Len(Slice(b.data, b.r, n)) = n
      <4>1. (IF b.r + 1 <= b.r + n THEN (b.r + n) - (b.r + 1) + 1 ELSE 0) = n
        <5>1. b.r \in Nat /\ n \in Nat
          BY <1>1
        <5> QED BY <5>1
      <4> QED BY <3>1, <3>2, <4>1
    <3>4. PICK v : g = Returns(b, v, Slice(b.data, b.r, n))
      BY <2>3
    <3> DEFINE t == Slice(b.data, b.r, n)
    <3>5. g = [buf |-> b, value |-> v, bytes |-> t, end |-> "returns"]
      BY <3>4 DEF Returns, Outcome
    <3> HIDE DEF t, l
    <3> QED BY <2>3, <3>3, <3>5 DEF t
  <2> QED BY <1>3, <2>1, <2>2, <2>3
<1>5. PICK value, bytes, end :
        /\ g = [buf |-> b, value |-> value, bytes |-> bytes, end |-> end]
        /\ Len(bytes) = 0 \/ (Len(bytes) = n /\ b.r + n <= l)
        /\ end = "returns" \/ (end = "throws" /\ l < b.r)
  BY <1>4
<1> DEFINE i == b.r + Len(bytes)
<1>6. i \in Nat /\ (i = b.r \/ (i = b.r + n /\ i <= l))
  BY <1>1, <1>5
<1>7. o.buf = [b EXCEPT !.r = i] /\ o.end = end
  <2>1. g.bytes = bytes
    BY <1>5
  <2>2. o = [g EXCEPT !.buf.r = i]
    BY <1>2, <2>1
  <2> HIDE DEF i
  <2> QED BY <1>5, <2>2
<1> HIDE DEF i
<1>8. end = "returns" \/ (end = "throws" /\ b.r > l)
  BY <1>1, <1>5
<1> QED BY <1>6, <1>7, <1>8

LEMMA ReadsKeep ==
  ASSUME Formed(buf), ReadsAny
  PROVE  Formed(buf') /\ BoundsStep
<1> DEFINE l == Len(buf.data)
<1>1. /\ buf.r \in Nat /\ buf.w \in Nat /\ l \in Nat /\ IsSeq(buf.data)
      /\ Widths \subseteq Nat /\ DoubleWidth \in Nat
  BY SeqLen, UseAssumption, WidthAssumption DEF Formed
<1>2. ASSUME NEW op \in {"read", "readLE", "readBytes"}, NEW n \in Int, NEW o, Call(op, n, o),
             NEW i \in Nat, o.buf = [buf EXCEPT !.r = i],
             n < 0 \/ i <= buf.r + n,
             o.end = "returns" \/ buf.r > l
      PROVE  Formed(buf') /\ BoundsStep
  <2>1. Formed(o.buf)
    BY <1>2, ReaderMoved, Zenon
  <2>2. /\ Formed(buf') /\ buf' = o.buf /\ out'.op = op /\ out'.n = n /\ out'.end = o.end
        /\ InBounds' <=> Fits(o.buf)
    BY <1>2, <2>1, OtherCall
  <2>3. o.buf.r = i /\ o.buf.w = buf.w /\ o.buf.data = buf.data
    BY <1>2 DEF Formed
  <2>4. ASSUME InBounds
        PROVE  (InBounds' \/ ~Enough(n)) /\ o.end = "returns"
    <3>1. Len(Readable(buf)) = buf.w - buf.r
      BY <2>4, ReadableLen
    <3>2. buf.r <= buf.w /\ buf.w <= l
      BY <2>4 DEF InBounds
    <3>3. Enough(n) => i <= buf.w
      BY <1>1, <1>2, <3>1, <3>2 DEF Enough
    <3>4. Enough(n) => Fits(o.buf)
      BY <2>3, <3>2, <3>3 DEF Fits
    <3>5. o.end = "returns"
      BY <1>1, <1>2, <3>2
    <3> QED BY <2>2, <3>4, <3>5
  <2>5. out'.op \in {"read", "readLE", "readBytes", "skip"}
    BY <2>2
  <2> QED BY <2>2, <2>4, <2>5, Zenon DEF BoundsStep
<1>3. CASE ReadOne
  <2> DEFINE o == ReadChar(buf)
  <2>1. Call("read", 1, o)
    BY <1>3 DEF ReadOne
  <2>2. CASE buf.r >= l
    <3>1. o.buf = [buf EXCEPT !.r = IF buf.r > l THEN buf.r + 1 ELSE buf.r]
          /\ (o.end = "returns" \/ buf.r > l)
      <4>1. CASE buf.r > l
        BY <4>1, OutcomeFields DEF ReadChar, Throws
      <4>2. CASE buf.r = l
        <5>1. o.buf = buf /\ o.end = "returns"
          BY <1>1, <4>2, OutcomeFields DEF ReadChar, Returns
        <5>2. buf = [buf EXCEPT !.r = buf.r]
          BY DEF Formed
        <5> QED BY <1>1, <4>2, <5>1, <5>2
      <4> QED BY <1>1, <2>2, <4>1, <4>2
    <3> HIDE DEF o
    <3>2. CASE buf.r = l
      <4>1. o.buf = [buf EXCEPT !.r = buf.r] /\ o.end = "returns" /\ buf.r <= buf.r + 1
        BY <1>1, <3>1, <3>2
      <4> QED BY <1>1, <1>2, <2>1, <4>1
    <3>3. CASE buf.r > l
      <4>1. Formed(o.buf)
        <5>1. o.buf = [buf EXCEPT !.r = buf.r + 1] /\ buf.r + 1 \in Nat
          BY <1>1, <3>1, <3>3
        <5> QED BY <5>1, ReaderMoved, Zenon
      <4>2. ~InBounds
        BY <1>1, <3>3 DEF InBounds
      <4> QED BY <2>1, <4>1, <4>2, OtherCall DEF BoundsStep
    <3> QED BY <1>1, <2>2, <3>2, <3>3
  <2>3. CASE buf.r < l
    <3>1. o = Returns([buf EXCEPT !.r = @ + 1], buf.data[buf.r + 1], <<buf.data[buf.r + 1]>>)
      BY <1>1, <2>3 DEF ReadChar
    <3>2. o.buf = [buf EXCEPT !.r = buf.r + 1] /\ o.end = "returns"
      BY <3>1, OutcomeFields DEF Returns
    <3> HIDE DEF o
    <3>3. buf.r + 1 \in Nat /\ buf.r + 1 <= buf.r + 1
      BY <1>1
    <3> QED BY <1>2, <2>1, <3>2, <3>3
  <2> QED BY <1>1, <2>2, <2>3
<1>4. ASSUME NEW le \in BOOLEAN, NEW n \in Widths, ReadNumber(n, le)
      PROVE  Formed(buf') /\ BoundsStep
  <2>1. PICK o \in Reads(buf, n, le) : Call(IF le THEN "readLE" ELSE "read", n, o)
    BY <1>4 DEF ReadNumber
  <2>2. n \in Nat
    BY <1>1
  <2>3. PICK i \in Nat :
          /\ o.buf = [buf EXCEPT !.r = i]
          /\ i = buf.r \/ (i = buf.r + n /\ i <= l)
          /\ o.end = "returns" \/ (o.end = "throws" /\ buf.r > l)
    BY <2>1, <2>2, ReadsGive
  <2>4. (IF le THEN "readLE" ELSE "read") \in {"read", "readLE", "readBytes"}
    OBVIOUS
  <2> HIDE DEF l
  <2>5. i <= buf.r + n /\ n \in Int
    BY <1>1, <2>2, <2>3
  <2> QED BY <1>2, <2>1, <2>3, <2>4, <2>5
<1>5. ASSUME NEW n \in -1 .. MaxLen, Take(n)
      PROVE  Formed(buf') /\ BoundsStep
  <2> DEFINE o == ReadBytes(buf, n)
             t == Slice(buf.data, buf.r, n)
  <2>1. Call("readBytes", n, o) /\ n \in Int
    BY <1>5, UseAssumption DEF Take
  <2>2. CASE buf.r > l
    <3>1. o.buf = buf
      BY <2>2, OutcomeFields DEF ReadBytes, Throws
    <3>2. ~InBounds
      BY <1>1, <2>2 DEF InBounds
    <3> QED BY <2>1, <3>1, <3>2, OtherCall DEF BoundsStep
  <2>3. CASE buf.r <= l
    <3>1. Len(t) \in Nat /\ buf.r + Len(t) <= l /\ (n >= 0 => Len(t) <= n)
      BY <1>1, <2>1, <2>3, SliceLen
    <3>2. o.buf = [buf EXCEPT !.r = buf.r + Len(t)] /\ o.end = "returns"
      BY <1>1, <2>3, OutcomeFields DEF ReadBytes, Returns
    <3> HIDE DEF t, o, l
    <3>3. buf.r + Len(t) \in Nat /\ (n < 0 \/ buf.r + Len(t) <= buf.r + n)
      BY <1>1, <2>1, <3>1
    <3> QED BY <1>2, <2>1, <3>2, <3>3
  <2> QED BY <1>1, <2>2, <2>3
<1>6. ASSUME NEW le \in BOOLEAN, ReadReal(le)
      PROVE  Formed(buf') /\ BoundsStep
  <2> DEFINE o == ReadDouble(buf, le)
  <2>1. Call("readDouble", DoubleWidth, o)
    BY <1>6 DEF ReadReal
  <2>2. Formed(o.buf)
    <3>1. \E i \in Nat : o.buf = buf \/ o.buf = [buf EXCEPT !.r = i]
      <4>1. CASE buf.r <= l /\ buf.r + DoubleWidth > l
        BY <4>1, OutcomeFields DEF ReadDouble, Returns
      <4>2. CASE ~(buf.r <= l /\ buf.r + DoubleWidth > l) /\ le
        <5> DEFINE i == IF DoubleWidth - 1 - buf.r \in 0 .. l - 1 THEN DoubleWidth ELSE buf.r
        <5>1. o = Throws([buf EXCEPT !.r = i])
          BY <4>2 DEF ReadDouble
        <5>2. o.buf = [buf EXCEPT !.r = i]
          BY <5>1, OutcomeFields DEF Throws
        <5> QED BY <1>1, <5>2
      <4>3. CASE ~(buf.r <= l /\ buf.r + DoubleWidth > l) /\ ~le
        <5> DEFINE i == IF buf.r > l THEN buf.r ELSE l
        <5>1. o = Throws([buf EXCEPT !.r = i])
          BY <4>3 DEF ReadDouble
        <5>2. o.buf = [buf EXCEPT !.r = i]
          BY <5>1, OutcomeFields DEF Throws
        <5> QED BY <1>1, <5>2
      <4> QED BY <4>1, <4>2, <4>3
    <3> HIDE DEF o
    <3>2. CASE o.buf = buf
      BY <3>2
    <3>3. ASSUME NEW i \in Nat, o.buf = [buf EXCEPT !.r = i] PROVE Formed(o.buf)
      BY <3>3, ReaderMoved, Zenon
    <3> QED BY <3>1, <3>2, <3>3
  <2> HIDE DEF o
  <2> QED BY <2>1, <2>2, OtherCall DEF BoundsStep
<1> QED BY <1>3, <1>4, <1>5, <1>6 DEF ReadsAny

\* Both indexes are changed.
Indexed(b, i, j) == [b EXCEPT !.r = i, !.w = j]

LEMMA BothChanged ==
  ASSUME NEW b, Formed(b), NEW i \in Nat, NEW j \in Nat
  PROVE  /\ Formed(Indexed(b, i, j)) /\ Indexed(b, i, j).data = b.data
         /\ Indexed(b, i, j).r = i /\ Indexed(b, i, j).w = j
<1> DEFINE c == Indexed(b, i, j)
<1>1. b = [data |-> b.data, r |-> b.r, w |-> b.w, mr |-> b.mr, mw |-> b.mw]
  BY DEF Formed
<1>2. c = [b EXCEPT !.r = i, !.w = j]
  BY DEF Indexed
<1> HIDE DEF c
<1>3. c = [data |-> b.data, r |-> i, w |-> j, mr |-> b.mr, mw |-> b.mw]
  BY <1>1, <1>2
<1>4. Formed(c) /\ c.data = b.data /\ c.r = i /\ c.w = j
  BY <1>3, Made DEF Formed
<1> QED BY <1>4 DEF c

\* A call that only sets the indexes, to i and j.
LEMMA IndexSet ==
  ASSUME Formed(buf), NEW op, NEW n, NEW i \in Nat, NEW j \in Nat, Set(op, n, Indexed(buf, i, j))
  PROVE  /\ Formed(buf') /\ buf'.r = i /\ out'.op = op /\ out'.n = n /\ out'.end = "returns"
         /\ i <= j /\ j <= Len(buf.data) => InBounds'
<1> DEFINE b == Indexed(buf, i, j)
<1>1. Formed(b) /\ b.data = buf.data /\ b.r = i /\ b.w = j
  BY BothChanged
<1>2. Set(op, n, b)
  OBVIOUS
<1> HIDE DEF b
<1>3. buf' = b /\ out'.op = op /\ out'.n = n /\ out'.end = "returns"
  BY <1>2 DEF Set, Call, Returns, Outcome
<1> QED BY <1>1, <1>3 DEF InBounds

LEMMA MovesKeep ==
  ASSUME Formed(buf), Moves
  PROVE  Formed(buf') /\ BoundsStep
<1> DEFINE l == Len(buf.data)
<1>1. /\ buf.r \in Nat /\ buf.w \in Nat /\ buf.mr \in Nat /\ buf.mw \in Nat /\ l \in Nat
      /\ IsSeq(buf.data) /\ \A i \in 0 .. MaxLen : i \in Nat
  BY SeqLen, UseAssumption DEF Formed
<1>2. /\ \A i : [buf EXCEPT !.r = i] = Indexed(buf, i, buf.w)
      /\ \A i : [buf EXCEPT !.w = i] = Indexed(buf, buf.r, i)
      /\ buf = Indexed(buf, buf.r, buf.w)
  BY DEF Formed, Indexed
<1>3. InBounds => buf.r <= buf.w /\ buf.w <= l
  BY DEF InBounds
<1> HIDE DEF l
<1>4. ASSUME NEW op, NEW n, NEW i \in Nat, NEW j \in Nat,
             Set(op, n, Indexed(buf, i, j)),
             InBounds => \/ i <= j /\ j <= l
                         \/ op = "skip" /\ ~Enough(n)
                         \/ op = "writerIndex" /\ n < buf.r
                         \/ op = "setIndex" /\ i > n
                         \/ op = "resetReader" /\ buf.mr > buf.w
                         \/ op = "resetWriter" /\ buf.mw \notin buf.r .. l
      PROVE  Formed(buf') /\ BoundsStep
  <2>1. /\ Formed(buf') /\ buf'.r = i /\ out'.op = op /\ out'.n = n /\ out'.end = "returns"
        /\ i <= j /\ j <= l => InBounds'
    BY <1>4, IndexSet DEF l
  <2> QED BY <1>4, <2>1, Zenon DEF BoundsStep, l
<1>5. CASE ClearAll
  <2>1. Set("clear", 0, Indexed(buf, 0, 0))
    BY <1>5 DEF ClearAll, Clear, Indexed
  <2>2. 0 \in Nat /\ 0 <= 0 /\ 0 <= l
    BY <1>1
  <2> QED BY <1>4, <2>1, <2>2
<1>6. CASE Discard
  <2> DEFINE o == DiscardReadBytes(buf)
  <2>1. Call("discard", 0, o)
    BY <1>6 DEF Discard
  <2>2. CASE buf.r + 1 > l
    <3>1. o.buf = buf
      BY <2>2, OutcomeFields DEF DiscardReadBytes, Throws, l
    <3>2. InBounds => InBounds' /\ buf.r = l
      <4>1. buf' = buf
        BY <2>1, <3>1 DEF Call
      <4> QED BY <1>1, <1>3, <2>2, <4>1 DEF InBounds
    <3> HIDE DEF o
    <3>3. Formed(buf') /\ out'.op = "discard"
      BY <2>1, <3>1, OtherCall
    <3> QED BY <3>2, <3>3 DEF BoundsStep, l
  <2>3. CASE buf.r + 1 <= l
    <3> DEFINE t == SubSeq(buf.data, buf.r + 2, l)
               c == [buf EXCEPT !.data = t]
               b == Indexed(c, 0, 0)
    <3>1. IsSeq(t) /\ Len(t) \in Nat
      <4>1. IsSeq(t)
        BY <1>1, SeqSub
      <4> QED BY <4>1, SeqLen
    <3>2. o = Returns([buf EXCEPT !.data = t, !.r = 0, !.w = 0], 0, <<>>)
      BY <1>1, <2>3 DEF DiscardReadBytes, l
    <3> HIDE DEF t
    <3>3. Formed(c) /\ c.data = t
      BY <3>1, DataChanged
    <3>4. [buf EXCEPT !.data = t, !.r = 0, !.w = 0] = b
      BY DEF Indexed
    <3>5. o.buf = b /\ o.end = "returns"
      BY <3>2, <3>4, OutcomeFields DEF Returns
    <3>6. Formed(b) /\ b.data = t /\ b.r = 0 /\ b.w = 0
      <4> HIDE DEF c
      <4>1. Formed(b) /\ b.data = c.data /\ b.r = 0 /\ b.w = 0
        BY <3>3, BothChanged
      <4> QED BY <3>3, <4>1
    <3>7. Fits(b)
      BY <3>1, <3>6 DEF Fits
    <3> HIDE DEF o, b
    <3> QED BY <2>1, <3>5, <3>6, <3>7, FineCall
  <2> QED BY <1>1, <2>2, <2>3
<1>7. CASE Mark
  <2> DEFINE c == MarkReader(buf)
             d == MarkWriter(buf)
  <2>1. Formed(c) /\ Formed(d)
    BY <1>1, IndexesChanged DEF MarkReader, MarkWriter
  <2>2. /\ c.r = buf.r /\ c.w = buf.w /\ c.data = buf.data
        /\ d.r = buf.r /\ d.w = buf.w /\ d.data = buf.data
    BY DEF MarkReader, MarkWriter, Formed
  <2>3. Set("mark", 0, c) \/ Set("mark", 0, d)
    BY <1>7 DEF Mark
  <2> HIDE DEF c, d
  <2>4. (Fits(buf) => Fits(c)) /\ (Fits(buf) => Fits(d))
    BY <2>2 DEF Fits
  <2> QED BY <2>1, <2>3, <2>4, FineSet
<1>8. CASE Reset
  <2>1. \/ Set("resetReader", 0, Indexed(buf, buf.mr, buf.w))
        \/ Set("resetWriter", 0, Indexed(buf, buf.r, buf.mw))
    BY <1>2, <1>8 DEF Reset, ResetReader, ResetWriter
  <2>2. InBounds => (buf.mr <= buf.w /\ buf.w <= l) \/ buf.mr > buf.w
    BY <1>1, <1>3
  <2>3. (buf.r <= buf.mw /\ buf.mw <= l) \/ buf.mw \notin buf.r .. l
    BY <1>1
  <2>4. CASE Set("resetReader", 0, Indexed(buf, buf.mr, buf.w))
    BY <1>1, <1>4, <2>2, <2>4
  <2>5. CASE Set("resetWriter", 0, Indexed(buf, buf.r, buf.mw))
    BY <1>1, <1>4, <2>3, <2>5
  <2> QED BY <2>1, <2>4, <2>5
<1>9. ASSUME NEW i \in 0 .. MaxLen, WriteZero(i)
      PROVE  Formed(buf') /\ BoundsStep
  <2> DEFINE t == Zeros(i)
             b == WriteData(buf, t)
             o == Returns(b, 0, t)
  <2>1. IsSeq(t)
    BY <1>1, ZerosSeq
  <2>2. Formed(b) /\ (Fits(buf) => Fits(b))
    BY <2>1, WriteDataFormed
  <2>3. o.buf = b /\ o.end = "returns"
    BY OutcomeFields DEF Returns
  <2>4. Call("write", Len(t), o)
    BY <1>9 DEF WriteZero, WriteBytes
  <2> HIDE DEF o, b, t
  <2> QED BY <2>2, <2>3, <2>4, FineCall
<1>10. ASSUME NEW i \in 0 .. MaxLen, Skip(i)
       PROVE  Formed(buf') /\ BoundsStep
  <2> DEFINE k == Least(buf.r + i, l)
  <2>1. Set("skip", i, Indexed(buf, k, buf.w))
    BY <1>2, <1>10 DEF Skip, SkipBytes, l
  <2>2. k \in Nat /\ k <= buf.r + i /\ i \in Nat
    BY <1>1 DEF Least
  <2> HIDE DEF k
  <2>3. InBounds => (k <= buf.w /\ buf.w <= l) \/ ~Enough(i)
    <3>1. InBounds => Len(Readable(buf)) = buf.w - buf.r
      BY ReadableLen
    <3> QED BY <1>1, <1>3, <2>2, <3>1 DEF Enough
  <2> QED BY <1>1, <1>4, <2>1, <2>2, <2>3
<1>11. ASSUME NEW i \in 0 .. MaxLen, MoveReader(i)
       PROVE  Formed(buf') /\ BoundsStep
  <2> DEFINE k == IF i <= buf.w THEN i ELSE buf.r
  <2>1. Set("readerIndex", i, Indexed(buf, k, buf.w))
    BY <1>2, <1>11 DEF MoveReader, ReaderIndex
  <2>2. k \in Nat /\ (InBounds => k <= buf.w /\ buf.w <= l)
    BY <1>1, <1>3
  <2> HIDE DEF k
  <2> QED BY <1>1, <1>4, <2>1, <2>2
<1>12. ASSUME NEW i \in 0 .. MaxLen, MoveWriter(i)
       PROVE  Formed(buf') /\ BoundsStep
  <2> DEFINE k == IF i < l THEN i ELSE buf.w
  <2>1. Set("writerIndex", i, Indexed(buf, buf.r, k))
    BY <1>2, <1>12 DEF MoveWriter, WriterIndex, l
  <2>2. k \in Nat /\ (InBounds => (buf.r <= k /\ k <= l) \/ i < buf.r)
    BY <1>1, <1>3
  <2> HIDE DEF k
  <2> QED BY <1>1, <1>4, <2>1, <2>2
<1>13. ASSUME NEW i \in 0 .. MaxLen, NEW j \in 0 .. MaxLen, MoveBoth(i, j)
       PROVE  Formed(buf') /\ BoundsStep
  <2>1. CASE buf.data = <<>>
    <3>1. Set("setIndex", j, Indexed(buf, buf.r, buf.w))
      BY <1>2, <1>13, <2>1 DEF MoveBoth, SetIndex
    <3> QED BY <1>1, <1>3, <1>4, <3>1
  <2>2. CASE buf.data # <<>>
    <3> DEFINE k == Least(i, l - 1)
               m == Least(j, l)
    <3>1. Set("setIndex", j, Indexed(buf, k, m))
      BY <1>13, <2>2 DEF MoveBoth, SetIndex, Indexed, l
    <3>2. l # 0
      BY <1>1, <2>2, SeqLen DEF l
    <3>3. k \in Nat /\ m \in Nat /\ ((k <= m /\ m <= l) \/ k > j)
      BY <1>1, <3>2 DEF Least
    <3> HIDE DEF k, m
    <3> QED BY <1>1, <1>4, <3>1, <3>3
  <2> QED BY <2>1, <2>2
<1> QED BY <1>5, <1>6, <1>7, <1>8, <1>9, <1>10, <1>11, <1>12, <1>13 DEF Moves

-----------------------------------------------------------------------------
(* Looking.                                                                *)

LEMMA InSub ==
  ASSUME NEW s, NEW i \in Nat, NEW m \in Nat, NEW v
  PROVE  Contains(SubSeq(s, i + 1, m), v) <=> \E k \in i .. m - 1 : s[k + 1] = v
<1> DEFINE t == SubSeq(s, i + 1, m)
<1>1. /\ Len(t) = IF i + 1 <= m THEN m - (i + 1) + 1 ELSE 0
      /\ \A j \in 1 .. m - (i + 1) + 1 : t[j] = s[(i + 1) + j - 1]
  BY SeqSub
<1> HIDE DEF t
<1>2. ASSUME NEW j \in 1 .. Len(t), t[j] = v
      PROVE  \E k \in i .. m - 1 : s[k + 1] = v
  <2>1. /\ j \in 1 .. m - (i + 1) + 1 /\ i + j - 1 \in i .. m - 1
        /\ (i + 1) + j - 1 = (i + j - 1) + 1
    BY <1>1
  <2>2. s[(i + j - 1) + 1] = v
    BY <1>1, <1>2, <2>1
  <2> QED BY <2>1, <2>2
<1>3. ASSUME NEW k \in i .. m - 1, s[k + 1] = v
      PROVE  \E j \in 1 .. Len(t) : t[j] = v
  <2>1. /\ k - i + 1 \in 1 .. m - (i + 1) + 1 /\ k - i + 1 \in 1 .. Len(t)
        /\ (i + 1) + (k - i + 1) - 1 = k + 1
    BY <1>1
  <2>2. t[k - i + 1] = v
    BY <1>1, <1>3, <2>1
  <2> QED BY <2>1, <2>2
<1>4. Contains(t, v) <=> \E j \in 1 .. Len(t) : t[j] = v
  BY DEF Contains
<1> QED BY <1>2, <1>3, <1>4 DEF t

\* indexOf gives the first place among those asked for.
LEMMA IndexFound ==
  ASSUME NEW b, Formed(b), NEW i \in Nat, NEW to \in Nat, NEW v
  PROVE  LET k == IndexOf(b, i, to, v)
         IN IF k = -1 THEN ~Contains(SubSeq(b.data, i + 1, Least(to, Len(b.data))), v)
            ELSE k >= i /\ b.data[k + 1] = v /\ ~Contains(SubSeq(b.data, i + 1, k), v)
<1> DEFINE m == Least(to, Len(b.data))
           K == Positions(b, i, m, v)
           k == IndexOf(b, i, to, v)
<1>1. m \in Nat
  BY SeqLen DEF Formed, Least
<1> HIDE DEF m
<1>2. K \subseteq Nat /\ \A j : j \in K <=> j \in i .. m - 1 /\ b.data[j + 1] = v
  BY <1>1 DEF Positions
<1>3. k = IF K = {} THEN -1 ELSE FirstOf(K)
  BY DEF IndexOf, m
<1> HIDE DEF K, k
<1>4. CASE K = {}
  <2>1. k = -1
    BY <1>3, <1>4
  <2>2. ~ \E j \in i .. m - 1 : b.data[j + 1] = v
    BY <1>2, <1>4
  <2>3. ~Contains(SubSeq(b.data, i + 1, m), v)
    BY <1>1, <2>2, InSub
  <2> QED BY <2>1, <2>3 DEF k, m
<1>5. CASE K # {}
  <2>1. k \in K /\ \A j \in K : k <= j
    BY <1>2, <1>3, <1>5, FirstIn
  <2>2. k \in Nat /\ k \in i .. m - 1 /\ b.data[k + 1] = v
    BY <1>2, <2>1
  <2>3. ~ \E j \in i .. k - 1 : b.data[j + 1] = v
    <3> SUFFICES ASSUME NEW j \in i .. k - 1, b.data[j + 1] = v PROVE FALSE
      OBVIOUS
    <3>1. j \in i .. m - 1
      BY <1>1, <2>2
    <3>2. j \in K
      BY <1>2, <3>1
    <3> QED BY <2>1, <2>2, <3>2
  <2>4. ~Contains(SubSeq(b.data, i + 1, k), v)
    BY <2>2, <2>3, InSub
  <2>5. k # -1 /\ k >= i
    BY <1>1, <2>2
  <2> QED BY <2>2, <2>4, <2>5 DEF k
<1> QED BY <1>4, <1>5

\* A number found in the stored bytes, as a place in the readable ones.
LEMMA ReadableAt ==
  ASSUME NEW b, Formed(b), Fits(b)
  PROVE  /\ IsSeq(Readable(b)) /\ Len(Readable(b)) = b.w - b.r
         /\ \A j \in 1 .. b.w - b.r : Readable(b)[j] = b.data[b.r + j]
<1> DEFINE r == b.r
           w == b.w
           d == b.data
           t == SubSeq(d, r + 1, w)
<1>1. r \in Nat /\ w \in Nat /\ r <= w
  BY DEF Formed, Fits
<1> HIDE DEF r, w, d
<1>2. r + 1 \in Int /\ w \in Int
  BY <1>1
<1>3. /\ IsSeq(t) /\ Len(t) = IF r + 1 <= w THEN w - (r + 1) + 1 ELSE 0
      /\ \A j \in 1 .. w - (r + 1) + 1 : t[j] = d[(r + 1) + j - 1]
  BY <1>2, SeqSub
<1> HIDE DEF t
<1>4. Len(t) = w - r
  BY <1>1, <1>3
<1>5. ASSUME NEW j \in 1 .. w - r PROVE t[j] = d[r + j]
  <2>1. j \in 1 .. w - (r + 1) + 1 /\ (r + 1) + j - 1 = r + j
    BY <1>1
  <2> QED BY <1>3, <2>1
<1> QED BY <1>3, <1>4, <1>5 DEF Readable, t, r, w, d

\* bytesBefore(value) gives the first place among the readable bytes.
LEMMA ByteFound ==
  ASSUME NEW b, Formed(b), Fits(b), NEW v
  PROVE  BytesBefore(b, v).value = SelectInSeq(Readable(b), LAMBDA x : x = v) - 1
<1> DEFINE s == Readable(b)
           n == b.w - b.r
           m == Least(b.w, Len(b.data))
           K == Positions(b, b.r, m, v)
           I == {j \in 1 .. Len(s) : s[j] = v}
<1>1. b.r \in Nat /\ b.w \in Nat /\ Len(b.data) \in Nat /\ b.r <= b.w /\ b.w <= Len(b.data)
  BY SeqLen DEF Formed, Fits
<1>2. n \in Nat /\ Len(s) = n /\ \A j \in 1 .. n : s[j] = b.data[b.r + j]
  BY <1>1, ReadableAt
<1>3. SelectInSeq(s, LAMBDA x : x = v) = IF I # {} THEN Min(I) ELSE 0
  BY DEF SelectInSeq
<1>4. m = b.w
  BY <1>1 DEF Least
<1>5. K \subseteq Nat /\ \A k : k \in K <=> k \in b.r .. b.w - 1 /\ b.data[k + 1] = v
  BY <1>1, <1>4 DEF Positions
<1>6. BytesBefore(b, v).value = IF K # {} THEN FirstOf(K) - b.r ELSE -1
  BY <1>1 DEF BytesBefore, Returns, Throws, Outcome
<1>7. I \subseteq Nat /\ \A j : j \in I <=> j \in 1 .. n /\ b.data[b.r + j] = v
  BY <1>2
<1> HIDE DEF s, n, m, K, I
<1>8. ASSUME NEW k \in K PROVE k - b.r + 1 \in I
  <2>1. k \in Int /\ k - b.r + 1 \in 1 .. n /\ b.r + (k - b.r + 1) = k + 1
    BY <1>1, <1>5 DEF n
  <2> QED BY <1>5, <1>7, <2>1
<1>9. ASSUME NEW j \in I PROVE b.r + j - 1 \in K
  <2>1. j \in 1 .. n /\ b.data[b.r + j] = v
    BY <1>7
  <2>2. b.r + j - 1 \in b.r .. b.w - 1 /\ (b.r + j - 1) + 1 = b.r + j
    BY <1>1, <2>1 DEF n
  <2> QED BY <1>5, <2>1, <2>2
<1>10. CASE K = {}
  <2>1. I = {}
    BY <1>9, <1>10
  <2> QED BY <1>3, <1>6, <1>10, <2>1 DEF s
<1>11. CASE K # {}
  <2>1. FirstOf(K) \in K /\ \A k \in K : FirstOf(K) <= k
    BY <1>5, <1>11, FirstIn
  <2>2. I # {}
    BY <1>8, <2>1
  <2>3. Min(I) \in I /\ \A j \in I : Min(I) <= j
    BY <1>7, <2>2, MinIn
  <2>4. FirstOf(K) \in Nat /\ Min(I) \in Nat
    BY <1>5, <1>7, <2>1, <2>3
  <2>5. Min(I) <= FirstOf(K) - b.r + 1
    BY <1>8, <2>1, <2>3
  <2>6. FirstOf(K) <= b.r + Min(I) - 1
    BY <1>9, <2>1, <2>3
  <2>7. FirstOf(K) - b.r = Min(I) - 1
    BY <1>1, <2>4, <2>5, <2>6
  <2> QED BY <1>3, <1>6, <1>11, <2>2, <2>7 DEF s
<1> QED BY <1>10, <1>11

\* In a sequence the n bytes from the i-th on are all v.
LEMMA IsRun ==
  ASSUME NEW s, NEW i \in Nat \ {0}, NEW n \in Nat \ {0}, NEW v
  PROVE  SubSeq(s, i, i + n - 1) = [j \in 1 .. n |-> v]
           <=> \A j \in i .. i + n - 1 : s[j] = v
<1> DEFINE t == SubSeq(s, i, i + n - 1)
           run == [j \in 1 .. n |-> v]
<1>1. IsSeq(t) /\ Len(t) = n /\ \A j \in 1 .. n : t[j] = s[i + j - 1]
  <2>1. i + n - 1 \in Int /\ i \in Int /\ (i + n - 1) - i + 1 = n
    BY Z3
  <2>2. /\ IsSeq(t) /\ Len(t) = IF i <= i + n - 1 THEN (i + n - 1) - i + 1 ELSE 0
        /\ \A j \in 1 .. (i + n - 1) - i + 1 : t[j] = s[i + j - 1]
    BY <2>1, SeqSub
  <2> HIDE DEF t
  <2> QED BY <2>1, <2>2
<1>2. IsSeq(run) /\ Len(run) = n /\ \A j \in 1 .. n : run[j] = v
  <2>1. run \in [1 .. n -> {v}]
    OBVIOUS
  <2> QED BY <2>1, FunSeq
<1> HIDE DEF t, run
<1>3. ASSUME t = run, NEW j \in i .. i + n - 1 PROVE s[j] = v
  <2>1. j - i + 1 \in 1 .. n /\ i + (j - i + 1) - 1 = j
    OBVIOUS
  <2> QED BY <1>1, <1>2, <1>3, <2>1
<1>4. ASSUME \A j \in i .. i + n - 1 : s[j] = v PROVE t = run
  <2>1. \A j \in 1 .. n : i + j - 1 \in i .. i + n - 1
    OBVIOUS
  <2>2. \A j \in 1 .. n : t[j] = run[j]
    BY <1>1, <1>2, <1>4, <2>1
  <2> QED BY <1>1, <1>2, <2>2, SeqSame
<1> QED BY <1>3, <1>4 DEF t, run

\* bytesBefore(index, length, value) gives the first run of readable bytes
\* that does not end with the last of them.
RunsFirst(b, n, v) ==
  LET s == Readable(b)
      k == RunBefore(b, b.r, n, v).value
      run == [j \in 1 .. n |-> v]
  IN IF k = -1 THEN \A i \in 1 .. Len(s) - n : SubSeq(s, i, i + n - 1) # run
     ELSE /\ SubSeq(s, k + 1, k + n) = run
          /\ \A i \in 1 .. k : SubSeq(s, i, i + n - 1) # run

LEMMA RunFound ==
  ASSUME NEW b, Formed(b), Fits(b), NEW v, NEW n \in Nat \ {0}
  PROVE  RunsFirst(b, n, v)
<1> DEFINE s == Readable(b)
           r == b.r
           l == b.w - b.r
           d == b.data
           k == RunBefore(b, b.r, n, v).value
           run == [j \in 1 .. n |-> v]
           K == {i \in r .. b.w - n - 1 : \A j \in i .. i + n - 1 \cup {i} : d[j + 1] = v}
           At(i) == SubSeq(s, i, i + n - 1) = run
<1>1. r \in Nat /\ l \in Nat /\ b.w = r + l /\ Len(s) = l
  BY SeqLen, ReadableAt DEF Formed, Fits
<1>2. \A j \in 1 .. l : s[j] = d[r + j]
  BY ReadableAt
<1>3. k = IF K = {} THEN -1 ELSE FirstOf(K) - r
  BY DEF RunBefore, Returns, Outcome
<1>4. \A i \in Nat \ {0} : At(i) <=> \A j \in i .. i + n - 1 : s[j] = v
  BY IsRun
<1>5. \A i : i \in K <=> /\ i \in r .. r + l - n - 1
                         /\ \A j \in i .. i + n - 1 : d[j + 1] = v
  <2>1. \A i \in Int : (i .. i + n - 1) \cup {i} = i .. i + n - 1
    OBVIOUS
  <2>2. \A i \in r .. b.w - n - 1 : i \in Int
    OBVIOUS
  <2>3. b.w - n - 1 = r + l - n - 1
    BY <1>1
  <2> QED BY <2>1, <2>2, <2>3, Zenon
<1> HIDE DEF s, r, l, d, k, K, At
<1>6. ASSUME NEW i \in 1 .. l - n PROVE At(i) <=> r + i - 1 \in K
  <2>1. i \in Nat \ {0} /\ r + i - 1 \in r .. r + l - n - 1
    BY <1>1
  <2>2. ASSUME At(i), NEW j \in r + i - 1 .. (r + i - 1) + n - 1 PROVE d[j + 1] = v
    <3>1. /\ j - r + 1 \in i .. i + n - 1 /\ j - r + 1 \in 1 .. l
          /\ r + (j - r + 1) = j + 1
      BY <1>1
    <3> QED BY <1>2, <1>4, <2>1, <2>2, <3>1
  <2>3. ASSUME r + i - 1 \in K, NEW j \in i .. i + n - 1 PROVE s[j] = v
    <3>1. /\ r + j - 1 \in r + i - 1 .. (r + i - 1) + n - 1 /\ j \in 1 .. l
          /\ (r + j - 1) + 1 = r + j
      BY <1>1
    <3> QED BY <1>2, <1>5, <2>3, <3>1
  <2> QED BY <1>4, <1>5, <2>1, <2>2, <2>3
<1>7. K \subseteq Nat
  <2>1. \A i : i \in K => i \in r .. r + l - n - 1
    BY <1>5, Zenon
  <2> QED BY <1>1, <2>1
<1>8. CASE K = {}
  <2>1. k = -1
    BY <1>3, <1>8
  <2>2. \A i \in 1 .. l - n : ~At(i)
    BY <1>6, <1>8
  <2> QED BY <1>1, <2>1, <2>2 DEF s, k, At, RunsFirst
<1>9. CASE K # {}
  <2>1. FirstOf(K) \in K /\ \A j \in K : FirstOf(K) <= j
    BY <1>7, <1>9, FirstIn
  <2>2. k = FirstOf(K) - r /\ FirstOf(K) \in r .. r + l - n - 1
    BY <1>3, <1>5, <1>9, <2>1
  <2>3. k \in Nat /\ k + 1 \in 1 .. l - n /\ r + (k + 1) - 1 = FirstOf(K)
    BY <1>1, <2>2
  <2>4. At(k + 1)
    BY <1>6, <2>1, <2>3
  <2>5. ASSUME NEW i \in 1 .. k PROVE ~At(i)
    <3>1. i \in 1 .. l - n /\ r + i - 1 < FirstOf(K)
      BY <1>1, <2>2, <2>3
    <3>2. FirstOf(K) \in Nat /\ r + i - 1 \in Int
      BY <1>1, <2>2
    <3>3. ~(FirstOf(K) <= r + i - 1)
      BY <3>1, <3>2
    <3>4. r + i - 1 \notin K
      BY <2>1, <3>3, Zenon
    <3> QED BY <1>6, <3>1, <3>4
  <2>6. (k + 1) + n - 1 = k + n /\ k # -1
    BY <2>3
  <2> QED BY <2>4, <2>5, <2>6 DEF s, k, At, RunsFirst
<1> QED BY <1>8, <1>9

LEMMA SearchesFound ==
  ASSUME Formed(buf)
  PROVE  SearchesFind
<1> SUFFICES ASSUME InBounds, NEW v \in Alphabet
             PROVE  LET s == Readable(buf) IN
               /\ BytesBefore(buf, v).value = SelectInSeq(s, LAMBDA x : x = v) - 1
               /\ \A i, to \in 0 .. MaxLen :
                    LET k == IndexOf(buf, i, to, v) IN
                    IF k = -1 THEN ~Contains(SubSeq(buf.data, i + 1, Least(to, Len(buf.data))), v)
                    ELSE k >= i /\ buf.data[k + 1] = v /\ ~Contains(SubSeq(buf.data, i + 1, k), v)
               /\ \A n \in 1 .. MaxLen :
                    LET k == RunBefore(buf, buf.r, n, v).value
                        run == [i \in 1 .. n |-> v]
                    IN IF k = -1 THEN \A i \in 1 .. Len(s) - n : SubSeq(s, i, i + n - 1) # run
                       ELSE /\ SubSeq(s, k + 1, k + n) = run
                            /\ \A i \in 1 .. k : SubSeq(s, i, i + n - 1) # run
  BY Zenon DEF SearchesFind
<1>1. Fits(buf)
  BY DEF InBounds, Fits
<1>2. 0 .. MaxLen \subseteq Nat /\ 1 .. MaxLen \subseteq Nat \ {0}
  BY UseAssumption
<1>3. BytesBefore(buf, v).value = SelectInSeq(Readable(buf), LAMBDA x : x = v) - 1
  BY <1>1, ByteFound DEF SelectInSeq
<1>4. ASSUME NEW i \in 0 .. MaxLen, NEW to \in 0 .. MaxLen
      PROVE  LET k == IndexOf(buf, i, to, v) IN
             IF k = -1 THEN ~Contains(SubSeq(buf.data, i + 1, Least(to, Len(buf.data))), v)
             ELSE k >= i /\ buf.data[k + 1] = v /\ ~Contains(SubSeq(buf.data, i + 1, k), v)
  <2>1. i \in Nat /\ to \in Nat
    BY <1>2
  <2> QED BY <2>1, IndexFound
<1>5. ASSUME NEW n \in 1 .. MaxLen
      PROVE  LET s == Readable(buf)
                 k == RunBefore(buf, buf.r, n, v).value
                 run == [i \in 1 .. n |-> v]
             IN IF k = -1 THEN \A i \in 1 .. Len(s) - n : SubSeq(s, i, i + n - 1) # run
                ELSE /\ SubSeq(s, k + 1, k + n) = run
                     /\ \A i \in 1 .. k : SubSeq(s, i, i + n - 1) # run
  <2>1. n \in Nat \ {0}
    BY <1>2
  <2>2. RunsFirst(buf, n, v)
    BY <1>1, <2>1, RunFound
  <2> QED BY <2>2, Zenon DEF RunsFirst
<1> QED BY <1>3, <1>4, <1>5, Zenon

\* The stored bytes from a place on.
LEMMA FromThere ==
  ASSUME NEW s, IsSeq(s), NEW i \in Nat
  PROVE  LET t == SubSeq(s, i + 1, Len(s))
         IN /\ IsSeq(t) /\ (i >= Len(s) => t = <<>>)
            /\ i < Len(s) => Len(t) = Len(s) - i /\ t # <<>> /\ Head(t) = s[i + 1]
<1> DEFINE l == Len(s)
           t == SubSeq(s, i + 1, l)
<1>1. l \in Nat
  BY SeqLen
<1> HIDE DEF l
<1>2. i + 1 \in Int /\ l \in Int
  BY <1>1
<1>3. /\ IsSeq(t) /\ Len(t) = IF i + 1 <= l THEN l - (i + 1) + 1 ELSE 0
      /\ \A j \in 1 .. l - (i + 1) + 1 : t[j] = s[(i + 1) + j - 1]
  BY <1>2, SeqSub
<1> HIDE DEF t
<1>4. i >= l => t = <<>>
  <2> SUFFICES ASSUME i >= l PROVE t = <<>>
    OBVIOUS
  <2>1. Len(t) = 0
    BY <1>1, <1>3
  <2> QED BY <1>3, <2>1, SeqLen
<1>5. ASSUME i < l PROVE Len(t) = l - i /\ t # <<>> /\ Head(t) = s[i + 1]
  <2>1. Len(t) = l - i /\ Len(t) # 0
    BY <1>1, <1>3, <1>5
  <2>2. t # <<>>
    BY <2>1, NoSeq
  <2>3. 1 \in 1 .. l - (i + 1) + 1 /\ (i + 1) + 1 - 1 = i + 1
    BY <1>1, <1>5
  <2>4. t[1] = s[i + 1]
    BY <1>3, <2>3
  <2>5. Head(t) = t[1]
    <3>1. PICK S : t \in Seq(S)
      BY <1>3 DEF IsSeq
    <3> QED BY <2>2, <3>1
  <2> QED BY <2>1, <2>2, <2>4, <2>5
<1> QED BY <1>3, <1>4, <1>5 DEF l, t

\* Bytes fetched behind k zeros are read behind k zeros.
LEMMA FetchedBehind ==
  ASSUME NEW b, Formed(b), NEW i \in Nat, i < Len(b.data), NEW k \in Nat
  PROVE  Readable(GetBytesAfter(b, i, k, -1)) = Zeros(k) \o SubSeq(b.data, i + 1, Len(b.data))
<1> DEFINE t == SubSeq(b.data, i + 1, Len(b.data))
           z == Zeros(k)
           e == New(z)
           c == SetData(e, k, t)
           back == SubSeq(z, k + 1, k)
           g == GetBytesAfter(b, i, k, -1)
<1>1. IsSeq(t) /\ Len(t) \in Nat /\ IsSeq(z) /\ Len(z) = k
  BY FromThere, SeqLen, ZerosSeq DEF Formed
<1>2. ~(i > Len(b.data)) /\ ~(i >= Len(b.data))
  BY SeqLen DEF Formed
<1>3. g = WriteData(e, t)
  <2>1. Slice(b.data, i, -1) = t
    BY DEF Slice
  <2>2. CopyFrom(b, i, -1) = Returns(b, Len(t), t)
    BY <1>2, <2>1, Zenon DEF CopyFrom
  <2>3. CopyFrom(b, i, -1).bytes = t
    <3> HIDE DEF t
    <3>1. CopyFrom(b, i, -1) = Outcome(b, Len(t), t, "returns")
      BY <2>2 DEF Returns
    <3> QED BY <3>1 DEF Outcome
  <2> QED BY <1>2, <2>3, Zenon DEF GetBytesAfter
<1> HIDE DEF t, g, z
<1>4. e = [data |-> z, r |-> 0, w |-> k, mr |-> 0, mw |-> 0]
  BY <1>1 DEF New
<1>5. Formed(e) /\ e.data = z /\ e.r = 0 /\ e.w = k
  BY <1>1, NewFormed
<1> HIDE DEF e
<1>6. c = [data |-> (SubSeq(z, 1, k) \o t) \o back, r |-> 0, w |-> k, mr |-> 0, mw |-> 0]
  <2> DEFINE data == (SubSeq(z, 1, k) \o t) \o back
  <2>1. ~(k > Len(z)) /\ Len(z) = k
    BY <1>1
  <2>2. c = [e EXCEPT !.data = data]
    BY <1>5, <2>1 DEF SetData
  <2> HIDE DEF c, data
  <2>3. c = [data |-> data, r |-> 0, w |-> k, mr |-> 0, mw |-> 0]
    BY <1>4, <2>2
  <2> QED BY <2>3 DEF data
<1>7. (SubSeq(z, 1, k) \o t) \o back = z \o t
  <2>1. PICK S : z \in Seq(S)
    BY <1>1 DEF IsSeq
  <2>2. SubSeq(z, 1, k) = z
    BY <1>1, <2>1, SubSeqFull
  <2>3. back = <<>>
    <3>1. k < k + 1 /\ k \in Int /\ k + 1 \in Int
      OBVIOUS
    <3> QED BY <3>1, SubSeqEmpty
  <2> HIDE DEF back
  <2>4. PICK T : z \o t \in Seq(T)
    BY <1>1, SeqCat DEF IsSeq
  <2>5. (z \o t) \o <<>> = z \o t
    BY <2>4, ConcatEmptySeq
  <2> QED BY <2>2, <2>3, <2>5
<1>8. g = [c EXCEPT !.w = k + Len(t)]
  <2>1. c.w = k /\ ~(k > Len(e.data))
    BY <1>1, <1>5, <1>6
  <2>2. g = [c EXCEPT !.w = IF @ > Len(e.data) THEN Len(e.data) + Len(t) ELSE @ + Len(t)]
    BY <1>3, <1>5 DEF WriteData
  <2> HIDE DEF c
  <2> QED BY <2>1, <2>2
<1> HIDE DEF c
<1>9. g.data = z \o t /\ g.r = 0 /\ g.w = k + Len(t)
  BY <1>6, <1>7, <1>8
<1>10. SubSeq(z \o t, 0 + 1, k + Len(t)) = z \o t
  <2>1. PICK T : z \o t \in Seq(T)
    BY <1>1, SeqCat DEF IsSeq
  <2>2. Len(z \o t) = k + Len(t)
    BY <1>1, SeqCat
  <2>3. SubSeq(z \o t, 1, Len(z \o t)) = z \o t
    BY <2>1, SubSeqFull
  <2> QED BY <2>2, <2>3
<1> QED BY <1>9, <1>10 DEF Readable, g, z, t

\* A place behind the stored bytes gives nothing, and only a typed function
\* throws there.
LEMMA PlacesAgree ==
  ASSUME Formed(buf), NEW i \in 0 .. MaxLen
  PROVE  LET there == SubSeq(buf.data, i + 1, Len(buf.data)) IN
         /\ GetByte(buf, i) = IF there = <<>> THEN 0 ELSE Head(there)
         /\ GetBytes(buf, i, -1).bytes = there
         /\ i + DoubleWidth <= Len(buf.data) => GetReal(buf, i, DoubleWidth).end = "throws"
         /\ \A n \in Widths, le \in BOOLEAN : \A o \in Gets(buf, i, n, le) :
              (o.end = "throws") = (i > Len(buf.data))
         /\ \A k \in 0 .. MaxLen :
              there # <<>> => Readable(GetBytesAfter(buf, i, k, -1)) = Zeros(k) \o there
<1> DEFINE s == buf.data
           there == SubSeq(s, i + 1, Len(s))
<1>1. IsSeq(s) /\ Len(s) \in Nat /\ i \in Nat
  BY SeqLen DEF Formed
<1>2. /\ i >= Len(s) => there = <<>>
      /\ i < Len(s) => there # <<>> /\ Head(there) = s[i + 1]
  BY <1>1, FromThere
<1>3. GetByte(buf, i) = IF there = <<>> THEN 0 ELSE Head(there)
  <2> HIDE DEF there
  <2> QED BY <1>1, <1>2 DEF GetByte
<1>4. GetBytes(buf, i, -1).bytes = there
  <2>1. CASE i >= Len(s)
    <3> HIDE DEF there
    <3> QED BY <1>2, <2>1 DEF GetBytes, Returns, Outcome
  <2>2. CASE i < Len(s)
    BY <1>1, <2>2 DEF GetBytes, CopyFrom, Slice, Returns, Outcome
  <2> QED BY <1>1, <2>1, <2>2
<1>5. i + DoubleWidth <= Len(s) => GetReal(buf, i, DoubleWidth).end = "throws"
  <2> HIDE DEF there
  <2> QED BY <1>1, WidthAssumption DEF GetReal, Throws, Outcome
<1>6. ASSUME NEW n \in Widths, NEW le \in BOOLEAN, NEW o \in Gets(buf, i, n, le)
      PROVE  (o.end = "throws") = (i > Len(s))
  <2>1. CASE i > Len(s)
    BY <2>1 DEF Gets, Throws, Outcome
  <2>2. CASE ~(i > Len(s))
    <3>1. o.end = "returns"
      BY <2>2 DEF Gets, Returns, Outcome
    <3> QED BY <2>2, <3>1
  <2> QED BY <2>1, <2>2
<1>7. ASSUME NEW k \in 0 .. MaxLen, there # <<>>
      PROVE  Readable(GetBytesAfter(buf, i, k, -1)) = Zeros(k) \o there
  <2>1. i < Len(s) /\ k \in Nat
    BY <1>1, <1>2, <1>7
  <2> QED BY <1>1, <2>1, FetchedBehind
<1> QED BY <1>3, <1>4, <1>5, <1>6, <1>7, Zenon

LEMMA LooksRight ==
  ASSUME Formed(buf)
  PROVE  LooksAgree
<1>1. CompareTo(Assign(New(<<>>), buf), buf)
  <2>1. PICK S : buf.data \in Seq(S)
    BY DEF Formed, IsSeq
  <2>2. <<>> \o buf.data = buf.data
    BY <2>1, ConcatEmptySeq
  <2>3. buf = [data |-> buf.data, r |-> buf.r, w |-> buf.w, mr |-> buf.mr, mw |-> buf.mw]
    BY DEF Formed
  <2>4. Assign(New(<<>>), buf).data = <<>> \o buf.data
    BY <2>3 DEF Assign, New
  <2> QED BY <2>2, <2>4 DEF CompareTo
<1>2. InBounds => (Copy(buf).bytes = Readable(buf) <=> buf.r = 0 /\ buf.w = Len(buf.data))
  <2> SUFFICES ASSUME InBounds
               PROVE  buf.data = Readable(buf) <=> buf.r = 0 /\ buf.w = Len(buf.data)
    BY DEF Copy, Returns, Outcome
  <2>1. Fits(buf)
    BY DEF InBounds, Fits
  <2>2. Len(Readable(buf)) = buf.w - buf.r
    BY <2>1, ReadableAt
  <2>3. PICK S : buf.data \in Seq(S)
    BY DEF Formed, IsSeq
  <2>4. SubSeq(buf.data, 1, Len(buf.data)) = buf.data
    BY <2>3
  <2>5. buf.r \in Nat /\ buf.w \in Nat /\ Len(buf.data) \in Nat
    BY <2>3 DEF Formed
  <2>6. CASE buf.data = Readable(buf)
    BY <2>2, <2>5, <2>6 DEF InBounds
  <2>7. CASE buf.r = 0 /\ buf.w = Len(buf.data)
    BY <2>4, <2>7 DEF Readable
  <2> QED BY <2>6, <2>7
<1> QED BY <1>1, <1>2, SearchesFound, PlacesAgree, Zenon DEF LooksAgree

-----------------------------------------------------------------------------
(* What the buffer holds.                                                  *)

BytesIn(s) == IsSeq(s) /\ \A i \in 1 .. Len(s) : s[i] \in Bytes

LEMMA StringBytes ==
  ASSUME NEW s \in Strings
  PROVE  BytesIn(s)
<1>1. PICK m \in 0 .. MaxLen : s \in [1 .. m -> Alphabet]
  BY DEF Strings, SeqOf
<1>2. m \in Nat /\ Alphabet \subseteq Bytes
  BY UseAssumption
<1>3. IsSeq(s) /\ Len(s) = m
  BY <1>1, <1>2, FunSeq
<1> QED BY <1>1, <1>2, <1>3 DEF BytesIn

LEMMA ZerosBytes ==
  ASSUME NEW n \in Nat
  PROVE  BytesIn(Zeros(n))
<1>1. IsSeq(Zeros(n)) /\ Len(Zeros(n)) = n
  BY ZerosSeq
<1>2. \A i \in 1 .. n : Zeros(n)[i] = 0
  BY DEF Zeros
<1>3. 0 \in Bytes
  BY DEF Bytes
<1> QED BY <1>1, <1>2, <1>3 DEF BytesIn

LEMMA PartBytes ==
  ASSUME NEW s, BytesIn(s), NEW m \in Nat \ {0}, NEW n \in Nat, n <= Len(s)
  PROVE  BytesIn(SubSeq(s, m, n))
<1> DEFINE t == SubSeq(s, m, n)
           l == Len(s)
<1>1. l \in Nat /\ m \in Int /\ n \in Int /\ \A i \in 1 .. l : s[i] \in Bytes
  BY SeqLen DEF BytesIn
<1>2. /\ IsSeq(t) /\ Len(t) = IF m <= n THEN n - m + 1 ELSE 0
      /\ \A i \in 1 .. n - m + 1 : t[i] = s[m + i - 1]
  BY <1>1, SeqSub
<1> HIDE DEF t, l
<1>3. \A i \in 1 .. Len(t) : i \in 1 .. n - m + 1
  BY <1>1, <1>2
<1>4. \A i \in 1 .. n - m + 1 : m + i - 1 \in 1 .. l
  BY <1>1 DEF l
<1>5. \A i \in 1 .. Len(t) : t[i] \in Bytes
  BY <1>1, <1>2, <1>3, <1>4, Zenon
<1> QED BY <1>2, <1>5 DEF BytesIn, t

LEMMA CatBytes ==
  ASSUME NEW s, NEW t, BytesIn(s), BytesIn(t)
  PROVE  BytesIn(s \o t)
<1> DEFINE m == Len(s)
           n == Len(t)
           u == s \o t
<1>1. /\ IsSeq(s) /\ IsSeq(t) /\ m \in Nat /\ n \in Nat
      /\ \A i \in 1 .. m : s[i] \in Bytes
      /\ \A i \in 1 .. n : t[i] \in Bytes
  BY SeqLen DEF BytesIn
<1>2. /\ IsSeq(u) /\ Len(u) = m + n
      /\ \A i \in 1 .. m + n : u[i] = IF i <= m THEN s[i] ELSE t[i - m]
  BY <1>1, SeqCat
<1> HIDE DEF m, n, u
<1>3. ASSUME NEW i \in 1 .. m + n PROVE u[i] \in Bytes
  <2>1. (i <= m => i \in 1 .. m) /\ (~(i <= m) => i - m \in 1 .. n)
    BY <1>1
  <2> QED BY <1>1, <1>2, <2>1, Zenon
<1> QED BY <1>2, <1>3 DEF BytesIn, u

LEMMA SetDataBytes ==
  ASSUME NEW b, Formed(b), BytesIn(b.data), NEW i \in Nat, NEW s, BytesIn(s)
  PROVE  BytesIn(SetData(b, i, s).data)
<1> DEFINE d == b.data
           data == IF i > Len(d) THEN d \o s
                   ELSE SubSeq(d, 1, i) \o s \o SubSeq(d, i + 1, Len(d))
<1>1. SetData(b, i, s).data = data
  <2>1. SetData(b, i, s) = [b EXCEPT !.data = data]
    BY DEF SetData
  <2> HIDE DEF data
  <2>2. b = [data |-> b.data, r |-> b.r, w |-> b.w, mr |-> b.mr, mw |-> b.mw]
    BY DEF Formed
  <2> QED BY <2>1, <2>2
<1>2. BytesIn(data)
  <2>1. CASE i > Len(d)
    BY <2>1, CatBytes
  <2>2. CASE ~(i > Len(d))
    <3>1. Len(d) \in Nat /\ i <= Len(d) /\ 1 \in Nat \ {0} /\ i + 1 \in Nat \ {0}
      BY <2>2, SeqLen DEF BytesIn
    <3> HIDE DEF d
    <3>2. BytesIn(SubSeq(d, 1, i)) /\ BytesIn(SubSeq(d, i + 1, Len(d)))
      BY <3>1, PartBytes DEF d
    <3>3. data = SubSeq(d, 1, i) \o s \o SubSeq(d, i + 1, Len(d))
      BY <2>2
    <3> QED BY <3>2, <3>3, CatBytes
  <2> QED BY <2>1, <2>2
<1> QED BY <1>1, <1>2, Zenon

LEMMA CStringBytes ==
  ASSUME NEW s, BytesIn(s)
  PROVE  BytesIn(CString(s)) /\ (~Contains(s, 0) => CString(s) = s)
<1> DEFINE I == {i \in 1 .. Len(s) : s[i] = 0}
           z == IF I # {} THEN Min(I) ELSE 0
<1>1. CString(s) = IF z = 0 THEN s ELSE SubSeq(s, 1, z - 1)
  BY DEF CString, SelectInSeq
<1>2. I \subseteq Nat /\ Len(s) \in Nat
  BY SeqLen DEF BytesIn
<1>3. \A i : i \in I <=> i \in 1 .. Len(s) /\ s[i] = 0
  OBVIOUS
<1> HIDE DEF I
<1>4. CASE I = {}
  <2>1. CString(s) = s
    BY <1>1, <1>4
  <2> QED BY <2>1
<1>5. CASE I # {}
  <2>1. Min(I) \in I
    BY <1>2, <1>5, MinIn
  <2>2. Contains(s, 0)
    BY <1>3, <2>1, Zenon DEF Contains
  <2>3. Min(I) - 1 \in Nat /\ Min(I) - 1 <= Len(s) /\ Min(I) # 0 /\ 1 \in Nat \ {0}
    BY <1>2, <1>3, <2>1
  <2>4. CString(s) = SubSeq(s, 1, Min(I) - 1)
    BY <1>1, <1>5, <2>3
  <2>5. BytesIn(SubSeq(s, 1, Min(I) - 1))
    BY <2>3, PartBytes
  <2> QED BY <2>2, <2>4, <2>5
<1> QED BY <1>4, <1>5

\* A part of a part.
LEMMA SubSub ==
  ASSUME NEW s, NEW a \in Nat, NEW b \in Nat, NEW i \in Nat, NEW j \in Nat,
         i <= j, a + j <= b
  PROVE  SubSeq(SubSeq(s, a + 1, b), i + 1, j) = SubSeq(s, a + i + 1, a + j)
<1> DEFINE t == SubSeq(s, a + 1, b)
           u == SubSeq(t, i + 1, j)
           v == SubSeq(s, a + i + 1, a + j)
<1>1. /\ a + 1 \in Int /\ b \in Int /\ i + 1 \in Int /\ j \in Int
      /\ a + i + 1 \in Int /\ a + j \in Int
  OBVIOUS
<1>2. \A k \in 1 .. b - (a + 1) + 1 : t[k] = s[(a + 1) + k - 1]
  BY <1>1, SeqSub
<1>3. /\ IsSeq(u) /\ Len(u) = IF i + 1 <= j THEN j - (i + 1) + 1 ELSE 0
      /\ \A k \in 1 .. j - (i + 1) + 1 : u[k] = t[(i + 1) + k - 1]
  BY <1>1, SeqSub
<1>4. /\ IsSeq(v) /\ Len(v) = IF a + i + 1 <= a + j THEN (a + j) - (a + i + 1) + 1 ELSE 0
      /\ \A k \in 1 .. (a + j) - (a + i + 1) + 1 : v[k] = s[(a + i + 1) + k - 1]
  BY <1>1, SeqSub
<1> HIDE DEF t, u, v
<1>5. Len(u) = j - i /\ Len(v) = j - i
  BY <1>3, <1>4
<1>6. ASSUME NEW k \in 1 .. j - i PROVE u[k] = v[k]
  <2>1. /\ k \in 1 .. j - (i + 1) + 1 /\ k \in 1 .. (a + j) - (a + i + 1) + 1
        /\ (i + 1) + k - 1 = i + k /\ i + k \in 1 .. b - (a + 1) + 1
        /\ (a + 1) + (i + k) - 1 = a + i + k /\ (a + i + 1) + k - 1 = a + i + k
    OBVIOUS
  <2>2. u[k] = t[i + k] /\ v[k] = s[a + i + k]
    BY <1>3, <1>4, <2>1, Zenon
  <2>3. t[i + k] = s[a + i + k]
    BY <1>2, <2>1, Zenon
  <2> QED BY <2>2, <2>3
<1>7. u = v
  BY <1>3, <1>4, <1>5, <1>6, SeqSame
<1> QED BY <1>7 DEF t, u, v

\* The i-th byte of a buffer in which s has been stored at i.
LEMMA DataStored ==
  ASSUME NEW b, Formed(b), NEW i \in Nat, i <= Len(b.data), NEW s, IsSeq(s)
  PROVE  LET d == SetData(b, i, s).data
         IN \A j \in 1 .. i + Len(s) : d[j] = IF j <= i THEN b.data[j] ELSE s[j - i]
<1> DEFINE d == b.data
           l == Len(d)
           front == SubSeq(d, 1, i)
           middle == front \o s
           back == SubSeq(d, i + 1, l)
           whole == middle \o back
<1>1. l \in Nat /\ Len(s) \in Nat /\ i <= l
  BY SeqLen DEF Formed
<1>2. SetData(b, i, s).data = whole
  <2>1. SetData(b, i, s) = [b EXCEPT !.data = IF i > l THEN d \o s ELSE whole]
    BY DEF SetData
  <2>2. b = [data |-> b.data, r |-> b.r, w |-> b.w, mr |-> b.mr, mw |-> b.mw]
    BY DEF Formed
  <2>3. ~(i > l)
    BY <1>1
  <2> HIDE DEF whole, l
  <2> QED BY <2>1, <2>2, <2>3
<1> HIDE DEF d, l
<1>3. 1 \in Int /\ i \in Int /\ i + 1 \in Int /\ l \in Int /\ i - 1 + 1 = i
  BY <1>1
<1>4. /\ IsSeq(front) /\ Len(front) = IF 1 <= i THEN i - 1 + 1 ELSE 0
      /\ \A j \in 1 .. i - 1 + 1 : front[j] = d[1 + j - 1]
  BY <1>3, SeqSub
<1>5. IsSeq(back) /\ Len(back) = IF i + 1 <= l THEN l - (i + 1) + 1 ELSE 0
  BY <1>3, SeqSub
<1> HIDE DEF front, back
<1>6. Len(front) = i /\ \A j \in 1 .. i : 1 + j - 1 = j /\ front[j] = d[j]
  BY <1>3, <1>4
<1>7. /\ IsSeq(middle) /\ Len(middle) = i + Len(s)
      /\ \A j \in 1 .. i + Len(s) : middle[j] = IF j <= i THEN front[j] ELSE s[j - i]
  BY <1>4, <1>6, SeqCat
<1>8. Len(back) \in Nat
  BY <1>5, SeqLen
<1> HIDE DEF middle
<1>9. \A j \in 1 .. Len(middle) + Len(back) :
        whole[j] = IF j <= Len(middle) THEN middle[j] ELSE back[j - Len(middle)]
  BY <1>5, <1>7, SeqCat
<1> HIDE DEF whole
<1>10. ASSUME NEW j \in 1 .. i + Len(s)
       PROVE  whole[j] = IF j <= i THEN d[j] ELSE s[j - i]
  <2>1. j \in 1 .. Len(middle) + Len(back) /\ j <= Len(middle)
    BY <1>1, <1>7, <1>8
  <2>2. whole[j] = middle[j] /\ middle[j] = IF j <= i THEN front[j] ELSE s[j - i]
    BY <1>7, <1>9, <2>1, Zenon
  <2>3. CASE j <= i
    <3>1. j \in 1 .. i
      BY <2>3
    <3> QED BY <1>6, <2>2, <2>3, <3>1, Zenon
  <2>4. CASE ~(j <= i)
    BY <2>2, <2>4, Zenon
  <2> QED BY <2>3, <2>4
<1> QED BY <1>2, <1>10 DEF d

\* What is written in bounds is put behind what is readable.
LEMMA WrittenBehind ==
  ASSUME NEW b, Formed(b), Fits(b), NEW s, IsSeq(s)
  PROVE  Readable(WriteData(b, s)) = Readable(b) \o s
<1> DEFINE c == SetData(b, b.w, s)
           e == WriteData(b, s)
           r == b.r
           w == b.w
           n == Len(s)
           x == Readable(b)
           y == Readable(e)
           z == x \o s
<1>1. /\ r \in Nat /\ w \in Nat /\ Len(b.data) \in Nat /\ n \in Nat
      /\ r <= w /\ w <= Len(b.data)
  BY SeqLen DEF Formed, Fits
<1>2. Formed(c) /\ c.r = r /\ c.w = w
  BY <1>1, SetDataFormed
<1>3. e = [c EXCEPT !.w = w + n]
  <2> DEFINE l == Len(b.data)
  <2>1. e = [c EXCEPT !.w = IF @ > l THEN l + n ELSE @ + n]
    BY DEF WriteData
  <2>2. ~(w > l)
    BY <1>1
  <2> HIDE DEF c, e, w, n, l
  <2> QED BY <1>2, <2>1, <2>2
<1>4. \A j \in 1 .. w + n : c.data[j] = IF j <= w THEN b.data[j] ELSE s[j - w]
  BY <1>1, DataStored
<1>5. /\ IsSeq(x) /\ Len(x) = w - r
      /\ \A j \in 1 .. w - r : x[j] = b.data[r + j]
  BY ReadableAt
<1>6. Formed(e) /\ Fits(e)
  BY WriteDataFormed
<1> HIDE DEF c, e
<1>7. e.data = c.data /\ e.r = r /\ e.w = w + n
  BY <1>2, <1>3 DEF Formed
<1>8. /\ IsSeq(y) /\ Len(y) = (w + n) - r
      /\ \A j \in 1 .. (w + n) - r : y[j] = c.data[r + j]
  <2>1. /\ IsSeq(y) /\ Len(y) = e.w - e.r
        /\ \A j \in 1 .. e.w - e.r : y[j] = e.data[e.r + j]
    BY <1>6, ReadableAt
  <2> HIDE DEF r, w, n, y
  <2> QED BY <1>7, <2>1
<1> HIDE DEF x, y, r, w, n
<1>9. /\ IsSeq(z) /\ Len(z) = Len(x) + n
      /\ \A j \in 1 .. Len(x) + n : z[j] = IF j <= Len(x) THEN x[j] ELSE s[j - Len(x)]
  BY <1>5, SeqCat DEF n
<1>10. w - r \in Nat /\ (w + n) - r = (w - r) + n
  BY <1>1
<1>11. ASSUME NEW j \in 1 .. (w - r) + n PROVE y[j] = z[j]
  <2>1. r + j \in 1 .. w + n /\ (r + j) - w = j - (w - r) /\ (r + j <= w <=> j <= w - r)
    BY <1>1
  <2>2. y[j] = IF j <= w - r THEN b.data[r + j] ELSE s[j - (w - r)]
    BY <1>4, <1>8, <1>10, <2>1, Zenon
  <2>3. z[j] = IF j <= w - r THEN x[j] ELSE s[j - (w - r)]
    BY <1>5, <1>9, Zenon
  <2>4. j <= w - r => x[j] = b.data[r + j]
    BY <1>1, <1>5
  <2> QED BY <2>2, <2>3, <2>4, Zenon
<1>12. y = z
  <2>1. Len(y) = (w - r) + n /\ Len(z) = (w - r) + n
    BY <1>5, <1>8, <1>9, <1>10, Zenon
  <2> HIDE DEF z
  <2> QED BY <1>8, <1>9, <1>11, <2>1, SeqSame, Zenon
<1> QED BY <1>12 DEF x, y, e

-----------------------------------------------------------------------------
(* What the calls put in and give out.                                     *)

\* The number of outcome o has the bytes of o.
NumberIs(o, le) ==
  LET n == Len(o.bytes) IN
  n > 0 =>
    /\ n <= IntWidth => o.value # Garbage
    /\ o.value # Garbage => Encoded(o.value, n, le) = o.bytes

Kept == BytesIn(buf.data)' /\ NumbersReadBack' /\ StreamStep

LEMMA CallGives ==
  ASSUME NEW op, NEW n, NEW o, Call(op, n, o)
  PROVE  /\ buf' = o.buf /\ Readable(buf)' = Readable(o.buf) /\ buf.data' = o.buf.data
         /\ out'.op = op /\ out'.n = n /\ out'.bytes = o.bytes
         /\ NumbersReadBack' <=> (op = "read" => NumberIs(o, FALSE)) /\ (op = "readLE" => NumberIs(o, TRUE))
<1>1. buf' = o.buf /\ out' = [op |-> op, n |-> n, value |-> o.value, bytes |-> o.bytes, end |-> o.end]
  BY DEF Call
<1>2. out'.op = op /\ out'.n = n /\ out'.bytes = o.bytes /\ out'.value = o.value
  BY <1>1
<1>3. Readable(buf)' = Readable(o.buf) /\ buf.data' = o.buf.data
  BY <1>1 DEF Readable
<1>4. NumbersReadBack' <=> \A le \in BOOLEAN : op = (IF le THEN "readLE" ELSE "read") => NumberIs(o, le)
  BY <1>2 DEF NumbersReadBack, NumberIs
<1>5. (\A le \in BOOLEAN : op = (IF le THEN "readLE" ELSE "read") => NumberIs(o, le))
        <=> (op = "read" => NumberIs(o, FALSE)) /\ (op = "readLE" => NumberIs(o, TRUE))
  <2> HIDE DEF NumberIs
  <2> QED OBVIOUS
<1> QED BY <1>1, <1>2, <1>3, <1>4, <1>5, Zenon

\* A skip and a clear give no bytes.
LEMMA EmptyCall ==
  ASSUME NEW op \in {"skip", "clear"}, NEW n, NEW b, Set(op, n, b)
  PROVE  /\ Readable(buf)' = Readable(b) /\ buf.data' = b.data
         /\ out'.op = op /\ out'.n = n /\ out'.bytes = <<>> /\ NumbersReadBack'
<1> DEFINE o == Returns(b, 0, <<>>)
<1>1. o.buf = b /\ o.bytes = <<>> /\ Call(op, n, o)
  BY OutcomeFields DEF Returns, Set
<1> HIDE DEF o
<1> QED BY <1>1, CallGives

\* A call that is no write, read, skip or clear.
LEMMA QuietCall ==
  ASSUME NEW op, NEW n, NEW o, Call(op, n, o), BytesIn(o.buf.data),
         op \notin {"write", "writeBuf", "read", "readLE", "readBytes", "skip", "clear"}
  PROVE  Kept
<1>1. out'.op = op /\ buf.data' = o.buf.data /\ NumbersReadBack'
  BY CallGives
<1>2. StreamStep
  BY <1>1 DEF StreamStep
<1>3. BytesIn(buf.data)'
  BY <1>1 DEF BytesIn
<1> QED BY <1>1, <1>2, <1>3 DEF Kept

LEMMA QuietSet ==
  ASSUME NEW op, NEW n, NEW b, Set(op, n, b), BytesIn(b.data),
         op \notin {"write", "writeBuf", "read", "readLE", "readBytes", "skip", "clear"}
  PROVE  Kept
<1> DEFINE o == Returns(b, 0, <<>>)
<1>1. o.buf = b /\ Call(op, n, o)
  BY OutcomeFields DEF Returns, Set
<1> HIDE DEF o
<1> QED BY <1>1, QuietCall

\* t is written; s is what the caller gave.
LEMMA WriteCall ==
  ASSUME Formed(buf), BytesIn(buf.data), NEW t, BytesIn(t), NEW s, NEW op \in {"write", "writeBuf"},
         NEW n, NEW value, Call(op, n, Returns(WriteData(buf, t), value, s)),
         t = s \/ (op = "writeBuf" /\ Contains(s, 0))
  PROVE  Kept
<1> DEFINE b == WriteData(buf, t)
           o == Returns(b, value, s)
<1>1. o.buf = b /\ o.bytes = s /\ Call(op, n, o)
  BY OutcomeFields DEF Returns
<1>2. BytesIn(b.data)
  <2> DEFINE c == SetData(buf, buf.w, t)
             i == IF buf.w > Len(buf.data) THEN Len(buf.data) + Len(t) ELSE buf.w + Len(t)
  <2>1. buf.w \in Nat /\ IsSeq(t)
    BY DEF Formed, BytesIn
  <2>2. BytesIn(c.data) /\ Formed(c) /\ c.w = buf.w
    BY <2>1, SetDataBytes, SetDataFormed
  <2>3. b = [c EXCEPT !.w = i]
    BY <2>2 DEF WriteData
  <2> HIDE DEF c, i, b
  <2>4. b.data = c.data
    BY <2>2, <2>3 DEF Formed
  <2> QED BY <2>2, <2>4
<1>3. IsSeq(t)
  BY DEF BytesIn
<1>4. Fits(buf) => Readable(b) = Readable(buf) \o t
  BY <1>3, WrittenBehind
<1> HIDE DEF b, o
<1>5. /\ Readable(buf)' = Readable(b) /\ buf.data' = b.data
      /\ out'.op = op /\ out'.bytes = s /\ NumbersReadBack'
  BY <1>1, CallGives
<1>6. InBounds /\ t = s => Stream!Write(s)
  BY <1>4, <1>5 DEF Stream!Write, InBounds, Fits
<1>7. StreamStep
  BY <1>5, <1>6 DEF StreamStep
<1>8. BytesIn(buf.data)'
  BY <1>2, <1>5 DEF BytesIn
<1> QED BY <1>5, <1>7, <1>8 DEF Kept

\* The reader of a buffer in bounds moves over n readable bytes.
LEMMA FrontTaken ==
  ASSUME NEW b, Formed(b), Fits(b), NEW n \in Nat, b.r + n <= b.w
  PROVE  LET s == Readable(b)
             c == [b EXCEPT !.r = b.r + n]
         IN /\ SubSeq(s, 1, n) = SubSeq(b.data, b.r + 1, b.r + n)
            /\ SubSeq(s, n + 1, Len(s)) = Readable(c)
<1> DEFINE d == b.data
           r == b.r
           w == b.w
           c == [b EXCEPT !.r = r + n]
<1>1. r \in Nat /\ w \in Nat /\ w - r \in Nat /\ r + n <= w
  BY DEF Formed, Fits
<1>2. c.r = r + n /\ c.w = w /\ c.data = d
  BY DEF Formed
<1>3. Len(Readable(b)) = w - r /\ Readable(b) = SubSeq(d, r + 1, w)
  BY ReadableAt DEF Readable
<1>4. Readable(c) = SubSeq(d, r + n + 1, w)
  BY <1>2 DEF Readable
<1> HIDE DEF d, r, w, c
<1>5. SubSeq(SubSeq(d, r + 1, w), 0 + 1, n) = SubSeq(d, r + 0 + 1, r + n)
  <2>1. 0 \in Nat /\ 0 <= n
    OBVIOUS
  <2> QED BY <1>1, <2>1, SubSub
<1>6. SubSeq(SubSeq(d, r + 1, w), n + 1, w - r) = SubSeq(d, r + n + 1, r + (w - r))
  <2>1. n <= w - r /\ r + (w - r) <= w
    BY <1>1
  <2> QED BY <1>1, <2>1, SubSub
<1>7. 0 + 1 = 1 /\ r + 0 + 1 = r + 1 /\ r + (w - r) = w
  BY <1>1
<1>8. SubSeq(Readable(b), 1, n) = SubSeq(d, r + 1, r + n)
  BY <1>3, <1>5, <1>7, Zenon
<1>9. SubSeq(Readable(b), n + 1, Len(Readable(b))) = Readable(c)
  BY <1>3, <1>4, <1>6, <1>7, Zenon
<1> QED BY <1>8, <1>9 DEF d, r, c

\* A read to index i that gives s.
LEMMA ReadCall ==
  ASSUME Formed(buf), BytesIn(buf.data), NEW op \in {"read", "readLE", "readBytes"}, NEW n \in Int,
         NEW o, Call(op, n, o), NEW i \in Nat, o.buf = [buf EXCEPT !.r = i],
         0 <= n /\ buf.r + n <= buf.w /\ buf.w <= Len(buf.data) =>
           i = buf.r + n /\ o.bytes = SubSeq(buf.data, buf.r + 1, buf.r + n),
         op # "readBytes" => NumberIs(o, op = "readLE")
  PROVE  Kept
<1>1. /\ buf' = o.buf /\ Readable(buf)' = Readable(o.buf) /\ buf.data' = o.buf.data
      /\ out'.op = op /\ out'.n = n /\ out'.bytes = o.bytes
      /\ NumbersReadBack' <=> (op = "read" => NumberIs(o, FALSE)) /\ (op = "readLE" => NumberIs(o, TRUE))
  BY CallGives
<1>2. NumbersReadBack'
  <2>1. op = "read" => (op = "readLE") = FALSE
    OBVIOUS
  <2>2. op = "readLE" => (op = "readLE") = TRUE
    OBVIOUS
  <2> QED BY <1>1, <2>1, <2>2
<1>3. o.buf.data = buf.data
  BY DEF Formed
<1>4. ASSUME InBounds, Enough(n) PROVE Stream!Read(n)
  <2>1. Fits(buf) /\ n \in Nat /\ n <= Len(Readable(buf)) /\ Len(Readable(buf)) = buf.w - buf.r
    BY <1>4, ReadableLen DEF InBounds, Fits, Enough
  <2>2. buf.r + n <= buf.w /\ 0 <= n /\ buf.w <= Len(buf.data)
    BY <2>1 DEF Formed, Fits
  <2>3. i = buf.r + n /\ o.bytes = SubSeq(buf.data, buf.r + 1, buf.r + n)
    BY <2>2
  <2>4. o.buf = [buf EXCEPT !.r = buf.r + n]
    BY <2>3
  <2>5. /\ SubSeq(Readable(buf), 1, n) = SubSeq(buf.data, buf.r + 1, buf.r + n)
        /\ SubSeq(Readable(buf), n + 1, Len(Readable(buf))) = Readable([buf EXCEPT !.r = buf.r + n])
    BY <2>1, <2>2, FrontTaken, Zenon
  <2>6. out.bytes' = SubSeq(Readable(buf), 1, n)
    BY <1>1, <2>3, <2>5
  <2>7. Readable(buf)' = SubSeq(Readable(buf), n + 1, Len(Readable(buf)))
    BY <1>1, <2>4, <2>5, Zenon
  <2> QED BY <2>1, <2>6, <2>7, Zenon DEF Stream!Read
<1>5. StreamStep
  BY <1>1, <1>4 DEF StreamStep
<1>6. BytesIn(buf.data)'
  BY <1>1, <1>3 DEF BytesIn
<1> QED BY <1>2, <1>5, <1>6 DEF Kept

LEMMA ByteRead ==
  ASSUME Formed(buf), BytesIn(buf.data), NEW o, Call("read", 1, o),
         NEW i \in Nat, o.buf = [buf EXCEPT !.r = i],
         buf.r + 1 <= buf.w /\ buf.w <= Len(buf.data) =>
           i = buf.r + 1 /\ o.bytes = SubSeq(buf.data, buf.r + 1, buf.r + 1),
         NumberIs(o, FALSE)
  PROVE  Kept
<1>1. "read" \in {"read", "readLE", "readBytes"} /\ ("read" = "readLE") = FALSE /\ 1 \in Int
  OBVIOUS
<1>2. NumberIs(o, "read" = "readLE")
  BY <1>1
<1> QED BY <1>1, <1>2, ReadCall, Zenon

\* The bytes and the number of a typed read.
LEMMA NumberRead ==
  ASSUME NEW b, Formed(b), BytesIn(b.data), NEW n \in Nat, NEW le \in BOOLEAN, NEW o \in Reads(b, n, le)
  PROVE  /\ b.r + n <= b.w /\ b.w <= Len(b.data) =>
              o.buf = [b EXCEPT !.r = b.r + n] /\ o.bytes = SubSeq(b.data, b.r + 1, b.r + n)
         /\ NumberIs(o, le)
<1> DEFINE l == Len(b.data)
           r == b.r
           s == Slice(b.data, r, n)
<1>1. r \in Nat /\ b.w \in Nat /\ l \in Nat /\ IsSeq(b.data)
  BY SeqLen DEF Formed
<1>2. PICK g \in Gets(b, r, n, le) : o = [g EXCEPT !.buf.r = r + Len(g.bytes)]
  BY DEF Reads
<1>3. CASE r + n > l
  <2>1. g = Throws(b) \/ g = Returns(b, 0, <<>>)
    BY <1>1, <1>2, <1>3 DEF Gets
  <2>2. \E end : g = [buf |-> b, value |-> 0, bytes |-> <<>>, end |-> end]
    BY <2>1 DEF Throws, Returns, Outcome
  <2>3. o.bytes = <<>>
    BY <1>2, <2>2
  <2>4. NumberIs(o, le)
    BY <2>3, NoSeq DEF NumberIs
  <2> QED BY <1>1, <1>3, <2>4
<1>4. CASE r + n <= l
  <2>1. PICK v \in Decodings(s, le) : g = Returns(b, v, s)
    <3>1. ~(r > l) /\ ~(r + n > l)
      BY <1>1, <1>4
    <3> QED BY <1>2, <3>1 DEF Gets
  <2>2. s = SubSeq(b.data, r + 1, r + n)
    <3>1. ~(n < 0) /\ Least(r + n, l) = r + n
      BY <1>4 DEF Least
    <3> QED BY <3>1 DEF Slice
  <2>3. BytesIn(s)
    <3>1. r + 1 \in Nat \ {0} /\ r + n \in Nat
      BY <1>1
    <3> QED BY <1>4, <2>2, <3>1, PartBytes
  <2>4. Len(s) = n
    <3>1. Len(s) = IF r + 1 <= r + n THEN (r + n) - (r + 1) + 1 ELSE 0
      <4>1. r + 1 \in Int /\ r + n \in Int
        BY <1>1
      <4> QED BY <2>2, <4>1, SeqSub
    <3> HIDE DEF s, r, l
    <3> QED BY <1>1, <3>1
  <2> DEFINE value == Number(IF le THEN Reverse(s) ELSE s)
  <2>5. value \in Nat /\ Encoded(value, Len(s), le) = s
    BY <2>3, RoundTrip DEF BytesIn
  <2>6. v = value \/ (v = Garbage /\ ~(Len(s) <= IntWidth))
    BY <2>1 DEF Decodings
  <2> HIDE DEF value, s
  <2>7. g = [buf |-> b, value |-> v, bytes |-> s, end |-> "returns"]
    BY <2>1 DEF Returns, Outcome
  <2>8. o.buf = [b EXCEPT !.r = r + n] /\ o.value = v /\ o.bytes = s
    BY <1>2, <2>4, <2>7
  <2>9. NumberIs(o, le)
    <3>1. value # Garbage
      BY <2>5 DEF Garbage
    <3> QED BY <2>4, <2>5, <2>6, <2>8, <3>1, Zenon DEF NumberIs
  <2> QED BY <2>2, <2>8, <2>9
<1> QED BY <1>1, <1>3, <1>4

\* One byte is the number it is.
LEMMA OneByte ==
  ASSUME NEW x \in Bytes
  PROVE  Encoded(x, 1, FALSE) = <<x>>
<1> DEFINE e == Encoded(x, 1, FALSE)
<1>1. x \in Nat /\ x < 256
  BY BytesNat, Zenon
<1>2. Shifted(x, 1)[0] = x
  <2>1. 1 \in Nat
    OBVIOUS
  <2> QED BY <1>1, <2>1, ShiftedValues, Zenon
<1>3. IsSeq(e) /\ Len(e) = 1
  BY EncodedSeq
<1>4. e[1] = Shifted(x, 1)[0] % 256
  BY DEF Encoded, Binary
<1> HIDE DEF e
<1>5. e[1] = x
  BY <1>1, <1>2, <1>4
<1>6. IsSeq(<<x>>) /\ Len(<<x>>) = 1 /\ <<x>>[1] = x
  BY OneSeq
<1>7. \A i \in 1 .. 1 : e[i] = <<x>>[i]
  BY <1>5
<1>8. e = <<x>>
  BY <1>3, <1>6, <1>7, SeqSame
<1> QED BY <1>8 DEF e

LEMMA WritesGive ==
  ASSUME Formed(buf), BytesIn(buf.data), Writes
  PROVE  Kept
<1>1. PICK s \in Strings :
        \/ WriteBytes(s) \/ WriteBuf(s)
        \/ \E le \in BOOLEAN : WriteNumber(s, le)
        \/ \E i \in 0 .. MaxLen : SetBytes(i, s) \/ AssignBuf(s, i)
  BY DEF Writes
<1>2. BytesIn(s) /\ IsSeq(s) /\ Len(s) \in Nat /\ \A i \in 1 .. Len(s) : s[i] \in Bytes
  BY StringBytes, SeqLen DEF BytesIn
<1>3. "write" \in {"write", "writeBuf"} /\ "writeBuf" \in {"write", "writeBuf"}
  OBVIOUS
<1>4. CASE WriteBytes(s)
  <2>1. Call("write", Len(s), Returns(WriteData(buf, s), 0, s))
    BY <1>4 DEF WriteBytes
  <2> QED BY <1>2, <1>3, <2>1, WriteCall, Zenon
<1>5. CASE WriteBuf(s)
  <2>1. Call("writeBuf", Len(s), Returns(WriteData(buf, CString(s)), 0, s))
    BY <1>5 DEF WriteBuf
  <2>2. BytesIn(CString(s)) /\ (CString(s) = s \/ Contains(s, 0))
    BY <1>2, CStringBytes
  <2> QED BY <1>3, <2>1, <2>2, WriteCall, Zenon
<1>6. ASSUME NEW le \in BOOLEAN, WriteNumber(s, le) PROVE Kept
  <2> DEFINE value == Number(IF le THEN Reverse(s) ELSE s)
  <2>1. Call("write", Len(s), Returns(WriteData(buf, Encoded(value, Len(s), le)), value, s))
    BY <1>6 DEF WriteNumber
  <2>2. Encoded(value, Len(s), le) = s
    BY <1>2, RoundTrip
  <2> HIDE DEF value
  <2>3. Call("write", Len(s), Returns(WriteData(buf, s), value, s))
    BY <2>1, <2>2
  <2> QED BY <1>2, <1>3, <2>3, WriteCall, Zenon
<1>7. ASSUME NEW i \in 0 .. MaxLen, SetBytes(i, s) PROVE Kept
  <2>1. i \in Nat /\ Set("set", i, SetData(buf, i, s))
    BY <1>7, UseAssumption DEF SetBytes
  <2>2. BytesIn(SetData(buf, i, s).data)
    BY <1>2, <2>1, SetDataBytes
  <2> QED BY <2>1, <2>2, QuietSet
<1>8. ASSUME NEW i \in 0 .. MaxLen, AssignBuf(s, i) PROVE Kept
  <2> DEFINE d == [New(s) EXCEPT !.r = i]
             b == Assign(buf, d)
  <2>1. Set("assign", 0, b)
    BY <1>8 DEF AssignBuf
  <2>2. d = [data |-> s, r |-> i, w |-> Len(s), mr |-> 0, mw |-> 0]
    BY DEF New
  <2> HIDE DEF d
  <2>3. b.data = buf.data \o s
    BY <2>2 DEF Assign
  <2>4. BytesIn(b.data)
    BY <1>2, <2>3, CatBytes
  <2> HIDE DEF b
  <2> QED BY <2>1, <2>4, QuietSet
<1> QED BY <1>1, <1>4, <1>5, <1>6, <1>7, <1>8

LEMMA ReadsAnyGive ==
  ASSUME Formed(buf), BytesIn(buf.data), ReadsAny
  PROVE  Kept
<1> DEFINE l == Len(buf.data)
           d == buf.data
<1>1. /\ buf.r \in Nat /\ buf.w \in Nat /\ l \in Nat /\ IsSeq(d)
      /\ Widths \subseteq Nat /\ DoubleWidth \in Nat
  BY SeqLen, UseAssumption, WidthAssumption DEF Formed
<1>2. buf = [buf EXCEPT !.r = buf.r]
  BY DEF Formed
<1>3. CASE ReadOne
  <2> DEFINE o == ReadChar(buf)
  <2>1. Call("read", 1, o)
    BY <1>3 DEF ReadOne
  <2>2. CASE buf.r >= l
    <3>1. o.bytes = <<>> /\ o.buf \in {buf, [buf EXCEPT !.r = buf.r + 1]}
      <4>1. CASE buf.r > l
        BY <4>1, OutcomeFields DEF ReadChar, Throws
      <4>2. CASE buf.r = l
        BY <1>1, <4>2, OutcomeFields DEF ReadChar, Returns
      <4> QED BY <1>1, <2>2, <4>1, <4>2
    <3>2. PICK i \in Nat : o.buf = [buf EXCEPT !.r = i]
      <4>1. buf.r \in Nat /\ buf.r + 1 \in Nat
        BY <1>1
      <4> HIDE DEF o
      <4> QED BY <1>2, <3>1, <4>1, Zenon
    <3>3. NumberIs(o, FALSE)
      BY <3>1, NoSeq DEF NumberIs
    <3>4. ~(buf.r + 1 <= buf.w /\ buf.w <= l)
      BY <1>1, <2>2
    <3> HIDE DEF o
    <3> QED BY <2>1, <3>2, <3>3, <3>4, ByteRead, Zenon
  <2>3. CASE buf.r < l
    <3> DEFINE i == buf.r + 1
               x == d[i]
    <3>1. o = Returns([buf EXCEPT !.r = i], x, <<x>>)
      BY <1>1, <2>3 DEF ReadChar
    <3>2. o.buf = [buf EXCEPT !.r = i] /\ o.value = x /\ o.bytes = <<x>>
      BY <3>1, OutcomeFields DEF Returns
    <3>3. i \in Nat /\ i \in 1 .. l /\ i \in Int
      BY <1>1, <2>3
    <3>4. x \in Bytes
      BY <3>3 DEF BytesIn
    <3>5. SubSeq(d, i, i) = <<x>>
      <4>1. IsSeq(<<x>>) /\ Len(<<x>>) = 1 /\ <<x>>[1] = x
        BY OneSeq
      <4>2. /\ IsSeq(SubSeq(d, i, i)) /\ Len(SubSeq(d, i, i)) = IF i <= i THEN i - i + 1 ELSE 0
            /\ \A j \in 1 .. i - i + 1 : SubSeq(d, i, i)[j] = d[i + j - 1]
        BY <3>3, SeqSub
      <4> HIDE DEF x, i, d
      <4>3. i <= i /\ i - i + 1 = 1 /\ i + 1 - 1 = i /\ 1 \in 1 .. 1 /\ \A j \in 1 .. 1 : j = 1
        BY <3>3
      <4>4. Len(SubSeq(d, i, i)) = 1 /\ SubSeq(d, i, i)[1] = d[i]
        BY <4>2, <4>3, Zenon
      <4>5. d[i] = x
        BY DEF x, i
      <4>6. \A j \in 1 .. 1 : SubSeq(d, i, i)[j] = <<x>>[j]
        BY <4>1, <4>3, <4>4, <4>5, Zenon
      <4> QED BY <4>1, <4>2, <4>4, <4>6, SeqSame, Zenon
    <3>6. NumberIs(o, FALSE) /\ Len(<<x>>) = 1
      <4>1. Encoded(x, 1, FALSE) = <<x>>
        BY <3>4, OneByte
      <4>2. x # Garbage
        <5> HIDE DEF x
        <5> QED BY <3>4 DEF Bytes, Garbage
      <4>3. Len(<<x>>) = 1
        BY OneSeq
      <4> HIDE DEF o, x
      <4> QED BY <3>2, <4>1, <4>2, <4>3, Zenon DEF NumberIs
    <3>7. buf.r + 1 <= buf.w /\ buf.w <= Len(buf.data) =>
            i = buf.r + 1 /\ o.bytes = SubSeq(buf.data, buf.r + 1, buf.r + 1)
      BY <3>2, <3>5
    <3>8. i \in Nat /\ o.buf = [buf EXCEPT !.r = i] /\ NumberIs(o, FALSE)
      BY <3>2, <3>3, <3>6, Zenon
    <3> HIDE DEF o, i
    <3> QED BY <2>1, <3>7, <3>8, ByteRead, Zenon
  <2> QED BY <1>1, <2>2, <2>3
<1>4. ASSUME NEW le \in BOOLEAN, NEW n \in Widths, ReadNumber(n, le) PROVE Kept
  <2> DEFINE op == IF le THEN "readLE" ELSE "read"
  <2>1. PICK o \in Reads(buf, n, le) : Call(op, n, o)
    BY <1>4 DEF ReadNumber
  <2>2. n \in Nat /\ n \in Int
    BY <1>1
  <2>3. PICK i \in Nat : o.buf = [buf EXCEPT !.r = i]
    BY <2>2, ReadsGive
  <2>4. /\ buf.r + n <= buf.w /\ buf.w <= l =>
             o.buf = [buf EXCEPT !.r = buf.r + n] /\ o.bytes = SubSeq(d, buf.r + 1, buf.r + n)
        /\ NumberIs(o, le)
    BY <2>2, NumberRead
  <2>5. op \in {"read", "readLE", "readBytes"} /\ (op = "readLE") = le
    OBVIOUS
  <2>6. NumberIs(o, op = "readLE")
    BY <2>4, <2>5, Zenon
  <2>7. [buf EXCEPT !.r = i] = [buf EXCEPT !.r = buf.r + n] => i = buf.r + n
    BY DEF Formed
  <2> HIDE DEF op, l, d
  <2>8. 0 <= n /\ buf.r + n <= buf.w /\ buf.w <= l => i = buf.r + n /\ o.bytes = SubSeq(d, buf.r + 1, buf.r + n)
    BY <2>3, <2>4, <2>7, Zenon
  <2> QED BY <2>1, <2>2, <2>3, <2>5, <2>6, <2>8, ReadCall DEF l, d
<1>5. ASSUME NEW n \in -1 .. MaxLen, Take(n) PROVE Kept
  <2> DEFINE o == ReadBytes(buf, n)
             t == Slice(d, buf.r, n)
  <2>1. Call("readBytes", n, o) /\ n \in Int
    BY <1>5, UseAssumption DEF Take
  <2>2. "readBytes" \in {"read", "readLE", "readBytes"} /\ "readBytes" \notin {"read", "readLE"}
    OBVIOUS
  <2>3. CASE buf.r > l
    <3>1. o.buf = [buf EXCEPT !.r = buf.r]
      BY <1>2, <2>3, OutcomeFields DEF ReadBytes, Throws
    <3>2. ~(0 <= n /\ buf.r + n <= buf.w /\ buf.w <= l)
      BY <1>1, <2>1, <2>3
    <3> HIDE DEF o
    <3> QED BY <1>1, <2>1, <2>2, <3>1, <3>2, ReadCall
  <2>4. CASE buf.r <= l
    <3>1. Len(t) \in Nat
      BY <1>1, <2>1, <2>4, SliceLen
    <3>2. o.buf = [buf EXCEPT !.r = buf.r + Len(t)] /\ o.bytes = t
      BY <1>1, <2>4, OutcomeFields DEF ReadBytes, Returns
    <3>3. ASSUME 0 <= n, buf.r + n <= buf.w, buf.w <= l
          PROVE  buf.r + Len(t) = buf.r + n /\ t = SubSeq(d, buf.r + 1, buf.r + n)
      <4>1. ~(n < 0) /\ Least(buf.r + n, l) = buf.r + n /\ n \in Nat
        BY <1>1, <2>1, <3>3 DEF Least
      <4>2. t = SubSeq(d, buf.r + 1, buf.r + n)
        BY <4>1 DEF Slice
      <4>3. buf.r + 1 \in Int /\ buf.r + n \in Int
        BY <1>1, <4>1
      <4>4. Len(t) = IF buf.r + 1 <= buf.r + n THEN (buf.r + n) - (buf.r + 1) + 1 ELSE 0
        BY <4>2, <4>3, SeqSub
      <4> HIDE DEF t
      <4>5. Len(t) = n
        BY <1>1, <4>1, <4>4
      <4> QED BY <4>2, <4>5
    <3>4. buf.r + Len(t) \in Nat
      BY <1>1, <3>1
    <3> HIDE DEF o
    <3> QED BY <2>1, <2>2, <3>2, <3>3, <3>4, ReadCall
  <2> QED BY <1>1, <2>3, <2>4
<1>6. ASSUME NEW le \in BOOLEAN, ReadReal(le) PROVE Kept
  <2> DEFINE o == ReadDouble(buf, le)
             i == IF DoubleWidth - 1 - buf.r \in 0 .. l - 1 THEN DoubleWidth ELSE buf.r
             j == IF buf.r > l THEN buf.r ELSE l
  <2>1. Call("readDouble", DoubleWidth, o)
    BY <1>6 DEF ReadReal
  <2>2. o \in {Returns(buf, 0, <<>>), Throws([buf EXCEPT !.r = i]), Throws([buf EXCEPT !.r = j])}
    BY DEF ReadDouble
  <2>3. o.buf \in {buf, [buf EXCEPT !.r = i], [buf EXCEPT !.r = j]}
    BY <2>2, OutcomeFields DEF Returns, Throws
  <2> HIDE DEF o, i, j
  <2>4. o.buf.data = d
    BY <2>3 DEF Formed
  <2> QED BY <2>1, <2>4, QuietCall
<1> QED BY <1>3, <1>4, <1>5, <1>6 DEF ReadsAny

LEMMA MovesGive ==
  ASSUME Formed(buf), BytesIn(buf.data), Moves
  PROVE  Kept
<1> DEFINE l == Len(buf.data)
           d == buf.data
<1>1. /\ buf.r \in Nat /\ buf.w \in Nat /\ l \in Nat /\ IsSeq(d)
      /\ \A i \in 0 .. MaxLen : i \in Nat
  BY SeqLen, UseAssumption DEF Formed
<1>2. ASSUME NEW op, NEW n, NEW b, Set(op, n, b), b.data = d,
             op \notin {"write", "writeBuf", "read", "readLE", "readBytes", "skip", "clear"}
      PROVE  Kept
  BY <1>2, QuietSet
<1>3. \A i, j : /\ [buf EXCEPT !.r = i].data = d /\ [buf EXCEPT !.w = i].data = d
                /\ [buf EXCEPT !.mr = i].data = d /\ [buf EXCEPT !.mw = i].data = d
                /\ [buf EXCEPT !.r = i, !.w = j].data = d
  BY DEF Formed
<1>4. CASE ClearAll
  <2> DEFINE b == Clear(buf)
  <2>1. Set("clear", 0, b) /\ "clear" \in {"skip", "clear"}
    BY <1>4 DEF ClearAll
  <2>2. b.data = d /\ b.r = 0 /\ b.w = 0
    BY DEF Clear, Formed
  <2>3. Readable(b) = <<>>
    <3>1. Readable(b) = SubSeq(d, 0 + 1, 0)
      BY <2>2 DEF Readable
    <3>2. IsSeq(SubSeq(d, 0 + 1, 0)) /\ Len(SubSeq(d, 0 + 1, 0)) = 0
      BY SeqSub
    <3> QED BY <3>1, <3>2, SeqLen
  <2> HIDE DEF b
  <2>4. /\ Readable(buf)' = <<>> /\ buf.data' = d /\ out'.op = "clear" /\ out'.bytes = <<>>
        /\ NumbersReadBack'
    BY <2>1, <2>2, <2>3, EmptyCall, Zenon
  <2>5. StreamStep
    <3>1. Stream!Clear
      BY <2>4, Zenon DEF Stream!Clear
    <3>2. out'.op = "clear"
      BY <2>4
    <3> QED BY <3>1, <3>2 DEF StreamStep
  <2>6. BytesIn(buf.data)'
    BY <2>4 DEF BytesIn
  <2> QED BY <2>4, <2>5, <2>6 DEF Kept
<1>5. CASE Discard
  <2> DEFINE o == DiscardReadBytes(buf)
             t == SubSeq(d, buf.r + 2, l)
  <2>1. Call("discard", 0, o)
    BY <1>5 DEF Discard
  <2>2. CASE buf.r + 1 > l
    <3>1. o.buf = buf
      BY <2>2, OutcomeFields DEF DiscardReadBytes, Throws
    <3> HIDE DEF o
    <3> QED BY <2>1, <3>1, QuietCall
  <2>3. CASE ~(buf.r + 1 > l)
    <3> DEFINE b == [buf EXCEPT !.data = t, !.r = 0, !.w = 0]
    <3>1. o = Returns(b, 0, <<>>)
      BY <2>3 DEF DiscardReadBytes
    <3> HIDE DEF t
    <3>2. b.data = t
      BY DEF Formed
    <3> HIDE DEF b
    <3>3. o.buf.data = t
      BY <3>1, <3>2, OutcomeFields DEF Returns
    <3>4. BytesIn(t)
      <4>1. buf.r + 2 \in Nat \ {0} /\ l \in Nat /\ l <= l
        BY <1>1
      <4> HIDE DEF l
      <4>2. BytesIn(SubSeq(d, buf.r + 2, l))
        BY <4>1, PartBytes DEF l
      <4> QED BY <4>2 DEF t
    <3> HIDE DEF o
    <3> QED BY <2>1, <3>3, <3>4, QuietCall
  <2> QED BY <2>2, <2>3
<1>6. CASE Mark
  <2> DEFINE b == MarkReader(buf)
             c == MarkWriter(buf)
  <2>1. (Set("mark", 0, b) \/ Set("mark", 0, c)) /\ b.data = d /\ c.data = d
    BY <1>3, <1>6 DEF Mark, MarkReader, MarkWriter
  <2> HIDE DEF b, c
  <2> QED BY <1>2, <2>1
<1>7. CASE Reset
  <2> DEFINE b == ResetReader(buf)
             c == ResetWriter(buf)
  <2>1. (Set("resetReader", 0, b) \/ Set("resetWriter", 0, c)) /\ b.data = d /\ c.data = d
    BY <1>3, <1>7 DEF Reset, ResetReader, ResetWriter
  <2> HIDE DEF b, c
  <2> QED BY <1>2, <2>1
<1>8. ASSUME NEW n \in 0 .. MaxLen, WriteZero(n) PROVE Kept
  <2> DEFINE s == Zeros(n)
  <2>1. Call("write", Len(s), Returns(WriteData(buf, s), 0, s))
    BY <1>8 DEF WriteZero, WriteBytes
  <2>2. BytesIn(s) /\ "write" \in {"write", "writeBuf"}
    BY <1>1, ZerosBytes
  <2> HIDE DEF s
  <2> QED BY <2>1, <2>2, WriteCall, Zenon
<1>9. ASSUME NEW n \in 0 .. MaxLen, Skip(n) PROVE Kept
  <2> DEFINE i == Least(buf.r + n, l)
             b == [buf EXCEPT !.r = i]
  <2>1. Set("skip", n, b) /\ "skip" \in {"skip", "clear"}
    BY <1>9 DEF Skip, SkipBytes
  <2>2. b.data = d
    BY <1>3
  <2> HIDE DEF b
  <2>3. /\ Readable(buf)' = Readable(b) /\ buf.data' = d
        /\ out'.op = "skip" /\ out'.n = n /\ out'.bytes = <<>> /\ NumbersReadBack'
    BY <2>1, <2>2, EmptyCall, Zenon
  <2>4. ASSUME InBounds, Enough(n) PROVE Stream!Skip(n)
    <3>1. Fits(buf) /\ n \in Nat /\ n <= Len(Readable(buf)) /\ Len(Readable(buf)) = buf.w - buf.r
      BY <2>4, ReadableLen DEF InBounds, Fits, Enough
    <3>2. buf.r + n <= buf.w /\ buf.w <= l
      BY <1>1, <3>1 DEF Fits
    <3>3. i = buf.r + n
      BY <1>1, <3>1, <3>2 DEF Least
    <3>4. b = [buf EXCEPT !.r = buf.r + n]
      BY <3>3 DEF b
    <3>5. SubSeq(Readable(buf), n + 1, Len(Readable(buf))) = Readable([buf EXCEPT !.r = buf.r + n])
      BY <3>1, <3>2, FrontTaken, Zenon
    <3>6. Readable(buf)' = SubSeq(Readable(buf), n + 1, Len(Readable(buf)))
      BY <2>3, <3>4, <3>5, Zenon
    <3> QED BY <2>3, <3>1, <3>6, Zenon DEF Stream!Skip
  <2>5. StreamStep
    <3>1. out'.op = "skip" /\ out'.n = n
      BY <2>3
    <3> QED BY <2>4, <3>1 DEF StreamStep
  <2>6. BytesIn(buf.data)'
    BY <2>3 DEF BytesIn
  <2> QED BY <2>3, <2>5, <2>6 DEF Kept
<1>10. ASSUME NEW i \in 0 .. MaxLen, MoveReader(i) PROVE Kept
  <2> DEFINE b == ReaderIndex(buf, i)
  <2>1. Set("readerIndex", i, b) /\ b.data = d
    BY <1>3, <1>10 DEF MoveReader, ReaderIndex
  <2> HIDE DEF b
  <2> QED BY <1>2, <2>1
<1>11. ASSUME NEW i \in 0 .. MaxLen, MoveWriter(i) PROVE Kept
  <2> DEFINE b == WriterIndex(buf, i)
  <2>1. Set("writerIndex", i, b) /\ b.data = d
    BY <1>3, <1>11 DEF MoveWriter, WriterIndex
  <2> HIDE DEF b
  <2> QED BY <1>2, <2>1
<1>12. ASSUME NEW i \in 0 .. MaxLen, NEW j \in 0 .. MaxLen, MoveBoth(i, j) PROVE Kept
  <2> DEFINE b == SetIndex(buf, i, j)
  <2>1. Set("setIndex", j, b) /\ b.data = d
    BY <1>3, <1>12 DEF MoveBoth, SetIndex
  <2> HIDE DEF b
  <2> QED BY <1>2, <2>1
<1> QED BY <1>4, <1>5, <1>6, <1>7, <1>8, <1>9, <1>10, <1>11, <1>12 DEF Moves

-----------------------------------------------------------------------------
(* The theorems.                                                           *)

LEMMA AlwaysFormed == Spec => []Formed(buf)
<1>1. Init => Formed(buf)
  BY StringSeq, NewFormed DEF Init
<1>2. Formed(buf) /\ [Next]_vars => Formed(buf)'
  <2>1. Formed(buf) /\ Next => Formed(buf)'
    BY WritesKeep, ReadsKeep, MovesKeep DEF Next
  <2>2. Formed(buf) /\ UNCHANGED vars => Formed(buf)'
    BY DEF vars
  <2> QED BY <2>1, <2>2
<1> QED BY <1>1, <1>2, PTL DEF Spec

\* The reader index stays at or before the writer index, and that within the
\* stored bytes, through every call but the ones BoundsStep names, and no other
\* call on such a buffer throws than the two it names.
THEOREM BoundsKeptAlways == Spec => BoundsKept
<1>1. Formed(buf) /\ [Next]_vars => [BoundsStep]_vars
  BY WritesKeep, ReadsKeep, MovesKeep DEF Next
<1> QED BY <1>1, AlwaysFormed, PTL DEF Spec, BoundsKept

\* What is looked up in a buffer is there: with the indexes in bounds a search
\* gives the first place of what it looks for, and with any indexes a getter
\* gives the stored bytes or nothing, and an assigned buffer compares equal.
THEOREM LooksAgreeHolds == Spec => []LooksAgree
<1>1. Formed(buf) => LooksAgree
  BY LooksRight
<1> QED BY <1>1, AlwaysFormed, PTL

\* What hexadecimal text gives back of each byte.
LEMMA HexHolds ==
  ASSUME BytesIn(buf.data)
  PROVE  HexReadsBack
<1> DEFINE d == buf.data
           n == Len(d)
           h == ToHex(d)
           e == [i \in 1 .. n |-> HexByte(h[2 * i - 1], h[2 * i])]
<1>1. n \in Nat /\ IsSeq(d) /\ (n = 0 <=> d = <<>>) /\ \A i \in 1 .. n : d[i] \in Bytes
  BY SeqLen DEF BytesIn
<1>2. /\ IsSeq(h) /\ Len(h) = 2 * n
      /\ \A k \in 1 .. 2 * n : h[k] = IF k % 2 = 1 THEN d[(k + 1) \div 2] \div 16 ELSE d[k \div 2] % 16
  <2> DEFINE f(k) == IF k % 2 = 1 THEN d[(k + 1) \div 2] \div 16 ELSE d[k \div 2] % 16
             T == {f(k) : k \in 1 .. 2 * n}
  <2>1. h = [k \in 1 .. 2 * n |-> f(k)]
    BY DEF ToHex
  <2> HIDE DEF f, n, d
  <2>2. h \in [1 .. 2 * n -> T] /\ \A k \in 1 .. 2 * n : h[k] = f(k)
    <3> HIDE DEF h
    <3> QED BY <2>1
  <2> HIDE DEF T, h
  <2>3. 2 * n \in Nat
    BY <1>1
  <2>4. IsSeq(h) /\ Len(h) = 2 * n
    BY <2>2, <2>3, FunSeq
  <2> QED BY <2>2, <2>4, Zenon DEF f
<1> HIDE DEF d, n, h
<1>3. ASSUME NEW i \in 1 .. n PROVE HexByte(h[2 * i - 1], h[2 * i]) = d[i]
  <2>1. /\ 2 * i - 1 \in 1 .. 2 * n /\ 2 * i \in 1 .. 2 * n
        /\ (2 * i - 1) % 2 = 1 /\ (2 * i) % 2 # 1
        /\ ((2 * i - 1) + 1) \div 2 = i /\ (2 * i) \div 2 = i
    BY <1>1
  <2>2. h[2 * i - 1] = d[i] \div 16 /\ h[2 * i] = d[i] % 16
    BY <1>2, <2>1, Zenon
  <2>3. d[i] \in Nat /\ d[i] < 256
    BY <1>1, BytesNat, Zenon
  <2>4. ASSUME NEW x \in Nat PROVE HexByte(x \div 16, x % 16) = x
    <3> DEFINE S == {q \in Nat : x < 16 * (q + 1)}
    <3>1. S \subseteq Nat /\ x \in S
      OBVIOUS
    <3> HIDE DEF S
    <3>2. PICK q \in S : \A y \in S : q <= y
      BY <3>1, LeastIn
    <3>3. q \in Nat /\ x < 16 * (q + 1)
      BY <3>2 DEF S
    <3>4. q = 0 \/ q - 1 \notin S
      BY <3>2, <3>3
    <3>5. 16 * q <= x
      BY <3>3, <3>4 DEF S
    <3> DEFINE r == x - 16 * q
    <3>6. r \in 0 .. 15 /\ x = 16 * q + r
      BY <3>3, <3>5
    <3> HIDE DEF r
    <3>7. (16 * q + r) \div 16 = q /\ (16 * q + r) % 16 = r
      BY <3>3, <3>6
    <3>8. x \div 16 = q /\ x % 16 = r
      BY <3>6, <3>7, Zenon
    <3>9. HexByte(q, r) = 16 * q + r
      BY <3>3, <3>6 DEF HexByte
    <3> QED BY <3>6, <3>8, <3>9, Zenon
  <2>5. HexByte(d[i] \div 16, d[i] % 16) = d[i]
    BY <2>3, <2>4, Zenon
  <2> QED BY <2>2, <2>5, Zenon
<1>4. ASSUME d # <<>> PROVE FromHex(h).buf.data = d
  <2>1. h # <<>> /\ Len(h) \div 2 = n
    <3>1. 2 * n # 0 /\ (2 * n) \div 2 = n
      BY <1>1, <1>4
    <3> QED BY <1>2, <3>1, NoSeq, Zenon
  <2>2. FromHex(h) = Returns(New(e), 0, <<>>)
    BY <2>1 DEF FromHex
  <2>3. e = [i \in 1 .. n |-> d[i]]
    BY <1>3
  <2>4. d = [i \in 1 .. n |-> d[i]]
    BY <1>1 DEF IsSeq, n
  <2> HIDE DEF e
  <2>5. FromHex(h).buf = New(e)
    BY <2>2, OutcomeFields DEF Returns
  <2>6. New(e).data = e
    BY DEF New
  <2> QED BY <2>3, <2>4, <2>5, <2>6, Zenon
<1> QED BY <1>4 DEF HexReadsBack, d, h

\* The buffer only ever holds bytes, and every step of the program keeps to
\* the stream.
LEMMA StepGives ==
  ASSUME Formed(buf), BytesIn(buf.data), NumbersReadBack, [Next]_vars
  PROVE  BytesIn(buf.data)' /\ NumbersReadBack' /\ [StreamStep]_vars
<1>1. CASE Next
  BY <1>1, WritesGive, ReadsAnyGive, MovesGive DEF Next, Kept
<1>2. CASE UNCHANGED vars
  BY <1>2 DEF vars, BytesIn, NumbersReadBack
<1> QED BY <1>1, <1>2

LEMMA FirstBytes ==
  ASSUME Init
  PROVE  BytesIn(buf.data) /\ NumbersReadBack
<1>1. PICK s \in Strings : buf = New(s)
  BY DEF Init
<1>2. BytesIn(buf.data)
  BY <1>1, StringBytes DEF New
<1>3. out.op = "new"
  BY DEF Init
<1> QED BY <1>2, <1>3 DEF NumbersReadBack

LEMMA AlwaysBytes == Spec => [](BytesIn(buf.data) /\ NumbersReadBack)
<1>1. Init => BytesIn(buf.data) /\ NumbersReadBack
  BY FirstBytes
<1>2. Formed(buf) /\ (BytesIn(buf.data) /\ NumbersReadBack) /\ [Next]_vars
        => (BytesIn(buf.data) /\ NumbersReadBack)'
  BY StepGives
<1> QED BY <1>1, <1>2, AlwaysFormed, PTL DEF Spec

\* A number that is read, in either byte order, is the one whose bytes were
\* stored, and the stored bytes survive their hexadecimal text.
THEOREM ReadsBackHolds == Spec => []ReadsBack
<1>1. BytesIn(buf.data) /\ NumbersReadBack => ReadsBack
  BY HexHolds DEF ReadsBack
<1> QED BY <1>1, AlwaysBytes, PTL

\* In bounds the buffer is a first-in first-out stream: a write of a number, of
\* bytes or of another buffer adds to the end of what can be read, a read takes
\* from its front what it returns, a skip drops it, clear empties it.
THEOREM StreamStepsHold == Spec => StreamSteps
<1>1. /\ Formed(buf) /\ (BytesIn(buf.data) /\ NumbersReadBack) /\ [Next]_vars
        => [StreamStep]_vars
  BY StepGives
<1> QED BY <1>1, AlwaysFormed, AlwaysBytes, PTL DEF Spec, StreamSteps

=============================================================================
