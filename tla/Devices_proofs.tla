--------------------------- MODULE Devices_proofs ---------------------------
(***************************************************************************)
(* Proofs about Devices, for any number of handles, Sockets, descriptors   *)
(* and openings: references are counted, nobody closes what another uses,  *)
(* and what is open is held.  Then of what is kept beside a descriptor, the *)
(* flags of a file, the fields of the converter's register, the addresses  *)
(* and the state a Socket remembers: it is what was asked for, or is true. *)
(***************************************************************************)
EXTENDS Devices, FiniteSetTheorems, WellFoundedInduction, TLAPS

-----------------------------------------------------------------------------
(* Sets of numbers and of handles.                                         *)

LEMMA MinIn ==
  ASSUME NEW S, S \subseteq Nat, S # {}
  PROVE  Min(S) \in S
<1> DEFINE R == OpToRel(<, Nat)
<1>1. \A x, y \in Nat : <<y, x>> \in R <=> y < x
  BY DEF OpToRel
<1>2. IsWellFoundedOn(R, Nat)
  BY NatLessThanWellFounded
<1> HIDE DEF R
<1>3. \E x \in S : \A y \in S : ~(<<y, x>> \in R)
  BY <1>2, WFMin
<1>4. \E x \in S : \A y \in S : ~(y < x)
  BY <1>1, <1>3, Zenon
<1>5. PICK x \in S : \A y \in S : ~(y < x)
  BY <1>4
<1>6. \A y \in S : x <= y
  <2> SUFFICES ASSUME NEW y \in S PROVE x <= y
    OBVIOUS
  <2> QED BY <1>5
<1> QED BY <1>6 DEF Min

\* How many handles are on a Detail.
Count(on, d) == Cardinality({h \in Handles : on[h] = d})

LEMMA CountType ==
  ASSUME NEW on, NEW d
  PROVE  /\ Count(on, d) \in Nat
         /\ Count(on, d) = 0 <=> \A h \in Handles : on[h] # d
<1> DEFINE S == {h \in Handles : on[h] = d}
<1>1. IsFiniteSet(S)
  BY FS_Subset, FdAssumption
<1>2. Cardinality(S) \in Nat /\ (Cardinality(S) = 0 <=> S = {})
  BY <1>1, FS_CardinalityType, FS_EmptySet
<1>3. S = {} <=> \A h \in Handles : on[h] # d
  OBVIOUS
<1> QED BY <1>2, <1>3 DEF Count

\* One handle goes from one Detail to another.
At(x, d) == IF x = d THEN 1 ELSE 0

LEMMA CountMoves ==
  ASSUME NEW on \in [Handles -> {0} \cup Details], NEW h \in Handles,
         NEW v \in {0} \cup Details, NEW d \in {0} \cup Details
  PROVE  Count([on EXCEPT ![h] = v], d) = (Count(on, d) - At(on[h], d)) + At(v, d)
<1> DEFINE on2 == [on EXCEPT ![h] = v]
           S == {k \in Handles : on[k] = d}
           T == {k \in Handles : on2[k] = d}
<1>1. IsFiniteSet(S) /\ IsFiniteSet(S \ {h})
  BY FS_Subset, FdAssumption
<1>2. Cardinality(S \ {h}) = IF on[h] = d THEN Cardinality(S) - 1 ELSE Cardinality(S)
  BY <1>1, FS_RemoveElement
<1>3. T = IF v = d THEN (S \ {h}) \cup {h} ELSE S \ {h}
  OBVIOUS
<1>4. Cardinality((S \ {h}) \cup {h}) = Cardinality(S \ {h}) + 1
  BY <1>1, FS_AddElement
<1>5. Cardinality(S) \in Nat /\ Cardinality(S \ {h}) \in Nat
  BY <1>1, FS_CardinalityType
<1> HIDE DEF S, T, on2
<1>6. Cardinality(T) = (Cardinality(S) - (IF on[h] = d THEN 1 ELSE 0)) + (IF v = d THEN 1 ELSE 0)
  BY <1>2, <1>3, <1>4, <1>5
<1> QED BY <1>6 DEF Count, At, S, T, on2

-----------------------------------------------------------------------------
(* The world of descriptors.                                               *)

Counted(w) == \A d \in Details : w.ref[d] = Count(w.on, d) + w.lost[d]

\* A Detail with a number has its own file behind it, which is not b's.
Named(w, b) ==
  \A d \in Details :
    /\ w.num[d] = -1 <=> w.file[d] = 0
    /\ w.num[d] # -1 => w.table[w.num[d]] = w.file[d]
    /\ w.file[d] # 0 => w.file[d] # b /\ \A c \in Details : c # d => w.file[c] # w.file[d]

\* Openings have been counted, and a file is open once.
Opened(w, b) ==
  /\ b \in 0 .. w.opened
  /\ \A n \in Numbers : w.table[n] <= w.opened
  /\ \A n, m \in Numbers : n # m /\ w.table[n] # 0 => w.table[m] # w.table[n]

\* What is open is one of the files K or held by a Detail in use.
Held(w, K) ==
  \A n \in Numbers : w.table[n] # 0 =>
    w.table[n] \in K \/ \E d \in Details : w.file[d] = w.table[n] /\ w.ref[d] > 0

Good(w, b, K) ==
  w \in World /\ Counted(w) /\ Named(w, b) /\ Opened(w, b) /\ Held(w, K)

LEMMA Sets ==
  /\ Numbers \subseteq Nat /\ Files \subseteq Nat /\ Details \subseteq Nat
  /\ 0 \notin Files /\ 0 \notin Details /\ -1 \notin Numbers
BY FdAssumption DEF Numbers, Files, Details

LEMMA WorldFields ==
  ASSUME NEW w \in World
  PROVE  /\ w = [table |-> w.table, opened |-> w.opened, on |-> w.on, ref |-> w.ref,
                 num |-> w.num, file |-> w.file, lost |-> w.lost]
         /\ w.table \in [Numbers -> {0} \cup Files]
         /\ w.opened \in {0} \cup Files
         /\ w.on \in [Handles -> {0} \cup Details]
         /\ w.ref \in [Details -> 0 .. MaxRefs]
         /\ w.num \in [Details -> Numbers \cup {-1}]
         /\ w.file \in [Details -> {0} \cup Files]
         /\ w.lost \in [Details -> 0 .. MaxRefs]
BY DEF World

LEMMA WorldMade ==
  ASSUME NEW table \in [Numbers -> {0} \cup Files], NEW opened \in {0} \cup Files,
         NEW on \in [Handles -> {0} \cup Details], NEW ref \in [Details -> 0 .. MaxRefs],
         NEW num \in [Details -> Numbers \cup {-1}], NEW file \in [Details -> {0} \cup Files],
         NEW lost \in [Details -> 0 .. MaxRefs]
  PROVE  [table |-> table, opened |-> opened, on |-> on, ref |-> ref,
          num |-> num, file |-> file, lost |-> lost] \in World
BY DEF World

LEMMA OnRefChanged ==
  ASSUME NEW w \in World, NEW on, NEW ref
  PROVE  [w EXCEPT !.on = on, !.ref = ref]
           = [table |-> w.table, opened |-> w.opened, on |-> on, ref |-> ref,
              num |-> w.num, file |-> w.file, lost |-> w.lost]
<1>1. w = [table |-> w.table, opened |-> w.opened, on |-> w.on, ref |-> w.ref,
           num |-> w.num, file |-> w.file, lost |-> w.lost]
  BY WorldFields
<1>2. SUFFICES ASSUME NEW u, u = [w EXCEPT !.on = on, !.ref = ref]
               PROVE  u = [table |-> w.table, opened |-> w.opened, on |-> on, ref |-> ref,
                           num |-> w.num, file |-> w.file, lost |-> w.lost]
  OBVIOUS
<1> QED BY <1>1, <1>2

\* A handle is on no deleted Detail.
LEMMA OnCounted ==
  ASSUME NEW w \in World, Counted(w), NEW h \in Handles, w.on[h] # 0
  PROVE  /\ w.on[h] \in Details
         /\ w.ref[w.on[h]] > w.lost[w.on[h]]
         /\ w.on[h] \notin Free(w)
<1> DEFINE d == w.on[h]
<1>1. d \in Details
  BY WorldFields
<1>2. Count(w.on, d) \in Nat /\ Count(w.on, d) # 0
  BY CountType
<1>3. w.ref[d] = Count(w.on, d) + w.lost[d] /\ w.ref[d] \in 0 .. MaxRefs /\ w.lost[d] \in 0 .. MaxRefs
  BY <1>1, WorldFields DEF Counted
<1>4. w.ref[d] > w.lost[d] /\ w.ref[d] # 0
  BY <1>2, <1>3, FdAssumption
<1> QED BY <1>1, <1>4 DEF Free

\* A Detail closes its number.
ClosedNow(w, d) == [CloseNumber(w, w.num[d]) EXCEPT !.num[d] = -1, !.file[d] = 0]

LEMMA Closed ==
  ASSUME NEW w, NEW b, NEW K, Good(w, b, K), NEW d \in Details
  PROVE  LET x == ClosedNow(w, d)
         IN /\ Good(x, b, K)
            /\ x.on = w.on /\ x.ref = w.ref /\ x.lost = w.lost /\ x.opened = w.opened
            /\ x.num = [w.num EXCEPT ![d] = -1] /\ x.file = [w.file EXCEPT ![d] = 0]
            /\ x.table = IF w.num[d] = -1 THEN w.table ELSE [w.table EXCEPT ![w.num[d]] = 0]
<1> DEFINE table == IF w.num[d] = -1 THEN w.table ELSE [w.table EXCEPT ![w.num[d]] = 0]
           num == [w.num EXCEPT ![d] = -1]
           file == [w.file EXCEPT ![d] = 0]
           x == ClosedNow(w, d)
<1>1. w \in World /\ Counted(w) /\ Named(w, b) /\ Opened(w, b) /\ Held(w, K)
  BY DEF Good
<1>2. table \in [Numbers -> {0} \cup Files] /\ num \in [Details -> Numbers \cup {-1}]
      /\ file \in [Details -> {0} \cup Files]
  BY <1>1, WorldFields
<1>3. x = [table |-> table, opened |-> w.opened, on |-> w.on, ref |-> w.ref,
           num |-> num, file |-> file, lost |-> w.lost]
  <2> DEFINE y == CloseNumber(w, w.num[d])
  <2>1. y = [table |-> table, opened |-> w.opened, on |-> w.on, ref |-> w.ref,
             num |-> w.num, file |-> w.file, lost |-> w.lost]
    <3>1. CASE w.num[d] = -1
      BY <3>1, <1>1, WorldFields DEF CloseNumber
    <3>2. CASE w.num[d] # -1
      <4>1. y = [w EXCEPT !.table[w.num[d]] = 0]
        BY <3>2 DEF CloseNumber
      <4> QED BY <3>2, <4>1, <1>1, WorldFields
    <3> QED BY <3>1, <3>2
  <2>2. x = [y EXCEPT !.num[d] = -1, !.file[d] = 0]
    BY DEF ClosedNow
  <2> HIDE DEF y, x, table
  <2> QED BY <2>1, <2>2
<1> HIDE DEF x
<1>4. x \in World
  BY <1>1, <1>2, <1>3, WorldFields, WorldMade
<1>5. /\ x.table = table /\ x.opened = w.opened /\ x.on = w.on /\ x.ref = w.ref
      /\ x.num = num /\ x.file = file /\ x.lost = w.lost
  BY <1>3
<1>6. Counted(x)
  BY <1>1, <1>5 DEF Counted
<1>7. Named(x, b)
  <2> SUFFICES ASSUME NEW c \in Details
               PROVE  /\ num[c] = -1 <=> file[c] = 0
                      /\ num[c] # -1 => table[num[c]] = file[c]
                      /\ file[c] # 0 => file[c] # b /\ \A e \in Details : e # c => file[e] # file[c]
    BY <1>5 DEF Named
  <2>1. CASE c = d
    BY <2>1, <1>1, WorldFields
  <2>2. CASE c # d
    <3>1. num[c] = w.num[c] /\ file[c] = w.file[c]
      BY <2>2, <1>1, WorldFields
    <3>2. num[c] # -1 => num[c] # w.num[d]
      BY <2>2, <3>1, <1>1, Sets DEF Named
    <3> QED BY <2>2, <3>1, <3>2, <1>1, WorldFields DEF Named
  <2> QED BY <2>1, <2>2
<1>8. Opened(x, b)
  <2>1. \A n \in Numbers : table[n] = 0 \/ table[n] = w.table[n]
    BY <1>1, WorldFields
  <2> HIDE DEF table
  <2>2. w.opened \in Nat
    BY <1>1, WorldFields, Sets
  <2> QED BY <1>1, <1>5, <2>1, <2>2 DEF Opened
<1>9. Held(x, K)
  <2> SUFFICES ASSUME NEW n \in Numbers, table[n] # 0, table[n] \notin K
               PROVE  \E c \in Details : file[c] = table[n] /\ w.ref[c] > 0
    BY <1>5 DEF Held
  <2>1. table[n] = w.table[n] /\ (w.num[d] # -1 => n # w.num[d])
    BY <1>1, WorldFields
  <2>2. PICK c \in Details : w.file[c] = w.table[n] /\ w.ref[c] > 0
    BY <1>1, <2>1 DEF Held
  <2>3. w.num[c] # -1 /\ w.num[c] \in Numbers /\ w.table[w.num[c]] = w.file[c]
    BY <1>1, <2>1, <2>2, WorldFields DEF Named
  <2>4. w.num[c] = n
    BY <1>1, <2>1, <2>2, <2>3 DEF Opened
  <2>5. c # d
    BY <2>1, <2>3, <2>4
  <2> QED BY <1>1, <2>1, <2>2, <2>5, WorldFields
<1> QED BY <1>4, <1>5, <1>6, <1>7, <1>8, <1>9 DEF Good, x

-----------------------------------------------------------------------------
(* Giving up: what is released is closed by the last, and by nobody else.  *)

\* From w to x descriptors and references may only have gone.
Releases(w, x) ==
  /\ x.opened = w.opened
  /\ \A d \in Details : x.ref[d] <= w.ref[d]
  /\ \A d \in Details : x.num[d] \in {w.num[d], -1} /\ x.file[d] \in {w.file[d], 0}
  /\ \A n \in Numbers : (\A d \in Details : w.num[d] # n) => x.table[n] = w.table[n]

LEMMA ReleasesTwice ==
  ASSUME NEW w \in World, NEW x \in World, NEW y \in World, Releases(w, x), Releases(x, y)
  PROVE  Releases(w, y)
<1>1. y.opened = w.opened
  BY DEF Releases
<1>2. \A d \in Details : y.ref[d] <= w.ref[d]
  <2> SUFFICES ASSUME NEW d \in Details PROVE y.ref[d] <= w.ref[d]
    OBVIOUS
  <2>1. w.ref[d] \in Nat /\ x.ref[d] \in Nat /\ y.ref[d] \in Nat
    BY WorldFields
  <2> QED BY <2>1 DEF Releases
<1>3. \A d \in Details : y.num[d] \in {w.num[d], -1} /\ y.file[d] \in {w.file[d], 0}
  BY DEF Releases
<1>4. \A n \in Numbers : (\A d \in Details : w.num[d] # n) => y.table[n] = w.table[n]
  <2> SUFFICES ASSUME NEW n \in Numbers, \A d \in Details : w.num[d] # n
               PROVE  y.table[n] = w.table[n]
    OBVIOUS
  <2>1. \A d \in Details : x.num[d] # n
    BY Sets DEF Releases
  <2> QED BY <2>1 DEF Releases
<1> QED BY <1>1, <1>2, <1>3, <1>4 DEF Releases

LEMMA ClosedReleases ==
  ASSUME NEW w, NEW b, NEW K, Good(w, b, K), NEW d \in Details
  PROVE  Releases(w, ClosedNow(w, d))
<1> DEFINE x == ClosedNow(w, d)
<1>1. w \in World
  BY DEF Good
<1>2. /\ x.on = w.on /\ x.ref = w.ref /\ x.lost = w.lost /\ x.opened = w.opened
      /\ x.num = [w.num EXCEPT ![d] = -1] /\ x.file = [w.file EXCEPT ![d] = 0]
      /\ x.table = IF w.num[d] = -1 THEN w.table ELSE [w.table EXCEPT ![w.num[d]] = 0]
  BY Closed
<1> HIDE DEF x
<1>3. \A e \in Details : w.ref[e] <= w.ref[e]
  BY <1>1, WorldFields
<1>4. \A e \in Details : x.num[e] \in {w.num[e], -1} /\ x.file[e] \in {w.file[e], 0}
  BY <1>1, <1>2, WorldFields
<1>5. \A n \in Numbers : (\A e \in Details : w.num[e] # n) => x.table[n] = w.table[n]
  BY <1>1, <1>2, WorldFields
<1>6. Releases(w, x)
  BY <1>2, <1>3, <1>4, <1>5 DEF Releases
<1> QED BY <1>6 DEF x

LEMMA SameReleases ==
  ASSUME NEW w \in World
  PROVE  Releases(w, w)
<1>1. \A e \in Details : w.ref[e] <= w.ref[e]
  BY WorldFields
<1> QED BY <1>1 DEF Releases

LEMMA CloseFdKeeps ==
  ASSUME NEW w, NEW b, NEW K, Good(w, b, K), NEW h \in Handles
  PROVE  Good(CloseFd(w, h), b, K) /\ Releases(w, CloseFd(w, h)) /\ CloseFd(w, h).on = w.on
<1> DEFINE d == w.on[h]
<1>1. w \in World /\ d \in {0} \cup Details
  BY WorldFields DEF Good
<1>2. CASE d = 0 \/ w.num[d] = -1
  <2>1. CloseFd(w, h) = w
    BY <1>2 DEF CloseFd
  <2> QED BY <1>1, <2>1, SameReleases
<1>3. CASE ~(d = 0 \/ w.num[d] = -1)
  <2>1. CloseFd(w, h) = ClosedNow(w, d)
    BY <1>3 DEF CloseFd, ClosedNow
  <2>2. d \in Details
    BY <1>1, <1>3
  <2>3. Good(ClosedNow(w, d), b, K) /\ ClosedNow(w, d).on = w.on
    BY <2>2, Closed
  <2>4. Releases(w, ClosedNow(w, d))
    BY <2>2, ClosedReleases
  <2> QED BY <2>1, <2>3, <2>4
<1> QED BY <1>2, <1>3

LetGo(w, h) == [w EXCEPT !.on[h] = 0, !.ref[w.on[h]] = @ - 1]

\* A handle lets its Detail go, which others are on or which has no file.
LEMMA LetGoKeeps ==
  ASSUME NEW w, NEW b, NEW K, Good(w, b, K), NEW h \in Handles, w.on[h] # 0,
         w.ref[w.on[h]] > 1 \/ w.file[w.on[h]] = 0
  PROVE  /\ Good(LetGo(w, h), b, K) /\ Releases(w, LetGo(w, h))
         /\ LetGo(w, h).on = [w.on EXCEPT ![h] = 0]
<1> DEFINE d == w.on[h]
           on == [w.on EXCEPT ![h] = 0]
           ref == [w.ref EXCEPT ![d] = @ - 1]
           x == LetGo(w, h)
<1>1. w \in World /\ Counted(w) /\ Named(w, b) /\ Opened(w, b) /\ Held(w, K)
  BY DEF Good
<1>2. d \in Details /\ w.ref[d] > w.lost[d] /\ w.ref[d] \in 0 .. MaxRefs /\ w.lost[d] \in 0 .. MaxRefs
  BY <1>1, OnCounted, WorldFields
<1>3. w.ref[d] - 1 \in 0 .. MaxRefs
  BY <1>2, FdAssumption
<1>4. on \in [Handles -> {0} \cup Details] /\ ref \in [Details -> 0 .. MaxRefs]
  BY <1>1, <1>2, <1>3, WorldFields
<1>5. x = [table |-> w.table, opened |-> w.opened, on |-> on, ref |-> ref,
           num |-> w.num, file |-> w.file, lost |-> w.lost]
  <2>1. x = [w EXCEPT !.on = on, !.ref = ref]
    BY DEF LetGo
  <2> HIDE DEF on, ref
  <2> QED BY <1>1, <2>1, WorldFields
<1> HIDE DEF x, d
<1>6. x \in World
  BY <1>1, <1>4, <1>5, WorldFields, WorldMade
<1>7. /\ x.table = w.table /\ x.opened = w.opened /\ x.on = on /\ x.ref = ref
      /\ x.num = w.num /\ x.file = w.file /\ x.lost = w.lost
  BY <1>5
<1>8. Counted(x)
  <2> SUFFICES ASSUME NEW e \in Details PROVE ref[e] = Count(on, e) + w.lost[e]
    BY <1>7 DEF Counted
  <2>1. Count(on, e) = (Count(w.on, e) - (IF w.on[h] = e THEN 1 ELSE 0)) + (IF 0 = e THEN 1 ELSE 0)
    <3>1. w.on \in [Handles -> {0} \cup Details] /\ 0 \in {0} \cup Details /\ e \in {0} \cup Details
      BY <1>1, WorldFields
    <3>2. Count(on, e) = (Count(w.on, e) - At(w.on[h], e)) + At(0, e)
      BY <3>1, CountMoves
    <3> QED BY <3>2 DEF At
  <2>2. e # 0
    BY Sets
  <2>3. w.ref[e] = Count(w.on, e) + w.lost[e] /\ Count(w.on, e) \in Nat /\ w.lost[e] \in Nat
    BY <1>1, WorldFields, CountType DEF Counted
  <2>4. ref[e] = IF e = d THEN w.ref[e] - 1 ELSE w.ref[e]
    BY <1>1, <1>2, WorldFields
  <2> HIDE DEF on, ref
  <2> QED BY <2>1, <2>2, <2>3, <2>4 DEF d
<1>9. Named(x, b) /\ Opened(x, b)
  BY <1>1, <1>7 DEF Named, Opened
<1>10. Held(x, K)
  <2> SUFFICES ASSUME NEW n \in Numbers, w.table[n] # 0, w.table[n] \notin K
               PROVE  \E c \in Details : w.file[c] = w.table[n] /\ ref[c] > 0
    BY <1>7 DEF Held
  <2>1. PICK c \in Details : w.file[c] = w.table[n] /\ w.ref[c] > 0
    BY <1>1 DEF Held
  <2>2. CASE c = d
    <3>1. w.ref[d] > 1
      BY <2>1, <2>2 DEF d
    <3>2. ref[d] = w.ref[d] - 1
      BY <1>1, <1>2, WorldFields
    <3>3. ref[d] > 0
      BY <1>2, <3>1, <3>2
    <3> QED BY <2>1, <2>2, <3>3
  <2>3. CASE c # d
    <3>1. ref[c] = w.ref[c]
      BY <1>1, <1>2, <2>3, WorldFields
    <3> QED BY <2>1, <3>1
  <2> QED BY <2>2, <2>3
<1>11. Releases(w, x)
  <2>1. \A e \in Details : ref[e] <= w.ref[e]
    BY <1>1, <1>2, WorldFields
  <2> HIDE DEF ref
  <2> QED BY <1>7, <2>1 DEF Releases
<1>12. Good(x, b, K) /\ Releases(w, x) /\ x.on = on
  BY <1>6, <1>7, <1>8, <1>9, <1>10, <1>11 DEF Good
<1> QED BY <1>12 DEF x

LEMMA DestroyKeeps ==
  ASSUME NEW w, NEW b, NEW K, Good(w, b, K), NEW h \in Handles
  PROVE  /\ Good(Destroy(w, h), b, K) /\ Releases(w, Destroy(w, h))
         /\ Destroy(w, h).on = [w.on EXCEPT ![h] = 0]
<1> DEFINE d == w.on[h]
           x == LetGo(w, h)
<1>1. w \in World /\ Counted(w) /\ d \in {0} \cup Details
  BY WorldFields DEF Good
<1>2. CASE d = 0
  <2>1. Destroy(w, h) = w
    BY <1>2 DEF Destroy
  <2>2. [w.on EXCEPT ![h] = 0] = w.on
    BY <1>1, <1>2, WorldFields
  <2> QED BY <1>1, <2>1, <2>2, SameReleases
<1>3. CASE d # 0 /\ w.ref[d] > 1
  <2>1. Destroy(w, h) = x
    BY <1>3 DEF Destroy, LetGo
  <2>2. Good(x, b, K) /\ Releases(w, x) /\ x.on = [w.on EXCEPT ![h] = 0]
    <3>1. w.on[h] # 0 /\ (w.ref[w.on[h]] > 1 \/ w.file[w.on[h]] = 0)
      BY <1>3
    <3> QED BY <3>1, LetGoKeeps, Zenon
  <2> QED BY <2>1, <2>2
<1>4. CASE d # 0 /\ ~(w.ref[d] > 1)
  <2> DEFINE y == ClosedNow(w, d)
             z == LetGo(y, h)
  <2>1. d \in Details
    BY <1>1, <1>4
  <2>2. /\ Good(y, b, K) /\ Releases(w, y) /\ y.on = w.on /\ y.file = [w.file EXCEPT ![d] = 0]
    BY <2>1, Closed, ClosedReleases
  <2>3. y.file[d] = 0
    BY <1>1, <2>1, <2>2, WorldFields
  <2>4. Destroy(w, h) = [CloseNumber(x, w.num[d]) EXCEPT !.num[d] = -1, !.file[d] = 0]
    BY <1>4 DEF Destroy, LetGo
  <2>5. y.on[h] = d
    BY <2>2
  <2>6. [CloseNumber(x, w.num[d]) EXCEPT !.num[d] = -1, !.file[d] = 0] = z
    <3> DEFINE on == [w.on EXCEPT ![h] = 0]
               ref == [w.ref EXCEPT ![d] = @ - 1]
               num == [w.num EXCEPT ![d] = -1]
               file == [w.file EXCEPT ![d] = 0]
               table == IF w.num[d] = -1 THEN w.table ELSE [w.table EXCEPT ![w.num[d]] = 0]
               v == CloseNumber(x, w.num[d])
    <3>1. x = [w EXCEPT !.on = on, !.ref = ref]
      BY DEF LetGo
    <3>2. y = [table |-> table, opened |-> w.opened, on |-> w.on, ref |-> w.ref,
               num |-> num, file |-> file, lost |-> w.lost]
      <4>1. /\ y.on = w.on /\ y.ref = w.ref /\ y.lost = w.lost /\ y.opened = w.opened
            /\ y.num = num /\ y.file = file /\ y.table = table
        BY <2>1, Closed
      <4>2. y \in World
        BY <2>2 DEF Good
      <4> HIDE DEF y, num, file, table
      <4> QED BY <4>1, <4>2, WorldFields
    <3>3. z = [y EXCEPT !.on = on, !.ref = ref]
      <4>1. y.on = w.on /\ y.ref = w.ref
        BY <2>1, Closed
      <4> HIDE DEF y
      <4> QED BY <2>5, <4>1 DEF LetGo
    <3> HIDE DEF x, on, ref
    <3>4. x = [table |-> w.table, opened |-> w.opened, on |-> on, ref |-> ref,
               num |-> w.num, file |-> w.file, lost |-> w.lost]
      BY <1>1, <3>1, OnRefChanged
    <3>5. v = [table |-> table, opened |-> w.opened, on |-> on, ref |-> ref,
               num |-> w.num, file |-> w.file, lost |-> w.lost]
      <4>1. CASE w.num[d] = -1
        BY <3>4, <4>1 DEF CloseNumber
      <4>2. CASE w.num[d] # -1
        <5>1. v = [x EXCEPT !.table[w.num[d]] = 0]
          BY <4>2 DEF CloseNumber
        <5> QED BY <3>4, <4>2, <5>1
      <4> QED BY <4>1, <4>2
    <3>6. [v EXCEPT !.num[d] = -1, !.file[d] = 0] = [v EXCEPT !.num = num, !.file = file]
      <4> HIDE DEF v, table
      <4> QED BY <3>5
    <3> HIDE DEF v, table, num, file, y, z
    <3>7. [v EXCEPT !.num = num, !.file = file]
            = [table |-> table, opened |-> w.opened, on |-> on, ref |-> ref,
               num |-> num, file |-> file, lost |-> w.lost]
      <4>1. SUFFICES ASSUME NEW u, u = [v EXCEPT !.num = num, !.file = file]
                     PROVE  u = [table |-> table, opened |-> w.opened, on |-> on, ref |-> ref,
                                 num |-> num, file |-> file, lost |-> w.lost]
        OBVIOUS
      <4> QED BY <3>5, <4>1
    <3>8. z = [table |-> table, opened |-> w.opened, on |-> on, ref |-> ref,
               num |-> num, file |-> file, lost |-> w.lost]
      <4>1. y \in World
        BY <2>2 DEF Good, y
      <4>2. /\ y.table = table /\ y.opened = w.opened /\ y.num = num /\ y.file = file
            /\ y.lost = w.lost
        BY <3>2
      <4>3. z = [table |-> y.table, opened |-> y.opened, on |-> on, ref |-> ref,
                 num |-> y.num, file |-> y.file, lost |-> y.lost]
        BY <3>3, <4>1, OnRefChanged
      <4> QED BY <4>2, <4>3
    <3> QED BY <3>6, <3>7, <3>8 DEF v
  <2>7. Good(z, b, K) /\ Releases(y, z) /\ z.on = [w.on EXCEPT ![h] = 0]
    <3>1. y.on[h] # 0 /\ y.file[y.on[h]] = 0 /\ Good(y, b, K)
      <4> HIDE DEF y
      <4> QED BY <1>4, <2>2, <2>3, <2>5
    <3> HIDE DEF y
    <3>2. Good(z, b, K) /\ Releases(y, z) /\ z.on = [y.on EXCEPT ![h] = 0]
      BY <3>1, LetGoKeeps
    <3> QED BY <2>2, <3>2
  <2> HIDE DEF y
  <2>8. Releases(w, z)
    BY <1>1, <2>2, <2>7, ReleasesTwice DEF Good
  <2> QED BY <2>4, <2>6, <2>7, <2>8
<1> QED BY <1>1, <1>2, <1>3, <1>4

-----------------------------------------------------------------------------
(* Getting: what is acquired is counted, and a number has one Detail.      *)

\* A number of an open file that no Detail has, or none.
Fresh(w, b, n) ==
  \/ n = -1
  \/ n \in Numbers /\ w.table[n] \notin {0, b} /\ \A d \in Details : w.num[d] # n

FilesOf(w, n) == IF n = -1 THEN {} ELSE {w.table[n]}

LEMMA AttachKeeps ==
  ASSUME NEW w, NEW b, NEW K, NEW n, NEW L, Good(w, b, K), Fresh(w, b, n),
         K \subseteq L \cup FilesOf(w, n),
         NEW h \in Handles, w.on[h] = 0, NEW d \in Free(w)
  PROVE  Good(Attach(w, h, d, n), b, L) /\ Attach(w, h, d, n).on = [w.on EXCEPT ![h] = d]
<1> DEFINE f == IF n = -1 THEN 0 ELSE w.table[n]
           on == [w.on EXCEPT ![h] = d]
           ref == [w.ref EXCEPT ![d] = 1]
           num == [w.num EXCEPT ![d] = n]
           file == [w.file EXCEPT ![d] = f]
           x == Attach(w, h, d, n)
<1>1. w \in World /\ Counted(w) /\ Named(w, b) /\ Opened(w, b) /\ Held(w, K)
  BY DEF Good
<1>2. d \in Details /\ w.ref[d] = 0
  BY DEF Free
<1>3. n \in Numbers \cup {-1} /\ f \in {0} \cup Files /\ (n = -1 <=> f = 0)
  BY <1>1, WorldFields, Sets DEF Fresh
<1>4. 1 \in 0 .. MaxRefs
  BY FdAssumption
<1>5. /\ on \in [Handles -> {0} \cup Details] /\ ref \in [Details -> 0 .. MaxRefs]
      /\ num \in [Details -> Numbers \cup {-1}] /\ file \in [Details -> {0} \cup Files]
  BY <1>1, <1>2, <1>3, <1>4, WorldFields
<1>6. x = [table |-> w.table, opened |-> w.opened, on |-> on, ref |-> ref,
           num |-> num, file |-> file, lost |-> w.lost]
  <2>1. x = [w EXCEPT !.on = on, !.ref = ref, !.num = num, !.file = file]
    BY DEF Attach
  <2>2. w = [table |-> w.table, opened |-> w.opened, on |-> w.on, ref |-> w.ref,
             num |-> w.num, file |-> w.file, lost |-> w.lost]
    BY <1>1, WorldFields
  <2> HIDE DEF on, ref, num, file, x
  <2> QED BY <2>1, <2>2
<1> HIDE DEF x
<1>7. x \in World
  <2>1. /\ w.table \in [Numbers -> {0} \cup Files] /\ w.opened \in {0} \cup Files
        /\ w.lost \in [Details -> 0 .. MaxRefs]
    BY <1>1, WorldFields
  <2> HIDE DEF on, ref, num, file
  <2>2. [table |-> w.table, opened |-> w.opened, on |-> on, ref |-> ref,
         num |-> num, file |-> file, lost |-> w.lost] \in World
    BY <1>5, <2>1, WorldMade
  <2> QED BY <1>6, <2>2
<1>8. /\ x.table = w.table /\ x.opened = w.opened /\ x.on = on /\ x.ref = ref
      /\ x.num = num /\ x.file = file /\ x.lost = w.lost
  BY <1>6
<1>9. Counted(x)
  <2> SUFFICES ASSUME NEW e \in Details PROVE ref[e] = Count(on, e) + w.lost[e]
    BY <1>8 DEF Counted
  <2>1. Count(on, e) = (Count(w.on, e) - (IF w.on[h] = e THEN 1 ELSE 0)) + (IF d = e THEN 1 ELSE 0)
    <3>1. /\ w.on \in [Handles -> {0} \cup Details] /\ d \in {0} \cup Details
          /\ e \in {0} \cup Details
      BY <1>1, <1>2, WorldFields
    <3>2. Count(on, e) = (Count(w.on, e) - At(w.on[h], e)) + At(d, e)
      BY <3>1, CountMoves
    <3> QED BY <3>2 DEF At
  <2>2. w.on[h] # e
    BY Sets
  <2>3. /\ w.ref[e] = Count(w.on, e) + w.lost[e] /\ Count(w.on, e) \in Nat
        /\ w.lost[e] \in Nat
    BY <1>1, WorldFields, CountType DEF Counted
  <2>4. ref[e] = IF e = d THEN 1 ELSE w.ref[e]
    BY <1>1, <1>2, WorldFields
  <2> HIDE DEF on, ref
  <2> QED BY <1>2, <2>1, <2>2, <2>3, <2>4
<1>10. Named(x, b)
  <2> SUFFICES ASSUME NEW c \in Details
               PROVE  /\ num[c] = -1 <=> file[c] = 0
                      /\ num[c] # -1 => w.table[num[c]] = file[c]
                      /\ file[c] # 0 => file[c] # b /\ \A e \in Details : e # c => file[e] # file[c]
    BY <1>8 DEF Named
  <2>1. \A e \in Details : num[e] = (IF e = d THEN n ELSE w.num[e]) /\ file[e] = (IF e = d THEN f ELSE w.file[e])
    BY <1>1, <1>2, WorldFields
  <2>2. f # 0 => f # b /\ \A e \in Details : w.file[e] # f
    <3> SUFFICES ASSUME f # 0 PROVE f # b /\ \A e \in Details : w.file[e] # f
      OBVIOUS
    <3>1. n \in Numbers /\ w.table[n] = f /\ f # b /\ \A e \in Details : w.num[e] # n
      BY DEF Fresh
    <3>2. ASSUME NEW e \in Details, w.file[e] = f PROVE FALSE
      <4>1. w.num[e] \in Numbers /\ w.table[w.num[e]] = f
        BY <1>1, <3>2, WorldFields DEF Named
      <4>2. w.num[e] # n
        BY <3>1
      <4> QED BY <1>1, <3>1, <4>1, <4>2 DEF Opened
    <3> QED BY <3>1, <3>2
  <2>3. n # -1 => w.table[n] = f
    OBVIOUS
  <2> HIDE DEF num, file, f
  <2>4. CASE c = d
    BY <1>3, <2>1, <2>2, <2>3, <2>4
  <2>5. CASE c # d
    <3>1. num[c] = w.num[c] /\ file[c] = w.file[c]
      BY <2>1, <2>5
    <3>2. file[c] # 0 => file[c] # f
      BY <2>2, <3>1
    <3>3. ASSUME NEW e \in Details, e # c, file[c] # 0 PROVE file[e] # file[c]
      BY <1>1, <2>1, <3>1, <3>2, <3>3 DEF Named
    <3> QED BY <1>1, <3>1, <3>3 DEF Named
  <2> QED BY <2>4, <2>5
<1>11. Opened(x, b)
  BY <1>1, <1>8 DEF Opened
<1>12. Held(x, L)
  <2> SUFFICES ASSUME NEW m \in Numbers, w.table[m] # 0, w.table[m] \notin L
               PROVE  \E c \in Details : file[c] = w.table[m] /\ ref[c] > 0
    BY <1>8 DEF Held
  <2>1. CASE w.table[m] \in K
    <3>1. n # -1 /\ w.table[m] = w.table[n]
      BY <2>1 DEF FilesOf
    <3>2. file[d] = w.table[m] /\ ref[d] = 1
      BY <1>1, <1>2, <3>1, WorldFields
    <3> QED BY <1>2, <3>2
  <2>2. CASE w.table[m] \notin K
    <3>1. PICK c \in Details : w.file[c] = w.table[m] /\ w.ref[c] > 0
      BY <1>1, <2>2 DEF Held
    <3>2. c # d
      BY <1>2, <3>1
    <3>3. file[c] = w.file[c] /\ ref[c] = w.ref[c]
      BY <1>1, <3>2, WorldFields
    <3> QED BY <3>1, <3>3
  <2> QED BY <2>1, <2>2
<1> QED BY <1>7, <1>8, <1>9, <1>10, <1>11, <1>12 DEF Good, x

LEMMA FreeIn ==
  ASSUME NEW w, Free(w) # {}
  PROVE  Min(Free(w)) \in Free(w)
<1>1. Free(w) \subseteq Nat
  BY Sets DEF Free
<1> QED BY <1>1, MinIn

LEMMA ConstructKeeps ==
  ASSUME NEW w, NEW b, NEW K, NEW n, NEW L, Good(w, b, K), Fresh(w, b, n),
         K \subseteq L \cup FilesOf(w, n),
         NEW h \in Handles, w.on[h] = 0, Free(w) # {}
  PROVE  Good(Construct(w, h, n), b, L)
<1> DEFINE d == Min(Free(w))
<1>1. d \in Free(w)
  BY FreeIn
<1> HIDE DEF d
<1>2. Good(Attach(w, h, d, n), b, L)
  BY <1>1, AttachKeeps
<1> QED BY <1>2 DEF d, Construct

\* What is released does not touch a number no Detail has.
LEMMA StaysFresh ==
  ASSUME NEW w \in World, NEW x \in World, NEW b, NEW n, Fresh(w, b, n), Releases(w, x)
  PROVE  Fresh(x, b, n) /\ FilesOf(x, n) = FilesOf(w, n)
<1>1. CASE n = -1
  BY <1>1 DEF Fresh, FilesOf
<1>2. CASE n # -1
  <2>1. n \in Numbers /\ x.table[n] = w.table[n]
    BY <1>2 DEF Fresh, Releases
  <2>2. \A d \in Details : x.num[d] # n
    BY <1>2 DEF Fresh, Releases
  <2> QED BY <1>2, <2>1, <2>2 DEF Fresh, FilesOf
<1> QED BY <1>1, <1>2

LEMMA StaysFree ==
  ASSUME NEW w \in World, NEW x \in World, Releases(w, x)
  PROVE  Free(w) \subseteq Free(x)
<1> SUFFICES ASSUME NEW d \in Details, w.ref[d] = 0 PROVE x.ref[d] = 0
  BY DEF Free
<1>1. x.ref[d] \in Nat /\ x.ref[d] <= w.ref[d]
  BY WorldFields DEF Releases
<1> QED BY <1>1

LEMMA AssignNewKeeps ==
  ASSUME NEW w, NEW b, NEW K, NEW n, NEW L, Good(w, b, K), Fresh(w, b, n),
         K \subseteq L \cup FilesOf(w, n), NEW h \in Handles, Free(w) # {}
  PROVE  Good(AssignNew(w, h, n), b, L)
<1> DEFINE d == Min(Free(w))
           x == Destroy(w, h)
<1>1. Good(x, b, K) /\ Releases(w, x) /\ x.on = [w.on EXCEPT ![h] = 0]
  BY DestroyKeeps
<1>2. w \in World /\ x \in World
  BY <1>1 DEF Good
<1>3. d \in Free(w)
  BY FreeIn
<1>4. x.on[h] = 0
  BY <1>1, <1>2, WorldFields
<1> HIDE DEF d, x
<1>5. Fresh(x, b, n) /\ FilesOf(x, n) = FilesOf(w, n)
  BY <1>1, <1>2, StaysFresh
<1>6. d \in Free(x)
  BY <1>1, <1>2, <1>3, StaysFree
<1>7. K \subseteq L \cup FilesOf(x, n)
  BY <1>5
<1>8. Good(Attach(x, h, d, n), b, L)
  BY <1>1, <1>4, <1>5, <1>6, <1>7, AttachKeeps
<1> QED BY <1>8 DEF AssignNew, d, x

LEMMA OpenFileKeeps ==
  ASSUME NEW w, NEW b, NEW K, Good(w, b, K), CanOpen(w)
  PROVE  LET x == OpenFile(w)
             n == NextNumber(w)
         IN /\ n \in Numbers /\ w.table[n] = 0 /\ x.opened = w.opened + 1 /\ x.opened \in Files
            /\ x.table = [w.table EXCEPT ![n] = x.opened]
            /\ x.on = w.on /\ x.ref = w.ref /\ x.file = w.file
            /\ \A c \in {b, x.opened} : Good(x, c, K \cup {x.opened})
            /\ Fresh(x, b, n) /\ FilesOf(x, n) = {x.opened}
<1> DEFINE n == NextNumber(w)
           f == w.opened + 1
           table == [w.table EXCEPT ![n] = f]
           x == OpenFile(w)
<1>1. w \in World /\ Counted(w) /\ Named(w, b) /\ Opened(w, b) /\ Held(w, K)
  BY DEF Good
<1>2. n \in Numbers /\ w.table[n] = 0
  <2>1. Unused(w) \subseteq Nat /\ Unused(w) # {}
    BY Sets DEF Unused, CanOpen
  <2>2. n \in Unused(w)
    BY <2>1, MinIn DEF NextNumber
  <2> QED BY <2>2 DEF Unused
<1>3. w.opened \in Nat /\ f \in Files /\ f \in Nat /\ f > w.opened /\ b \in Nat
  BY <1>1, WorldFields, FdAssumption DEF CanOpen, Files, Opened
<1>4. table \in [Numbers -> {0} \cup Files] /\ f \in {0} \cup Files
  BY <1>1, <1>2, <1>3, WorldFields
<1>5. x = [table |-> table, opened |-> f, on |-> w.on, ref |-> w.ref,
           num |-> w.num, file |-> w.file, lost |-> w.lost]
  <2>1. x = [w EXCEPT !.table = table, !.opened = f]
    BY DEF OpenFile
  <2>2. w = [table |-> w.table, opened |-> w.opened, on |-> w.on, ref |-> w.ref,
             num |-> w.num, file |-> w.file, lost |-> w.lost]
    BY <1>1, WorldFields
  <2> HIDE DEF table, f, x
  <2> QED BY <2>1, <2>2
<1> HIDE DEF x
<1>6. x \in World
  BY <1>1, <1>4, <1>5, WorldFields, WorldMade
<1>7. /\ x.table = table /\ x.opened = f /\ x.on = w.on /\ x.ref = w.ref
      /\ x.num = w.num /\ x.file = w.file /\ x.lost = w.lost
  BY <1>5
<1>8. Counted(x)
  BY <1>1, <1>7 DEF Counted
<1>9. \A m \in Numbers : table[m] = IF m = n THEN f ELSE w.table[m]
  BY <1>1, <1>2, WorldFields
<1>10. \A d \in Details : w.num[d] # -1 => w.num[d] \in Numbers /\ w.num[d] # n /\ w.file[d] \in Nat /\ w.file[d] <= w.opened
  <2> SUFFICES ASSUME NEW d \in Details, w.num[d] # -1
               PROVE  w.num[d] \in Numbers /\ w.num[d] # n /\ w.file[d] \in Nat /\ w.file[d] <= w.opened
    OBVIOUS
  <2>1. w.num[d] \in Numbers /\ w.table[w.num[d]] = w.file[d] /\ w.file[d] # 0
    BY <1>1, WorldFields DEF Named
  <2>2. w.file[d] \in Nat
    BY <1>1, WorldFields, Sets
  <2> QED BY <1>1, <1>2, <2>1, <2>2 DEF Opened
<1> HIDE DEF table, n, f
<1>11. ASSUME NEW c \in {b, f} PROVE Named(x, c)
  <2> SUFFICES ASSUME NEW d \in Details
               PROVE  /\ w.num[d] = -1 <=> w.file[d] = 0
                      /\ w.num[d] # -1 => table[w.num[d]] = w.file[d]
                      /\ w.file[d] # 0 => w.file[d] # c /\ \A e \in Details : e # d => w.file[e] # w.file[d]
    BY <1>7 DEF Named
  <2>1. w.file[d] # 0 => w.file[d] # f
    BY <1>1, <1>3, <1>10 DEF Named
  <2> QED BY <1>1, <1>9, <1>10, <2>1 DEF Named
<1>12. ASSUME NEW c \in {b, f} PROVE Opened(x, c)
  <2>1. \A m \in Numbers : w.table[m] \in Nat /\ w.table[m] <= w.opened
    BY <1>1, WorldFields, Sets DEF Opened
  <2>2. c \in 0 .. f
    BY <1>1, <1>3 DEF Opened
  <2>3. \A m \in Numbers : table[m] <= f
    BY <1>3, <1>9, <2>1
  <2>4. ASSUME NEW m \in Numbers, NEW k \in Numbers, m # k, table[m] # 0 PROVE table[k] # table[m]
    BY <1>1, <1>3, <1>9, <2>1, <2>4 DEF Opened
  <2> QED BY <1>7, <2>2, <2>3, <2>4 DEF Opened
<1>13. Held(x, K \cup {f})
  BY <1>1, <1>7, <1>9 DEF Held
<1>14. Fresh(x, b, n) /\ FilesOf(x, n) = {f}
  <2>1. x.table[n] = f /\ f # 0
    BY <1>2, <1>3, <1>7, <1>9
  <2>2. f # b
    BY <1>1, <1>3 DEF Opened
  <2>3. \A d \in Details : w.num[d] # n
    BY <1>2, <1>10, Sets
  <2>4. n # -1
    BY <1>2, Sets
  <2> QED BY <1>2, <1>7, <2>1, <2>2, <2>3, <2>4 DEF Fresh, FilesOf
<1>15. \A c \in {b, f} : Good(x, c, K \cup {f})
  BY <1>6, <1>8, <1>11, <1>12, <1>13 DEF Good
<1> QED BY <1>2, <1>3, <1>7, <1>14, <1>15 DEF x, n, table, f

LEMMA HeldMore ==
  ASSUME NEW w, NEW b, NEW K, NEW L, Good(w, b, K), K \subseteq L \cup {0}
  PROVE  Good(w, b, L)
BY DEF Good, Held

\* A handle that holds nothing shares another's Detail.
LEMMA CopyKeeps ==
  ASSUME NEW w, NEW b, NEW K, Good(w, b, K), NEW h \in Handles, NEW g \in Handles,
         w.on[h] = 0, HasRoom(w)
  PROVE  Good(CopyConstruct(w, h, g), b, K)
<1>1. CASE w.on[g] = 0
  BY <1>1 DEF CopyConstruct
<1>2. CASE w.on[g] # 0
  <2> DEFINE d == w.on[g]
             on == [w.on EXCEPT ![h] = d]
             ref == [w.ref EXCEPT ![d] = @ + 1]
             x == CopyConstruct(w, h, g)
  <2>1. w \in World /\ Counted(w) /\ Named(w, b) /\ Opened(w, b) /\ Held(w, K)
    BY DEF Good
  <2>2. d \in Details /\ w.ref[d] \in 0 .. MaxRefs /\ w.ref[d] < MaxRefs
    BY <1>2, <2>1, WorldFields DEF HasRoom
  <2>3. w.ref[d] + 1 \in 0 .. MaxRefs
    BY <2>2, FdAssumption
  <2>4. on \in [Handles -> {0} \cup Details] /\ ref \in [Details -> 0 .. MaxRefs]
    BY <2>1, <2>2, <2>3, WorldFields
  <2>5. x = [table |-> w.table, opened |-> w.opened, on |-> on, ref |-> ref,
             num |-> w.num, file |-> w.file, lost |-> w.lost]
    <3>1. x = [w EXCEPT !.on = on, !.ref = ref]
      BY <1>2 DEF CopyConstruct
    <3> HIDE DEF x, on, ref
    <3> QED BY <2>1, <3>1, OnRefChanged
  <2> HIDE DEF x, d
  <2>6. x \in World
    BY <2>1, <2>4, <2>5, WorldFields, WorldMade
  <2>7. /\ x.table = w.table /\ x.opened = w.opened /\ x.on = on /\ x.ref = ref
        /\ x.num = w.num /\ x.file = w.file /\ x.lost = w.lost
    BY <2>5
  <2>8. \A e \in Details : ref[e] = IF e = d THEN w.ref[e] + 1 ELSE w.ref[e]
    BY <2>1, <2>2, WorldFields
  <2>9. Counted(x)
    <3> SUFFICES ASSUME NEW e \in Details PROVE ref[e] = Count(on, e) + w.lost[e]
      BY <2>7 DEF Counted
    <3>1. Count(on, e) = (Count(w.on, e) - (IF w.on[h] = e THEN 1 ELSE 0)) + (IF d = e THEN 1 ELSE 0)
      <4>1. /\ w.on \in [Handles -> {0} \cup Details] /\ d \in {0} \cup Details
            /\ e \in {0} \cup Details
        BY <2>1, <2>2, WorldFields
      <4>2. Count(on, e) = (Count(w.on, e) - At(w.on[h], e)) + At(d, e)
        BY <4>1, CountMoves
      <4> QED BY <4>2 DEF At
    <3>2. w.on[h] # e
      BY Sets
    <3>3. /\ w.ref[e] = Count(w.on, e) + w.lost[e] /\ Count(w.on, e) \in Nat
          /\ w.lost[e] \in Nat
      BY <2>1, WorldFields, CountType DEF Counted
    <3> HIDE DEF on, ref
    <3> QED BY <2>8, <3>1, <3>2, <3>3
  <2>10. Named(x, b) /\ Opened(x, b)
    BY <2>1, <2>7 DEF Named, Opened
  <2>11. Held(x, K)
    <3>1. \A e \in Details : w.ref[e] > 0 => ref[e] > 0
      BY <2>1, <2>8, WorldFields
    <3> HIDE DEF ref
    <3> QED BY <2>1, <2>7, <3>1 DEF Held
  <2> QED BY <2>6, <2>9, <2>10, <2>11 DEF Good, x
<1> QED BY <1>1, <1>2

LEMMA CopyAssignKeeps ==
  ASSUME NEW w, NEW b, NEW K, Good(w, b, K), NEW h \in Handles, NEW g \in Handles, HasRoom(w)
  PROVE  Good(CopyAssign(w, h, g), b, K)
<1>1. CASE w.on[g] = 0 \/ h = g
  BY <1>1 DEF CopyAssign
<1>2. CASE w.on[g] # 0 /\ h # g /\ w.on[h] = 0
  <2>1. CopyAssign(w, h, g) = CopyConstruct(w, h, g)
    BY <1>2 DEF CopyAssign
  <2> QED BY <1>2, <2>1, CopyKeeps
<1>3. CASE w.on[g] # 0 /\ h # g /\ w.on[h] # 0
  <2> DEFINE d == w.on[g]
             c == w.on[h]
             on == [w.on EXCEPT ![h] = d]
             ref == [w.ref EXCEPT ![d] = @ + 1]
             lost == [w.lost EXCEPT ![c] = @ + 1]
             x == CopyAssign(w, h, g)
  <2>1. w \in World /\ Counted(w) /\ Named(w, b) /\ Opened(w, b) /\ Held(w, K)
    BY DEF Good
  <2>2. d \in Details /\ w.ref[d] \in 0 .. MaxRefs /\ w.ref[d] < MaxRefs
    BY <1>3, <2>1, WorldFields DEF HasRoom
  <2>3. c \in Details /\ w.ref[c] > w.lost[c] /\ w.ref[c] \in 0 .. MaxRefs /\ w.lost[c] \in 0 .. MaxRefs
    BY <1>3, <2>1, OnCounted, WorldFields
  <2>4. w.ref[d] + 1 \in 0 .. MaxRefs /\ w.lost[c] + 1 \in 0 .. MaxRefs
    BY <2>2, <2>3, FdAssumption
  <2>5. /\ on \in [Handles -> {0} \cup Details] /\ ref \in [Details -> 0 .. MaxRefs]
        /\ lost \in [Details -> 0 .. MaxRefs]
    BY <2>1, <2>2, <2>3, <2>4, WorldFields
  <2>6. x = [table |-> w.table, opened |-> w.opened, on |-> on, ref |-> ref,
             num |-> w.num, file |-> w.file, lost |-> lost]
    <3> DEFINE v == [w EXCEPT !.lost = lost]
    <3>1. x = CopyConstruct(v, h, g)
      BY <1>3 DEF CopyAssign
    <3>2. w = [table |-> w.table, opened |-> w.opened, on |-> w.on, ref |-> w.ref,
               num |-> w.num, file |-> w.file, lost |-> w.lost]
      BY <2>1, WorldFields
    <3> HIDE DEF lost
    <3>3. v = [table |-> w.table, opened |-> w.opened, on |-> w.on, ref |-> w.ref,
               num |-> w.num, file |-> w.file, lost |-> lost]
      BY <3>2
    <3> HIDE DEF v
    <3>4. v.on = w.on /\ v.ref = w.ref
      BY <3>3
    <3>5. x = [v EXCEPT !.on = on, !.ref = ref]
      BY <1>3, <3>1, <3>4 DEF CopyConstruct
    <3> HIDE DEF x, on, ref
    <3> QED BY <3>3, <3>5
  <2> HIDE DEF x, d, c
  <2>7. x \in World
    BY <2>1, <2>5, <2>6, WorldFields, WorldMade
  <2>8. /\ x.table = w.table /\ x.opened = w.opened /\ x.on = on /\ x.ref = ref
        /\ x.num = w.num /\ x.file = w.file /\ x.lost = lost
    BY <2>6
  <2>9. \A e \in Details : /\ ref[e] = IF e = d THEN w.ref[e] + 1 ELSE w.ref[e]
                           /\ lost[e] = IF e = c THEN w.lost[e] + 1 ELSE w.lost[e]
    BY <2>1, <2>2, <2>3, WorldFields
  <2>10. Counted(x)
    <3> SUFFICES ASSUME NEW e \in Details PROVE ref[e] = Count(on, e) + lost[e]
      BY <2>8 DEF Counted
    <3>1. Count(on, e) = (Count(w.on, e) - (IF c = e THEN 1 ELSE 0)) + (IF d = e THEN 1 ELSE 0)
      <4>1. /\ w.on \in [Handles -> {0} \cup Details] /\ d \in {0} \cup Details
            /\ e \in {0} \cup Details
        BY <2>1, <2>2, WorldFields
      <4>2. Count(on, e) = (Count(w.on, e) - At(c, e)) + At(d, e)
        BY <4>1, CountMoves DEF c
      <4> QED BY <4>2 DEF At
    <3>2. /\ w.ref[e] = Count(w.on, e) + w.lost[e] /\ Count(w.on, e) \in Nat
          /\ w.lost[e] \in Nat
      BY <2>1, WorldFields, CountType DEF Counted
    <3> HIDE DEF on, ref, lost
    <3> QED BY <2>9, <3>1, <3>2
  <2>11. Named(x, b) /\ Opened(x, b)
    BY <2>1, <2>8 DEF Named, Opened
  <2>12. Held(x, K)
    <3>1. \A e \in Details : w.ref[e] > 0 => ref[e] > 0
      BY <2>1, <2>9, WorldFields
    <3> HIDE DEF ref
    <3> QED BY <2>1, <2>8, <3>1 DEF Held
  <2> QED BY <2>7, <2>10, <2>11, <2>12 DEF Good, x
<1> QED BY <1>1, <1>2, <1>3

LEMMA SwapKeeps ==
  ASSUME NEW w, NEW b, NEW K, Good(w, b, K), NEW h \in Handles, NEW g \in Handles, h # g
  PROVE  Good(Swap(w, h, g), b, K)
<1> DEFINE on1 == [w.on EXCEPT ![h] = w.on[g]]
           on == [on1 EXCEPT ![g] = w.on[h]]
           x == Swap(w, h, g)
<1>1. w \in World /\ Counted(w) /\ Named(w, b) /\ Opened(w, b) /\ Held(w, K)
  BY DEF Good
<1>2. /\ w.on[g] \in {0} \cup Details /\ w.on[h] \in {0} \cup Details
      /\ w.on \in [Handles -> {0} \cup Details]
      /\ on1 \in [Handles -> {0} \cup Details] /\ on \in [Handles -> {0} \cup Details]
      /\ on1[g] = w.on[g]
  BY <1>1, WorldFields
<1>3. x = [table |-> w.table, opened |-> w.opened, on |-> on, ref |-> w.ref,
           num |-> w.num, file |-> w.file, lost |-> w.lost]
  <2>1. x = [w EXCEPT !.on = on]
    BY DEF Swap
  <2>2. w = [table |-> w.table, opened |-> w.opened, on |-> w.on, ref |-> w.ref,
             num |-> w.num, file |-> w.file, lost |-> w.lost]
    BY <1>1, WorldFields
  <2> HIDE DEF x, on
  <2> QED BY <2>1, <2>2
<1> HIDE DEF x
<1>4. x \in World
  BY <1>1, <1>2, <1>3, WorldFields, WorldMade
<1>5. /\ x.table = w.table /\ x.opened = w.opened /\ x.on = on /\ x.ref = w.ref
      /\ x.num = w.num /\ x.file = w.file /\ x.lost = w.lost
  BY <1>3
<1>6. Counted(x)
  <2> SUFFICES ASSUME NEW e \in Details PROVE w.ref[e] = Count(on, e) + w.lost[e]
    BY <1>5 DEF Counted
  <2>1. Count(on1, e) = (Count(w.on, e) - (IF w.on[h] = e THEN 1 ELSE 0)) + (IF w.on[g] = e THEN 1 ELSE 0)
    <3>1. /\ w.on \in [Handles -> {0} \cup Details] /\ w.on[g] \in {0} \cup Details
          /\ e \in {0} \cup Details
      BY <1>2
    <3>2. Count(on1, e) = (Count(w.on, e) - At(w.on[h], e)) + At(w.on[g], e)
      BY <3>1, CountMoves
    <3> QED BY <3>2 DEF At
  <2>2. Count(on, e) = (Count(on1, e) - (IF on1[g] = e THEN 1 ELSE 0)) + (IF w.on[h] = e THEN 1 ELSE 0)
    <3>1. /\ on1 \in [Handles -> {0} \cup Details] /\ w.on[h] \in {0} \cup Details
          /\ e \in {0} \cup Details
      BY <1>2
    <3> HIDE DEF on1, on
    <3>3. Count([on1 EXCEPT ![g] = w.on[h]], e) = (Count(on1, e) - At(on1[g], e)) + At(w.on[h], e)
      BY <3>1, CountMoves
    <3>4. on = [on1 EXCEPT ![g] = w.on[h]]
      BY DEF on
    <3> QED BY <3>3, <3>4 DEF At
  <2>3. /\ w.ref[e] = Count(w.on, e) + w.lost[e] /\ Count(w.on, e) \in Nat
        /\ w.lost[e] \in Nat
    BY <1>1, WorldFields, CountType DEF Counted
  <2> HIDE DEF on, on1
  <2> QED BY <1>2, <2>1, <2>2, <2>3
<1>7. Named(x, b) /\ Opened(x, b) /\ Held(x, K)
  BY <1>1, <1>5 DEF Named, Opened, Held
<1> QED BY <1>4, <1>6, <1>7 DEF Good, x

LEMMA MoveAssignKeeps ==
  ASSUME NEW w, NEW b, NEW K, Good(w, b, K), NEW h \in Handles, NEW g \in Handles
  PROVE  Good(MoveAssign(w, h, g), b, K)
BY DestroyKeeps, SwapKeeps DEF MoveAssign

LEMMA OpenKeeps ==
  ASSUME NEW w, NEW b, NEW K, Good(w, b, K), NEW h \in Handles, HasRoom(w)
  PROVE  Good(Open(w, h), b, K)
<1>1. CASE CanOpen(w)
  <2> DEFINE x == OpenFile(w)
             n == NextNumber(w)
             L == K \cup {x.opened}
  <2>1. Good(x, b, L) /\ Fresh(x, b, n) /\ FilesOf(x, n) = {x.opened} /\ x.ref = w.ref
    BY <1>1, OpenFileKeeps
  <2>2. L \subseteq K \cup FilesOf(x, n) /\ Free(x) # {}
    BY <2>1 DEF HasRoom, Free
  <2>3. Open(w, h) = AssignNew(x, h, n)
    BY <1>1 DEF Open
  <2> HIDE DEF x, n, L
  <2> QED BY <2>1, <2>2, <2>3, AssignNewKeeps
<1>2. CASE ~CanOpen(w)
  <2>1. Open(w, h) = Destroy(w, h)
    BY <1>2 DEF Open
  <2>2. Good(Destroy(w, h), b, K)
    BY DestroyKeeps
  <2> QED BY <2>1, <2>2
<1> QED BY <1>1, <1>2

LEMMA DroppedKeeps ==
  ASSUME NEW w, NEW b, NEW K, Good(w, b, K), NEW h \in Handles
  PROVE  /\ Good(Dropped(w, h), b, K) /\ Releases(w, Dropped(w, h))
         /\ Dropped(w, h).on[h] = 0
<1> DEFINE x == CloseFd(w, h)
           y == Destroy(x, h)
<1>1. Good(x, b, K) /\ Releases(w, x) /\ x.on = w.on
  BY CloseFdKeeps
<1> HIDE DEF x
<1>2. Good(y, b, K) /\ Releases(x, y) /\ y.on = [x.on EXCEPT ![h] = 0]
  BY <1>1, DestroyKeeps
<1> HIDE DEF y
<1>3. w \in World /\ x \in World /\ y \in World
  BY <1>1, <1>2 DEF Good
<1>4. Releases(w, y)
  BY <1>1, <1>2, <1>3, ReleasesTwice
<1>5. y.on[h] = 0
  BY <1>2, <1>3, WorldFields
<1> QED BY <1>2, <1>4, <1>5 DEF Dropped, x, y

\* A new object on a new socket, and on none.
LEMMA ReplacedKeeps ==
  ASSUME NEW w, NEW b, NEW K, Good(w, b, K), NEW h \in Handles, HasRoom(w)
  PROVE  /\ Good(Construct(Dropped(w, h), h, -1), b, K)
         /\ CanOpen(w) => Good(Construct(Dropped(OpenFile(w), h), h, NextNumber(w)), b, K)
<1>1. Good(Construct(Dropped(w, h), h, -1), b, K)
  <2> DEFINE y == Dropped(w, h)
  <2>1. Good(y, b, K) /\ Releases(w, y) /\ y.on[h] = 0
    BY DroppedKeeps
  <2> HIDE DEF y
  <2>2. Free(y) # {}
    BY <2>1, StaysFree DEF HasRoom, Good
  <2>3. Fresh(y, b, -1) /\ K \subseteq K \cup FilesOf(y, -1)
    BY DEF Fresh
  <2>4. Good(Construct(y, h, -1), b, K)
    BY <2>1, <2>2, <2>3, ConstructKeeps
  <2> QED BY <2>4 DEF y
<1>2. ASSUME CanOpen(w)
      PROVE  Good(Construct(Dropped(OpenFile(w), h), h, NextNumber(w)), b, K)
  <2> DEFINE x == OpenFile(w)
             y == Dropped(x, h)
             n == NextNumber(w)
             L == K \cup {x.opened}
  <2>1. Good(x, b, L) /\ Fresh(x, b, n) /\ FilesOf(x, n) = {x.opened} /\ x.ref = w.ref
    BY <1>2, OpenFileKeeps
  <2> HIDE DEF x, n
  <2>2. Good(y, b, L) /\ Releases(x, y) /\ y.on[h] = 0
    BY <2>1, DroppedKeeps
  <2> HIDE DEF y
  <2>3. x \in World /\ y \in World
    BY <2>1, <2>2 DEF Good
  <2>4. Free(y) # {}
    <3>1. Free(x) # {}
      BY <2>1 DEF HasRoom, Free
    <3> QED BY <3>1, <2>2, <2>3, StaysFree
  <2>5. Fresh(y, b, n) /\ FilesOf(y, n) = {x.opened}
    BY <2>1, <2>2, <2>3, StaysFresh
  <2>6. L \subseteq K \cup FilesOf(y, n)
    BY <2>5
  <2> HIDE DEF L
  <2>7. Good(Construct(y, h, n), b, K)
    BY <2>2, <2>4, <2>5, <2>6, ConstructKeeps
  <2> QED BY <2>7 DEF x, y, n
<1> QED BY <1>1, <1>2

-----------------------------------------------------------------------------
(* The invariant.  A theft ends the program of the model, so that nothing  *)
(* more is known of the numbers after it.                                  *)

OtherTypes ==
  /\ sock \in [Sockets -> Objects] /\ net \in [Files -> KernelSockets]
  /\ crashed \in BOOLEAN /\ misled \subseteq {"renewed", "checked", "again"} \X Sockets
  /\ adcFd \in Numbers \cup {-1} /\ bus \in {0} \cup Files
  /\ chip \subseteq 0 .. 15 /\ missed \subseteq Fields
  /\ leaked \subseteq Files /\ thefts \subseteq Files

DevicesInv ==
  /\ OtherTypes
  /\ fds \in World /\ Counted(fds) /\ Held(fds, leaked \cup {bus})
  /\ thefts = {} => Named(fds, bus) /\ Opened(fds, bus)

Sound == Good(fds, bus, leaked \cup {bus})

LEMMA InvSound ==
  /\ DevicesInv /\ thefts = {} => Sound
  /\ OtherTypes /\ Sound => DevicesInv
BY DEF DevicesInv, Sound, Good

LEMMA InvImplies ==
  ASSUME DevicesInv
  PROVE  HandlesCounted /\ NumbersTrue /\ NothingElseLeaks
<1>1. fds \in World /\ Counted(fds) /\ Held(fds, leaked \cup {bus})
  BY DEF DevicesInv
<1>2. \A d \in Free(fds) : HandlesOn(d) = {}
  <2> SUFFICES ASSUME NEW d \in Free(fds), NEW h \in Handles, fds.on[h] = d PROVE FALSE
    BY DEF HandlesOn
  <2>1. fds.on[h] # 0
    BY Sets DEF Free
  <2> QED BY <1>1, <2>1, OnCounted
<1>3. RefsCounted
  BY <1>1 DEF Counted, Count, RefsCounted, HandlesOn
<1>4. HandlesCounted
  BY <1>1, <1>2, <1>3 DEF HandlesCounted, DevicesTypeOK, DevicesInv, OtherTypes
<1>5. NumbersTrue
  <2> SUFFICES ASSUME thefts = {}, NEW d \in Details, fds.num[d] # -1
               PROVE  /\ fds.file[d] # 0 /\ fds.table[fds.num[d]] = fds.file[d]
                      /\ \A c \in Details \ {d} : fds.num[c] # fds.num[d]
    BY DEF NumbersTrue
  <2>1. Named(fds, bus)
    BY DEF DevicesInv
  <2>2. fds.file[d] # 0 /\ fds.table[fds.num[d]] = fds.file[d]
    BY <2>1 DEF Named
  <2>3. ASSUME NEW c \in Details \ {d}, fds.num[c] = fds.num[d] PROVE FALSE
    BY <2>1, <2>2, <2>3 DEF Named
  <2> QED BY <2>2, <2>3
<1>6. NothingElseLeaks
  <2> SUFFICES ASSUME NEW n \in Numbers, fds.table[n] # 0, fds.table[n] \notin leaked \cup {bus}
               PROVE  \E d \in Details :
                        fds.file[d] = fds.table[n] /\ (HandlesOn(d) # {} \/ fds.lost[d] > 0)
    BY DEF NothingElseLeaks
  <2>1. PICK d \in Details : fds.file[d] = fds.table[n] /\ fds.ref[d] > 0
    BY <1>1 DEF Held
  <2>2. fds.ref[d] = Count(fds.on, d) + fds.lost[d] /\ fds.lost[d] \in Nat /\ Count(fds.on, d) \in Nat
    BY <1>1, WorldFields, CountType DEF Counted
  <2>3. Count(fds.on, d) # 0 => HandlesOn(d) # {}
    BY CountType DEF HandlesOn
  <2> QED BY <2>1, <2>2, <2>3
<1> QED BY <1>4, <1>5, <1>6

LEMMA InvInit == DevicesInit => DevicesInv
<1> SUFFICES ASSUME DevicesInit PROVE DevicesInv
  OBVIOUS
<1>1. fds = NewWorld /\ SocketInit /\ ADCInit /\ leaked = {} /\ thefts = {}
  BY DEF DevicesInit
<1>2. OtherTypes
  <2>1. NoObject \in Objects /\ FreshSocket \in KernelSockets
    BY DEF NoObject, Objects, FreshSocket, KernelSockets, Addresses
  <2>2. PowerOn \subseteq 0 .. 15
    BY DEF PowerOn
  <2> QED BY <1>1, <2>1, <2>2 DEF OtherTypes, SocketInit, ADCInit
<1>3. /\ fds.table = [n \in Numbers |-> 0] /\ fds.opened = 0 /\ fds.on = [h \in Handles |-> 0]
      /\ fds.ref = [d \in Details |-> 0] /\ fds.num = [d \in Details |-> -1]
      /\ fds.file = [d \in Details |-> 0] /\ fds.lost = [d \in Details |-> 0]
  BY <1>1 DEF NewWorld
<1>4. fds \in World
  <2>1. 0 \in 0 .. MaxRefs
    BY FdAssumption
  <2> QED BY <1>1, <2>1 DEF NewWorld, World
<1>5. Counted(fds)
  <2> SUFFICES ASSUME NEW d \in Details PROVE fds.ref[d] = Count(fds.on, d) + fds.lost[d]
    BY DEF Counted
  <2>1. \A h \in Handles : fds.on[h] # d
    BY <1>3, Sets
  <2>2. Count(fds.on, d) = 0
    BY <2>1, CountType
  <2> QED BY <1>3, <2>2
<1>6. Held(fds, leaked \cup {bus}) /\ Named(fds, bus) /\ Opened(fds, bus)
  <2>1. bus = 0
    BY <1>1 DEF ADCInit
  <2> QED BY <1>3, <2>1 DEF Held, Named, Opened
<1> QED BY <1>2, <1>4, <1>5, <1>6 DEF DevicesInv

-----------------------------------------------------------------------------
(* The steps.                                                              *)

\* A step after which the descriptors are sound again.
LEMMA SoundAgain ==
  ASSUME OtherTypes', Good(fds', bus', leaked' \cup {bus'})
  PROVE  DevicesInv'
BY DEF DevicesInv, Good

LEMMA HandlesKeep == DevicesInv /\ thefts = {} /\ HandleCalls => DevicesInv'
<1> SUFFICES ASSUME DevicesInv, thefts = {}, HandleCalls PROVE DevicesInv'
  OBVIOUS
<1> DEFINE K == leaked \cup {bus}
<1>1. Good(fds, bus, K)
  BY InvSound DEF Sound
<1>2. UNCHANGED <<sock, net, crashed, misled, adcFd, bus, chip, missed,
                  leaked, thefts>>
  BY DEF HandleCalls, Handle, socketVars, adcVars, ghostVars
<1>3. OtherTypes'
  BY <1>2 DEF DevicesInv, OtherTypes
<1>4. Plain \subseteq Handles
  BY DEF Plain
<1>5. ASSUME NEW h \in Handles, NEW g \in Handles, HasRoom(fds)
      PROVE  Good(CopyConstruct(Destroy(fds, h), h, g), bus, K)
  <2> DEFINE x == Destroy(fds, h)
  <2>1. Good(x, bus, K) /\ Releases(fds, x) /\ x.on = [fds.on EXCEPT ![h] = 0]
    BY <1>1, DestroyKeeps
  <2> HIDE DEF x
  <2>2. fds \in World /\ x \in World
    BY <1>1, <2>1 DEF Good
  <2>3. x.on[h] = 0
    BY <2>1, <2>2, WorldFields
  <2>4. Free(x) # {}
    BY <1>5, <2>1, <2>2, StaysFree DEF HasRoom
  <2>5. \A d \in Details : x.ref[d] < MaxRefs
    <3> SUFFICES ASSUME NEW d \in Details PROVE x.ref[d] < MaxRefs
      OBVIOUS
    <3>1. x.ref[d] \in Nat /\ fds.ref[d] \in Nat /\ MaxRefs \in Nat
      BY <2>2, WorldFields, FdAssumption
    <3>2. x.ref[d] <= fds.ref[d] /\ fds.ref[d] < MaxRefs
      BY <1>5, <2>1 DEF HasRoom, Releases
    <3> QED BY <3>1, <3>2
  <2>6. HasRoom(x)
    BY <2>4, <2>5 DEF HasRoom
  <2>7. Good(CopyConstruct(x, h, g), bus, K)
    BY <2>1, <2>3, <2>6, CopyKeeps
  <2> QED BY <2>7 DEF x
<1>6. Good(fds', bus, K)
  <2>1. PICK h \in Handles :
          \/ HasRoom(fds) /\ fds' = Open(fds, h)
          \/ fds' = Destroy(fds, h)
          \/ fds' = CloseFd(fds, h)
          \/ \E g \in Handles \ {h} :
               \/ HasRoom(fds) /\ fds' = CopyConstruct(Destroy(fds, h), h, g)
               \/ HasRoom(fds) /\ fds' = CopyAssign(fds, h, g)
               \/ fds' = MoveAssign(fds, h, g)
               \/ fds' = Swap(fds, h, g)
    BY <1>4 DEF HandleCalls, Handle
  <2> HIDE DEF K
  <2>2. CASE HasRoom(fds) /\ fds' = Open(fds, h)
    BY <1>1, <2>2, OpenKeeps
  <2>3. CASE fds' = Destroy(fds, h)
    BY <1>1, <2>3, DestroyKeeps
  <2>4. CASE fds' = CloseFd(fds, h)
    BY <1>1, <2>4, CloseFdKeeps
  <2>5. CASE \E g \in Handles \ {h} : HasRoom(fds) /\ fds' = CopyConstruct(Destroy(fds, h), h, g)
    BY <1>5, <2>5
  <2>6. CASE \E g \in Handles \ {h} : HasRoom(fds) /\ fds' = CopyAssign(fds, h, g)
    BY <1>1, <2>6, CopyAssignKeeps
  <2>7. CASE \E g \in Handles \ {h} : fds' = MoveAssign(fds, h, g)
    BY <1>1, <2>7, MoveAssignKeeps
  <2>8. CASE \E g \in Handles \ {h} : fds' = Swap(fds, h, g)
    BY <1>1, <2>8, SwapKeeps
  <2> QED BY <2>1, <2>2, <2>3, <2>4, <2>5, <2>6, <2>7, <2>8
<1> QED BY <1>2, <1>3, <1>6, SoundAgain

-----------------------------------------------------------------------------
(* Sockets.                                                                *)

SocketTypes ==
  /\ sock \in [Sockets -> Objects] /\ net \in [Files -> KernelSockets]
  /\ crashed \in BOOLEAN /\ misled \subseteq {"renewed", "checked", "again"} \X Sockets

LEMMA SocketTyped ==
  /\ NoObject \in Objects /\ FreshObject \in Objects /\ FreshSocket \in KernelSockets
  /\ \A o \in Objects, s \in KernelSockets :
       /\ Local(o, s) \in Addresses /\ Remote(o, s) \in Addresses
       /\ Remember(o, s) \in Objects
<1>1. NoObject \in Objects /\ FreshObject \in Objects /\ FreshSocket \in KernelSockets
  BY DEF NoObject, FreshObject, FreshSocket, Objects, KernelSockets, Addresses
<1>2. ASSUME NEW o \in Objects, NEW s \in KernelSockets
      PROVE  /\ Local(o, s) \in Addresses /\ Remote(o, s) \in Addresses
             /\ Remember(o, s) \in Objects
  <2>1. Local(o, s) \in Addresses /\ Remote(o, s) \in Addresses
    BY DEF Local, Remote, Objects, KernelSockets, Addresses
  <2>2. Remember(o, s) \in Objects
    BY <2>1 DEF Remember, Objects
  <2> QED BY <2>1, <2>2
<1> QED BY <1>1, <1>2

LEMMA KernelTyped ==
  ASSUME NEW w, NEW n \in [Files -> KernelSockets]
  PROVE  Kernel(w, n) \in [Files -> KernelSockets]
BY SocketTyped DEF Kernel

LEMMA OpenHasFile ==
  ASSUME fds \in World, NEW x \in Sockets, IsOpen(x)
  PROVE  File(x) \in Files
<1>1. x \in Handles
  BY SocketAssumption
<1>2. Get(fds, x) \in Numbers \cup {-1}
  BY <1>1, WorldFields DEF Get
<1> QED BY <1>2, WorldFields DEF File, IsOpen

\* accept() into x of a connection to address, or none.
Accepted(address) ==
  [FreshSocket EXCEPT !.local = address, !.peer = "peer", !.at = "established"]

AcceptAt(y, x, address) ==
  LET o == Remember([FreshObject EXCEPT !.isConnected = TRUE], Accepted(address))
      w == OpenFile(fds)
  IN /\ misled' = NotMisled(x) /\ crashed' = crashed /\ HasRoom(fds)
     /\ \/ /\ fds' = Dropped(fds, x) /\ sock' = [sock EXCEPT ![x] = NoObject]
           /\ net' = Kernel(fds', net)
        \/ /\ CanOpen(fds) /\ fds' = Construct(Dropped(w, x), x, NextNumber(fds))
           /\ net' = Kernel(fds', [net EXCEPT ![w.opened] = Accepted(address)])
           /\ sock' = [sock EXCEPT ![x] = o]

LEMMA AcceptedAt ==
  ASSUME NEW x \in Sockets, NEW y \in Sockets, Accept(y, x)
  PROVE  \E address \in {"mine", "other"} : AcceptAt(y, x, address)
<1>1. CASE fds' = Dropped(fds, x) /\ sock' = [sock EXCEPT ![x] = NoObject] /\ net' = Kernel(fds', net)
  <2>1. AcceptAt(y, x, "mine")
    BY <1>1 DEF Accept, AcceptAt
  <2> QED BY <2>1
<1>2. ASSUME NEW address \in Chosen(net[File(y)]), CanOpen(fds),
             fds' = Construct(Dropped(OpenFile(fds), x), x, NextNumber(fds)),
             net' = Kernel(fds', [net EXCEPT ![OpenFile(fds).opened] = Accepted(address)]),
             sock' = [sock EXCEPT ![x] =
                        Remember([FreshObject EXCEPT !.isConnected = TRUE], Accepted(address))]
      PROVE  \E a \in {"mine", "other"} : AcceptAt(y, x, a)
  <2>1. AcceptAt(y, x, address)
    BY <1>2 DEF Accept, AcceptAt
  <2>2. address \in {"mine", "other"}
    BY <1>2 DEF Chosen
  <2> QED BY <2>1, <2>2
<1> QED BY <1>1, <1>2 DEF Accept, Accepted

\* Sockets are made and dropped.
LEMMA MakingKeeps ==
  ASSUME SocketTypes, NEW K, Good(fds, bus, K), NEW x \in Sockets, NEW y \in Sockets,
         \/ CreateSocket(x) \/ NewSocket(x) \/ DropSocket(x) \/ CloseSocket(x) \/ Accept(y, x)
  PROVE  SocketTypes' /\ Good(fds', bus, K)
<1>1. x \in Handles
  BY SocketAssumption
<1>2. NotMisled(x) \subseteq {"renewed", "checked", "again"} \X Sockets
  BY DEF NotMisled, SocketTypes
<1>3. /\ \A w : Kernel(w, net) \in [Files -> KernelSockets]
      /\ \A w, n : n \in [Files -> KernelSockets] => Kernel(w, n) \in [Files -> KernelSockets]
  BY KernelTyped DEF SocketTypes
<1>4. NoObject \in Objects /\ [FreshObject EXCEPT !.isConnected = TRUE] \in Objects
  BY SocketTyped DEF Objects
<1>5. CASE CreateSocket(x)
  <2>1. SocketTypes'
    BY <1>2, <1>3, <1>4, <1>5 DEF CreateSocket, SocketTypes
  <2>2. Good(fds', bus, K)
    BY <1>1, <1>5, ReplacedKeeps DEF CreateSocket
  <2> QED BY <2>1, <2>2
<1>6. CASE NewSocket(x)
  <2>1. SocketTypes'
    <3>1. misled' \subseteq {"renewed", "checked", "again"} \X Sockets
      BY <1>6 DEF NewSocket, SocketTypes
    <3>2. sock' = sock /\ crashed' = crashed /\ net' = Kernel(fds', net)
      BY <1>6 DEF NewSocket
    <3> QED BY <1>3, <3>1, <3>2 DEF SocketTypes
  <2>2. Good(fds', bus, K)
    <3>1. Free(fds) # {}
      BY <1>6 DEF NewSocket, HasRoom
    <3>2. CASE fds' = AssignNew(fds, x, -1)
      <4>1. Fresh(fds, bus, -1) /\ K \subseteq K \cup FilesOf(fds, -1)
        BY DEF Fresh
      <4> QED BY <1>1, <3>1, <3>2, <4>1, AssignNewKeeps
    <3>3. CASE CanOpen(fds) /\ fds' = AssignNew(OpenFile(fds), x, NextNumber(fds))
      <4> DEFINE w == OpenFile(fds)
                 n == NextNumber(fds)
                 L == K \cup {w.opened}
      <4>1. Good(w, bus, L) /\ Fresh(w, bus, n) /\ FilesOf(w, n) = {w.opened} /\ w.ref = fds.ref
        BY <3>3, OpenFileKeeps
      <4>2. L \subseteq K \cup FilesOf(w, n) /\ Free(w) # {}
        BY <3>1, <4>1 DEF Free
      <4>3. fds' = AssignNew(w, x, n)
        BY <3>3
      <4> HIDE DEF w, n, L
      <4> QED BY <1>1, <4>1, <4>2, <4>3, AssignNewKeeps
    <3> QED BY <1>6, <3>2, <3>3 DEF NewSocket
  <2> QED BY <2>1, <2>2
<1>7. CASE DropSocket(x)
  <2>1. SocketTypes'
    BY <1>2, <1>3, <1>4, <1>7 DEF DropSocket, SocketTypes
  <2>2. Good(fds', bus, K)
    BY <1>1, <1>7, DroppedKeeps DEF DropSocket
  <2> QED BY <2>1, <2>2
<1>8. CASE CloseSocket(x)
  <2>1. [sock EXCEPT ![x].isConnected = FALSE] \in [Sockets -> Objects]
    BY DEF SocketTypes, Objects
  <2>2. SocketTypes'
    BY <1>3, <1>8, <2>1 DEF CloseSocket, SocketTypes
  <2>3. Good(fds', bus, K)
    BY <1>1, <1>8, CloseFdKeeps DEF CloseSocket
  <2> QED BY <2>2, <2>3
<1>9. CASE Accept(y, x)
  <2>0. PICK address \in {"mine", "other"} : AcceptAt(y, x, address)
    BY <1>9, AcceptedAt
  <2> DEFINE s == Accepted(address)
             o == Remember([FreshObject EXCEPT !.isConnected = TRUE], s)
             w == OpenFile(fds)
  <2>1. s \in KernelSockets /\ o \in Objects
    <3>1. s \in KernelSockets
      BY <2>0 DEF Accepted, FreshSocket, KernelSockets
    <3> HIDE DEF s
    <3> QED BY <1>4, <3>1, SocketTyped
  <2>2. [net EXCEPT ![w.opened] = s] \in [Files -> KernelSockets]
    BY <2>1 DEF SocketTypes
  <2>3. [sock EXCEPT ![x] = NoObject] \in [Sockets -> Objects]
        /\ [sock EXCEPT ![x] = o] \in [Sockets -> Objects]
    BY <1>4, <2>1 DEF SocketTypes
  <2>4. misled' = NotMisled(x) /\ crashed' = crashed /\ HasRoom(fds)
    BY <2>0 DEF AcceptAt
  <2>5. \/ /\ fds' = Dropped(fds, x) /\ sock' = [sock EXCEPT ![x] = NoObject]
           /\ net' = Kernel(fds', net)
        \/ /\ CanOpen(fds) /\ fds' = Construct(Dropped(w, x), x, NextNumber(fds))
           /\ net' = Kernel(fds', [net EXCEPT ![w.opened] = s])
           /\ sock' = [sock EXCEPT ![x] = o]
    BY <2>0 DEF AcceptAt
  <2>6. Good(fds', bus, K)
    BY <1>1, <2>4, <2>5, DroppedKeeps, ReplacedKeeps
  <2> HIDE DEF s, o, w
  <2>7. net' \in [Files -> KernelSockets]
    <3>1. CASE net' = Kernel(fds', net)
      BY <3>1, KernelTyped DEF SocketTypes
    <3>2. CASE net' = Kernel(fds', [net EXCEPT ![w.opened] = s])
      <4> DEFINE n == [net EXCEPT ![w.opened] = s]
      <4>1. n \in [Files -> KernelSockets] /\ net' = Kernel(fds', n)
        BY <2>2, <3>2
      <4> HIDE DEF n
      <4> QED BY <4>1, KernelTyped
    <3> QED BY <2>5, <3>1, <3>2
  <2>8. SocketTypes'
    BY <1>2, <2>3, <2>4, <2>5, <2>7 DEF SocketTypes
  <2> QED BY <2>6, <2>8
<1> QED BY <1>5, <1>6, <1>7, <1>8, <1>9

\* Sockets are bound, listen and connect; the kernel goes on.
LEMMA UsingKeeps ==
  ASSUME SocketTypes, NEW K, Good(fds, bus, K), NEW x \in Sockets, NEW f \in Files,
         \/ \E address \in {"any", "mine"} : Bind(x, address)
         \/ Listen(x) \/ Connect(x) \/ Network(f)
  PROVE  SocketTypes' /\ Good(fds', bus, K)
<1>1. x \in Handles /\ fds \in World
  BY SocketAssumption DEF Good
<1>2. CASE Refused(x)
  <2>1. SocketTypes'
    BY <1>2, KernelTyped DEF Refused, SocketTypes
  <2>2. Good(fds', bus, K)
    BY <1>1, <1>2, CloseFdKeeps DEF Refused
  <2> QED BY <2>1, <2>2
<1>3. ASSUME NEW address \in {"any", "mine"}, Bind(x, address), ~Refused(x)
      PROVE  SocketTypes' /\ Good(fds', bus, K)
  <2> DEFINE s == [net[File(x)] EXCEPT !.local = address, !.bound = address]
             l == Local(sock[x], s)
  <2>1. /\ IsOpen(x) /\ net' = [net EXCEPT ![File(x)] = s]
        /\ sock' = [sock EXCEPT ![x].local = l] /\ UNCHANGED <<fds, crashed, misled>>
    BY <1>3 DEF Bind
  <2>2. File(x) \in Files
    BY <1>1, <2>1, OpenHasFile
  <2>3. s \in KernelSockets
    BY <2>2 DEF SocketTypes, KernelSockets
  <2>4. l \in Addresses
    BY <2>3, SocketTyped DEF SocketTypes
  <2> HIDE DEF s, l
  <2>5. net' \in [Files -> KernelSockets] /\ sock' \in [Sockets -> Objects]
    BY <2>1, <2>3, <2>4 DEF SocketTypes, Objects
  <2> QED BY <2>1, <2>5 DEF SocketTypes
<1>4. CASE Listen(x) /\ ~Refused(x)
  <2>1. /\ IsOpen(x) /\ net' = [net EXCEPT ![File(x)].at = "listening"]
        /\ UNCHANGED <<fds, sock, crashed, misled>>
    BY <1>4 DEF Listen
  <2>2. net' \in [Files -> KernelSockets]
    BY <2>1 DEF SocketTypes, KernelSockets
  <2> QED BY <2>1, <2>2 DEF SocketTypes
<1>5. CASE Connect(x)
  <2> DEFINE o == [sock[x] EXCEPT !.remote = "peer", !.isConnected = Connected(FALSE)]
  <2>1. UNCHANGED <<fds, crashed>>
    BY <1>5 DEF Connect
  <2>2. o \in Objects
    BY DEF SocketTypes, Objects, Connected, Addresses
  <2>3. misled' \subseteq {"renewed", "checked", "again"} \X Sockets
    <3>1. misled' \in {misled, misled \cup {<<"again", x>>}}
      BY <1>5 DEF Connect
    <3> QED BY <3>1 DEF SocketTypes
  <2> HIDE DEF o
  <2>4. ASSUME NEW s \in KernelSockets, IsOpen(x), net' = [net EXCEPT ![File(x)] = s],
               sock' = [sock EXCEPT ![x] = Remember(o, s)]
        PROVE  SocketTypes'
    <3>1. Remember(o, s) \in Objects
      BY <2>2, SocketTyped
    <3> QED BY <2>1, <2>3, <2>4, <3>1 DEF SocketTypes
  <2>5. IsOpen(x) => net[File(x)] \in KernelSockets
    BY <1>1, OpenHasFile DEF SocketTypes
  <2>6. CASE \E s \in KernelSockets :
               /\ IsOpen(x) /\ net' = [net EXCEPT ![File(x)] = s]
               /\ sock' = [sock EXCEPT ![x] = Remember(o, s)]
    BY <2>1, <2>4, <2>6
  <2>7. CASE ~IsOpen(x) /\ sock' = [sock EXCEPT ![x] = o] /\ net' = net
    BY <2>1, <2>2, <2>3, <2>7 DEF SocketTypes
  <2>8. \A s \in KernelSockets : Ended(s) \in KernelSockets /\ Chosen(s) \subseteq {"mine", "other"}
    BY DEF Ended, Chosen, Unconnected, KernelSockets
  <2>9. \A s \in KernelSockets : \A address \in Chosen(s) :
          [s EXCEPT !.local = address, !.at = "connecting"] \in KernelSockets
    BY <2>8 DEF KernelSockets
  <2>10. \/ ~IsOpen(x) /\ sock' = [sock EXCEPT ![x] = o] /\ net' = net
         \/ \E s \in KernelSockets :
               /\ IsOpen(x) /\ net' = [net EXCEPT ![File(x)] = s]
               /\ sock' = [sock EXCEPT ![x] = Remember(o, s)]
    BY <1>5, <2>5, <2>8, <2>9 DEF Connect, o
  <2> QED BY <2>1, <2>6, <2>7, <2>10
<1>6. CASE Network(f)
  <2>1. UNCHANGED <<fds, sock, crashed, misled>>
    BY <1>6 DEF Network
  <2>2. net' \in [Files -> KernelSockets]
    BY <1>6 DEF Network, SocketTypes, KernelSockets
  <2> QED BY <2>1, <2>2 DEF SocketTypes
<1> QED BY <1>2, <1>3, <1>4, <1>5, <1>6

\* Questions.
LEMMA AskingKeeps ==
  ASSUME SocketTypes, NEW K, Good(fds, bus, K), NEW x \in Sockets,
         CheckConnected(x) \/ AskAddresses(x) \/ IsSelfConnect(x)
  PROVE  SocketTypes' /\ Good(fds', bus, K)
<1>1. fds \in World /\ fds' = fds /\ net' = net
  BY DEF Good, CheckConnected, AskAddresses, IsSelfConnect
<1>2. IsOpen(x) => Remember(sock[x], net[File(x)]) \in Objects
  BY <1>1, OpenHasFile, SocketTyped DEF SocketTypes
<1>3. CASE CheckConnected(x)
  <2>1. sock' \in [Sockets -> Objects]
    BY <1>3 DEF CheckConnected, SocketTypes, Objects
  <2>2. misled' \subseteq {"renewed", "checked", "again"} \X Sockets /\ crashed' = crashed
    BY <1>3 DEF CheckConnected, SocketTypes
  <2> QED BY <1>1, <2>1, <2>2 DEF SocketTypes
<1>4. CASE AskAddresses(x)
  BY <1>1, <1>2, <1>4 DEF AskAddresses, SocketTypes
<1>5. CASE IsSelfConnect(x)
  <2> DEFINE o == IF IsOpen(x) THEN Remember(sock[x], net[File(x)]) ELSE sock[x]
  <2>1. o \in Objects
    BY <1>2 DEF SocketTypes
  <2>2. sock' = [sock EXCEPT ![x] = o] /\ crashed' \in BOOLEAN /\ misled' = misled
    BY <1>5 DEF IsSelfConnect
  <2> HIDE DEF o
  <2> QED BY <1>1, <2>1, <2>2 DEF SocketTypes
<1> QED BY <1>3, <1>4, <1>5

LEMMA SocketsKeep == DevicesInv /\ thefts = {} /\ SocketCalls => DevicesInv'
<1> SUFFICES ASSUME DevicesInv, thefts = {}, SocketCalls PROVE DevicesInv'
  OBVIOUS
<1> DEFINE K == leaked \cup {bus}
<1>1. Good(fds, bus, K) /\ SocketTypes
  BY InvSound DEF Sound, DevicesInv, OtherTypes, SocketTypes
<1>2. UNCHANGED <<adcFd, bus, chip, missed, leaked, thefts>>
  BY DEF SocketCalls, adcVars, ghostVars
<1>3. Own \in Sockets /\ Active \subseteq Sockets /\ Files # {}
  BY SocketAssumption, FdAssumption DEF Own, Active, Files
<1> HIDE DEF K
<1>4. SocketTypes' /\ Good(fds', bus, K)
  <2>1. CASE \/ CreateSocket(Own) \/ NewSocket(Own)
             \/ \E y \in Active : Accept(Own, y) \/ DropSocket(y) \/ CloseSocket(y)
    BY <1>1, <1>3, <2>1, MakingKeeps
  <2>2. CASE \/ Listen(Own) \/ Connect(Own) \/ \E f \in Files : Network(f)
             \/ \E address \in {"any", "mine"} : Bind(Own, address)
    <3>1. PICK f \in Files : \/ Listen(Own) \/ Connect(Own) \/ Network(f)
                             \/ \E address \in {"any", "mine"} : Bind(Own, address)
      BY <1>3, <2>2
    <3> QED BY <1>1, <1>3, <3>1, UsingKeeps
  <2>3. CASE \E x \in Active : CheckConnected(x) \/ AskAddresses(x) \/ IsSelfConnect(x)
    BY <1>1, <1>3, <2>3, AskingKeeps
  <2> QED BY <2>1, <2>2, <2>3 DEF SocketCalls
<1>5. OtherTypes'
  BY <1>2, <1>4 DEF DevicesInv, OtherTypes, SocketTypes
<1> QED BY <1>2, <1>4, <1>5, SoundAgain DEF K

-----------------------------------------------------------------------------
(* The converter and the pins.                                             *)

LEMMA BitsIn == \A x \in Fields : Bits(x) \subseteq 0 .. 15
BY DEF Fields, Field, Bits

LEMMA SetFieldTyped ==
  ASSUME NEW conf \in SUBSET (0 .. 15), NEW x \in Fields, NEW v
  PROVE  SetField(conf, x, v) \in SUBSET (0 .. 15)
BY BitsIn DEF SetField, Shifted

LEMMA SetAllTyped ==
  ASSUME NEW conf \in SUBSET (0 .. 15), NEW args, NEW done
  PROVE  SetAll(conf, args, done) \in SUBSET (0 .. 15)
<1> DEFINE SetIf(c, x) == IF x \in done THEN SetField(c, x, args[x]) ELSE c
<1>1. \A c \in SUBSET (0 .. 15), x \in Fields : SetIf(c, x) \in SUBSET (0 .. 15)
  BY SetFieldTyped
<1>2. {"channel", "rate", "compare", "range"} \subseteq Fields
  BY DEF Fields, Field
<1>3. SetAll(conf, args, done)
        = SetIf(SetIf(SetIf(SetIf(conf, "channel"), "rate"), "compare"), "range")
  BY DEF SetAll
<1> HIDE DEF SetIf
<1> QED BY <1>1, <1>2, <1>3

LEMMA ConverterSetKeeps ==
  ASSUME DevicesInv, thefts = {}, NEW x \in Fields, ConverterSet(x)
  PROVE  DevicesInv'
<1>1. UNCHANGED <<fds, sock, net, crashed, misled, adcFd, bus, leaked, thefts>>
  BY DEF ConverterSet, Set, socketVars, ghostVars
<1>2. chip' \subseteq 0 .. 15
  <2>1. chip \in SUBSET (0 .. 15)
    BY DEF DevicesInv, OtherTypes
  <2>2. \A v : SetField(chip, x, v) \in SUBSET (0 .. 15)
    BY <2>1, SetFieldTyped
  <2>3. chip' = chip \/ \E v : chip' = SetField(chip, x, v)
    BY DEF ConverterSet, Set
  <2> QED BY <2>1, <2>2, <2>3
<1>3. missed' \subseteq Fields
  BY DEF ConverterSet, Set, DevicesInv, OtherTypes
<1> QED BY <1>1, <1>2, <1>3 DEF DevicesInv, OtherTypes

LEMMA GreatestValue == \A x \in Fields : Max(Values[x]) \in Values[x]
<1> SUFFICES ASSUME NEW x \in Fields PROVE Max(Values[x]) \in Values[x]
  OBVIOUS
<1>1. \E m \in Values[x] : \A v \in Values[x] : m >= v
  BY DEF Fields, Field, Values
<1> QED BY <1>1 DEF Max

LEMMA OpenedAs ==
  ASSUME ConverterOpen
  PROVE  \E args \in Arguments, done \in SUBSET (Fields \ {"single"}) :
           ADCOpen(args, done) \/ ADCOpenFails(args)
<1>1. PICK opening \in Openings :
        ADCOpen(opening[1], opening[2]) \/ ADCOpenFails(opening[1])
  BY DEF ConverterOpen
<1>2. opening[1] \in Arguments /\ opening[2] \in SUBSET (Fields \ {"single"})
  <2>1. CASE users = {"adc"}
    BY <2>1 DEF Openings
  <2>2. CASE users # {"adc"}
    <3> DEFINE args == [x \in Fields \ {"single"} |-> Max(Values[x])]
    <3>1. opening[1] = args /\ opening[2] = {}
      BY <2>2 DEF Openings
    <3>2. \A x \in Fields \ {"single"} : Max(Values[x]) \in Values[x]
      BY GreatestValue
    <3>3. args \in Arguments
      BY <3>2 DEF Arguments
    <3> QED BY <3>1, <3>3
  <2> QED BY <2>1, <2>2
<1> QED BY <1>1, <1>2

\* The bus is one of the files that may be open without a handle.
LEMMA Forgotten ==
  ASSUME NEW K, Good(fds, bus, K), NEW lost, K \subseteq lost \cup {0}
  PROVE  Good(fds, 0, lost \cup {0})
<1>1. Held(fds, lost \cup {0})
  BY DEF Good, Held
<1>2. Named(fds, 0)
  BY DEF Good, Named
<1>3. Opened(fds, 0)
  <2>1. 0 \in 0 .. fds.opened
    BY WorldFields, Sets DEF Good
  <2> QED BY <2>1 DEF Good, Opened
<1> QED BY <1>1, <1>2, <1>3 DEF Good

LEMMA ConverterOpenKeeps == DevicesInv /\ thefts = {} /\ ConverterOpen => DevicesInv'
<1> SUFFICES ASSUME DevicesInv, thefts = {}, ConverterOpen PROVE DevicesInv'
  OBVIOUS
<1> DEFINE K == leaked \cup {bus}
<1>1. Good(fds, bus, K) /\ OtherTypes
  BY InvSound DEF Sound, DevicesInv
<1>2. PICK args \in Arguments, done \in SUBSET (Fields \ {"single"}) :
        ADCOpen(args, done) \/ ADCOpenFails(args)
  BY OpenedAs
<1>3. UNCHANGED <<sock, net, crashed, misled, thefts>>
      /\ leaked' = IF bus = 0 THEN leaked ELSE leaked \cup {bus}
  BY DEF ConverterOpen, socketVars
<1>4. leaked' \subseteq Files
  BY <1>1, <1>3 DEF OtherTypes
<1>5. K \subseteq leaked' \cup {0}
  BY <1>3
<1>6. missed' \subseteq Fields /\ chip' \subseteq 0 .. 15
  <2>1. DOMAIN args \subseteq Fields
    BY DEF Arguments
  <2> QED BY <1>1, <1>2, <2>1, SetAllTyped DEF ADCOpen, ADCOpenFails, OtherTypes
<1>7. CASE ADCOpen(args, done)
  <2> DEFINE w == OpenFile(fds)
             n == NextNumber(fds)
             c == w.opened
  <2>1. n \in Numbers /\ c = fds.opened + 1 /\ c \in Files /\ Good(w, c, K \cup {c})
    BY <1>1, <1>7, OpenFileKeeps DEF ADCOpen
  <2>2. fds' = w /\ adcFd' = n /\ bus' = c
    BY <1>7, <2>1 DEF ADCOpen
  <2> HIDE DEF w, n, c, K
  <2>3. K \cup {c} \subseteq (leaked' \cup {bus'}) \cup {0}
    BY <1>5, <2>2
  <2>4. Good(fds', bus', leaked' \cup {bus'})
    BY <2>1, <2>2, <2>3, HeldMore
  <2>5. OtherTypes'
    BY <1>1, <1>3, <1>4, <1>6, <2>1, <2>2 DEF OtherTypes
  <2> QED BY <2>4, <2>5, SoundAgain
<1>8. CASE ADCOpenFails(args)
  <2>1. fds' = fds /\ adcFd' = -1 /\ bus' = 0
    BY <1>8 DEF ADCOpenFails
  <2>2. Good(fds, 0, leaked' \cup {0})
    BY <1>1, <1>5, Forgotten
  <2>3. OtherTypes'
    BY <1>1, <1>3, <1>4, <1>6, <2>1 DEF OtherTypes
  <2> QED BY <2>1, <2>2, <2>3, SoundAgain
<1> QED BY <1>2, <1>7, <1>8

\* A converter that ends leaves its file to the leaked ones.
LEMMA ConverterRenewedKeeps == DevicesInv /\ thefts = {} /\ ConverterRenewed => DevicesInv'
<1> SUFFICES ASSUME DevicesInv, thefts = {}, ConverterRenewed PROVE DevicesInv'
  OBVIOUS
<1>1. Good(fds, bus, leaked \cup {bus}) /\ OtherTypes
  BY InvSound DEF Sound, DevicesInv
<1>2. /\ UNCHANGED <<fds, sock, net, crashed, misled, chip, missed, thefts>>
      /\ leaked' = IF bus = 0 THEN leaked ELSE leaked \cup {bus}
      /\ bus' = 0 /\ adcFd' \in Numbers \cup {-1}
  BY DEF ConverterRenewed, ADCRenewed, socketVars
<1>3. OtherTypes'
  BY <1>1, <1>2 DEF OtherTypes
<1>4. Good(fds, 0, leaked' \cup {0})
  BY <1>1, <1>2, Forgotten
<1> QED BY <1>2, <1>3, <1>4, SoundAgain

\* close() of a number that is the converter's, or nobody's, changes nothing
\* for the others; of one that is not, it ends what is known.
LEMMA ConverterCloseKeeps == DevicesInv /\ thefts = {} /\ ConverterClose => DevicesInv'
<1> SUFFICES ASSUME DevicesInv, thefts = {}, ConverterClose PROVE DevicesInv'
  OBVIOUS
<1> DEFINE K == leaked \cup {bus}
<1>1. Good(fds, bus, K) /\ OtherTypes
  BY InvSound DEF Sound, DevicesInv
<1>2. /\ UNCHANGED <<sock, net, crashed, misled, leaked, adcFd, chip, missed>>
      /\ fds' = CloseNumber(fds, adcFd)
      /\ bus' = IF Reaches(fds, adcFd) THEN 0 ELSE bus
      /\ thefts' = IF adcFd = -1 THEN thefts ELSE thefts \cup ({fds.table[adcFd]} \ {0, bus})
  BY DEF ConverterClose, ADCClose, socketVars
<1>3. CASE adcFd = -1
  <2>1. fds' = fds /\ bus' = bus /\ thefts' = thefts
    BY <1>2, <1>3 DEF CloseNumber, Reaches
  <2> QED BY <1>2, <2>1 DEF DevicesInv, OtherTypes
<1>4. CASE adcFd # -1
  <2> DEFINE n == adcFd
             table == [fds.table EXCEPT ![n] = 0]
  <2>1. n \in Numbers
    BY <1>1, <1>4 DEF OtherTypes
  <2>2. /\ fds \in World /\ Counted(fds) /\ Named(fds, bus) /\ Opened(fds, bus) /\ Held(fds, K)
    BY <1>1 DEF Good
  <2>3. fds' = [table |-> table, opened |-> fds.opened, on |-> fds.on, ref |-> fds.ref,
                num |-> fds.num, file |-> fds.file, lost |-> fds.lost]
    <3>1. fds' = [fds EXCEPT !.table = table]
      BY <1>2, <1>4 DEF CloseNumber
    <3>2. fds = [table |-> fds.table, opened |-> fds.opened, on |-> fds.on, ref |-> fds.ref,
                 num |-> fds.num, file |-> fds.file, lost |-> fds.lost]
      BY <2>2, WorldFields
    <3> HIDE DEF table
    <3> QED BY <3>1, <3>2
  <2>4. /\ fds'.table = table /\ fds'.opened = fds.opened /\ fds'.on = fds.on
        /\ fds'.ref = fds.ref /\ fds'.num = fds.num /\ fds'.file = fds.file /\ fds'.lost = fds.lost
    BY <2>3
  <2>5. table \in [Numbers -> {0} \cup Files]
    BY <2>2, WorldFields
  <2>6. fds' \in World
    BY <2>2, <2>3, <2>5, WorldFields, WorldMade
  <2>7. Counted(fds')
    BY <2>2, <2>4 DEF Counted
  <2>8. \A k \in Numbers : table[k] = IF k = n THEN 0 ELSE fds.table[k]
    BY <2>2, WorldFields
  <2> HIDE DEF table
  <2>9. \A k \in Numbers : table[k] # 0 => table[k] = fds.table[k] /\ k # n
    BY <2>8
  <2>10. Held(fds', leaked' \cup {bus'})
    <3> SUFFICES ASSUME NEW k \in Numbers, table[k] # 0, table[k] \notin leaked \cup {bus'}
                 PROVE  \E d \in Details : fds.file[d] = table[k] /\ fds.ref[d] > 0
      BY <1>2, <2>4 DEF Held
    <3>1. table[k] = fds.table[k] /\ k # n
      BY <2>9
    <3>2. table[k] # bus
      <4>1. CASE Reaches(fds, adcFd)
        BY <3>1, <4>1, <2>1, <2>2 DEF Reaches, Opened
      <4>2. CASE ~Reaches(fds, adcFd)
        BY <1>2, <4>2
      <4> QED BY <4>1, <4>2
    <3> QED BY <2>2, <3>1, <3>2 DEF Held
  <2>11. bus' \in {0, bus}
    BY <1>2
  <2>12. ASSUME thefts' = {} PROVE Named(fds', bus') /\ Opened(fds', bus')
    <3>1. fds.table[n] \in {0, bus}
      BY <1>2, <1>4, <2>12
    <3>2. \A d \in Details : fds.num[d] # -1 => fds.num[d] # n
      BY <2>2, <3>1 DEF Named
    <3>3. Named(fds', bus')
      <4> SUFFICES ASSUME NEW d \in Details
                   PROVE  /\ fds.num[d] = -1 <=> fds.file[d] = 0
                          /\ fds.num[d] # -1 => table[fds.num[d]] = fds.file[d]
                          /\ fds.file[d] # 0 =>
                               fds.file[d] # bus' /\ \A c \in Details : c # d => fds.file[c] # fds.file[d]
        BY <2>4 DEF Named
      <4>1. fds.num[d] # -1 => table[fds.num[d]] = fds.table[fds.num[d]]
        BY <2>2, <2>8, <3>2, WorldFields
      <4> QED BY <2>2, <2>11, <4>1 DEF Named
    <3>4. Opened(fds', bus')
      <4>1. bus' \in 0 .. fds.opened
        <5>1. fds.opened \in Nat
          BY <2>2, WorldFields, Sets
        <5> QED BY <2>2, <2>11, <5>1 DEF Opened
      <4>2. \A k \in Numbers : table[k] <= fds.opened
        <5>1. fds.opened \in Nat
          BY <2>2, WorldFields, Sets
        <5> QED BY <2>2, <2>8, <5>1 DEF Opened
      <4>3. \A k, m \in Numbers : k # m /\ table[k] # 0 => table[m] # table[k]
        BY <2>2, <2>8 DEF Opened
      <4> QED BY <2>4, <4>1, <4>2, <4>3 DEF Opened
    <3> QED BY <3>3, <3>4
  <2>13. OtherTypes'
    <3>1. thefts' \subseteq Files
      BY <1>1, <1>2, <1>4, <2>1, <2>2, WorldFields DEF OtherTypes
    <3> QED BY <1>1, <1>2, <2>11, <3>1 DEF OtherTypes
  <2> QED BY <2>6, <2>7, <2>10, <2>12, <2>13 DEF DevicesInv
<1> QED BY <1>3, <1>4

LEMMA PinsKeep ==
  ASSUME DevicesInv, thefts = {}, NEW get, NEW works, Pins(get, works)
  PROVE  DevicesInv'
<1> DEFINE K == leaked \cup {bus}
           w == OpenFile(fds)
           n == NextNumber(fds)
           c == w.opened
           left == n = 0 \/ (get /\ ~works)
           L == K \cup {c}
<1>1. Good(fds, bus, K) /\ OtherTypes
  BY InvSound DEF Sound, DevicesInv
<1>2. /\ CanOpen(fds)
      /\ fds' = IF left THEN w ELSE CloseNumber(w, n)
      /\ leaked' = IF left THEN leaked \cup {c} ELSE leaked
      /\ UNCHANGED <<sock, net, crashed, misled, adcFd, bus, chip, missed,
                     thefts>>
  BY DEF Pins, socketVars, adcVars
<1>3. /\ n \in Numbers /\ c = fds.opened + 1 /\ c \in Files
      /\ w.table = [fds.table EXCEPT ![n] = c] /\ fds.table[n] = 0
      /\ Good(w, bus, L) /\ Fresh(w, bus, n)
  BY <1>1, <1>2, OpenFileKeeps
<1>4. OtherTypes'
  <2>1. leaked' \subseteq Files
    BY <1>1, <1>2, <1>3 DEF OtherTypes
  <2> QED BY <1>1, <1>2, <2>1 DEF OtherTypes
<1> HIDE DEF w, n, c, left
<1>5. CASE left
  <2>1. L = leaked' \cup {bus'} /\ fds' = w /\ bus' = bus
    BY <1>2, <1>5
  <2> HIDE DEF L
  <2> QED BY <1>3, <1>4, <2>1, SoundAgain
<1>6. CASE ~left
  <2> DEFINE table == [w.table EXCEPT ![n] = 0]
             x == CloseNumber(w, n)
  <2> HIDE DEF L
  <2>1. /\ w \in World /\ Counted(w) /\ Named(w, bus) /\ Opened(w, bus) /\ Held(w, L)
    BY <1>3 DEF Good
  <2>2. x = [table |-> table, opened |-> w.opened, on |-> w.on, ref |-> w.ref,
             num |-> w.num, file |-> w.file, lost |-> w.lost]
    <3>1. x = [w EXCEPT !.table = table]
      BY <1>3, Sets DEF CloseNumber
    <3>2. w = [table |-> w.table, opened |-> w.opened, on |-> w.on, ref |-> w.ref,
               num |-> w.num, file |-> w.file, lost |-> w.lost]
      BY <2>1, WorldFields
    <3> HIDE DEF table, x
    <3> QED BY <3>1, <3>2
  <2>3. table \in [Numbers -> {0} \cup Files]
    BY <2>1, WorldFields
  <2>4. \A k \in Numbers : table[k] = IF k = n THEN 0 ELSE w.table[k]
    BY <2>1, WorldFields
  <2> HIDE DEF table, x
  <2>5. /\ x.table = table /\ x.opened = w.opened /\ x.on = w.on /\ x.ref = w.ref
        /\ x.num = w.num /\ x.file = w.file /\ x.lost = w.lost
    BY <2>2
  <2>6. x \in World
    BY <2>1, <2>2, <2>3, WorldFields, WorldMade
  <2>7. Counted(x)
    BY <2>1, <2>5 DEF Counted
  <2>8. Named(x, bus)
    <3> SUFFICES ASSUME NEW d \in Details
                 PROVE  /\ w.num[d] = -1 <=> w.file[d] = 0
                        /\ w.num[d] # -1 => table[w.num[d]] = w.file[d]
                        /\ w.file[d] # 0 =>
                             w.file[d] # bus /\ \A e \in Details : e # d => w.file[e] # w.file[d]
      BY <2>5 DEF Named
    <3>1. w.num[d] # n
      BY <1>3, Sets DEF Fresh
    <3>2. w.num[d] # -1 => table[w.num[d]] = w.table[w.num[d]]
      BY <2>1, <2>4, <3>1, WorldFields
    <3> QED BY <2>1, <3>2 DEF Named
  <2>9. Opened(x, bus)
    <3>1. w.opened \in Nat
      BY <2>1, WorldFields, Sets
    <3>2. \A k \in Numbers : table[k] <= w.opened
      BY <2>1, <2>4, <3>1 DEF Opened
    <3>3. \A k, m \in Numbers : k # m /\ table[k] # 0 => table[m] # table[k]
      BY <2>1, <2>4 DEF Opened
    <3> QED BY <2>1, <2>5, <3>2, <3>3 DEF Opened
  <2>10. Held(x, K)
    <3> SUFFICES ASSUME NEW k \in Numbers, table[k] # 0, table[k] \notin K
                 PROVE  \E d \in Details : w.file[d] = table[k] /\ w.ref[d] > 0
      BY <2>5 DEF Held
    <3>1. k # n /\ table[k] = w.table[k]
      BY <2>4
    <3>2. w.table[n] = c
      BY <1>1, <1>3, WorldFields DEF Good
    <3>3. w.table[k] # c
      BY <1>3, <2>1, <3>1, <3>2, Sets DEF Opened
    <3>4. w.table[k] \notin L
      BY <3>1, <3>3 DEF L
    <3> QED BY <2>1, <3>1, <3>4 DEF Held
  <2>11. Good(x, bus, K)
    BY <2>6, <2>7, <2>8, <2>9, <2>10 DEF Good
  <2>12. fds' = x /\ bus' = bus /\ leaked' = leaked
    BY <1>2, <1>6 DEF x
  <2> QED BY <1>4, <2>11, <2>12, SoundAgain
<1> QED BY <1>5, <1>6

-----------------------------------------------------------------------------
(* The theorems.                                                           *)

LEMMA InvNext == DevicesInv /\ [DevicesNext]_devicesVars => DevicesInv'
<1> SUFFICES ASSUME DevicesInv, [DevicesNext]_devicesVars PROVE DevicesInv'
  OBVIOUS
<1>1. CASE UNCHANGED devicesVars
  BY <1>1 DEF devicesVars, socketVars, adcVars, ghostVars, DevicesInv, OtherTypes
<1>2. CASE DevicesNext
  <2>1. thefts = {}
    BY <1>2 DEF DevicesNext
  <2>2. CASE HandleCalls
    BY <2>1, <2>2, HandlesKeep
  <2>3. CASE SocketCalls
    BY <2>1, <2>3, SocketsKeep
  <2>4. CASE ConverterOpen
    BY <2>1, <2>4, ConverterOpenKeeps
  <2>5. CASE ConverterClose
    BY <2>1, <2>5, ConverterCloseKeeps
  <2>6. CASE ConverterRenewed
    BY <2>1, <2>6, ConverterRenewedKeeps
  <2>7. ASSUME NEW x \in Fields, ConverterSet(x) PROVE DevicesInv'
    BY <2>1, <2>7, ConverterSetKeeps
  <2>8. ASSUME NEW get \in BOOLEAN, NEW works \in BOOLEAN, Pins(get, works) PROVE DevicesInv'
    BY <2>1, <2>8, PinsKeep
  <2> QED BY <1>2, <2>2, <2>3, <2>4, <2>5, <2>6, <2>7, <2>8 DEF DevicesNext
<1> QED BY <1>1, <1>2

LEMMA InvAlways == DevicesSpec => []DevicesInv
<1> QED BY InvInit, InvNext, PTL DEF DevicesSpec

\* Class Fd counts every handle on a Detail, and no more, apart from the
\* references that copy assignment gives up without a release; and what all
\* the classes keep has its type.
THEOREM HandlesCountedAlways == DevicesSpec => []HandlesCounted
<1>1. DevicesInv => HandlesCounted
  BY InvImplies
<1> QED BY <1>1, InvAlways, PTL

\* Until the converter closes a number it does not hold, the number in a
\* Detail is that of the file it was made for, and in no other Detail: no
\* handle and no Socket closes or uses what another has.
THEOREM NumbersTrueAlways == DevicesSpec => []NumbersTrue
<1>1. DevicesInv => NumbersTrue
  BY InvImplies
<1> QED BY <1>1, InvAlways, PTL

\* Nothing is left open by a handle, a Socket, the converter or the pins but by
\* the calls that are known to: an overwriting copy assignment, a second init()
\* or the end of a converter not closed, and IOControl on descriptor 0 or with a
\* failing ioctl.
THEOREM NothingElseLeaksAlways == DevicesSpec => []NothingElseLeaks
<1>1. DevicesInv => NothingElseLeaks
  BY InvImplies
<1> QED BY <1>1, InvAlways, PTL

-----------------------------------------------------------------------------
(* The fields of the register.                                             *)

\* The values that fit into a field.
Fitting(x) == 0 .. 2 ^ Field[x][2] - 1

InFields == UNION {Bits(x) : x \in Fields}

LEMMA FieldNames == Fields = {"channel", "range", "rate", "compare", "single"}
BY DEF Fields, Field

LEMMA FieldBits ==
  /\ Bits("channel") = 12 .. 14 /\ Bits("range") = 9 .. 11 /\ Bits("rate") = 5 .. 7
  /\ Bits("compare") = 2 .. 2 /\ Bits("single") = 8 .. 8
BY DEF Bits, Field

LEMMA FieldsApart == \A x, y \in Fields : x # y => Bits(x) \cap Bits(y) = {}
BY FieldNames, FieldBits

LEMMA ShiftedIn == \A x \in Fields : \A v : Shifted(x, v) \subseteq Bits(x)
BY DEF Shifted

\* Fields of three bits, and of one.
LEMMA FieldWidth ==
  /\ \A x \in {"channel", "range", "rate"} : Field[x][1] \in Nat /\ Field[x][2] = 3
  /\ \A x \in {"compare", "single"} : Field[x][1] \in Nat /\ Field[x][2] = 1
BY DEF Field

LEMMA FittingIs ==
  /\ \A x \in {"channel", "range", "rate"} : Fitting(x) = 0 .. 7
  /\ \A x \in {"compare", "single"} : Fitting(x) = 0 .. 1
<1>1. 2 ^ 3 - 1 = 7 /\ 2 ^ 1 - 1 = 1
  OBVIOUS
<1> QED BY <1>1, FieldWidth DEF Fitting

\* Three bits are the value's remainders.
LEMMA ShiftedWide ==
  ASSUME NEW x \in {"channel", "range", "rate"}, NEW v \in Int
  PROVE  LET at == Field[x][1]
         IN /\ at \in Shifted(x, v) <=> v % 2 = 1
            /\ at + 1 \in Shifted(x, v) <=> (v \div 2) % 2 = 1
            /\ at + 2 \in Shifted(x, v) <=> (v \div 4) % 2 = 1
<1> DEFINE at == Field[x][1]
           Bit(k) == (v \div 2 ^ k) % 2 = 1
<1>1. at \in Nat /\ Field[x][2] = 3
  BY FieldWidth
<1>2. Bits(x) = at .. at + 2
  BY <1>1 DEF Bits
<1>3. \A b : b \in Shifted(x, v) <=> b \in Bits(x) /\ Bit(b - at)
  BY DEF Shifted
<1>4. (Bit(0) <=> v % 2 = 1) /\ (Bit(1) <=> (v \div 2) % 2 = 1) /\ (Bit(2) <=> (v \div 4) % 2 = 1)
  <2>1. 2 ^ 0 = 1 /\ 2 ^ 1 = 2 /\ 2 ^ 2 = 4 /\ v \div 1 = v
    OBVIOUS
  <2> QED BY <2>1
<1> HIDE DEF at, Bit
<1>5. ASSUME NEW k \in 0 .. 2 PROVE at + k \in Shifted(x, v) <=> Bit(k)
  <2> DEFINE b == at + k
  <2>1. b \in Bits(x) /\ b - at = k
    BY <1>1, <1>2
  <2> HIDE DEF b
  <2>2. b \in Shifted(x, v) <=> Bit(k)
    BY <1>3, <2>1
  <2> QED BY <2>2 DEF b
<1>6. (at \in Shifted(x, v) <=> Bit(0)) /\ (at + 1 \in Shifted(x, v) <=> Bit(1))
      /\ (at + 2 \in Shifted(x, v) <=> Bit(2))
  BY <1>1, <1>5
<1> QED BY <1>4, <1>6 DEF at

LEMMA ShiftedNarrow ==
  ASSUME NEW x \in {"compare", "single"}, NEW v \in Int
  PROVE  Field[x][1] \in Shifted(x, v) <=> v % 2 = 1
<1> DEFINE at == Field[x][1]
<1>1. at \in Nat /\ Field[x][2] = 1
  BY FieldWidth
<1>2. at \in Bits(x) /\ at - at = 0
  BY <1>1 DEF Bits
<1>3. 2 ^ 0 = 1 /\ v \div 1 = v
  OBVIOUS
<1>4. at \in Shifted(x, v) <=> (v \div 2 ^ (at - at)) % 2 = 1
  BY <1>2 DEF Shifted
<1> HIDE DEF at
<1>5. at \in Shifted(x, v) <=> v % 2 = 1
  BY <1>2, <1>3, <1>4
<1> QED BY <1>5 DEF at

\* A number below eight is what its three remainders say.
LEMMA Remainders ==
  \A v, w \in 0 .. 7 :
    /\ v % 2 = 1 <=> w % 2 = 1
    /\ (v \div 2) % 2 = 1 <=> (w \div 2) % 2 = 1
    /\ (v \div 4) % 2 = 1 <=> (w \div 4) % 2 = 1
    => v = w
OBVIOUS

\* No two values of a field look the same in the register.
LEMMA ShiftedOnce ==
  ASSUME NEW x \in Fields, NEW v \in Fitting(x), NEW w \in Fitting(x),
         Shifted(x, v) = Shifted(x, w)
  PROVE  v = w
<1>1. CASE x \in {"channel", "range", "rate"}
  <2>1. v \in 0 .. 7 /\ w \in 0 .. 7
    BY <1>1, FittingIs
  <2>2. /\ v % 2 = 1 <=> w % 2 = 1
        /\ (v \div 2) % 2 = 1 <=> (w \div 2) % 2 = 1
        /\ (v \div 4) % 2 = 1 <=> (w \div 4) % 2 = 1
    BY <1>1, <2>1, ShiftedWide
  <2> QED BY <2>1, <2>2, Remainders
<1>2. CASE x \in {"compare", "single"}
  <2>1. v \in 0 .. 1 /\ w \in 0 .. 1
    BY <1>2, FittingIs
  <2>2. v % 2 = 1 <=> w % 2 = 1
    BY <1>2, <2>1, ShiftedNarrow
  <2> QED BY <2>1, <2>2
<1> QED BY <1>1, <1>2, FieldNames

\* So the register tells the value.
LEMMA ValueIs ==
  ASSUME NEW conf, NEW x \in Fields, NEW v \in Fitting(x), conf \cap Bits(x) = Shifted(x, v)
  PROVE  Value(conf, x) = v
<1>1. \A w \in Fitting(x) : Shifted(x, w) = conf \cap Bits(x) <=> w = v
  BY ShiftedOnce
<1> QED BY <1>1 DEF Value, Fitting

\* The register holds what was asked of every field but those missed, and its
\* other bits are as they were when the power came on.
FieldsInv ==
  /\ \A x \in Fields : asked[x] \in Fitting(x)
  /\ DOMAIN asked = Fields
  /\ \A x \in Fields \ missed : chip \cap Bits(x) = Shifted(x, asked[x])
  /\ chip \ InFields = PowerOn \ InFields

LEMMA FieldsInvImplies == FieldsInv => FieldsAsAsked
<1> SUFFICES ASSUME FieldsInv PROVE FieldsAsAsked
  OBVIOUS
<1>1. \A x \in Fields \ missed : Value(chip, x) = asked[x]
  BY ValueIs DEF FieldsInv
<1>2. {7, 8} \subseteq InFields
  BY FieldNames, FieldBits DEF InFields
<1>3. chip \ InFields = {0, 1, 10, 15} \ InFields
  BY <1>2 DEF FieldsInv, PowerOn
<1> QED BY <1>1, <1>3 DEF FieldsAsAsked, InFields

LEMMA ValuesFit == \A x \in Fields : Values[x] \subseteq Fitting(x)
<1>1. /\ Values["channel"] = {0, 7} /\ Values["range"] = {1, 5} /\ Values["rate"] = {0, 7}
      /\ Values["compare"] = {0, 1} /\ Values["single"] = {0}
  BY DEF Values
<1> QED BY <1>1, FittingIs, FieldNames

\* What a write of one field does to the bits.
LEMMA SetFieldBits ==
  ASSUME NEW conf, NEW x \in Fields, NEW v
  PROVE  /\ SetField(conf, x, v) \cap Bits(x) = Shifted(x, v)
         /\ \A y \in Fields \ {x} : SetField(conf, x, v) \cap Bits(y) = conf \cap Bits(y)
         /\ SetField(conf, x, v) \ InFields = conf \ InFields
<1>1. Shifted(x, v) \subseteq Bits(x) /\ Bits(x) \subseteq InFields
  BY ShiftedIn DEF InFields
<1>2. \A y \in Fields \ {x} : Bits(x) \cap Bits(y) = {}
  BY FieldsApart
<1>3. SetField(conf, x, v) = (conf \ Bits(x)) \cup Shifted(x, v)
  BY DEF SetField
<1> QED BY <1>1, <1>2, <1>3

\* What init() does to them: the setters that work set their fields.
LEMMA SetAllBits ==
  ASSUME NEW conf, NEW args, NEW done \in SUBSET (Fields \ {"single"})
  PROVE  /\ \A x \in done : SetAll(conf, args, done) \cap Bits(x) = Shifted(x, args[x])
         /\ \A x \in Fields \ done : SetAll(conf, args, done) \cap Bits(x) = conf \cap Bits(x)
         /\ SetAll(conf, args, done) \ InFields = conf \ InFields
<1> DEFINE SetIf(c, x) == IF x \in done THEN SetField(c, x, args[x]) ELSE c
           c1 == SetIf(conf, "channel")
           c2 == SetIf(c1, "rate")
           c3 == SetIf(c2, "compare")
           c4 == SetIf(c3, "range")
<1>1. SetAll(conf, args, done) = c4
  BY DEF SetAll
<1>2. \A c, x : x \in Fields =>
        /\ x \in done => SetIf(c, x) \cap Bits(x) = Shifted(x, args[x])
        /\ \A y \in Fields : y # x \/ x \notin done => SetIf(c, x) \cap Bits(y) = c \cap Bits(y)
        /\ SetIf(c, x) \ InFields = c \ InFields
  BY SetFieldBits
<1> HIDE DEF SetIf
<1>3. /\ c1 \ InFields = conf \ InFields /\ c2 \ InFields = c1 \ InFields
      /\ c3 \ InFields = c2 \ InFields /\ c4 \ InFields = c3 \ InFields
  BY <1>2, FieldNames
<1>4. ASSUME NEW x \in Fields \ done PROVE c4 \cap Bits(x) = conf \cap Bits(x)
  <2>1. /\ c1 \cap Bits(x) = conf \cap Bits(x) /\ c2 \cap Bits(x) = c1 \cap Bits(x)
        /\ c3 \cap Bits(x) = c2 \cap Bits(x) /\ c4 \cap Bits(x) = c3 \cap Bits(x)
    BY <1>2, <1>4, FieldNames
  <2> QED BY <2>1
<1>5. ASSUME NEW x \in done PROVE c4 \cap Bits(x) = Shifted(x, args[x])
  <2>1. CASE x = "channel"
    <3>1. /\ c1 \cap Bits(x) = Shifted(x, args[x]) /\ c2 \cap Bits(x) = c1 \cap Bits(x)
          /\ c3 \cap Bits(x) = c2 \cap Bits(x) /\ c4 \cap Bits(x) = c3 \cap Bits(x)
      BY <1>2, <1>5, <2>1, FieldNames
    <3> QED BY <3>1
  <2>2. CASE x = "rate"
    <3>1. /\ c2 \cap Bits(x) = Shifted(x, args[x])
          /\ c3 \cap Bits(x) = c2 \cap Bits(x) /\ c4 \cap Bits(x) = c3 \cap Bits(x)
      BY <1>2, <1>5, <2>2, FieldNames
    <3> QED BY <3>1
  <2>3. CASE x = "compare"
    <3>1. c3 \cap Bits(x) = Shifted(x, args[x]) /\ c4 \cap Bits(x) = c3 \cap Bits(x)
      BY <1>2, <1>5, <2>3, FieldNames
    <3> QED BY <3>1
  <2>4. CASE x = "range"
    BY <1>2, <1>5, <2>4, FieldNames
  <2> QED BY <2>1, <2>2, <2>3, <2>4, FieldNames
<1> HIDE DEF c1, c2, c3, c4
<1> QED BY <1>1, <1>3, <1>4, <1>5

\* Values of the fields when the power comes on.
LEMMA WideValues ==
  ASSUME NEW x \in {"channel", "range", "rate"}
  PROVE  LET at == Field[x][1]
         IN Shifted(x, 0) = {} /\ Shifted(x, 2) = {at + 1} /\ Shifted(x, 4) = {at + 2}
<1> DEFINE at == Field[x][1]
<1>1. at \in Nat /\ Bits(x) = at .. at + 2
  BY FieldWidth DEF Bits
<1>2. \A b \in Bits(x) : b = at \/ b = at + 1 \/ b = at + 2
  BY <1>1
<1>3. \A v : Shifted(x, v) \subseteq Bits(x)
  BY ShiftedIn, FieldNames
<1>4. \A v \in Int : /\ at \in Shifted(x, v) <=> v % 2 = 1
                     /\ at + 1 \in Shifted(x, v) <=> (v \div 2) % 2 = 1
                     /\ at + 2 \in Shifted(x, v) <=> (v \div 4) % 2 = 1
  BY ShiftedWide
<1> HIDE DEF at
<1>5. at \notin Shifted(x, 0) /\ at + 1 \notin Shifted(x, 0) /\ at + 2 \notin Shifted(x, 0)
  BY <1>4
<1>6. at \notin Shifted(x, 2) /\ at + 1 \in Shifted(x, 2) /\ at + 2 \notin Shifted(x, 2)
  BY <1>4
<1>7. at \notin Shifted(x, 4) /\ at + 1 \notin Shifted(x, 4) /\ at + 2 \in Shifted(x, 4)
  BY <1>4
<1> QED BY <1>2, <1>3, <1>5, <1>6, <1>7 DEF at

LEMMA NarrowValues ==
  ASSUME NEW x \in {"compare", "single"}
  PROVE  Shifted(x, 0) = {} /\ Shifted(x, 1) = {Field[x][1]}
<1> DEFINE at == Field[x][1]
<1>1. at \in Nat /\ Bits(x) = at .. at
  BY FieldWidth DEF Bits
<1>2. \A b \in Bits(x) : b = at
  BY <1>1
<1>3. \A v : Shifted(x, v) \subseteq Bits(x)
  BY ShiftedIn, FieldNames
<1>4. at \notin Shifted(x, 0) /\ at \in Shifted(x, 1)
  BY ShiftedNarrow
<1> HIDE DEF at
<1> QED BY <1>2, <1>3, <1>4 DEF at

LEMMA FieldsInit == ADCInit => FieldsInv
<1> SUFFICES ASSUME ADCInit PROVE FieldsInv
  OBVIOUS
<1>1. chip = PowerOn /\ asked = [x \in Fields |-> Value(PowerOn, x)] /\ missed = {}
  BY DEF ADCInit
<1>2. ASSUME NEW x \in Fields
      PROVE  \E v \in Fitting(x) : PowerOn \cap Bits(x) = Shifted(x, v)
  <2>1. CASE x \in {"channel", "range", "rate"}
    <3>1. Shifted(x, 0) = {} /\ Shifted(x, 2) = {Field[x][1] + 1} /\ Shifted(x, 4) = {Field[x][1] + 2}
      BY <2>1, WideValues
    <3>2. 0 \in Fitting(x) /\ 2 \in Fitting(x) /\ 4 \in Fitting(x)
      BY <2>1, FittingIs
    <3>3. /\ x = "channel" => PowerOn \cap Bits(x) = {}
          /\ x = "range" => PowerOn \cap Bits(x) = {Field[x][1] + 1}
          /\ x = "rate" => PowerOn \cap Bits(x) = {Field[x][1] + 2}
      BY FieldBits DEF PowerOn, Field
    <3> QED BY <2>1, <3>1, <3>2, <3>3
  <2>2. CASE x \in {"compare", "single"}
    <3>1. Shifted(x, 0) = {} /\ Shifted(x, 1) = {Field[x][1]}
      BY <2>2, NarrowValues
    <3>2. 0 \in Fitting(x) /\ 1 \in Fitting(x)
      BY <2>2, FittingIs
    <3>3. /\ x = "compare" => PowerOn \cap Bits(x) = {}
          /\ x = "single" => PowerOn \cap Bits(x) = {Field[x][1]}
      BY FieldBits DEF PowerOn, Field
    <3> QED BY <2>2, <3>1, <3>2, <3>3
  <2> QED BY <2>1, <2>2, FieldNames
<1>3. \A x \in Fields : asked[x] \in Fitting(x) /\ chip \cap Bits(x) = Shifted(x, asked[x])
  BY <1>1, <1>2, ValueIs
<1> QED BY <1>1, <1>3 DEF FieldsInv

LEMMA FieldSet ==
  ASSUME FieldsInv, NEW x \in Fields, NEW v \in Values[x], Set(x, v)
  PROVE  FieldsInv'
<1>1. v \in Fitting(x)
  BY ValuesFit
<1>2. asked' = [asked EXCEPT ![x] = v]
  BY DEF Set
<1>3. DOMAIN asked' = Fields /\ asked'[x] = v /\ \A y \in Fields \ {x} : asked'[y] = asked[y]
  BY <1>2 DEF FieldsInv
<1>4. \A y \in Fields : asked'[y] \in Fitting(y)
  BY <1>1, <1>3 DEF FieldsInv
<1>5. CASE chip' = SetField(chip, x, v) /\ missed' = missed \ {x}
  BY <1>3, <1>4, <1>5, SetFieldBits DEF FieldsInv
<1>6. CASE chip' = chip /\ missed' = missed \cup {x}
  BY <1>3, <1>4, <1>6 DEF FieldsInv
<1> QED BY <1>5, <1>6 DEF Set

LEMMA FieldsOpened ==
  ASSUME FieldsInv, NEW args \in Arguments, NEW done \in SUBSET (Fields \ {"single"}),
         ADCOpen(args, done) \/ ADCOpenFails(args)
  PROVE  FieldsInv'
<1>1. DOMAIN args = Fields \ {"single"} /\ \A x \in DOMAIN args : args[x] \in Fitting(x)
  BY ValuesFit DEF Arguments
<1>2. asked' = [x \in Fields |-> IF x = "single" THEN asked[x] ELSE args[x]]
  BY DEF ADCOpen, ADCOpenFails, Asked
<1>3. DOMAIN asked' = Fields /\ \A x \in Fields : asked'[x] \in Fitting(x)
  BY <1>1, <1>2 DEF FieldsInv
<1>4. CASE ADCOpen(args, done)
  <2>1. chip' = SetAll(chip, args, done)
        /\ missed' = (missed \ done) \cup (DOMAIN args \ done)
    BY <1>4 DEF ADCOpen
  <2>2. ASSUME NEW x \in Fields \ missed' PROVE chip' \cap Bits(x) = Shifted(x, asked'[x])
    <3>1. CASE x \in done
      BY <1>2, <2>1, <3>1, SetAllBits
    <3>2. CASE x \notin done
      <4>1. x = "single" /\ x \notin missed
        BY <1>1, <2>1, <2>2, <3>2
      <4>2. chip' \cap Bits(x) = chip \cap Bits(x)
        BY <2>1, <3>2, SetAllBits
      <4> QED BY <1>2, <2>2, <4>1, <4>2 DEF FieldsInv
    <3> QED BY <3>1, <3>2
  <2>3. chip' \ InFields = PowerOn \ InFields
    BY <2>1, SetAllBits DEF FieldsInv
  <2> QED BY <1>3, <2>2, <2>3 DEF FieldsInv
<1>5. CASE ADCOpenFails(args)
  <2>1. chip' = chip /\ missed' = missed \cup DOMAIN args
    BY <1>5 DEF ADCOpenFails
  <2>2. \A x \in Fields \ missed' : x \notin missed /\ asked'[x] = asked[x]
    BY <1>1, <1>2, <2>1
  <2> QED BY <1>3, <2>1, <2>2 DEF FieldsInv
<1> QED BY <1>4, <1>5

\* A field of the register that was not missed holds what was last asked for,
\* whatever other fields were set, and no other bit is ever written: the
\* read, mask and write of each setter (ADCDevice.cpp:67-155) reaches its own
\* field only, with a value that fits.
THEOREM FieldsAsAskedAlways == DevicesSpec => []FieldsAsAsked
<1>1. DevicesInit => FieldsInv
  BY FieldsInit DEF DevicesInit
<1>2. ASSUME FieldsInv, [DevicesNext]_devicesVars PROVE FieldsInv'
  <2>1. CASE UNCHANGED <<chip, asked, missed>>
    BY <1>2, <2>1 DEF FieldsInv
  <2>2. ASSUME NEW x \in Fields, ConverterSet(x) PROVE FieldsInv'
    BY <1>2, <2>2, FieldSet DEF ConverterSet
  <2>3. CASE ConverterOpen
    BY <1>2, <2>3, OpenedAs, FieldsOpened
  <2>4. CASE HandleCalls \/ SocketCalls \/ ConverterClose \/ ConverterRenewed
    BY <2>1, <2>4
    DEF HandleCalls, Handle, SocketCalls, ConverterClose, ADCClose, ConverterRenewed, ADCRenewed, adcVars
  <2>5. CASE \E get, works \in BOOLEAN : Pins(get, works)
    BY <2>1, <2>5 DEF Pins, adcVars
  <2>6. CASE UNCHANGED devicesVars
    BY <2>1, <2>6 DEF devicesVars, adcVars
  <2> QED BY <1>2, <2>2, <2>3, <2>4, <2>5, <2>6 DEF DevicesNext
<1> QED BY <1>1, <1>2, FieldsInvImplies, PTL DEF DevicesSpec

-----------------------------------------------------------------------------
(* The descriptors of the Sockets: which file a Socket is on, told by its  *)
(* Detail, and that no two Sockets share a Detail.                         *)

FileOn(w, x) == IF w.on[x] = 0 THEN 0 ELSE w.file[w.on[x]]

Apart(w) == \A x, y \in Sockets : x # y /\ w.on[x] # 0 => w.on[y] # w.on[x]

LEMMA UpTo == \A m, n \in Nat : (m # 0 => m <= n) => m \in 0 .. n
OBVIOUS

LEMMA OpenedIn == \A n \in {0} \cup Files : n \in Nat /\ 0 \in 0 .. n
BY Sets

LEMMA FileIs ==
  ASSUME NEW w, NEW b, NEW K, Good(w, b, K), NEW x \in Handles
  PROVE  /\ FileOn(w, x) = IF Get(w, x) = -1 THEN 0 ELSE w.table[Get(w, x)]
         /\ FileOn(w, x) \in 0 .. w.opened
         /\ FileOn(w, x) # 0 => /\ FileOn(w, x) \in Files
                                /\ \E n \in Numbers : w.table[n] = FileOn(w, x)
<1>1. /\ w.on[x] \in {0} \cup Details /\ w.opened \in {0} \cup Files
      /\ w.num \in [Details -> Numbers \cup {-1}] /\ w.file \in [Details -> {0} \cup Files]
  <2>1. w \in World
    BY DEF Good
  <2>2. w.on \in [Handles -> {0} \cup Details] /\ w.opened \in {0} \cup Files
    BY <2>1, WorldFields
  <2>3. w.num \in [Details -> Numbers \cup {-1}] /\ w.file \in [Details -> {0} \cup Files]
    BY <2>1, WorldFields
  <2>4. w.on[x] \in {0} \cup Details
    BY <2>2
  <2> QED BY <2>2, <2>3, <2>4
<1>2. CASE w.on[x] = 0
  <2>1. FileOn(w, x) = 0 /\ Get(w, x) = -1
    BY <1>2 DEF FileOn, Get
  <2> QED BY <1>1, <2>1, OpenedIn
<1>3. CASE w.on[x] # 0
  <2> DEFINE d == w.on[x]
  <2>1. d \in Details /\ FileOn(w, x) = w.file[d] /\ Get(w, x) = w.num[d]
    BY <1>1, <1>3 DEF FileOn, Get
  <2>2. /\ w.num[d] = -1 <=> w.file[d] = 0
        /\ w.num[d] # -1 => w.table[w.num[d]] = w.file[d] /\ w.num[d] \in Numbers
    BY <1>1, <2>1 DEF Good, Named
  <2>3. \A n \in Numbers : w.table[n] <= w.opened
    BY DEF Good, Opened
  <2>4. w.file[d] \in {0} \cup Files /\ Files \subseteq Nat
    BY <1>1, <2>1, Sets
  <2>5. FileOn(w, x) = IF Get(w, x) = -1 THEN 0 ELSE w.table[Get(w, x)]
    BY <2>1, <2>2
  <2>6. ASSUME FileOn(w, x) # 0 PROVE \E n \in Numbers : w.table[n] = FileOn(w, x)
    BY <2>1, <2>2, <2>6
  <2>7. FileOn(w, x) \in 0 .. w.opened
    <3>1. FileOn(w, x) \in {0} \cup Files
      BY <2>1, <2>4
    <3>2. FileOn(w, x) \in Nat
      BY <3>1, OpenedIn
    <3>3. FileOn(w, x) # 0 => FileOn(w, x) <= w.opened
      BY <2>3, <2>6
    <3>4. w.opened \in Nat
      BY <1>1, OpenedIn
    <3> QED BY <3>2, <3>3, <3>4, UpTo
  <2> QED BY <2>1, <2>4, <2>5, <2>6, <2>7
<1> QED BY <1>2, <1>3

LEMMA FilesApart ==
  ASSUME NEW w, NEW b, NEW K, Good(w, b, K), Apart(w), NEW x \in Sockets, NEW y \in Sockets \ {x},
         FileOn(w, x) # 0
  PROVE  FileOn(w, y) # FileOn(w, x)
<1>1. w.on[x] # 0 /\ FileOn(w, x) = w.file[w.on[x]] /\ w.on[y] # w.on[x]
  BY DEF FileOn, Apart
<1>2. w.on[x] \in {0} \cup Details /\ w.on[y] \in {0} \cup Details
  BY WorldFields, SocketAssumption DEF Good
<1>3. CASE w.on[y] = 0
  BY <1>3 DEF FileOn
<1>4. CASE w.on[y] # 0
  BY <1>1, <1>2, <1>4 DEF FileOn, Good, Named
<1> QED BY <1>3, <1>4

\* From w to v, Socket x is put on file f or on none, and of the others some
\* may have lost theirs.
Puts(w, v, x, f) ==
  /\ v.opened = w.opened
  /\ FileOn(v, x) \in {f, 0}
  /\ \A y \in Sockets \ {x} : FileOn(v, y) \in {FileOn(w, y), 0}
  /\ Apart(w) => Apart(v)

LEMMA ReleasedPuts ==
  ASSUME NEW w \in World, NEW v, NEW x \in Sockets, Releases(w, v),
         v.on = w.on \/ v.on = [w.on EXCEPT ![x] = 0]
  PROVE  Puts(w, v, x, FileOn(w, x))
<1>1. w.on \in [Handles -> {0} \cup Details] /\ Sockets \subseteq Handles
  BY WorldFields, SocketAssumption
<1>2. \A y \in Sockets : v.on[y] \in {w.on[y], 0} /\ w.on[y] \in {0} \cup Details
  BY <1>1
<1>3. \A y \in Sockets : FileOn(v, y) \in {FileOn(w, y), 0}
  BY <1>2 DEF FileOn, Releases
<1>4. Apart(w) => Apart(v)
  BY <1>2 DEF Apart
<1> QED BY <1>3, <1>4 DEF Puts, Releases

LEMMA CloseFdPuts ==
  ASSUME NEW w, NEW b, NEW K, Good(w, b, K), NEW x \in Sockets
  PROVE  Puts(w, CloseFd(w, x), x, 0)
<1> DEFINE v == CloseFd(w, x)
<1>1. x \in Handles /\ w \in World
  BY SocketAssumption DEF Good
<1>2. Releases(w, v) /\ v.on = w.on
  BY <1>1, CloseFdKeeps
<1>3. FileOn(v, x) = 0
  <2> DEFINE d == w.on[x]
  <2>1. d \in {0} \cup Details
    BY <1>1, WorldFields
  <2>2. CASE d = 0
    BY <1>2, <2>2 DEF FileOn
  <2>3. CASE d # 0 /\ w.num[d] = -1
    <3>1. v = w /\ w.file[d] = 0
      BY <2>1, <2>3 DEF CloseFd, Good, Named
    <3> QED BY <3>1 DEF FileOn
  <2>4. CASE d # 0 /\ w.num[d] # -1
    <3>1. v = ClosedNow(w, d)
      BY <2>4 DEF CloseFd, ClosedNow
    <3>2. w.file \in [Details -> {0} \cup Files] /\ d \in Details
      BY <1>1, <2>1, <2>4, WorldFields
    <3>3. ClosedNow(w, d).file = [w.file EXCEPT ![d] = 0]
      BY <3>2, Closed
    <3>4. v.file[d] = 0
      BY <3>1, <3>2, <3>3
    <3> QED BY <1>2, <3>4 DEF FileOn
  <2> QED BY <2>2, <2>3, <2>4
<1> HIDE DEF v
<1>4. Puts(w, v, x, FileOn(w, x))
  BY <1>1, <1>2, ReleasedPuts
<1>5. Puts(w, v, x, 0)
  BY <1>3, <1>4 DEF Puts
<1> QED BY <1>5 DEF v

LEMMA DroppedPuts ==
  ASSUME NEW w, NEW b, NEW K, Good(w, b, K), NEW x \in Sockets
  PROVE  Dropped(w, x).on = [w.on EXCEPT ![x] = 0] /\ Puts(w, Dropped(w, x), x, 0)
<1> DEFINE v == Dropped(w, x)
           u == CloseFd(w, x)
<1>1. x \in Handles /\ w \in World
  BY SocketAssumption DEF Good
<1>2. Good(u, b, K) /\ u.on = w.on
  BY <1>1, CloseFdKeeps
<1>3. v = Destroy(u, x)
  BY DEF Dropped
<1> HIDE DEF u
<1>4. v.on = [w.on EXCEPT ![x] = 0]
  BY <1>1, <1>2, <1>3, DestroyKeeps
<1>5. Releases(w, v)
  BY <1>1, DroppedKeeps
<1> HIDE DEF v
<1>6. Puts(w, v, x, FileOn(w, x))
  BY <1>1, <1>4, <1>5, ReleasedPuts
<1>7. v.on[x] = 0
  BY <1>1, <1>4, WorldFields
<1>8. FileOn(v, x) = 0
  BY <1>7 DEF FileOn
<1>9. Puts(w, v, x, 0)
  BY <1>6, <1>8 DEF Puts
<1> QED BY <1>4, <1>9 DEF v

\* A new Detail, on which no Socket was before.
LEMMA AttachedPuts ==
  ASSUME NEW w, NEW b, NEW K, Good(w, b, K), NEW u, Good(u, b, K), Releases(w, u),
         NEW x \in Sockets, u.on = [w.on EXCEPT ![x] = 0], NEW n, NEW d \in Free(u)
  PROVE  Puts(w, Attach(u, x, d, n), x, IF n = -1 THEN 0 ELSE u.table[n])
<1> DEFINE v == Attach(u, x, d, n)
           f == IF n = -1 THEN 0 ELSE u.table[n]
<1>1. /\ w \in World /\ u \in World /\ Sockets \subseteq Handles /\ d \in Details /\ d # 0
  BY SocketAssumption, Sets DEF Good, Free
<1>2. u.on \in [Handles -> {0} \cup Details] /\ u.file \in [Details -> {0} \cup Files]
  BY <1>1, WorldFields
<1>3. v.opened = u.opened /\ v.on = [u.on EXCEPT ![x] = d] /\ v.file = [u.file EXCEPT ![d] = f]
  BY <1>1, WorldFields DEF Attach
<1> HIDE DEF v, f
<1>4. Puts(w, u, x, FileOn(w, x))
  BY <1>1, ReleasedPuts
<1>5. \A y \in Sockets : u.on[y] # d
  <2> SUFFICES ASSUME NEW y \in Sockets, u.on[y] = d PROVE FALSE
    OBVIOUS
  <2> QED BY <1>1, OnCounted DEF Good
<1>6. v.on[x] = d /\ v.file[d] = f
  BY <1>1, <1>2, <1>3
<1>7. FileOn(v, x) = f
  BY <1>1, <1>6 DEF FileOn
<1>8. ASSUME NEW y \in Sockets \ {x} PROVE v.on[y] = u.on[y] /\ FileOn(v, y) = FileOn(u, y)
  <2>1. v.on[y] = u.on[y] /\ u.on[y] \in {0} \cup Details
    BY <1>1, <1>2, <1>3
  <2>2. u.on[y] # 0 => v.file[u.on[y]] = u.file[u.on[y]]
    BY <1>2, <1>3, <1>5, <2>1
  <2> QED BY <2>1, <2>2 DEF FileOn
<1>9. Apart(u) => Apart(v)
  BY <1>5, <1>6, <1>8 DEF Apart
<1>10. Puts(w, v, x, f)
  BY <1>3, <1>4, <1>7, <1>8, <1>9 DEF Puts
<1> QED BY <1>10 DEF v, f

-----------------------------------------------------------------------------
(* What the Sockets remember.  A connection in progress counts as one: it  *)
(* may be established at any moment.                                       *)

\* The address of a socket bound to one, or of one not connected.
Settled(s) ==
  /\ s.bound = "mine" => s.local = "mine"
  /\ s.at = "new" => s.local = Unconnected(s)

\* Object o tells the truth of s, after the calls m that mislead.
Truthful(o, s, m, x) ==
  /\ Settled(s)
  /\ o.local # "null" /\ <<"renewed", x>> \notin m /\ <<"again", x>> \notin m =>
       o.local \in {s.local, "any"}
  /\ s.at \in {"connecting", "established"} =>
       /\ o.local # "null" /\ o.remote # "null"
       /\ <<"checked", x>> \notin m => o.isConnected

\* What is unknown to any Socket has not been used yet.
SocketsTrue ==
  /\ Apart(fds)
  /\ \A f \in Files : f > fds.opened => net[f] = FreshSocket
  /\ \A x \in Sockets :
       sock[x].made /\ FileOn(fds, x) # 0 => Truthful(sock[x], net[FileOn(fds, x)], misled, x)

\* Where no Sockets are used there are none; a number that a Detail has is that
\* of its file, or of none after a theft.
SocketInv ==
  /\ users \in {{"fd"}, {"socket"}, {"adc"}, {"fd", "adc"}, {"fd", "gpio"}, {"socket", "adc"}}
  /\ \A x \in Sockets : File(x) \in {FileOn(fds, x), 0}
  /\ IF "socket" \in users THEN SocketsTrue ELSE \A x \in Sockets : ~sock[x].made

LEMMA SocketInvImplies == SocketInv => CachedIsTrue
<1> SUFFICES ASSUME SocketInv PROVE CachedIsTrue
  OBVIOUS
<1>1. \A x \in Sockets : IsOpen(x) =>
        Truthful(sock[x], net[File(x)], misled, x)
  BY DEF SocketInv, SocketsTrue, IsOpen
<1>2. RememberedIsTrue /\ ConnectedRemembers /\ EstablishedMaySend
  BY <1>1 DEF Truthful, RememberedIsTrue, ConnectedRemembers, EstablishedMaySend
<1> QED BY <1>2 DEF CachedIsTrue

LEMMA KernelKeeps ==
  ASSUME NEW w, NEW n
  PROVE  \A f \in Files :
           /\ Kernel(w, n)[f] \in {n[f], FreshSocket}
           /\ \A k \in Numbers : w.table[k] = f => Kernel(w, n)[f] = n[f]
BY DEF Kernel

\* A step that puts Socket x on file f, opened just now, or on none, the kernel's
\* other sockets being what they were.
LEMMA PutTrue ==
  ASSUME SocketsTrue, NEW K, Good(fds, bus, K), NEW b, NEW L, Good(fds', b, L),
         NEW w, w.on = fds.on, w.file = fds.file, w.opened \in {fds.opened, fds.opened + 1},
         NEW x \in Sockets, NEW f, f = 0 \/ f > fds.opened, Puts(w, fds', x, f),
         NEW n, net' = Kernel(fds', n), \A g \in Files \ {f} : n[g] = net[g],
         f # 0 => f = w.opened,
         \A y \in Sockets \ {x} : sock'[y] = sock[y],
         \A y \in Sockets \ {x}, why \in {"renewed", "checked", "again"} :
           <<why, y>> \in misled <=> <<why, y>> \in misled',
         sock'[x].made /\ f \in Files => Truthful(sock'[x], n[f], misled', x)
  PROVE  SocketsTrue'
<1>1. \A y \in Sockets : FileOn(w, y) = FileOn(fds, y)
  BY DEF FileOn
<1>2. /\ fds'.opened = w.opened /\ FileOn(fds', x) \in {f, 0}
      /\ \A y \in Sockets \ {x} : FileOn(fds', y) \in {FileOn(fds, y), 0}
  BY <1>1 DEF Puts
<1>3. Apart(fds')
  BY DEF Puts, Apart, SocketsTrue
<1>4. \A y \in Sockets : FileOn(fds', y) # 0 =>
        FileOn(fds', y) \in Files /\ net'[FileOn(fds', y)] = n[FileOn(fds', y)]
  BY FileIs, KernelKeeps, SocketAssumption
<1>5. fds.opened \in Nat
  BY WorldFields, OpenedIn DEF Good
<1>6. ASSUME NEW g \in Files, g > fds'.opened PROVE net'[g] = FreshSocket
  <2>1. g \in Nat /\ g > fds.opened /\ g # f
    BY <1>2, <1>5, <1>6, Sets
  <2>2. n[g] = FreshSocket
    BY <2>1 DEF SocketsTrue
  <2> QED BY <2>2, KernelKeeps
<1>7. ASSUME NEW y \in Sockets \ {x}, sock'[y].made, FileOn(fds', y) # 0
      PROVE  Truthful(sock'[y], net'[FileOn(fds', y)], misled', y)
  <2> DEFINE g == FileOn(fds, y)
  <2>1. FileOn(fds', y) = g /\ g # 0
    BY <1>2, <1>7
  <2>2. g \in Files /\ g \in 0 .. fds.opened
    BY <1>4, <1>7, <2>1, FileIs, SocketAssumption
  <2>3. g # f
    BY <1>5, <2>1, <2>2
  <2>4. net'[g] = net[g]
    BY <1>4, <1>7, <2>1, <2>2, <2>3
  <2>5. Truthful(sock[y], net[g], misled, y)
    BY <1>7, <2>1 DEF SocketsTrue
  <2> HIDE DEF g
  <2> QED BY <1>7, <2>1, <2>4, <2>5 DEF Truthful
<1>8. ASSUME sock'[x].made, FileOn(fds', x) # 0
      PROVE  Truthful(sock'[x], net'[FileOn(fds', x)], misled', x)
  BY <1>2, <1>4, <1>8
<1> QED BY <1>3, <1>6, <1>7, <1>8 DEF SocketsTrue

\* A step in which Socket x uses the kernel's, and no descriptor changes.
LEMMA UseTrue ==
  ASSUME SocketsTrue, NEW K, Good(fds, bus, K), fds' = fds, NEW x \in Sockets,
         \A g \in Files \ {FileOn(fds, x)} : net'[g] = net[g],
         \A y \in Sockets \ {x} : sock'[y] = sock[y],
         \A y \in Sockets \ {x}, why \in {"renewed", "checked", "again"} :
           <<why, y>> \in misled <=> <<why, y>> \in misled',
         sock'[x].made /\ FileOn(fds, x) \in Files =>
           Truthful(sock'[x], net'[FileOn(fds, x)], misled', x)
  PROVE  SocketsTrue'
<1>1. \A y \in Sockets : /\ FileOn(fds, y) \in 0 .. fds.opened
                         /\ FileOn(fds, y) # 0 => FileOn(fds, y) \in Files
  BY FileIs, SocketAssumption
<1>2. fds.opened \in Nat
  BY WorldFields, OpenedIn DEF Good
<1>3. ASSUME NEW g \in Files, g > fds.opened PROVE net'[g] = FreshSocket
  <2>1. g # FileOn(fds, x)
    BY <1>1, <1>2, <1>3, Sets
  <2> QED BY <1>3, <2>1 DEF SocketsTrue
<1>4. ASSUME NEW y \in Sockets \ {x}, sock'[y].made, FileOn(fds, y) # 0
      PROVE  Truthful(sock'[y], net'[FileOn(fds, y)], misled', y)
  <2>1. FileOn(fds, x) # FileOn(fds, y)
    BY <1>4, FilesApart DEF SocketsTrue
  <2>2. net'[FileOn(fds, y)] = net[FileOn(fds, y)]
    BY <1>1, <1>4, <2>1
  <2>3. Truthful(sock[y], net[FileOn(fds, y)], misled, y)
    BY <1>4 DEF SocketsTrue
  <2> QED BY <1>4, <2>2, <2>3 DEF Truthful
<1>5. \A y \in Sockets : sock'[y].made /\ FileOn(fds, y) # 0 =>
        Truthful(sock'[y], net'[FileOn(fds, y)], misled', y)
  BY <1>1, <1>4
<1> QED BY <1>3, <1>5 DEF SocketsTrue

-----------------------------------------------------------------------------
(* The calls.                                                              *)

LEMMA OthersMisled ==
  \A x : \A y \in Sockets \ {x}, why \in {"renewed", "checked", "again"} :
    <<why, y>> \in misled <=> <<why, y>> \in NotMisled(x)
BY DEF NotMisled

\* A Socket that lost its file.
LEMMA LostTrue ==
  ASSUME SocketsTrue, NEW K, Good(fds, bus, K), NEW b, NEW L, Good(fds', b, L),
         NEW x \in Sockets, Puts(fds, fds', x, 0), net' = Kernel(fds', net),
         \A y \in Sockets \ {x} : sock'[y] = sock[y], misled' \in {misled, NotMisled(x)}
  PROVE  SocketsTrue'
<1>1. 0 \notin Files
  BY Sets
<1>2. \A y \in Sockets \ {x}, why \in {"renewed", "checked", "again"} :
        <<why, y>> \in misled <=> <<why, y>> \in misled'
  BY OthersMisled
<1> QED BY <1>1, <1>2, PutTrue

\* A Socket made anew, Construct(Dropped(..)), or with a new descriptor,
\* AssignNew(..): it is on the file just opened.
LEMMA ReplacedPuts ==
  ASSUME NEW w, NEW b, NEW K, Good(w, b, K), NEW x \in Sockets, HasRoom(w), NEW n
  PROVE  LET u == Dropped(w, x)
             f == IF n = -1 THEN 0 ELSE u.table[n]
         IN Puts(w, Construct(u, x, n), x, f)
<1> DEFINE u == Dropped(w, x)
<1>1. x \in Handles /\ w \in World
  BY SocketAssumption DEF Good
<1>2. Good(u, b, K) /\ Releases(w, u) /\ u.on = [w.on EXCEPT ![x] = 0]
  BY <1>1, DroppedKeeps, DroppedPuts
<1>3. Min(Free(u)) \in Free(u)
  <2>1. u \in World /\ Free(w) # {}
    BY <1>2 DEF Good, HasRoom
  <2> QED BY <1>1, <1>2, <2>1, StaysFree, FreeIn
<1> HIDE DEF u
<1>4. Puts(w, Attach(u, x, Min(Free(u)), n), x, IF n = -1 THEN 0 ELSE u.table[n])
  BY <1>2, <1>3, AttachedPuts
<1> QED BY <1>4 DEF Construct, u

LEMMA RenewedPuts ==
  ASSUME NEW w, NEW b, NEW K, Good(w, b, K), NEW x \in Sockets, HasRoom(w), NEW n
  PROVE  LET u == Destroy(w, x)
             f == IF n = -1 THEN 0 ELSE u.table[n]
         IN Puts(w, AssignNew(w, x, n), x, f)
<1> DEFINE u == Destroy(w, x)
<1>1. x \in Handles /\ w \in World
  BY SocketAssumption DEF Good
<1>2. Good(u, b, K) /\ Releases(w, u) /\ u.on = [w.on EXCEPT ![x] = 0]
  BY <1>1, DestroyKeeps
<1>3. Min(Free(w)) \in Free(u)
  <2>1. u \in World /\ Free(w) # {}
    BY <1>2 DEF Good, HasRoom
  <2> QED BY <1>1, <1>2, <2>1, StaysFree, FreeIn
<1> HIDE DEF u
<1>4. Puts(w, Attach(u, x, Min(Free(w)), n), x, IF n = -1 THEN 0 ELSE u.table[n])
  BY <1>2, <1>3, AttachedPuts
<1> QED BY <1>4 DEF AssignNew, u

\* The file a new descriptor is for.
LEMMA NewFile ==
  ASSUME NEW K, Good(fds, bus, K), CanOpen(fds), NEW x \in Sockets
  PROVE  LET w == OpenFile(fds)
             n == NextNumber(fds)
         IN /\ \E L : Good(w, bus, L)
            /\ w.on = fds.on /\ w.file = fds.file /\ w.ref = fds.ref
            /\ w.opened = fds.opened + 1 /\ w.opened \in Files /\ n # -1
            /\ Dropped(w, x).table[n] = w.opened /\ Destroy(w, x).table[n] = w.opened
<1> DEFINE w == OpenFile(fds)
           n == NextNumber(fds)
           L == K \cup {w.opened}
<1>1. /\ Good(w, bus, L) /\ w.on = fds.on /\ w.ref = fds.ref /\ w.file = fds.file
      /\ w.opened = fds.opened + 1 /\ w.opened \in Files /\ n \in Numbers
      /\ Fresh(w, bus, n) /\ FilesOf(w, n) = {w.opened}
  BY OpenFileKeeps
<1> HIDE DEF w, n, L
<1>2. n # -1 /\ x \in Handles
  BY <1>1, Sets, SocketAssumption
<1>3. ASSUME NEW u, Good(u, bus, L), Releases(w, u) PROVE u.table[n] = w.opened
  <2>1. FilesOf(u, n) = {w.opened}
    BY <1>1, <1>3, StaysFresh DEF Good
  <2> QED BY <1>2, <2>1 DEF FilesOf
<1>4. Dropped(w, x).table[n] = w.opened /\ Destroy(w, x).table[n] = w.opened
  BY <1>1, <1>2, <1>3, DroppedKeeps, DestroyKeeps
<1> QED BY <1>1, <1>2, <1>4 DEF w, n, L

LEMMA FreshTrue ==
  ASSUME NEW o, NEW m, NEW x, o.local = "null" \/ <<"renewed", x>> \in m
  PROVE  Truthful(o, FreshSocket, m, x)
BY DEF Truthful, Settled, Unconnected, FreshSocket

LEMMA CreateTrue ==
  ASSUME SocketsTrue, SocketTypes, NEW K, Good(fds, bus, K), NEW b, NEW L, Good(fds', b, L),
         NEW x \in Sockets, CreateSocket(x)
  PROVE  SocketsTrue'
<1> DEFINE o == [FreshObject EXCEPT !.isConnected = TRUE]
<1>1. /\ HasRoom(fds) /\ sock' = [sock EXCEPT ![x] = o] /\ net' = Kernel(fds', net)
      /\ misled' = NotMisled(x)
  BY DEF CreateSocket
<1>2. o.local = "null"
  BY DEF FreshObject, NoObject
<1> HIDE DEF o
<1>3. sock'[x] = o /\ \A y \in Sockets \ {x} : sock'[y] = sock[y]
  BY <1>1 DEF SocketTypes
<1>4. \A y \in Sockets \ {x}, why \in {"renewed", "checked", "again"} :
        <<why, y>> \in misled <=> <<why, y>> \in misled'
  BY <1>1, OthersMisled
<1>5. CASE CanOpen(fds) /\ fds' = Construct(Dropped(OpenFile(fds), x), x, NextNumber(fds))
  <2> DEFINE w == OpenFile(fds)
             n == NextNumber(fds)
             f == w.opened
  <2>1. /\ w.on = fds.on /\ w.file = fds.file /\ w.ref = fds.ref /\ n # -1
        /\ f = fds.opened + 1 /\ f \in Files /\ Dropped(w, x).table[n] = f
    BY <1>5, NewFile
  <2>2. PICK J : Good(w, bus, J)
    BY <1>5, NewFile
  <2>3. fds' = Construct(Dropped(w, x), x, n)
    BY <1>5
  <2> HIDE DEF w, n
  <2>4. HasRoom(w)
    BY <1>1, <2>1 DEF HasRoom, Free
  <2>5. Puts(w, fds', x, f)
    BY <2>1, <2>2, <2>3, <2>4, ReplacedPuts
  <2> HIDE DEF f
  <2>6. f > fds.opened /\ w.opened = f
    <3>1. fds.opened \in Nat
      BY WorldFields, OpenedIn DEF Good
    <3> QED BY <2>1, <3>1 DEF f
  <2>7. net[f] = FreshSocket
    BY <2>1, <2>6 DEF SocketsTrue
  <2>8. Truthful(sock'[x], net[f], misled', x)
    BY <1>2, <1>3, <2>7, FreshTrue
  <2> QED BY <1>1, <1>3, <1>4, <2>1, <2>5, <2>6, <2>8, PutTrue
<1>6. CASE fds' = Construct(Dropped(fds, x), x, -1)
  <2>1. Puts(fds, fds', x, 0)
    BY <1>1, <1>6, ReplacedPuts
  <2> QED BY <1>1, <1>3, <2>1, LostTrue
<1> QED BY <1>5, <1>6 DEF CreateSocket

LEMMA NewTrue ==
  ASSUME SocketsTrue, SocketTypes, NEW K, Good(fds, bus, K), NEW b, NEW L, Good(fds', b, L),
         NEW x \in Sockets, NewSocket(x)
  PROVE  SocketsTrue'
<1>1. /\ HasRoom(fds) /\ sock' = sock /\ net' = Kernel(fds', net)
      /\ misled' = IF sock[x].local # "null" THEN misled \cup {<<"renewed", x>>} ELSE misled
  BY DEF NewSocket
<1>2. \A y \in Sockets \ {x}, why \in {"renewed", "checked", "again"} :
        <<why, y>> \in misled <=> <<why, y>> \in misled'
  BY <1>1
<1>3. sock'[x].local = "null" \/ <<"renewed", x>> \in misled'
  BY <1>1
<1>4. CASE CanOpen(fds) /\ fds' = AssignNew(OpenFile(fds), x, NextNumber(fds))
  <2> DEFINE w == OpenFile(fds)
             n == NextNumber(fds)
             f == w.opened
  <2>1. /\ w.on = fds.on /\ w.file = fds.file /\ w.ref = fds.ref /\ n # -1
        /\ f = fds.opened + 1 /\ f \in Files /\ Destroy(w, x).table[n] = f
    BY <1>4, NewFile
  <2>2. PICK J : Good(w, bus, J)
    BY <1>4, NewFile
  <2>3. fds' = AssignNew(w, x, n)
    BY <1>4
  <2> HIDE DEF w, n
  <2>4. HasRoom(w)
    BY <1>1, <2>1 DEF HasRoom, Free
  <2>5. Puts(w, fds', x, f)
    BY <2>1, <2>2, <2>3, <2>4, RenewedPuts
  <2> HIDE DEF f
  <2>6. f > fds.opened /\ w.opened = f
    <3>1. fds.opened \in Nat
      BY WorldFields, OpenedIn DEF Good
    <3> QED BY <2>1, <3>1 DEF f
  <2>7. net[f] = FreshSocket
    BY <2>1, <2>6 DEF SocketsTrue
  <2>8. Truthful(sock'[x], net[f], misled', x)
    BY <1>3, <2>7, FreshTrue
  <2> QED BY <1>1, <1>2, <2>1, <2>5, <2>6, <2>8, PutTrue
<1>5. CASE fds' = AssignNew(fds, x, -1)
  <2>1. Puts(fds, fds', x, 0)
    BY <1>1, <1>5, RenewedPuts
  <2>2. 0 \notin Files
    BY Sets
  <2> QED BY <1>1, <1>2, <2>1, <2>2, PutTrue
<1> QED BY <1>4, <1>5 DEF NewSocket

\* accept() into x: both addresses are remembered, and true.
LEMMA AcceptTrue ==
  ASSUME SocketsTrue, SocketTypes, NEW K, Good(fds, bus, K), NEW b, NEW L, Good(fds', b, L),
         NEW x \in Sockets, NEW y \in Sockets, Accept(y, x)
  PROVE  SocketsTrue'
<1>0. PICK address \in {"mine", "other"} : AcceptAt(y, x, address)
  BY AcceptedAt
<1> DEFINE s == Accepted(address)
           o == Remember([FreshObject EXCEPT !.isConnected = TRUE], s)
<1>1. HasRoom(fds) /\ misled' = NotMisled(x)
  BY <1>0 DEF AcceptAt
<1>2. Truthful(o, s, misled', x)
  <2>1. s.local = address /\ s.peer = "peer" /\ s.bound = "null" /\ s.at = "established"
    BY DEF Accepted, FreshSocket
  <2>2. o.local = address /\ o.remote = "peer" /\ o.isConnected
    BY <2>1 DEF FreshObject, NoObject, Remember, Local, Remote
  <2> HIDE DEF s, o
  <2> QED BY <1>0, <2>1, <2>2 DEF Truthful, Settled
<1>3. \A z \in Sockets \ {x}, why \in {"renewed", "checked", "again"} :
        <<why, z>> \in misled <=> <<why, z>> \in misled'
  BY <1>1, OthersMisled
<1>4. CASE fds' = Dropped(fds, x) /\ sock' = [sock EXCEPT ![x] = NoObject] /\ net' = Kernel(fds', net)
  <2>1. Puts(fds, fds', x, 0)
    BY <1>4, DroppedPuts
  <2>2. \A z \in Sockets \ {x} : sock'[z] = sock[z]
    BY <1>4 DEF SocketTypes
  <2> QED BY <1>1, <1>4, <2>1, <2>2, LostTrue
<1>5. CASE /\ CanOpen(fds) /\ fds' = Construct(Dropped(OpenFile(fds), x), x, NextNumber(fds))
           /\ net' = Kernel(fds', [net EXCEPT ![OpenFile(fds).opened] = s])
           /\ sock' = [sock EXCEPT ![x] = o]
  <2> DEFINE w == OpenFile(fds)
             n == NextNumber(fds)
             f == w.opened
             k == [net EXCEPT ![f] = s]
  <2>1. /\ w.on = fds.on /\ w.file = fds.file /\ w.ref = fds.ref /\ n # -1
        /\ f = fds.opened + 1 /\ f \in Files /\ Dropped(w, x).table[n] = f
    BY <1>5, NewFile
  <2>2. PICK J : Good(w, bus, J)
    BY <1>5, NewFile
  <2>3. fds' = Construct(Dropped(w, x), x, n) /\ net' = Kernel(fds', k)
    BY <1>5
  <2> HIDE DEF w, n, s, o
  <2>4. sock'[x] = o /\ \A z \in Sockets \ {x} : sock'[z] = sock[z]
    BY <1>5 DEF SocketTypes
  <2>5. k[f] = s /\ \A g \in Files \ {f} : k[g] = net[g]
    BY <2>1 DEF SocketTypes
  <2>6. HasRoom(w)
    BY <1>1, <2>1 DEF HasRoom, Free
  <2>7. Puts(w, fds', x, f)
    BY <2>1, <2>2, <2>3, <2>6, ReplacedPuts
  <2> HIDE DEF f, k
  <2>8. f > fds.opened /\ w.opened = f
    <3>1. fds.opened \in Nat
      BY WorldFields, OpenedIn DEF Good
    <3> QED BY <2>1, <3>1 DEF f
  <2>9. Truthful(sock'[x], k[f], misled', x)
    BY <1>2, <2>4, <2>5
  <2> QED BY <1>3, <2>1, <2>3, <2>4, <2>5, <2>7, <2>8, <2>9, PutTrue
<1> QED BY <1>0, <1>4, <1>5 DEF AcceptAt

LEMMA FileKnown ==
  ASSUME NEW K, Good(fds, bus, K), NEW x \in Sockets
  PROVE  File(x) = FileOn(fds, x)
BY FileIs, SocketAssumption DEF File

LEMMA DropTrue ==
  ASSUME SocketsTrue, SocketTypes, NEW K, Good(fds, bus, K), NEW b, NEW L, Good(fds', b, L),
         NEW x \in Sockets, DropSocket(x) \/ CloseSocket(x) \/ Refused(x)
  PROVE  SocketsTrue'
<1>1. Puts(fds, fds', x, 0)
  <2>1. fds' = Dropped(fds, x) \/ fds' = CloseFd(fds, x)
    BY DEF DropSocket, CloseSocket, Refused
  <2>2. Puts(fds, Dropped(fds, x), x, 0) /\ Puts(fds, CloseFd(fds, x), x, 0)
    BY DroppedPuts, CloseFdPuts
  <2> QED BY <2>1, <2>2
<1>2. net' = Kernel(fds', net) /\ misled' \in {misled, NotMisled(x)}
  BY DEF DropSocket, CloseSocket, Refused
<1>3. \A y \in Sockets \ {x} : sock'[y] = sock[y]
  BY DEF DropSocket, CloseSocket, Refused, SocketTypes
<1> QED BY <1>1, <1>2, <1>3, LostTrue

\* bind(): an address remembered too early stays, and can only be the wildcard.
LEMMA BindTrue ==
  ASSUME SocketsTrue, SocketTypes, NEW K, Good(fds, bus, K), NEW x \in Sockets,
         NEW address \in {"any", "mine"}, Bind(x, address), ~Refused(x)
  PROVE  SocketsTrue'
<1> DEFINE f == FileOn(fds, x)
           s == [net[f] EXCEPT !.local = address, !.bound = address]
           o == [sock[x] EXCEPT !.local = Local(sock[x], s)]
<1>1. /\ sock[x].made /\ f # 0 /\ net[f].at = "new" /\ net[f].bound = "null"
      /\ net' = [net EXCEPT ![f] = s] /\ sock' = [sock EXCEPT ![x] = o]
      /\ fds' = fds /\ misled' = misled
  BY FileKnown DEF Bind, IsOpen
<1>2. f \in Files
  BY <1>1, FileIs, SocketAssumption
<1>3. Truthful(sock[x], net[f], misled, x)
  BY <1>1 DEF SocketsTrue
<1>4. Truthful(o, s, misled, x)
  <2>1. sock[x] \in Objects /\ net[f] \in KernelSockets
    BY <1>2 DEF SocketTypes
  <2>2. s.at = "new" /\ s.local = address /\ s.bound = address
    BY <1>1, <2>1 DEF KernelSockets
  <2>3. o.local = IF sock[x].local # "null" THEN sock[x].local ELSE address
    BY <2>1, <2>2 DEF Objects, Local
  <2>4. sock[x].local # "null" /\ <<"renewed", x>> \notin misled /\ <<"again", x>> \notin misled =>
          sock[x].local = "any"
    BY <1>1, <1>3 DEF Truthful, Settled, Unconnected
  <2>5. Settled(s)
    BY <2>2 DEF Settled, Unconnected
  <2> HIDE DEF o, s
  <2> QED BY <2>2, <2>3, <2>4, <2>5 DEF Truthful
<1> HIDE DEF f, s, o
<1>5. net'[f] = s /\ \A g \in Files \ {f} : net'[g] = net[g]
  BY <1>1, <1>2 DEF SocketTypes
<1>6. sock'[x] = o /\ \A y \in Sockets \ {x} : sock'[y] = sock[y]
  BY <1>1 DEF SocketTypes
<1> QED BY <1>1, <1>4, <1>5, <1>6, UseTrue DEF f

LEMMA ListenTrue ==
  ASSUME SocketsTrue, SocketTypes, NEW K, Good(fds, bus, K), NEW x \in Sockets,
         Listen(x), ~Refused(x)
  PROVE  SocketsTrue'
<1> DEFINE f == FileOn(fds, x)
           s == [net[f] EXCEPT !.at = "listening"]
<1>1. /\ sock[x].made /\ f # 0 /\ net' = [net EXCEPT ![f] = s]
      /\ fds' = fds /\ misled' = misled /\ sock' = sock
  BY FileKnown DEF Listen, IsOpen
<1>2. f \in Files
  BY <1>1, FileIs, SocketAssumption
<1>3. s.local = net[f].local /\ s.bound = net[f].bound /\ s.at = "listening"
  BY <1>2 DEF SocketTypes, KernelSockets
<1>4. Truthful(sock[x], net[f], misled, x)
  BY <1>1 DEF SocketsTrue
<1> HIDE DEF f, s
<1>5. Truthful(sock[x], s, misled, x)
  BY <1>3, <1>4 DEF Truthful, Settled
<1>6. net'[f] = s /\ \A g \in Files \ {f} : net'[g] = net[g]
  BY <1>1, <1>2 DEF SocketTypes
<1> QED BY <1>1, <1>5, <1>6, UseTrue DEF f

\* What Remember() leaves of an object.
LEMMA Remembered ==
  ASSUME NEW o \in Objects, NEW s \in KernelSockets
  PROVE  LET q == Remember(o, s)
         IN /\ q.local = (IF o.local # "null" THEN o.local ELSE s.local)
            /\ q.remote = (IF o.remote # "null" THEN o.remote ELSE s.peer)
            /\ q.isConnected = o.isConnected /\ q.made = o.made /\ q.local # "null"
BY DEF Remember, Local, Remote, Objects, KernelSockets

LEMMA StillTruthful ==
  ASSUME NEW o \in Objects, NEW s \in KernelSockets, NEW m, NEW x, Truthful(o, s, m, x)
  PROVE  Truthful(Remember(o, s), s, m, x)
<1> DEFINE q == Remember(o, s)
<1>1. /\ q.local = (IF o.local # "null" THEN o.local ELSE s.local)
      /\ q.remote = (IF o.remote # "null" THEN o.remote ELSE s.peer)
      /\ q.isConnected = o.isConnected
  BY Remembered
<1> HIDE DEF q
<1>2. Truthful(q, s, m, x)
  BY <1>1 DEF Truthful
<1> QED BY <1>2 DEF q

\* connect(): an address remembered before is the wildcard, or the one the socket
\* is bound to; of a failed attempt the kernel keeps none, and the object is misled.
LEMMA ConnectTrue ==
  ASSUME SocketsTrue, SocketTypes, NEW K, Good(fds, bus, K), NEW x \in Sockets, Connect(x)
  PROVE  SocketsTrue'
<1> DEFINE f == FileOn(fds, x)
           o == [sock[x] EXCEPT !.remote = "peer", !.isConnected = TRUE]
<1>1. sock[x].made /\ fds' = fds /\ File(x) = f /\ (IsOpen(x) <=> f # 0)
  BY FileKnown DEF Connect, IsOpen
<1>2. f # 0 => f \in Files /\ net[f] \in KernelSockets /\ Truthful(sock[x], net[f], misled, x)
  BY <1>1, FileIs, SocketAssumption DEF SocketsTrue, SocketTypes
<1>3. sock[x] \in Objects
  BY DEF SocketTypes
<1>4. o \in Objects /\ o.local = sock[x].local /\ o.remote = "peer" /\ o.isConnected
  BY <1>3 DEF Objects, Addresses
<1>5. 0 \notin Files
  BY Sets
<1> HIDE DEF f, o
<1>6. ASSUME NEW s \in KernelSockets, f # 0, net' = [net EXCEPT ![f] = s],
             sock' = [sock EXCEPT ![x] = Remember(o, s)],
             misled' \in {misled, misled \cup {<<"again", x>>}}, Settled(s),
             o.local # "null" /\ <<"renewed", x>> \notin misled' /\ <<"again", x>> \notin misled' =>
               o.local \in {s.local, "any"}
      PROVE  SocketsTrue'
  <2>1. /\ Remember(o, s).local = (IF o.local # "null" THEN o.local ELSE s.local)
        /\ Remember(o, s).local # "null" /\ Remember(o, s).remote = "peer" /\ Remember(o, s).isConnected
    BY <1>4, Remembered
  <2>2. Truthful(Remember(o, s), s, misled', x)
    BY <1>6, <2>1 DEF Truthful
  <2>3. net'[f] = s /\ \A g \in Files \ {f} : net'[g] = net[g]
    BY <1>2, <1>6 DEF SocketTypes
  <2>4. sock'[x] = Remember(o, s) /\ \A y \in Sockets \ {x} : sock'[y] = sock[y]
    BY <1>6 DEF SocketTypes
  <2>5. \A y \in Sockets \ {x}, why \in {"renewed", "checked", "again"} :
          <<why, y>> \in misled <=> <<why, y>> \in misled'
    BY <1>6
  <2> QED BY <1>1, <2>2, <2>3, <2>4, <2>5, UseTrue DEF f
<1>7. CASE f = 0 /\ sock' = [sock EXCEPT ![x] = o] /\ UNCHANGED <<net, misled>>
  <2>1. \A y \in Sockets \ {x} : sock'[y] = sock[y]
    BY <1>7 DEF SocketTypes
  <2> QED BY <1>1, <1>5, <1>7, <2>1, UseTrue DEF f
<1>8. ASSUME f # 0, net[f].at = "new", misled' = misled, NEW address \in Chosen(net[f]),
             net' = [net EXCEPT ![f] = [net[f] EXCEPT !.local = address, !.at = "connecting"]],
             sock' = [sock EXCEPT ![x] =
                        Remember(o, [net[f] EXCEPT !.local = address, !.at = "connecting"])]
      PROVE  SocketsTrue'
  <2> DEFINE s == [net[f] EXCEPT !.local = address, !.at = "connecting"]
  <2>1. address \in (IF net[f].bound = "mine" THEN {"mine"} ELSE {"mine", "other"})
    BY <1>8 DEF Chosen
  <2>2. s \in KernelSockets /\ s.local = address /\ s.bound = net[f].bound /\ s.at = "connecting"
    BY <1>2, <1>8, <2>1 DEF KernelSockets
  <2>3. net' = [net EXCEPT ![f] = s] /\ sock' = [sock EXCEPT ![x] = Remember(o, s)]
    BY <1>8
  <2> HIDE DEF s
  <2>4. Settled(s)
    BY <2>1, <2>2 DEF Settled
  <2>5. o.local # "null" /\ <<"renewed", x>> \notin misled /\ <<"again", x>> \notin misled =>
          o.local \in {s.local, "any"}
    BY <1>2, <1>4, <1>8, <2>1, <2>2 DEF Truthful, Settled, Unconnected
  <2> QED BY <1>6, <1>8, <2>2, <2>3, <2>4, <2>5
<1>9. ASSUME f # 0, net' = [net EXCEPT ![f] = Ended(net[f])],
             sock' = [sock EXCEPT ![x] = Remember(o, Ended(net[f]))],
             misled' = IF Forgets(o, net[f]) THEN misled \cup {<<"again", x>>} ELSE misled
      PROVE  SocketsTrue'
  <2> DEFINE s == Ended(net[f])
  <2>1. /\ s \in KernelSockets /\ s.bound = net[f].bound
        /\ net[f].at = "failed" => s.local = Unconnected(net[f]) /\ s.at = "new"
        /\ net[f].at # "failed" => s = net[f]
    BY <1>2, <1>9 DEF Ended, Unconnected, KernelSockets
  <2>2. net' = [net EXCEPT ![f] = s] /\ sock' = [sock EXCEPT ![x] = Remember(o, s)]
    BY <1>9
  <2> HIDE DEF s
  <2>3. Settled(s)
    BY <1>2, <1>9, <2>1 DEF Truthful, Settled, Unconnected
  <2>4. misled' \in {misled, misled \cup {<<"again", x>>}}
    BY <1>9
  <2>5. o.local # "null" /\ <<"renewed", x>> \notin misled' /\ <<"again", x>> \notin misled' =>
          o.local \in {s.local, "any"}
    <3>1. CASE net[f].at = "failed" /\ net[f].bound # "mine"
      BY <1>9, <3>1 DEF Forgets
    <3>2. CASE ~(net[f].at = "failed" /\ net[f].bound # "mine")
      <4>1. s.local = net[f].local
        BY <1>2, <1>9, <2>1, <3>2 DEF Truthful, Settled, Unconnected
      <4> QED BY <1>2, <1>4, <1>9, <2>4, <4>1 DEF Truthful
    <3> QED BY <3>1, <3>2
  <2> QED BY <1>6, <1>9, <2>1, <2>2, <2>3, <2>4, <2>5
<1> QED BY <1>1, <1>7, <1>8, <1>9 DEF Connect, Connected, o

\* A connection is made, refused or lost by the network only.
LEMMA NetworkTrue ==
  ASSUME SocketsTrue, SocketTypes, NEW K, Good(fds, bus, K), NEW f \in Files, Network(f)
  PROVE  SocketsTrue'
<1>1. UNCHANGED <<fds, sock, misled>>
  BY DEF Network
<1>2. PICK to \in {"established", "failed", "dead"} :
        /\ net[f].at = IF to = "dead" THEN "established" ELSE "connecting"
        /\ net' = [net EXCEPT ![f].at = to, ![f].peer = IF to = "established" THEN "peer" ELSE "null"]
  BY DEF Network
<1>3. net'[f].local = net[f].local /\ net'[f].bound = net[f].bound /\ net'[f].at = to
      /\ \A g \in Files \ {f} : net'[g] = net[g]
  BY <1>2 DEF SocketTypes, KernelSockets
<1>4. net[f] # FreshSocket
  BY <1>2 DEF FreshSocket
<1>5. \A g \in Files : g > fds.opened => net'[g] = FreshSocket
  BY <1>3, <1>4 DEF SocketsTrue
<1>6. ASSUME NEW x \in Sockets, sock[x].made, FileOn(fds, x) # 0
      PROVE  Truthful(sock[x], net'[FileOn(fds, x)], misled, x)
  <2>1. FileOn(fds, x) \in Files
    BY <1>6, FileIs, SocketAssumption
  <2>2. Truthful(sock[x], net[FileOn(fds, x)], misled, x)
    BY <1>6 DEF SocketsTrue
  <2>3. CASE FileOn(fds, x) = f
    BY <1>2, <1>3, <2>2, <2>3 DEF Truthful, Settled
  <2>4. CASE FileOn(fds, x) # f
    BY <1>3, <2>1, <2>2, <2>4
  <2> QED BY <2>3, <2>4
<1> QED BY <1>1, <1>5, <1>6 DEF SocketsTrue

LEMMA AskTrue ==
  ASSUME SocketsTrue, SocketTypes, NEW K, Good(fds, bus, K), NEW x \in Sockets,
         CheckConnected(x) \/ AskAddresses(x) \/ IsSelfConnect(x)
  PROVE  SocketsTrue'
<1> DEFINE f == FileOn(fds, x)
<1>1. fds' = fds /\ net' = net /\ sock[x].made /\ (IsOpen(x) <=> f # 0) /\ File(x) = f
  BY FileKnown DEF CheckConnected, AskAddresses, IsSelfConnect, IsOpen
<1>2. 0 \notin Files /\ sock[x] \in Objects
  BY Sets DEF SocketTypes
<1>3. f \in Files => net[f] \in KernelSockets /\ Truthful(sock[x], net[f], misled, x)
  BY <1>1, <1>2 DEF SocketsTrue, SocketTypes
<1> HIDE DEF f
<1>4. CASE CheckConnected(x)
  <2>1. PICK yes \in BOOLEAN :
          /\ f # 0 => yes = (net[f].at = "established")
          /\ sock' = [sock EXCEPT ![x].isConnected = yes]
          /\ misled' = IF yes THEN misled ELSE misled \cup {<<"checked", x>>}
    BY <1>1, <1>4 DEF CheckConnected
  <2>2. /\ sock'[x].local = sock[x].local /\ sock'[x].remote = sock[x].remote
        /\ sock'[x].isConnected = yes /\ \A y \in Sockets \ {x} : sock'[y] = sock[y]
    BY <1>2, <2>1 DEF SocketTypes, Objects
  <2>3. /\ <<"renewed", x>> \in misled <=> <<"renewed", x>> \in misled'
        /\ <<"again", x>> \in misled <=> <<"again", x>> \in misled'
        /\ ~yes => <<"checked", x>> \in misled'
        /\ \A y \in Sockets \ {x}, why \in {"renewed", "checked", "again"} :
             <<why, y>> \in misled <=> <<why, y>> \in misled'
    BY <2>1
  <2>4. f \in Files => Truthful(sock'[x], net[f], misled', x)
    BY <1>3, <2>2, <2>3 DEF Truthful
  <2> QED BY <1>1, <2>2, <2>3, <2>4, UseTrue DEF f
<1>5. CASE AskAddresses(x) \/ IsSelfConnect(x)
  <2>1. misled' = misled /\ sock' = [sock EXCEPT ![x] = IF f # 0 THEN Remember(sock[x], net[f]) ELSE sock[x]]
    BY <1>1, <1>5 DEF AskAddresses, IsSelfConnect
  <2>2. /\ sock'[x] = IF f # 0 THEN Remember(sock[x], net[f]) ELSE sock[x]
        /\ \A y \in Sockets \ {x} : sock'[y] = sock[y]
    BY <2>1 DEF SocketTypes
  <2>3. f \in Files => Truthful(sock'[x], net[f], misled', x)
    BY <1>2, <1>3, <2>1, <2>2, StillTruthful
  <2> QED BY <1>1, <2>1, <2>2, <2>3, UseTrue DEF f
<1> QED BY <1>4, <1>5

LEMMA CallsTrue ==
  ASSUME SocketsTrue, SocketTypes, NEW K, Good(fds, bus, K), NEW b, NEW L, Good(fds', b, L),
         SocketCalls
  PROVE  SocketsTrue'
<1>1. Own \in Sockets /\ Active \subseteq Sockets
  BY SocketAssumption DEF Own, Active
<1>2. CASE CreateSocket(Own) \/ NewSocket(Own) \/ \E y \in Active : Accept(Own, y)
  BY <1>1, <1>2, CreateTrue, NewTrue, AcceptTrue
<1>3. CASE Refused(Own) \/ \E x \in Active : DropSocket(x) \/ CloseSocket(x)
  BY <1>1, <1>3, DropTrue
<1>4. CASE Listen(Own) \/ Connect(Own)
  BY <1>1, <1>3, <1>4, ListenTrue, ConnectTrue
<1>5. CASE \E address \in {"any", "mine"} : Bind(Own, address)
  BY <1>1, <1>3, <1>5, BindTrue
<1>6. CASE \E f \in Files : Network(f)
  BY <1>6, NetworkTrue
<1>7. CASE \E x \in Active : CheckConnected(x) \/ AskAddresses(x) \/ IsSelfConnect(x)
  BY <1>1, <1>7, AskTrue
<1> QED BY <1>2, <1>3, <1>4, <1>5, <1>6, <1>7 DEF SocketCalls

-----------------------------------------------------------------------------
(* The invariant over all the classes.  Beside Sockets only the converter  *)
(* works, and it opens a file that no Socket has.                          *)

LEMMA SocketInvInit == DevicesInit => SocketInv
<1> SUFFICES ASSUME DevicesInit PROVE SocketInv
  OBVIOUS
<1>1. /\ users \in {{"fd"}, {"socket"}, {"adc"}, {"fd", "adc"}, {"fd", "gpio"}, {"socket", "adc"}}
      /\ fds = NewWorld /\ sock = [x \in Sockets |-> NoObject] /\ net = [f \in Files |-> FreshSocket]
  BY DEF DevicesInit, SocketInit
<1>2. Sockets \subseteq Handles /\ fds.on = [h \in Handles |-> 0]
  BY <1>1, SocketAssumption DEF NewWorld
<1>3. \A x \in Sockets : FileOn(fds, x) = 0 /\ File(x) = 0 /\ ~sock[x].made /\ fds.on[x] = 0
  BY <1>1, <1>2 DEF FileOn, File, Get, NoObject
<1>4. SocketsTrue
  BY <1>1, <1>3 DEF SocketsTrue, Apart
<1> QED BY <1>1, <1>3, <1>4 DEF SocketInv

\* The files of the Sockets are known again after a step that is no theft.
LEMMA KnownAgain ==
  ASSUME DevicesInv', thefts' = {}
  PROVE  \A x \in Sockets : File(x)' = FileOn(fds', x)
<1>1. Good(fds', bus', (leaked \cup {bus})')
  BY DEF DevicesInv, Good
<1> QED BY <1>1, FileIs, SocketAssumption DEF File

LEMMA OpeningTrue ==
  ASSUME DevicesInv, thefts = {}, SocketsTrue, ConverterOpen
  PROVE  SocketsTrue'
<1>1. UNCHANGED <<sock, net, misled>>
  BY DEF ConverterOpen, socketVars
<1>2. fds' = fds \/ (CanOpen(fds) /\ fds' = OpenFile(fds))
  BY OpenedAs DEF ADCOpen, ADCOpenFails
<1>3. Good(fds, bus, leaked \cup {bus})
  BY InvSound DEF Sound
<1>4. fds'.on = fds.on /\ fds'.file = fds.file /\ fds'.opened \in {fds.opened, fds.opened + 1}
  BY <1>2, <1>3, OpenFileKeeps
<1>5. \A x \in Sockets : FileOn(fds', x) = FileOn(fds, x)
  BY <1>4 DEF FileOn
<1>6. fds.opened \in Nat
  BY <1>3, WorldFields, OpenedIn DEF Good
<1>7. \A f \in Files : f > fds'.opened => f > fds.opened
  BY <1>4, <1>6, Sets
<1> QED BY <1>1, <1>4, <1>5, <1>7 DEF SocketsTrue, Apart

\* Closing, of what it holds or of what it does not, opens nothing.
LEMMA ClosingKeeps ==
  ASSUME DevicesInv, thefts = {}, SocketInv, ConverterClose
  PROVE  SocketInv'
<1>1. UNCHANGED <<sock, net, misled, users>>
  BY DEF ConverterClose, socketVars
<1>2. fds' = CloseNumber(fds, adcFd)
  BY DEF ConverterClose, ADCClose
<1>3. fds \in World /\ Sockets \subseteq Handles /\ adcFd \in Numbers \cup {-1}
  BY SocketAssumption DEF DevicesInv, OtherTypes
<1>4. /\ fds'.on = fds.on /\ fds'.file = fds.file /\ fds'.num = fds.num /\ fds'.opened = fds.opened
      /\ \A n \in Numbers : fds'.table[n] \in {fds.table[n], 0}
  <2>1. CASE adcFd = -1
    BY <1>2, <2>1 DEF CloseNumber
  <2>2. CASE adcFd # -1
    <3>1. fds' = [fds EXCEPT !.table[adcFd] = 0] /\ fds.table \in [Numbers -> {0} \cup Files]
      BY <1>2, <1>3, <2>2, WorldFields DEF CloseNumber
    <3>2. fds'.table = [fds.table EXCEPT ![adcFd] = 0]
      BY <1>3, <3>1, WorldFields
    <3>3. fds'.on = fds.on /\ fds'.file = fds.file /\ fds'.num = fds.num /\ fds'.opened = fds.opened
      BY <1>3, <3>1, WorldFields
    <3> QED BY <3>1, <3>2, <3>3
  <2> QED BY <2>1, <2>2
<1>5. ASSUME NEW x \in Sockets
      PROVE  FileOn(fds', x) = FileOn(fds, x) /\ File(x)' \in {File(x), 0}
  <2>1. FileOn(fds', x) = FileOn(fds, x) /\ Get(fds', x) = Get(fds, x)
    BY <1>4 DEF FileOn, Get
  <2>2. Get(fds, x) \in Numbers \cup {-1}
    BY <1>3, WorldFields DEF Get
  <2>3. Get(fds, x) # -1 => fds'.table[Get(fds, x)] \in {fds.table[Get(fds, x)], 0}
    BY <1>4, <2>2
  <2> QED BY <2>1, <2>3 DEF File
<1>6. SocketsTrue => SocketsTrue'
  BY <1>1, <1>4, <1>5 DEF SocketsTrue, Apart
<1> QED BY <1>1, <1>5, <1>6 DEF SocketInv

LEMMA SocketInvNext == DevicesInv /\ SocketInv /\ [DevicesNext]_devicesVars => SocketInv'
<1> SUFFICES ASSUME DevicesInv, SocketInv, [DevicesNext]_devicesVars PROVE SocketInv'
  OBVIOUS
<1>1. CASE UNCHANGED devicesVars
  BY <1>1 DEF devicesVars, socketVars, SocketInv, SocketsTrue, File
<1>2. CASE DevicesNext
  <2>1. thefts = {} /\ DevicesInv'
    BY <1>2, InvNext DEF DevicesNext
  <2>2. CASE ConverterClose
    BY <2>1, <2>2, ClosingKeeps
  <2>3. CASE ~ConverterClose
    <3>1. thefts' = {} /\ users' = users
      BY <1>2, <2>1, <2>3
      DEF DevicesNext, HandleCalls, Handle, SocketCalls, ConverterOpen,
          ConverterRenewed, ConverterSet, Pins, ghostVars
    <3>2. \A x \in Sockets : File(x)' \in {FileOn(fds', x), 0}
      BY <2>1, <3>1, KnownAgain
    <3>3. CASE "socket" \in users
      <4>1. SocketsTrue /\ "fd" \notin users /\ "gpio" \notin users
        BY <3>3 DEF SocketInv
      <4>2. SocketCalls \/ ConverterOpen \/ UNCHANGED <<fds, sock, net, misled>>
        BY <1>2, <2>3, <4>1
        DEF DevicesNext, HandleCalls, ConverterRenewed, ADCRenewed,
            ConverterSet, Set, Pins, socketVars
      <4>3. CASE SocketCalls
        <5>1. SocketTypes /\ Good(fds, bus, leaked \cup {bus})
          BY <2>1, InvSound DEF DevicesInv, OtherTypes, SocketTypes, Sound
        <5>2. Good(fds', bus', (leaked \cup {bus})')
          BY <2>1, <3>1 DEF DevicesInv, Good
        <5> QED BY <3>1, <3>2, <3>3, <4>1, <4>3, <5>1, <5>2, CallsTrue DEF SocketInv
      <4>4. CASE ConverterOpen
        BY <2>1, <3>1, <3>2, <3>3, <4>1, <4>4, OpeningTrue DEF SocketInv
      <4>5. CASE UNCHANGED <<fds, sock, net, misled>>
        BY <3>1, <3>2, <3>3, <4>1, <4>5 DEF SocketInv, SocketsTrue
      <4> QED BY <4>2, <4>3, <4>4, <4>5
    <3>4. CASE "socket" \notin users
      <4>1. sock' = sock
        BY <1>2, <2>3, <3>4
        DEF DevicesNext, HandleCalls, Handle, SocketCalls, ConverterOpen,
            ConverterRenewed, ConverterSet, Pins, socketVars
      <4> QED BY <3>1, <3>2, <3>4, <4>1 DEF SocketInv
    <3> QED BY <3>3, <3>4
  <2> QED BY <2>2, <2>3
<1> QED BY <1>1, <1>2

\* What a Socket remembers of the kernel's socket is true: its local address, the
\* two addresses that isSelfConnect() takes for granted, and that it is
\* connected when send() asks; but for the calls known to mislead it, newSocket()
\* on a used object, connect() after a failed attempt, and checkConnected() asked
\* too early.
THEOREM CachedIsTrueAlways == DevicesSpec => []CachedIsTrue
<1>1. DevicesInv /\ SocketInv /\ [DevicesNext]_devicesVars => (DevicesInv /\ SocketInv)'
  BY InvNext, SocketInvNext
<1>2. DevicesSpec => [](DevicesInv /\ SocketInv)
  BY <1>1, InvInit, SocketInvInit, PTL DEF DevicesSpec
<1> QED BY <1>2, SocketInvImplies, PTL
=============================================================================
