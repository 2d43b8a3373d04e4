--------------------------------- MODULE Fd ---------------------------------
(***************************************************************************)
(* Class Fd, a counted handle on a descriptor, together with the kernel's  *)
(* table of open descriptors.  Both are one record, and every member       *)
(* function an operator from records to records.  An open file is named by *)
(* the number of its opening, so that a descriptor used again is told from *)
(* what it was before; 0 is no file, and no Detail.                        *)
(***************************************************************************)
EXTENDS Integers, FiniteSets, FiniteSetsExt

CONSTANTS Handles,   \* objects of class Fd
          Top,       \* bound: descriptors 0 .. Top
          MaxOpens,  \* bound: openings
          MaxRefs    \* bound: ref_count

ASSUME FdAssumption ==
  /\ IsFiniteSet(Handles) /\ Top \in Nat
  /\ MaxOpens \in Nat \ {0} /\ MaxRefs \in Nat \ {0}

VARIABLE fds      \* the descriptors of the process

Numbers == 0 .. Top

Files == 1 .. MaxOpens

Details == 1 .. MaxOpens + 1

World ==
  [ table  : [Numbers -> {0} \cup Files],    \* the kernel: number to file
    opened : {0} \cup Files,                 \* the last opening
    on     : [Handles -> {0} \cup Details],  \* Fd::detail_
    ref    : [Details -> 0 .. MaxRefs],      \* ref_count; 0: no such object
    num    : [Details -> Numbers \cup {-1}], \* Detail::fd
    file   : [Details -> {0} \cup Files],    \* the file fd was opened for
    lost   : [Details -> 0 .. MaxRefs] ]     \* references no handle gives back

NewWorld ==
  [ table |-> [n \in Numbers |-> 0], opened |-> 0, on |-> [h \in Handles |-> 0],
    ref |-> [d \in Details |-> 0], num |-> [d \in Details |-> -1],
    file |-> [d \in Details |-> 0], lost |-> [d \in Details |-> 0] ]

-----------------------------------------------------------------------------
(* The kernel: the lowest free number is used.                             *)

Unused(w) == {n \in Numbers : w.table[n] = 0}

CanOpen(w) == Unused(w) # {} /\ w.opened < MaxOpens

NextNumber(w) == Min(Unused(w))

OpenFile(w) ==
  [w EXCEPT !.table[NextNumber(w)] = w.opened + 1, !.opened = @ + 1]

CloseNumber(w, n) == IF n = -1 THEN w ELSE [w EXCEPT !.table[n] = 0]

-----------------------------------------------------------------------------
(* Class Fd.                                                               *)

Free(w) == {d \in Details : w.ref[d] = 0}

\* A new Detail d of number n, which h is on from now on.
Attach(w, h, d, n) ==
  [w EXCEPT !.on[h] = d, !.ref[d] = 1, !.num[d] = n,
            !.file[d] = IF n = -1 THEN 0 ELSE w.table[n]]

\* The constructor from a number, -1 included.
Construct(w, h, n) == Attach(w, h, Min(Free(w)), n)

\* The destructor; reset() hands the Detail to a temporary and destroys that.
Destroy(w, h) ==
  LET d == w.on[h]
      x == [w EXCEPT !.on[h] = 0, !.ref[d] = @ - 1]
  IN IF d = 0 THEN w
     ELSE IF w.ref[d] > 1 THEN x
     ELSE [CloseNumber(x, w.num[d]) EXCEPT !.num[d] = -1, !.file[d] = 0]

\* Mutant: what h was on is not released.
AssignOver(w, h, n) == Construct(w, h, n)

\* h = Fd(n): the temporary has its Detail before h lets its own go.
AssignNew(w, h, n) == Attach(Destroy(w, h), h, Min(Free(w)), n)

\* Mutant: the reference is not counted.
CopyUncounted(w, h, g) == [w EXCEPT !.on[h] = w.on[g]]

\* The copy constructor, of a handle that holds nothing.
CopyConstruct(w, h, g) ==
  IF w.on[g] = 0 THEN w ELSE [w EXCEPT !.on[h] = w.on[g], !.ref[w.on[g]] = @ + 1]

\* Copy assignment: what h was on keeps its count.
CopyAssign(w, h, g) ==
  IF w.on[g] = 0 \/ h = g THEN w
  ELSE LET x == IF w.on[h] = 0 THEN w ELSE [w EXCEPT !.lost[w.on[h]] = @ + 1]
       IN CopyConstruct(x, h, g)

Swap(w, h, g) == [w EXCEPT !.on[h] = w.on[g], !.on[g] = w.on[h]]

\* Move assignment: reset() and swap().
MoveAssign(w, h, g) == IF h = g THEN w ELSE Swap(Destroy(w, h), h, g)

\* Mutant: the number stays in the Detail.
CloseKeepsNumber(w, h) ==
  LET d == w.on[h]
  IN IF d = 0 \/ w.num[d] = -1 THEN w ELSE CloseNumber(w, w.num[d])

\* close(), whatever other handles there are: they see -1 from now on.
CloseFd(w, h) ==
  LET d == w.on[h]
  IN IF d = 0 \/ w.num[d] = -1 THEN w
     ELSE [CloseNumber(w, w.num[d]) EXCEPT !.num[d] = -1, !.file[d] = 0]

Get(w, h) == IF w.on[h] = 0 THEN -1 ELSE w.num[w.on[h]]

\* Open(): without a file, no Detail either; the old one is released last.
Open(w, h) ==
  LET x == OpenFile(w)
  IN IF CanOpen(w) THEN AssignNew(x, h, NextNumber(w)) ELSE Destroy(w, h)

\* There is room for another reference, or another Detail (bounds).
HasRoom(w) == Free(w) # {} /\ \A d \in Details : w.ref[d] < MaxRefs
=============================================================================
