------------------------- MODULE PackageOrderProofs -------------------------
(***************************************************************************)
(* Theorems about PackageOrder, for every class path: what is undefined in *)
(* the rotation of java/lang is not met, parents are declared first, what  *)
(* is written is in order, and each method of each class has a function of *)
(* its name, and none a second.                                            *)
(*                                                                         *)
(* The inductive invariant IInv says of each list what it has and in which *)
(* order: the packages of an Ordinary class path are sorted and, once the  *)
(* two rotations and the partition are done, in groups; a class is in one  *)
(* of the packages; a file has the text of its class.  The sorts and the   *)
(* binary searches are those of ListProofs; a rotation or a partition is   *)
(* described by the place each member was at before it.                    *)
(***************************************************************************)
EXTENDS PackageOrder, ListProofs

-----------------------------------------------------------------------------
(* Strings *)

String == Seq(Nat)

LEMMA StringLength ==
  ASSUME NEW a \in String
  PROVE  Len(a) \in Nat
  BY DEF String

(* The strings differ first at k, and a is the less there. *)
BelowAt(a, b, k) ==
  /\ k \in 1..Len(a) /\ k \in 1..Len(b) /\ a[k] < b[k]
  /\ \A j \in 1..k - 1 : a[j] = b[j]
Below(a, b) == \E k \in Nat : BelowAt(a, b, k)

(* Every character of a is that of b at its place. *)
Begins(a, b) == Len(a) <= Len(b) /\ \A j \in 1..Len(a) : a[j] = b[j]

LEMMA PrefixIs ==
  ASSUME NEW a \in String, NEW b \in String
  PROVE  /\ IsPrefix(a, b) <=> Begins(a, b)
         /\ IsStrictPrefix(a, b) <=> Begins(a, b) /\ Len(a) < Len(b)
<1> USE DEF String
<1>1. ASSUME Len(a) <= Len(b)
      PROVE  SubSeq(a, 1, Len(a)) = a /\ SubSeq(b, 1, Len(a)) \in Seq(Nat)
             /\ Len(SubSeq(b, 1, Len(a))) = Len(a)
             /\ \A j \in 1..Len(a) : SubSeq(b, 1, Len(a))[j] = b[j]
  BY <1>1
<1>2. IsPrefix(a, b) => Begins(a, b)
  BY <1>1 DEF IsPrefix, Begins
<1>3. Begins(a, b) => IsPrefix(a, b)
  <2> SUFFICES ASSUME Begins(a, b) PROVE SubSeq(a, 1, Len(a)) = SubSeq(b, 1, Len(a))
    BY DEF IsPrefix, Begins
  <2> DEFINE c == SubSeq(b, 1, Len(a))
  <2>1. Len(a) = Len(c) /\ c \in Seq(Nat) /\ \A j \in 1..Len(a) : a[j] = c[j]
    BY <1>1 DEF Begins
  <2> HIDE DEF c
  <2>2. a = c
    BY <2>1, SeqEqual
  <2> QED
    BY <1>1, <2>2 DEF Begins, c
<1>4. Begins(a, b) /\ Len(a) = Len(b) => a = b
  <2> SUFFICES ASSUME Begins(a, b), Len(a) = Len(b) PROVE a = b
    OBVIOUS
  <2>1. \A j \in 1..Len(a) : a[j] = b[j]
    BY DEF Begins
  <2> QED
    BY <2>1, SeqEqual
<1> QED
  BY <1>2, <1>3, <1>4 DEF IsStrictPrefix, Begins

LEMMA BeforeIs ==
  ASSUME NEW a \in String, NEW b \in String
  PROVE  StringBefore(a, b) <=> Below(a, b) \/ (Begins(a, b) /\ Len(a) < Len(b))
<1> USE DEF String
<1> DEFINE n == IF Len(a) <= Len(b) THEN Len(a) ELSE Len(b)
           common == 1..Min({Len(a), Len(b)})
<1>1. common = 1..n
  <2>1. Min({Len(a), Len(b)}) = n
    BY MinOfTwo, SMTT(30)
  <2> QED
    BY <2>1, Zenon
<1> HIDE DEF common
<1>2. StringBefore(a, b) <=>
        \/ \E i \in 1..n : a[i] < b[i] /\ \A j \in 1..i - 1 : ~(a[j] < b[j]) /\ ~(b[j] < a[j])
        \/ Len(a) < Len(b) /\ \A i \in 1..n : ~(a[i] < b[i]) /\ ~(b[i] < a[i])
  BY <1>1, Zenon DEF StringBefore, Lexicographic, Number, common
<1>3. \A i \in 1..n : a[i] \in Nat /\ b[i] \in Nat
  OBVIOUS
<1>4. ASSUME NEW i \in 1..n, a[i] < b[i],
             \A j \in 1..i - 1 : ~(a[j] < b[j]) /\ ~(b[j] < a[j])
      PROVE  Below(a, b)
  <2>1. \A j \in 1..i - 1 : j \in 1..n
    OBVIOUS
  <2>2. \A j \in 1..i - 1 : a[j] = b[j]
    BY <1>3, <1>4, <2>1, SMTT(30)
  <2>3. i \in 1..Len(a) /\ i \in 1..Len(b) /\ i \in Nat
    OBVIOUS
  <2>4. BelowAt(a, b, i)
    BY <1>4, <2>2, <2>3 DEF BelowAt
  <2> QED
    BY <2>3, <2>4 DEF Below
<1>5. Len(a) < Len(b) /\ (\A i \in 1..n : ~(a[i] < b[i]) /\ ~(b[i] < a[i])) =>
        Begins(a, b) /\ Len(a) < Len(b)
  <2> SUFFICES ASSUME Len(a) < Len(b), \A i \in 1..n : ~(a[i] < b[i]) /\ ~(b[i] < a[i])
               PROVE  Begins(a, b)
    OBVIOUS
  <2>1. n = Len(a)
    OBVIOUS
  <2>2. \A i \in 1..n : a[i] = b[i]
    BY <1>3
  <2> QED
    BY <2>1, <2>2 DEF Begins
<1>6. ASSUME Below(a, b)
      PROVE  \E i \in 1..n : a[i] < b[i] /\ \A j \in 1..i - 1 : ~(a[j] < b[j]) /\ ~(b[j] < a[j])
  <2>1. PICK k \in Nat : BelowAt(a, b, k)
    BY <1>6 DEF Below
  <2>2. k \in 1..n /\ \A j \in 1..k - 1 : j \in 1..n
    BY <2>1 DEF BelowAt
  <2>3. \A j \in 1..k - 1 : a[j] = b[j] /\ a[j] \in Nat
    BY <1>3, <2>1, <2>2 DEF BelowAt
  <2>4. \A j \in 1..k - 1 : ~(a[j] < b[j]) /\ ~(b[j] < a[j])
    BY <2>3
  <2> QED
    BY <2>1, <2>2, <2>4 DEF BelowAt
<1>7. ASSUME Begins(a, b) PROVE \A i \in 1..n : ~(a[i] < b[i]) /\ ~(b[i] < a[i])
  BY <1>3, <1>7 DEF Begins
<1> QED
  BY <1>2, <1>4, <1>5, <1>6, <1>7

LEMMA PrefixedIs ==
  ASSUME NEW a \in String, NEW b \in String
  PROVE  Prefixed(a, b) <=> Below(a, b)
<1> USE DEF String
<1> DEFINE n == IF Len(a) <= Len(b) THEN Len(a) ELSE Len(b)
           c == SubSeq(a, 1, n)
           d == SubSeq(b, 1, n)
<1>1. Min({Len(a), Len(b)}) = n
  BY MinOfTwo, SMTT(30)
<1>2. Prefixed(a, b) <=> StringBefore(c, d)
  BY <1>1, Zenon DEF Prefixed
<1>3. /\ c \in Seq(Nat) /\ d \in Seq(Nat) /\ Len(c) = n /\ Len(d) = n /\ n \in Nat
      /\ \A j \in 1..n : c[j] = a[j] /\ d[j] = b[j]
      /\ n <= Len(a) /\ n <= Len(b) /\ \A k \in Nat : k <= Len(a) /\ k <= Len(b) => k <= n
  BY SMTT(30)
<1> HIDE DEF n, c, d
<1>4. Prefixed(a, b) <=> Below(c, d)
  BY <1>2, <1>3, BeforeIs
<1>5. ASSUME NEW k \in Nat PROVE BelowAt(a, b, k) <=> BelowAt(c, d, k)
  <2>1. k \in 1..Len(a) /\ k \in 1..Len(b) <=> k \in 1..n
    BY <1>3
  <2>2. k \in 1..n => \A j \in 1..k - 1 : j \in 1..n
    BY <1>3
  <2> QED
    BY <1>3, <2>1, <2>2 DEF BelowAt
<1> QED
  BY <1>4, <1>5 DEF Below

(* Of two strings one is below the other, or one begins with the other. *)
LEMMA Compared ==
  ASSUME NEW a \in String, NEW b \in String
  PROVE  Below(a, b) \/ Below(b, a) \/ Begins(a, b) \/ Begins(b, a)
<1> USE DEF String
<1> DEFINE n == IF Len(a) <= Len(b) THEN Len(a) ELSE Len(b)
           differ == {k \in 1..n : a[k] # b[k]}
<1>1. CASE differ = {}
  <2>1. \A k \in 1..n : a[k] = b[k]
    BY <1>1
  <2> QED
    BY <2>1 DEF Begins
<1>2. CASE differ # {}
  <2>1. differ \in SUBSET Nat
    OBVIOUS
  <2>2. PICK k \in differ : \A j \in differ : k <= j
    BY <1>2, <2>1, LeastNumber
  <2>3. k \in 1..n /\ a[k] # b[k] /\ a[k] \in Nat /\ b[k] \in Nat
        /\ k \in 1..Len(a) /\ k \in 1..Len(b) /\ k \in Nat
    OBVIOUS
  <2>4. \A j \in 1..k - 1 : a[j] = b[j]
    <3> SUFFICES ASSUME NEW j \in 1..k - 1, a[j] # b[j] PROVE FALSE
      OBVIOUS
    <3>1. j \in differ /\ ~(k <= j)
      BY <2>3
    <3> QED
      BY <2>2, <3>1
  <2>5. a[k] < b[k] \/ b[k] < a[k]
    BY <2>3
  <2>6. BelowAt(a, b, k) \/ BelowAt(b, a, k)
    BY <2>3, <2>4, <2>5 DEF BelowAt
  <2> HIDE DEF differ
  <2> QED
    BY <2>3, <2>6 DEF Below
<1> QED
  BY <1>1, <1>2

LEMMA CharIs ==
  ASSUME NEW a \in String, NEW k \in 1..Len(a)
  PROVE  a[k] \in Nat
  BY DEF String

LEMMA BelowIs ==
  ASSUME NEW a \in String, NEW b \in String, NEW c \in String
  PROVE  /\ Below(a, b) => ~Below(b, a) /\ ~Begins(a, b) /\ ~Begins(b, a)
         /\ Below(a, b) /\ Below(b, c) => Below(a, c)
         /\ Below(a, b) /\ Begins(b, c) => Below(a, c)
         /\ Begins(a, b) /\ Below(a, c) => Below(b, c)
         /\ Begins(a, b) /\ Below(c, a) => Below(c, b)
         /\ Begins(a, b) /\ Begins(b, c) => Begins(a, c)
         /\ Begins(a, b) /\ Below(b, c) => Below(a, c) \/ Begins(a, c)
         /\ Begins(a, b) /\ Below(c, b) => Below(c, a) \/ Begins(a, c)
         /\ Begins(a, c) /\ Begins(b, c) => Begins(a, b) \/ Begins(b, a)
         /\ Begins(a, b) /\ Begins(b, a) => a = b
<1> USE DEF String
<1>1. ASSUME Below(a, b) PROVE ~Below(b, a) /\ ~Begins(a, b) /\ ~Begins(b, a)
  <2>1. PICK k \in Nat : BelowAt(a, b, k)
    BY <1>1 DEF Below
  <2>2. a[k] \in Nat /\ b[k] \in Nat /\ a[k] < b[k]
    BY <2>1 DEF BelowAt
  <2>3. ~Begins(a, b) /\ ~Begins(b, a)
    BY <2>1, <2>2 DEF Begins, BelowAt
  <2>4. ASSUME NEW l \in Nat, BelowAt(b, a, l) PROVE FALSE
    <3>1. l \in 1..k - 1 \/ k \in 1..l - 1 \/ k = l
      BY <2>1, <2>4 DEF BelowAt
    <3>2. b[l] \in Nat /\ a[l] \in Nat /\ b[l] < a[l]
      BY <2>4 DEF BelowAt
    <3>3. (l \in 1..k - 1 => a[l] = b[l]) /\ (k \in 1..l - 1 => a[k] = b[k])
      BY <2>1, <2>4 DEF BelowAt
    <3> QED
      BY <2>2, <3>1, <3>2, <3>3, SMTT(30)
  <2> QED
    BY <2>3, <2>4 DEF Below
<1>2. ASSUME NEW k \in Nat, NEW l \in Nat, BelowAt(a, b, k), BelowAt(b, c, l)
      PROVE  BelowAt(a, c, IF k <= l THEN k ELSE l)
  <2>1. /\ k \in 1..Len(a) /\ k \in 1..Len(b) /\ a[k] < b[k]
        /\ l \in 1..Len(b) /\ l \in 1..Len(c) /\ b[l] < c[l]
    BY <1>2 DEF BelowAt
  <2>2. a[k] \in Nat /\ b[k] \in Nat /\ b[l] \in Nat /\ c[l] \in Nat
    BY <2>1, CharIs DEF String
  <2>3. \A j \in 1..k - 1 : a[j] = b[j]
    BY <1>2 DEF BelowAt
  <2>4. \A j \in 1..l - 1 : b[j] = c[j]
    BY <1>2 DEF BelowAt
  <2>5. CASE k < l
    <3>1. k \in 1..l - 1 /\ k \in 1..Len(c) /\ \A j \in 1..k - 1 : j \in 1..l - 1
      BY <2>1, <2>5
    <3>2. b[k] = c[k] /\ \A j \in 1..k - 1 : a[j] = c[j]
      BY <2>3, <2>4, <3>1
    <3>3. BelowAt(a, c, k)
      BY <2>1, <3>1, <3>2, Zenon DEF BelowAt
    <3> QED
      BY <2>5, <3>3
  <2>6. CASE l < k
    <3>1. l \in 1..k - 1 /\ l \in 1..Len(a) /\ \A j \in 1..l - 1 : j \in 1..k - 1
      BY <2>1, <2>6
    <3>2. a[l] < c[l] /\ \A j \in 1..l - 1 : a[j] = c[j]
      BY <2>1, <2>3, <2>4, <3>1
    <3>3. BelowAt(a, c, l)
      BY <2>1, <3>1, <3>2, Zenon DEF BelowAt
    <3> QED
      BY <2>6, <3>3
  <2>7. CASE k = l
    <3>1. k \in 1..Len(c) /\ b[k] < c[k] /\ c[k] \in Nat /\ \A j \in 1..k - 1 : b[j] = c[j]
      BY <2>1, <2>2, <2>4, <2>7
    <3>2. a[k] < c[k]
      <4>1. a[k] < b[k] /\ b[k] < c[k] /\ a[k] \in Nat /\ b[k] \in Nat /\ c[k] \in Nat
        BY <2>1, <2>2, <3>1, Zenon
      <4> QED
        BY <4>1
    <3>3. BelowAt(a, c, k)
      BY <2>1, <2>3, <3>1, <3>2, Zenon DEF BelowAt
    <3> QED
      BY <2>7, <3>3
  <2> QED
    BY <2>5, <2>6, <2>7
<1>3. ASSUME NEW k \in Nat
      PROVE  /\ BelowAt(a, b, k) /\ Begins(b, c) => BelowAt(a, c, k)
             /\ Begins(a, b) /\ BelowAt(a, c, k) => BelowAt(b, c, k)
             /\ Begins(a, b) /\ BelowAt(c, a, k) => BelowAt(c, b, k)
  <2>1. k \in 1..Len(b) => \A j \in 1..k - 1 : j \in 1..Len(b)
    OBVIOUS
  <2>2. k \in 1..Len(a) => \A j \in 1..k - 1 : j \in 1..Len(a)
    OBVIOUS
  <2>3. BelowAt(a, b, k) /\ Begins(b, c) => BelowAt(a, c, k)
    BY <2>1 DEF BelowAt, Begins
  <2>4. Begins(a, b) /\ BelowAt(a, c, k) => BelowAt(b, c, k)
    BY <2>2 DEF BelowAt, Begins
  <2>5. Begins(a, b) /\ BelowAt(c, a, k) => BelowAt(c, b, k)
    BY <2>2 DEF BelowAt, Begins
  <2> QED
    BY <2>3, <2>4, <2>5
<1>4. Begins(a, b) /\ Begins(b, c) => Begins(a, c)
  BY DEF Begins
<1>5. ASSUME Begins(a, b), NEW l \in Nat
      PROVE  /\ BelowAt(b, c, l) => BelowAt(a, c, l) \/ Begins(a, c)
             /\ BelowAt(c, b, l) => BelowAt(c, a, l) \/ Begins(a, c)
  <2>1. CASE l <= Len(a)
    <3>1. l \in 1..Len(b) => l \in 1..Len(a) /\ \A j \in 1..l - 1 : j \in 1..Len(a)
      BY <2>1
    <3>2. BelowAt(b, c, l) => BelowAt(a, c, l)
      BY <1>5, <3>1 DEF BelowAt, Begins
    <3>3. BelowAt(c, b, l) => BelowAt(c, a, l)
      BY <1>5, <3>1 DEF BelowAt, Begins
    <3> QED
      BY <3>2, <3>3
  <2>2. CASE l > Len(a)
    <3>1. \A j \in 1..Len(a) : j \in 1..l - 1
      BY <2>2
    <3>2. BelowAt(b, c, l) \/ BelowAt(c, b, l) =>
            l \in 1..Len(c) /\ \A j \in 1..Len(a) : b[j] = c[j]
      BY <3>1 DEF BelowAt
    <3>3. BelowAt(b, c, l) \/ BelowAt(c, b, l) => Begins(a, c)
      BY <1>5, <2>2, <3>2 DEF Begins
    <3> QED
      BY <3>3
  <2> QED
    BY <2>1, <2>2
<1>6. Begins(a, c) /\ Begins(b, c) => Begins(a, b) \/ Begins(b, a)
  BY DEF Begins
<1>7. ASSUME Begins(a, b), Begins(b, a) PROVE a = b
  <2>1. Len(a) = Len(b) /\ \A j \in 1..Len(a) : a[j] = b[j]
    BY <1>7 DEF Begins
  <2> QED
    BY <2>1, SeqEqual
<1>8. Below(a, b) /\ Below(b, c) => Below(a, c)
  BY <1>2 DEF Below
<1>9. /\ Below(a, b) /\ Begins(b, c) => Below(a, c)
      /\ Begins(a, b) /\ Below(a, c) => Below(b, c)
      /\ Begins(a, b) /\ Below(c, a) => Below(c, b)
      /\ Begins(a, b) /\ Below(b, c) => Below(a, c) \/ Begins(a, c)
      /\ Begins(a, b) /\ Below(c, b) => Below(c, a) \/ Begins(a, c)
  BY <1>3, <1>5, Zenon DEF Below
<1> QED
  BY <1>1, <1>4, <1>6, <1>7, <1>8, <1>9

LEMMA StringsOrdered ==
  ASSUME NEW a \in String, NEW b \in String, NEW c \in String
  PROVE  /\ StringBefore(a, b) => ~StringBefore(b, a)
         /\ StringBefore(a, b) /\ StringBefore(b, c) => StringBefore(a, c)
         /\ a # b => StringBefore(a, b) \/ StringBefore(b, a)
         /\ Below(a, b) => StringBefore(a, b)
         /\ Begins(a, b) /\ Len(a) < Len(b) => StringBefore(a, b)
<1>1. \A x, y \in Seq(Nat) : <<x, y>> \in Alphabetical <=> StringBefore(x, y)
  BY Zenon DEF Alphabetical
<1>2. /\ StringBefore(a, b) => ~StringBefore(b, a)
      /\ \A x, y, z \in Seq(Nat) :
           StringBefore(x, z) => StringBefore(x, y) \/ StringBefore(y, z)
  BY <1>1, NamesOrdered, Zenon DEF Weak, String
<1>3. StringBefore(a, b) /\ StringBefore(b, c) => StringBefore(a, c)
  <2> SUFFICES ASSUME StringBefore(a, b), StringBefore(b, c) PROVE StringBefore(a, c)
    OBVIOUS
  <2>1. StringBefore(b, a) \/ StringBefore(a, c)
    BY <1>2, Zenon DEF String
  <2> QED
    BY <1>2, <2>1
<1>4. a # b => StringBefore(a, b) \/ StringBefore(b, a)
  <2> SUFFICES ASSUME a # b, Begins(a, b) \/ Begins(b, a)
               PROVE  StringBefore(a, b) \/ StringBefore(b, a)
    BY BeforeIs, Compared
  <2>1. Len(a) \in Nat /\ Len(b) \in Nat
    BY DEF String
  <2>2. Len(a) # Len(b)
    <3> SUFFICES ASSUME Len(a) = Len(b) PROVE FALSE
      OBVIOUS
    <3>1. \A j \in 1..Len(a) : a[j] = b[j]
      BY DEF Begins
    <3> QED
      BY <3>1, SeqEqual DEF String
  <2>3. Begins(a, b) => Len(a) < Len(b)
    BY <2>1, <2>2 DEF Begins
  <2>4. Begins(b, a) => Len(b) < Len(a)
    BY <2>1, <2>2 DEF Begins
  <2> QED
    BY <2>3, <2>4, BeforeIs
<1> QED
  BY <1>2, <1>3, <1>4, BeforeIs

-----------------------------------------------------------------------------
(* The searches *)

(* One step of the halving, for the ranges in f, whatever g has been found  *)
(* for the smaller ones.                                                     *)
Step(r, g, below, above) ==
  IF r[1] >= r[2] THEN r
  ELSE IF Middle(r) \in below THEN g[<<Middle(r) + 1, r[2]>>]
  ELSE IF Middle(r) \in above THEN g[<<r[1], Middle(r)>>]
  ELSE r

Within(lo, hi) == (lo..hi) \X (lo..hi)
Steps(f, lo, hi, below, above) ==
  f = [r \in Within(lo, hi) |-> Step(r, f, below, above)]

LEMMA MiddleIs ==
  ASSUME NEW l \in Nat, NEW h \in Nat, l < h
  PROVE  /\ Middle(<<l, h>>) \in Nat
         /\ l <= Middle(<<l, h>>) /\ Middle(<<l, h>>) < h
         /\ (l + 2 <= h => l < Middle(<<l, h>>))
<1>1. <<l, h>>[1] = l /\ <<l, h>>[2] = h
  OBVIOUS
<1>2. Middle(<<l, h>>) = (l + h) \div 2
  BY <1>1 DEF Middle
<1> QED
  BY <1>2

(* Such a function is there: the steps go to smaller ranges. *)
LEMMA StepsExist ==
  ASSUME NEW lo \in Nat, NEW hi \in Nat, NEW below, NEW above
  PROVE  \E f : Steps(f, lo, hi, below, above)
<1> DEFINE W == Within(lo, hi)
           Upto(f, n) == \A r \in W : r[2] - r[1] < n => f[r] = Step(r, f, below, above)
           fails == {n \in Nat : ~\E f : Upto(f, n)}
<1>1. \A r \in W : /\ r[1] \in lo..hi /\ r[2] \in lo..hi /\ r = <<r[1], r[2]>>
                  /\ r[1] \in Nat /\ r[2] \in Nat
  BY DEF Within
<1>2. ASSUME NEW r \in W, r[1] < r[2]
      PROVE  /\ <<Middle(r) + 1, r[2]>> \in W /\ <<r[1], Middle(r)>> \in W
             /\ r[2] - (Middle(r) + 1) < r[2] - r[1] /\ Middle(r) - r[1] < r[2] - r[1]
  <2>1. Middle(r) \in Nat /\ r[1] <= Middle(r) /\ Middle(r) < r[2]
        /\ r[1] \in lo..hi /\ r[2] \in lo..hi
    <3>1. r[1] \in lo..hi /\ r[2] \in lo..hi /\ r = <<r[1], r[2]>>
      BY <1>1
    <3> QED
      BY <1>2, <3>1, MiddleIs
  <2> QED
    BY <2>1 DEF Within
<1>3. ASSUME NEW n \in Nat, NEW f, Upto(f, n) PROVE \E g : Upto(g, n + 1)
  <2> DEFINE g == [r \in W |-> IF r[2] - r[1] < n THEN f[r] ELSE Step(r, f, below, above)]
  <2>1. ASSUME NEW r \in W PROVE g[r] = Step(r, f, below, above)
    BY <1>3
  <2>2. ASSUME NEW r \in W, r[2] - r[1] < n PROVE g[r] = f[r]
    BY <2>2
  <2> HIDE DEF g
  <2>3. ASSUME NEW r \in W, r[2] - r[1] < n + 1
        PROVE  Step(r, f, below, above) = Step(r, g, below, above)
    <3>1. r[1] \in Nat /\ r[2] \in Nat
      BY <1>1
    <3>2. CASE r[1] >= r[2]
      BY <3>2 DEF Step
    <3>3. CASE r[1] < r[2]
      <4>1. Middle(r) \in Nat
        BY <1>1, <3>1, <3>3, MiddleIs
      <4>2. g[<<Middle(r) + 1, r[2]>>] = f[<<Middle(r) + 1, r[2]>>]
        <5> DEFINE p == <<Middle(r) + 1, r[2]>>
        <5>1. p \in W /\ p[1] = Middle(r) + 1 /\ p[2] = r[2]
          BY <1>2, <3>3
        <5>2. r[2] - (Middle(r) + 1) < r[2] - r[1]
          BY <1>2, <3>3
        <5>3. p[2] - p[1] = r[2] - (Middle(r) + 1)
          BY <5>1, Zenon
        <5> HIDE DEF p
        <5>4. p[2] - p[1] < n
          BY <2>3, <3>1, <4>1, <5>2, <5>3
        <5>5. g[p] = f[p]
          BY <2>2, <5>1, <5>4
        <5> QED
          BY <5>5 DEF p
      <4>3. g[<<r[1], Middle(r)>>] = f[<<r[1], Middle(r)>>]
        <5> DEFINE p == <<r[1], Middle(r)>>
        <5>1. p \in W /\ p[1] = r[1] /\ p[2] = Middle(r)
          BY <1>2, <3>3
        <5>2. Middle(r) - r[1] < r[2] - r[1]
          BY <1>2, <3>3
        <5>3. p[2] - p[1] = Middle(r) - r[1]
          BY <5>1, Zenon
        <5> HIDE DEF p
        <5>4. p[2] - p[1] < n
          BY <2>3, <3>1, <4>1, <5>2, <5>3
        <5>5. g[p] = f[p]
          BY <2>2, <5>1, <5>4
        <5> QED
          BY <5>5 DEF p
      <4> QED
        BY <4>2, <4>3 DEF Step
    <3> QED
      BY <3>1, <3>2, <3>3
  <2>4. Upto(g, n + 1)
    BY <2>1, <2>3
  <2> QED
    BY <2>4
<1>4. fails = {}
  <2> SUFFICES ASSUME fails # {} PROVE FALSE
    OBVIOUS
  <2>1. fails \in SUBSET Nat
    OBVIOUS
  <2>2. PICK n \in fails : \A m \in fails : n <= m
    BY <2>1, LeastNumber
  <2>3. n \in Nat /\ ~\E f : Upto(f, n)
    OBVIOUS
  <2>4. n # 0
    <3> DEFINE f == [r \in W |-> r]
    <3>1. Upto(f, 0)
      <4>1. ASSUME NEW r \in W, r[2] - r[1] < 0 PROVE f[r] = Step(r, f, below, above)
        <5>1. r[1] \in Nat /\ r[2] \in Nat
          BY <1>1, Zenon
        <5>2. r[1] >= r[2]
          <6>1. \A l, h \in Nat : h - l < 0 => l >= h
            OBVIOUS
          <6> QED
            BY <4>1, <5>1, <6>1, Zenon
        <5>3. f[r] = r
          BY Zenon
        <5> QED
          BY <5>2, <5>3, Zenon DEF Step
      <4> QED
        BY <4>1
    <3> QED
      BY <2>3, <3>1
  <2>5. n - 1 \in Nat /\ ~(n <= n - 1) /\ (n - 1) + 1 = n
    BY <2>3, <2>4
  <2>6. PICK f : Upto(f, n - 1)
    BY <2>2, <2>5
  <2> HIDE DEF Upto, fails
  <2>7. \E g : Upto(g, (n - 1) + 1)
    BY <1>3, <2>5, <2>6
  <2> QED
    BY <2>3, <2>5, <2>7
<1>5. PICK f : Upto(f, hi + 1)
  <2>1. hi + 1 \in Nat
    OBVIOUS
  <2> HIDE DEF Upto
  <2> QED
    BY <1>4, <2>1, Zenon
<1> DEFINE g == [r \in W |-> f[r]]
<1>6. \A r \in W : f[r] = Step(r, f, below, above)
  <2>1. \A r \in W : r[2] - r[1] < hi + 1
    BY <1>1
  <2> QED
    BY <1>5, <2>1
<1>7. ASSUME NEW r \in W PROVE Step(r, f, below, above) = Step(r, g, below, above)
  <2>1. r[1] \in Nat /\ r[2] \in Nat
    BY <1>1
  <2>2. CASE r[1] >= r[2]
    BY <2>2 DEF Step
  <2>3. CASE r[1] < r[2]
    BY <1>2, <2>3 DEF Step
  <2> QED
    BY <2>1, <2>2, <2>3
<1>8. g = [r \in W |-> Step(r, g, below, above)]
  BY <1>6, <1>7
<1> HIDE DEF g
<1> QED
  BY <1>8 DEF Steps

(* What is so of the range that is searched, and stays so in the steps, is  *)
(* so of the range that is left.                                             *)
LEMMA HalvedKeeps ==
  ASSUME NEW lo \in Nat, NEW hi \in Nat, NEW below, NEW above,
         NEW K \in SUBSET {r \in Nat \X Nat : lo <= r[1] /\ r[1] <= r[2] /\ r[2] <= hi},
         <<lo, hi>> \in K,
         \A r \in K : r[1] < r[2] =>
           /\ Middle(r) \in below => <<Middle(r) + 1, r[2]>> \in K
           /\ Middle(r) \in above \ below => <<r[1], Middle(r)>> \in K
  PROVE  LET r == Halved(<<lo, hi>>, below, above)
         IN  r \in K /\ (r[1] = r[2] \/ Middle(r) \notin below \cup above)
<1> DEFINE within == <<lo, hi>>[1]..<<lo, hi>>[2]
           f == CHOOSE f : f = [r \in within \X within |->
                  IF r[1] >= r[2] THEN r
                  ELSE IF Middle(r) \in below THEN f[<<Middle(r) + 1, r[2]>>]
                  ELSE IF Middle(r) \in above THEN f[<<r[1], Middle(r)>>]
                  ELSE r]
           Found(r) == f[r] \in K /\ (f[r][1] = f[r][2] \/ Middle(f[r]) \notin below \cup above)
           fails == {n \in Nat : \E r \in K : r[2] - r[1] = n /\ ~Found(r)}
<1>1. Halved(<<lo, hi>>, below, above) = f[<<lo, hi>>]
  BY Zenon DEF Halved
<1>2. within = lo..hi
  OBVIOUS
<1>3. f = [r \in Within(lo, hi) |-> Step(r, f, below, above)]
  <2>1. PICK g : Steps(g, lo, hi, below, above)
    BY StepsExist
  <2>2. g = [r \in within \X within |->
               IF r[1] >= r[2] THEN r
               ELSE IF Middle(r) \in below THEN g[<<Middle(r) + 1, r[2]>>]
               ELSE IF Middle(r) \in above THEN g[<<r[1], Middle(r)>>]
               ELSE r]
    BY <1>2, <2>1, Zenon DEF Steps, Step, Within
  <2>3. f = [r \in within \X within |->
               IF r[1] >= r[2] THEN r
               ELSE IF Middle(r) \in below THEN f[<<Middle(r) + 1, r[2]>>]
               ELSE IF Middle(r) \in above THEN f[<<r[1], Middle(r)>>]
               ELSE r]
    BY <2>2, Zenon
  <2> HIDE DEF f
  <2> QED
    BY <1>2, <2>3, Zenon DEF Step, Within
<1> HIDE DEF f
<1>4. \A r \in K : r \in Within(lo, hi) /\ r[1] \in Nat /\ r[2] \in Nat /\ r[1] <= r[2]
                   /\ r = <<r[1], r[2]>>
  BY DEF Within
<1>5. \A r \in K : f[r] = Step(r, f, below, above)
  BY <1>3, <1>4
<1>6. ASSUME NEW n \in Nat, \A m \in Nat : m < n => m \notin fails,
             NEW r \in K, r[2] - r[1] = n
      PROVE  Found(r)
  <2>1. CASE r[1] >= r[2]
    <3>1. f[r] = r
      BY <1>5, <2>1, Zenon DEF Step
    <3>2. r[1] = r[2]
      BY <1>4, <2>1
    <3> QED
      BY <3>1, <3>2
  <2>2. CASE r[1] < r[2]
    <3>0. ~(r[1] >= r[2])
      BY <1>4, <2>2
    <3> DEFINE m == Middle(r)
    <3>1. m \in Nat /\ r[1] <= m /\ m < r[2] /\ r[1] \in Nat /\ r[2] \in Nat
      BY <1>4, <2>2, MiddleIs
    <3>2. CASE m \in below
      <4> DEFINE p == <<m + 1, r[2]>>
      <4>1. f[r] = f[p]
        BY <1>5, <3>0, <3>2, Zenon DEF Step
      <4>4. p \in K /\ p[1] = m + 1 /\ p[2] = r[2]
        BY <2>2, <3>2
      <4>2. p[2] - p[1] \in Nat /\ p[2] - p[1] < n
        BY <1>4, <1>6, <3>1, <4>4
      <4> HIDE DEF p
      <4>3. Found(p)
        BY <1>6, <4>4, <4>2
      <4> QED
        BY <4>1, <4>3
    <3>3. CASE m \in above \ below
      <4> DEFINE p == <<r[1], m>>
      <4>1. f[r] = f[p]
        BY <1>5, <3>0, <3>3, Zenon DEF Step
      <4>4. p \in K /\ p[1] = r[1] /\ p[2] = m
        BY <2>2, <3>3
      <4>2. p[2] - p[1] \in Nat /\ p[2] - p[1] < n
        BY <1>4, <1>6, <3>1, <4>4
      <4> HIDE DEF p
      <4>3. Found(p)
        BY <1>6, <4>4, <4>2
      <4> QED
        BY <4>1, <4>3
    <3>4. CASE m \notin below \cup above
      <4>1. f[r] = r
        BY <1>5, <3>4, Zenon DEF Step
      <4> QED
        BY <3>4, <4>1
    <3> QED
      BY <3>2, <3>3, <3>4
  <2> QED
    BY <1>4, <2>1, <2>2
<1>7. fails = {}
  <2> SUFFICES ASSUME fails # {} PROVE FALSE
    OBVIOUS
  <2>1. fails \in SUBSET Nat
    OBVIOUS
  <2>2. PICK n \in fails : \A m \in fails : n <= m
    BY <2>1, LeastNumber
  <2>3. n \in Nat /\ \A m \in Nat : m < n => m \notin fails
    BY <2>1, <2>2
  <2>4. PICK r \in K : r[2] - r[1] = n /\ ~Found(r)
    OBVIOUS
  <2> QED
    BY <1>6, <2>3, <2>4
<1>8. Found(<<lo, hi>>)
  <2>1. <<lo, hi>>[2] - <<lo, hi>>[1] \in Nat
    BY <1>4
  <2> QED
    BY <1>7, <2>1
<1> QED
  BY <1>1, <1>8, Zenon

LEMMA HalvedWithin ==
  ASSUME NEW lo \in Nat, NEW hi \in Nat, lo <= hi, NEW below, NEW above
  PROVE  LET r == Halved(<<lo, hi>>, below, above)
         IN  /\ r \in Nat \X Nat /\ lo <= r[1] /\ r[1] <= r[2] /\ r[2] <= hi
             /\ r[1] = r[2] \/ (r[1] <= Middle(r) /\ Middle(r) < r[2] /\ Middle(r) \in Nat)
<1> DEFINE K == {r \in Nat \X Nat : lo <= r[1] /\ r[1] <= r[2] /\ r[2] <= hi}
           r == Halved(<<lo, hi>>, below, above)
<1>1. <<lo, hi>> \in K
  OBVIOUS
<1>2. ASSUME NEW x \in K, x[1] < x[2]
      PROVE  /\ <<Middle(x) + 1, x[2]>> \in K /\ <<x[1], Middle(x)>> \in K
             /\ x[1] <= Middle(x) /\ Middle(x) < x[2] /\ Middle(x) \in Nat
  <2>1. x = <<x[1], x[2]>> /\ x[1] \in Nat /\ x[2] \in Nat /\ lo <= x[1] /\ x[2] <= hi
    OBVIOUS
  <2>2. Middle(x) \in Nat /\ x[1] <= Middle(x) /\ Middle(x) < x[2]
    BY <1>2, <2>1, MiddleIs
  <2> QED
    BY <2>1, <2>2
<1>3. r \in K
  <2> HIDE DEF r
  <2>1. LET x == Halved(<<lo, hi>>, below, above) IN x \in K
    BY <1>1, <1>2, HalvedKeeps
  <2> QED
    BY <2>1 DEF r
<1> HIDE DEF r
<1>4. r[1] \in Nat /\ r[2] \in Nat /\ r[1] <= r[2]
  BY <1>3
<1>5. r[1] = r[2] \/ r[1] < r[2]
  BY <1>4
<1> QED
  BY <1>2, <1>3, <1>5 DEF r

(* The positions below p are in below and those from q on are in above, but *)
(* perhaps the first, which is not looked at when p is well behind it.        *)
LEMMA HalvedIs ==
  ASSUME NEW lo \in Nat, NEW hi \in Nat, NEW p \in Nat, NEW q \in Nat,
         lo <= p, p <= q, q <= hi, NEW below, NEW above,
         \A m \in lo..hi - 1 : m > lo \/ p < lo + 2 =>
           (m \in below <=> m < p) /\ (m \in above <=> m >= q)
  PROVE  LET r == Halved(<<lo, hi>>, below, above)
         IN  /\ r \in Nat \X Nat
             /\ lo <= r[1] /\ r[1] <= p /\ q <= r[2] /\ r[2] <= hi
             /\ \/ r[1] = r[2]
                \/ /\ p <= Middle(r) /\ Middle(r) < q
                   /\ r[1] <= Middle(r) /\ Middle(r) < r[2] /\ Middle(r) \in Nat
<1> DEFINE K == {r \in Nat \X Nat : lo <= r[1] /\ r[1] <= p /\ q <= r[2] /\ r[2] <= hi}
           r == Halved(<<lo, hi>>, below, above)
<1>1. <<lo, hi>> \in K
  OBVIOUS
<1>2. ASSUME NEW x \in K, x[1] < x[2]
      PROVE  /\ x[1] <= Middle(x) /\ Middle(x) < x[2] /\ Middle(x) \in Nat
             /\ Middle(x) \in below <=> Middle(x) < p
             /\ Middle(x) \in above <=> Middle(x) >= q
  <2> DEFINE m == Middle(x)
  <2>1. /\ x = <<x[1], x[2]>> /\ x[1] \in Nat /\ x[2] \in Nat
        /\ lo <= x[1] /\ x[1] <= p /\ q <= x[2] /\ x[2] <= hi
    OBVIOUS
  <2>2. m \in Nat /\ x[1] <= m /\ m < x[2] /\ (x[1] + 2 <= x[2] => x[1] < m)
    BY <1>2, <2>1, MiddleIs
  <2> HIDE DEF m
  <2>3. m \in lo..hi - 1 /\ (m > lo \/ p < lo + 2)
    BY <2>1, <2>2
  <2>4. (m \in below <=> m < p) /\ (m \in above <=> m >= q)
    BY <2>3
  <2> QED
    BY <2>2, <2>4 DEF m
<1>3. ASSUME NEW x \in K, x[1] < x[2]
      PROVE  /\ Middle(x) \in below => <<Middle(x) + 1, x[2]>> \in K
             /\ Middle(x) \in above => <<x[1], Middle(x)>> \in K
  <2>1. /\ x[1] \in Nat /\ x[2] \in Nat
        /\ lo <= x[1] /\ x[1] <= p /\ q <= x[2] /\ x[2] <= hi
    OBVIOUS
  <2>2. /\ x[1] <= Middle(x) /\ Middle(x) < x[2] /\ Middle(x) \in Nat
        /\ Middle(x) \in below <=> Middle(x) < p
        /\ Middle(x) \in above <=> Middle(x) >= q
    BY <1>2, <1>3
  <2> QED
    BY <2>1, <2>2
<1>4. r \in K /\ (r[1] = r[2] \/ Middle(r) \notin below \cup above)
  <2>1. K \in SUBSET {x \in Nat \X Nat : lo <= x[1] /\ x[1] <= x[2] /\ x[2] <= hi}
    OBVIOUS
  <2> HIDE DEF K, r
  <2>2. LET x == Halved(<<lo, hi>>, below, above)
        IN  x \in K /\ (x[1] = x[2] \/ Middle(x) \notin below \cup above)
    BY <1>1, <1>3, <2>1, HalvedKeeps
  <2> QED
    BY <2>2 DEF r
<1> HIDE DEF r
<1>5. r[1] \in Nat /\ r[2] \in Nat /\ r[1] <= r[2]
  BY <1>4
<1>6. CASE r[1] = r[2]
  BY <1>4, <1>6 DEF r
<1>7. CASE r[1] < r[2]
  <2>1. /\ r[1] <= Middle(r) /\ Middle(r) < r[2] /\ Middle(r) \in Nat
        /\ ~(Middle(r) < p) /\ ~(Middle(r) >= q)
    BY <1>2, <1>4, <1>5, <1>7
  <2>2. p <= Middle(r) /\ Middle(r) < q
    BY <2>1
  <2> QED
    BY <1>4, <2>1, <2>2 DEF r
<1> QED
  BY <1>5, <1>6, <1>7

(* equal_range gives a range in any case. *)
LEMMA EqualRangeWithin ==
  ASSUME NEW s, NEW lo \in Nat, NEW hi \in Nat, lo <= hi, NEW key
  PROVE  /\ EqualRange(s, <<lo, hi>>, key) \in Nat \X Nat
         /\ lo <= EqualRange(s, <<lo, hi>>, key)[1]
         /\ EqualRange(s, <<lo, hi>>, key)[1] <= EqualRange(s, <<lo, hi>>, key)[2]
         /\ EqualRange(s, <<lo, hi>>, key)[2] <= hi
<1> DEFINE range == <<lo, hi>>
           within == range[1]..range[2] - 1
           below == {m \in within : Prefixed(s[m], key)}
           above == {m \in within : Prefixed(key, s[m])}
           r == Halved(range, below, above)
           u == Halved(<<r[1], Middle(r)>>, below, within \ below)
           v == Halved(<<Middle(r) + 1, r[2]>>, within \ above, above)
<1>1. EqualRange(s, <<lo, hi>>, key) = IF r[1] = r[2] THEN r ELSE <<u[1], v[1]>>
  BY ZenonT(120) DEF EqualRange
<1>2. /\ r \in Nat \X Nat /\ lo <= r[1] /\ r[1] <= r[2] /\ r[2] <= hi
      /\ r[1] = r[2] \/ (r[1] <= Middle(r) /\ Middle(r) < r[2] /\ Middle(r) \in Nat)
  <2> HIDE DEF below, above
  <2> QED
    BY HalvedWithin
<1> HIDE DEF r, below, above, within
<1>3. CASE r[1] = r[2]
  BY <1>1, <1>2, <1>3
<1>4. CASE r[1] # r[2]
  <2>1. r[1] \in Nat /\ r[2] \in Nat /\ Middle(r) \in Nat /\ r[1] <= Middle(r) /\ Middle(r) + 1 <= r[2]
    BY <1>2, <1>4
  <2>2. u \in Nat \X Nat /\ r[1] <= u[1] /\ u[1] <= u[2] /\ u[2] <= Middle(r)
    BY <2>1, HalvedWithin
  <2>3. v \in Nat \X Nat /\ Middle(r) + 1 <= v[1] /\ v[1] <= v[2] /\ v[2] <= r[2]
    BY <2>1, HalvedWithin
  <2>4. EqualRange(s, <<lo, hi>>, key) = <<u[1], v[1]>>
    BY <1>1, <1>4
  <2> HIDE DEF u, v
  <2>5. u[1] \in Nat /\ v[1] \in Nat /\ u[2] \in Nat /\ v[2] \in Nat
    BY <2>2, <2>3
  <2>6. lo <= u[1] /\ u[1] <= v[1] /\ v[1] <= hi
    BY <1>2, <2>1, <2>2, <2>3, <2>5
  <2> QED
    BY <2>4, <2>5, <2>6
<1> QED
  BY <1>3, <1>4

(* It gives the range of what is neither before nor after the key, if that  *)
(* is one; the first position is as in HalvedIs.                              *)
LEMMA EqualRangeIs ==
  ASSUME NEW s, NEW lo \in Nat, NEW hi \in Nat, NEW p \in Nat, NEW q \in Nat,
         lo <= p, p <= q, q <= hi, NEW key,
         \A m \in lo..hi - 1 : m > lo \/ p < lo + 2 =>
           (Prefixed(s[m], key) <=> m < p) /\ (Prefixed(key, s[m]) <=> m >= q)
  PROVE  EqualRange(s, <<lo, hi>>, key) = <<p, q>>
<1> DEFINE range == <<lo, hi>>
           within == range[1]..range[2] - 1
           below == {m \in within : Prefixed(s[m], key)}
           above == {m \in within : Prefixed(key, s[m])}
           r == Halved(range, below, above)
           mid == Middle(r)
           u == Halved(<<r[1], mid>>, below, within \ below)
           v == Halved(<<mid + 1, r[2]>>, within \ above, above)
<1>1. EqualRange(s, <<lo, hi>>, key) = IF r[1] = r[2] THEN r ELSE <<u[1], v[1]>>
  BY ZenonT(120) DEF EqualRange
<1>2. within = lo..hi - 1 /\ \A m \in within : m \in Nat
  OBVIOUS
<1>3. \A m \in within : m > lo \/ p < lo + 2 =>
        (m \in below <=> m < p) /\ (m \in above <=> m >= q)
  OBVIOUS
<1> HIDE DEF below, above
<1>4. /\ r \in Nat \X Nat
      /\ lo <= r[1] /\ r[1] <= p /\ q <= r[2] /\ r[2] <= hi
      /\ \/ r[1] = r[2]
         \/ p <= mid /\ mid < q /\ r[1] <= mid /\ mid < r[2] /\ mid \in Nat
  <2> HIDE DEF within
  <2>1. \A m \in lo..hi - 1 : m > lo \/ p < lo + 2 =>
          (m \in below <=> m < p) /\ (m \in above <=> m >= q)
    BY <1>2, <1>3
  <2> QED
    BY <2>1, HalvedIs
<1> HIDE DEF r, within
<1>5. r[1] \in Nat /\ r[2] \in Nat /\ r = <<r[1], r[2]>>
  BY <1>4
<1>6. CASE r[1] = r[2]
  <2>1. r[1] = p /\ r[2] = q
    BY <1>4, <1>5, <1>6
  <2> QED
    BY <1>1, <1>5, <1>6, <2>1
<1>7. CASE r[1] # r[2]
  <2>1. mid \in Nat /\ p <= mid /\ mid < q /\ r[1] <= mid /\ mid < r[2]
    BY <1>4, <1>7
  <2> HIDE DEF mid
  <2>2. u[1] = p
    <3>1. ASSUME NEW m \in r[1]..mid - 1, m > r[1] \/ p < r[1] + 2
          PROVE  (m \in below <=> m < p) /\ (m \in within \ below <=> m >= p)
      <4>1. m \in lo..hi - 1 /\ (m > lo \/ p < lo + 2) /\ m \in Nat
        BY <1>4, <1>5, <2>1, <3>1
      <4> QED
        BY <1>2, <1>3, <4>1
    <3>2. /\ u \in Nat \X Nat
          /\ r[1] <= u[1] /\ u[1] <= p /\ p <= u[2] /\ u[2] <= mid
          /\ \/ u[1] = u[2]
             \/ p <= Middle(u) /\ Middle(u) < p /\ r[1] <= Middle(u) /\ Middle(u) < u[2] /\ Middle(u) \in Nat
      BY <1>4, <1>5, <2>1, <3>1, HalvedIs
    <3> HIDE DEF u
    <3>3. ~(p <= Middle(u) /\ Middle(u) < p /\ Middle(u) \in Nat)
      OBVIOUS
    <3>4. u[1] = u[2] /\ u[1] \in Nat
      BY <3>2, <3>3
    <3> QED
      BY <3>2, <3>4
  <2>3. v[1] = q
    <3>1. ASSUME NEW m \in mid + 1..r[2] - 1
          PROVE  (m \in within \ above <=> m < q) /\ (m \in above <=> m >= q)
      <4>1. m \in lo..hi - 1 /\ m > lo /\ m \in Nat
        BY <1>4, <1>5, <2>1
      <4> QED
        BY <1>2, <1>3, <4>1
    <3>2. /\ v \in Nat \X Nat
          /\ mid + 1 <= v[1] /\ v[1] <= q /\ q <= v[2] /\ v[2] <= r[2]
          /\ \/ v[1] = v[2]
             \/ q <= Middle(v) /\ Middle(v) < q /\ mid + 1 <= Middle(v) /\ Middle(v) < v[2] /\ Middle(v) \in Nat
      <4>1. mid + 1 \in Nat /\ mid + 1 <= q /\ q <= q /\ q <= r[2]
        BY <1>4, <2>1
      <4> QED
        BY <1>5, <3>1, <4>1, HalvedIs
    <3> HIDE DEF v
    <3>3. ~(q <= Middle(v) /\ Middle(v) < q /\ Middle(v) \in Nat)
      OBVIOUS
    <3>4. v[1] = v[2] /\ v[1] \in Nat
      BY <3>2, <3>3
    <3> QED
      BY <3>2, <3>4
  <2> QED
    BY <1>1, <1>7, <2>2, <2>3
<1> QED
  BY <1>6, <1>7

-----------------------------------------------------------------------------
(* Searches in sorted strings *)

Beginning(a, b) == Begins(a, b) /\ Len(a) < Len(b)

LEMMA ThreeWays ==
  ASSUME NEW a \in String, NEW key \in String, ~Beginning(a, key)
  PROVE  /\ Below(a, key) \/ Below(key, a) \/ Begins(key, a)
         /\ Below(a, key) => ~Below(key, a) /\ ~Begins(key, a)
         /\ Below(key, a) => ~Begins(key, a)
<1>1. Begins(a, key) => Begins(key, a)
  <2> SUFFICES ASSUME Begins(a, key) PROVE Begins(key, a)
    OBVIOUS
  <2>1. Len(a) \in Nat /\ Len(key) \in Nat
    BY DEF String
  <2>2. Len(a) = Len(key)
    BY <2>1 DEF Beginning, Begins
  <2> QED
    BY <2>2 DEF Begins
<1> QED
  BY <1>1, Compared, BelowIs

(* What comes first of the strings that are apart from the key. *)
LEMMA ApartBefore ==
  ASSUME NEW a \in String, NEW b \in String, NEW key \in String
  PROVE  /\ Below(a, key) /\ (Begins(key, b) \/ Below(key, b)) => StringBefore(a, b)
         /\ Begins(key, a) /\ Below(key, b) => StringBefore(a, b)
  BY BelowIs, StringsOrdered

(* The strings from lo to below hi are in order. *)
Rising(s, lo, hi) == \A i, j \in lo..hi - 1 : i < j => ~StringBefore(s[j], s[i])

(* The range of a key in sorted strings is where its extensions are, if no  *)
(* beginning of the key is among them; or only as the first, when another    *)
(* is below the key.                                                          *)
LEMMA SearchSorted ==
  ASSUME NEW s \in Seq(String), NEW lo \in Nat \ {0}, NEW hi \in Nat,
         lo <= hi, hi <= Len(s) + 1, Rising(s, lo, hi), NEW key \in String,
         \A m \in lo..hi - 1 : Beginning(s[m], key) =>
           m = lo /\ \E o \in lo + 1..hi - 1 : Below(s[o], key)
  PROVE  \E p, q \in lo..hi :
           /\ EqualRange(s, <<lo, hi>>, key) = <<p, q>> /\ p <= q
           /\ \A m \in lo..hi - 1 : ~Beginning(s[m], key) =>
                /\ m < p <=> Below(s[m], key)
                /\ q <= m <=> Below(key, s[m])
                /\ p <= m /\ m < q <=> Begins(key, s[m])
           /\ \A m \in lo..hi - 1 : Beginning(s[m], key) => m + 1 < p
<1>1. \A m \in lo..hi - 1 : s[m] \in String /\ m \in Nat
  OBVIOUS
<1> DEFINE Good(m) == m \in lo..hi - 1 /\ ~Beginning(s[m], key)
           notBelow == {m \in lo..hi : m = hi \/ (Good(m) /\ ~Below(s[m], key))}
           behind == {m \in lo..hi : m = hi \/ (Good(m) /\ Below(key, s[m]))}
<1>2. notBelow \in SUBSET Nat /\ behind \in SUBSET Nat /\ hi \in notBelow /\ hi \in behind
  OBVIOUS
<1>3. PICK p \in notBelow : \A m \in notBelow : p <= m
  <2> HIDE DEF notBelow
  <2> QED
    BY <1>2, LeastNumber
<1>4. PICK q \in behind : \A m \in behind : q <= m
  <2> HIDE DEF behind
  <2> QED
    BY <1>2, LeastNumber
<1>5. \A m \in lo..hi - 1 : Good(m) =>
        /\ Below(s[m], key) \/ Below(key, s[m]) \/ Begins(key, s[m])
        /\ Below(s[m], key) => ~Below(key, s[m]) /\ ~Begins(key, s[m])
        /\ Below(key, s[m]) => ~Begins(key, s[m])
  BY <1>1, ThreeWays
<1>6. p \in lo..hi /\ q \in lo..hi /\ p \in Nat /\ q \in Nat /\ p <= q
  <2>1. p \in lo..hi /\ q \in lo..hi
    OBVIOUS
  <2>2. q \in notBelow
    <3>1. q = hi \/ (Good(q) /\ Below(key, s[q]))
      OBVIOUS
    <3>2. Good(q) /\ Below(key, s[q]) => ~Below(s[q], key)
      BY <1>5
    <3> QED
      BY <2>1, <3>1, <3>2
  <2> HIDE DEF notBelow, behind
  <2> QED
    BY <1>3, <2>1, <2>2
<1>7. p = hi \/ (Good(p) /\ ~Below(s[p], key))
  OBVIOUS
<1>8. q = hi \/ (Good(q) /\ Below(key, s[q]))
  OBVIOUS
<1>9. ASSUME NEW m \in lo..hi - 1, Good(m)
      PROVE  (m < p <=> Below(s[m], key)) /\ (q <= m <=> Below(key, s[m]))
  <2>1. m \in Nat /\ m \in lo..hi /\ m # hi /\ s[m] \in String
    BY <1>1
  <2>2. ASSUME m < p PROVE Below(s[m], key)
    <3>1. m \notin notBelow
      BY <1>3, <1>6, <2>1, <2>2
    <3> QED
      BY <1>9, <2>1, <3>1
  <2>3. ASSUME m < q PROVE ~Below(key, s[m])
    <3>1. m \notin behind
      BY <1>4, <1>6, <2>1, <2>3
    <3> QED
      BY <1>9, <2>1, <3>1
  <2> HIDE DEF notBelow, behind
  <2>4. ASSUME p <= m PROVE ~Below(s[m], key)
    <3>1. p # hi /\ p \in lo..hi - 1
      BY <1>6, <2>1, <2>4
    <3>2. s[p] \in String /\ (Below(key, s[p]) \/ Begins(key, s[p])) /\ ~Below(s[p], key)
      BY <1>1, <1>5, <1>7, <3>1
    <3>3. p = m \/ p < m
      BY <1>6, <2>1, <2>4
    <3>4. p < m => ~StringBefore(s[m], s[p])
      BY <2>1, <3>1 DEF Rising
    <3> QED
      BY <2>1, <3>2, <3>3, <3>4, ApartBefore
  <2>5. ASSUME q <= m PROVE Below(key, s[m])
    <3>1. q # hi /\ q \in lo..hi - 1
      BY <1>6, <2>1, <2>5
    <3>2. s[q] \in String /\ Below(key, s[q])
      BY <1>1, <1>8, <3>1
    <3>3. q = m \/ q < m
      BY <1>6, <2>1, <2>5
    <3>4. q < m => ~StringBefore(s[m], s[q])
      BY <2>1, <3>1 DEF Rising
    <3>5. q < m => ~Below(s[m], key) /\ ~Begins(key, s[m])
      BY <2>1, <3>2, <3>4, ApartBefore
    <3> QED
      BY <1>5, <1>9, <3>2, <3>3, <3>5
  <2> QED
    BY <1>6, <2>1, <2>2, <2>3, <2>4, <2>5
<1> HIDE DEF notBelow, behind
<1>10. ASSUME NEW m \in lo..hi - 1, Good(m)
       PROVE  p <= m /\ m < q <=> Begins(key, s[m])
  <2>1. m \in Nat /\ (p <= m <=> ~(m < p)) /\ (m < q <=> ~(q <= m))
    BY <1>1, <1>6
  <2> QED
    BY <1>5, <1>9, <1>10, <2>1
<1>11. ASSUME NEW m \in lo..hi - 1, Beginning(s[m], key) PROVE m = lo /\ m + 1 < p
  <2>1. PICK o \in lo + 1..hi - 1 : Below(s[o], key)
    BY <1>11
  <2>2. m = lo /\ o \in lo..hi - 1 /\ o # lo /\ o \in Nat /\ lo < o
    BY <1>11
  <2>3. Good(o)
    BY <2>2
  <2>4. o < p
    BY <1>9, <2>1, <2>2, <2>3
  <2> QED
    BY <1>6, <2>2, <2>4
<1>12. EqualRange(s, <<lo, hi>>, key) = <<p, q>>
  <2>1. ASSUME NEW m \in lo..hi - 1, m > lo \/ p < lo + 2
        PROVE  (Prefixed(s[m], key) <=> m < p) /\ (Prefixed(key, s[m]) <=> m >= q)
    <3>1. Good(m)
      <4> SUFFICES ASSUME Beginning(s[m], key) PROVE FALSE
        OBVIOUS
      <4>1. m = lo /\ m + 1 < p
        BY <1>11
      <4> QED
        BY <1>6, <2>1, <4>1
    <3>2. s[m] \in String /\ m \in Nat /\ (m >= q <=> q <= m)
      BY <1>1, <1>6
    <3> QED
      BY <1>9, <3>1, <3>2, PrefixedIs
  <2> QED
    BY <1>6, <2>1, EqualRangeIs
<1> QED
  BY <1>6, <1>9, <1>10, <1>11, <1>12

-----------------------------------------------------------------------------
(* Rotations *)

(* A range to rotate, of n places. *)
Ranges(n, first, middle, last) ==
  /\ n \in Nat /\ first \in Nat \ {0} /\ middle \in Nat /\ last \in Nat
  /\ first <= middle /\ middle <= last /\ last <= n + 1

(* The place that what a rotation has at k comes from. *)
Turned(first, middle, last, k) ==
  IF k < first \/ last <= k THEN k
  ELSE IF k < first + (last - middle) THEN (k - first) + middle
  ELSE k - (last - middle)

LEMMA PartIs ==
  ASSUME NEW T, NEW t \in Seq(T), NEW l \in Nat \ {0}, NEW h \in Nat, l <= h, h <= Len(t) + 1
  PROVE  /\ SubSeq(t, l, h - 1) \in Seq(T) /\ Len(SubSeq(t, l, h - 1)) = h - l
         /\ \A k \in 1..h - l : SubSeq(t, l, h - 1)[k] = t[l + (k - 1)]
<1>1. \A i \in l..h - 1 : t[i] \in T
  OBVIOUS
<1>2. l \in Int /\ h - 1 \in Int /\ h \in Nat
  OBVIOUS
<1>3. SubSeq(t, l, h - 1) \in Seq(T)
  BY <1>1, <1>2, SubSeqProperties
<1>4. Len(SubSeq(t, l, h - 1)) = h - l
  OBVIOUS
<1>5. \A k \in 1..h - l : SubSeq(t, l, h - 1)[k] = t[l + (k - 1)]
  OBVIOUS
<1> QED
  BY <1>3, <1>4, <1>5

(* c is m elements of a and then n - m of b. *)
Joins(T, a, b, m, n) ==
  /\ a \in Seq(T) /\ b \in Seq(T) /\ m \in Nat /\ n \in Nat
  /\ Len(a) = m /\ Len(b) = n - m
Joined(T, c, a, b, m, n) ==
  /\ c \in Seq(T) /\ Len(c) = n
  /\ \A k \in 1..n : c[k] = IF k <= m THEN a[k] ELSE b[k - m]

LEMMA JoinIs ==
  ASSUME NEW T, NEW a, NEW b, NEW m, NEW n, Joins(T, a, b, m, n)
  PROVE  Joined(T, a \o b, a, b, m, n)
<1> USE DEF Joins
<1>1. a \o b \in Seq(T) /\ Len(a \o b) = n
  OBVIOUS
<1>2. \A k \in 1..n : (a \o b)[k] = IF k <= m THEN a[k] ELSE b[k - m]
  OBVIOUS
<1> QED
  BY <1>1, <1>2 DEF Joined

LEMMA RotateIs ==
  ASSUME NEW T, NEW t \in Seq(T), NEW first, NEW middle, NEW last,
         Ranges(Len(t), first, middle, last)
  PROVE  /\ Rotate(t, first, middle, last) \in Seq(T)
         /\ Len(Rotate(t, first, middle, last)) = Len(t)
         /\ \A k \in 1..Len(t) :
              Rotate(t, first, middle, last)[k] = t[Turned(first, middle, last, k)]
<1> USE DEF Ranges
<1>1. CASE middle = last
  <2>1. Rotate(t, first, middle, last) = t
    BY <1>1 DEF Rotate
  <2>2. \A k \in 1..Len(t) : Turned(first, middle, last, k) = k
    BY <1>1 DEF Turned
  <2> QED
    BY <2>1, <2>2
<1>2. CASE middle # last
  <2> DEFINE a == SubSeq(t, 1, first - 1)
             b == SubSeq(t, middle, last - 1)
             c == SubSeq(t, first, middle - 1)
             d == SubSeq(t, last, Len(t))
             n == Len(t)
  <2>1. n \in Nat /\ (n + 1) - 1 = n
    OBVIOUS
  <2>2. a \in Seq(T) /\ Len(a) = first - 1 /\ \A k \in 1..first - 1 : a[k] = t[1 + (k - 1)]
    BY <2>1, PartIs
  <2>3. b \in Seq(T) /\ Len(b) = last - middle /\ \A k \in 1..last - middle : b[k] = t[middle + (k - 1)]
    BY <2>1, PartIs
  <2>4. c \in Seq(T) /\ Len(c) = middle - first /\ \A k \in 1..middle - first : c[k] = t[first + (k - 1)]
    BY <2>1, PartIs
  <2>5. /\ d \in Seq(T) /\ Len(d) = (n + 1) - last
        /\ \A k \in 1..(n + 1) - last : d[k] = t[last + (k - 1)]
    <3>1. last \in Nat \ {0} /\ n + 1 \in Nat /\ last <= n + 1
      BY <2>1
    <3>2. SubSeq(t, last, (n + 1) - 1) = d
      BY <2>1, Zenon
    <3> QED
      BY <3>1, <3>2, PartIs
  <2>6. Rotate(t, first, middle, last) = ((a \o b) \o c) \o d
    BY <1>2 DEF Rotate
  <2> HIDE DEF a, b, c, d
  <2> DEFINE ab == a \o b
             abc == ab \o c
             r == abc \o d
  <2>7. PICK x \in Nat, y \in Nat, z \in Nat :
          x = first - 1 /\ y = (first - 1) + (last - middle) /\ z = last - 1
    OBVIOUS
  <2>8. /\ ab \in Seq(T) /\ Len(ab) = y
        /\ \A k \in 1..y : ab[k] = IF k <= x THEN a[k] ELSE b[k - x]
    <3>1. Joins(T, a, b, x, y)
      BY <2>2, <2>3, <2>7, SMTT(30) DEF Joins
    <3>2. Joined(T, ab, a, b, x, y)
      BY <3>1, JoinIs
    <3> QED
      BY <3>2, Zenon DEF Joined
  <2> HIDE DEF ab
  <2>9. /\ abc \in Seq(T) /\ Len(abc) = z
        /\ \A k \in 1..z : abc[k] = IF k <= y THEN ab[k] ELSE c[k - y]
    <3>1. Joins(T, ab, c, y, z)
      BY <2>4, <2>7, <2>8 DEF Joins
    <3>2. Joined(T, abc, ab, c, y, z)
      BY <3>1, JoinIs
    <3> QED
      BY <3>2, Zenon DEF Joined
  <2> HIDE DEF abc
  <2>12. /\ r \in Seq(T) /\ Len(r) = n
         /\ \A k \in 1..n : r[k] = IF k <= z THEN abc[k] ELSE d[k - z]
    <3>1. Joins(T, abc, d, z, n)
      BY <2>1, <2>5, <2>7, <2>9 DEF Joins
    <3>2. Joined(T, r, abc, d, z, n)
      BY <3>1, JoinIs
    <3> QED
      BY <3>2, Zenon DEF Joined
  <2>10. Rotate(t, first, middle, last) = r
    BY <2>6 DEF ab, abc
  <2> HIDE DEF r, n
  <2>11. ASSUME NEW k \in 1..n PROVE r[k] = t[Turned(first, middle, last, k)]
    <3>1. CASE k < first
      <4>1. k \in 1..first - 1 /\ k \in 1..y /\ k \in 1..z /\ k <= x /\ k <= y /\ k <= z
            /\ 1 + (k - 1) = k
        BY <2>1, <2>7, <3>1
      <4>2. r[k] = t[k]
        BY <2>2, <2>8, <2>9, <2>12, <4>1
      <4> QED
        BY <3>1, <4>2 DEF Turned
    <3>2. CASE first <= k /\ k < first + (last - middle)
      <4>1. /\ k \in 1..y /\ k \in 1..z /\ ~(k <= x) /\ k <= y /\ k <= z
            /\ k - x \in 1..last - middle
            /\ middle + ((k - x) - 1) = (k - first) + middle
            /\ ~(k < first) /\ ~(last <= k)
        BY <2>1, <2>7, <3>2
      <4>2. r[k] = t[(k - first) + middle]
        BY <2>3, <2>8, <2>9, <2>12, <4>1
      <4> QED
        BY <3>2, <4>1, <4>2 DEF Turned
    <3>3. CASE first + (last - middle) <= k /\ k < last
      <4>1. /\ k \in 1..z /\ ~(k <= y) /\ k <= z
            /\ k - y \in 1..middle - first
            /\ first + ((k - y) - 1) = k - (last - middle)
            /\ ~(k < first) /\ ~(last <= k) /\ ~(k < first + (last - middle))
        BY <2>1, <2>7, <3>3
      <4>2. r[k] = t[k - (last - middle)]
        BY <2>4, <2>9, <2>12, <4>1
      <4> QED
        BY <4>1, <4>2 DEF Turned
    <3>4. CASE last <= k
      <4>1. /\ ~(k <= z) /\ k - z \in 1..(n + 1) - last
            /\ last + ((k - z) - 1) = k
        BY <2>1, <2>7, <3>4
      <4>2. r[k] = t[k]
        BY <2>5, <2>12, <4>1
      <4> QED
        BY <3>4, <4>2 DEF Turned
    <3>5. k < first \/ (first <= k /\ k < first + (last - middle))
          \/ (first + (last - middle) <= k /\ k < last) \/ last <= k
      BY <2>1
    <3> QED
      BY <3>1, <3>2, <3>3, <3>4, <3>5
  <2> QED
    BY <2>10, <2>11, <2>12 DEF n
<1> QED
  BY <1>1, <1>2

(* The rotation changes the order of two only if one is from before the     *)
(* middle and the other is from behind it.                                   *)
LEMMA TurnedIs ==
  ASSUME NEW n, NEW first, NEW middle, NEW last, Ranges(n, first, middle, last)
  PROVE  /\ \A k \in 1..n : Turned(first, middle, last, k) \in 1..n
         /\ \A i \in 1..n : \E k \in 1..n : Turned(first, middle, last, k) = i
         /\ \A k, l \in 1..n : k < l =>
              LET i == Turned(first, middle, last, k)
                  j == Turned(first, middle, last, l)
              IN  \/ i < j /\ ~(first <= i /\ i < middle /\ middle <= j /\ j < last)
                  \/ middle <= i /\ i < last /\ first <= j /\ j < middle
<1> USE DEF Ranges
<1>1. ASSUME NEW i \in 1..n
      PROVE  \E k \in 1..n : Turned(first, middle, last, k) = i
  <2>1. CASE i < first \/ last <= i
    <3>1. Turned(first, middle, last, i) = i
      BY <2>1 DEF Turned
    <3> QED
      BY <3>1
  <2>2. CASE first <= i /\ i < middle
    <3>1. i + (last - middle) \in 1..n
      BY <2>2
    <3>2. Turned(first, middle, last, i + (last - middle)) = i
      BY <2>2 DEF Turned
    <3> QED
      BY <3>1, <3>2
  <2>3. CASE middle <= i /\ i < last
    <3>1. (i - middle) + first \in 1..n
      BY <2>3
    <3>2. Turned(first, middle, last, (i - middle) + first) = i
      BY <2>3 DEF Turned
    <3> QED
      BY <3>1, <3>2
  <2>4. i < first \/ last <= i \/ (first <= i /\ i < middle) \/ (middle <= i /\ i < last)
    OBVIOUS
  <2> QED
    BY <2>1, <2>2, <2>3, <2>4
<1>2. \A k \in 1..n : Turned(first, middle, last, k) \in 1..n
  BY DEF Turned
<1>3. ASSUME NEW k \in 1..n, NEW l \in 1..n, k < l
      PROVE  LET i == Turned(first, middle, last, k)
                 j == Turned(first, middle, last, l)
             IN  \/ i < j /\ ~(first <= i /\ i < middle /\ middle <= j /\ j < last)
                 \/ middle <= i /\ i < last /\ first <= j /\ j < middle
  BY <1>3 DEF Turned
<1> QED
  BY <1>1, <1>2, <1>3

(* The strings of a set are sorted. *)
LEMMA StringsSorted ==
  ASSUME NEW S \in SUBSET String, IsFiniteSet(S)
  PROVE  Ascends(S, Ascending(StringBefore, S), Alphabetical)
<1>1. \A x, y \in S : <<x, y>> \in Alphabetical <=> StringBefore(x, y)
  BY Zenon DEF Alphabetical, String
<1>2. Orders(Alphabetical, S)
  <2>1. \A x, y, z \in S :
          /\ StringBefore(x, y) => ~StringBefore(y, x)
          /\ StringBefore(x, y) /\ StringBefore(y, z) => StringBefore(x, z)
          /\ x # y => StringBefore(x, y) \/ StringBefore(y, x)
    BY StringsOrdered
  <2> QED
    BY <1>1, <2>1, Zenon DEF Orders
<1>3. \A x \in S : {y \in S : StringBefore(y, x)} = {y \in S : <<y, x>> \in Alphabetical}
  BY <1>1
<1> DEFINE C(p) == CHOOSE x \in S : Cardinality({y \in S : StringBefore(y, x)}) = p - 1
           D(p) == CHOOSE x \in S : Cardinality({y \in S : <<y, x>> \in Alphabetical}) = p - 1
<1>4. \A p : C(p) = D(p)
  BY <1>3
<1>5. Ascending(StringBefore, S) = [p \in 1..Cardinality(S) |-> D(p)]
  <2>1. Ascending(StringBefore, S) = [p \in 1..Cardinality(S) |-> C(p)]
    BY Zenon DEF Ascending
  <2> HIDE DEF C, D
  <2> QED
    BY <1>4, <2>1
<1> QED
  BY <1>2, <1>5, SetSorted

-----------------------------------------------------------------------------
(* Escaping *)

Piece(c) == IF c = Word THEN <<Word, Under>> ELSE <<c>>
Pieces(s) == [k \in DOMAIN s |-> Piece(s[k])]

LEMMA PiecesAre ==
  ASSUME NEW s \in String
  PROVE  Pieces(s) \in Seq(String) /\ Len(Pieces(s)) = Len(s) /\ Escape(s) = FlattenSeq(Pieces(s))
<1>1. \A k \in 1..Len(s) : Piece(s[k]) \in String
  BY CharactersDistinct DEF Piece, String
<1>2. Escape(s) = FlattenSeq(Pieces(s))
  BY DEF Escape, Pieces, Piece
<1> QED
  BY <1>1, <1>2 DEF Pieces, String

LEMMA EscapeJoins ==
  ASSUME NEW a \in String, NEW b \in String
  PROVE  /\ Escape(a) \in String
         /\ Escape(a \o b) = Escape(a) \o Escape(b)
<1>1. a \o b \in String
  BY DEF String
<1>2. Pieces(a \o b) = Pieces(a) \o Pieces(b)
  <2> DEFINE x == Pieces(a \o b)
             y == Pieces(a) \o Pieces(b)
  <2>1. /\ Len(a \o b) = Len(a) + Len(b) /\ Len(a) \in Nat /\ Len(b) \in Nat
        /\ \A k \in 1..Len(a) + Len(b) : (a \o b)[k] = IF k <= Len(a) THEN a[k] ELSE b[k - Len(a)]
    BY DEF String
  <2>2. x \in Seq(String) /\ Len(x) = Len(a) + Len(b) /\ y \in Seq(String) /\ Len(y) = Len(a) + Len(b)
    <3>1. /\ Pieces(a) \in Seq(String) /\ Pieces(b) \in Seq(String)
          /\ Len(Pieces(a)) = Len(a) /\ Len(Pieces(b)) = Len(b)
      BY PiecesAre
    <3>2. y \in Seq(String) /\ Len(y) = Len(a) + Len(b)
      BY <2>1, <3>1, SMTT(30)
    <3> QED
      BY <1>1, <2>1, <3>2, PiecesAre
  <2>3. \A k \in 1..Len(a) + Len(b) :
          y[k] = IF k <= Len(a) THEN Pieces(a)[k] ELSE Pieces(b)[k - Len(a)]
    <3>1. /\ Pieces(a) \in Seq(String) /\ Pieces(b) \in Seq(String)
          /\ Len(Pieces(a)) = Len(a) /\ Len(Pieces(b)) = Len(b)
      BY PiecesAre
    <3> QED
      BY <2>1, <3>1
  <2>4. /\ \A k \in 1..Len(a) + Len(b) : x[k] = Piece((a \o b)[k])
        /\ \A k \in 1..Len(a) : Pieces(a)[k] = Piece(a[k])
        /\ \A k \in 1..Len(b) : Pieces(b)[k] = Piece(b[k])
    BY <1>1, <2>1, SMTT(30) DEF Pieces, String
  <2>5. ASSUME NEW k \in 1..Len(a) + Len(b) PROVE x[k] = y[k]
    <3>1. k <= Len(a) => k \in 1..Len(a)
      BY <2>1
    <3>2. ~(k <= Len(a)) => k - Len(a) \in 1..Len(b)
      BY <2>1
    <3> HIDE DEF x, y
    <3> QED
      BY <2>1, <2>3, <2>4, <3>1, <3>2
  <2> HIDE DEF x, y
  <2>6. x = y
    BY <2>2, <2>5, SeqEqual
  <2> QED
    BY <2>6 DEF x, y
<1>3. FlattenSeq(Pieces(a) \o Pieces(b)) = FlattenSeq(Pieces(a)) \o FlattenSeq(Pieces(b))
  BY PiecesAre, FlattenJoins DEF String
<1>4. Escape(a) \in String
  <2>1. Pieces(a) \in Seq(Seq(Nat))
    BY PiecesAre DEF String
  <2>2. PICK f : Concatenates(Nat, Pieces(a), f)
    BY <2>1, FlattenIs
  <2>3. Len(Pieces(a)) \in 0..Len(Pieces(a))
    BY <2>1
  <2> QED
    BY <2>2, <2>3, PiecesAre DEF Concatenates, String
<1> QED
  BY <1>1, <1>2, <1>3, <1>4, PiecesAre

LEMMA EscapeOf ==
  /\ Escape(<<>>) = <<>>
  /\ \A c \in Nat : Escape(<<c>>) = Piece(c)
  /\ \A s \in String : (\A k \in DOMAIN s : s[k] # Word) => Escape(s) = s
<1>1. Escape(<<>>) = <<>>
  <2>1. <<>> \in String /\ Pieces(<<>>) = <<>>
    BY DEF Pieces, String
  <2> QED
    BY <2>1, PiecesAre, FlattenNone
<1>2. ASSUME NEW c \in Nat PROVE Escape(<<c>>) = Piece(c)
  <2>1. <<c>> \in String /\ Pieces(<<c>>) = <<Piece(c)>> /\ Piece(c) \in Seq(Nat)
    BY CharactersDistinct DEF Pieces, String, Piece
  <2> QED
    BY <2>1, PiecesAre, FlattenOne
<1>3. ASSUME NEW s \in String, \A k \in DOMAIN s : s[k] # Word PROVE Escape(s) = s
  <2>1. Pieces(s) = [k \in DOMAIN s |-> <<s[k]>>]
    BY <1>3 DEF Pieces, Piece
  <2> QED
    BY <2>1, PiecesAre, FlattenOnes DEF String
<1> QED
  BY <1>1, <1>2, <1>3

(* A string is what comes before a place, the character there, and the rest. *)
LEMMA TakenApart ==
  ASSUME NEW T, NEW s \in Seq(T), NEW k \in 1..Len(s)
  PROVE  LET a == SubSeq(s, 1, k - 1)
             b == SubSeq(s, k + 1, Len(s))
         IN  /\ a \in Seq(T) /\ b \in Seq(T) /\ s = a \o (<<s[k]>> \o b)
             /\ Len(a) = k - 1 /\ \A j \in 1..k - 1 : a[j] = s[j]
             /\ Len(b) = Len(s) - k /\ \A j \in 1..Len(s) - k : b[j] = s[k + j]
<1> DEFINE a == SubSeq(s, 1, k - 1)
           b == SubSeq(s, k + 1, Len(s))
           n == Len(s)
<1>1. n \in Nat /\ s \in Seq(T) /\ k \in 1..n /\ k \in Nat /\ s[k] \in T
  OBVIOUS
<1>2. a \in Seq(T) /\ Len(a) = k - 1 /\ \A j \in 1..k - 1 : a[j] = s[1 + (j - 1)]
  <2>1. 1 \in Nat \ {0} /\ 1 <= k /\ k <= n + 1
    BY <1>1
  <2> QED
    BY <1>1, <2>1, PartIs
<1>3. b \in Seq(T) /\ Len(b) = n - k /\ \A j \in 1..n - k : b[j] = s[k + j]
  <2>1. \A i \in k + 1..n : s[i] \in T
    BY <1>1
  <2>2. k + 1 \in Int /\ n \in Int
    BY <1>1
  <2>3. b \in Seq(T)
    BY <2>1, <2>2, SubSeqProperties
  <2>4. Len(b) = n - k
    BY <1>1
  <2>5. \A j \in 1..n - k : b[j] = s[k + j]
    BY <1>1
  <2> QED
    BY <2>3, <2>4, <2>5
<1>4. \A j \in Nat : 1 + (j - 1) = j
  OBVIOUS
<1>5. /\ \A j \in 1..k - 1 : a[j] = s[j]
      /\ \A j \in 1..n - k : b[j] = s[k + j]
  BY <1>2, <1>3, <1>4
<1> HIDE DEF a, b, n
<1>6. s = (a \o <<s[k]>>) \o b
  <2> DEFINE c == a \o <<s[k]>>
             d == c \o b
  <2>1. c \in Seq(T) /\ Len(c) = k /\ \A j \in 1..k : c[j] = s[j]
    <3>1. \A j \in 1..k : j \in 1..k - 1 \/ j = k
      BY <1>1
    <3>2. Joins(T, a, <<s[k]>>, k - 1, k)
      BY <1>1, <1>2 DEF Joins
    <3>6. Joined(T, c, a, <<s[k]>>, k - 1, k)
      BY <3>2, JoinIs
    <3>3. c \in Seq(T) /\ Len(c) = k
          /\ \A j \in 1..k : c[j] = IF j <= k - 1 THEN a[j] ELSE <<s[k]>>[j - (k - 1)]
      BY <3>6, Zenon DEF Joined
    <3>4. \A j \in 1..k : j <= k - 1 <=> j # k
      BY <1>1
    <3>5. <<s[k]>>[k - (k - 1)] = s[k]
      BY <1>1
    <3> QED
      BY <1>5, <3>1, <3>3, <3>4, <3>5
  <2> HIDE DEF c
  <2>2. d \in Seq(T) /\ Len(d) = n /\ \A j \in 1..n : d[j] = IF j <= k THEN c[j] ELSE b[j - k]
    <3>1. Joins(T, c, b, k, n)
      BY <1>1, <1>3, <2>1 DEF Joins
    <3>2. Joined(T, d, c, b, k, n)
      BY <3>1, JoinIs
    <3> QED
      BY <3>2, Zenon DEF Joined
  <2> HIDE DEF d
  <2>3. ASSUME NEW j \in 1..n PROVE d[j] = s[j]
    <3>1. CASE j <= k
      <4>1. j \in 1..k
        BY <3>1
      <4> QED
        BY <2>1, <2>2, <3>1, <4>1
    <3>2. CASE ~(j <= k)
      <4>1. j - k \in 1..n - k /\ k + (j - k) = j
        BY <1>1, <3>2
      <4>2. b[j - k] = s[j]
        BY <1>5, <4>1
      <4> QED
        BY <2>2, <3>2, <4>2
    <3> QED
      BY <3>1, <3>2
  <2>4. d = s
    BY <1>1, <2>2, <2>3, SeqEqual DEF n
  <2> QED
    BY <2>4 DEF c, d
<1>7. s = a \o (<<s[k]>> \o b)
  <2> DEFINE c == <<s[k]>>
  <2>1. a \in Seq(T) /\ b \in Seq(T) /\ c \in Seq(T)
    BY <1>1, <1>2, <1>3
  <2> HIDE DEF c
  <2>2. (a \o c) \o b = a \o (c \o b)
    BY <2>1, SMTT(30)
  <2> QED
    BY <1>6, <2>2 DEF c
<1> QED
  BY <1>2, <1>3, <1>5, <1>7 DEF a, b, n

(* What two concatenations have in common. *)
LEMMA JoinBegins ==
  ASSUME NEW x \in String, NEW y \in String
  PROVE  /\ x \o y \in String /\ Len(x \o y) = Len(x) + Len(y) /\ Begins(x, x \o y)
         /\ y # <<>> => Len(x) < Len(x \o y)
         /\ \A z \in String : y # <<>> /\ z # <<>> /\ y[1] < z[1] => Below(x \o y, x \o z)
<1>1. x \o y \in String /\ Len(x \o y) = Len(x) + Len(y) /\ Len(x) \in Nat /\ Len(y) \in Nat
  BY DEF String
<1>2. \A k \in 1..Len(x) : (x \o y)[k] = x[k]
  BY DEF String
<1>3. Begins(x, x \o y)
  BY <1>1, <1>2 DEF Begins
<1>4. y # <<>> => 1 \in 1..Len(y) /\ (x \o y)[Len(x) + 1] = y[1] /\ Len(x) < Len(x \o y)
  BY <1>1 DEF String
<1>5. ASSUME NEW z \in String, y # <<>>, z # <<>>, y[1] < z[1]
      PROVE  Below(x \o y, x \o z)
  <2>1. /\ Len(x \o z) = Len(x) + Len(z) /\ Len(z) \in Nat /\ Len(z) > 0
        /\ (x \o z)[Len(x) + 1] = z[1]
    BY <1>5 DEF String
  <2>2. \A k \in 1..Len(x) : (x \o z)[k] = x[k]
    BY DEF String
  <2>3. Len(y) > 0
    BY <1>1, <1>4, <1>5
  <2> DEFINE k == Len(x) + 1
  <2>4. k \in Nat /\ k \in 1..Len(x \o y) /\ k \in 1..Len(x \o z)
        /\ \A j \in 1..k - 1 : j \in 1..Len(x)
    BY <1>1, <2>1, <2>3
  <2>5. (x \o y)[k] < (x \o z)[k]
    BY <1>4, <1>5, <2>1
  <2>6. \A j \in 1..k - 1 : (x \o y)[j] = (x \o z)[j]
    BY <1>2, <2>2, <2>4
  <2> HIDE DEF k
  <2>7. BelowAt(x \o y, x \o z, k)
    BY <2>4, <2>5, <2>6, Zenon DEF BelowAt
  <2> QED
    BY <2>4, <2>7, Zenon DEF Below
<1> QED
  BY <1>1, <1>3, <1>4, <1>5

(* The escaped string is that of what comes before a place, then the         *)
(* character there and more.                                                  *)
LEMMA EscapedApart ==
  ASSUME NEW s \in String, NEW k \in 1..Len(s)
  PROVE  \E y \in String : /\ y # <<>> /\ y[1] = s[k]
                           /\ Escape(s) = Escape(SubSeq(s, 1, k - 1)) \o y
<1> DEFINE a == SubSeq(s, 1, k - 1)
           b == SubSeq(s, k + 1, Len(s))
           c == <<s[k]>>
           y == Piece(s[k]) \o Escape(b)
<1>1. s \in Seq(Nat)
  BY DEF String
<1>2. a \in String /\ b \in String /\ s = a \o (c \o b)
  BY <1>1, TakenApart, Zenon DEF String
<1>3. s[k] \in Nat /\ c \in String
  BY <1>1 DEF String
<1>4. Escape(c) = Piece(s[k]) /\ Piece(s[k]) \in String /\ Piece(s[k]) # <<>>
      /\ Piece(s[k])[1] = s[k] /\ Len(Piece(s[k])) >= 1
  BY <1>3, EscapeOf, CharactersDistinct DEF Piece, String
<1> HIDE DEF a, b, c
<1>5. c \o b \in String
  BY <1>2, <1>3 DEF String
<1>6. Escape(s) = Escape(a) \o Escape(c \o b)
  BY <1>2, <1>5, EscapeJoins
<1>7. Escape(c \o b) = y /\ Escape(b) \in String
  <2>1. Escape(c \o b) = Escape(c) \o Escape(b)
    BY <1>2, <1>3, EscapeJoins
  <2>2. Escape(b) \in String
    BY <1>2, EscapeJoins
  <2> QED
    BY <1>4, <2>1, <2>2
<1> DEFINE v == Piece(s[k])
           w == Escape(b)
<1>8. v \in Seq(Nat) /\ w \in Seq(Nat) /\ Len(v) >= 1 /\ v[1] = s[k]
  BY <1>4, <1>7 DEF String
<1>9. y = v \o w
  OBVIOUS
<1> HIDE DEF v, w, y
<1>10. v \o w \in Seq(Nat) /\ v \o w # <<>> /\ (v \o w)[1] = s[k]
  <2>1. v \o w \in Seq(Nat) /\ Len(v \o w) >= 1 /\ (v \o w)[1] = v[1]
    BY <1>8
  <2> QED
    BY <1>8, <2>1
<1> QED
  BY <1>6, <1>7, <1>9, <1>10 DEF a, String

LEMMA EscapeKeeps ==
  ASSUME NEW a \in String, NEW b \in String
  PROVE  /\ Below(a, b) => Below(Escape(a), Escape(b))
         /\ Begins(a, b) => Begins(Escape(a), Escape(b))
         /\ Begins(a, b) /\ Len(a) < Len(b) => Len(Escape(a)) < Len(Escape(b))
<1> DEFINE Same(k) == SubSeq(a, 1, k - 1) = SubSeq(b, 1, k - 1)
<1>1. Len(a) \in Nat /\ Len(b) \in Nat /\ a \in Seq(Nat) /\ b \in Seq(Nat)
      /\ Escape(a) \in String /\ Escape(b) \in String
  <2>1. Escape(a) \in String /\ Escape(b) \in String
    BY EscapeJoins
  <2> QED
    BY <2>1 DEF String
<1>2. Below(a, b) => Below(Escape(a), Escape(b))
  <2> SUFFICES ASSUME NEW k \in Nat, BelowAt(a, b, k) PROVE Below(Escape(a), Escape(b))
    BY DEF Below
  <2>1. k \in 1..Len(a) /\ k \in 1..Len(b) /\ a[k] < b[k] /\ \A j \in 1..k - 1 : a[j] = b[j]
    BY DEF BelowAt
  <2> DEFINE x == SubSeq(a, 1, k - 1)
             x2 == SubSeq(b, 1, k - 1)
  <2>2. x \in Seq(Nat) /\ Len(x) = k - 1 /\ \A j \in 1..k - 1 : x[j] = a[j]
    BY <1>1, <2>1, TakenApart, Zenon
  <2>3. x2 \in Seq(Nat) /\ Len(x2) = k - 1 /\ \A j \in 1..k - 1 : x2[j] = b[j]
    BY <1>1, <2>1, TakenApart, Zenon
  <2>4. PICK y \in String : y # <<>> /\ y[1] = a[k] /\ Escape(a) = Escape(x) \o y
    BY <2>1, EscapedApart, Zenon
  <2>5. PICK z \in String : z # <<>> /\ z[1] = b[k] /\ Escape(b) = Escape(x2) \o z
    BY <2>1, EscapedApart, Zenon
  <2> HIDE DEF x, x2
  <2>6. x = x2
    <3>1. Len(x) = Len(x2) /\ \A j \in 1..Len(x) : x[j] = x2[j]
      BY <2>1, <2>2, <2>3
    <3> QED
      BY <2>2, <2>3, <3>1, SeqEqual
  <2>7. Escape(x) \in String
    BY <2>2, EscapeJoins DEF String
  <2>8. y[1] < z[1]
    BY <2>1, <2>4, <2>5
  <2>9. Below(Escape(x) \o y, Escape(x) \o z)
    BY <2>4, <2>5, <2>7, <2>8, JoinBegins
  <2> QED
    BY <2>4, <2>5, <2>6, <2>9
<1>3. ASSUME Begins(a, b), Len(a) < Len(b)
      PROVE  Begins(Escape(a), Escape(b)) /\ Len(Escape(a)) < Len(Escape(b))
  <2>1. PICK k \in 1..Len(b) : k - 1 = Len(a)
    BY <1>1, <1>3
  <2> DEFINE x == SubSeq(b, 1, k - 1)
  <2>2. x \in Seq(Nat) /\ Len(x) = k - 1 /\ \A j \in 1..k - 1 : x[j] = b[j]
    BY <1>1, <2>1, TakenApart, Zenon
  <2>3. PICK z \in String : z # <<>> /\ z[1] = b[k] /\ Escape(b) = Escape(x) \o z
    BY <2>1, EscapedApart, Zenon
  <2> HIDE DEF x
  <2>4. x = a
    <3>1. Len(x) = Len(a) /\ \A j \in 1..Len(x) : x[j] = a[j]
      BY <1>3, <2>1, <2>2 DEF Begins
    <3> QED
      BY <1>1, <2>2, <3>1, SeqEqual
  <2> QED
    BY <1>1, <2>3, <2>4, JoinBegins
<1>4. ASSUME Begins(a, b), ~(Len(a) < Len(b)) PROVE a = b
  <2>1. Len(a) = Len(b) /\ \A j \in 1..Len(a) : a[j] = b[j]
    BY <1>1, <1>4 DEF Begins
  <2> QED
    BY <1>1, <2>1, SeqEqual
<1>5. Begins(Escape(a), Escape(a))
  BY <1>1 DEF Begins, String
<1> QED
  BY <1>2, <1>3, <1>4, <1>5

LEMMA EscapeOrdered ==
  ASSUME NEW a \in String, NEW b \in String
  PROVE  /\ StringBefore(a, b) => StringBefore(Escape(a), Escape(b))
         /\ Escape(a) = Escape(b) => a = b
<1>1. Escape(a) \in String /\ Escape(b) \in String
  BY EscapeJoins
<1>2. StringBefore(a, b) => StringBefore(Escape(a), Escape(b))
  BY <1>1, BeforeIs, EscapeKeeps
<1>3. StringBefore(b, a) => StringBefore(Escape(b), Escape(a))
  BY <1>1, BeforeIs, EscapeKeeps
<1>4. StringBefore(a, b) \/ StringBefore(b, a) \/ a = b
  BY StringsOrdered
<1>5. ~StringBefore(Escape(a), Escape(a)) /\ ~StringBefore(Escape(b), Escape(b))
  BY <1>1, StringsOrdered
<1> QED
  BY <1>2, <1>3, <1>4, <1>5

(* A string without "namespace" compares to the escaped string as to the    *)
(* string.                                                                    *)
LEMMA EscapePlain ==
  ASSUME NEW p \in String, NEW q \in String, \A k \in DOMAIN q : q[k] # Word
  PROVE  /\ Below(Escape(p), q) <=> Below(p, q)
         /\ Below(q, Escape(p)) <=> Below(q, p)
         /\ Begins(q, Escape(p)) <=> Begins(q, p)
         /\ Begins(Escape(p), q) <=> Begins(p, q)
         /\ Escape(p) = q <=> p = q
<1>1. Escape(q) = q /\ Escape(p) \in String
  BY EscapeOf, EscapeJoins
<1>2. /\ Below(p, q) => Below(Escape(p), q)
      /\ Below(q, p) => Below(q, Escape(p))
      /\ Begins(q, p) => Begins(q, Escape(p))
      /\ Begins(p, q) => Begins(Escape(p), q)
      /\ Begins(q, p) /\ Len(q) < Len(p) => Len(q) < Len(Escape(p))
      /\ Begins(p, q) /\ Len(p) < Len(q) => Len(Escape(p)) < Len(q)
  BY <1>1, EscapeKeeps
<1>3. Escape(p) = q <=> p = q
  BY <1>1, EscapeOrdered
<1>4. Begins(p, q) /\ ~Begins(q, p) => ~Begins(q, Escape(p))
  <2>1. Begins(p, q) /\ Begins(q, Escape(p)) => q = Escape(p)
    BY <1>1, <1>2, BelowIs
  <2>2. p = q => (Begins(p, q) => Begins(q, p))
    OBVIOUS
  <2> QED
    BY <1>3, <2>1, <2>2
<1>5. Begins(q, p) /\ ~Begins(p, q) => ~Begins(Escape(p), q)
  <2>1. Begins(q, p) /\ Begins(Escape(p), q) => q = Escape(p)
    BY <1>1, <1>2, BelowIs
  <2>2. p = q => (Begins(q, p) => Begins(p, q))
    OBVIOUS
  <2> QED
    BY <1>3, <2>1, <2>2
<1>6. Below(p, q) \/ Below(q, p) \/ Begins(p, q) \/ Begins(q, p)
  BY Compared
<1>7. /\ Below(Escape(p), q) => ~Below(q, Escape(p)) /\ ~Begins(Escape(p), q) /\ ~Begins(q, Escape(p))
      /\ Below(q, Escape(p)) => ~Begins(Escape(p), q) /\ ~Begins(q, Escape(p))
      /\ Below(p, q) => ~Begins(p, q) /\ ~Begins(q, p) /\ ~Below(q, p)
      /\ Below(q, p) => ~Begins(p, q) /\ ~Begins(q, p)
  BY <1>1, BelowIs
<1> QED
  BY <1>2, <1>3, <1>4, <1>5, <1>6, <1>7

-----------------------------------------------------------------------------
(* The groups *)

LEMMA ToSetIs ==
  ASSUME NEW T, NEW s \in Seq(T)
  PROVE  /\ \A x : x \in ToSet(s) <=> \E k \in 1..Len(s) : s[k] = x
         /\ ToSet(s) \subseteq T
  BY DEF ToSet

LEMMA JavaFacts ==
  /\ Java \in String /\ JavaLang \in String
  /\ Len(Java) \in Nat /\ Len(Java) >= 1 /\ Len(Java) < Len(JavaLang)
  /\ Begins(Java, JavaLang) /\ JavaLang[Len(Java) + 1] = Slash
  /\ \A k \in 1..Len(Java) : Java[k] # Slash
  /\ \A k \in DOMAIN Java : Java[k] # Word
  /\ \A k \in DOMAIN JavaLang : JavaLang[k] # Word
<1> DEFINE j == Java \o <<Slash>>
<1>1. Java \in Seq(Nat) /\ JavaLang \in Seq(Nat) /\ Java # <<>> /\ Slash \in Nat
  BY JavaIs, CharactersDistinct DEF Part
<1>2. \A k \in 1..Len(Java) : Java[k] # Slash
  <2>1. Slash \notin ToSet(Java)
    BY JavaIs DEF Part
  <2> QED
    BY <1>1, <2>1 DEF ToSet
<1>3. \A k \in DOMAIN JavaLang : JavaLang[k] # Word
  <2>1. Word \notin ToSet(JavaLang)
    BY JavaIs
  <2> QED
    BY <2>1 DEF ToSet
<1>4. /\ j \in Seq(Nat) /\ Len(j) = Len(Java) + 1 /\ j[Len(Java) + 1] = Slash
      /\ \A k \in 1..Len(Java) : j[k] = Java[k]
      /\ Len(Java) \in Nat /\ Len(Java) >= 1 /\ Len(JavaLang) \in Nat
  BY <1>1
<1>5. Begins(j, JavaLang)
  <2>1. IsPrefix(j, JavaLang)
    BY JavaIs
  <2> QED
    BY <1>1, <1>4, <2>1, PrefixIs DEF String
<1> HIDE DEF j
<1>6. /\ Len(Java) < Len(JavaLang) /\ JavaLang[Len(Java) + 1] = Slash
      /\ \A k \in 1..Len(Java) : Java[k] = JavaLang[k]
  BY <1>4, <1>5 DEF Begins
<1>7. \A k \in DOMAIN Java : Java[k] # Word
  <2>1. DOMAIN Java = 1..Len(Java) /\ \A k \in 1..Len(Java) : k \in DOMAIN JavaLang
    BY <1>1, <1>4, <1>6
  <2> QED
    BY <1>3, <1>6, <2>1
<1> QED
  BY <1>1, <1>2, <1>3, <1>4, <1>6, <1>7 DEF String, Begins

LEMMA GroupIs ==
  ASSUME NEW x \in String
  PROVE  /\ Group(x) = IF x = Java THEN 0 ELSE IF Begins(JavaLang, x) THEN 1
                       ELSE IF Begins(Java, x) THEN 2 ELSE 3
         /\ Begins(JavaLang, x) => Begins(Java, x) /\ x # Java
         /\ Begins(Java, Java) /\ Beginning(Java, JavaLang)
         /\ Beginning(x, Java) => Beginning(x, JavaLang) /\ x # Java
         /\ Begins(Java, x) => x = Java \/ StringBefore(Java, x)
<1>1. Group(x) = IF x = Java THEN 0 ELSE IF Begins(JavaLang, x) THEN 1
                 ELSE IF Begins(Java, x) THEN 2 ELSE 3
  BY JavaFacts, PrefixIs DEF Group
<1>2. Len(x) \in Nat /\ Len(JavaLang) \in Nat
  BY JavaFacts DEF String
<1>3. Begins(JavaLang, x) => Begins(Java, x) /\ x # Java
  <2>1. Begins(JavaLang, x) => Begins(Java, x)
    BY JavaFacts, BelowIs
  <2>2. Begins(JavaLang, x) => Len(Java) < Len(x)
    BY <1>2, JavaFacts DEF Begins
  <2> QED
    BY <1>2, JavaFacts, <2>1, <2>2
<1>4. Beginning(x, Java) => Beginning(x, JavaLang) /\ x # Java
  <2>1. Begins(x, Java) => Begins(x, JavaLang)
    BY JavaFacts, BelowIs
  <2> QED
    BY <1>2, <2>1, JavaFacts DEF Beginning
<1>5. Begins(Java, Java) /\ Beginning(Java, JavaLang)
  BY JavaFacts DEF Beginning, Begins
<1>6. Begins(Java, x) => x = Java \/ StringBefore(Java, x)
  <2> SUFFICES ASSUME Begins(Java, x), x # Java PROVE StringBefore(Java, x)
    OBVIOUS
  <2>1. Len(Java) <= Len(x)
    BY DEF Begins
  <2>2. Len(Java) # Len(x)
    <3> SUFFICES ASSUME Len(Java) = Len(x) PROVE FALSE
      OBVIOUS
    <3>1. \A k \in 1..Len(Java) : Java[k] = x[k]
      BY DEF Begins
    <3> QED
      BY <3>1, JavaFacts, SeqEqual DEF String
  <2>3. Len(Java) < Len(x)
    BY <1>2, <2>1, <2>2, JavaFacts
  <2> QED
    BY <2>3, JavaFacts, BeforeIs
<1> QED
  BY <1>1, <1>3, <1>4, <1>5, <1>6

(* What the searches need of the sorted strings s to find what they look    *)
(* for, when java/lang goes to the place first: a beginning of java/lang is    *)
(* only java, once, and only if it stays in front; and then another string     *)
(* comes between the two.                                                      *)
Sortable(s, first) ==
  /\ s \in Seq(String) /\ Rising(s, 1, Len(s) + 1) /\ first \in {1, 2}
  /\ \A m \in 1..Len(s) : Beginning(s[m], JavaLang) => first = 2 /\ s[m] = Java
  /\ \A l, m \in 1..Len(s) : s[l] = Java /\ s[m] = Java => l = m
  /\ \A m \in 1..Len(s) : Begins(JavaLang, s[m]) /\ first = 2 =>
       \E l \in 1..Len(s) : s[l] = Java
  /\ \A m \in 1..Len(s) : s[m] = Java =>
       \E l \in 1..Len(s) : Below(s[l], JavaLang) /\ Begins(Java, s[l])

(* The range of java has what begins with it. *)
LEMMA JavaFound ==
  ASSUME NEW s, NEW first, Sortable(s, first)
  PROVE  \E p, q \in 1..Len(s) + 1 :
           /\ EqualRange(s, <<1, Len(s) + 1>>, Java) = <<p, q>> /\ p <= q
           /\ \A m \in 1..Len(s) : p <= m /\ m < q <=> Begins(Java, s[m])
<1> DEFINE n == Len(s)
           hi == n + 1
<1>1. s \in Seq(String) /\ Rising(s, 1, n + 1)
  BY DEF Sortable
<1>2. n \in Nat /\ hi \in Nat /\ 1 <= hi /\ hi <= Len(s) + 1 /\ 1..hi - 1 = 1..n
      /\ 1 \in Nat \ {0}
  BY <1>1
<1>3. \A m \in 1..n : s[m] \in String /\ ~Beginning(s[m], Java)
  <2> SUFFICES ASSUME NEW m \in 1..n PROVE s[m] \in String /\ ~Beginning(s[m], Java)
    OBVIOUS
  <2>1. s[m] \in String
    BY <1>1
  <2> QED
    BY <2>1, GroupIs DEF Sortable
<1>4. \E p, q \in 1..hi :
        /\ EqualRange(s, <<1, hi>>, Java) = <<p, q>> /\ p <= q
        /\ \A m \in 1..hi - 1 : ~Beginning(s[m], Java) =>
             /\ m < p <=> Below(s[m], Java)
             /\ q <= m <=> Below(Java, s[m])
             /\ p <= m /\ m < q <=> Begins(Java, s[m])
        /\ \A m \in 1..hi - 1 : Beginning(s[m], Java) => m + 1 < p
  <2>1. \A m \in 1..hi - 1 : ~Beginning(s[m], Java)
    BY <1>2, <1>3
  <2>2. Java \in String /\ Rising(s, 1, hi)
    BY <1>1, JavaFacts
  <2> HIDE DEF hi
  <2> QED
    BY <1>1, <1>2, <2>1, <2>2, SearchSorted, SMTT(30)
<1> QED
  BY <1>2, <1>3, <1>4

(* What a rotation of s has. *)
Moves(s, t, from) ==
  /\ from \in [1..Len(s) -> 1..Len(s)]
  /\ \A i \in 1..Len(s) : \E k \in 1..Len(s) : from[k] = i
  /\ \A k, l \in 1..Len(s) : k # l => from[k] # from[l]
  /\ \A k \in 1..Len(s) : t[k] = s[from[k]]

Rotated(T, s, t, f, middle, last) ==
  /\ t \in Seq(T) /\ Len(t) = Len(s)
  /\ Moves(s, t, [k \in 1..Len(s) |-> Turned(f, middle, last, k)])

LEMMA RotateMoves ==
  ASSUME NEW T, NEW s \in Seq(T), NEW f, NEW middle, NEW last, Ranges(Len(s), f, middle, last)
  PROVE  Rotated(T, s, Rotate(s, f, middle, last), f, middle, last)
<1> DEFINE t == Rotate(s, f, middle, last)
           n == Len(s)
           from == [k \in 1..n |-> Turned(f, middle, last, k)]
<1>1. n \in Nat /\ middle \in Nat
  BY DEF Ranges
<1>3. t \in Seq(T) /\ Len(t) = Len(s) /\ \A k \in 1..Len(s) : t[k] = s[Turned(f, middle, last, k)]
  BY RotateIs
<1>4. /\ \A k \in 1..n : Turned(f, middle, last, k) \in 1..n
      /\ \A i \in 1..n : \E k \in 1..n : Turned(f, middle, last, k) = i
      /\ \A k, l \in 1..n : k < l =>
           LET i == Turned(f, middle, last, k)
               j == Turned(f, middle, last, l)
           IN  \/ i < j /\ ~(f <= i /\ i < middle /\ middle <= j /\ j < last)
               \/ middle <= i /\ i < last /\ f <= j /\ j < middle
  <2> HIDE DEF n
  <2>1. Ranges(n, f, middle, last)
    BY DEF n
  <2> QED
    BY <2>1, TurnedIs
<1> HIDE DEF t
<1>5. ASSUME NEW k \in 1..n, NEW l \in 1..n, k < l
      PROVE  Turned(f, middle, last, k) # Turned(f, middle, last, l)
  <2> DEFINE i == Turned(f, middle, last, k)
             j == Turned(f, middle, last, l)
  <2>1. i \in 1..n /\ j \in 1..n
    BY <1>4
  <2>2. i < j \/ (middle <= i /\ j < middle)
    BY <1>4, <1>5
  <2> HIDE DEF i, j, n
  <2>3. i # j
    BY <1>1, <2>1, <2>2
  <2> QED
    BY <2>3 DEF i, j
<1>6. \A k, l \in 1..n : k # l => from[k] # from[l]
  <2>1. \A k, l \in 1..n : k # l => k < l \/ l < k
    BY <1>1
  <2> QED
    BY <1>5, <2>1
<1>7. Moves(s, t, from)
  BY <1>3, <1>4, <1>6 DEF Moves
<1> QED
  BY <1>3, <1>7 DEF t, Rotated

(* std::rotate of nothing. *)
LEMMA RotateNothing ==
  ASSUME NEW s, NEW first \in {1, 2}, NEW p \in Nat, NEW q \in Nat, 1 <= p, p <= q,
         q <= Len(s) + 1, Len(s) \in Nat, Rotates(first, p, q)
  PROVE  LET f == IF p < first THEN 1 ELSE first
         IN  Rotate(s, first, p, q) = Rotate(s, f, p, q) /\ Ranges(Len(s), f, p, q)
  BY DEF Rotates, Rotate, Ranges

(* Where the elements of a rotated list come from. *)
LEMMA TurnedOrder ==
  ASSUME NEW n, NEW f, NEW p, NEW q, Ranges(n, f, p, q),
         NEW k \in 1..n, NEW l \in 1..n, k < l,
         NEW i, i = Turned(f, p, q, k), NEW j, j = Turned(f, p, q, l)
  PROVE  /\ i \in 1..n /\ j \in 1..n
         /\ \/ i < j /\ ~(f <= i /\ i < p /\ p <= j /\ j < q)
            \/ p <= i /\ i < q /\ f <= j /\ j < p
<1>1. i \in 1..n /\ j \in 1..n
  BY TurnedIs
<1>2. \/ i < j /\ ~(f <= i /\ i < p /\ p <= j /\ j < q)
      \/ p <= i /\ i < q /\ f <= j /\ j < p
  BY TurnedIs
<1> QED
  BY <1>1, <1>2

(* The first c places of t are for what begins with java; before and behind *)
(* them the strings are in order.                                            *)
Fronted(t, c) ==
  /\ \A k \in 1..Len(t) : k <= c <=> Begins(Java, t[k])
  /\ \A k, l \in 1..Len(t) : k < l => (k <= c /\ c < l) \/ ~StringBefore(t[l], t[k])

LEMMA JavaFronted ==
  ASSUME NEW s, NEW first, Sortable(s, first),
         NEW p \in 1..Len(s) + 1, NEW q \in 1..Len(s) + 1, p <= q,
         \A m \in 1..Len(s) : p <= m /\ m < q <=> Begins(Java, s[m])
  PROVE  /\ Rotate(s, 1, p, q) \in Seq(String) /\ Len(Rotate(s, 1, p, q)) = Len(s)
         /\ \E from : Moves(s, Rotate(s, 1, p, q), from)
         /\ Fronted(Rotate(s, 1, p, q), q - p)
<1> DEFINE n == Len(s)
           t == Rotate(s, 1, p, q)
           From(k) == Turned(1, p, q, k)
           from == [k \in 1..n |-> From(k)]
<1>1. s \in Seq(String) /\ Rising(s, 1, n + 1)
  BY DEF Sortable
<1>2. n \in Nat /\ p \in Nat /\ q \in Nat /\ 1 <= p /\ q <= n + 1
  BY <1>1
<1>0. Ranges(Len(s), 1, p, q)
  BY <1>2 DEF Ranges
<1>3. t \in Seq(String) /\ Len(t) = n /\ Moves(s, t, from)
  <2>1. Rotated(String, s, t, 1, p, q)
    BY <1>0, <1>1, RotateMoves
  <2> QED
    BY <2>1, Zenon DEF Rotated
<1>4. \A k \in 1..n : From(k) \in 1..n /\ t[k] = s[From(k)]
  BY <1>3 DEF Moves
<1>5. ASSUME NEW k \in 1..n PROVE k <= q - p <=> p <= From(k) /\ From(k) < q
  <2> HIDE DEF n
  <2> QED
    BY <1>2 DEF Turned
<1>6. \A k \in 1..n : k <= q - p <=> Begins(Java, t[k])
  BY <1>4, <1>5
<1>7. ASSUME NEW k \in 1..n, NEW l \in 1..n, k < l
      PROVE  (k <= q - p /\ q - p < l) \/ ~StringBefore(t[l], t[k])
  <2> DEFINE i == From(k)
             j == From(l)
  <2>1. i \in 1..n /\ j \in 1..n /\ (i < j \/ (p <= i /\ i < q /\ j < p))
    <3>1. i = Turned(1, p, q, k) /\ j = Turned(1, p, q, l) /\ 1 \in Nat \ {0}
      OBVIOUS
    <3>4. Ranges(n, 1, p, q)
      BY <1>0
    <3> HIDE DEF i, j, n
    <3>2. i \in 1..n /\ j \in 1..n
      BY <1>7, <3>1, <3>4, TurnedOrder
    <3>3. \/ i < j /\ ~(1 <= i /\ i < p /\ p <= j /\ j < q)
          \/ p <= i /\ i < q /\ 1 <= j /\ j < p
      BY <1>7, <3>1, <3>4, TurnedOrder
    <3> QED
      BY <3>2, <3>3
  <2>2. i < j => ~StringBefore(s[j], s[i])
    <3>1. (n + 1) - 1 = n
      BY <1>2
    <3> HIDE DEF i, j, n
    <3> QED
      BY <1>1, <2>1, <3>1 DEF Rising, n
  <2>3. p <= i /\ i < q /\ j < p => k <= q - p /\ ~(l <= q - p)
    <3>1. (k <= q - p <=> p <= i /\ i < q) /\ (l <= q - p <=> p <= j /\ j < q)
      BY <1>5
    <3> HIDE DEF i, j, n
    <3> QED
      BY <1>2, <2>1, <3>1
  <2>4. t[k] = s[i] /\ t[l] = s[j]
    BY <1>4
  <2>5. ~(l <= q - p) => q - p < l
    BY <1>2
  <2> HIDE DEF i, j, t, From, from
  <2> QED
    BY <2>1, <2>2, <2>3, <2>4, <2>5
<1>8. Fronted(t, q - p)
  BY <1>3, <1>6, <1>7, Zenon DEF Fronted
<1> QED
  BY <1>3, <1>8

(* The range of java/lang among what begins with java. *)
LEMMA LangFound ==
  ASSUME NEW s, NEW first, Sortable(s, first),
         NEW t \in Seq(String), Len(t) = Len(s), NEW from, Moves(s, t, from),
         NEW c \in 0..Len(s), Fronted(t, c)
  PROVE  \E p, q \in 1..c + 1 :
           /\ EqualRange(t, <<1, 1 + c>>, JavaLang) = <<p, q>> /\ p <= q
           /\ Rotates(first, p, q)
           /\ \A m \in 1..Len(t) : p <= m /\ m < q <=> Begins(JavaLang, t[m])
           /\ p < q => \A m \in 1..Len(t) : m < first <=> t[m] = Java
           /\ \A m \in 1..Len(t) : t[m] = Java => m < p /\ m < first
<1> DEFINE n == Len(t)
<1>1. n \in Nat /\ n = Len(s) /\ c \in Nat /\ c <= n /\ s \in Seq(String) /\ first \in {1, 2}
  BY DEF Sortable
<1>2. /\ \A k \in 1..n : t[k] \in String
      /\ \A k \in 1..n : k <= c <=> Begins(Java, t[k])
      /\ \A k, l \in 1..n : k < l => (k <= c /\ c < l) \/ ~StringBefore(t[l], t[k])
  BY DEF Fronted
<1>3. /\ \A k \in 1..n : from[k] \in 1..n /\ t[k] = s[from[k]]
      /\ \A i \in 1..n : \E k \in 1..n : t[k] = s[i]
      /\ \A k, l \in 1..n : k # l => from[k] # from[l]
  <2>1. /\ from \in [1..n -> 1..n]
        /\ \A i \in 1..n : \E k \in 1..n : from[k] = i
        /\ \A k, l \in 1..n : k # l => from[k] # from[l]
        /\ \A k \in 1..n : t[k] = s[from[k]]
    BY <1>1 DEF Moves
  <2> HIDE DEF n
  <2> QED
    BY <2>1, ZenonT(30)
<1>4. /\ \A m \in 1..n : Beginning(t[m], JavaLang) => first = 2 /\ t[m] = Java
      /\ \A l, m \in 1..n : t[l] = Java /\ t[m] = Java => l = m
      /\ \A m \in 1..n : Begins(JavaLang, t[m]) /\ first = 2 => \E l \in 1..n : t[l] = Java
      /\ \A m \in 1..n : t[m] = Java =>
           \E l \in 1..n : Below(t[l], JavaLang) /\ Begins(Java, t[l])
  <2>1. /\ \A m \in 1..n : Beginning(s[m], JavaLang) => first = 2 /\ s[m] = Java
        /\ \A l, m \in 1..n : s[l] = Java /\ s[m] = Java => l = m
        /\ \A m \in 1..n : Begins(JavaLang, s[m]) /\ first = 2 => \E l \in 1..n : s[l] = Java
        /\ \A m \in 1..n : s[m] = Java =>
             \E l \in 1..n : Below(s[l], JavaLang) /\ Begins(Java, s[l])
    BY <1>1 DEF Sortable
  <2> HIDE DEF n
  <2>2. \A m \in 1..n : Beginning(t[m], JavaLang) => first = 2 /\ t[m] = Java
    BY <1>3, <2>1
  <2>3. ASSUME NEW l \in 1..n, NEW m \in 1..n, t[l] = Java, t[m] = Java PROVE l = m
    <3>1. s[from[l]] = Java /\ s[from[m]] = Java /\ from[l] \in 1..n /\ from[m] \in 1..n
      BY <1>3, <2>3
    <3>2. from[l] = from[m]
      BY <2>1, <3>1
    <3> QED
      BY <1>3, <3>2
  <2>4. ASSUME NEW m \in 1..n, Begins(JavaLang, t[m]), first = 2 PROVE \E l \in 1..n : t[l] = Java
    <3>1. from[m] \in 1..n /\ Begins(JavaLang, s[from[m]])
      BY <1>3, <2>4
    <3>2. PICK i \in 1..n : s[i] = Java
      BY <2>1, <2>4, <3>1
    <3> QED
      BY <1>3, <3>2
  <2>5. ASSUME NEW m \in 1..n, t[m] = Java
        PROVE  \E l \in 1..n : Below(t[l], JavaLang) /\ Begins(Java, t[l])
    <3>1. from[m] \in 1..n /\ s[from[m]] = Java
      BY <1>3, <2>5
    <3>2. PICK i \in 1..n : Below(s[i], JavaLang) /\ Begins(Java, s[i])
      BY <2>1, <3>1
    <3> QED
      BY <1>3, <3>2
  <2> QED
    BY <2>2, <2>3, <2>4, <2>5
<1> HIDE DEF n
(* Java is in front. *)
<1>5. ASSUME NEW m \in 1..n, t[m] = Java PROVE m = 1 /\ m <= c
  <2>1. m <= c
    BY <1>2, <1>5, GroupIs, JavaFacts
  <2>2. ASSUME m # 1 PROVE FALSE
    <3>1. 1 \in 1..n /\ 1 < m /\ 1 <= c /\ ~(c < m)
      BY <1>1, <2>1, <2>2
    <3>2. Begins(Java, t[1]) /\ t[1] \in String
      BY <1>2, <3>1
    <3>3. t[1] # Java
      BY <1>4, <1>5, <2>2, <3>1
    <3>4. StringBefore(Java, t[1])
      BY <3>2, <3>3, GroupIs
    <3>5. ~StringBefore(t[m], t[1])
      BY <1>2, <3>1
    <3> QED
      BY <1>5, <3>4, <3>5
  <2> QED
    BY <2>1, <2>2
<1>6. \E p, q \in 1..1 + c :
        /\ EqualRange(t, <<1, 1 + c>>, JavaLang) = <<p, q>> /\ p <= q
        /\ \A m \in 1..(1 + c) - 1 : ~Beginning(t[m], JavaLang) =>
             /\ m < p <=> Below(t[m], JavaLang)
             /\ q <= m <=> Below(JavaLang, t[m])
             /\ p <= m /\ m < q <=> Begins(JavaLang, t[m])
        /\ \A m \in 1..(1 + c) - 1 : Beginning(t[m], JavaLang) => m + 1 < p
  <2> DEFINE hi == 1 + c
  <2>1. hi \in Nat /\ 1 <= hi /\ hi <= Len(t) + 1 /\ 1 \in Nat \ {0} /\ 1..hi - 1 = 1..c
        /\ 1 + 1 = 2
    BY <1>1 DEF n
  <2>2. Rising(t, 1, hi)
    <3>1. \A i, j \in 1..c : i \in 1..n /\ j \in 1..n /\ ~(c < j)
      BY <1>1
    <3> QED
      BY <1>2, <2>1, <3>1 DEF Rising
  <2>3. ASSUME NEW m \in 1..hi - 1, Beginning(t[m], JavaLang)
        PROVE  m = 1 /\ \E o \in 1 + 1..hi - 1 : Below(t[o], JavaLang)
    <3>1. m \in 1..n
      BY <1>1, <2>1
    <3>2. t[m] = Java /\ m = 1
      BY <1>4, <1>5, <2>3, <3>1
    <3>3. PICK o \in 1..n : Below(t[o], JavaLang) /\ Begins(Java, t[o])
      BY <1>4, <3>1, <3>2
    <3>4. o <= c
      BY <1>2, <3>3
    <3>5. o # 1
      <4>1. ~Below(Java, JavaLang)
        BY JavaFacts, BelowIs
      <4> QED
        BY <3>2, <3>3, <4>1
    <3>6. o \in 1 + 1..hi - 1
      BY <1>1, <3>4, <3>5
    <3> QED
      BY <3>2, <3>3, <3>6
  <2>4. JavaLang \in String
    BY JavaFacts
  <2> HIDE DEF hi
  <2>5. \E p, q \in 1..hi :
          /\ EqualRange(t, <<1, hi>>, JavaLang) = <<p, q>> /\ p <= q
          /\ \A m \in 1..hi - 1 : ~Beginning(t[m], JavaLang) =>
               /\ m < p <=> Below(t[m], JavaLang)
               /\ q <= m <=> Below(JavaLang, t[m])
               /\ p <= m /\ m < q <=> Begins(JavaLang, t[m])
          /\ \A m \in 1..hi - 1 : Beginning(t[m], JavaLang) => m + 1 < p
    BY <2>1, <2>2, <2>3, <2>4, SearchSorted
  <2> QED
    BY <2>5 DEF hi
<1>7. PICK p \in 1..1 + c, q \in 1..1 + c :
        /\ EqualRange(t, <<1, 1 + c>>, JavaLang) = <<p, q>> /\ p <= q
        /\ \A m \in 1..(1 + c) - 1 : ~Beginning(t[m], JavaLang) =>
             /\ m < p <=> Below(t[m], JavaLang)
             /\ q <= m <=> Below(JavaLang, t[m])
             /\ p <= m /\ m < q <=> Begins(JavaLang, t[m])
        /\ \A m \in 1..(1 + c) - 1 : Beginning(t[m], JavaLang) => m + 1 < p
  BY <1>6
<1>8. p \in Nat /\ q \in Nat /\ 1 <= p /\ q <= 1 + c /\ p \in 1..c + 1 /\ q \in 1..c + 1
      /\ (1 + c) - 1 = c /\ \A m \in 1..c : m \in 1..n
  BY <1>1
<1>9. ASSUME NEW m \in 1..n PROVE p <= m /\ m < q <=> Begins(JavaLang, t[m])
  <2>1. CASE m <= c /\ ~Beginning(t[m], JavaLang)
    <3>1. m \in 1..(1 + c) - 1
      BY <1>1, <2>1
    <3> QED
      BY <1>7, <2>1, <3>1
  <2>2. CASE m <= c /\ Beginning(t[m], JavaLang)
    <3>1. m \in 1..(1 + c) - 1
      BY <1>1, <2>2
    <3>2. m + 1 < p /\ t[m] = Java
      BY <1>4, <1>7, <2>2, <3>1
    <3>3. ~Begins(JavaLang, t[m])
      BY <3>2, GroupIs, JavaFacts
    <3> QED
      BY <1>8, <3>2, <3>3
  <2>3. CASE ~(m <= c)
    <3>1. ~(m < q)
      BY <1>8, <2>3
    <3>2. ~Begins(JavaLang, t[m])
      BY <1>2, <2>3, GroupIs
    <3> QED
      BY <3>1, <3>2
  <2> QED
    BY <2>1, <2>2, <2>3
<1>10. ASSUME NEW m \in 1..n, t[m] = Java PROVE m < p /\ m < first /\ first = 2 /\ m + 1 < p
  <2>1. Beginning(t[m], JavaLang) /\ m = 1 /\ m <= c /\ m \in 1..(1 + c) - 1
    BY <1>1, <1>5, <1>10, GroupIs, JavaFacts
  <2>2. m + 1 < p
    BY <1>7, <2>1
  <2>3. first = 2
    BY <1>4, <2>1
  <2> QED
    BY <1>8, <2>1, <2>2, <2>3
<1>11. p < q => (first = 1 \/ \E l \in 1..n : t[l] = Java)
  <2> SUFFICES ASSUME p < q, first = 2 PROVE \E l \in 1..n : t[l] = Java
    BY <1>1
  <2>1. p \in 1..n
    BY <1>1, <1>8
  <2>2. Begins(JavaLang, t[p])
    BY <1>8, <1>9, <2>1
  <2> QED
    BY <1>4, <2>1, <2>2
<1>12. Rotates(first, p, q)
  <2>1. CASE p = q
    BY <2>1 DEF Rotates
  <2>2. CASE p < q
    BY <1>1, <1>8, <1>10, <1>11, <2>2 DEF Rotates
  <2> QED
    BY <1>7, <1>8, <2>1, <2>2
<1>13. ASSUME p < q, NEW m \in 1..n PROVE m < first <=> t[m] = Java
  <2>1. t[m] = Java => m < first
    BY <1>10
  <2>2. ASSUME m < first PROVE t[m] = Java
    <3>1. m = 1 /\ first = 2
      BY <1>1, <2>2
    <3>2. PICK l \in 1..n : t[l] = Java
      BY <1>11, <1>13, <3>1
    <3>3. l = 1
      BY <1>5, <3>2
    <3> QED
      BY <3>1, <3>2, <3>3
  <2> QED
    BY <2>1, <2>2
<1> QED
  BY <1>7, <1>8, <1>9, <1>10, <1>12, <1>13 DEF n

(* In groups, and in each in order. *)
Grouped(t) ==
  \A k, l \in 1..Len(t) : k < l =>
    \/ Group(t[k]) < Group(t[l])
    \/ Group(t[k]) = Group(t[l]) /\ ~StringBefore(t[l], t[k])

(* What the second rotation makes of it. *)
LEMMA LangRotated ==
  ASSUME NEW t \in Seq(String), NEW first \in {1, 2}, NEW c \in 0..Len(t), Fronted(t, c),
         NEW p \in 1..c + 1, NEW q \in 1..c + 1, p <= q, Rotates(first, p, q),
         \A m \in 1..Len(t) : p <= m /\ m < q <=> Begins(JavaLang, t[m]),
         p < q => \A m \in 1..Len(t) : m < first <=> t[m] = Java,
         \A m \in 1..Len(t) : t[m] = Java => m < p /\ m < first
  PROVE  LET f == IF p < first THEN 1 ELSE first
             r == Rotate(t, first, p, q)
         IN  /\ Rotated(String, t, r, f, p, q)
             /\ Grouped(r)
             /\ first = 1 => \A k \in 1..Len(t) : k <= q - p <=> Begins(JavaLang, r[k])
<1> DEFINE n == Len(t)
           f == IF p < first THEN 1 ELSE first
           r == Rotate(t, first, p, q)
           From(k) == Turned(f, p, q, k)
<1>1. n \in Nat /\ c \in Nat /\ p \in Nat /\ q \in Nat /\ 1 <= p /\ q <= n + 1
      /\ f \in {1, 2} /\ (f <= p \/ p = q)
  OBVIOUS
<1>2. /\ \A k \in 1..n : t[k] \in String
      /\ \A k \in 1..n : k <= c <=> Begins(Java, t[k])
      /\ \A k, l \in 1..n : k < l => (k <= c /\ c < l) \/ ~StringBefore(t[l], t[k])
  BY DEF Fronted
<1>3. r = Rotate(t, f, p, q) /\ Ranges(Len(t), f, p, q)
  <2>1. q <= Len(t) + 1 /\ Len(t) \in Nat
    BY <1>1
  <2> QED
    BY <1>1, <2>1, RotateNothing
<1>4. Rotated(String, t, r, f, p, q)
  BY <1>3, RotateMoves
<1> HIDE DEF r
<1>5. r \in Seq(String) /\ Len(r) = n
      /\ \A k \in 1..n : From(k) \in 1..n /\ r[k] = t[From(k)]
  <2>1. Moves(t, r, [k \in 1..n |-> From(k)]) /\ r \in Seq(String) /\ Len(r) = n
    BY <1>4, Zenon DEF Rotated
  <2>2. \A k \in 1..n : [l \in 1..n |-> From(l)][k] = From(k)
    OBVIOUS
  <2> DEFINE from == [k \in 1..n |-> From(k)]
  <2>3. \A k \in 1..n : from[k] \in 1..n /\ r[k] = t[from[k]]
    BY <2>1 DEF Moves
  <2> HIDE DEF From, n
  <2> QED
    BY <2>1, <2>2, <2>3
<1>6. \A i \in 1..n : Group(t[i]) = IF t[i] = Java THEN 0 ELSE IF p <= i /\ i < q THEN 1
                                    ELSE IF i <= c THEN 2 ELSE 3
  BY <1>2, GroupIs
<1>7. ASSUME NEW k \in 1..n, NEW l \in 1..n, k < l
      PROVE  \/ Group(r[k]) < Group(r[l])
             \/ Group(r[k]) = Group(r[l]) /\ ~StringBefore(r[l], r[k])
  <2> DEFINE i == From(k)
             j == From(l)
  <2>1. i = Turned(f, p, q, k) /\ j = Turned(f, p, q, l) /\ Ranges(n, f, p, q)
    BY <1>3
  <2>2. r[k] = t[i] /\ r[l] = t[j] /\ i \in 1..n /\ j \in 1..n
    BY <1>5
  <2> HIDE DEF i, j, n
  <2>3. \/ i < j /\ ~(f <= i /\ i < p /\ p <= j /\ j < q)
        \/ p <= i /\ i < q /\ f <= j /\ j < p
    BY <1>7, <2>1, TurnedOrder
  <2>4. i \in Nat /\ j \in Nat
    BY <2>2
  <2>5. /\ t[i] = Java => i < p /\ i < first
        /\ t[j] = Java => j < p /\ j < first
        /\ p < q => ((i < first <=> t[i] = Java) /\ (j < first <=> t[j] = Java))
    BY <2>2 DEF n
  <2>6. p < q => f = first
    BY <1>1, <2>5 DEF Rotates
  <2>7. CASE p <= i /\ i < q /\ f <= j /\ j < p
    <3>1. p < q /\ t[i] # Java /\ t[j] # Java
      BY <1>1, <2>4, <2>5, <2>6, <2>7
    <3>2. Group(t[i]) = 1
      BY <1>6, <2>2, <2>7, <3>1
    <3>3. Group(t[j]) = 2
      <4>1. j <= c /\ ~(p <= j)
        BY <1>1, <2>4, <2>7
      <4> QED
        BY <1>6, <2>2, <3>1, <4>1
    <3> QED
      BY <2>2, <3>2, <3>3
  <2>8. CASE i < j /\ ~(f <= i /\ i < p /\ p <= j /\ j < q)
    <3>1. CASE i <= c /\ c < j
      <4>1. ~(j < q) /\ ~(j < p) /\ ~(j <= c)
        BY <1>1, <2>4, <3>1
      <4>2. t[j] # Java /\ Group(t[j]) = 3
        BY <1>6, <2>2, <2>5, <4>1
      <4>3. Group(t[i]) \in {0, 1, 2}
        BY <1>6, <2>2, <3>1
      <4> QED
        BY <2>2, <4>2, <4>3
    <3>2. CASE ~(i <= c /\ c < j)
      <4>1. ~StringBefore(t[j], t[i])
        BY <1>2, <2>2, <2>8, <3>2
      <4>2. CASE c < i
        <5>1. ~(i <= c) /\ ~(j <= c) /\ ~(i < q) /\ ~(j < q) /\ ~(i < p) /\ ~(j < p)
          BY <1>1, <2>4, <2>8, <4>2
        <5>2. Group(t[i]) = 3 /\ Group(t[j]) = 3
          BY <1>6, <2>2, <2>5, <5>1
        <5> QED
          BY <2>2, <4>1, <5>2
      <4>3. CASE ~(c < i)
        <5>1. i <= c /\ j <= c
          BY <1>1, <2>4, <3>2, <4>3
        <5>2. t[j] # Java
          <6>1. t[i] = Java => t[j] # Java
            <7>1. SUFFICES ASSUME t[i] = Java, t[j] = Java PROVE FALSE
              OBVIOUS
            <7>2. j < first /\ i < first
              BY <2>5, <7>1
            <7> QED
              BY <2>2, <2>4, <2>8, <7>2
          <6>2. t[i] # Java => StringBefore(Java, t[i])
            BY <1>2, <2>2, <5>1, GroupIs
          <6> QED
            BY <4>1, <6>1, <6>2
        <5>3. Group(t[i]) \in {0, 1, 2}
          BY <1>6, <2>2, <5>1
        <5>4. Group(t[j]) = IF p <= j /\ j < q THEN 1 ELSE 2
          BY <1>6, <2>2, <5>1, <5>2
        <5>5. CASE p <= j /\ j < q
          <6>1. t[i] = Java \/ (p <= i /\ i < q)
            <7>1. p < q
              BY <1>1, <2>4, <5>5
            <7>2. i < first => t[i] = Java
              BY <2>5, <7>1
            <7> QED
              BY <1>1, <2>4, <2>6, <2>8, <5>5, <7>1, <7>2
          <6>2. Group(t[i]) \in {0, 1}
            BY <1>6, <2>2, <6>1
          <6> QED
            BY <2>2, <4>1, <5>4, <5>5, <6>2
        <5>6. CASE ~(p <= j /\ j < q)
          BY <2>2, <4>1, <5>3, <5>4, <5>6
        <5> QED
          BY <5>5, <5>6
      <4> QED
        BY <4>2, <4>3
    <3> QED
      BY <3>1, <3>2
  <2> QED
    BY <2>3, <2>7, <2>8
<1>8. Grouped(r)
  BY <1>5, <1>7, Zenon DEF Grouped
<1>9. ASSUME first = 1, NEW k \in 1..n PROVE k <= q - p <=> Begins(JavaLang, r[k])
  <2>1. f = 1 /\ k \in Nat
    BY <1>1, <1>9
  <2>2. k <= q - p <=> p <= From(k) /\ From(k) < q
    <3> HIDE DEF n, f
    <3> QED
      BY <1>1, <1>9, <2>1 DEF Turned
  <2> QED
    BY <1>5, <2>2
<1> QED
  BY <1>4, <1>8, <1>9 DEF r

LEMMA MovesOn ==
  ASSUME NEW s, NEW t, NEW r, Len(s) \in Nat, Len(t) = Len(s),
         NEW f, NEW g, Moves(s, t, f), Moves(t, r, g)
  PROVE  Moves(s, r, [k \in 1..Len(s) |-> f[g[k]]])
<1> DEFINE n == Len(s)
           h == [k \in 1..n |-> f[g[k]]]
<1>1. /\ f \in [1..n -> 1..n] /\ g \in [1..n -> 1..n]
      /\ \A i \in 1..n : \E k \in 1..n : f[k] = i
      /\ \A i \in 1..n : \E k \in 1..n : g[k] = i
      /\ \A k, l \in 1..n : k # l => f[k] # f[l]
      /\ \A k, l \in 1..n : k # l => g[k] # g[l]
      /\ \A k \in 1..n : t[k] = s[f[k]] /\ r[k] = t[g[k]]
  BY DEF Moves
<1> HIDE DEF n
<1>2. h \in [1..n -> 1..n] /\ \A k \in 1..n : h[k] = f[g[k]] /\ g[k] \in 1..n
  BY <1>1
<1> HIDE DEF h
<1>3. ASSUME NEW i \in 1..n PROVE \E k \in 1..n : h[k] = i
  <2>1. PICK l \in 1..n : f[l] = i
    BY <1>1
  <2>2. PICK k \in 1..n : g[k] = l
    BY <1>1
  <2> QED
    BY <1>2, <2>1, <2>2
<1>4. ASSUME NEW k \in 1..n, NEW l \in 1..n, k # l PROVE h[k] # h[l]
  <2>1. g[k] \in 1..n /\ g[l] \in 1..n /\ g[k] # g[l]
    BY <1>1, <1>2, <1>4
  <2>2. f[g[k]] # f[g[l]]
    BY <1>1, <2>1
  <2> QED
    BY <1>2, <2>2
<1>5. ASSUME NEW k \in 1..n PROVE r[k] = s[h[k]]
  <2>1. g[k] \in 1..n /\ h[k] = f[g[k]] /\ r[k] = t[g[k]]
    BY <1>1, <1>2
  <2>2. t[g[k]] = s[f[g[k]]]
    BY <1>1, <2>1
  <2> QED
    BY <2>1, <2>2
<1> QED
  BY <1>2, <1>3, <1>4, <1>5 DEF Moves, h, n

(* A sort is kept by the two rotations, whatever the searches find. *)
JavaOf(s) == EqualRange(s, <<1, Len(s) + 1>>, Java)
ThereOf(s) == Rotate(s, 1, JavaOf(s)[1], JavaOf(s)[2])
LangOf(s) == EqualRange(ThereOf(s), <<1, 1 + JavaOf(s)[2] - JavaOf(s)[1]>>, JavaLang)
ArrangedOf(s, first) == Rotate(ThereOf(s), first, LangOf(s)[1], LangOf(s)[2])

Rearranged(s, t) ==
  t \in Seq(String) /\ Len(t) = Len(s) /\ \E from : Moves(s, t, from)

LEMMA Arranged ==
  ASSUME NEW s \in Seq(String), NEW first \in {1, 2}
  PROVE  LET p == LangOf(s)[1]
             q == LangOf(s)[2]
             t == ArrangedOf(s, first)
         IN  /\ Rearranged(s, ThereOf(s))
             /\ p \in Nat /\ q \in Nat /\ 1 <= p /\ p <= q /\ q <= Len(s) + 1
             /\ Rotates(first, p, q) => Rearranged(s, t)
             /\ Sortable(s, first) =>
                  /\ Rotates(first, p, q) /\ Grouped(t)
                  /\ first = 1 => \A k \in 1..Len(s) : k <= q - p <=> Begins(JavaLang, t[k])
<1> DEFINE n == Len(s)
           a == JavaOf(s)[1]
           b == JavaOf(s)[2]
           t == ThereOf(s)
           c == b - a
           p == LangOf(s)[1]
           q == LangOf(s)[2]
           r == ArrangedOf(s, first)
<1>1. n \in Nat /\ n + 1 \in Nat /\ 1 <= n + 1 /\ 1 \in Nat
  OBVIOUS
<1>2. /\ a \in Nat /\ b \in Nat /\ 1 <= a /\ a <= b /\ b <= n + 1 /\ JavaOf(s) = <<a, b>>
  <2> DEFINE e == EqualRange(s, <<1, n + 1>>, Java)
  <2>1. e \in Nat \X Nat /\ 1 <= e[1] /\ e[1] <= e[2] /\ e[2] <= n + 1
    BY <1>1, EqualRangeWithin
  <2>2. JavaOf(s) = e
    BY DEF JavaOf
  <2> HIDE DEF e
  <2> QED
    BY <2>1, <2>2
<1>3. /\ t = Rotate(s, 1, a, b) /\ r = Rotate(t, first, p, q)
  BY DEF ThereOf, ArrangedOf
<1>4. /\ LangOf(s) = EqualRange(t, <<1, 1 + c>>, JavaLang)
      /\ c \in 0..n /\ 1 + c \in Nat /\ 1 <= 1 + c
  <2>1. LangOf(s) = EqualRange(t, <<1, 1 + c>>, JavaLang)
    BY DEF LangOf
  <2> HIDE DEF a, b, t, n
  <2> QED
    BY <1>1, <1>2, <2>1
<1> HIDE DEF a, b, t, r, n
<1>5. Rearranged(s, t)
  <2>1. Ranges(Len(s), 1, a, b)
    BY <1>1, <1>2 DEF Ranges, n
  <2>2. Rotated(String, s, t, 1, a, b)
    BY <1>3, <2>1, RotateMoves
  <2> QED
    BY <2>2, Zenon DEF Rotated, Rearranged
<1>6. /\ p \in Nat /\ q \in Nat /\ 1 <= p /\ p <= q /\ q <= 1 + c /\ q <= n + 1
      /\ LangOf(s) = <<p, q>>
  <2> DEFINE e == EqualRange(t, <<1, 1 + c>>, JavaLang)
  <2>1. e \in Nat \X Nat /\ 1 <= e[1] /\ e[1] <= e[2] /\ e[2] <= 1 + c
    BY <1>1, <1>4, EqualRangeWithin
  <2>2. LangOf(s) = e
    BY <1>4
  <2> HIDE DEF e, c
  <2> QED
    BY <1>1, <1>4, <2>1, <2>2
<1> HIDE DEF p, q, c
<1>7. t \in Seq(String) /\ Len(t) = n /\ Len(t) = Len(s)
  BY <1>5 DEF Rearranged, n
<1>8. ASSUME Rotates(first, p, q) PROVE Rearranged(s, r)
  <2> DEFINE f == IF p < first THEN 1 ELSE first
  <2>1. r = Rotate(t, f, p, q) /\ Ranges(Len(t), f, p, q)
    BY <1>1, <1>3, <1>6, <1>7, <1>8, RotateNothing
  <2> HIDE DEF f
  <2>2. Rotated(String, t, r, f, p, q)
    BY <1>7, <2>1, RotateMoves
  <2>3. PICK g : Moves(s, t, g)
    BY <1>5, Zenon DEF Rearranged
  <2>4. PICK h : Moves(t, r, h) /\ r \in Seq(String) /\ Len(r) = Len(t)
    BY <2>2, Zenon DEF Rotated
  <2>5. Moves(s, r, [k \in 1..Len(s) |-> g[h[k]]])
    BY <1>1, <1>7, <2>3, <2>4, MovesOn DEF n
  <2>6. \E from : Moves(s, r, from)
    BY <2>5, Zenon
  <2>7. Len(r) = Len(s)
    BY <1>7, <2>4
  <2> QED
    BY <2>4, <2>6, <2>7, Zenon DEF Rearranged
<1>9. ASSUME Sortable(s, first)
      PROVE  /\ Rotates(first, p, q) /\ Grouped(r)
             /\ first = 1 => \A k \in 1..n : k <= q - p <=> Begins(JavaLang, r[k])
  <2>1. PICK a2, b2 \in 1..n + 1 :
          /\ EqualRange(s, <<1, n + 1>>, Java) = <<a2, b2>> /\ a2 <= b2
          /\ \A m \in 1..n : a2 <= m /\ m < b2 <=> Begins(Java, s[m])
    BY <1>9, JavaFound DEF n
  <2>2. a = a2 /\ b = b2
    <3>1. <<a, b>> = <<a2, b2>>
      BY <1>2, <2>1 DEF JavaOf, n
    <3> QED
      BY <3>1
  <2>3. \A m \in 1..n : a <= m /\ m < b <=> Begins(Java, s[m])
    BY <2>1, <2>2
  <2>4. Fronted(t, c)
    <3>1. a \in 1..Len(s) + 1 /\ b \in 1..Len(s) + 1 /\ a <= b
      BY <1>1, <1>2 DEF n
    <3>2. Fronted(Rotate(s, 1, a, b), b - a)
      BY <1>9, <2>3, <3>1, JavaFronted DEF n
    <3> QED
      BY <1>3, <3>2 DEF c
  <2>5. PICK g : Moves(s, t, g)
    BY <1>5, Zenon DEF Rearranged
  <2>6. PICK p2, q2 \in 1..c + 1 :
           /\ EqualRange(t, <<1, 1 + c>>, JavaLang) = <<p2, q2>> /\ p2 <= q2
           /\ Rotates(first, p2, q2)
           /\ \A m \in 1..Len(t) : p2 <= m /\ m < q2 <=> Begins(JavaLang, t[m])
           /\ p2 < q2 => \A m \in 1..Len(t) : m < first <=> t[m] = Java
           /\ \A m \in 1..Len(t) : t[m] = Java => m < p2 /\ m < first
    <3>1. c \in 0..Len(s)
      BY <1>4 DEF n
    <3> QED
      BY <1>7, <1>9, <2>4, <2>5, <3>1, LangFound
  <2>7. p = p2 /\ q = q2
    <3>1. <<p, q>> = <<p2, q2>>
      BY <1>4, <1>6, <2>6
    <3> QED
      BY <3>1
  <2>8. /\ Rotates(first, p, q) /\ p \in 1..c + 1 /\ q \in 1..c + 1 /\ p <= q
        /\ \A m \in 1..Len(t) : p <= m /\ m < q <=> Begins(JavaLang, t[m])
        /\ p < q => \A m \in 1..Len(t) : m < first <=> t[m] = Java
        /\ \A m \in 1..Len(t) : t[m] = Java => m < p /\ m < first
    BY <2>6, <2>7
  <2>9. /\ Grouped(Rotate(t, first, p, q))
        /\ first = 1 => \A k \in 1..Len(t) : k <= q - p <=> Begins(JavaLang, Rotate(t, first, p, q)[k])
    <3>1. c \in 0..Len(t)
      BY <1>4, <1>7
    <3> QED
      BY <1>7, <2>4, <2>8, <3>1, LangRotated
  <2> QED
    BY <1>3, <1>7, <2>8, <2>9
<1> QED
  BY <1>5, <1>6, <1>8, <1>9 DEF p, q, r, t, n

-----------------------------------------------------------------------------
(* The packages *)

(* s has the escaped members of S, and each once, in order. *)
Listed(S, s) ==
  \A x : (\E k \in 1..Len(s) : s[k] = x) <=> (\E p \in S : x = Escape(p))
EscapedOf(S, s) ==
  /\ s \in Seq(String) /\ Listed(S, s)
  /\ \A k, l \in 1..Len(s) : k < l => StringBefore(s[k], s[l])

LEMMA SortEscaped ==
  ASSUME NEW S \in SUBSET String, IsFiniteSet(S)
  PROVE  EscapedOf(S, Escaped(Ascending(StringBefore, S)))
<1> DEFINE t == Ascending(StringBefore, S)
           s == Escaped(t)
<1>1. Ascends(S, t, Alphabetical)
  BY StringsSorted
<1> HIDE DEF t
<1>2. /\ t \in Seq(S) /\ \A x \in S : \E k \in 1..Len(t) : t[k] = x
      /\ \A k, l \in 1..Len(t) : k < l => StringBefore(t[k], t[l])
  BY <1>1 DEF Ascends, Alphabetical
<1>3. /\ Len(t) \in Nat /\ DOMAIN t = 1..Len(t) /\ \A k \in 1..Len(t) : t[k] \in S
  BY <1>2
<1>4. \A k \in 1..Len(t) : Escape(t[k]) \in String
  BY <1>3, EscapeJoins
<1>5. s = [k \in 1..Len(t) |-> Escape(t[k])]
  BY <1>3, Zenon DEF Escaped
<1> HIDE DEF s
<1>6. s \in Seq(String) /\ Len(s) = Len(t) /\ \A k \in 1..Len(t) : s[k] = Escape(t[k])
  BY <1>3, <1>4, <1>5
<1>7. ASSUME NEW x PROVE (\E k \in 1..Len(s) : s[k] = x) <=> (\E p \in S : x = Escape(p))
  BY <1>2, <1>3, <1>6
<1>8. ASSUME NEW k \in 1..Len(s), NEW l \in 1..Len(s), k < l
      PROVE  StringBefore(s[k], s[l])
  <2>1. /\ t[k] \in String /\ t[l] \in String /\ StringBefore(t[k], t[l])
        /\ s[k] = Escape(t[k]) /\ s[l] = Escape(t[l])
    BY <1>2, <1>3, <1>6, <1>8
  <2> QED
    BY <2>1, EscapeOrdered
<1> QED
  BY <1>6, <1>7, <1>8, Zenon DEF EscapedOf, Listed, s, t

(* Each is a path, and so is what is before each slash in it. *)
Closed(P) ==
  /\ IsFiniteSet(P) /\ \A p \in P : p = <<>> \/ Path(p)
  /\ \A p \in P : \A k \in DOMAIN p : p[k] = Slash => SubSeq(p, 1, k - 1) \in P

(* Ordinary, of packages P. *)
OrdinaryOf(P) ==
  /\ \A p \in P \ {<<>>, Java} : ~IsStrictPrefix(p, JavaLang)
  /\ Java \in P => \E p \in P : StringBefore(Java, p) /\ Prefixed(p, JavaLang)

LEMMA PackagesSortable ==
  ASSUME NEW P, Closed(P), OrdinaryOf(P), NEW s, EscapedOf(P \ {<<>>}, s)
  PROVE  Sortable(s, 2)
<1>1. P \subseteq String /\ <<>> \in String
  <2>1. <<>> \in String
    BY DEF String
  <2>2. \A p \in P : p \in String
    BY <2>1, Zenon DEF Closed, Path, String
  <2> QED
    BY <2>1, <2>2
<1>2. /\ s \in Seq(String)
      /\ \A x : (\E k \in 1..Len(s) : s[k] = x) <=> (\E p \in P \ {<<>>} : x = Escape(p))
      /\ \A k, l \in 1..Len(s) : k < l => StringBefore(s[k], s[l])
  BY DEF EscapedOf, Listed
<1>3. \A k \in 1..Len(s) : s[k] \in String
  BY <1>2
<1>4. Rising(s, 1, Len(s) + 1)
  <2>1. \A k, l \in 1..Len(s) : k < l => ~StringBefore(s[l], s[k])
    BY <1>2, <1>3, StringsOrdered
  <2>2. 1..(Len(s) + 1) - 1 = 1..Len(s)
    BY <1>2
  <2> QED
    BY <2>1, <2>2, Zenon DEF Rising
<1>5. \A k, l \in 1..Len(s) : s[k] = s[l] => k = l
  <2> SUFFICES ASSUME NEW k \in 1..Len(s), NEW l \in 1..Len(s), k < l PROVE s[k] # s[l]
    OBVIOUS
  <2>1. StringBefore(s[k], s[l]) /\ s[k] \in String /\ s[l] \in String
    BY <1>2, <1>3
  <2> QED
    BY <2>1, StringsOrdered
<1>6. ASSUME NEW m \in 1..Len(s), Beginning(s[m], JavaLang) PROVE s[m] = Java
  <2>1. PICK p \in P \ {<<>>} : s[m] = Escape(p)
    BY <1>2
  <2>2. Begins(p, JavaLang) /\ p # JavaLang
    BY <1>1, <1>6, <2>1, JavaFacts, EscapePlain DEF Beginning
  <2>3. Len(p) < Len(JavaLang)
    <3>1. Len(p) = Len(JavaLang) => Begins(JavaLang, p)
      BY <1>1, <2>2, JavaFacts DEF Begins
    <3>2. Begins(JavaLang, p) => p = JavaLang
      BY <1>1, <2>2, JavaFacts, BelowIs
    <3>3. Len(p) \in Nat /\ Len(JavaLang) \in Nat /\ Len(p) <= Len(JavaLang)
      BY <1>1, <2>2, JavaFacts, SMTT(30) DEF Begins, String
    <3> QED
      BY <2>2, <3>1, <3>2, <3>3
  <2>4. IsStrictPrefix(p, JavaLang)
    BY <1>1, <2>2, <2>3, JavaFacts, PrefixIs
  <2>5. p = Java
    BY <2>4 DEF OrdinaryOf
  <2> QED
    BY <2>1, <2>5, JavaFacts, EscapePlain
<1>7. ASSUME NEW m \in 1..Len(s), Begins(JavaLang, s[m]) PROVE \E l \in 1..Len(s) : s[l] = Java
  <2>1. PICK p \in P \ {<<>>} : s[m] = Escape(p)
    BY <1>2
  <2>2. Begins(JavaLang, p) /\ Begins(Java, p) /\ p \in String
    BY <1>1, <1>7, <2>1, JavaFacts, EscapePlain, BelowIs
  <2> DEFINE k == Len(Java) + 1
  <2>3. k \in 1..Len(p) /\ p[k] = Slash
    <3>1. k \in 1..Len(JavaLang) /\ Len(JavaLang) <= Len(p) /\ Len(p) \in Nat
      BY <2>2, JavaFacts, SMTT(30) DEF Begins, String
    <3>2. p[k] = JavaLang[k]
      BY <2>2, <3>1, Zenon DEF Begins
    <3> QED
      BY <3>1, <3>2, JavaFacts
  <2>4. SubSeq(p, 1, k - 1) \in P
    BY <2>2, <2>3 DEF Closed, String
  <2>5. SubSeq(p, 1, k - 1) = Java
    <3>1. /\ SubSeq(p, 1, k - 1) \in Seq(Nat) /\ Len(SubSeq(p, 1, k - 1)) = k - 1
          /\ \A j \in 1..k - 1 : SubSeq(p, 1, k - 1)[j] = p[j]
      <4> HIDE DEF k
      <4> QED
        BY <2>2, <2>3, TakenApart DEF String
    <3>2. k - 1 = Len(Java) /\ Java \in Seq(Nat) /\ \A j \in 1..Len(Java) : Java[j] = p[j]
      BY <2>2, JavaFacts DEF Begins, String
    <3> QED
      BY <3>1, <3>2, SeqEqual
  <2>6. Java # <<>> /\ Escape(Java) = Java
    BY JavaFacts, EscapePlain
  <2> QED
    BY <1>2, <2>4, <2>5, <2>6
<1>8. ASSUME NEW m \in 1..Len(s), s[m] = Java
      PROVE  \E l \in 1..Len(s) : Below(s[l], JavaLang) /\ Begins(Java, s[l])
  <2>1. PICK p \in P \ {<<>>} : Java = Escape(p)
    BY <1>2, <1>8
  <2>2. p = Java
    BY <1>1, <2>1, JavaFacts, EscapePlain
  <2>3. PICK o \in P : StringBefore(Java, o) /\ Prefixed(o, JavaLang)
    BY <2>2 DEF OrdinaryOf
  <2>4. Below(o, JavaLang) /\ o \in String
    BY <1>1, <2>3, JavaFacts, PrefixedIs
  <2>5. o # <<>>
    BY <2>4 DEF Below, BelowAt
  <2>6. Begins(Java, o)
    <3>1. Below(o, Java) \/ Begins(Java, o)
      BY <2>4, JavaFacts, BelowIs
    <3> QED
      BY <2>3, <2>4, <3>1, JavaFacts, StringsOrdered
  <2>7. PICK l \in 1..Len(s) : s[l] = Escape(o)
    BY <1>2, <2>5
  <2>8. Below(s[l], JavaLang) /\ Begins(Java, s[l])
    BY <2>4, <2>6, <2>7, JavaFacts, EscapePlain
  <2> QED
    BY <2>8
<1> QED
  BY <1>2, <1>4, <1>5, <1>6, <1>7, <1>8, Zenon DEF Sortable

(* Grouped, with each string once. *)
GroupedOnce(t) ==
  \A k, l \in 1..Len(t) : k < l =>
    \/ Group(t[k]) < Group(t[l])
    \/ Group(t[k]) = Group(t[l]) /\ StringBefore(t[k], t[l])

LEMMA GroupedStrictly ==
  ASSUME NEW s, NEW S, EscapedOf(S, s), NEW t, Rearranged(s, t)
  PROVE  /\ t \in Seq(String) /\ Listed(S, t)
         /\ Grouped(t) => GroupedOnce(t)
<1>1. /\ t \in Seq(String) /\ s \in Seq(String) /\ Len(t) = Len(s)
      /\ \E f : Moves(s, t, f)
  BY Zenon DEF Rearranged, EscapedOf
<1> DEFINE n == Len(s)
<1>2. PICK f : Moves(s, t, f)
  BY <1>1
<1>3. f \in [1..n -> 1..n]
  BY <1>2, Zenon DEF Moves
<1>4. \A i \in 1..n : \E k \in 1..n : f[k] = i
  BY <1>2, Zenon DEF Moves
<1>5. \A k, l \in 1..n : k # l => f[k] # f[l]
  BY <1>2, Zenon DEF Moves
<1>6. \A k \in 1..n : t[k] = s[f[k]]
  BY <1>2, Zenon DEF Moves
<1>7. /\ n \in Nat /\ Len(t) = n /\ \A k \in 1..n : f[k] \in 1..n
      /\ \A k \in 1..n : t[k] \in String /\ s[k] \in String
  BY <1>1, <1>3
<1>8. /\ \A x : (\E k \in 1..n : s[k] = x) <=> (\E p \in S : x = Escape(p))
      /\ \A k, l \in 1..n : k < l => StringBefore(s[k], s[l])
  BY Zenon DEF EscapedOf, Listed
<1> HIDE DEF n
<1>9. \A x : (\E k \in 1..n : t[k] = x) <=> (\E p \in S : x = Escape(p))
  <2>1. ASSUME NEW k \in 1..n PROVE \E i \in 1..n : s[i] = t[k]
    BY <1>6, <1>7
  <2>2. ASSUME NEW k \in 1..n PROVE \E i \in 1..n : t[i] = s[k]
    BY <1>4, <1>6
  <2> QED
    BY <1>8, <2>1, <2>2, ZenonT(30)
<1>10. ASSUME NEW k \in 1..n, NEW l \in 1..n, k # l, ~StringBefore(t[l], t[k])
      PROVE  StringBefore(t[k], t[l])
  <2>1. /\ t[k] \in String /\ t[l] \in String /\ t[k] = s[f[k]] /\ t[l] = s[f[l]]
        /\ f[k] \in 1..n /\ f[l] \in 1..n
    BY <1>6, <1>7
  <2>2. f[k] # f[l]
    BY <1>5, <1>10
  <2>3. f[k] < f[l] \/ f[l] < f[k]
    BY <2>1, <2>2
  <2>4. StringBefore(s[f[k]], s[f[l]]) \/ StringBefore(s[f[l]], s[f[k]])
    BY <1>8, <2>1, <2>3
  <2> QED
    BY <1>10, <2>1, <2>4
<1>11. Grouped(t) => GroupedOnce(t)
  <2> SUFFICES ASSUME Grouped(t), NEW k \in 1..n, NEW l \in 1..n, k < l
               PROVE  \/ Group(t[k]) < Group(t[l])
                      \/ Group(t[k]) = Group(t[l]) /\ StringBefore(t[k], t[l])
    BY <1>7 DEF GroupedOnce
  <2>1. k # l
    BY <1>7
  <2>2. \/ Group(t[k]) < Group(t[l])
        \/ Group(t[k]) = Group(t[l]) /\ ~StringBefore(t[l], t[k])
    BY <1>7 DEF Grouped
  <2> QED
    BY <1>10, <2>1, <2>2
<1> QED
  BY <1>1, <1>7, <1>9, <1>11 DEF Listed

-----------------------------------------------------------------------------
(* The classes *)

(* x is what t has at the places S, each taken once, in the order of R. *)
Chosen(T, t, S, R, x) ==
  /\ x \in Seq(T)
  /\ \E pos \in [1..Len(x) -> S] :
       /\ \A i \in 1..Len(x) : x[i] = t[pos[i]]
       /\ \A k \in S : \E i \in 1..Len(x) : pos[i] = k
       /\ \A i, j \in 1..Len(x) : i < j => <<pos[i], pos[j]>> \in R

LEMMA AtChosen ==
  ASSUME NEW T, NEW t \in Seq(T), NEW S \in SUBSET (1..Len(t)), NEW R,
         \A k, l \in S : k < l => <<k, l>> \in R
  PROVE  Chosen(T, t, S, R, At(t, S))
<1> DEFINE x == At(t, S)
<1>1. Selects(T, t, S, Len(t), x)
  BY AtIs
<1> HIDE DEF x
<1>2. (1..Len(t)) \cap S = S
  OBVIOUS
<1>3. x \in Seq(T) /\ \E pos \in [1..Len(x) -> S] :
       /\ \A i \in 1..Len(x) : x[i] = t[pos[i]]
       /\ \A i, j \in 1..Len(x) : i < j => pos[i] < pos[j]
       /\ \A k \in S : \E i \in 1..Len(x) : pos[i] = k
  BY <1>1, <1>2, Zenon DEF Selects
<1> QED
  BY <1>3 DEF Chosen, x

LEMMA ChosenJoin ==
  ASSUME NEW T, NEW t, NEW S1, NEW S2, NEW R, NEW x, NEW y,
         Chosen(T, t, S1, R, x), Chosen(T, t, S2, R, y),
         \A k \in S1, l \in S2 : <<k, l>> \in R
  PROVE  Chosen(T, t, S1 \cup S2, R, x \o y)
<1>1. x \in Seq(T) /\ y \in Seq(T)
  BY DEF Chosen
<1>2. PICK p \in [1..Len(x) -> S1] :
       /\ \A i \in 1..Len(x) : x[i] = t[p[i]]
       /\ \A k \in S1 : \E i \in 1..Len(x) : p[i] = k
       /\ \A i, j \in 1..Len(x) : i < j => <<p[i], p[j]>> \in R
  BY DEF Chosen
<1>3. PICK q \in [1..Len(y) -> S2] :
       /\ \A i \in 1..Len(y) : y[i] = t[q[i]]
       /\ \A k \in S2 : \E i \in 1..Len(y) : q[i] = k
       /\ \A i, j \in 1..Len(y) : i < j => <<q[i], q[j]>> \in R
  BY DEF Chosen
<1> DEFINE m == Len(x)
           n == m + Len(y)
           z == x \o y
           pos == [i \in 1..n |-> IF i <= m THEN p[i] ELSE q[i - m]]
<1>4. /\ m \in Nat /\ Len(y) \in Nat /\ n \in Nat
      /\ z \in Seq(T) /\ Len(z) = n
  BY <1>1
<1>5. /\ \A i \in 1..m : z[i] = x[i]
      /\ \A i \in m + 1..n : z[i] = y[i - m]
  BY <1>1
<1>6. \A i \in m + 1..n : i - m \in 1..Len(y)
  BY <1>4
<1>7. \A i \in 1..n : i \in 1..m \/ i \in m + 1..n
  BY <1>4
<1>8. /\ \A i \in 1..m : p[i] \in S1
      /\ \A i \in m + 1..n : q[i - m] \in S2
  BY <1>2, <1>3, <1>6
<1> HIDE DEF z, m
<1>9. /\ \A i \in 1..m : pos[i] = p[i]
      /\ \A i \in m + 1..n : pos[i] = q[i - m]
  BY <1>4 
<1>10. pos \in [1..n -> S1 \cup S2]
  BY <1>4, <1>7, <1>8
<1> HIDE DEF pos
<1>11. ASSUME NEW i \in 1..n PROVE z[i] = t[pos[i]]
  <2>1. CASE i \in 1..m
    BY <1>2, <1>5, <1>9, <2>1 DEF m
  <2>2. CASE i \in m + 1..n
    BY <1>3, <1>5, <1>6, <1>9, <2>2
  <2> QED
    BY <1>7, <2>1, <2>2
<1>12. ASSUME NEW k \in S1 PROVE \E i \in 1..n : pos[i] = k
  <2>1. PICK i \in 1..m : p[i] = k
    BY <1>2 DEF m
  <2>2. i \in 1..n /\ pos[i] = k
    BY <1>4, <1>9, <2>1
  <2> QED
    BY <2>2
<1>13. ASSUME NEW k \in S2 PROVE \E i \in 1..n : pos[i] = k
  <2>1. PICK i \in 1..Len(y) : q[i] = k
    BY <1>3
  <2>2. m + i \in m + 1..n /\ (m + i) - m = i /\ m + i \in 1..n
    BY <1>4
  <2>3. pos[m + i] = k
    BY <1>9, <2>1, <2>2
  <2> QED
    BY <2>2, <2>3
<1>14. ASSUME NEW i \in 1..n, NEW j \in 1..n, i < j PROVE <<pos[i], pos[j]>> \in R
  <2>1. CASE i \in 1..m /\ j \in 1..m
    BY <1>2, <1>9, <1>14, <2>1 DEF m
  <2>2. CASE i \in 1..m /\ j \in m + 1..n
    BY <1>8, <1>9, <2>2
  <2>3. CASE i \in m + 1..n /\ j \in m + 1..n
    <3>1. i - m \in 1..Len(y) /\ j - m \in 1..Len(y) /\ i - m < j - m
      BY <1>4, <1>6, <1>14, <2>3
    <3> QED
      BY <1>3, <1>9, <2>3, <3>1
  <2>4. ~(i \in m + 1..n /\ j \in 1..m)
    BY <1>4, <1>14
  <2> QED
    BY <1>7, <2>1, <2>2, <2>3, <2>4
<1>15. /\ pos \in [1..Len(z) -> S1 \cup S2]
       /\ \A i \in 1..Len(z) : z[i] = t[pos[i]]
       /\ \A k \in S1 \cup S2 : \E i \in 1..Len(z) : pos[i] = k
       /\ \A i, j \in 1..Len(z) : i < j => <<pos[i], pos[j]>> \in R
  BY <1>4, <1>10, <1>11, <1>12, <1>13, <1>14
<1>16. Chosen(T, t, S1 \cup S2, R, z)
  BY <1>4, <1>15, Zenon DEF Chosen
<1> QED
  BY <1>16 DEF z

(* The order of the places in Partition. *)
Ahead(s, n, F) ==
  {p \in Nat \X Nat :
     LET k == p[1]
         l == p[2]
     IN  \/ k <= n /\ l > n
         \/ (k <= n <=> l <= n) /\ k < l /\ ~(l <= n /\ s[l] \in F /\ s[k] \notin F)
         \/ k <= n /\ l <= n /\ s[k] \in F /\ s[l] \notin F}

LEMMA PartitionIs ==
  ASSUME NEW T, NEW s \in Seq(T), NEW n \in 0..Len(s), NEW F
  PROVE  Chosen(T, s, 1..Len(s), Ahead(s, n, F), Partition(s, n, F))
<1> DEFINE front == {k \in 1..n : s[k] \in F}
           A == front
           B == (1..n) \ front
           C == n + 1..Len(s)
           R == Ahead(s, n, F)
<1>1. /\ A \in SUBSET (1..Len(s)) /\ B \in SUBSET (1..Len(s)) /\ C \in SUBSET (1..Len(s))
      /\ A \cup B = 1..n /\ (1..n) \cup C = 1..Len(s)
  OBVIOUS
<1>2. \A k \in Nat, l \in Nat : <<k, l>> \in R <=>
         \/ k <= n /\ l > n
         \/ (k <= n <=> l <= n) /\ k < l /\ ~(l <= n /\ s[l] \in F /\ s[k] \notin F)
         \/ k <= n /\ l <= n /\ s[k] \in F /\ s[l] \notin F
  BY DEF Ahead
<1> HIDE DEF R
<1>3. /\ \A k \in A : k \in Nat /\ k <= n /\ s[k] \in F
      /\ \A k \in B : k \in Nat /\ k <= n /\ s[k] \notin F
      /\ \A k \in C : k \in Nat /\ k > n /\ ~(k <= n)
  OBVIOUS
<1>4. /\ \A k, l \in A : k < l => <<k, l>> \in R
      /\ \A k, l \in B : k < l => <<k, l>> \in R
      /\ \A k, l \in C : k < l => <<k, l>> \in R
  BY <1>2, <1>3
<1>5. /\ \A k \in A, l \in B : <<k, l>> \in R
      /\ \A k \in 1..n, l \in C : <<k, l>> \in R
  BY <1>2, <1>3
<1>6. Partition(s, n, F) = (At(s, A) \o At(s, B)) \o At(s, C)
  BY DEF Partition
<1> HIDE DEF A, B, C
<1>7. Chosen(T, s, A, R, At(s, A)) /\ Chosen(T, s, B, R, At(s, B)) /\ Chosen(T, s, C, R, At(s, C))
  BY <1>1, <1>4, AtChosen
<1>8. Chosen(T, s, A \cup B, R, At(s, A) \o At(s, B))
  BY <1>5, <1>7, ChosenJoin
<1>9. Chosen(T, s, (1..n) \cup C, R, (At(s, A) \o At(s, B)) \o At(s, C))
  BY <1>1, <1>5, <1>7, <1>8, ChosenJoin
<1> QED
  BY <1>1, <1>6, <1>9 DEF R

LEMMA MovesKeep ==
  ASSUME NEW s, NEW t, NEW f, Moves(s, t, f)
  PROVE  \A x : (\E k \in 1..Len(s) : t[k] = x) <=> (\E k \in 1..Len(s) : s[k] = x)
<1>1. f \in [1..Len(s) -> 1..Len(s)]
  BY Zenon DEF Moves
<1>2. \A i \in 1..Len(s) : \E k \in 1..Len(s) : f[k] = i
  BY Zenon DEF Moves
<1>3. \A k \in 1..Len(s) : t[k] = s[f[k]]
  BY Zenon DEF Moves
<1>4. ASSUME NEW k \in 1..Len(s) PROVE \E i \in 1..Len(s) : s[i] = t[k]
  BY <1>1, <1>3
<1>5. ASSUME NEW k \in 1..Len(s) PROVE \E i \in 1..Len(s) : t[i] = s[k]
  BY <1>2, <1>3
<1> QED
  BY <1>4, <1>5, Zenon

LEMMA ClassesSorted ==
  ASSUME NEW c \in Seq(String)
  PROVE  LET s == Escaped(StableSort(StringBefore, c))
         IN  /\ s \in Seq(String) /\ Rising(s, 1, Len(s) + 1)
             /\ \A x : (\E k \in 1..Len(s) : s[k] = x) <=> (\E k \in 1..Len(c) : x = Escape(c[k]))
<1> DEFINE u == StableSort(StringBefore, c)
           s == Escaped(u)
           n == Len(c)
<1>1. SortedAs(Seq(Nat), c, u, Alphabetical)
  BY NamesSorted DEF String
<1> HIDE DEF u
<1>2. u \in Seq(String) /\ Len(u) = n /\ n \in Nat
  BY <1>1 DEF SortedAs, String
<1>3. PICK p \in [1..n -> 1..n] :
       /\ \A i \in 1..n : \E k \in 1..n : p[k] = i
       /\ \A k \in 1..n : u[k] = c[p[k]]
       /\ \A k, l \in 1..n : k < l =>
            \/ <<u[k], u[l]>> \in Alphabetical
            \/ <<u[l], u[k]>> \notin Alphabetical /\ p[k] < p[l]
  BY <1>1, Zenon DEF SortedAs
<1> HIDE DEF n
<1>4. \A k \in 1..n : u[k] \in String /\ Escape(u[k]) \in String
  BY <1>2, EscapeJoins
<1>5. s = [k \in 1..n |-> Escape(u[k])]
  <2>1. DOMAIN u = 1..n
    BY <1>2
  <2> QED
    BY <2>1, Zenon DEF Escaped
<1> HIDE DEF s
<1>6. s \in Seq(String) /\ Len(s) = n /\ \A k \in 1..n : s[k] = Escape(u[k])
  BY <1>2, <1>4, <1>5
<1>7. ASSUME NEW k \in 1..n, NEW l \in 1..n, k < l
      PROVE  ~StringBefore(s[l], s[k])
  <2>1. ~StringBefore(u[l], u[k]) /\ u[k] \in String /\ u[l] \in String
    <3>1. u[k] \in String /\ u[l] \in String /\ u[k] \in Seq(Nat) /\ u[l] \in Seq(Nat)
      BY <1>4 DEF String
    <3>2. StringBefore(u[k], u[l]) \/ ~StringBefore(u[l], u[k])
      BY <1>3, <1>7, <3>1 DEF Alphabetical
    <3> QED
      BY <3>1, <3>2, StringsOrdered
  <2>2. CASE u[k] = u[l]
    <3>1. s[k] = s[l] /\ s[k] \in String
      BY <1>4, <1>6, <2>2
    <3> QED
      BY <3>1, StringsOrdered
  <2>3. CASE StringBefore(u[k], u[l])
    <3>1. StringBefore(s[k], s[l]) /\ s[k] \in String /\ s[l] \in String
      BY <1>4, <1>6, <2>1, <2>3, EscapeOrdered
    <3> QED
      BY <3>1, StringsOrdered
  <2> QED
    BY <2>1, <2>2, <2>3, StringsOrdered
<1>8. Rising(s, 1, Len(s) + 1)
  <2>1. 1..(Len(s) + 1) - 1 = 1..n
    BY <1>2, <1>6
  <2> QED
    BY <1>7, <2>1, Zenon DEF Rising
<1>9. ASSUME NEW k \in 1..n PROVE \E i \in 1..n : s[k] = Escape(c[i])
  <2>1. p[k] \in 1..n /\ u[k] = c[p[k]] /\ s[k] = Escape(u[k])
    BY <1>3, <1>6
  <2> QED
    BY <2>1, Zenon
<1>10. ASSUME NEW k \in 1..n PROVE \E i \in 1..n : s[i] = Escape(c[k])
  <2>1. PICK i \in 1..n : p[i] = k
    BY <1>3
  <2>2. u[i] = c[k] /\ s[i] = Escape(u[i])
    BY <1>3, <1>6, <2>1
  <2> QED
    BY <2>2, Zenon
<1>11. \A x : (\E k \in 1..Len(s) : s[k] = x) <=> (\E k \in 1..n : x = Escape(c[k]))
  <2>1. Len(s) = n
    BY <1>6
  <2>2. ASSUME NEW x, NEW k \in 1..n, s[k] = x PROVE \E i \in 1..n : x = Escape(c[i])
    BY <1>9, <2>2
  <2>3. ASSUME NEW x, NEW k \in 1..n, x = Escape(c[k]) PROVE \E i \in 1..n : s[i] = x
    BY <1>10, <2>3
  <2> QED
    BY <2>1, <2>2, <2>3
<1> QED
  BY <1>6, <1>8, <1>11 DEF s, u, n

(* In the groups of classes, and in each in order. *)
ClassesInGroups(t) ==
  \A k, l \in 1..Len(t) : k < l =>
    \/ ClassGroup(t[k]) < ClassGroup(t[l])
    \/ ClassGroup(t[k]) = ClassGroup(t[l]) /\ ~StringBefore(t[l], t[k])

(* What OrderClasses makes of the sorted classes. *)
ClassesOf(s) == Partition(ArrangedOf(s, 1), LangOf(s)[2] - LangOf(s)[1], Fundamental)

LEMMA FundamentalBegins ==
  ASSUME NEW s \in Fundamental, s \in String
  PROVE  Begins(JavaLang, s)
<1>1. <<Slash>> \in String
  BY CharactersDistinct DEF String
<1>2. /\ JavaLang \o <<Slash>> \in String /\ Begins(JavaLang, JavaLang \o <<Slash>>)
  BY <1>1, JavaFacts, JoinBegins
<1>3. Begins(JavaLang \o <<Slash>>, s)
  BY <1>2, FundamentalIs, PrefixIs
<1> QED
  BY <1>2, <1>3, JavaFacts, BelowIs

LEMMA ClassesPartitioned ==
  ASSUME NEW r \in Seq(String), Grouped(r), NEW n \in 0..Len(r),
         \A k \in 1..Len(r) : k <= n <=> Begins(JavaLang, r[k]),
         \A k \in 1..Len(r) : r[k] # Java,
         NEW x, Chosen(String, r, 1..Len(r), Ahead(r, n, Fundamental), x)
  PROVE  ClassesInGroups(x)
<1>1. PICK pos \in [1..Len(x) -> 1..Len(r)] :
        /\ \A i \in 1..Len(x) : x[i] = r[pos[i]]
        /\ \A i, j \in 1..Len(x) : i < j => <<pos[i], pos[j]>> \in Ahead(r, n, Fundamental)
  BY Zenon DEF Chosen
<1>2. ASSUME NEW k \in 1..Len(r)
      PROVE  /\ r[k] \in String
             /\ r[k] \in Fundamental => k <= n
             /\ k <= n => /\ Group(r[k]) = 1
                          /\ ClassGroup(r[k]) = IF r[k] \in Fundamental THEN 0 ELSE 1
             /\ k > n => Group(r[k]) \in {2, 3} /\ ClassGroup(r[k]) = Group(r[k])
  <2>1. r[k] \in String
    OBVIOUS
  <2>2. r[k] \in Fundamental => k <= n
    BY <2>1, FundamentalBegins
  <2>3. Group(r[k]) = IF Begins(JavaLang, r[k]) THEN 1 ELSE IF Begins(Java, r[k]) THEN 2 ELSE 3
    BY <2>1, GroupIs
  <2>4. k \in Nat /\ n \in Nat
    OBVIOUS
  <2> QED
    BY <2>1, <2>2, <2>3, <2>4 DEF ClassGroup
<1>3. ASSUME NEW i \in 1..Len(x), NEW j \in 1..Len(x), i < j
      PROVE  \/ ClassGroup(x[i]) < ClassGroup(x[j])
             \/ ClassGroup(x[i]) = ClassGroup(x[j]) /\ ~StringBefore(x[j], x[i])
  <2> DEFINE k == pos[i]
             l == pos[j]
  <2>1. /\ k \in 1..Len(r) /\ l \in 1..Len(r) /\ x[i] = r[k] /\ x[j] = r[l]
        /\ <<k, l>> \in Ahead(r, n, Fundamental)
    BY <1>1, <1>3
  <2> HIDE DEF k, l
  <2>2. \/ k <= n /\ l > n
        \/ (k <= n <=> l <= n) /\ k < l /\ ~(l <= n /\ r[l] \in Fundamental /\ r[k] \notin Fundamental)
        \/ k <= n /\ l <= n /\ r[k] \in Fundamental /\ r[l] \notin Fundamental
    BY <2>1 DEF Ahead
  <2>3. k \in Nat /\ l \in Nat /\ n \in Nat
    BY <2>1
  <2>4. k < l => \/ Group(r[k]) < Group(r[l])
                 \/ Group(r[k]) = Group(r[l]) /\ ~StringBefore(r[l], r[k])
    BY <2>1 DEF Grouped
  <2>5. /\ k <= n => /\ Group(r[k]) = 1
                     /\ ClassGroup(r[k]) = IF r[k] \in Fundamental THEN 0 ELSE 1
        /\ k > n => Group(r[k]) \in {2, 3} /\ ClassGroup(r[k]) = Group(r[k])
    BY <1>2, <2>1
  <2>6. /\ l <= n => /\ Group(r[l]) = 1
                     /\ ClassGroup(r[l]) = IF r[l] \in Fundamental THEN 0 ELSE 1
        /\ l > n => Group(r[l]) \in {2, 3} /\ ClassGroup(r[l]) = Group(r[l])
    BY <1>2, <2>1
  <2>7. CASE k <= n /\ l > n
    BY <2>1, <2>3, <2>5, <2>6, <2>7
  <2>8. CASE k <= n /\ l <= n
    BY <2>1, <2>2, <2>3, <2>4, <2>5, <2>6, <2>8
  <2>9. CASE k > n
    BY <2>1, <2>2, <2>3, <2>4, <2>5, <2>6, <2>9
  <2> QED
    BY <2>3, <2>7, <2>8, <2>9
<1> QED
  BY <1>3, Zenon DEF ClassesInGroups

LEMMA ClassesOrdered ==
  ASSUME NEW c \in Seq(String)
  PROVE  LET x == ClassesOf(Escaped(StableSort(StringBefore, c)))
         IN  /\ x \in Seq(String)
             /\ \A y : (\E k \in 1..Len(x) : x[k] = y) <=> (\E k \in 1..Len(c) : y = Escape(c[k]))
             /\ (\A k \in 1..Len(x) : ~Beginning(x[k], JavaLang)) => ClassesInGroups(x)
<1> DEFINE s == Escaped(StableSort(StringBefore, c))
           r == ArrangedOf(s, 1)
           p == LangOf(s)[1]
           q == LangOf(s)[2]
           x == ClassesOf(s)
<1>1. /\ s \in Seq(String) /\ Rising(s, 1, Len(s) + 1)
      /\ \A y : (\E k \in 1..Len(s) : s[k] = y) <=> (\E k \in 1..Len(c) : y = Escape(c[k]))
  BY ClassesSorted
<1> HIDE DEF s
<1>2. /\ p \in Nat /\ q \in Nat /\ 1 <= p /\ p <= q /\ q <= Len(s) + 1 /\ 1 <= 1
      /\ Rotates(1, p, q) => Rearranged(s, r)
      /\ Sortable(s, 1) =>
           Grouped(r) /\ \A k \in 1..Len(s) : k <= q - p <=> Begins(JavaLang, r[k])
  BY <1>1, Arranged
<1>3. x = Partition(r, q - p, Fundamental)
  BY DEF ClassesOf
<1> HIDE DEF r, p, q, x
<1>4. Rearranged(s, r)
  BY <1>2 DEF Rotates
<1>5. r \in Seq(String) /\ Len(r) = Len(s) /\ q - p \in 0..Len(r) /\ Len(s) \in Nat
  BY <1>1, <1>2, <1>4 DEF Rearranged
<1>6. \A y : (\E k \in 1..Len(r) : r[k] = y) <=> (\E k \in 1..Len(s) : s[k] = y)
  <2>1. PICK f : Moves(s, r, f)
    BY <1>4 DEF Rearranged
  <2>2. \A y : (\E k \in 1..Len(s) : r[k] = y) <=> (\E k \in 1..Len(s) : s[k] = y)
    BY <2>1, MovesKeep
  <2> QED
    BY <1>5, <2>2, Zenon
<1>7. Chosen(String, r, 1..Len(r), Ahead(r, q - p, Fundamental), x)
  BY <1>3, <1>5, PartitionIs
<1>8. /\ x \in Seq(String)
      /\ \A y : (\E k \in 1..Len(x) : x[k] = y) <=> (\E k \in 1..Len(r) : r[k] = y)
  <2>1. PICK pos \in [1..Len(x) -> 1..Len(r)] :
        /\ \A i \in 1..Len(x) : x[i] = r[pos[i]]
        /\ \A k \in 1..Len(r) : \E i \in 1..Len(x) : pos[i] = k
    BY <1>7, Zenon DEF Chosen
  <2>2. ASSUME NEW i \in 1..Len(x) PROVE \E k \in 1..Len(r) : r[k] = x[i]
    BY <2>1
  <2>3. ASSUME NEW k \in 1..Len(r) PROVE \E i \in 1..Len(x) : x[i] = r[k]
    BY <2>1
  <2>4. x \in Seq(String)
    BY <1>7, Zenon DEF Chosen
  <2> QED
    BY <2>2, <2>3, <2>4, Zenon
<1>9. ASSUME \A k \in 1..Len(x) : ~Beginning(x[k], JavaLang) PROVE ClassesInGroups(x)
  <2>1. \A k \in 1..Len(s) : ~Beginning(s[k], JavaLang) /\ s[k] # Java
    <3>1. Beginning(Java, JavaLang)
      BY JavaFacts, GroupIs
    <3> QED
      BY <1>6, <1>8, <1>9, <3>1, Zenon
  <2>2. Sortable(s, 1)
    <3>1. 1 \in {1, 2} /\ 1 # 2
      OBVIOUS
    <3> QED
      BY <1>1, <2>1, <3>1, Zenon DEF Sortable
  <2>3. /\ Grouped(r) /\ \A k \in 1..Len(r) : k <= q - p <=> Begins(JavaLang, r[k])
    BY <1>2, <1>5, <2>2
  <2>4. \A k \in 1..Len(r) : r[k] # Java
    BY <1>6, <2>1, Zenon
  <2> HIDE DEF s
  <2> QED
    BY <1>5, <1>7, <2>3, <2>4, ClassesPartitioned
<1> QED
  BY <1>1, <1>6, <1>8, <1>9, Zenon DEF x, s

-----------------------------------------------------------------------------
(* Parents *)

LEMMA ParentIs ==
  ASSUME NEW v \in String, NEW m \in Nat, m < Len(v), m > 0 => v[m] = Under,
         \A j \in m + 1..Len(v) - 1 : v[j] # Under, Len(v) = 1 => v[1] # Under
  PROVE  PkgParent(v) = IF m = 0 THEN v ELSE SubSeq(v, 1, m - 1)
<1> DEFINE n == Len(v)
           ends == IF Last(v) = Under /\ n > 1 THEN Unders(v) \ {n} ELSE Unders(v)
<1>1. n \in Nat /\ DOMAIN v = 1..n /\ Last(v) = v[n] /\ n >= 1
      /\ (n = 1 => v[n] # Under)
  BY DEF String, Last
<1>2. PkgParent(v) = IF ends = {} THEN v ELSE SubSeq(v, 1, Max(ends) - 1)
  BY DEF PkgParent
<1>3. \A j : j \in ends <=> j \in 1..n - 1 /\ v[j] = Under
  <2> HIDE DEF n
  <2>1. \A j : j \in Unders(v) <=> j \in 1..n /\ v[j] = Under
    BY <1>1 DEF Unders
  <2>2. \A j \in 1..n : j \in 1..n - 1 <=> j # n
    BY <1>1
  <2> QED
    BY <1>1, <2>1, <2>2
<1> HIDE DEF ends, n
<1>4. CASE m = 0
  <2>1. ends = {}
    BY <1>1, <1>3, <1>4 DEF n
  <2> QED
    BY <1>2, <1>4, <2>1
<1>5. CASE m > 0
  <2>1. m \in ends
    BY <1>1, <1>3, <1>5 DEF n
  <2>2. ends \in SUBSET (1..m)
    BY <1>1, <1>3, <1>5 DEF n
  <2>3. Max(ends) = m
    BY <2>1, <2>2, MaxOf
  <2> QED
    BY <1>2, <1>5, <2>1, <2>3
<1> QED
  BY <1>4, <1>5

(* Only the last character of a part can be escaped. *)
Name(b) ==
  /\ b \in String /\ b # <<>>
  /\ \A k \in 1..Len(b) : b[k] # Under /\ b[k] # Slash /\ (b[k] = Word => k = Len(b))

LEMMA NameEscaped ==
  ASSUME NEW b, Name(b)
  PROVE  /\ Escape(b) \in String /\ Len(Escape(b)) \in Nat /\ Len(Escape(b)) >= 1
         /\ \A k \in 1..Len(Escape(b)) : Escape(b)[k] # Slash
         /\ \A k \in 1..Len(Escape(b)) - 1 : Escape(b)[k] # Under
         /\ Len(Escape(b)) = 1 => Escape(b)[1] # Under
         /\ b[Len(b)] # Word =>
              Escape(b) = b /\ \A k \in 1..Len(b) : b[k] # Under
<1> DEFINE n == Len(b)
<1>1. b \in String /\ b \in Seq(Nat) /\ n \in Nat /\ n \in 1..Len(b) /\ n = Len(b) /\ DOMAIN b = 1..n
  BY DEF Name, String
<1>2. \A k \in 1..n : b[k] # Under /\ b[k] # Slash /\ (b[k] = Word => k = n)
  BY DEF Name
<1> HIDE DEF n
<1>3. CASE b[n] # Word
  <2>1. \A k \in DOMAIN b : b[k] # Word
    BY <1>1, <1>2, <1>3
  <2>2. Escape(b) = b
    BY <1>1, <2>1, EscapeOf
  <2>3. \A k \in 1..n - 1 : k \in 1..n
    BY <1>1
  <2>4. n >= 1 /\ 1 \in 1..n
    BY <1>1
  <2>5. Len(b) = 1 => b[1] # Under
    BY <1>2, <2>4
  <2> QED
    BY <1>1, <1>2, <2>2, <2>3, <2>4, <2>5
<1>4. CASE b[n] = Word
  <2> DEFINE a == SubSeq(b, 1, n - 1)
             c == SubSeq(b, n + 1, Len(b))
  <2>1. /\ a \in Seq(Nat) /\ c \in Seq(Nat) /\ b = a \o (<<b[n]>> \o c)
        /\ Len(a) = n - 1 /\ \A j \in 1..n - 1 : a[j] = b[j]
        /\ Len(c) = Len(b) - n
    BY <1>1, TakenApart
  <2> HIDE DEF a, c
  <2>2. c = <<>>
    BY <1>1, <2>1
  <2>3. a \in String /\ Escape(a) = a
    <3>1. \A k \in DOMAIN a : k \in 1..n - 1 /\ k \in 1..n /\ k # n
      BY <1>1, <2>1
    <3>2. \A k \in DOMAIN a : a[k] # Word
      BY <1>2, <2>1, <3>1
    <3>3. a \in String
      BY <2>1 DEF String
    <3> QED
      BY <3>2, <3>3, EscapeOf
  <2>4. Escape(b) = a \o <<Word, Under>>
    <3>1. <<Word>> \in String /\ Word \in Nat /\ <<Word>> \o c = <<Word>>
      BY <2>2, CharactersDistinct DEF String
    <3>2. b = a \o <<Word>>
      BY <1>4, <2>1, <3>1
    <3>4. Escape(a \o <<Word>>) = Escape(a) \o Escape(<<Word>>)
      BY <2>3, <3>1, EscapeJoins
    <3>3. Escape(<<Word>>) = <<Word, Under>>
      BY <3>1, EscapeOf DEF Piece
    <3> QED
      BY <2>3, <3>2, <3>3, <3>4
  <2> DEFINE E == a \o <<Word, Under>>
  <2>5. Joined(Nat, E, a, <<Word, Under>>, n - 1, n + 1)
    <3>1. Joins(Nat, a, <<Word, Under>>, n - 1, n + 1)
      <4>1. <<Word, Under>> \in Seq(Nat) /\ Len(<<Word, Under>>) = 2
        BY CharactersDistinct
      <4>2. n - 1 \in Nat /\ n + 1 \in Nat /\ (n + 1) - (n - 1) = 2
        BY <1>1
      <4> QED
        BY <2>1, <4>1, <4>2 DEF Joins
    <3> QED
      BY <3>1, JoinIs
  <2> HIDE DEF E
  <2>6. /\ \A k \in 1..n + 1 : k \in 1..n - 1 \/ k = n \/ k = n + 1
        /\ \A k \in 1..n : k \in 1..n - 1 \/ k = n
        /\ (n + 1) - 1 = n /\ n - (n - 1) = 1 /\ (n + 1) - (n - 1) = 2
        /\ n \in 1..n + 1 /\ n + 1 \in 1..n + 1 /\ ~(n <= n - 1) /\ ~(n + 1 <= n - 1)
        /\ \A k \in 1..n - 1 : k \in 1..n + 1 /\ k <= n - 1 /\ k \in 1..n
    BY <1>1
  <2>7. /\ E \in String /\ Len(E) = n + 1
        /\ \A k \in 1..n + 1 : E[k] = IF k <= n - 1 THEN a[k] ELSE <<Word, Under>>[k - (n - 1)]
    BY <2>5, Zenon DEF Joined, String
  <2>8. E[n] = Word /\ E[n + 1] = Under
    <3> DEFINE w == <<Word, Under>>
    <3>1. w[1] = Word /\ w[2] = Under
      OBVIOUS
    <3> HIDE DEF w
    <3>2. \A k \in 1..n + 1 : E[k] = IF k <= n - 1 THEN a[k] ELSE w[k - (n - 1)]
      BY <2>7 DEF w
    <3>3. E[n] = w[n - (n - 1)]
      BY <2>6, <3>2
    <3>4. E[n + 1] = w[(n + 1) - (n - 1)]
      BY <2>6, <3>2
    <3> QED
      BY <2>6, <3>1, <3>3, <3>4
  <2>9. \A k \in 1..n - 1 : E[k] # Slash /\ E[k] # Under
    BY <1>2, <2>1, <2>6, <2>7
  <2>10. \A k \in 1..n + 1 : E[k] # Slash
    BY <2>6, <2>8, <2>9, CharactersDistinct
  <2>11. \A k \in 1..n : E[k] # Under
    BY <2>6, <2>8, <2>9, CharactersDistinct
  <2>12. n + 1 \in Nat /\ n + 1 >= 1 /\ n + 1 # 1 /\ b[Len(b)] = Word
    BY <1>1, <1>4
  <2>13. Escape(b) = E
    BY <2>4 DEF E
  <2> QED
    BY <2>6, <2>7, <2>10, <2>11, <2>12, <2>13
<1> QED
  BY <1>3, <1>4

LEMMA PkgVarIs ==
  ASSUME NEW q \in String
  PROVE  /\ PkgVar(q) \in String /\ Len(PkgVar(q)) = Len(q)
         /\ \A j \in 1..Len(q) : PkgVar(q)[j] = IF q[j] = Slash THEN Under ELSE q[j]
<1>1. PkgVar(q) = [j \in 1..Len(q) |-> IF q[j] = Slash THEN Under ELSE q[j]]
  BY DEF PkgVar, String
<1>2. \A j \in 1..Len(q) : (IF q[j] = Slash THEN Under ELSE q[j]) \in Nat
  BY CharactersDistinct DEF String
<1> QED
  BY <1>1, <1>2 DEF String

(* A package whose name has no slash declares itself, with an underscore    *)
(* added; one that has is declared by what is before the last, as it is.       *)
LEMMA NameParent ==
  ASSUME NEW b, Name(b)
  PROVE  LET v == PkgVar(Escape(b))
         IN  PkgParent(v) = v /\ PkgChild(v) = <<>> /\ Variable(v) = v \o <<Under>>
<1> DEFINE e == Escape(b)
           v == PkgVar(e)
<1>1. /\ e \in String /\ Len(e) \in Nat /\ Len(e) >= 1
      /\ \A k \in 1..Len(e) : e[k] # Slash
      /\ \A k \in 1..Len(e) - 1 : e[k] # Under
      /\ Len(e) = 1 => e[1] # Under
  BY NameEscaped
<1> HIDE DEF e
<1>2. /\ v \in String /\ Len(v) = Len(e)
      /\ \A j \in 1..Len(e) : v[j] = IF e[j] = Slash THEN Under ELSE e[j]
  BY <1>1, PkgVarIs
<1> HIDE DEF v
<1>3. \A j \in 0 + 1..Len(v) - 1 : v[j] # Under
  BY <1>1, <1>2
<1>4. 0 \in Nat /\ 0 < Len(v) /\ (Len(v) = 1 => v[1] # Under)
  BY <1>1, <1>2
<1>5. PkgParent(v) = IF 0 = 0 THEN v ELSE SubSeq(v, 1, 0 - 1)
  BY <1>2, <1>3, <1>4, ParentIs
<1>6. PkgParent(v) = v /\ PkgChild(v) = <<>> /\ Variable(v) = v \o <<Under>>
  BY <1>5 DEF PkgChild, Variable
<1> QED
  BY <1>6 DEF v, e

LEMMA PathParent ==
  ASSUME NEW a \in String, a # <<>>, NEW b, Name(b)
  PROVE  LET q == Escape(a \o (<<Slash>> \o b))
         IN  /\ PkgParent(PkgVar(q)) = PkgVar(Escape(a))
             /\ Variable(PkgVar(q)) = PkgVar(q) /\ Under \in ToSet(PkgVar(q))
             /\ Begins(Escape(a), q) /\ Len(Escape(a)) + 1 <= Len(q)
             /\ q[Len(Escape(a)) + 1] = Slash /\ q \in String
<1> DEFINE q == Escape(a \o (<<Slash>> \o b))
           e == Escape(b)
           x == Escape(a)
           v == PkgVar(q)
<1>1. /\ e \in String /\ Len(e) \in Nat /\ Len(e) >= 1
      /\ \A k \in 1..Len(e) : e[k] # Slash
      /\ \A k \in 1..Len(e) - 1 : e[k] # Under
  BY NameEscaped
<1>2. x \in String /\ Len(x) \in Nat
  BY EscapeJoins DEF String
<1>3. q = x \o (<<Slash>> \o e)
  <2>1. Slash \in Nat /\ <<Slash>> \in String /\ b \in String /\ <<Slash>> \o b \in String
    BY CharactersDistinct DEF Name, String
  <2>2. Escape(<<Slash>>) = <<Slash>>
    BY <2>1, EscapeOf, CharactersDistinct DEF Piece
  <2>3. Escape(<<Slash>> \o b) = <<Slash>> \o e
    BY <2>1, <2>2, EscapeJoins
  <2> QED
    BY <2>1, <2>3, EscapeJoins
<1> DEFINE m == Len(x) + 1
<1> HIDE DEF e, x, q
<1>4. /\ q \in String /\ Len(q) = m + Len(e) /\ q[m] = Slash
      /\ \A j \in 1..Len(x) : q[j] = x[j]
      /\ \A j \in 1..Len(e) : q[m + j] = e[j]
  <2>1. Slash \in Nat
    BY CharactersDistinct
  <2>2. q \in String /\ Len(q) = m + Len(e)
    BY <1>1, <1>2, <1>3, <2>1 DEF String
  <2>3. q[m] = Slash
    BY <1>1, <1>2, <1>3, <2>1 DEF String
  <2>4. \A j \in 1..Len(x) : q[j] = x[j]
    BY <1>1, <1>2, <1>3, <2>1 DEF String
  <2>5. ASSUME NEW j \in 1..Len(e) PROVE q[m + j] = e[j]
    <3> DEFINE z == <<Slash>> \o e
    <3>1. z \in Seq(Nat) /\ Len(z) = Len(e) + 1 /\ z[j + 1] = e[j] /\ x \in Seq(Nat)
      BY <1>1, <1>2, <2>1 DEF String
    <3> HIDE DEF z
    <3>2. m + j \in Len(x) + 1..Len(x) + Len(z) /\ (m + j) - Len(x) = j + 1
      BY <1>1, <1>2, <3>1
    <3>3. (x \o z)[m + j] = z[(m + j) - Len(x)]
      BY <3>1, <3>2, SMTT(30)
    <3> QED
      BY <1>3, <3>1, <3>2, <3>3 DEF z
  <2> QED
    BY <2>2, <2>3, <2>4, <2>5
<1>5. m \in Nat /\ m > 0 /\ m - 1 = Len(x) /\ m <= Len(q) /\ m < Len(q) /\ Len(q) # 1
  BY <1>1, <1>2, <1>4
<1>6. /\ v \in String /\ Len(v) = Len(q)
      /\ \A j \in 1..Len(q) : v[j] = IF q[j] = Slash THEN Under ELSE q[j]
  BY <1>4, PkgVarIs
<1> HIDE DEF v
<1>7. v[m] = Under
  BY <1>4, <1>5, <1>6
<1> HIDE DEF m
<1>8. ASSUME NEW j \in m + 1..Len(v) - 1 PROVE v[j] # Under
  <2>1. /\ j - m \in 1..Len(e) - 1 /\ j - m \in 1..Len(e) /\ m + (j - m) = j
        /\ j \in 1..Len(q)
    BY <1>1, <1>4, <1>5, <1>6
  <2>2. q[j] = e[j - m]
    BY <1>4, <2>1
  <2> QED
    BY <1>1, <1>6, <2>1, <2>2
<1>9. PkgParent(v) = SubSeq(v, 1, m - 1)
  BY <1>5, <1>6, <1>7, <1>8, ParentIs
<1>10. SubSeq(v, 1, m - 1) = PkgVar(x)
  <2>1. /\ PkgVar(x) \in Seq(Nat) /\ Len(PkgVar(x)) = Len(x)
        /\ \A j \in 1..Len(x) : PkgVar(x)[j] = IF x[j] = Slash THEN Under ELSE x[j]
    BY <1>2, PkgVarIs DEF String
  <2>2. /\ SubSeq(v, 1, m - 1) \in Seq(Nat) /\ Len(SubSeq(v, 1, m - 1)) = m - 1
        /\ \A j \in 1..m - 1 : SubSeq(v, 1, m - 1)[j] = v[j]
    <3>1. m \in 1..Len(v) /\ v \in Seq(Nat)
      BY <1>4, <1>5, <1>6 DEF String
    <3> QED
      BY <3>1, TakenApart
  <2>3. ASSUME NEW j \in 1..Len(x) PROVE SubSeq(v, 1, m - 1)[j] = PkgVar(x)[j]
    <3>1. j \in 1..Len(q) /\ j \in 1..m - 1 /\ q[j] = x[j]
      BY <1>2, <1>4, <1>5
    <3> QED
      BY <1>6, <2>1, <2>2, <3>1
  <2> QED
    BY <1>5, <2>1, <2>2, <2>3, SeqEqual
<1>11. Begins(x, q)
  BY <1>2, <1>4, <1>5 DEF Begins
<1>12. Under \in ToSet(v)
  <2>1. v \in Seq(Nat) /\ m \in 1..Len(v)
    BY <1>5, <1>6 DEF String
  <2> QED
    BY <1>7, <2>1, ToSetIs
<1>13. Variable(v) = v
  <2> DEFINE y == PkgParent(v)
             c == SubSeq(v, Len(y) + 2, Len(v))
  <2>1. Len(y) = Len(x)
    BY <1>2, <1>9, <1>10, PkgVarIs
  <2>2. y # v
    BY <1>2, <1>5, <1>6, <2>1
  <2>3. c # <<>>
    <3>1. v \in Seq(Nat) /\ m + 1 \in 1..Len(v) /\ Len(y) + 2 = m + 1
      BY <1>2, <1>5, <1>6, <2>1 DEF String
    <3> DEFINE n == Len(v)
               z == SubSeq(v, m + 1, n)
    <3>2. c = z
      BY <3>1
    <3>3. n \in Nat /\ m + 1 \in Nat /\ 1 <= m + 1 /\ m + 1 <= n
      BY <1>5, <3>1
    <3> HIDE DEF n
    <3>4. Len(z) = n - (m + 1) + 1
      BY <3>1, <3>3
    <3> HIDE DEF z
    <3>5. Len(z) # 0
      BY <3>3, <3>4
    <3> QED
      BY <3>2, <3>5
  <2>4. PkgChild(v) = c
    BY <2>2 DEF PkgChild
  <2> QED
    BY <2>3, <2>4 DEF Variable
<1> QED
  BY <1>4, <1>5, <1>9, <1>10, <1>11, <1>12, <1>13 DEF m, v, q, x

(* Ordinary, of the characters in packages P. *)
PlainNames(P) ==
  \A p \in P : \A k \in DOMAIN p :
    p[k] # Under /\ (p[k] = Word /\ k < Len(p) => p[k + 1] = Slash)

PlainTops(P) ==
  \A p \in P : \A k \in DOMAIN p :
    p[k] = Slash /\ (\A i \in 1..k - 1 : p[i] # Slash) => p[k - 1] # Word

LEMMA PathNames ==
  ASSUME NEW p, Path(p), PlainNames({p})
  PROVE  \/ Name(p)
         \/ \E k \in 1..Len(p) : \E b :
              LET a == SubSeq(p, 1, k - 1)
              IN  /\ p[k] = Slash /\ a # <<>> /\ a \in String /\ Name(b)
                  /\ p = a \o (<<Slash>> \o b)
<1> DEFINE n == Len(p)
<1>1. p \in Seq(Nat) /\ p # <<>> /\ p \in String /\ n \in Nat /\ n >= 1 /\ n = Len(p)
  BY DEF Path, String
<1>2. /\ \A k \in 1..n : p[k] = Slash =>
           1 < k /\ k < n /\ p[k - 1] # Slash /\ p[k + 1] # Slash
      /\ \A k \in 1..n : p[k] # Under /\ (p[k] = Word /\ k < n => p[k + 1] = Slash)
  <2>1. DOMAIN p = 1..n
    BY <1>1
  <2>2. \A k \in DOMAIN p : p[k] = Slash =>
           1 < k /\ k < n /\ p[k - 1] # Slash /\ p[k + 1] # Slash
    BY Zenon DEF Path
  <2>3. \A k \in DOMAIN p : p[k] # Under /\ (p[k] = Word /\ k < n => p[k + 1] = Slash)
    BY Zenon DEF PlainNames
  <2> QED
    BY <2>1, <2>2, <2>3, Zenon
<1> HIDE DEF n
<1>3. CASE \A k \in 1..n : p[k] # Slash
  <2>1. \A k \in 1..n : p[k] = Word => k = n
    BY <1>1, <1>2, <1>3
  <2>2. Name(p)
    BY <1>1, <1>2, <1>3, <2>1 DEF Name
  <2> QED
    BY <2>2
<1>4. CASE \E k \in 1..n : p[k] = Slash
  <2> DEFINE S == {i \in Nat : i < n /\ p[n - i] = Slash}
  <2>1. S # {}
    <3>1. PICK k \in 1..n : p[k] = Slash
      BY <1>4
    <3>2. n - k \in Nat /\ n - k < n /\ n - (n - k) = k
      BY <1>1
    <3>3. n - k \in S
      BY <3>1, <3>2
    <3> QED
      BY <3>3
  <2>2. PICK i \in S : \A y \in S : i <= y
    <3>1. S \in SUBSET Nat
      OBVIOUS
    <3> HIDE DEF S
    <3> QED
      BY <2>1, <3>1, LeastNumber
  <2> DEFINE k == n - i
             a == SubSeq(p, 1, k - 1)
             b == SubSeq(p, k + 1, Len(p))
  <2>3. k \in 1..n /\ k \in 1..Len(p) /\ p[k] = Slash /\ i \in Nat /\ k = n - i
    BY <1>1, <2>2
  <2>4. ASSUME NEW j \in k + 1..n PROVE p[j] # Slash
    <3>1. n - j \in Nat /\ n - j < n /\ n - (n - j) = j /\ ~(i <= n - j)
      BY <1>1, <2>3, SMTT(30)
    <3> QED
      BY <2>2, <3>1
  <2> HIDE DEF k, S
  <2>5. 1 < k /\ k < n
    BY <1>2, <2>3
  <2>6. /\ a \in Seq(Nat) /\ b \in Seq(Nat) /\ p = a \o (<<p[k]>> \o b)
        /\ Len(a) = k - 1
        /\ Len(b) = Len(p) - k /\ \A j \in 1..Len(p) - k : b[j] = p[k + j]
    <3>1. p \in Seq(Nat) /\ k \in 1..Len(p)
      BY <1>1, <2>3
    <3> QED
      BY <3>1, TakenApart, ZenonT(30)
  <2> HIDE DEF b
  <2>7. a # <<>>
    <3> HIDE DEF a
    <3> QED
      BY <2>3, <2>5, <2>6
  <2>8. Name(b)
    <3>0. k \in Nat /\ n \in Nat /\ 1 <= k /\ k <= n /\ Len(b) = n - k
      BY <1>1, <2>3, <2>6
    <3>1. ASSUME NEW j \in 1..Len(b)
          PROVE  /\ b[j] = p[k + j] /\ k + j \in k + 1..n /\ k + j \in 1..n
                 /\ j # Len(b) => k + j < n /\ (k + j) + 1 \in k + 1..n
      <4>1. k + j \in k + 1..n /\ k + j \in 1..n
        BY <3>0
      <4>2. j # Len(b) => k + j < n /\ (k + j) + 1 \in k + 1..n
        BY <3>0
      <4>3. b[j] = p[k + j]
        BY <1>1, <2>6, <3>0
      <4> QED
        BY <4>1, <4>2, <4>3
    <3>2. ASSUME NEW j \in 1..Len(b)
          PROVE  b[j] # Under /\ b[j] # Slash /\ (b[j] = Word => j = Len(b))
      <4>1. b[j] # Under /\ b[j] # Slash
        BY <1>2, <2>4, <3>1
      <4>2. b[j] = Word => j = Len(b)
        <5> SUFFICES ASSUME b[j] = Word, j # Len(b) PROVE FALSE
          OBVIOUS
        <5>1. p[(k + j) + 1] = Slash
          BY <1>2, <3>1
        <5>2. (k + j) + 1 \in k + 1..n
          BY <3>1
        <5> QED
          BY <2>4, <5>1, <5>2
      <4> QED
        BY <4>1, <4>2
    <3>3. b \in String /\ b # <<>>
      BY <1>1, <2>3, <2>5, <2>6 DEF String
    <3> QED
      BY <3>2, <3>3 DEF Name
  <2>9. a \in String /\ p = a \o (<<Slash>> \o b)
    BY <2>3, <2>6 DEF String
  <2> QED
    BY <2>3, <2>7, <2>8, <2>9
<1> QED
  BY <1>3, <1>4

(* The group of a package comes not before that of the one it is in. *)
LEMMA GroupsNest ==
  ASSUME NEW P, OrdinaryOf(P), NEW a \in P, a \in String, a # <<>>,
         NEW q \in String, Begins(Escape(a), q), Len(Escape(a)) < Len(q),
         q[Len(Escape(a)) + 1] = Slash
  PROVE  Group(Escape(a)) <= Group(q)
<1> DEFINE x == Escape(a)
<1>1. x \in String /\ x = Escape(a)
  BY EscapeJoins
<1>2. Begins(x, q) /\ Len(x) < Len(q) /\ q[Len(x) + 1] = Slash
  OBVIOUS
<1> SUFFICES Group(x) <= Group(q)
  OBVIOUS
<1> HIDE DEF x
<1>3. /\ Len(x) \in Nat /\ Len(q) \in Nat /\ Len(x) + 1 \in 1..Len(q)
      /\ Group(x) = IF x = Java THEN 0 ELSE IF Begins(JavaLang, x) THEN 1
                    ELSE IF Begins(Java, x) THEN 2 ELSE 3
      /\ Group(q) = IF q = Java THEN 0 ELSE IF Begins(JavaLang, q) THEN 1
                    ELSE IF Begins(Java, q) THEN 2 ELSE 3
  <2>1. Len(x) \in Nat /\ Len(q) \in Nat
    BY <1>1 DEF String
  <2>2. Len(x) + 1 \in 1..Len(q)
    BY <1>2, <2>1
  <2> QED
    BY <1>1, <2>1, <2>2, GroupIs
<1>4. q # Java
  BY <1>2, <1>3, JavaFacts
<1>5. CASE Begins(JavaLang, q)
  <2>1. Begins(x, JavaLang) \/ Begins(JavaLang, x)
    BY <1>1, <1>2, <1>5, JavaFacts, BelowIs
  <2>2. ASSUME Begins(x, JavaLang), ~Begins(JavaLang, x) PROVE x = Java
    <3>1. Begins(a, JavaLang) /\ ~Begins(JavaLang, a)
      BY <1>1, <2>2, JavaFacts, EscapePlain
    <3>2. Len(a) < Len(JavaLang)
      <4>1. Len(a) \in Nat /\ Len(JavaLang) \in Nat
        BY <1>1, JavaFacts, StringLength, Zenon
      <4>3. Len(a) <= Len(JavaLang)
        BY <3>1, Zenon DEF Begins
      <4>2. Len(a) = Len(JavaLang) => Begins(JavaLang, a)
        BY <3>1 DEF Begins
      <4> QED
        BY <3>1, <4>1, <4>2, <4>3
    <3>3. IsStrictPrefix(a, JavaLang)
      BY <3>1, <3>2, JavaFacts, PrefixIs
    <3>4. a = Java
      BY <3>3 DEF OrdinaryOf
    <3> QED
      BY <1>1, <3>4, JavaFacts, EscapePlain
  <2> QED
    BY <1>3, <1>4, <1>5, <2>1, <2>2
<1>6. CASE ~Begins(JavaLang, q) /\ Begins(Java, q)
  <2>1. Begins(x, Java) \/ Begins(Java, x)
    BY <1>1, <1>2, <1>6, JavaFacts, BelowIs
  <2>2. ASSUME ~Begins(Java, x) PROVE FALSE
    <3>1. Begins(x, Java) /\ Len(x) <= Len(Java)
      BY <2>1, <2>2 DEF Begins
    <3>2. Len(x) # Len(Java)
      BY <2>2, <3>1 DEF Begins
    <3>3. Len(x) + 1 \in 1..Len(Java)
      BY <1>3, <3>1, <3>2, JavaFacts
    <3>4. q[Len(x) + 1] = Java[Len(x) + 1]
      BY <1>6, <3>3 DEF Begins
    <3> QED
      BY <1>2, <3>3, <3>4, JavaFacts
  <2>3. ~Begins(JavaLang, x) \/ Begins(JavaLang, x)
    OBVIOUS
  <2> QED
    BY <1>3, <1>4, <1>6, <2>2
<1>7. CASE ~Begins(JavaLang, q) /\ ~Begins(Java, q)
  BY <1>3, <1>4, <1>7
<1> QED
  BY <1>5, <1>6, <1>7

(* What declares the k-th of the packages t is before it, or itself. *)
Parented(t, k) ==
  LET v == PkgVar(t[k])
  IN  PkgChild(v) = <<>> \/ \E j \in 1..k - 1 : Variable(PkgVar(t[j])) = ParentVariable(v)

(* The variable of a package that is in another has its own name. *)
LEMMA PathVariable ==
  ASSUME NEW q, Path(q), PlainNames({q}), ~Name(q)
  PROVE  LET w == PkgVar(Escape(q))
         IN  Variable(w) = w /\ Under \in ToSet(w)
<1>1. PICK i, b :
            /\ i \in 1..Len(q) /\ q[i] = Slash
            /\ SubSeq(q, 1, i - 1) # <<>> /\ SubSeq(q, 1, i - 1) \in String
            /\ Name(b)
            /\ q = SubSeq(q, 1, i - 1) \o (<<Slash>> \o b)
  BY PathNames
<1> DEFINE a == SubSeq(q, 1, i - 1)
           r == Escape(a \o (<<Slash>> \o b))
<1>2. r = Escape(q)
  BY <1>1
<1>3. a \in String /\ a # <<>> /\ Name(b)
  BY <1>1
<1> HIDE DEF a
<1>4. Variable(PkgVar(r)) = PkgVar(r) /\ Under \in ToSet(PkgVar(r))
  BY <1>3, PathParent
<1> QED
  BY <1>2, <1>4

(* The variable that a package is declared as is the one its children are   *)
(* declared by.                                                                *)
LEMMA VariableFound ==
  ASSUME NEW P, Closed(P), PlainNames(P), PlainTops(P),
         NEW p \in P \ {<<>>}, NEW i \in 1..Len(p), p[i] = Slash,
         NEW a \in P, a = SubSeq(p, 1, i - 1), a # <<>>, a \in String
  PROVE  LET w == PkgVar(Escape(a))
         IN  Variable(w) = IF Under \in ToSet(w) THEN w ELSE w \o <<Under>>
<1> DEFINE w == PkgVar(Escape(a))
<1>1. Path(a) /\ PlainNames({a})
  BY DEF Closed, PlainNames
<1>2. p \in Seq(Nat) /\ DOMAIN p = 1..Len(p)
  BY DEF Closed, Path
<1>3. Len(a) = i - 1 /\ \A j \in 1..i - 1 : a[j] = p[j]
  BY <1>2, TakenApart
<1>4. CASE Name(a)
  <2>1. Len(a) \in Nat /\ Len(a) >= 1 /\ Len(a) = i - 1
    BY <1>3, <1>4 DEF Name, String
  <2>2. \A j \in 1..i - 1 : p[j] # Slash
    BY <1>3, <1>4, <2>1 DEF Name
  <2>3. p[i - 1] # Word
    BY <1>2, <2>2 DEF PlainTops
  <2>4. a[Len(a)] # Word
    BY <1>3, <2>1, <2>3
  <2>5. Escape(a) = a /\ \A k \in 1..Len(a) : a[k] # Under
    BY <1>4, <2>4, NameEscaped
  <2>6. Variable(w) = w \o <<Under>>
    BY <1>4, NameParent
  <2>7. Under \notin ToSet(w)
    <3>1. /\ w \in String /\ Len(w) = Len(a)
          /\ \A j \in 1..Len(a) : w[j] = IF a[j] = Slash THEN Under ELSE a[j]
      <4>1. /\ PkgVar(a) \in String /\ Len(PkgVar(a)) = Len(a)
            /\ \A j \in 1..Len(a) : PkgVar(a)[j] = IF a[j] = Slash THEN Under ELSE a[j]
        BY PkgVarIs
      <4> QED
        BY <2>5, <4>1
    <3>2. \A j \in 1..Len(w) : w[j] # Under
      BY <1>4, <2>5, <3>1 DEF Name
    <3> HIDE DEF w
    <3> QED
      BY <3>1, <3>2, ToSetIs DEF String
  <2> QED
    BY <2>6, <2>7
<1>5. CASE ~Name(a)
  BY <1>1, <1>5, PathVariable
<1> QED
  BY <1>4, <1>5

LEMMA ParentBefore ==
  ASSUME NEW P, Closed(P), OrdinaryOf(P), PlainNames(P), PlainTops(P),
         NEW t \in Seq(String),
         Listed(P \ {<<>>}, t), GroupedOnce(t), NEW k \in 1..Len(t)
  PROVE  Parented(t, k)
<1> SUFFICES LET v == PkgVar(t[k])
             IN  \/ PkgChild(v) = <<>>
                 \/ \E j \in 1..k - 1 : Variable(PkgVar(t[j])) = ParentVariable(v)
  BY DEF Parented
<1>0. \A x : (\E i \in 1..Len(t) : t[i] = x) <=> (\E p \in P \ {<<>>} : x = Escape(p))
  BY DEF Listed
<1>1. PICK p \in P \ {<<>>} : t[k] = Escape(p)
  BY <1>0
<1>2. Path(p)
  BY DEF Closed
<1>3. PlainNames({p})
  BY DEF PlainNames
<1>4. CASE Name(p)
  BY <1>1, <1>4, NameParent
<1>5. CASE ~Name(p)
  <2>1. PICK i, b :
              /\ i \in 1..Len(p) /\ p[i] = Slash
              /\ SubSeq(p, 1, i - 1) # <<>> /\ SubSeq(p, 1, i - 1) \in String
              /\ Name(b)
              /\ p = SubSeq(p, 1, i - 1) \o (<<Slash>> \o b)
    BY <1>2, <1>3, <1>5, PathNames
  <2> DEFINE a == SubSeq(p, 1, i - 1)
             q == Escape(p)
             x == Escape(a)
  <2>2. a \in P
    <3>1. i \in DOMAIN p
      BY <1>2, <2>1 DEF Path
    <3> QED
      BY <2>1, <3>1 DEF Closed
  <2>3. a # <<>> /\ a \in String /\ p = a \o (<<Slash>> \o b)
    BY <2>1
  <2>17. a = SubSeq(p, 1, i - 1)
    OBVIOUS
  <2> HIDE DEF a
  <2>15. Variable(PkgVar(x)) =
           IF Under \in ToSet(PkgVar(x)) THEN PkgVar(x) ELSE PkgVar(x) \o <<Under>>
    <3> DEFINE w == PkgVar(Escape(a))
    <3>1. Variable(w) = IF Under \in ToSet(w) THEN w ELSE w \o <<Under>>
      BY <2>1, <2>2, <2>3, <2>17, VariableFound
    <3> QED
      BY <3>1
  <2>4. q = Escape(a \o (<<Slash>> \o b)) /\ x = Escape(a) /\ q = Escape(p)
    BY <2>3
  <2> HIDE DEF q, x
  <2>5. /\ PkgParent(PkgVar(q)) = PkgVar(x)
        /\ Begins(x, q) /\ Len(x) + 1 <= Len(q) /\ q[Len(x) + 1] = Slash /\ q \in String
    <3> DEFINE r == Escape(a \o (<<Slash>> \o b))
               y == Escape(a)
    <3>1. /\ PkgParent(PkgVar(r)) = PkgVar(y)
          /\ Begins(y, r) /\ Len(y) + 1 <= Len(r) /\ r[Len(y) + 1] = Slash /\ r \in String
      BY <2>1, <2>3, PathParent
    <3> HIDE DEF r, y
    <3>2. q = r /\ x = y
      BY <2>4 DEF r, y
    <3> QED
      BY <3>1, <3>2
  <2>6. x \in String /\ Len(x) \in Nat /\ Len(q) \in Nat
    <3>1. x \in String
      BY <2>3, <2>4, EscapeJoins
    <3> QED
      BY <2>5, <3>1 DEF String
  <2>7. Len(x) < Len(q)
    BY <2>5, <2>6
  <2>8. Group(x) <= Group(q)
    BY <2>2, <2>3, <2>4, <2>5, <2>7, GroupsNest
  <2>9. PICK j \in 1..Len(t) : t[j] = x
    BY <1>0, <2>2, <2>3, <2>4
  <2>10. t[k] = q
    BY <1>1, <2>4
  <2>11. j # k
    BY <2>6, <2>7, <2>9, <2>10
  <2>12. StringBefore(x, q) /\ ~StringBefore(q, x)
    BY <2>5, <2>6, <2>7, StringsOrdered
  <2>13. ~(k < j)
    <3>1. Group(x) \in Nat /\ Group(q) \in Nat
      BY DEF Group
    <3> QED
      BY <2>8, <2>9, <2>10, <2>12, <3>1 DEF GroupedOnce
  <2>14. j \in 1..k - 1
    BY <2>11, <2>13
  <2>16. Variable(PkgVar(t[j])) = ParentVariable(PkgVar(t[k]))
    BY <2>5, <2>9, <2>10, <2>15 DEF ParentVariable
  <2> QED
    BY <2>14, <2>16
<1> QED
  BY <1>4, <1>5

LEMMA ImageFinite ==
  ASSUME NEW S, IsFiniteSet(S), NEW f
  PROVE  IsFiniteSet({f[x] : x \in S})
<1> DEFINE T == {f[x] : x \in S}
           g == [x \in S |-> f[x]]
<1>1. g \in Surjection(S, T)
  BY DEF Surjection
<1> HIDE DEF g, T
<1>2. IsFiniteSet(T)
  BY <1>1, FS_Surjection
<1> QED
  BY <1>2 DEF T

(* The packages around a path. *)
LEMMA AroundIs ==
  ASSUME NEW p, Path(p)
  PROVE  Closed(Around(p)) /\ p \in Around(p)
<1> DEFINE n == Len(p)
           Cut(k) == SubSeq(p, 1, k - 1)
           K == {k \in DOMAIN p : p[k] = Slash}
<1>1. p \in Seq(Nat) /\ p # <<>> /\ n \in Nat /\ DOMAIN p = 1..n
  BY DEF Path
<1>2. \A k \in 1..n : p[k] = Slash => 1 < k /\ k < n /\ p[k - 1] # Slash /\ p[k + 1] # Slash
  BY <1>1, Zenon DEF Path
<1> HIDE DEF n
<1>3. Around(p) = {<<>>, p} \cup {Cut(k) : k \in K}
  BY DEF Around
<1>4. K \in SUBSET (1..n) /\ \A k : k \in K <=> k \in 1..n /\ p[k] = Slash
  BY <1>1
<1>5. ASSUME NEW k \in 1..n
      PROVE  /\ Cut(k) \in Seq(Nat) /\ Len(Cut(k)) = k - 1
             /\ \A j \in 1..k - 1 : Cut(k)[j] = p[j]
  BY <1>1, TakenApart DEF n
<1> HIDE DEF K, Cut
<1>6. IsFiniteSet(Around(p))
  <2> DEFINE f == [k \in K |-> Cut(k)]
  <2>1. IsFiniteSet(1..n)
    BY <1>1, FS_Interval
  <2>2. IsFiniteSet(K)
    BY <1>4, <2>1, FS_Subset
  <2>3. IsFiniteSet({f[k] : k \in K})
    <3> HIDE DEF f
    <3> QED
      BY <2>2, ImageFinite
  <2>4. {Cut(k) : k \in K} = {f[k] : k \in K}
    OBVIOUS
  <2>5. IsFiniteSet({<<>>, p})
    <3>1. IsFiniteSet({}) /\ {<<>>, p} = ({} \cup {<<>>}) \cup {p}
      BY FS_EmptySet
    <3> QED
      BY <3>1, FS_AddElement, ZenonT(30)
  <2> HIDE DEF f
  <2>6. IsFiniteSet({Cut(k) : k \in K})
    BY <2>3, <2>4
  <2> QED
    BY <1>3, <2>5, <2>6, FS_Union
<1>7. ASSUME NEW k \in K PROVE Path(Cut(k))
  <2>1. /\ k \in 1..n /\ p[k] = Slash /\ 1 < k /\ k \in Nat
        /\ Cut(k) \in Seq(Nat) /\ Len(Cut(k)) = k - 1
        /\ \A j \in 1..k - 1 : Cut(k)[j] = p[j]
    BY <1>1, <1>2, <1>4, <1>5
  <2> DEFINE q == Cut(k)
  <2> HIDE DEF q
  <2>2. q \in Seq(Nat) /\ Len(q) = k - 1 /\ DOMAIN q = 1..k - 1
    BY <2>1 DEF q
  <2>3. \A j \in 1..k - 1 : q[j] = p[j]
    BY <2>1 DEF q
  <2>4. ASSUME NEW j \in 1..k - 1, q[j] = Slash
        PROVE  1 < j /\ j < k - 1 /\ q[j - 1] # Slash /\ q[j + 1] # Slash
    <3>1. j \in 1..n /\ p[j] = Slash
      BY <1>1, <2>1, <2>3, <2>4
    <3>2. 1 < j /\ p[j - 1] # Slash /\ p[j + 1] # Slash
      BY <1>2, <3>1
    <3>3. j + 1 # k
      BY <2>1, <3>2
    <3>4. j - 1 \in 1..k - 1 /\ j + 1 \in 1..k - 1 /\ j < k - 1
      BY <2>1, <3>2, <3>3
    <3> QED
      BY <2>3, <3>2, <3>4
  <2>5. q # <<>>
    BY <2>1, <2>2
  <2>6. Path(q)
    BY <2>2, <2>4, <2>5 DEF Path
  <2> QED
    BY <2>6 DEF q
<1>8. ASSUME NEW k \in K, NEW j \in DOMAIN Cut(k), Cut(k)[j] = Slash
      PROVE  SubSeq(Cut(k), 1, j - 1) \in Around(p)
  <2>1. /\ k \in 1..n /\ Cut(k) \in Seq(Nat) /\ Len(Cut(k)) = k - 1
        /\ \A i \in 1..k - 1 : Cut(k)[i] = p[i]
    BY <1>1, <1>4, <1>5
  <2>2. j \in 1..k - 1 /\ j \in 1..Len(Cut(k)) /\ j \in 1..n
    BY <1>1, <1>8, <2>1
  <2>3. j \in K
    BY <1>4, <1>8, <2>1, <2>2
  <2>4. /\ SubSeq(Cut(k), 1, j - 1) \in Seq(Nat) /\ Len(SubSeq(Cut(k), 1, j - 1)) = j - 1
        /\ \A i \in 1..j - 1 : SubSeq(Cut(k), 1, j - 1)[i] = Cut(k)[i]
    BY <2>1, <2>2, TakenApart
  <2>5. /\ Cut(j) \in Seq(Nat) /\ Len(Cut(j)) = j - 1
        /\ \A i \in 1..j - 1 : Cut(j)[i] = p[i]
    BY <1>5, <2>2
  <2>6. SubSeq(Cut(k), 1, j - 1) = Cut(j)
    <3> DEFINE x == SubSeq(Cut(k), 1, j - 1)
               y == Cut(j)
    <3>1. \A i \in 1..j - 1 : i \in 1..k - 1
      BY <1>1, <2>1, <2>2
    <3>2. \A i \in 1..j - 1 : x[i] = y[i]
      BY <2>1, <2>4, <2>5, <3>1
    <3>3. x \in Seq(Nat) /\ y \in Seq(Nat) /\ Len(x) = Len(y) /\ Len(x) = j - 1
      BY <2>4, <2>5
    <3> HIDE DEF x, y
    <3> QED
      BY <3>2, <3>3, SeqEqual DEF x, y
  <2> QED
    BY <1>3, <2>3, <2>6
<1>9. \A q \in Around(p) : q = <<>> \/ Path(q)
  BY <1>3, <1>7
<1>10. ASSUME NEW q \in Around(p), NEW j \in DOMAIN q, q[j] = Slash
       PROVE  SubSeq(q, 1, j - 1) \in Around(p)
  <2>1. CASE q = <<>>
    BY <1>10, <2>1
  <2>2. CASE q = p
    <3>1. j \in K
      BY <1>1, <1>4, <1>10, <2>2
    <3>2. Cut(j) = SubSeq(p, 1, j - 1)
      BY DEF Cut
    <3> QED
      BY <1>3, <2>2, <3>1, <3>2
  <2>3. CASE q \in {Cut(k) : k \in K}
    BY <1>8, <1>10, <2>3
  <2> QED
    BY <1>3, <2>1, <2>2, <2>3
<1> QED
  BY <1>3, <1>6, <1>9, <1>10 DEF Closed

LEMMA ClosedBoth ==
  ASSUME NEW P, NEW Q, Closed(P), Closed(Q)
  PROVE  Closed(P \cup Q)
<1>1. IsFiniteSet(P \cup Q)
  BY FS_Union DEF Closed
<1> QED
  BY <1>1 DEF Closed

-----------------------------------------------------------------------------
(* The inductive invariant *)

Content(c) ==
  /\ c \in Class
  /\ IsFiniteSet(c.fields \cup c.interfaceFields)
  /\ IsFiniteSet(c.methods \cup c.interfaceMethods)
  /\ \A m, n \in c.fields : m.name = n.name => m = n

EntriesIn ==
  /\ entries \in Seq(Entry)
  /\ \A e \in ToSet(entries) :
       /\ Path(e.package) /\ Part(e.clazz)
       /\ e.content # None => Content(e.content)

(* The packages are closed, and in a list from the first sort on; when the  *)
(* rotations are done they are in order.                                       *)
PackagesIn ==
  /\ Closed(pkgs)
  /\ packages \in Seq(String)
  /\ stage = "scan" => packages = <<>>
  /\ stage = "sort" => EscapedOf(pkgs \ {<<>>}, packages)
  /\ stage # "scan" => Listed(pkgs \ {<<>>}, packages)
  /\ stage \in {"declare", "write", "done"} /\ OrdinaryOf(pkgs) => GroupedOnce(packages)
  /\ stage = "undefined" => ~OrdinaryOf(pkgs)

DeclaredIn ==
  /\ declared \in Seq(String) /\ Begins(declared, packages)
  /\ stage \in {"scan", "sort", "undefined"} => declared = <<>>
  /\ stage \in {"write", "done"} => declared = packages

(* Each class is in a package, and both are escaped before any is written. *)
ClassesIn ==
  /\ csignatures \in Seq(String)
  /\ \A k \in 1..Len(csignatures) : \E p \in pkgs \ {<<>>} :
       Begins((IF stage \in {"write", "done"} THEN Escape(p) ELSE p) \o <<Slash>>,
              csignatures[k])
  /\ /\ stage \in {"write", "done"}
     /\ \A k \in 1..Len(csignatures) : ~Beginning(csignatures[k], JavaLang)
     => ClassesInGroups(csignatures)
  /\ DOMAIN classes \subseteq String
  /\ \A s \in DOMAIN classes : classes[s] # None => Content(classes[s])

(* The files are of what was written, each with the text of its class. *)
FilesIn ==
  /\ written \in Seq(String) /\ Begins(written, csignatures)
  /\ stage \in {"scan", "sort", "declare", "undefined"} => written = <<>>
  /\ stage = "done" => written = csignatures
  /\ DOMAIN files = ToSet(written)
  /\ \A s \in DOMAIN files :
       s \in DOMAIN classes /\ (classes[s] # None => files[s] = ClassText(classes[s]))

StageIn == stage \in {"scan", "sort", "declare", "write", "done", "undefined"}

IInv == EntriesIn /\ PackagesIn /\ DeclaredIn /\ ClassesIn /\ FilesIn /\ StageIn

(* What the invariant says of the properties. *)
LEMMA OrdinaryIs ==
  Ordinary <=> OrdinaryOf(pkgs) /\ PlainNames(pkgs) /\ PlainTops(pkgs)
  BY DEF Ordinary, OrdinaryOf, PlainNames, PlainTops

LEMMA ImpliesRotation ==
  IInv => RotationDefined
  BY OrdinaryIs DEF IInv, PackagesIn, RotationDefined

LEMMA ImpliesParents ==
  ASSUME IInv
  PROVE  ParentsDeclared
<1> SUFFICES ASSUME Ordinary, NEW k \in DOMAIN declared
             PROVE  Parented(declared, k)
  BY DEF ParentsDeclared, Parented
<1>1. declared \in Seq(String) /\ packages \in Seq(String) /\ Begins(declared, packages)
  BY DEF IInv, DeclaredIn, PackagesIn
<1>2. /\ k \in 1..Len(packages) /\ declared[k] = packages[k]
      /\ \A j \in 1..k - 1 : declared[j] = packages[j]
  <2>1. /\ k \in 1..Len(declared) /\ Len(declared) <= Len(packages)
        /\ \A j \in 1..Len(declared) : declared[j] = packages[j]
    BY <1>1 DEF Begins
  <2>2. Len(declared) \in Nat /\ Len(packages) \in Nat
    BY <1>1
  <2>3. \A j \in 1..k - 1 : j \in 1..Len(declared)
    BY <2>1, <2>2
  <2> QED
    BY <2>1, <2>2, <2>3
<1>3. OrdinaryOf(pkgs) /\ PlainNames(pkgs) /\ PlainTops(pkgs)
  BY OrdinaryIs
<1>4. declared # <<>>
  BY <1>1
<1>5. stage \in {"declare", "write", "done"} /\ stage # "scan"
  BY <1>4 DEF IInv, StageIn, DeclaredIn
<1>6. /\ Closed(pkgs) /\ GroupedOnce(packages) /\ Listed(pkgs \ {<<>>}, packages)
  BY <1>3, <1>5 DEF IInv, PackagesIn
<1>7. Parented(packages, k)
  BY <1>1, <1>2, <1>3, <1>6, ParentBefore
<1> QED
  BY <1>2, <1>7 DEF Parented

LEMMA PrefixMembers ==
  ASSUME NEW T, NEW d \in Seq(T), NEW t \in Seq(T), Begins(d, t)
  PROVE  d \in Seq(ToSet(t))
<1>1. \A k \in 1..Len(d) : k \in 1..Len(t) /\ d[k] = t[k]
  BY DEF Begins
<1>2. \A k \in 1..Len(d) : d[k] \in ToSet(t)
  BY <1>1, ToSetIs
<1> QED
  BY <1>2

LEMMA ImpliesType ==
  ASSUME IInv
  PROVE  TypeOK
<1>1. pkgs \subseteq Seq(Nat)
  <2>1. \A p \in pkgs : p = <<>> \/ p \in Seq(Nat)
    BY Zenon DEF IInv, PackagesIn, Closed, Path
  <2>2. <<>> \in Seq(Nat)
    OBVIOUS
  <2> QED
    BY <2>1, <2>2
<1>2. packages \in Seq(Seq(Nat) \ {<<>>})
  <2>1. packages \in Seq(String)
    BY DEF IInv, PackagesIn
  <2>2. ASSUME NEW k \in 1..Len(packages) PROVE packages[k] \in Seq(Nat) \ {<<>>}
    <3>1. stage # "scan"
      BY <2>2 DEF IInv, PackagesIn
    <3>2. PICK p \in pkgs \ {<<>>} : packages[k] = Escape(p)
      BY <2>2, <3>1 DEF IInv, PackagesIn, Listed
    <3>3. p \in String /\ <<>> \in String
      BY <1>1 DEF String
    <3>4. Escape(p) # Escape(<<>>)
      BY <3>2, <3>3, EscapeOrdered
    <3>5. packages[k] \in Seq(Nat)
      BY <2>1, <2>2 DEF String
    <3> QED
      BY <3>2, <3>4, <3>5, EscapeOf
  <2> QED
    BY <2>1, <2>2
<1>3. csignatures \in Seq(Seq(Nat)) /\ DOMAIN classes \subseteq Seq(Nat)
  BY DEF IInv, ClassesIn, String
<1>4. declared \in Seq(ToSet(packages))
  BY PrefixMembers DEF IInv, DeclaredIn, PackagesIn
<1>5. written \in Seq(ToSet(csignatures)) /\ DOMAIN files = ToSet(written)
  BY PrefixMembers DEF IInv, FilesIn, ClassesIn
<1> QED
  BY <1>1, <1>2, <1>3, <1>4, <1>5 DEF TypeOK, IInv, StageIn

LEMMA ImpliesPackages ==
  ASSUME IInv
  PROVE  PackagesGrouped
<1> SUFFICES ASSUME Ordinary, stage \in {"declare", "write", "done"}
             PROVE  /\ ToSet(packages) = {Escape(p) : p \in pkgs \ {<<>>}}
                    /\ \A i, j \in DOMAIN packages : i < j =>
                         \/ Group(packages[i]) < Group(packages[j])
                         \/ /\ Group(packages[i]) = Group(packages[j])
                            /\ StringBefore(packages[i], packages[j])
  BY DEF PackagesGrouped
<1>1. packages \in Seq(String) /\ Listed(pkgs \ {<<>>}, packages) /\ GroupedOnce(packages)
  BY OrdinaryIs DEF IInv, PackagesIn
<1>2. \A x : x \in ToSet(packages) <=> \E p \in pkgs \ {<<>>} : x = Escape(p)
  BY <1>1, ToSetIs DEF Listed
<1>3. DOMAIN packages = 1..Len(packages)
  BY <1>1
<1> QED
  BY <1>1, <1>2, <1>3 DEF GroupedOnce

LEMMA ImpliesClasses ==
  ASSUME IInv
  PROVE  ClassesGrouped
<1> SUFFICES ASSUME stage = "done"
             PROVE  /\ (\A s \in ToSet(written) : ~IsStrictPrefix(s, JavaLang)) =>
                         \A i, j \in DOMAIN written : i < j =>
                           \/ ClassGroup(written[i]) < ClassGroup(written[j])
                           \/ /\ ClassGroup(written[i]) = ClassGroup(written[j])
                              /\ ~StringBefore(written[j], written[i])
                    /\ \A s \in ToSet(written) :
                         \E p \in ToSet(declared) : IsPrefix(p \o <<Slash>>, s)
  BY DEF ClassesGrouped
<1>1. written \in Seq(String) /\ written = csignatures /\ declared = packages /\ packages \in Seq(String)
  BY DEF IInv, FilesIn, DeclaredIn, PackagesIn
<1>2. DOMAIN written = 1..Len(written) /\ \A k \in 1..Len(written) : written[k] \in String
  BY <1>1
<1>3. ASSUME \A s \in ToSet(written) : ~IsStrictPrefix(s, JavaLang)
      PROVE  ClassesInGroups(written)
  <2>1. ASSUME NEW k \in 1..Len(written) PROVE ~Beginning(written[k], JavaLang)
    <3>1. written[k] \in ToSet(written) /\ written[k] \in String
      BY <1>1, <1>2, ToSetIs
    <3> QED
      BY <1>3, <3>1, JavaFacts, PrefixIs DEF Beginning
  <2> QED
    BY <1>1, <2>1 DEF IInv, ClassesIn
<1>4. ASSUME NEW s \in ToSet(written) PROVE \E p \in ToSet(declared) : IsPrefix(p \o <<Slash>>, s)
  <2>1. PICK k \in 1..Len(written) : written[k] = s
    BY <1>1, ToSetIs
  <2>2. PICK p \in pkgs \ {<<>>} : Begins(Escape(p) \o <<Slash>>, s)
    BY <1>1, <2>1 DEF IInv, ClassesIn
  <2>3. p \in String /\ <<Slash>> \in String
    BY CharactersDistinct DEF IInv, PackagesIn, Closed, Path, String
  <2>4. Escape(p) \in String /\ Escape(p) \o <<Slash>> \in String
    BY <2>3, EscapeJoins DEF String
  <2>5. Escape(p) \in ToSet(declared)
    BY <1>1, ToSetIs DEF IInv, PackagesIn, Listed
  <2>6. IsPrefix(Escape(p) \o <<Slash>>, s)
    BY <1>2, <2>1, <2>2, <2>4, PrefixIs
  <2> QED
    BY <2>5, <2>6
<1> QED
  BY <1>2, <1>3, <1>4 DEF ClassesInGroups

-----------------------------------------------------------------------------
(* Init and the steps *)

LEMMA NoneBegins ==
  ASSUME NEW t \in Seq(String)
  PROVE  <<>> \in Seq(String) /\ Begins(<<>>, t)
  BY DEF Begins

LEMMA InitIInv ==
  Init => IInv
<1> SUFFICES ASSUME Init PROVE IInv
  OBVIOUS
<1> USE DEF Init
<1>1. EntriesIn
  <2>1. entries \in Jars
    OBVIOUS
  <2>2. entries \in Seq(Entry)
    BY <2>1, JarsType
  <2>3. ASSUME NEW e \in ToSet(entries)
        PROVE  /\ Path(e.package) /\ Part(e.clazz)
               /\ e.content # None => Content(e.content)
    <3>1. e \in Entry
      BY <2>2, ToSetIs
    <3>2. e.content # None => e.content \in Class
      BY <3>1 DEF Entry
    <3> HIDE DEF Init
    <3> QED
      BY <2>1, <3>2, JarsType, Zenon DEF Content
  <2> QED
    BY <2>2, <2>3 DEF EntriesIn
<1>2. PackagesIn
  BY FS_EmptySet DEF PackagesIn, Closed
<1>3. DeclaredIn
  <2>1. packages = <<>> /\ <<>> \in Seq(String) /\ declared = <<>> /\ stage = "scan"
    OBVIOUS
  <2> QED
    BY <2>1, NoneBegins DEF DeclaredIn
<1>4. ClassesIn
  BY DEF ClassesIn
<1>5. FilesIn
  <2>1. /\ csignatures = <<>> /\ <<>> \in Seq(String) /\ written = <<>> /\ files = <<>>
        /\ stage = "scan"
    OBVIOUS
  <2>2. DOMAIN files = {} /\ ToSet(written) = {}
    BY <2>1 DEF ToSet
  <2> HIDE DEF Init
  <2>3. written \in Seq(String) /\ Begins(written, csignatures)
    BY <2>1, NoneBegins
  <2> QED
    BY <2>1, <2>2, <2>3 DEF FilesIn
<1>6. StageIn
  BY DEF StageIn
<1> QED
  BY <1>1, <1>2, <1>3, <1>4, <1>5, <1>6 DEF IInv

LEMMA Appended ==
  ASSUME NEW T, NEW d \in Seq(T), NEW x \in T
  PROVE  /\ Append(d, x) \in Seq(T) /\ Len(Append(d, x)) = Len(d) + 1
         /\ \A k \in 1..Len(d) : Append(d, x)[k] = d[k]
         /\ Append(d, x)[Len(d) + 1] = x
         /\ ToSet(Append(d, x)) = ToSet(d) \cup {x}
<1>1. /\ Append(d, x) \in Seq(T) /\ Len(Append(d, x)) = Len(d) + 1 /\ Len(d) \in Nat
      /\ \A k \in 1..Len(d) : Append(d, x)[k] = d[k]
      /\ Append(d, x)[Len(d) + 1] = x
  OBVIOUS
<1> DEFINE e == Append(d, x)
<1> HIDE DEF e
<1>2. e \in Seq(T) /\ Len(e) = Len(d) + 1
  BY <1>1 DEF e
<1>3. (\A k \in 1..Len(d) : e[k] = d[k]) /\ e[Len(d) + 1] = x
  BY <1>1 DEF e
<1>4. ASSUME NEW y \in ToSet(e) PROVE y \in ToSet(d) \cup {x}
  <2>1. PICK k \in 1..Len(e) : e[k] = y
    BY <1>2, ToSetIs
  <2>2. k \in 1..Len(d) \/ k = Len(d) + 1
    BY <1>1, <1>2
  <2> QED
    BY <1>3, <2>1, <2>2, ToSetIs
<1>5. ASSUME NEW y \in ToSet(d) PROVE y \in ToSet(e)
  <2>1. PICK k \in 1..Len(d) : d[k] = y
    BY ToSetIs
  <2>2. k \in 1..Len(e) /\ e[k] = y
    BY <1>1, <1>2, <1>3, <2>1
  <2> QED
    BY <1>2, <2>2, ToSetIs
<1>6. x \in ToSet(e)
  <2>1. Len(d) + 1 \in 1..Len(e)
    BY <1>1, <1>2
  <2> QED
    BY <1>2, <1>3, <2>1, ToSetIs
<1> QED
  BY <1>1, <1>4, <1>5, <1>6 DEF e

(* A list that is copied in order, and one place more. *)
LEMMA BeginsNext ==
  ASSUME NEW d \in Seq(String), NEW t \in Seq(String), Begins(d, t), Len(d) < Len(t)
  PROVE  /\ t[Len(d) + 1] \in String
         /\ Append(d, t[Len(d) + 1]) \in Seq(String)
         /\ Begins(Append(d, t[Len(d) + 1]), t)
<1> DEFINE x == t[Len(d) + 1]
           e == Append(d, x)
<1>1. Len(d) \in Nat /\ Len(t) \in Nat /\ Len(d) + 1 \in 1..Len(t)
  OBVIOUS
<1>2. x \in String
  BY <1>1
<1> HIDE DEF x, e
<1>3. /\ e \in Seq(String) /\ Len(e) = Len(d) + 1
      /\ \A k \in 1..Len(d) : e[k] = d[k]
      /\ e[Len(d) + 1] = x
  BY <1>2, Appended DEF e
<1>4. ASSUME NEW k \in 1..Len(e) PROVE e[k] = t[k]
  <2>1. k \in 1..Len(d) \/ k = Len(d) + 1
    BY <1>1, <1>3
  <2> QED
    BY <1>3, <2>1 DEF Begins, x
<1>5. Len(e) <= Len(t)
  BY <1>1, <1>3
<1> QED
  BY <1>2, <1>3, <1>4, <1>5 DEF Begins, e, x

LEMMA PutIs ==
  ASSUME NEW f, NEW k, NEW v
  PROVE  /\ DOMAIN Put(f, k, v) = DOMAIN f \cup {k}
         /\ \A x \in DOMAIN f \cup {k} : Put(f, k, v)[x] = IF x = k THEN v ELSE f[x]
  BY DEF Put

LEMMA SignatureIs ==
  ASSUME NEW e \in Entry
  PROVE  /\ Signature(e) \in String /\ Begins(e.package \o <<Slash>>, Signature(e))
<1>1. e.package \in String /\ e.clazz \in String /\ <<Slash>> \in String
  BY CharactersDistinct DEF Entry, String
<1>2. e.package \o <<Slash>> \in String
  BY <1>1 DEF String
<1>3. Signature(e) = (e.package \o <<Slash>>) \o e.clazz
  BY DEF Signature
<1> QED
  BY <1>1, <1>2, <1>3, JoinBegins

(* An entry of a jar is read. *)
LEMMA ScanIInv ==
  IInv /\ Scan => IInv'
<1> SUFFICES ASSUME IInv, Scan PROVE IInv'
  OBVIOUS
<1> DEFINE e == Head(entries)
<1>1. /\ stage = "scan" /\ entries # <<>> /\ entries' = Tail(entries)
      /\ packages' = packages /\ declared' = declared /\ written' = written
      /\ files' = files /\ stage' = stage
  BY DEF Scan
<1>2. IF e.package \in Internals
      THEN pkgs' = pkgs /\ csignatures' = csignatures /\ classes' = classes
      ELSE /\ pkgs' = pkgs \cup Around(e.package)
           /\ csignatures' = Append(csignatures, Signature(e))
           /\ classes' = IF IsPublic(e.content)
                         THEN Put(classes, Signature(e), e.content) ELSE classes
  BY DEF Scan
<1>3. /\ entries \in Seq(Entry) /\ e \in Entry /\ Tail(entries) \in Seq(Entry)
      /\ e \in ToSet(entries) /\ \A y \in ToSet(Tail(entries)) : y \in ToSet(entries)
  <2>1. entries \in Seq(Entry)
    BY DEF IInv, EntriesIn
  <2>2. /\ Len(entries) \in Nat /\ Len(entries) >= 1 /\ e = entries[1]
        /\ Tail(entries) \in Seq(Entry) /\ Len(Tail(entries)) = Len(entries) - 1
        /\ \A k \in 1..Len(entries) - 1 : Tail(entries)[k] = entries[k + 1]
    BY <1>1, <2>1
  <2> HIDE DEF e
  <2>3. 1 \in 1..Len(entries) /\ \A k \in 1..Len(entries) - 1 : k + 1 \in 1..Len(entries)
    BY <2>2
  <2>4. e \in ToSet(entries) /\ e \in Entry
    BY <2>1, <2>2, <2>3, ToSetIs
  <2>5. ASSUME NEW y \in ToSet(Tail(entries)) PROVE y \in ToSet(entries)
    <3>1. PICK k \in 1..Len(Tail(entries)) : Tail(entries)[k] = y
      BY <2>2, ToSetIs
    <3>2. k + 1 \in 1..Len(entries) /\ entries[k + 1] = y
      BY <2>2, <2>3, <3>1
    <3> QED
      BY <2>1, <3>2, ToSetIs
  <2> QED
    BY <2>1, <2>2, <2>4, <2>5
<1> HIDE DEF e
<1>4. Path(e.package) /\ (e.content # None => Content(e.content))
  BY <1>3 DEF IInv, EntriesIn
<1>5. EntriesIn'
  BY <1>1, <1>3 DEF IInv, EntriesIn
<1>6. Closed(pkgs') /\ pkgs \subseteq pkgs'
  <2>1. Closed(pkgs)
    BY DEF IInv, PackagesIn
  <2>2. Closed(pkgs \cup Around(e.package))
    BY <1>4, <2>1, AroundIs, ClosedBoth
  <2> QED
    BY <1>2, <2>1, <2>2
<1>7. PackagesIn'
  BY <1>1, <1>6 DEF IInv, PackagesIn
<1>8. DeclaredIn'
  BY <1>1 DEF IInv, DeclaredIn
<1>9. /\ csignatures' \in Seq(String)
      /\ \A k \in 1..Len(csignatures') : \E p \in pkgs' \ {<<>>} :
           Begins(p \o <<Slash>>, csignatures'[k])
  <2>1. /\ csignatures \in Seq(String)
        /\ \A k \in 1..Len(csignatures) : \E p \in pkgs \ {<<>>} :
             Begins(p \o <<Slash>>, csignatures[k])
    BY <1>1 DEF IInv, ClassesIn
  <2>2. CASE e.package \in Internals
    BY <1>2, <2>1, <2>2
  <2>3. CASE e.package \notin Internals
    <3> DEFINE s == Signature(e)
               c == Append(csignatures, s)
    <3>1. s \in String /\ Begins(e.package \o <<Slash>>, s)
      BY <1>3, SignatureIs
    <3>2. e.package \in pkgs' /\ e.package # <<>>
      BY <1>2, <1>4, <2>3, AroundIs DEF Path
    <3>3. csignatures' = c
      BY <1>2, <2>3
    <3> HIDE DEF s, c
    <3>4. /\ c \in Seq(String) /\ Len(c) = Len(csignatures) + 1 /\ Len(csignatures) \in Nat
          /\ \A k \in 1..Len(csignatures) : c[k] = csignatures[k]
          /\ c[Len(csignatures) + 1] = s
      BY <2>1, <3>1, Appended DEF c
    <3>5. ASSUME NEW k \in 1..Len(c)
          PROVE  \E p \in pkgs' \ {<<>>} : Begins(p \o <<Slash>>, c[k])
      <4>1. CASE k \in 1..Len(csignatures)
        <5>1. PICK p \in pkgs \ {<<>>} : Begins(p \o <<Slash>>, csignatures[k])
          BY <2>1, <4>1
        <5> QED
          BY <1>6, <3>4, <4>1, <5>1
      <4>2. CASE k = Len(csignatures) + 1
        BY <3>1, <3>2, <3>4, <4>2
      <4> QED
        BY <3>4, <4>1, <4>2
    <3> QED
      BY <3>3, <3>4, <3>5
  <2> QED
    BY <2>2, <2>3
<1>10. /\ DOMAIN classes' \subseteq String
       /\ \A s \in DOMAIN classes' : classes'[s] # None => Content(classes'[s])
  <2>1. /\ DOMAIN classes \subseteq String
        /\ \A s \in DOMAIN classes : classes[s] # None => Content(classes[s])
    BY DEF IInv, ClassesIn
  <2>2. CASE classes' = classes
    BY <2>1, <2>2
  <2>3. CASE classes' = Put(classes, Signature(e), e.content)
    <3> DEFINE g == Signature(e)
               f == Put(classes, g, e.content)
    <3>1. g \in String
      BY <1>3, SignatureIs
    <3>2. DOMAIN f = DOMAIN classes \cup {g}
      BY PutIs
    <3>3. \A x \in DOMAIN classes \cup {g} : f[x] = IF x = g THEN e.content ELSE classes[x]
      BY DEF Put
    <3>4. classes' = f
      BY <2>3
    <3> HIDE DEF f, g
    <3> QED
      BY <1>4, <2>1, <3>1, <3>2, <3>3, <3>4
  <2> QED
    BY <1>2, <2>2, <2>3
<1>11. ClassesIn'
  BY <1>1, <1>9, <1>10 DEF ClassesIn
<1>12. FilesIn'
  <2>1. written = <<>> /\ DOMAIN files = ToSet(written)
    BY <1>1 DEF IInv, FilesIn
  <2>2. DOMAIN files = {}
    BY <2>1 DEF ToSet
  <2>3. written' = <<>> /\ Begins(written', csignatures') /\ written' \in Seq(String)
    BY <1>1, <1>9, <2>1, NoneBegins
  <2> QED
    BY <1>1, <2>1, <2>2, <2>3 DEF FilesIn
<1>13. StageIn'
  BY <1>1 DEF IInv, StageIn
<1> QED
  BY <1>5, <1>7, <1>8, <1>11, <1>12, <1>13 DEF IInv


(* The packages are sorted and escaped. *)
LEMMA SortIInv ==
  IInv /\ SortScanned => IInv'
<1> SUFFICES ASSUME IInv, SortScanned PROVE IInv'
  OBVIOUS
<1>1. /\ stage = "scan" /\ stage' = "sort"
      /\ packages' = Escaped(Ascending(StringBefore, pkgs \ {<<>>}))
      /\ UNCHANGED <<entries, pkgs, csignatures, classes, declared, written, files>>
  BY DEF SortScanned
<1>2. Closed(pkgs)
  BY DEF IInv, PackagesIn
<1>3. EscapedOf(pkgs \ {<<>>}, packages')
  <2>1. pkgs \ {<<>>} \in SUBSET String
    BY <1>2, Zenon DEF Closed, Path, String
  <2>2. IsFiniteSet(pkgs \ {<<>>})
    BY <1>2, FS_Subset DEF Closed
  <2> QED
    BY <1>1, <2>1, <2>2, SortEscaped
<1>4. packages' \in Seq(String) /\ Listed(pkgs \ {<<>>}, packages')
  BY <1>3 DEF EscapedOf
<1>5. EntriesIn'
  BY <1>1 DEF IInv, EntriesIn
<1>6. PackagesIn'
  BY <1>1, <1>2, <1>3, <1>4 DEF PackagesIn
<1>7. DeclaredIn'
  <2>1. declared' = <<>>
    BY <1>1 DEF IInv, DeclaredIn
  <2> QED
    BY <1>1, <1>4, <2>1, NoneBegins DEF DeclaredIn
<1>8. ClassesIn'
  BY <1>1 DEF IInv, ClassesIn
<1>9. FilesIn'
  BY <1>1 DEF IInv, FilesIn
<1>10. StageIn'
  BY <1>1 DEF StageIn
<1> QED
  BY <1>5, <1>6, <1>7, <1>8, <1>9, <1>10 DEF IInv

(* The packages are rotated. *)
LEMMA OrderPackagesIInv ==
  IInv /\ OrderPackages => IInv'
<1> SUFFICES ASSUME IInv, OrderPackages PROVE IInv'
  OBVIOUS
<1> DEFINE s == packages
           p == LangOf(s)[1]
           q == LangOf(s)[2]
<1>1. /\ stage = "sort"
      /\ UNCHANGED <<entries, pkgs, csignatures, classes, declared, written, files>>
  BY DEF OrderPackages
<1>2. IF Rotates(2, p, q)
      THEN packages' = ArrangedOf(s, 2) /\ stage' = "declare"
      ELSE packages' = ThereOf(s) /\ stage' = "undefined"
  BY Zenon DEF OrderPackages, ArrangedOf, ThereOf, LangOf, JavaOf
<1>3. /\ Closed(pkgs) /\ s \in Seq(String) /\ EscapedOf(pkgs \ {<<>>}, s)
  BY <1>1 DEF IInv, PackagesIn
<1>4. OrdinaryOf(pkgs) => Sortable(s, 2)
  BY <1>3, PackagesSortable
<1>5. /\ Rearranged(s, ThereOf(s))
      /\ Rotates(2, p, q) => Rearranged(s, ArrangedOf(s, 2))
      /\ Sortable(s, 2) => Rotates(2, p, q) /\ Grouped(ArrangedOf(s, 2))
  <2>1. 2 \in {1, 2}
    OBVIOUS
  <2> QED
    BY <1>3, <2>1, Arranged
<1> HIDE DEF p, q
<1>6. Rearranged(s, packages')
  BY <1>2, <1>5
<1>7. /\ packages' \in Seq(String) /\ Listed(pkgs \ {<<>>}, packages')
      /\ Grouped(packages') => GroupedOnce(packages')
  BY <1>3, <1>6, GroupedStrictly
<1>8. /\ stage' = "declare" /\ OrdinaryOf(pkgs) => GroupedOnce(packages')
      /\ stage' = "undefined" => ~OrdinaryOf(pkgs)
      /\ stage' \in {"declare", "undefined"}
  BY <1>2, <1>4, <1>5, <1>7
<1>9. EntriesIn'
  BY <1>1 DEF IInv, EntriesIn
<1>10. PackagesIn'
  BY <1>1, <1>3, <1>7, <1>8 DEF PackagesIn
<1>11. DeclaredIn'
  <2>1. declared' = <<>>
    BY <1>1 DEF IInv, DeclaredIn
  <2> QED
    BY <1>7, <1>8, <2>1, NoneBegins DEF DeclaredIn
<1>12. ClassesIn'
  BY <1>1, <1>8 DEF IInv, ClassesIn
<1>13. FilesIn'
  BY <1>1, <1>8 DEF IInv, FilesIn
<1>14. StageIn'
  BY <1>8 DEF StageIn
<1> QED
  BY <1>9, <1>10, <1>11, <1>12, <1>13, <1>14 DEF IInv

(* A package is declared. *)
LEMMA DeclareIInv ==
  IInv /\ Declare => IInv'
<1> SUFFICES ASSUME IInv, Declare PROVE IInv'
  OBVIOUS
<1>1. /\ stage = "declare" /\ Len(declared) < Len(packages)
      /\ declared' = Append(declared, packages[Len(declared) + 1])
      /\ UNCHANGED <<entries, pkgs, packages, csignatures, classes, written, files, stage>>
  BY DEF Declare
<1>2. DeclaredIn'
  <2>1. declared \in Seq(String) /\ packages \in Seq(String) /\ Begins(declared, packages)
    BY DEF IInv, DeclaredIn, PackagesIn
  <2>2. declared' \in Seq(String) /\ Begins(declared', packages)
    BY <1>1, <2>1, BeginsNext
  <2> QED
    BY <1>1, <2>2 DEF DeclaredIn
<1>3. EntriesIn' /\ StageIn'
  BY <1>1 DEF IInv, EntriesIn, StageIn
<1>4. PackagesIn'
  BY <1>1 DEF IInv, PackagesIn
<1>5. ClassesIn'
  BY <1>1 DEF IInv, ClassesIn
<1>6. FilesIn'
  BY <1>1 DEF IInv, FilesIn
<1> QED
  BY <1>2, <1>3, <1>4, <1>5, <1>6 DEF IInv

(* The classes are sorted, escaped, rotated and partitioned. *)
LEMMA OrderClassesIInv ==
  IInv /\ OrderClasses => IInv'
<1> SUFFICES ASSUME IInv, OrderClasses PROVE IInv'
  OBVIOUS
<1> DEFINE c == csignatures
           x == ClassesOf(Escaped(StableSort(StringBefore, csignatures)))
<1>1. /\ stage = "declare" /\ declared = packages /\ stage' = "write"
      /\ UNCHANGED <<entries, pkgs, packages, classes, declared, written, files>>
  BY DEF OrderClasses
<1>2. csignatures' = x
  BY Zenon DEF OrderClasses, ClassesOf, ArrangedOf, ThereOf, LangOf, JavaOf
<1>3. /\ c \in Seq(String)
      /\ \A k \in 1..Len(c) : \E p \in pkgs \ {<<>>} : Begins(p \o <<Slash>>, c[k])
  BY <1>1 DEF IInv, ClassesIn
<1>4. /\ x \in Seq(String)
      /\ \A y : (\E k \in 1..Len(x) : x[k] = y) <=> (\E k \in 1..Len(c) : y = Escape(c[k]))
      /\ (\A k \in 1..Len(x) : ~Beginning(x[k], JavaLang)) => ClassesInGroups(x)
  BY <1>3, ClassesOrdered
<1> HIDE DEF x
<1>5. ASSUME NEW k \in 1..Len(x)
      PROVE  \E p \in pkgs \ {<<>>} : Begins(Escape(p) \o <<Slash>>, x[k])
  <2>1. PICK j \in 1..Len(c) : x[k] = Escape(c[j])
    BY <1>4
  <2>2. PICK p \in pkgs \ {<<>>} : Begins(p \o <<Slash>>, c[j])
    BY <1>3
  <2>3. /\ p \in String /\ <<Slash>> \in String /\ Slash \in Nat /\ c[j] \in String
    BY <1>3, CharactersDistinct DEF IInv, PackagesIn, Closed, Path, String
  <2>4. Escape(<<Slash>>) = <<Slash>>
    BY <2>3, EscapeOf, CharactersDistinct DEF Piece
  <2>5. Escape(p \o <<Slash>>) = Escape(p) \o <<Slash>>
    BY <2>3, <2>4, EscapeJoins, ZenonT(30)
  <2>6. Begins(Escape(p \o <<Slash>>), Escape(c[j]))
    <3>1. p \o <<Slash>> \in String
      BY <2>3 DEF String
    <3> QED
      BY <2>2, <2>3, <3>1, EscapeKeeps
  <2> QED
    BY <2>1, <2>5, <2>6
<1>6. ClassesIn'
  BY <1>1, <1>2, <1>4, <1>5 DEF IInv, ClassesIn
<1>7. FilesIn'
  <2>1. written' = <<>>
    BY <1>1 DEF IInv, FilesIn
  <2>2. Begins(written', csignatures') /\ written' \in Seq(String)
    BY <1>2, <1>4, <2>1, NoneBegins
  <2> QED
    BY <1>1, <2>1, <2>2 DEF IInv, FilesIn
<1>8. EntriesIn'
  BY <1>1 DEF IInv, EntriesIn
<1>9. PackagesIn'
  BY <1>1 DEF IInv, PackagesIn
<1>10. DeclaredIn'
  BY <1>1 DEF IInv, DeclaredIn
<1>11. StageIn'
  BY <1>1 DEF StageIn
<1> QED
  BY <1>6, <1>7, <1>8, <1>9, <1>10, <1>11 DEF IInv

(* The file of a class is written. *)
LEMMA WriteIInv ==
  IInv /\ Write => IInv'
<1> SUFFICES ASSUME IInv, Write PROVE IInv'
  OBVIOUS
<1> DEFINE sig == csignatures[Len(written) + 1]
           there == sig \in DOMAIN classes /\ classes[sig] # None
           text == IF there THEN ClassText(classes[sig]) ELSE EmptyText
<1>1. /\ stage = "write" /\ Len(written) < Len(csignatures)
      /\ written' = Append(written, sig)
      /\ classes' = IF sig \in DOMAIN classes THEN classes ELSE Put(classes, sig, None)
      /\ files' = Put(files, sig, text)
      /\ UNCHANGED <<entries, pkgs, packages, csignatures, declared, stage>>
  BY DEF Write
<1>2. /\ written \in Seq(String) /\ csignatures \in Seq(String) /\ Begins(written, csignatures)
      /\ DOMAIN files = ToSet(written)
  BY DEF IInv, FilesIn, ClassesIn
<1>3. sig \in String /\ written' \in Seq(String) /\ Begins(written', csignatures)
  BY <1>1, <1>2, BeginsNext
<1> HIDE DEF sig
<1>4. text = IF sig \in DOMAIN classes /\ classes[sig] # None THEN ClassText(classes[sig]) ELSE EmptyText
  OBVIOUS
<1> HIDE DEF text, there
<1>5. ToSet(written') = ToSet(written) \cup {sig}
  BY <1>1, <1>2, <1>3, Appended
<1>6. /\ DOMAIN classes' = DOMAIN classes \cup {sig}
      /\ \A s \in DOMAIN classes : classes'[s] = classes[s]
      /\ sig \notin DOMAIN classes => classes'[sig] = None
  BY <1>1 DEF Put
<1>7. /\ DOMAIN files' = DOMAIN files \cup {sig}
      /\ files'[sig] = text
      /\ \A s \in DOMAIN files : s # sig => files'[s] = files[s]
  BY <1>1 DEF Put
<1>8. ASSUME NEW s \in DOMAIN files'
      PROVE  s \in DOMAIN classes' /\ (classes'[s] # None => files'[s] = ClassText(classes'[s]))
  <2>1. CASE s = sig
    BY <1>4, <1>6, <1>7, <2>1
  <2>2. CASE s # sig
    <3>1. s \in DOMAIN files
      BY <1>7, <1>8, <2>2
    <3>2. s \in DOMAIN classes /\ (classes[s] # None => files[s] = ClassText(classes[s]))
      BY <3>1 DEF IInv, FilesIn
    <3>3. classes'[s] = classes[s] /\ files'[s] = files[s] /\ s \in DOMAIN classes'
      BY <1>6, <1>7, <2>2, <3>1, <3>2
    <3> QED
      BY <3>2, <3>3
  <2> QED
    BY <2>1, <2>2
<1>9. FilesIn'
  <2>1. DOMAIN files' = ToSet(written')
    BY <1>2, <1>5, <1>7
  <2> QED
    BY <1>1, <1>3, <1>8, <2>1 DEF FilesIn
<1>10. ClassesIn'
  <2>1. /\ DOMAIN classes \subseteq String
        /\ \A s \in DOMAIN classes : classes[s] # None => Content(classes[s])
    BY DEF IInv, ClassesIn
  <2>2. DOMAIN classes' \subseteq String
    BY <1>3, <1>6, <2>1
  <2>3. ASSUME NEW s \in DOMAIN classes', classes'[s] # None PROVE Content(classes'[s])
    BY <1>6, <2>1, <2>3
  <2> QED
    BY <1>1, <2>2, <2>3 DEF IInv, ClassesIn
<1>11. EntriesIn' /\ StageIn'
  BY <1>1 DEF IInv, EntriesIn, StageIn
<1>12. PackagesIn'
  BY <1>1 DEF IInv, PackagesIn
<1>13. DeclaredIn'
  BY <1>1 DEF IInv, DeclaredIn
<1> QED
  BY <1>9, <1>10, <1>11, <1>12, <1>13 DEF IInv

LEMMA FinishIInv ==
  IInv /\ (Finish \/ UNCHANGED vars) => IInv'
<1> SUFFICES ASSUME IInv, Finish \/ UNCHANGED vars PROVE IInv'
  OBVIOUS
<1>1. /\ \/ stage' = stage
         \/ stage = "write" /\ written = csignatures /\ stage' = "done"
      /\ UNCHANGED <<entries, pkgs, packages, csignatures, classes, declared, written, files>>
  BY DEF Finish, vars
<1>2. EntriesIn' /\ StageIn'
  BY <1>1 DEF IInv, EntriesIn, StageIn
<1>3. PackagesIn'
  BY <1>1 DEF IInv, PackagesIn
<1>4. DeclaredIn'
  BY <1>1 DEF IInv, DeclaredIn
<1>5. ClassesIn'
  BY <1>1 DEF IInv, ClassesIn
<1>6. FilesIn'
  BY <1>1 DEF IInv, FilesIn
<1> QED
  BY <1>2, <1>3, <1>4, <1>5, <1>6 DEF IInv

LEMMA StepIInv ==
  IInv /\ [Next]_vars => IInv'
  BY ScanIInv, SortIInv, OrderPackagesIInv, DeclareIInv, OrderClassesIInv,
     WriteIInv, FinishIInv DEF Next

(* The invariant holds of every class path. *)
LEMMA IInvHolds ==
  Spec => []IInv
  BY InitIInv, StepIInv, PTL DEF Spec

-----------------------------------------------------------------------------
(* The text of a class *)

(* What is known of a member after it was read. *)
Key == [name : Nat, sig : Nat, static : BOOLEAN]
KeyOf(m) == [name |-> m.name, sig |-> m.sig, static |-> m.static]
Earlier == {p \in Key \X Key : Before(p[1], p[2])}

LEMMA KeysCompared ==
  ASSUME NEW x \in Key, NEW y \in Key
  PROVE  /\ Before(x, y) => ~Before(y, x)
         /\ x # y => Before(x, y) \/ Before(y, x)
         /\ \A z \in Key : Before(x, y) /\ Before(y, z) => Before(x, z)
<1>1. /\ x.name \in Nat /\ x.sig \in Nat /\ y.name \in Nat /\ y.sig \in Nat
      /\ x.static \in BOOLEAN /\ y.static \in BOOLEAN
  BY DEF Key
<1>2. Before(x, y) => ~Before(y, x)
  BY <1>1 DEF Before
<1>3. ASSUME x.name = y.name, x.sig = y.sig, x.static = y.static PROVE x = y
  BY <1>3 DEF Key
<1>4. x # y => Before(x, y) \/ Before(y, x)
  BY <1>1, <1>3 DEF Before
<1>5. ASSUME NEW z \in Key, Before(x, y), Before(y, z) PROVE Before(x, z)
  <2>1. z.name \in Nat /\ z.sig \in Nat /\ z.static \in BOOLEAN
    BY DEF Key
  <2> QED
    BY <1>1, <1>5, <2>1 DEF Before
<1> QED
  BY <1>2, <1>4, <1>5

(* The members are sorted. *)
LEMMA KeysSorted ==
  ASSUME NEW S \in SUBSET Key, IsFiniteSet(S)
  PROVE  Ascends(S, Ascending(Before, S), Earlier)
<1>1. \A x, y \in S : <<x, y>> \in Earlier <=> Before(x, y)
  <2>1. \A x, y \in S : x \in Key /\ y \in Key
    OBVIOUS
  <2> QED
    BY <2>1, Zenon DEF Earlier
<1>2. Orders(Earlier, S)
  <2>1. \A x, y, z \in S :
          /\ Before(x, y) => ~Before(y, x)
          /\ Before(x, y) /\ Before(y, z) => Before(x, z)
          /\ x # y => Before(x, y) \/ Before(y, x)
    BY KeysCompared
  <2> QED
    BY <1>1, <2>1, Zenon DEF Orders
<1>3. \A x \in S : {y \in S : Before(y, x)} = {y \in S : <<y, x>> \in Earlier}
  BY <1>1
<1> DEFINE C(p) == CHOOSE x \in S : Cardinality({y \in S : Before(y, x)}) = p - 1
           D(p) == CHOOSE x \in S : Cardinality({y \in S : <<y, x>> \in Earlier}) = p - 1
<1>4. \A p : C(p) = D(p)
  BY <1>3
<1>5. Ascending(Before, S) = [p \in 1..Cardinality(S) |-> D(p)]
  <2>1. Ascending(Before, S) = [p \in 1..Cardinality(S) |-> C(p)]
    BY Zenon DEF Ascending
  <2> HIDE DEF C, D
  <2> QED
    BY <1>4, <2>1
<1> QED
  BY <1>2, <1>5, SetSorted

(* A member that the text of its class has. *)
Kept(m) == m.public /\ ~m.deprecated /\ m.sig \notin HiddenSignatures

(* t has what is known of the members M that are kept, in order. *)
Collects(M, t) ==
  /\ t \in Seq(Key)
  /\ \A k \in 1..Len(t) : \E m \in M : Kept(m) /\ t[k] = KeyOf(m)
  /\ \A m \in M : Kept(m) => \E k \in 1..Len(t) : t[k] = KeyOf(m)
  /\ \A k, l \in 1..Len(t) : k < l => Before(t[k], t[l])

LEMMA CollectedIs ==
  ASSUME NEW own \in SUBSET Member, NEW inherited \in SUBSET Member,
         IsFiniteSet(own \cup inherited)
  PROVE  Collects(own \cup inherited, Collected(own, inherited))
<1> DEFINE M == own \cup inherited
           L == {m \in M : Kept(m)}
           f == [m \in L |-> KeyOf(m)]
           Q == {f[m] : m \in L}
           t == Collected(own, inherited)
<1>1. IsFiniteSet(L)
  BY FS_Subset
<1>2. IsFiniteSet(Q)
  <2> HIDE DEF f, L
  <2> QED
    BY <1>1, ImageFinite
<1>3. Q = {KeyOf(m) : m \in L}
  <2> HIDE DEF L
  <2> QED
    OBVIOUS
<1>4. t = Ascending(Before, Q)
  <2>1. t = Ascending(Before, {KeyOf(m) : m \in L})
    BY Zenon DEF Collected, KeyOf, Kept
  <2> QED
    BY <1>3, <2>1
<1>5. \A m \in M : KeyOf(m) \in Key
  BY DEF KeyOf, Key, Member
<1>6. Q \in SUBSET Key
  BY <1>3, <1>5
<1> HIDE DEF Q, f, t
<1>7. Ascends(Q, t, Earlier)
  BY <1>2, <1>4, <1>6, KeysSorted
<1>8. /\ t \in Seq(Q) /\ \A x \in Q : \E k \in 1..Len(t) : t[k] = x
      /\ \A k, l \in 1..Len(t) : k < l => Before(t[k], t[l])
  BY <1>7 DEF Ascends, Earlier
<1>9. t \in Seq(Key) /\ \A k \in 1..Len(t) : t[k] \in Q
  BY <1>6, <1>8
<1>10. \A k \in 1..Len(t) : \E m \in M : Kept(m) /\ t[k] = KeyOf(m)
  BY <1>3, <1>9
<1>11. \A m \in M : Kept(m) => \E k \in 1..Len(t) : t[k] = KeyOf(m)
  BY <1>3, <1>8
<1> HIDE DEF M
<1>12. Collects(M, t)
  BY <1>8, <1>9, <1>10, <1>11, Zenon DEF Collects
<1> QED
  BY <1>12 DEF M, t

(* The place of the first member of a name. *)
FirstOf(methods, k) ==
  /\ k \in 1..Len(methods) /\ methods[k].name \notin Inits
  /\ \A j \in 1..k - 1 : methods[j].name # methods[k].name

FunctionOf(x) == [name |-> CppName(x.name), static |-> x.static]

(* There is a function for each of these places. *)
LEMMA MethodFunctionsAre ==
  ASSUME NEW t \in Seq(Key)
  PROVE  LET r == MethodFunctions(t)
         IN  /\ Len(r) \in Nat /\ DOMAIN r = 1..Len(r)
             /\ \E T : r \in Seq(T)
             /\ \E pos \in [1..Len(r) -> 1..Len(t)] :
                  /\ \A i \in 1..Len(r) : FirstOf(t, pos[i]) /\ r[i] = FunctionOf(t[pos[i]])
                  /\ \A i, j \in 1..Len(r) : i # j => pos[i] # pos[j]
                  /\ \A k \in 1..Len(t) : FirstOf(t, k) => \E i \in 1..Len(r) : pos[i] = k
<1> DEFINE F == {k \in DOMAIN t : /\ t[k].name \notin Inits
                                  /\ \A j \in 1..k - 1 : t[j].name # t[k].name}
           u == At(t, F)
           r == MethodFunctions(t)
<1>1. DOMAIN t = 1..Len(t) /\ Len(t) \in Nat
  OBVIOUS
<1>2. \A k : k \in F <=> FirstOf(t, k)
  BY <1>1 DEF FirstOf
<1>3. r = Functions(u)
  BY Zenon DEF MethodFunctions
<1> HIDE DEF F, r
<1>4. Selects(Key, t, F, Len(t), u)
  BY AtIs
<1> HIDE DEF u
<1>5. PICK pos \in [1..Len(u) -> (1..Len(t)) \cap F] :
       /\ \A i \in 1..Len(u) : u[i] = t[pos[i]]
       /\ \A i, j \in 1..Len(u) : i < j => pos[i] < pos[j]
       /\ \A k \in (1..Len(t)) \cap F : \E i \in 1..Len(u) : pos[i] = k
  BY <1>4, Zenon DEF Selects
<1>6. u \in Seq(Key) /\ Len(u) \in Nat /\ DOMAIN u = 1..Len(u)
  BY <1>4 DEF Selects
<1>7. r = [k \in 1..Len(u) |-> FunctionOf(u[k])]
  BY <1>3, <1>6, Zenon DEF Functions, FunctionOf
<1> DEFINE T == {FunctionOf(u[k]) : k \in 1..Len(u)}
<1>8. \A k \in 1..Len(u) : FunctionOf(u[k]) \in T
  OBVIOUS
<1> HIDE DEF T
<1>9. /\ r \in Seq(T) /\ Len(r) = Len(u) /\ DOMAIN r = 1..Len(r)
      /\ \A i \in 1..Len(r) : r[i] = FunctionOf(u[i])
  BY <1>6, <1>7, <1>8
<1>10. pos \in [1..Len(r) -> 1..Len(t)]
  BY <1>5, <1>9
<1>11. \A i \in 1..Len(r) : FirstOf(t, pos[i]) /\ r[i] = FunctionOf(t[pos[i]])
  BY <1>2, <1>5, <1>9
<1>12. ASSUME NEW i \in 1..Len(r), NEW j \in 1..Len(r), i # j PROVE pos[i] # pos[j]
  <2>1. i < j \/ j < i
    BY <1>6, <1>9, <1>12
  <2>2. pos[i] \in Nat /\ pos[j] \in Nat
    BY <1>10
  <2>3. i \in 1..Len(u) /\ j \in 1..Len(u)
    BY <1>9
  <2>4. pos[i] < pos[j] \/ pos[j] < pos[i]
    BY <1>5, <2>1, <2>3
  <2> QED
    BY <2>2, <2>4
<1>13. \A k \in 1..Len(t) : FirstOf(t, k) => \E i \in 1..Len(r) : pos[i] = k
  BY <1>2, <1>5, <1>9
<1> QED
  BY <1>6, <1>9, <1>10, <1>11, <1>12, <1>13 DEF r

(* The functions fs of a text: those of the fields, and then one for each   *)
(* first method of a name, which pos gives.                                    *)
Functioned(fields, methods, fs, m, pos) ==
  /\ m \in Nat /\ pos \in [1..m -> 1..Len(methods)]
  /\ DOMAIN fs = 1..Len(fields) + m
  /\ \A k \in 1..Len(fields) : fs[k] = FunctionOf(fields[k])
  /\ \A i \in 1..m : /\ FirstOf(methods, pos[i])
                     /\ fs[Len(fields) + i] = FunctionOf(methods[pos[i]])
  /\ \A i, j \in 1..m : i # j => pos[i] # pos[j]
  /\ \A k \in 1..Len(methods) : FirstOf(methods, k) => \E i \in 1..m : pos[i] = k

LEMMA TextIs ==
  ASSUME NEW c, Content(c)
  PROVE  LET text == ClassText(c)
         IN  /\ Collects(c.fields \cup c.interfaceFields, text.fields)
             /\ Collects(c.methods \cup c.interfaceMethods, text.methods)
             /\ \E m, pos : Functioned(text.fields, text.methods, text.functions, m, pos)
<1> DEFINE fields == Collected(c.fields, c.interfaceFields)
           methods == Collected(c.methods, c.interfaceMethods)
           a == Functions(fields)
           b == MethodFunctions(methods)
           fs == a \o b
           n == Len(fields)
           m == Len(b)
<1>1. /\ ClassText(c).fields = fields /\ ClassText(c).methods = methods
      /\ ClassText(c).functions = fs
  BY DEF ClassText
<1>2. /\ c.fields \in SUBSET Member /\ c.interfaceFields \in SUBSET Member
      /\ c.methods \in SUBSET Member /\ c.interfaceMethods \in SUBSET Member
  BY DEF Content, Class
<1>3. Collects(c.fields \cup c.interfaceFields, fields)
  BY <1>2, CollectedIs DEF Content
<1>4. Collects(c.methods \cup c.interfaceMethods, methods)
  BY <1>2, CollectedIs DEF Content
<1> HIDE DEF fields, methods
<1>5. fields \in Seq(Key) /\ methods \in Seq(Key) /\ n \in Nat /\ DOMAIN fields = 1..n
  BY <1>3, <1>4 DEF Collects
<1>6. a = [k \in 1..n |-> FunctionOf(fields[k])]
  BY <1>5, Zenon DEF Functions, FunctionOf
<1>7. /\ m \in Nat /\ DOMAIN b = 1..m /\ \E T : b \in Seq(T)
      /\ \E pos \in [1..m -> 1..Len(methods)] :
           /\ \A i \in 1..m : FirstOf(methods, pos[i]) /\ b[i] = FunctionOf(methods[pos[i]])
           /\ \A i, j \in 1..m : i # j => pos[i] # pos[j]
           /\ \A k \in 1..Len(methods) : FirstOf(methods, k) => \E i \in 1..m : pos[i] = k
  BY <1>5, MethodFunctionsAre
<1>8. PICK T : b \in Seq(T)
  BY <1>7
<1>9. PICK pos \in [1..m -> 1..Len(methods)] :
        /\ \A i \in 1..m : FirstOf(methods, pos[i]) /\ b[i] = FunctionOf(methods[pos[i]])
        /\ \A i, j \in 1..m : i # j => pos[i] # pos[j]
        /\ \A k \in 1..Len(methods) : FirstOf(methods, k) => \E i \in 1..m : pos[i] = k
  BY <1>7
<1> DEFINE U == T \cup {FunctionOf(fields[k]) : k \in 1..n}
<1>10. Joins(U, a, b, n, n + m)
  <2>1. a \in Seq(U) /\ Len(a) = n
    BY <1>5, <1>6, SMTT(30)
  <2>2. b \in Seq(U)
    BY <1>8
  <2> HIDE DEF a, b, n, m, U
  <2>3. n + m \in Nat /\ (n + m) - n = m
    BY <1>5, <1>7
  <2>4. Len(b) = m
    BY DEF m
  <2> QED
    BY <1>5, <2>1, <2>2, <2>3, <2>4 DEF Joins
<1>11. \A k \in 1..n : a[k] = FunctionOf(fields[k])
  BY <1>6
<1> HIDE DEF a, b, U
<1>12. Joined(U, fs, a, b, n, n + m)
  BY <1>10, JoinIs
<1> HIDE DEF fs, n, m
<1>13. /\ fs \in Seq(U) /\ Len(fs) = n + m
       /\ \A k \in 1..n + m : fs[k] = IF k <= n THEN a[k] ELSE b[k - n]
  BY <1>12 DEF Joined
<1>14. DOMAIN fs = 1..n + m
  BY <1>13
<1>15. \A k \in 1..n : k \in 1..n + m /\ k <= n
  BY <1>5, <1>7
<1>16. \A i \in 1..m : n + i \in 1..n + m /\ ~(n + i <= n) /\ (n + i) - n = i
  BY <1>5, <1>7
<1>17. \A k \in 1..n : fs[k] = FunctionOf(fields[k])
  BY <1>11, <1>13, <1>15
<1>18. \A i \in 1..m : fs[n + i] = FunctionOf(methods[pos[i]])
  BY <1>9, <1>13, <1>16
<1>19. Functioned(fields, methods, fs, m, pos)
  BY <1>7, <1>9, <1>14, <1>17, <1>18, Zenon DEF Functioned, n
<1>20. \E k, p : Functioned(fields, methods, fs, k, p)
  BY <1>19
<1> QED
  BY <1>1, <1>3, <1>4, <1>20

(* The methods that calls can be made to by a name, as sets of the class. *)
LEMMA CallableIs ==
  ASSUME NEW c, Content(c)
  PROVE  /\ \A m \in Callable(c) : /\ m \in c.methods \cup c.interfaceMethods
                                   /\ Kept(m) /\ m.name \notin Inits
         /\ \A m \in c.methods \cup c.interfaceMethods :
              Kept(m) /\ m.name \notin Inits => m \in Overloads(c, m.name)
<1>1. [c EXCEPT !.methods = c.interfaceMethods].methods = c.interfaceMethods
  BY DEF Content, Class
<1>2. \A m \in c.methods \cup c.interfaceMethods :
        Kept(m) /\ m.name \notin Inits =>
          m \in Callable(c) \cup Callable([c EXCEPT !.methods = c.interfaceMethods])
  BY <1>1 DEF Callable, Kept
<1> QED
  BY <1>2 DEF Callable, Kept, Overloads

LEMMA CallableText ==
  ASSUME NEW c, Content(c), NEW m \in Callable(c)
  PROVE  LET text == ClassText(c)
         IN  /\ \E k \in DOMAIN text.methods :
                  text.methods[k].name = m.name /\ text.methods[k].sig = m.sig
             /\ \E f \in DOMAIN text.functions :
                  /\ text.functions[f].name = CppName(m.name)
                  /\ \/ text.functions[f].static = m.static
                     \/ \E n \in Overloads(c, m.name) : n.static # m.static
<1> DEFINE text == ClassText(c)
           t == text.methods
           M == c.methods \cup c.interfaceMethods
<1>1. Collects(M, t) /\ \E n, pos : Functioned(text.fields, t, text.functions, n, pos)
  BY TextIs
<1>2. PICK n, pos : Functioned(text.fields, t, text.functions, n, pos)
  BY <1>1
<1> DEFINE b == Len(text.fields)
           fs == text.functions
<1>3. /\ \A k \in 1..Len(t) : \E x \in M : Kept(x) /\ t[k] = KeyOf(x)
      /\ \A x \in M : Kept(x) => \E k \in 1..Len(t) : t[k] = KeyOf(x)
      /\ t \in Seq(Key)
  BY <1>1, Zenon DEF Collects
<1>4. Len(text.fields) \in Nat
  <2>1. Collects(c.fields \cup c.interfaceFields, text.fields)
    BY TextIs
  <2> QED
    BY <2>1 DEF Collects
<1>5. /\ n \in Nat /\ DOMAIN fs = 1..b + n
      /\ \A i \in 1..n : fs[b + i] = FunctionOf(t[pos[i]])
      /\ \A k \in 1..Len(t) : FirstOf(t, k) => \E i \in 1..n : pos[i] = k
  BY <1>2, Zenon DEF Functioned
<1>6. m \in M /\ Kept(m) /\ m.name \notin Inits
  BY CallableIs
<1> HIDE DEF text, M, t, fs, b
<1>7. PICK k \in 1..Len(t) : t[k] = KeyOf(m)
  BY <1>3, <1>6
<1>8. k \in DOMAIN t /\ t[k].name = m.name /\ t[k].sig = m.sig
  BY <1>3, <1>7 DEF KeyOf
<1> DEFINE S == {j \in Nat : j \in 1..Len(t) /\ t[j].name = m.name}
<1>9. PICK j \in S : \A y \in S : j <= y
  <2>1. S \in SUBSET Nat /\ S # {}
    BY <1>7, <1>8
  <2> HIDE DEF S
  <2> QED
    BY <2>1, LeastNumber
<1>10. j \in 1..Len(t) /\ j \in Nat /\ t[j].name = m.name
  BY <1>9
<1>11. FirstOf(t, j)
  <2>1. ASSUME NEW y \in 1..j - 1 PROVE t[y].name # t[j].name
    <3>1. y \in Nat /\ y < j /\ y \in 1..Len(t) /\ Len(t) \in Nat
      BY <1>3, <1>10
    <3> QED
      BY <1>9, <1>10, <3>1
  <2> QED
    BY <1>6, <1>10, <2>1 DEF FirstOf
<1>12. PICK i \in 1..n : pos[i] = j
  BY <1>5, <1>10, <1>11
<1>13. b + i \in DOMAIN fs /\ fs[b + i] = FunctionOf(t[j])
  <2>1. b \in Nat
    BY <1>4 DEF b
  <2>2. b + i \in 1..b + n
    BY <1>5, <2>1
  <2> QED
    BY <1>5, <1>12, <2>2
<1>14. PICK x \in M : Kept(x) /\ t[j] = KeyOf(x)
  BY <1>3, <1>10
<1>15. x.name = m.name /\ t[j].static = x.static
  BY <1>10, <1>14 DEF KeyOf
<1>16. x \in Overloads(c, m.name)
  BY <1>6, <1>14, <1>15, CallableIs DEF M
<1>17. fs[b + i].name = CppName(m.name) /\ fs[b + i].static = x.static
  BY <1>10, <1>13, <1>15 DEF FunctionOf
<1>18. \/ fs[b + i].static = m.static
       \/ \E y \in Overloads(c, m.name) : y.static # m.static
  BY <1>16, <1>17
<1>19. \E f \in DOMAIN fs : /\ fs[f].name = CppName(m.name)
                            /\ \/ fs[f].static = m.static
                               \/ \E y \in Overloads(c, m.name) : y.static # m.static
  BY <1>13, <1>17, <1>18
<1> QED
  BY <1>8, <1>19 DEF t, fs, text

LEMMA DistinctText ==
  ASSUME NEW c, Content(c)
  PROVE  LET text == ClassText(c)
             fields == 1..Len(text.fields)
             SameName(f, g) == text.functions[f].name = text.functions[g].name
             Clash(S) == \E m, n \in S : m # n /\ m.name # n.name
                                        /\ CppName(m.name) = CppName(n.name)
             hides == \E m \in c.interfaceFields, n \in c.fields \cup c.interfaceFields :
                        m # n /\ m.name = n.name
         IN  \A f, g \in DOMAIN text.functions :
               f # g /\ SameName(f, g) /\ (f \in fields <=> g \in fields)
               => IF f \in fields THEN hides \/ Clash(c.fields \cup c.interfaceFields)
                  ELSE Clash(c.methods \cup c.interfaceMethods)
<1> DEFINE text == ClassText(c)
           s == text.fields
           t == text.methods
           fs == text.functions
           N == c.fields \cup c.interfaceFields
           M == c.methods \cup c.interfaceMethods
           b == Len(s)
           Clash(S) == \E m, n \in S : m # n /\ m.name # n.name
                                      /\ CppName(m.name) = CppName(n.name)
           hides == \E m \in c.interfaceFields, n \in c.fields \cup c.interfaceFields :
                        m # n /\ m.name = n.name
<1>1. /\ Collects(N, s) /\ Collects(M, t)
      /\ \E n, pos : Functioned(s, t, fs, n, pos)
  BY TextIs
<1>2. PICK n, pos : Functioned(s, t, fs, n, pos)
  BY <1>1
<1> HIDE DEF text, s, t, fs
<1>3. /\ s \in Seq(Key) /\ \A k \in 1..b : \E m \in N : s[k] = KeyOf(m)
      /\ \A k, l \in 1..b : k < l => Before(s[k], s[l])
  BY <1>1, Zenon DEF Collects
<1>4. t \in Seq(Key) /\ \A k \in 1..Len(t) : \E m \in M : t[k] = KeyOf(m)
  BY <1>1, Zenon DEF Collects
<1>5. /\ n \in Nat /\ DOMAIN fs = 1..b + n /\ pos \in [1..n -> 1..Len(t)]
      /\ \A k \in 1..b : fs[k] = FunctionOf(s[k])
      /\ \A i \in 1..n : FirstOf(t, pos[i]) /\ fs[b + i] = FunctionOf(t[pos[i]])
      /\ \A i, j \in 1..n : i # j => pos[i] # pos[j]
  BY <1>2, Zenon DEF Functioned
<1>6. b \in Nat
  BY <1>3
<1>0. \A x : FunctionOf(x).name = CppName(x.name)
  BY DEF FunctionOf
<1> HIDE DEF b
<1>7. ASSUME NEW f \in 1..b, NEW g \in 1..b, f # g, fs[f].name = fs[g].name
      PROVE  hides \/ Clash(N)
  <2>1. CppName(s[f].name) = CppName(s[g].name)
    <3>1. fs[f] = FunctionOf(s[f]) /\ fs[g] = FunctionOf(s[g])
      BY <1>5
    <3>2. /\ FunctionOf(s[f]).name = CppName(s[f].name)
          /\ FunctionOf(s[g]).name = CppName(s[g].name)
      BY <1>0
    <3> QED
      BY <1>7, <3>1, <3>2
  <2>2. s[f] # s[g]
    <3>1. Before(s[f], s[g]) \/ Before(s[g], s[f])
      <4>1. f < g \/ g < f
        BY <1>6, <1>7
      <4> QED
        BY <1>3, <4>1
    <3>2. s[f] \in Key /\ s[g] \in Key
      BY <1>3, <1>7 DEF b
    <3> QED
      BY <3>1, <3>2, KeysCompared
  <2>3. PICK x \in N : s[f] = KeyOf(x)
    BY <1>3
  <2>4. PICK y \in N : s[g] = KeyOf(y)
    BY <1>3
  <2>5. x # y /\ CppName(x.name) = CppName(y.name)
    BY <2>1, <2>2, <2>3, <2>4 DEF KeyOf
  <2>6. CASE x.name # y.name
    BY <2>5, <2>6
  <2>7. CASE x.name = y.name
    <3>1. x \notin c.fields \/ y \notin c.fields
      BY <2>5, <2>7 DEF Content
    <3>2. x \in c.interfaceFields \/ y \in c.interfaceFields
      BY <3>1
    <3> QED
      BY <2>5, <2>7, <3>2
  <2> QED
    BY <2>6, <2>7
<1>8. ASSUME NEW i \in 1..n, NEW j \in 1..n, i # j, fs[b + i].name = fs[b + j].name
      PROVE  Clash(M)
  <2>1. CppName(t[pos[i]].name) = CppName(t[pos[j]].name)
    <3>1. /\ fs[b + i] = FunctionOf(t[pos[i]])
          /\ fs[b + j] = FunctionOf(t[pos[j]])
      BY <1>5
    <3>2. /\ FunctionOf(t[pos[i]]).name = CppName(t[pos[i]].name)
          /\ FunctionOf(t[pos[j]]).name = CppName(t[pos[j]].name)
      BY <1>0
    <3> QED
      BY <1>8, <3>1, <3>2
  <2>2. t[pos[i]].name # t[pos[j]].name
    <3>1. /\ FirstOf(t, pos[i]) /\ FirstOf(t, pos[j]) /\ pos[i] # pos[j]
          /\ pos[i] \in 1..Len(t) /\ pos[j] \in 1..Len(t)
      BY <1>5, <1>8
    <3>2. pos[i] \in 1..pos[j] - 1 \/ pos[j] \in 1..pos[i] - 1
      BY <1>4, <3>1
    <3> QED
      BY <3>1, <3>2 DEF FirstOf
  <2>3. PICK x \in M : t[pos[i]] = KeyOf(x)
    BY <1>4, <1>5
  <2>4. PICK y \in M : t[pos[j]] = KeyOf(y)
    BY <1>4, <1>5
  <2>5. x.name # y.name /\ CppName(x.name) = CppName(y.name)
    BY <2>1, <2>2, <2>3, <2>4 DEF KeyOf
  <2> QED
    BY <2>5
<1> HIDE DEF N, M, Clash, hides
<1>9. ASSUME NEW f \in DOMAIN fs, NEW g \in DOMAIN fs, f # g, fs[f].name = fs[g].name,
             f \in 1..b <=> g \in 1..b
      PROVE  IF f \in 1..b THEN hides \/ Clash(N) ELSE Clash(M)
  <2>1. CASE f \in 1..b
    BY <1>7, <1>9, <2>1
  <2>2. CASE f \notin 1..b
    <3>1. /\ f - b \in 1..n /\ g - b \in 1..n /\ f - b # g - b
          /\ b + (f - b) = f /\ b + (g - b) = g
      BY <1>5, <1>6, <1>9, <2>2
    <3>2. Clash(M)
      BY <1>8, <1>9, <3>1
    <3> QED
      BY <2>2, <3>2
  <2> QED
    BY <2>1, <2>2
<1> QED
  BY <1>9, Zenon DEF N, M, Clash, hides, fs, b, s, text

(* A class of which a file was written has its text there. *)
LEMMA KnownText ==
  ASSUME IInv, NEW sig \in Known
  PROVE  Content(classes[sig]) /\ files[sig] = ClassText(classes[sig])
  BY DEF Known, IInv, ClassesIn, FilesIn

LEMMA ImpliesCallable ==
  ASSUME IInv
  PROVE  EveryMethodCallable
<1> SUFFICES ASSUME NEW sig \in Known, NEW m \in Callable(classes[sig])
             PROVE  LET text == files[sig]
                    IN  /\ \E k \in DOMAIN text.methods :
                             text.methods[k].name = m.name /\ text.methods[k].sig = m.sig
                        /\ \E f \in DOMAIN text.functions :
                             /\ text.functions[f].name = CppName(m.name)
                             /\ \/ text.functions[f].static = m.static
                                \/ \E n \in Overloads(classes[sig], m.name) :
                                     n.static # m.static
  BY Zenon DEF EveryMethodCallable
<1>1. Content(classes[sig]) /\ files[sig] = ClassText(classes[sig])
  BY KnownText
<1> QED
  BY <1>1, CallableText

LEMMA ImpliesDistinct ==
  ASSUME IInv
  PROVE  FunctionsDistinct
<1>1. \A sig \in Known : Content(classes[sig]) /\ files[sig] = ClassText(classes[sig])
  BY KnownText
<1> QED
  BY <1>1, DistinctText, ZenonT(30) DEF FunctionsDistinct

-----------------------------------------------------------------------------
(* The theorems *)

(* OrderPackages never rotates a range that begins before its place, if the *)
(* class path is as java/lang is found on.                                     *)
THEOREM RotationIsDefined == Spec => []RotationDefined
<1>1. IInv => RotationDefined
  BY ImpliesRotation
<1> QED
  BY <1>1, IInvHolds, PTL

(* VMInit declares no package before the one it is in. *)
THEOREM ParentsAreDeclared == Spec => []ParentsDeclared
<1>1. IInv => ParentsDeclared
  BY ImpliesParents
<1> QED
  BY <1>1, IInvHolds, PTL

(* Packages and classes are in the order of a sort by group and name, of    *)
(* which no package is lost and no class is without its own.                   *)
THEOREM WrittenInOrder == Spec => []InOrder
<1>1. IInv => InOrder
  BY ImpliesType, ImpliesPackages, ImpliesClasses DEF InOrder
<1> QED
  BY <1>1, IInvHolds, PTL

(* For each method of a public class that calls can be made to there is the *)
(* method in its file and a function of its name that a call of it matches.   *)
THEOREM EveryMethodIsCallable == Spec => []EveryMethodCallable
<1>1. IInv => EveryMethodCallable
  BY ImpliesCallable
<1> QED
  BY <1>1, IInvHolds, PTL

(* No file defines a function twice, but where two names are escaped to one *)
(* or a field hides one of an interface.                                      *)
THEOREM FunctionsAreDistinct == Spec => []FunctionsDistinct
<1>1. IInv => FunctionsDistinct
  BY ImpliesDistinct
<1> QED
  BY <1>1, IInvHolds, PTL

=============================================================================
