----------------------------- MODULE ListProofs -----------------------------
(***************************************************************************)
(* Lemmas about Lists: sorting, the orders of strings and of other lists,  *)
(* and choosing from a list.                                               *)
(*                                                                         *)
(* Induction is over a least counterexample (LeastNumber); sequences are   *)
(* described by functions that give the place of each element.             *)
(***************************************************************************)
EXTENDS Lists, FiniteSetTheorems, FunctionTheorems, SequenceTheorems, TLAPS


-----------------------------------------------------------------------------
(* Sorting *)

(* A set of natural numbers has a least member: induction, as it is used   *)
(* below.                                                                  *)
LEMMA LeastNumber ==
  ASSUME NEW T \in SUBSET Nat, T # {}
  PROVE  \E x \in T : \A y \in T : x <= y
<1> DEFINE less == {pair \in Nat \X Nat : pair[1] < pair[2]}
<1>1. IsWellFoundedOn(less, Nat)
  BY NatLessThanWellFounded, Zenon DEF OpToRel
<1>2. PICK x \in T : \A y \in T : <<y, x>> \notin less
  <2> HIDE DEF less
  <2> QED
    BY <1>1, WFMin
<1>3. ASSUME NEW y \in T PROVE x <= y
  <2>1. <<y, x>> \in Nat \X Nat /\ <<y, x>>[1] = y /\ <<y, x>>[2] = x
    OBVIOUS
  <2>2. ~(y < x)
    BY <1>2, <2>1
  <2> QED
    BY <2>2
<1> QED
  BY <1>3

(* p[k] is a member of S that has k - 1 before it. *)
CountedIn(S, n, before, p) ==
  /\ DOMAIN p = 1..n
  /\ \A k \in 1..n, x \in S : Cardinality(before[x]) = k - 1 =>
                               p[k] \in S /\ Cardinality(before[p[k]]) = k - 1

(* before[x] are the members of S that belong before x in a total order.    *)
(* The member that has k - 1 before it is there for each place k, and these  *)
(* are in order.                                                             *)
LEMMA RanksSort ==
  ASSUME NEW S, IsFiniteSet(S), NEW n \in Nat, Cardinality(S) = n,
         NEW before \in [S -> SUBSET S],
         \A x \in S : x \notin before[x],
         \A x, y \in S : y \in before[x] => before[y] \subseteq before[x],
         \A x, y \in S : x # y => x \in before[y] \/ y \in before[x],
         NEW p, CountedIn(S, n, before, p)
  PROVE  /\ \A k \in 1..n : p[k] \in S
         /\ \A x \in S : \E k \in 1..n : p[k] = x
         /\ \A k, l \in 1..n : k < l => p[k] \in before[p[l]]
<1> DEFINE rank == [x \in S |-> Cardinality(before[x]) + 1]
<1>1. ASSUME NEW x \in S
      PROVE  IsFiniteSet(before[x]) /\ rank[x] \in 1..n
  <2>2. IsFiniteSet(S \ {x}) /\ Cardinality(S \ {x}) = n - 1
    BY FS_RemoveElement, ZenonT(60)
  <2>3. before[x] \in SUBSET (S \ {x})
    OBVIOUS
  <2>4. /\ IsFiniteSet(before[x])
        /\ Cardinality(before[x]) <= n - 1
    BY <2>2, <2>3, FS_Subset
  <2>5. Cardinality(before[x]) \in Nat
    BY <2>4, FS_CardinalityType
  <2> QED
    BY <2>4, <2>5
<1>2. ASSUME NEW x \in S, NEW y \in S, y \in before[x]
      PROVE  rank[y] < rank[x]
  <2>1. before[y] \in SUBSET before[x] /\ before[y] # before[x]
    BY <1>2
  <2>2. Cardinality(before[y]) <= Cardinality(before[x])
        /\ Cardinality(before[y]) # Cardinality(before[x])
    BY <1>1, <2>1, FS_Subset
  <2>3. Cardinality(before[x]) \in Nat /\ Cardinality(before[y]) \in Nat
    BY <1>1, FS_CardinalityType
  <2> QED
    BY <2>2, <2>3
<1>3. rank \in [S -> 1..n] /\ \A x, y \in S : rank[x] = rank[y] => x = y
  <2>1. ASSUME NEW x \in S, NEW y \in S, rank[x] = rank[y] PROVE x = y
    <3>1. rank[x] \in Int /\ ~(rank[x] < rank[y]) /\ ~(rank[y] < rank[x])
      BY <1>1, <2>1
    <3> HIDE DEF rank
    <3> QED
      BY <1>2, <3>1
  <2> QED
    BY <1>1, <2>1
<1>4. \A x \in S : rank[x] = Cardinality(before[x]) + 1 /\ Cardinality(before[x]) \in Nat
  BY <1>1, FS_CardinalityType
<1> HIDE DEF rank
<1>5. \A k \in 1..n : \E x \in S : rank[x] = k
  <2>1. rank \in Injection(S, 1..n)
    BY <1>3, Fun_IsInj
  <2>2. IsFiniteSet(1..n) /\ Cardinality(1..n) = n
    BY FS_Interval
  <2>3. rank \in Surjection(S, 1..n)
    BY <2>1, <2>2, FS_Injection
  <2> QED
    BY <2>3 DEF Surjection
<1>6. ASSUME NEW k \in 1..n PROVE p[k] \in S /\ rank[p[k]] = k
  <2>1. PICK x \in S : rank[x] = k
    BY <1>5
  <2>2. Cardinality(before[x]) = k - 1
    BY <1>4, <2>1, SMTT(40)
  <2>3. p[k] \in S /\ Cardinality(before[p[k]]) = k - 1
    BY <2>2 DEF CountedIn
  <2> QED
    BY <1>4, <2>3
<1>7. ASSUME NEW x \in S PROVE \E k \in 1..n : p[k] = x
  <2>1. rank[x] \in 1..n
    BY <1>3
  <2>2. p[rank[x]] \in S /\ rank[p[rank[x]]] = rank[x]
    BY <1>6, <2>1
  <2> QED
    BY <1>3, <2>1, <2>2
<1>8. ASSUME NEW k \in 1..n, NEW l \in 1..n, k < l PROVE p[k] \in before[p[l]]
  <2>1. p[k] \in S /\ p[l] \in S /\ rank[p[k]] = k /\ rank[p[l]] = l
    BY <1>6
  <2>2. p[k] # p[l] /\ ~(rank[p[l]] < rank[p[k]])
    BY <1>8, <2>1
  <2> QED
    BY <1>2, <2>1, <2>2
<1> QED
  BY <1>6, <1>7, <1>8

(* The same of the places of a sequence of n. *)
Counted(n, before, p) == CountedIn(1..n, n, before, p)

(* A relation on the places of a sequence is one to sort by if nothing is  *)
(* less than what is less than it, and what is less than something is less *)
(* than, or greater than, everything else.                                 *)
SortsBy(n, less) ==
  /\ less \in [1..n -> SUBSET (1..n)]
  /\ \A i, j \in 1..n : j \in less[i] => i \notin less[j]
  /\ \A i, j, k \in 1..n : k \in less[i] => k \in less[j] \/ j \in less[i]

(* What comes before i in a stable sort. *)
StablyBefore(n, less) ==
  [i \in 1..n |-> {j \in 1..n : \/ j \in less[i]
                                \/ j < i /\ i \notin less[j]}]

(* What the stable sort by less does to the places: each goes to one place, *)
(* none that is less behind, and those that are alike stay in their order.  *)
LEMMA StableRanksSort ==
  ASSUME NEW n \in Nat, NEW less, SortsBy(n, less), NEW p,
         Counted(n, StablyBefore(n, less), p)
  PROVE  /\ \A k \in 1..n : p[k] \in 1..n
         /\ \A i \in 1..n : \E k \in 1..n : p[k] = i
         /\ \A k, l \in 1..n : k < l =>
              \/ p[k] \in less[p[l]]
              \/ p[l] \notin less[p[k]] /\ p[k] < p[l]
<1> DEFINE before == StablyBefore(n, less)
<1> USE DEF StablyBefore
<1>1. before \in [1..n -> SUBSET (1..n)]
  OBVIOUS
<1>2. \A i \in 1..n : i \notin before[i]
  BY DEF SortsBy
<1>3. ASSUME NEW i \in 1..n, NEW j \in 1..n, j \in before[i], NEW k \in before[j]
      PROVE  k \in before[i]
  BY <1>3 DEF SortsBy
<1>4. \A i, j \in 1..n : i # j => i \in before[j] \/ j \in before[i]
  OBVIOUS
<1>5. Counted(n, before, p)
  OBVIOUS
<1>6. \A i, j \in 1..n : j \in before[i] =>
        \/ j \in less[i]
        \/ i \notin less[j] /\ j < i
  OBVIOUS
<1> HIDE DEF before
<1>7. \A i, j \in 1..n : j \in before[i] => before[j] \subseteq before[i]
  BY <1>3
<1>8. /\ \A k \in 1..n : p[k] \in 1..n
      /\ \A i \in 1..n : \E k \in 1..n : p[k] = i
      /\ \A k, l \in 1..n : k < l => p[k] \in before[p[l]]
  <2>1. IsFiniteSet(1..n) /\ Cardinality(1..n) = n
    BY FS_Interval
  <2> QED
    BY <1>1, <1>2, <1>4, <1>5, <1>7, <2>1, RanksSort DEF Counted
<1> QED
  BY <1>6, <1>8

-----------------------------------------------------------------------------
(* Lexicographic orders *)

(* A relation to sort the members of T by, as in SortsBy. *)
Weak(R, T) ==
  /\ \A x, y \in T : <<x, y>> \in R => <<y, x>> \notin R
  /\ \A x, y, z \in T : <<x, z>> \in R => <<x, y>> \in R \/ <<y, z>> \in R

(* Sequence a is less than b at place k: a place that is not there is less *)
(* than any that is.                                                       *)
LessAt(R, a, b, k) == k <= Len(b) /\ (k > Len(a) \/ <<a[k], b[k]>> \in R)

(* Sequence a comes before b: it is less where they first differ. *)
LexBelow(R, a, b) ==
  \E k \in Nat \ {0} :
    /\ LessAt(R, a, b, k)
    /\ \A j \in Nat \ {0} : j < k => ~LessAt(R, a, b, j) /\ ~LessAt(R, b, a, j)

LEMMA WeakAt ==
  ASSUME NEW T, NEW R, Weak(R, T), NEW a \in Seq(T), NEW b \in Seq(T), NEW c \in Seq(T),
         NEW k \in Nat \ {0}
  PROVE  /\ LessAt(R, a, b, k) => ~LessAt(R, b, a, k)
         /\ LessAt(R, a, c, k) => LessAt(R, a, b, k) \/ LessAt(R, b, c, k)
  BY DEF Weak, LessAt

LEMMA LexAsymmetric ==
  ASSUME NEW T, NEW R, Weak(R, T), NEW a \in Seq(T), NEW b \in Seq(T),
         LexBelow(R, a, b)
  PROVE  ~LexBelow(R, b, a)
<1> SUFFICES ASSUME LexBelow(R, b, a) PROVE FALSE
  OBVIOUS
<1>1. PICK k \in Nat \ {0} :
        /\ LessAt(R, a, b, k)
        /\ \A j \in Nat \ {0} : j < k => ~LessAt(R, a, b, j) /\ ~LessAt(R, b, a, j)
  BY DEF LexBelow
<1>2. PICK l \in Nat \ {0} :
        /\ LessAt(R, b, a, l)
        /\ \A j \in Nat \ {0} : j < l => ~LessAt(R, b, a, j) /\ ~LessAt(R, a, b, j)
  BY DEF LexBelow
<1>3. k = l
  BY <1>1, <1>2
<1> QED
  BY <1>1, <1>2, <1>3, WeakAt

LEMMA LexNegative ==
  ASSUME NEW T, NEW R, Weak(R, T), NEW a \in Seq(T), NEW b \in Seq(T), NEW c \in Seq(T),
         LexBelow(R, a, c)
  PROVE  LexBelow(R, a, b) \/ LexBelow(R, b, c)
<1> DEFINE differ == {k \in Nat \ {0} : \/ LessAt(R, a, b, k) \/ LessAt(R, b, a, k)
                                        \/ LessAt(R, b, c, k) \/ LessAt(R, c, b, k)}
<1>1. PICK k \in Nat \ {0} :
        /\ LessAt(R, a, c, k)
        /\ \A j \in Nat \ {0} : j < k => ~LessAt(R, a, c, j) /\ ~LessAt(R, c, a, j)
  BY DEF LexBelow
<1>2. k \in differ
  BY <1>1, WeakAt
<1>3. PICK l \in differ : \A j \in differ : l <= j
  BY <1>2, LeastNumber
<1>4. \A j \in Nat \ {0} : j < l =>
        /\ ~LessAt(R, a, b, j) /\ ~LessAt(R, b, a, j)
        /\ ~LessAt(R, b, c, j) /\ ~LessAt(R, c, b, j)
  BY <1>3
<1>5. LessAt(R, a, b, l) \/ LessAt(R, b, c, l)
  <2>1. l < k \/ l = k
    BY <1>2, <1>3
  <2>2. ~LessAt(R, c, a, l)
    BY <1>1, <2>1, WeakAt
  <2> QED
    BY <1>3, <2>2, WeakAt
<1> QED
  BY <1>4, <1>5 DEF LexBelow

(* Neither comes before the other if they are as long and alike everywhere. *)
LEMMA LexAlike ==
  ASSUME NEW T, NEW R, Weak(R, T), NEW a \in Seq(T), NEW b \in Seq(T)
  PROVE  ~LexBelow(R, a, b) /\ ~LexBelow(R, b, a) <=>
           /\ Len(a) = Len(b)
           /\ \A k \in 1..Len(a) : <<a[k], b[k]>> \notin R /\ <<b[k], a[k]>> \notin R
<1> DEFINE differ == {k \in Nat \ {0} : LessAt(R, a, b, k) \/ LessAt(R, b, a, k)}
<1>1. differ = {} => ~LexBelow(R, a, b) /\ ~LexBelow(R, b, a)
  BY DEF LexBelow
<1>2. ASSUME differ # {} PROVE LexBelow(R, a, b) \/ LexBelow(R, b, a)
  <2>1. PICK l \in differ : \A j \in differ : l <= j
    BY <1>2, LeastNumber
  <2> QED
    BY <2>1 DEF LexBelow
<1>3. differ = {} <=>
        /\ Len(a) = Len(b)
        /\ \A k \in 1..Len(a) : <<a[k], b[k]>> \notin R /\ <<b[k], a[k]>> \notin R
  <2>1. ASSUME differ = {}
        PROVE  Len(a) = Len(b)
    <3>1. \A k \in Nat \ {0} : ~LessAt(R, a, b, k) /\ ~LessAt(R, b, a, k)
      BY <2>1
    <3>2. ~LessAt(R, a, b, Len(b)) \/ Len(b) = 0
      BY <3>1
    <3>3. ~LessAt(R, b, a, Len(a)) \/ Len(a) = 0
      BY <3>1
    <3> QED
      BY <3>2, <3>3 DEF LessAt
  <2> QED
    BY <2>1 DEF LessAt
<1> QED
  BY <1>1, <1>2, <1>3

LEMMA MinOfTwo ==
  ASSUME NEW m \in Nat, NEW n \in Nat
  PROVE  Min({m, n}) = IF m <= n THEN m ELSE n
<1> DEFINE least == IF m <= n THEN m ELSE n
<1>1. least \in {m, n} /\ \A y \in {m, n} : least <= y
  OBVIOUS
<1>2. ASSUME NEW x \in {m, n}, \A y \in {m, n} : x <= y PROVE x = least
  BY <1>2
<1> HIDE DEF least
<1>3. Min({m, n}) \in {m, n} /\ \A y \in {m, n} : Min({m, n}) <= y
  BY <1>1 DEF Min
<1>4. Min({m, n}) = least
  BY <1>2, <1>3
<1> QED
  BY <1>4 DEF least

(* Lexicographic as it is defined, but for a relation as a set of pairs. *)
LexCommon(R, a, b) ==
  LET common == 1..Min({Len(a), Len(b)})
      Alike(i) == <<a[i], b[i]>> \notin R /\ <<b[i], a[i]>> \notin R
  IN  \/ \E i \in common : <<a[i], b[i]>> \in R /\ \A j \in 1..i - 1 : Alike(j)
      \/ Len(a) < Len(b) /\ \A i \in common : Alike(i)

LEMMA LexSame ==
  ASSUME NEW T, NEW R, Weak(R, T), NEW a \in Seq(T), NEW b \in Seq(T)
  PROVE  LexCommon(R, a, b) <=> LexBelow(R, a, b)
<1> DEFINE min == IF Len(a) <= Len(b) THEN Len(a) ELSE Len(b)
           Alike(i) == <<a[i], b[i]>> \notin R /\ <<b[i], a[i]>> \notin R
<1>1. LexCommon(R, a, b) <=>
        \/ \E i \in 1..min : <<a[i], b[i]>> \in R /\ \A j \in 1..i - 1 : Alike(j)
        \/ Len(a) < Len(b) /\ \A i \in 1..min : Alike(i)
  <2>1. Min({Len(a), Len(b)}) = min
    BY MinOfTwo
  <2> HIDE DEF min
  <2> QED
    BY <2>1, Zenon DEF LexCommon
<1>2. ASSUME NEW i \in 1..min, <<a[i], b[i]>> \in R, \A j \in 1..i - 1 : Alike(j)
      PROVE  LexBelow(R, a, b)
  <2>1. LessAt(R, a, b, i)
    BY <1>2 DEF LessAt
  <2>2. \A j \in Nat \ {0} : j < i => ~LessAt(R, a, b, j) /\ ~LessAt(R, b, a, j)
    BY <1>2 DEF LessAt
  <2> QED
    BY <2>1, <2>2 DEF LexBelow
<1>3. ASSUME Len(a) < Len(b), \A i \in 1..min : Alike(i)
      PROVE  LexBelow(R, a, b)
  <2>1. LessAt(R, a, b, Len(a) + 1)
    BY <1>3 DEF LessAt
  <2>2. \A j \in Nat \ {0} : j < Len(a) + 1 => ~LessAt(R, a, b, j) /\ ~LessAt(R, b, a, j)
    BY <1>3 DEF LessAt
  <2> QED
    BY <2>1, <2>2 DEF LexBelow
<1>4. ASSUME NEW k \in Nat \ {0}, LessAt(R, a, b, k),
             \A j \in Nat \ {0} : j < k => ~LessAt(R, a, b, j) /\ ~LessAt(R, b, a, j)
      PROVE  \/ \E i \in 1..min : <<a[i], b[i]>> \in R /\ \A j \in 1..i - 1 : Alike(j)
             \/ Len(a) < Len(b) /\ \A i \in 1..min : Alike(i)
  <2>1. CASE k <= Len(a)
    <3>1. k \in 1..min /\ <<a[k], b[k]>> \in R
      BY <1>4, <2>1 DEF LessAt
    <3>2. \A j \in 1..k - 1 : Alike(j)
      BY <1>4, <3>1 DEF LessAt
    <3> QED
      BY <3>1, <3>2
  <2>2. CASE k > Len(a)
    <3>1. k <= Len(b)
      BY <1>4, <2>2 DEF LessAt
    <3>2. \A i \in 1..min : Alike(i)
      BY <1>4, <2>2, <3>1 DEF LessAt
    <3> QED
      BY <2>2, <3>1, <3>2
  <2>3. k <= Len(a) \/ k > Len(a)
    OBVIOUS
  <2> QED
    BY <2>1, <2>2, <2>3, Zenon
<1> QED
  BY <1>1, <1>2, <1>3, <1>4 DEF LexBelow

-----------------------------------------------------------------------------
(* Sorts of sequences *)

(* t is s sorted by R: its elements are those of s, each from one place, and *)
(* one that comes before another is less, or not greater and was before it.  *)
SortedAs(T, s, t, R) ==
  /\ t \in Seq(T) /\ Len(t) = Len(s)
  /\ \E p \in [1..Len(s) -> 1..Len(s)] :
       /\ \A i \in 1..Len(s) : \E k \in 1..Len(s) : p[k] = i
       /\ \A k \in 1..Len(s) : t[k] = s[p[k]]
       /\ \A k, l \in 1..Len(s) : k < l =>
            \/ <<t[k], t[l]>> \in R
            \/ <<t[l], t[k]>> \notin R /\ p[k] < p[l]

(* before in StableSort, for a relation as a set of pairs. *)
SortsBefore(s, R) ==
  [i \in DOMAIN s |-> {j \in DOMAIN s : \/ <<s[j], s[i]>> \in R
                                        \/ j < i /\ <<s[i], s[j]>> \notin R}]

LEMMA SortedBy ==
  ASSUME NEW T, NEW s \in Seq(T), NEW R, Weak(R, T),
         NEW p, Counted(Len(s), SortsBefore(s, R), p),
         NEW t, t = [k \in DOMAIN s |-> s[p[k]]]
  PROVE  SortedAs(T, s, t, R)
<1>1. Len(s) \in Nat /\ DOMAIN s = 1..Len(s) /\ \A i \in 1..Len(s) : s[i] \in T
  OBVIOUS
<1>2. \A k \in DOMAIN s : t[k] = s[p[k]]
  OBVIOUS
<1>3. DOMAIN p = DOMAIN s /\ DOMAIN t = DOMAIN s
  BY <1>1 DEF Counted, CountedIn
<1> DEFINE less == [i \in 1..Len(s) |-> {j \in 1..Len(s) : <<s[j], s[i]>> \in R}]
<1>4. \A i, j \in 1..Len(s) : j \in less[i] <=> <<s[j], s[i]>> \in R
  OBVIOUS
<1>5. less \in [1..Len(s) -> SUBSET (1..Len(s))]
  OBVIOUS
<1>6. SortsBefore(s, R) = StablyBefore(Len(s), less)
  BY <1>1 DEF StablyBefore, SortsBefore
<1> HIDE DEF less
<1>7. SortsBy(Len(s), less)
  BY <1>1, <1>4, <1>5 DEF SortsBy, Weak
<1>8. /\ \A k \in 1..Len(s) : p[k] \in 1..Len(s)
      /\ \A i \in 1..Len(s) : \E k \in 1..Len(s) : p[k] = i
      /\ \A k, l \in 1..Len(s) : k < l =>
           \/ p[k] \in less[p[l]]
           \/ p[l] \notin less[p[k]] /\ p[k] < p[l]
  BY <1>1, <1>6, <1>7, StableRanksSort
<1>9. \A k \in 1..Len(s) : t[k] = s[p[k]] /\ t[k] \in T
  BY <1>1, <1>2, <1>8
<1> DEFINE q == [k \in 1..Len(s) |-> p[k]]
<1>10. q \in [1..Len(s) -> 1..Len(s)]
  BY <1>8
<1>11. t \in Seq(T) /\ Len(t) = Len(s)
  <2>1. t = [k \in 1..Len(s) |-> t[k]]
    BY <1>1
  <2>2. t \in [1..Len(s) -> T]
    BY <2>1, <1>9
  <2> QED
    BY <1>1, <1>3, <2>2
<1>12. \A k \in 1..Len(s) : q[k] = p[k]
  OBVIOUS
<1> HIDE DEF q
<1>13. \A i \in 1..Len(s) : \E k \in 1..Len(s) : q[k] = i
  BY <1>8, <1>12
<1>14. ASSUME NEW k \in 1..Len(s), NEW l \in 1..Len(s), k < l
       PROVE  \/ <<t[k], t[l]>> \in R
              \/ <<t[l], t[k]>> \notin R /\ q[k] < q[l]
  <2>1. p[k] \in 1..Len(s) /\ p[l] \in 1..Len(s) /\ t[k] = s[p[k]] /\ t[l] = s[p[l]]
        /\ q[k] = p[k] /\ q[l] = p[l]
    BY <1>8, <1>9, <1>12
  <2>2. p[k] \in less[p[l]] \/ (p[l] \notin less[p[k]] /\ p[k] < p[l])
    BY <1>8, <1>14
  <2> QED
    BY <1>4, <2>1, <2>2
<1>15. \A k \in 1..Len(s) : t[k] = s[q[k]]
  BY <1>9, <1>12
<1> QED
  BY <1>10, <1>11, <1>13, <1>14, <1>15 DEF SortedAs

-----------------------------------------------------------------------------
(* Parts of sequences *)

LEMMA MaxOf ==
  ASSUME NEW n \in Nat, NEW s \in SUBSET (1..n), n \in s
  PROVE  Max(s) = n
<1>1. \A y \in s : y \in Nat /\ n >= y
  OBVIOUS
<1>2. Max(s) \in s /\ \A y \in s : Max(s) >= y
  BY <1>1 DEF Max
<1>3. Max(s) \in Nat /\ n >= Max(s) /\ Max(s) >= n
  BY <1>1, <1>2
<1> QED
  BY <1>3

(* The concatenation of the first m sequences is g[m]. *)
Flattens(g, s, m) == g = [i \in 1..m |-> IF i = 1 THEN s[i] ELSE g[i - 1] \o s[i]]

LEMMA FlattenExists ==
  ASSUME NEW s, NEW n \in Nat
  PROVE  \E g : Flattens(g, s, n)
<1> DEFINE fails == {m \in Nat : ~\E g : Flattens(g, s, m)}
<1>1. 0 \notin fails
  <2> DEFINE g == [i \in 1..0 |-> <<>>]
  <2>1. 1..0 = {}
    OBVIOUS
  <2>2. Flattens(g, s, 0)
    BY <2>1 DEF Flattens
  <2> QED
    BY <2>2
<1>2. ASSUME NEW m \in Nat, m \notin fails PROVE m + 1 \notin fails
  <2>1. PICK g : Flattens(g, s, m)
    BY <1>2
  <2> DEFINE h == [i \in 1..m + 1 |->
                     IF i \in 1..m THEN g[i]
                     ELSE IF i = 1 THEN s[i] ELSE g[i - 1] \o s[i]]
  <2>2. \A i \in 1..m : g[i] = IF i = 1 THEN s[i] ELSE g[i - 1] \o s[i]
    BY <2>1, Zenon DEF Flattens
  <2>3. \A i \in 1..m : i \in 1..m + 1 /\ h[i] = g[i]
    OBVIOUS
  <2>4. \A i \in 1..m + 1 : /\ i # 1 => i - 1 \in 1..m
                            /\ i \notin 1..m => h[i] = IF i = 1 THEN s[i] ELSE g[i - 1] \o s[i]
    OBVIOUS
  <2>5. h = [i \in 1..m + 1 |-> h[i]]
    OBVIOUS
  <2> HIDE DEF h
  <2>6. ASSUME NEW i \in 1..m + 1 PROVE h[i] = IF i = 1 THEN s[i] ELSE h[i - 1] \o s[i]
    <3>1. i # 1 => h[i - 1] = g[i - 1]
      BY <2>3, <2>4
    <3>2. h[i] = IF i = 1 THEN s[i] ELSE g[i - 1] \o s[i]
      BY <2>2, <2>3, <2>4
    <3> QED
      BY <3>1, <3>2, Zenon
  <2>7. Flattens(h, s, m + 1)
    BY <2>5, <2>6 DEF Flattens
  <2> QED
    BY <2>7
<1>3. n \notin fails
  <2> SUFFICES ASSUME fails # {} PROVE FALSE
    OBVIOUS
  <2> HIDE DEF fails
  <2>1. fails \in SUBSET Nat
    BY DEF fails
  <2>2. PICK m \in fails : \A k \in fails : m <= k
    BY <2>1, LeastNumber
  <2>3. m \in Nat /\ m # 0
    BY <1>1, <2>1
  <2>4. m - 1 \in Nat /\ m - 1 \notin fails
    BY <2>2, <2>3
  <2>5. (m - 1) + 1 \notin fails
    BY <1>2, <2>4
  <2> QED
    BY <2>3, <2>5
<1> QED
  BY <1>3

(* f[m] is what the first m sequences are together. *)
Concatenates(T, s, f) ==
  /\ f \in [0..Len(s) -> Seq(T)]
  /\ f[0] = <<>>
  /\ \A i \in 0..Len(s) - 1 : f[i + 1] = f[i] \o s[i + 1]
  /\ FlattenSeq(s) = f[Len(s)]

LEMMA FlattenIs ==
  ASSUME NEW T, NEW s \in Seq(Seq(T))
  PROVE  \E f : Concatenates(T, s, f)
<1> DEFINE n == Len(s)
           g == CHOOSE g : Flattens(g, s, n)
           f == [i \in 0..n |-> IF i = 0 THEN <<>> ELSE g[i]]
<1>1. n \in Nat /\ \A i \in 1..n : s[i] \in Seq(T)
  OBVIOUS
<1>2. Flattens(g, s, n)
  BY <1>1, FlattenExists
<1>3. FlattenSeq(s) = IF n = 0 THEN s ELSE g[n]
  BY Zenon DEF FlattenSeq, Flattens
<1> HIDE DEF g
<1>4. \A i \in 1..n : g[i] = IF i = 1 THEN s[i] ELSE g[i - 1] \o s[i]
  BY <1>2, Zenon DEF Flattens
<1>5. f[0] = <<>> /\ \A i \in 1..n : f[i] = g[i]
  BY <1>1
<1>6. FlattenSeq(s) = f[n]
  BY <1>1, <1>3, <1>5
<1>7. f = [i \in 0..n |-> f[i]]
  OBVIOUS
<1> HIDE DEF f, n
<1>8. ASSUME NEW i \in 0..n - 1
      PROVE  f[i + 1] = f[i] \o s[i + 1]
  <2>1. i + 1 \in 1..n /\ (i = 0 \/ i \in 1..n) /\ (i + 1) - 1 = i
    BY <1>1
  <2>2. CASE i = 0
    <3>1. f[1] = s[1] /\ s[1] \in Seq(T)
      BY <1>1, <1>4, <1>5, <2>1, <2>2
    <3>2. <<>> \o s[1] = s[1]
      BY <3>1
    <3>3. i + 1 = 1 /\ f[i] = <<>>
      BY <1>5, <2>2
    <3> QED
      BY <3>1, <3>2, <3>3, Zenon
  <2>3. CASE i # 0
    <3>1. i + 1 # 1 /\ i \in 1..n
      BY <2>1, <2>3
    <3>2. g[i + 1] = g[i] \o s[i + 1]
      BY <1>4, <2>1, <3>1, Zenon
    <3> QED
      BY <1>5, <2>1, <3>1, <3>2
  <2> QED
    BY <2>2, <2>3
<1>9. \A i \in 0..n : f[i] \in Seq(T)
  <2> DEFINE fails == {i \in 0..n : f[i] \notin Seq(T)}
  <2> SUFFICES ASSUME fails # {} PROVE FALSE
    OBVIOUS
  <2>1. fails \in SUBSET Nat
    BY <1>1
  <2>2. PICK m \in fails : \A k \in fails : m <= k
    BY <2>1, LeastNumber
  <2>3. m \in 0..n /\ f[m] \notin Seq(T)
    OBVIOUS
  <2>4. m # 0
    <3>1. <<>> \in Seq(T)
      OBVIOUS
    <3> QED
      BY <1>5, <2>3, <3>1, Zenon
  <2>5. m - 1 \in 0..n - 1 /\ m - 1 \in 0..n /\ (m - 1) + 1 = m /\ m \in 1..n
    BY <1>1, <2>3, <2>4
  <2>6. f[m - 1] \in Seq(T)
    BY <2>2, <2>3, <2>5
  <2>7. f[m] = f[m - 1] \o s[m] /\ s[m] \in Seq(T)
    BY <1>1, <1>8, <2>5
  <2> HIDE DEF fails
  <2> QED
    BY <2>3, <2>6, <2>7
<1>10. f \in [0..n -> Seq(T)]
  BY <1>7, <1>9
<1>11. Concatenates(T, s, f)
  BY <1>5, <1>6, <1>8, <1>10 DEF Concatenates, n
<1> QED
  BY <1>11

(* r is what t has at the places pos, which are in order and are all of S up *)
(* to m.                                                                     *)
Selects(T, t, S, m, r) ==
  /\ r \in Seq(T)
  /\ \E pos \in [1..Len(r) -> (1..m) \cap S] :
       /\ \A i \in 1..Len(r) : r[i] = t[pos[i]]
       /\ \A i, j \in 1..Len(r) : i < j => pos[i] < pos[j]
       /\ \A k \in (1..m) \cap S : \E i \in 1..Len(r) : pos[i] = k

LEMMA SelectsNext ==
  ASSUME NEW T, NEW t \in Seq(T), NEW S, NEW m \in Nat, m < Len(t),
         NEW r, Selects(T, t, S, m, r)
  PROVE  Selects(T, t, S, m + 1, r \o (IF m + 1 \in S THEN <<t[m + 1]>> ELSE <<>>))
<1>1. PICK pos \in [1..Len(r) -> (1..m) \cap S] :
        /\ \A i \in 1..Len(r) : r[i] = t[pos[i]]
        /\ \A i, j \in 1..Len(r) : i < j => pos[i] < pos[j]
        /\ \A k \in (1..m) \cap S : \E i \in 1..Len(r) : pos[i] = k
  BY Zenon DEF Selects
<1>2. r \in Seq(T) /\ Len(r) \in Nat
  BY Zenon, LenProperties DEF Selects
<1>3. t[m + 1] \in T
  BY ElementOfSeq
<1>4. CASE m + 1 \notin S
  <2>1. r \o <<>> = r
    BY <1>2
  <2>2. (1..m + 1) \cap S = (1..m) \cap S
    BY <1>4
  <2>3. Selects(T, t, S, m + 1, r)
    BY <2>2, Zenon DEF Selects
  <2> QED
    BY <1>4, <2>1, <2>3
<1>5. CASE m + 1 \in S
  <2> DEFINE n == Len(r)
             q == r \o <<t[m + 1]>>
             h == [i \in 1..n + 1 |-> IF i = n + 1 THEN m + 1 ELSE pos[i]]
  <2>1. /\ q \in Seq(T) /\ Len(q) = n + 1 /\ q[n + 1] = t[m + 1]
        /\ \A i \in 1..n : q[i] = r[i]
    BY <1>2, <1>3
  <2>2. /\ h[n + 1] = m + 1
        /\ \A i \in 1..n : h[i] = pos[i] /\ pos[i] \in (1..m) \cap S /\ i \in 1..n + 1
        /\ \A i \in 1..n + 1 : i = n + 1 \/ i \in 1..n
        /\ n + 1 \in 1..n + 1
    BY <1>1, <1>2
  <2>3. h = [i \in 1..n + 1 |-> h[i]]
    OBVIOUS
  <2> HIDE DEF h, q, n
  <2>4. \A i \in 1..n + 1 : h[i] \in (1..m + 1) \cap S
    BY <1>5, <2>2
  <2>5. h \in [1..n + 1 -> (1..m + 1) \cap S]
    BY <2>3, <2>4
  <2>6. \A i \in 1..n + 1 : q[i] = t[h[i]]
    BY <1>1, <2>1, <2>2 DEF n
  <2>7. ASSUME NEW i \in 1..n + 1, NEW j \in 1..n + 1, i < j PROVE h[i] < h[j]
    <3>1. n \in Nat
      BY <1>2 DEF n
    <3>2. i \in 1..n
      BY <2>7, <3>1
    <3>3. CASE j = n + 1
      BY <2>2, <3>2, <3>3
    <3>4. CASE j \in 1..n
      BY <1>1, <2>2, <2>7, <3>2, <3>4 DEF n
    <3> QED
      BY <2>2, <3>3, <3>4
  <2>8. ASSUME NEW k \in (1..m + 1) \cap S PROVE \E i \in 1..n + 1 : h[i] = k
    <3>1. CASE k = m + 1
      BY <2>2, <3>1
    <3>2. CASE k # m + 1
      <4>1. k \in (1..m) \cap S
        BY <3>2
      <4>2. PICK i \in 1..n : pos[i] = k
        BY <1>1, <4>1 DEF n
      <4> QED
        BY <2>2, <4>2
    <3> QED
      BY <3>1, <3>2
  <2>9. Selects(T, t, S, m + 1, q)
    <3>1. q \in Seq(T) /\ n + 1 = Len(q)
      BY <2>1
    <3>2. /\ h \in [1..Len(q) -> (1..m + 1) \cap S]
          /\ \A i \in 1..Len(q) : q[i] = t[h[i]]
          /\ \A i, j \in 1..Len(q) : i < j => h[i] < h[j]
          /\ \A k \in (1..m + 1) \cap S : \E i \in 1..Len(q) : h[i] = k
      BY <2>5, <2>6, <2>7, <2>8, <3>1, Zenon
    <3> QED
      BY <3>1, <3>2, Zenon DEF Selects
  <2> QED
    BY <1>5, <2>9 DEF q
<1> QED
  BY <1>4, <1>5

LEMMA AtIs ==
  ASSUME NEW T, NEW t \in Seq(T), NEW S
  PROVE  Selects(T, t, S, Len(t), At(t, S))
<1> DEFINE n == Len(t)
           s == [k \in 1..n |-> IF k \in S THEN <<t[k]>> ELSE <<>>]
<1>1. n \in Nat /\ DOMAIN t = 1..n
  OBVIOUS
<1>2. \A k \in 1..n : s[k] \in Seq(T) /\ s[k] = IF k \in S THEN <<t[k]>> ELSE <<>>
  OBVIOUS
<1>3. At(t, S) = FlattenSeq(s)
  BY <1>1 DEF At
<1>4. s \in Seq(Seq(T)) /\ Len(s) = n
  <2>1. s \in [1..n -> Seq(T)] /\ DOMAIN s = 1..n
    BY <1>2
  <2> HIDE DEF s
  <2> QED
    BY <1>1, <2>1
<1> HIDE DEF s
<1>5. PICK f : Concatenates(T, s, f)
  BY <1>4, FlattenIs
<1> DEFINE fails == {m \in 0..n : ~Selects(T, t, S, m, f[m])}
<1>6. fails = {}
  <2> SUFFICES ASSUME fails # {} PROVE FALSE
    OBVIOUS
  <2>1. fails \in SUBSET Nat
    BY <1>1
  <2>2. PICK m \in fails : \A k \in fails : m <= k
    BY <2>1, LeastNumber
  <2>3. m \in 0..n /\ ~Selects(T, t, S, m, f[m])
    OBVIOUS
  <2>4. m # 0
    <3>1. Selects(T, t, S, 0, <<>>)
      <4> DEFINE pos == [i \in 1..0 |-> 0]
      <4>1. <<>> \in Seq(T) /\ Len(<<>>) = 0 /\ 1..0 = {}
        OBVIOUS
      <4>2. pos \in [1..Len(<<>>) -> (1..0) \cap S]
        BY <4>1
      <4>3. /\ \A i \in 1..Len(<<>>) : <<>>[i] = t[pos[i]]
            /\ \A i, j \in 1..Len(<<>>) : i < j => pos[i] < pos[j]
            /\ \A k \in (1..0) \cap S : \E i \in 1..Len(<<>>) : pos[i] = k
        BY <4>1
      <4> QED
        BY <4>1, <4>2, <4>3, Zenon DEF Selects
    <3> QED
      BY <1>5, <2>3, <3>1 DEF Concatenates
  <2> DEFINE k == m - 1
  <2>5. /\ k \in 0..n /\ k \in 0..n - 1 /\ k \in Nat /\ k < Len(t) /\ m = k + 1
        /\ k + 1 \in 1..n /\ ~(m <= k)
    BY <1>1, <2>3, <2>4
  <2> HIDE DEF k
  <2>6. Selects(T, t, S, k, f[k])
    BY <2>2, <2>5
  <2>7. f[k + 1] = f[k] \o s[k + 1]
    BY <1>4, <1>5, <2>5 DEF Concatenates
  <2>8. Selects(T, t, S, k + 1, f[k + 1])
    <3>1. f[k + 1] = f[k] \o (IF k + 1 \in S THEN <<t[k + 1]>> ELSE <<>>)
      BY <1>2, <2>5, <2>7, Zenon
    <3>2. Selects(T, t, S, k + 1, f[k] \o (IF k + 1 \in S THEN <<t[k + 1]>> ELSE <<>>))
      BY <2>5, <2>6, SelectsNext, Zenon
    <3> QED
      BY <3>1, <3>2, Zenon
  <2> QED
    BY <2>3, <2>5, <2>8
<1>7. Selects(T, t, S, n, f[n])
  BY <1>1, <1>6
<1> QED
  BY <1>3, <1>4, <1>5, <1>7 DEF Concatenates

LEMMA AtChooses ==
  ASSUME NEW T, NEW t \in Seq(T), NEW S
  PROVE  /\ At(t, S) \in Seq(T)
         /\ \A i \in 1..Len(At(t, S)) :
              \E k \in 1..Len(t) : k \in S /\ At(t, S)[i] = t[k]
<1> DEFINE r == At(t, S)
<1>1. Selects(T, t, S, Len(t), r)
  BY AtIs
<1> HIDE DEF r
<1>2. PICK pos \in [1..Len(r) -> (1..Len(t)) \cap S] : \A i \in 1..Len(r) : r[i] = t[pos[i]]
  BY <1>1, Zenon DEF Selects
<1>3. r \in Seq(T)
  BY <1>1, Zenon DEF Selects
<1>4. \A i \in 1..Len(r) : pos[i] \in 1..Len(t) /\ pos[i] \in S
  BY <1>2
<1>5. \A i \in 1..Len(r) : \E k \in 1..Len(t) : k \in S /\ r[i] = t[k]
  BY <1>2, <1>4, Zenon
<1> QED
  BY <1>3, <1>5 DEF r

-----------------------------------------------------------------------------
(* The names of the classes *)

Numbers == {p \in Nat \X Nat : Number(p[1], p[2])}
Alphabetical == {p \in Seq(Nat) \X Seq(Nat) : StringBefore(p[1], p[2])}

LEMMA NamesOrdered ==
  Weak(Alphabetical, Seq(Nat))
<1>1. \A x, y \in Nat : <<x, y>> \in Numbers <=> Number(x, y)
  BY Zenon DEF Numbers
<1>2. Weak(Numbers, Nat)
  BY <1>1 DEF Weak, Number
<1>3. ASSUME NEW a \in Seq(Nat), NEW b \in Seq(Nat)
      PROVE  <<a, b>> \in Alphabetical <=> LexBelow(Numbers, a, b)
  <2> DEFINE common == 1..Min({Len(a), Len(b)})
  <2>1. \A i \in common : i \in 1..Len(a) /\ i \in 1..Len(b)
    BY MinOfTwo, SMTT(40)
  <2>2. \A i \in common : 1..i - 1 \subseteq common
    <3>1. Len(a) \in Nat /\ Len(b) \in Nat
      OBVIOUS
    <3>2. Min({Len(a), Len(b)}) \in Nat
      <4>1. Min({Len(a), Len(b)}) = IF Len(a) <= Len(b) THEN Len(a) ELSE Len(b)
        BY <3>1, MinOfTwo, Zenon
      <4> QED
        BY <3>1, <4>1
    <3> DEFINE n == Min({Len(a), Len(b)})
    <3>3. common = 1..n /\ n \in Nat
      BY <3>2
    <3> HIDE DEF n, common
    <3> QED
      BY <3>3
  <2> HIDE DEF common
  <2>3. \A i \in common : /\ <<a[i], b[i]>> \in Numbers <=> Number(a[i], b[i])
                          /\ <<b[i], a[i]>> \in Numbers <=> Number(b[i], a[i])
    BY <1>1, <2>1
  <2>4. LexCommon(Numbers, a, b) <=> StringBefore(a, b)
    BY <2>2, <2>3 DEF LexCommon, Lexicographic, StringBefore, common
  <2>5. <<a, b>> \in Alphabetical <=> StringBefore(a, b)
    BY Zenon DEF Alphabetical
  <2> QED
    BY <1>2, <2>4, <2>5, LexSame
<1> QED
  BY <1>2, <1>3, LexAsymmetric, LexNegative DEF Weak

LEMMA NamesSorted ==
  ASSUME NEW s \in Seq(Seq(Nat))
  PROVE  SortedAs(Seq(Nat), s, StableSort(StringBefore, s), Alphabetical)
<1> DEFINE before == [i \in DOMAIN s |->
                       {j \in DOMAIN s : \/ StringBefore(s[j], s[i])
                                         \/ j < i /\ ~StringBefore(s[i], s[j])}]
           p == [k \in DOMAIN s |-> CHOOSE i \in DOMAIN s : Cardinality(before[i]) = k - 1]
<1>1. StableSort(StringBefore, s) = [k \in DOMAIN s |-> s[p[k]]]
  BY DEF StableSort
<1>2. ASSUME NEW i \in DOMAIN s, NEW j \in DOMAIN s
      PROVE  <<s[j], s[i]>> \in Alphabetical <=> StringBefore(s[j], s[i])
  <2>1. s[i] \in Seq(Nat) /\ s[j] \in Seq(Nat)
    OBVIOUS
  <2> QED
    BY <2>1, Zenon DEF Alphabetical
<1>3. before = SortsBefore(s, Alphabetical)
  BY <1>2 DEF SortsBefore
<1> HIDE DEF before
<1>4. Counted(Len(s), before, p)
  BY DEF Counted, CountedIn
<1> HIDE DEF p
<1> QED
  BY <1>1, <1>3, <1>4, SortedBy, NamesOrdered

-----------------------------------------------------------------------------
(* Sorts of sets *)

(* R orders S, and no two of its members are alike. *)
Orders(R, S) ==
  /\ \A x, y \in S : <<x, y>> \in R => <<y, x>> \notin R
  /\ \A x, y, z \in S : <<x, y>> \in R /\ <<y, z>> \in R => <<x, z>> \in R
  /\ \A x, y \in S : x # y => <<x, y>> \in R \/ <<y, x>> \in R

(* t has the members of S, in the order of R. *)
Ascends(S, t, R) ==
  /\ t \in Seq(S)
  /\ \A x \in S : \E k \in 1..Len(t) : t[k] = x
  /\ \A k, l \in 1..Len(t) : k < l => <<t[k], t[l]>> \in R

(* The members of S that belong before each. *)
Preceding(S, R) == [x \in S |-> {y \in S : <<y, x>> \in R}]

LEMMA SetRanked ==
  ASSUME NEW S, IsFiniteSet(S), NEW R, Orders(R, S),
         NEW t, CountedIn(S, Cardinality(S), Preceding(S, R), t),
         t = [k \in 1..Cardinality(S) |-> t[k]]
  PROVE  Ascends(S, t, R)
<1> DEFINE before == Preceding(S, R)
<1>1. PICK n \in Nat : n = Cardinality(S)
  BY FS_CardinalityType
<1>2. before \in [S -> SUBSET S]
  BY DEF Preceding
<1>3. \A x \in S : before[x] = {y \in S : <<y, x>> \in R}
  BY DEF Preceding
<1> HIDE DEF before
<1>4. /\ \A x \in S : x \notin before[x]
      /\ \A x, y \in S : y \in before[x] => before[y] \subseteq before[x]
      /\ \A x, y \in S : x # y => x \in before[y] \/ y \in before[x]
  <2>1. \A x \in S : x \notin before[x]
    <3>1. \A x \in S : <<x, x>> \notin R
      BY ZenonT(30) DEF Orders
    <3> QED
      BY <1>3, <3>1
  <2>2. ASSUME NEW x \in S, NEW y \in S, y \in before[x], NEW z \in before[y]
        PROVE  z \in before[x]
    <3>1. z \in S /\ <<z, y>> \in R /\ <<y, x>> \in R
      BY <1>3, <2>2
    <3>2. <<z, x>> \in R
      BY <3>1, ZenonT(30) DEF Orders
    <3> QED
      BY <1>3, <3>1, <3>2
  <2>3. ASSUME NEW x \in S, NEW y \in S, x # y
        PROVE  x \in before[y] \/ y \in before[x]
    <3>1. <<x, y>> \in R \/ <<y, x>> \in R
      BY <2>3, Zenon DEF Orders
    <3> QED
      BY <1>3, <3>1
  <2> QED
    BY <2>1, <2>2, <2>3
<1>5. CountedIn(S, n, before, t)
  BY <1>1 DEF before
<1>6. /\ \A k \in 1..n : t[k] \in S
      /\ \A x \in S : \E k \in 1..n : t[k] = x
      /\ \A k, l \in 1..n : k < l => t[k] \in before[t[l]]
  BY <1>1, <1>2, <1>4, <1>5, RanksSort
<1>7. t \in Seq(S) /\ Len(t) = n
  <2>1. t = [k \in 1..n |-> t[k]]
    BY <1>1, Zenon
  <2> DEFINE u == [k \in 1..n |-> t[k]]
  <2>2. \A k \in 1..n : u[k] \in S
    BY <1>6
  <2>3. u \in [1..n -> S]
    BY <2>2
  <2>4. u \in Seq(S) /\ Len(u) = n
    BY <1>1, <2>3
  <2> QED
    BY <2>1, <2>4, Zenon
<1>8. \A k, l \in 1..n : k < l => <<t[k], t[l]>> \in R
  BY <1>3, <1>6
<1> QED
  BY <1>6, <1>7, <1>8 DEF Ascends

LEMMA SetSorted ==
  ASSUME NEW S, IsFiniteSet(S), NEW R, Orders(R, S), NEW t,
         t = [p \in 1..Cardinality(S) |->
                CHOOSE x \in S : Cardinality({y \in S : <<y, x>> \in R}) = p - 1]
  PROVE  Ascends(S, t, R)
<1> DEFINE C(k) == CHOOSE x \in S : Cardinality({y \in S : <<y, x>> \in R}) = k - 1
<1>0. t = [k \in 1..Cardinality(S) |-> C(k)]
  OBVIOUS
<1> HIDE DEF C
<1>1. DOMAIN t = 1..Cardinality(S) /\ t = [k \in 1..Cardinality(S) |-> t[k]]
  BY <1>0
<1>2. \A x \in S : Preceding(S, R)[x] = {y \in S : <<y, x>> \in R}
  BY DEF Preceding
<1>3. ASSUME NEW k \in 1..Cardinality(S), NEW x \in S,
             Cardinality(Preceding(S, R)[x]) = k - 1
      PROVE  t[k] \in S /\ Cardinality(Preceding(S, R)[t[k]]) = k - 1
  <2>1. t[k] = CHOOSE z \in S : Cardinality({y \in S : <<y, z>> \in R}) = k - 1
    BY <1>0 DEF C
  <2>2. Cardinality({y \in S : <<y, x>> \in R}) = k - 1
    BY <1>2, <1>3
  <2>3. t[k] \in S /\ Cardinality({y \in S : <<y, t[k]>> \in R}) = k - 1
    BY <2>1, <2>2, Zenon
  <2> QED
    BY <1>2, <2>3
<1>4. CountedIn(S, Cardinality(S), Preceding(S, R), t)
  BY <1>1, <1>3, Zenon DEF CountedIn
<1> QED
  BY <1>1, <1>4, SetRanked, Zenon

-----------------------------------------------------------------------------
(* Concatenations *)

LEMMA FlattenNone ==
  FlattenSeq(<<>>) = <<>>
<1>1. <<>> \in Seq(Seq({})) /\ Len(<<>>) = 0
  OBVIOUS
<1>2. PICK f : Concatenates({}, <<>>, f)
  BY <1>1, FlattenIs
<1> QED
  BY <1>1, <1>2 DEF Concatenates

LEMMA FlattenJoins ==
  ASSUME NEW T, NEW s \in Seq(Seq(T)), NEW t \in Seq(Seq(T))
  PROVE  FlattenSeq(s \o t) = FlattenSeq(s) \o FlattenSeq(t)
<1> DEFINE r == s \o t
           m == Len(s)
           n == Len(t)
<1>1. m \in Nat /\ n \in Nat /\ r \in Seq(Seq(T)) /\ Len(r) = m + n
      /\ (\A i \in 1..m : r[i] = s[i]) /\ (\A i \in 1..n : r[m + i] = t[i])
  OBVIOUS
<1>2. PICK f : Concatenates(T, s, f)
  BY FlattenIs
<1>3. PICK g : Concatenates(T, t, g)
  BY FlattenIs
<1> HIDE DEF r
<1>4. PICK h : Concatenates(T, r, h)
  BY <1>1, FlattenIs
<1>5. /\ f \in [0..m -> Seq(T)] /\ f[0] = <<>> /\ FlattenSeq(s) = f[m]
      /\ \A i \in 0..m - 1 : f[i + 1] = f[i] \o s[i + 1]
  BY <1>2 DEF Concatenates
<1>6. /\ g \in [0..n -> Seq(T)] /\ g[0] = <<>> /\ FlattenSeq(t) = g[n]
      /\ \A i \in 0..n - 1 : g[i + 1] = g[i] \o t[i + 1]
  BY <1>3 DEF Concatenates
<1>7. /\ h \in [0..m + n -> Seq(T)] /\ h[0] = <<>> /\ FlattenSeq(r) = h[m + n]
      /\ \A i \in 0..(m + n) - 1 : h[i + 1] = h[i] \o r[i + 1]
  BY <1>1, <1>4 DEF Concatenates
<1> HIDE DEF m, n
<1>8. h[m] = f[m]
  <2> DEFINE fails == {i \in 0..m : h[i] # f[i]}
  <2> SUFFICES ASSUME fails # {} PROVE FALSE
    BY <1>1
  <2>1. fails \in SUBSET Nat
    OBVIOUS
  <2>2. PICK i \in fails : \A k \in fails : i <= k
    BY <2>1, LeastNumber
  <2>3. i \in 0..m /\ i # 0 /\ h[i] # f[i]
    BY <1>5, <1>7
  <2>4. i - 1 \in 0..m - 1 /\ i - 1 \in 0..(m + n) - 1 /\ i - 1 \in 0..m /\ (i - 1) + 1 = i
        /\ i \in 1..m /\ ~(i <= i - 1)
    BY <1>1, <2>3
  <2>5. h[i - 1] = f[i - 1]
    BY <2>2, <2>4
  <2>6. h[i] = h[i - 1] \o r[i] /\ f[i] = f[i - 1] \o s[i] /\ r[i] = s[i]
    BY <1>1, <1>5, <1>7, <2>4
  <2> QED
    BY <2>3, <2>5, <2>6
<1>9. h[m + n] = f[m] \o g[n]
  <2> DEFINE fails == {i \in 0..n : h[m + i] # f[m] \o g[i]}
  <2>0. fails = {} => h[m + n] = f[m] \o g[n]
    <3>1. n \in 0..n
      BY <1>1
    <3> QED
      BY <3>1
  <2> SUFFICES ASSUME fails # {} PROVE FALSE
    BY <2>0
  <2>1. \A i \in fails : i \in 0..n
    BY Zenon
  <2>11. fails \in SUBSET Nat
    <3> HIDE DEF fails
    <3> QED
      BY <1>1, <2>1
  <2>2. PICK i \in fails : \A k \in fails : i <= k
    <3> HIDE DEF fails
    <3> QED
      BY <2>11, LeastNumber
  <2>3. i \in 0..n /\ h[m + i] # f[m] \o g[i]
    OBVIOUS
  <2>4. f[m] \in Seq(T)
    BY <1>1, <1>5
  <2>5. i # 0
    <3>1. f[m] \o <<>> = f[m]
      BY <2>4
    <3>2. m + 0 = m
      BY <1>1
    <3> QED
      BY <1>6, <1>8, <2>3, <3>1, <3>2
  <2>6. i - 1 \in 0..n - 1 /\ m + (i - 1) \in 0..(m + n) - 1 /\ i - 1 \in 0..n /\ (i - 1) + 1 = i
        /\ i \in 1..n /\ ~(i <= i - 1) /\ (m + (i - 1)) + 1 = m + i
    BY <1>1, <2>3, <2>5
  <2>7. h[m + (i - 1)] = f[m] \o g[i - 1]
    BY <2>2, <2>6
  <2>8. h[m + i] = h[m + (i - 1)] \o r[m + i] /\ g[i] = g[i - 1] \o t[i] /\ r[m + i] = t[i]
    BY <1>1, <1>6, <1>7, <2>6
  <2>9. g[i - 1] \in Seq(T) /\ t[i] \in Seq(T)
    <3>1. i - 1 \in 0..n /\ i \in 1..Len(t)
      BY <2>6 DEF n
    <3> QED
      BY <1>6, <3>1, ElementOfSeq
  <2>10. (f[m] \o g[i - 1]) \o t[i] = f[m] \o (g[i - 1] \o t[i])
    <3> DEFINE x == f[m]
               y == g[i - 1]
               z == t[i]
    <3>1. x \in Seq(T) /\ y \in Seq(T) /\ z \in Seq(T)
      BY <2>4, <2>9
    <3> HIDE DEF x, y, z
    <3>2. (x \o y) \o z = x \o (y \o z)
      BY <3>1, SMTT(30)
    <3> QED
      BY <3>2 DEF x, y, z
  <2> QED
    BY <2>3, <2>7, <2>8, <2>10
<1> QED
  BY <1>5, <1>6, <1>7, <1>9 DEF r

LEMMA FlattenOnes ==
  ASSUME NEW T, NEW s \in Seq(T)
  PROVE  FlattenSeq([k \in DOMAIN s |-> <<s[k]>>]) = s
<1> DEFINE n == Len(s)
           r == [k \in DOMAIN s |-> <<s[k]>>]
           Same(x, i) == x \in Seq(T) /\ Len(x) = i /\ \A k \in 1..i : x[k] = s[k]
<1>1. n \in Nat /\ r \in Seq(Seq(T)) /\ Len(r) = n /\ \A i \in 1..n : s[i] \in T /\ r[i] = <<s[i]>>
  <2>1. \A i \in 1..n : s[i] \in T /\ <<s[i]>> \in Seq(T)
    OBVIOUS
  <2>2. n \in Nat /\ DOMAIN s = 1..n
    OBVIOUS
  <2>3. DOMAIN r = 1..n /\ \A i \in 1..n : r[i] = <<s[i]>>
    BY <2>2
  <2>4. r \in [1..n -> Seq(T)]
    BY <2>1, <2>2
  <2> QED
    BY <2>1, <2>2, <2>3, <2>4
<1> HIDE DEF r
<1>2. PICK f : Concatenates(T, r, f)
  BY <1>1, FlattenIs
<1>3. /\ f[0] = <<>> /\ FlattenSeq(r) = f[n]
      /\ \A i \in 0..n - 1 : f[i + 1] = f[i] \o r[i + 1]
  BY <1>1, <1>2 DEF Concatenates
<1>4. Same(f[n], n)
  <2> DEFINE fails == {i \in 0..n : ~Same(f[i], i)}
  <2>0. fails = {} => Same(f[n], n)
    <3> HIDE DEF Same
    <3>1. n \in 0..n
      BY <1>1
    <3> QED
      BY <3>1
  <2> SUFFICES ASSUME fails # {} PROVE FALSE
    BY <2>0
  <2>1. fails \in SUBSET Nat
    OBVIOUS
  <2>2. PICK i \in fails : \A k \in fails : i <= k
    <3> HIDE DEF fails
    <3> QED
      BY <2>1, LeastNumber
  <2>3. i \in 0..n /\ ~Same(f[i], i)
    <3> HIDE DEF Same
    <3> QED
      OBVIOUS
  <2>4. i # 0
    <3>1. Same(<<>>, 0)
      OBVIOUS
    <3> QED
      BY <1>3, <2>3, <3>1
  <2>5. i - 1 \in 0..n - 1 /\ i - 1 \in 0..n /\ (i - 1) + 1 = i /\ i \in 1..n /\ ~(i <= i - 1)
    BY <1>1, <2>3, <2>4
  <2>6. Same(f[i - 1], i - 1)
    <3> HIDE DEF Same
    <3> QED
      BY <2>2, <2>5
  <2>7. f[i] = f[i - 1] \o <<s[i]>> /\ s[i] \in T
    BY <1>1, <1>3, <2>5
  <2> HIDE DEF n
  <2>8. \A x : Same(x, i - 1) => Same(x \o <<s[i]>>, i)
    BY <2>5, <2>7
  <2> HIDE DEF fails, Same
  <2>9. Same(f[i - 1] \o <<s[i]>>, i)
    BY <2>6, <2>8
  <2> QED
    BY <2>3, <2>7, <2>9
<1>5. f[n] = s
  <2> DEFINE x == f[n]
  <2>1. x \in Seq(T) /\ Len(x) = Len(s) /\ \A k \in 1..Len(s) : x[k] = s[k]
    BY <1>4
  <2> HIDE DEF x
  <2>2. x = s
    BY <2>1, SeqEqual
  <2> QED
    BY <2>2 DEF x
<1> QED
  BY <1>3, <1>5 DEF r

LEMMA FlattenOne ==
  ASSUME NEW T, NEW x \in Seq(T)
  PROVE  FlattenSeq(<<x>>) = x
<1>1. <<x>> \in Seq(Seq(T)) /\ Len(<<x>>) = 1 /\ <<x>>[1] = x
  OBVIOUS
<1>2. PICK f : Concatenates(T, <<x>>, f)
  BY <1>1, FlattenIs
<1>3. f[0] = <<>> /\ f[0 + 1] = f[0] \o x /\ FlattenSeq(<<x>>) = f[1]
  BY <1>1, <1>2 DEF Concatenates
<1>4. <<>> \o x = x
  OBVIOUS
<1> QED
  BY <1>3, <1>4

=============================================================================
