--------------------------- MODULE PipelineProofs ---------------------------
(***************************************************************************)
(* Proofs about OverloadCollapse and Pipeline.  The six sorts bring        *)
(* together the methods that are one C++ function, whatever the class, so  *)
(* that the collapsing of neighbours loses no method and declares no       *)
(* function twice (Collapsing).  What javap prints is cut into pieces of   *)
(* one class each, whatever its constants, and each piece is wrapped from  *)
(* its own lines (Reading, Writing); as long as the classes up to it are   *)
(* whole, the piece of a class is all of its members.                      *)
(*                                                                         *)
(* Induction is over a least counterexample (LeastNumber); sequences are   *)
(* described by functions that give the place of each element.             *)
(***************************************************************************)
EXTENDS Pipeline, ListProofs

-----------------------------------------------------------------------------
(* The orders of types and of lists of them *)

(* The three orders of types. *)
Strings == {p \in JavaType \X JavaType : StringLess(p[1], p[2])}
Ranks == {p \in JavaType \X JavaType : RankLess(p[1], p[2])}
Generics == {p \in JavaType \X JavaType : GenericLess(p[1], p[2])}

LEMMA PairsOf ==
  ASSUME NEW x \in JavaType, NEW y \in JavaType
  PROVE  /\ <<x, y>> \in Strings <=> StringLess(x, y)
         /\ <<x, y>> \in Ranks <=> RankLess(x, y)
         /\ <<x, y>> \in Generics <=> GenericLess(x, y)
  BY Zenon DEF Strings, Ranks, Generics

LEMMA TypesOrdered ==
  Weak(Strings, JavaType) /\ Weak(Ranks, JavaType) /\ Weak(Generics, JavaType)
<1> USE DEF JavaType
<1>2. ASSUME NEW x \in JavaType, NEW y \in JavaType
      PROVE  /\ StringLess(x, y) => ~StringLess(y, x)
             /\ \A z \in JavaType : StringLess(x, z) => StringLess(x, y) \/ StringLess(y, z)
  BY DEF StringLess
<1>3. Weak(Strings, JavaType)
  BY PairsOf, <1>2 DEF Weak
<1>4. Weak(Ranks, JavaType)
  BY PairsOf DEF Weak, RankLess
<1>5. Weak(Generics, JavaType)
  BY PairsOf, <1>2 DEF Weak, GenericLess
<1> QED
  BY <1>3, <1>4, <1>5

LEMMA ListsOrdered ==
  ASSUME NEW a \in Seq(JavaType), NEW b \in Seq(JavaType)
  PROVE  /\ Lexicographic(StringLess, a, b) <=> LexBelow(Strings, a, b)
         /\ Lexicographic(RankLess, a, b) <=> LexBelow(Ranks, a, b)
         /\ Lexicographic(GenericLess, a, b) <=> LexBelow(Generics, a, b)
<1> DEFINE common == 1..Min({Len(a), Len(b)})
<1>1. \A i \in common : i \in 1..Len(a) /\ i \in 1..Len(b)
  BY MinOfTwo
<1>2. \A i \in common : 1..i - 1 \subseteq common
  BY MinOfTwo, SMTT(40)
<1> HIDE DEF common
<1>3. \A i \in common : a[i] \in JavaType /\ b[i] \in JavaType
  BY <1>1
<1>4. \A i \in common :
        /\ <<a[i], b[i]>> \in Strings <=> StringLess(a[i], b[i])
        /\ <<b[i], a[i]>> \in Strings <=> StringLess(b[i], a[i])
        /\ <<a[i], b[i]>> \in Ranks <=> RankLess(a[i], b[i])
        /\ <<b[i], a[i]>> \in Ranks <=> RankLess(b[i], a[i])
        /\ <<a[i], b[i]>> \in Generics <=> GenericLess(a[i], b[i])
        /\ <<b[i], a[i]>> \in Generics <=> GenericLess(b[i], a[i])
  BY <1>3, PairsOf
<1>5. LexCommon(Strings, a, b) <=> Lexicographic(StringLess, a, b)
  BY <1>2, <1>4 DEF LexCommon, Lexicographic, common
<1>6. LexCommon(Ranks, a, b) <=> Lexicographic(RankLess, a, b)
  BY <1>2, <1>4 DEF LexCommon, Lexicographic, common
<1>7. LexCommon(Generics, a, b) <=> Lexicographic(GenericLess, a, b)
  BY <1>2, <1>4 DEF LexCommon, Lexicographic, common
<1> QED
  BY <1>5, <1>6, <1>7, LexSame, TypesOrdered

-----------------------------------------------------------------------------
(* The six sorts *)

(* The orders of methods that they sort by. *)
ByArity == {p \in JavaMethod \X JavaMethod : ArityLess(p[1], p[2])}
ByReturned == {p \in JavaMethod \X JavaMethod : ReturnedLess(p[1], p[2])}
ByArgs == {p \in JavaMethod \X JavaMethod : ArgsLess(p[1], p[2])}
ByGenericity == {p \in JavaMethod \X JavaMethod : GenericityLess(p[1], p[2])}
ByRanks == {p \in JavaMethod \X JavaMethod : RanksLess(p[1], p[2])}
ByName == {p \in JavaMethod \X JavaMethod : NameLess(p[1], p[2])}

LEMMA MethodPairs ==
  ASSUME NEW m \in JavaMethod, NEW n \in JavaMethod
  PROVE  /\ <<m, n>> \in ByArity <=> ArityLess(m, n)
         /\ <<m, n>> \in ByReturned <=> ReturnedLess(m, n)
         /\ <<m, n>> \in ByArgs <=> LexBelow(Strings, m.args, n.args)
         /\ <<m, n>> \in ByGenericity <=> LexBelow(Generics, m.args, n.args)
         /\ <<m, n>> \in ByRanks <=> LexBelow(Ranks, m.args, n.args)
         /\ <<m, n>> \in ByName <=> NameLess(m, n)
<1>1. m.args \in Seq(JavaType) /\ n.args \in Seq(JavaType)
  BY DEF JavaMethod
<1>2. /\ ArgsLess(m, n) <=> LexBelow(Strings, m.args, n.args)
      /\ RanksLess(m, n) <=> LexBelow(Ranks, m.args, n.args)
      /\ GenericityLess(m, n) <=> LexBelow(Generics, m.args, n.args)
  BY <1>1, ListsOrdered, Zenon DEF ArgsLess, RanksLess, GenericityLess
<1>3. /\ <<m, n>> \in ByArity <=> ArityLess(m, n)
      /\ <<m, n>> \in ByReturned <=> ReturnedLess(m, n)
      /\ <<m, n>> \in ByArgs <=> ArgsLess(m, n)
      /\ <<m, n>> \in ByGenericity <=> GenericityLess(m, n)
      /\ <<m, n>> \in ByRanks <=> RanksLess(m, n)
      /\ <<m, n>> \in ByName <=> NameLess(m, n)
  BY Zenon DEF ByArity, ByReturned, ByArgs, ByGenericity, ByRanks, ByName
<1> QED
  BY <1>2, <1>3

LEMMA MethodsOrdered ==
  /\ Weak(ByArity, JavaMethod) /\ Weak(ByReturned, JavaMethod)
  /\ Weak(ByArgs, JavaMethod) /\ Weak(ByGenericity, JavaMethod)
  /\ Weak(ByRanks, JavaMethod) /\ Weak(ByName, JavaMethod)
<1>1. \A m \in JavaMethod : /\ m.args \in Seq(JavaType)
                            /\ Len(m.args) \in Nat /\ m.name \in Nat
  BY DEF JavaMethod
<1>2. Weak(ByArity, JavaMethod)
  BY <1>1, MethodPairs DEF Weak, ArityLess
<1>3. Weak(ByName, JavaMethod)
  BY <1>1, MethodPairs DEF Weak, NameLess
<1>4. Weak(ByReturned, JavaMethod)
  BY MethodPairs DEF Weak, ReturnedLess
<1>5. Weak(ByArgs, JavaMethod)
  <2>1. ASSUME NEW m \in JavaMethod, NEW n \in JavaMethod, LexBelow(Strings, m.args, n.args)
        PROVE  /\ ~LexBelow(Strings, n.args, m.args)
               /\ \A o \in JavaMethod : \/ LexBelow(Strings, m.args, o.args)
                                        \/ LexBelow(Strings, o.args, n.args)
    BY <1>1, <2>1, TypesOrdered, LexAsymmetric, LexNegative
  <2> QED
    BY <2>1, MethodPairs DEF Weak
<1>6. Weak(ByGenericity, JavaMethod)
  <2>1. ASSUME NEW m \in JavaMethod, NEW n \in JavaMethod, LexBelow(Generics, m.args, n.args)
        PROVE  /\ ~LexBelow(Generics, n.args, m.args)
               /\ \A o \in JavaMethod : \/ LexBelow(Generics, m.args, o.args)
                                        \/ LexBelow(Generics, o.args, n.args)
    BY <1>1, <2>1, TypesOrdered, LexAsymmetric, LexNegative
  <2> QED
    BY <2>1, MethodPairs DEF Weak
<1>7. Weak(ByRanks, JavaMethod)
  <2>1. ASSUME NEW m \in JavaMethod, NEW n \in JavaMethod, LexBelow(Ranks, m.args, n.args)
        PROVE  /\ ~LexBelow(Ranks, n.args, m.args)
               /\ \A o \in JavaMethod : \/ LexBelow(Ranks, m.args, o.args)
                                        \/ LexBelow(Ranks, o.args, n.args)
    BY <1>1, <2>1, TypesOrdered, LexAsymmetric, LexNegative
  <2> QED
    BY <2>1, MethodPairs DEF Weak
<1> QED
  BY <1>2, <1>3, <1>4, <1>5, <1>6, <1>7

LEMMA SeqMembers ==
  ASSUME NEW s \in Seq(JavaMethod), NEW i \in DOMAIN s
  PROVE  s[i] \in JavaMethod
  OBVIOUS

LEMMA ArityOrdered ==
  ASSUME NEW s \in Seq(JavaMethod)
  PROVE  SortedAs(JavaMethod, s, StableSort(ArityLess, s), ByArity)
<1> DEFINE before == [i \in DOMAIN s |->
                       {j \in DOMAIN s : \/ ArityLess(s[j], s[i])
                                         \/ j < i /\ ~ArityLess(s[i], s[j])}]
           p == [k \in DOMAIN s |-> CHOOSE i \in DOMAIN s : Cardinality(before[i]) = k - 1]
<1>1. StableSort(ArityLess, s) = [k \in DOMAIN s |-> s[p[k]]]
  BY DEF StableSort
<1>2. ASSUME NEW i \in DOMAIN s, NEW j \in DOMAIN s
      PROVE  <<s[j], s[i]>> \in ByArity <=> ArityLess(s[j], s[i])
  BY Zenon, SeqMembers DEF ByArity
<1>3. before = SortsBefore(s, ByArity)
  BY <1>2 DEF SortsBefore
<1> HIDE DEF before
<1>4. Counted(Len(s), before, p)
  BY DEF Counted, CountedIn
<1> HIDE DEF p
<1> QED
  BY <1>1, <1>3, <1>4, SortedBy, MethodsOrdered

LEMMA ReturnedOrdered ==
  ASSUME NEW s \in Seq(JavaMethod)
  PROVE  SortedAs(JavaMethod, s, StableSort(ReturnedLess, s), ByReturned)
<1> DEFINE before == [i \in DOMAIN s |->
                       {j \in DOMAIN s : \/ ReturnedLess(s[j], s[i])
                                         \/ j < i /\ ~ReturnedLess(s[i], s[j])}]
           p == [k \in DOMAIN s |-> CHOOSE i \in DOMAIN s : Cardinality(before[i]) = k - 1]
<1>1. StableSort(ReturnedLess, s) = [k \in DOMAIN s |-> s[p[k]]]
  BY DEF StableSort
<1>2. ASSUME NEW i \in DOMAIN s, NEW j \in DOMAIN s
      PROVE  <<s[j], s[i]>> \in ByReturned <=> ReturnedLess(s[j], s[i])
  BY Zenon, SeqMembers DEF ByReturned
<1>3. before = SortsBefore(s, ByReturned)
  BY <1>2 DEF SortsBefore
<1> HIDE DEF before
<1>4. Counted(Len(s), before, p)
  BY DEF Counted, CountedIn
<1> HIDE DEF p
<1> QED
  BY <1>1, <1>3, <1>4, SortedBy, MethodsOrdered

LEMMA ArgsOrdered ==
  ASSUME NEW s \in Seq(JavaMethod)
  PROVE  SortedAs(JavaMethod, s, StableSort(ArgsLess, s), ByArgs)
<1> DEFINE before == [i \in DOMAIN s |->
                       {j \in DOMAIN s : \/ ArgsLess(s[j], s[i])
                                         \/ j < i /\ ~ArgsLess(s[i], s[j])}]
           p == [k \in DOMAIN s |-> CHOOSE i \in DOMAIN s : Cardinality(before[i]) = k - 1]
<1>1. StableSort(ArgsLess, s) = [k \in DOMAIN s |-> s[p[k]]]
  BY DEF StableSort
<1>2. ASSUME NEW i \in DOMAIN s, NEW j \in DOMAIN s
      PROVE  <<s[j], s[i]>> \in ByArgs <=> ArgsLess(s[j], s[i])
  BY Zenon, SeqMembers DEF ByArgs
<1>3. before = SortsBefore(s, ByArgs)
  BY <1>2 DEF SortsBefore
<1> HIDE DEF before
<1>4. Counted(Len(s), before, p)
  BY DEF Counted, CountedIn
<1> HIDE DEF p
<1> QED
  BY <1>1, <1>3, <1>4, SortedBy, MethodsOrdered

LEMMA GenericityOrdered ==
  ASSUME NEW s \in Seq(JavaMethod)
  PROVE  SortedAs(JavaMethod, s, StableSort(GenericityLess, s), ByGenericity)
<1> DEFINE before == [i \in DOMAIN s |->
                       {j \in DOMAIN s : \/ GenericityLess(s[j], s[i])
                                         \/ j < i /\ ~GenericityLess(s[i], s[j])}]
           p == [k \in DOMAIN s |-> CHOOSE i \in DOMAIN s : Cardinality(before[i]) = k - 1]
<1>1. StableSort(GenericityLess, s) = [k \in DOMAIN s |-> s[p[k]]]
  BY DEF StableSort
<1>2. ASSUME NEW i \in DOMAIN s, NEW j \in DOMAIN s
      PROVE  <<s[j], s[i]>> \in ByGenericity <=> GenericityLess(s[j], s[i])
  BY Zenon, SeqMembers DEF ByGenericity
<1>3. before = SortsBefore(s, ByGenericity)
  BY <1>2 DEF SortsBefore
<1> HIDE DEF before
<1>4. Counted(Len(s), before, p)
  BY DEF Counted, CountedIn
<1> HIDE DEF p
<1> QED
  BY <1>1, <1>3, <1>4, SortedBy, MethodsOrdered

LEMMA RanksOrdered ==
  ASSUME NEW s \in Seq(JavaMethod)
  PROVE  SortedAs(JavaMethod, s, StableSort(RanksLess, s), ByRanks)
<1> DEFINE before == [i \in DOMAIN s |->
                       {j \in DOMAIN s : \/ RanksLess(s[j], s[i])
                                         \/ j < i /\ ~RanksLess(s[i], s[j])}]
           p == [k \in DOMAIN s |-> CHOOSE i \in DOMAIN s : Cardinality(before[i]) = k - 1]
<1>1. StableSort(RanksLess, s) = [k \in DOMAIN s |-> s[p[k]]]
  BY DEF StableSort
<1>2. ASSUME NEW i \in DOMAIN s, NEW j \in DOMAIN s
      PROVE  <<s[j], s[i]>> \in ByRanks <=> RanksLess(s[j], s[i])
  BY Zenon, SeqMembers DEF ByRanks
<1>3. before = SortsBefore(s, ByRanks)
  BY <1>2 DEF SortsBefore
<1> HIDE DEF before
<1>4. Counted(Len(s), before, p)
  BY DEF Counted, CountedIn
<1> HIDE DEF p
<1> QED
  BY <1>1, <1>3, <1>4, SortedBy, MethodsOrdered

LEMMA NameOrdered ==
  ASSUME NEW s \in Seq(JavaMethod)
  PROVE  SortedAs(JavaMethod, s, StableSort(NameLess, s), ByName)
<1> DEFINE before == [i \in DOMAIN s |->
                       {j \in DOMAIN s : \/ NameLess(s[j], s[i])
                                         \/ j < i /\ ~NameLess(s[i], s[j])}]
           p == [k \in DOMAIN s |-> CHOOSE i \in DOMAIN s : Cardinality(before[i]) = k - 1]
<1>1. StableSort(NameLess, s) = [k \in DOMAIN s |-> s[p[k]]]
  BY DEF StableSort
<1>2. ASSUME NEW i \in DOMAIN s, NEW j \in DOMAIN s
      PROVE  <<s[j], s[i]>> \in ByName <=> NameLess(s[j], s[i])
  BY Zenon, SeqMembers DEF ByName
<1>3. before = SortsBefore(s, ByName)
  BY <1>2 DEF SortsBefore
<1> HIDE DEF before
<1>4. Counted(Len(s), before, p)
  BY DEF Counted, CountedIn
<1> HIDE DEF p
<1> QED
  BY <1>1, <1>3, <1>4, SortedBy, MethodsOrdered

-----------------------------------------------------------------------------
(* What the sorts bring together *)

(* Sorted by R, and among those that are alike by Q. *)
Then(R, Q) ==
  {p \in JavaMethod \X JavaMethod : p \in R \/ (<<p[2], p[1]>> \notin R /\ p \in Q)}

Ordered(t, Q) == \A k, l \in 1..Len(t) : k < l => <<t[k], t[l]>> \in Q

(* A stable sort keeps an order that there was. *)
LEMMA SortKeeps ==
  ASSUME NEW s \in Seq(JavaMethod), NEW t, NEW R, SortedAs(JavaMethod, s, t, R),
         NEW Q, Ordered(s, Q)
  PROVE  Ordered(t, Then(R, Q))
<1>1. PICK p \in [1..Len(s) -> 1..Len(s)] :
        /\ \A k \in 1..Len(s) : t[k] = s[p[k]]
        /\ \A k, l \in 1..Len(s) : k < l =>
             \/ <<t[k], t[l]>> \in R
             \/ <<t[l], t[k]>> \notin R /\ p[k] < p[l]
  BY Zenon DEF SortedAs
<1>2. ASSUME NEW k \in 1..Len(s), NEW l \in 1..Len(s), k < l
      PROVE  <<t[k], t[l]>> \in Then(R, Q)
  <2>1. p[k] \in 1..Len(s) /\ p[l] \in 1..Len(s) /\ t[k] = s[p[k]] /\ t[l] = s[p[l]]
    BY <1>1
  <2>2. t[k] \in JavaMethod /\ t[l] \in JavaMethod
    BY <2>1
  <2>3. p[k] < p[l] => <<t[k], t[l]>> \in Q
    BY <2>1 DEF Ordered
  <2>4. <<t[k], t[l]>> \in R \/ (<<t[l], t[k]>> \notin R /\ <<t[k], t[l]>> \in Q)
    BY <1>1, <1>2, <2>3
  <2> QED
    BY <2>2, <2>4 DEF Then
<1> QED
  BY <1>2 DEF Ordered, SortedAs

(* ... and the methods that there are. *)
LEMMA SortRearranges ==
  ASSUME NEW s \in Seq(JavaMethod), NEW t, NEW R, SortedAs(JavaMethod, s, t, R)
  PROVE  t \in Seq(JavaMethod) /\ Len(t) = Len(s) /\ ToSet(t) = ToSet(s)
<1>1. PICK p \in [1..Len(s) -> 1..Len(s)] :
        /\ \A i \in 1..Len(s) : \E k \in 1..Len(s) : p[k] = i
        /\ \A k \in 1..Len(s) : t[k] = s[p[k]]
  BY Zenon DEF SortedAs
<1>2. t \in Seq(JavaMethod) /\ Len(t) = Len(s)
  BY DEF SortedAs
<1>3. DOMAIN t = 1..Len(s) /\ DOMAIN s = 1..Len(s)
  BY <1>2
<1>4. ASSUME NEW i \in 1..Len(s) PROVE \E k \in 1..Len(s) : t[k] = s[i]
  <2>1. PICK k \in 1..Len(s) : p[k] = i
    BY <1>1
  <2> QED
    BY <1>1, <2>1
<1>5. \A k \in 1..Len(s) : p[k] \in 1..Len(s) /\ t[k] = s[p[k]]
  BY <1>1
<1>6. ToSet(t) = {t[k] : k \in 1..Len(s)} /\ ToSet(s) = {s[k] : k \in 1..Len(s)}
  BY <1>3, Zenon DEF ToSet
<1>7. \A k \in 1..Len(s) : \E i \in 1..Len(s) : t[k] = s[i]
  BY <1>5
<1>8. {t[k] : k \in 1..Len(s)} \subseteq {s[k] : k \in 1..Len(s)}
  BY <1>7, Zenon
<1>9. ASSUME NEW i \in 1..Len(s) PROVE s[i] \in {t[k] : k \in 1..Len(s)}
  BY <1>4, Zenon
<1>10. {s[k] : k \in 1..Len(s)} \subseteq {t[k] : k \in 1..Len(s)}
  BY <1>9, Zenon
<1>11. {t[k] : k \in 1..Len(s)} = {s[k] : k \in 1..Len(s)}
  BY <1>8, <1>10, Zenon
<1> QED
  BY <1>2, <1>6, <1>11

(* Between two that are alike by R are only such as are alike, too. *)
LEMMA MiddleAlike ==
  ASSUME NEW R, Weak(R, JavaMethod), NEW Q,
         NEW a \in JavaMethod, NEW b \in JavaMethod, NEW c \in JavaMethod,
         <<a, b>> \in Then(R, Q), <<b, c>> \in Then(R, Q),
         <<a, c>> \notin R, <<c, a>> \notin R
  PROVE  /\ <<a, b>> \notin R /\ <<b, a>> \notin R
         /\ <<a, b>> \in Q /\ <<b, c>> \in Q
<1>1. <<a, b>> \in R \/ (<<b, a>> \notin R /\ <<a, b>> \in Q)
  BY Zenon DEF Then
<1>2. <<b, c>> \in R \/ (<<c, b>> \notin R /\ <<b, c>> \in Q)
  BY Zenon DEF Then
<1> QED
  BY <1>1, <1>2 DEF Weak

(* The methods that are one function: neighbours in the end. *)
Same(m, n) == ~Differ(m, n) /\ SameShape(m.args, n.args)

Anything == JavaMethod \X JavaMethod
InOrderOfGenericity == Then(ByGenericity, Anything)
InOrderOfRanks == Then(ByRanks, InOrderOfGenericity)
InOrderOfNames == Then(ByName, InOrderOfRanks)

(* They are those that the last three sorts find alike. *)
LEMMA SameIsAlike ==
  ASSUME NEW m \in JavaMethod, NEW n \in JavaMethod
  PROVE  Same(m, n) <=>
           /\ <<m, n>> \notin ByName /\ <<n, m>> \notin ByName
           /\ <<m, n>> \notin ByRanks /\ <<n, m>> \notin ByRanks
           /\ <<m, n>> \notin ByGenericity /\ <<n, m>> \notin ByGenericity
<1> DEFINE a == m.args
           b == n.args
<1>1. a \in Seq(JavaType) /\ b \in Seq(JavaType) /\ m.name \in Nat /\ n.name \in Nat
  BY DEF JavaMethod
<1>2. <<m, n>> \notin ByName /\ <<n, m>> \notin ByName <=> m.name = n.name
  BY <1>1, MethodPairs DEF NameLess
<1> HIDE DEF a, b
<1>3. ~LexBelow(Ranks, a, b) /\ ~LexBelow(Ranks, b, a) <=>
        /\ Len(a) = Len(b)
        /\ \A k \in 1..Len(a) : a[k].rank = b[k].rank
  <2>1. ASSUME Len(a) = Len(b), NEW k \in 1..Len(a)
        PROVE  <<a[k], b[k]>> \notin Ranks /\ <<b[k], a[k]>> \notin Ranks
                 <=> a[k].rank = b[k].rank
    <3>1. a[k] \in JavaType /\ b[k] \in JavaType
      BY <1>1, <2>1
    <3>2. a[k].rank \in Nat /\ b[k].rank \in Nat
      BY <3>1 DEF JavaType
    <3> QED
      BY <3>1, <3>2, PairsOf DEF RankLess
  <2> QED
    BY <1>1, <2>1, LexAlike, TypesOrdered, ZenonT(60)
<1>4. ~LexBelow(Generics, a, b) /\ ~LexBelow(Generics, b, a) <=>
        /\ Len(a) = Len(b)
        /\ \A k \in 1..Len(a) : (~IsNative(a[k]) /\ ~IsNative(b[k])) \/ a[k] = b[k]
  <2>1. ASSUME Len(a) = Len(b), NEW k \in 1..Len(a)
        PROVE  <<a[k], b[k]>> \notin Generics /\ <<b[k], a[k]>> \notin Generics
                 <=> ((~IsNative(a[k]) /\ ~IsNative(b[k])) \/ a[k] = b[k])
    <3>1. a[k] \in JavaType /\ b[k] \in JavaType
      BY <1>1, <2>1
    <3>2. ~StringLess(a[k], b[k]) /\ ~StringLess(b[k], a[k]) <=> a[k] = b[k]
      BY <3>1 DEF JavaType, StringLess
    <3> QED
      BY <3>1, <3>2, PairsOf DEF GenericLess
  <2> QED
    BY <1>1, <2>1, LexAlike, TypesOrdered, ZenonT(60)
<1>5. Same(m, n) <=>
        /\ m.name = n.name /\ Len(a) = Len(b)
        /\ \A k \in 1..Len(a) : /\ a[k].rank = b[k].rank
                                /\ (~IsNative(a[k]) /\ ~IsNative(b[k])) \/ a[k] = b[k]
  BY <1>1 DEF Same, Differ, SameShape, a, b
<1>6. /\ <<m, n>> \in ByRanks <=> LexBelow(Ranks, a, b)
      /\ <<n, m>> \in ByRanks <=> LexBelow(Ranks, b, a)
      /\ <<m, n>> \in ByGenericity <=> LexBelow(Generics, a, b)
      /\ <<n, m>> \in ByGenericity <=> LexBelow(Generics, b, a)
  BY MethodPairs DEF a, b
<1> QED
  BY <1>2, <1>3, <1>4, <1>5, <1>6

LEMMA SameAgain ==
  ASSUME NEW m \in JavaMethod, NEW n \in JavaMethod, NEW o \in JavaMethod
  PROVE  /\ Same(m, m)
         /\ Same(m, n) => Same(n, m)
         /\ Same(m, n) /\ Same(n, o) => Same(m, o)
<1>1. m.args \in Seq(JavaType) /\ n.args \in Seq(JavaType) /\ o.args \in Seq(JavaType)
  BY DEF JavaMethod
<1> QED
  BY <1>1 DEF Same, Differ, SameShape

(* No other method is between two that are one function. *)
LEMMA Together ==
  ASSUME NEW t \in Seq(JavaMethod), Ordered(t, InOrderOfNames),
         NEW k \in 1..Len(t), NEW l \in 1..Len(t), NEW j \in 1..Len(t),
         k < l, l <= j, Same(t[k], t[j])
  PROVE  Same(t[k], t[l])
<1> DEFINE a == t[k]
           b == t[l]
           c == t[j]
<1>1. a \in JavaMethod /\ b \in JavaMethod /\ c \in JavaMethod
  OBVIOUS
<1>2. CASE l = j
  BY <1>2
<1>3. CASE l < j
  <2>1. <<a, b>> \in InOrderOfNames /\ <<b, c>> \in InOrderOfNames
    BY <1>3 DEF Ordered
  <2>2. Same(a, c)
    OBVIOUS
  <2> HIDE DEF a, b, c
  <2>3. /\ <<a, c>> \notin ByName /\ <<c, a>> \notin ByName
        /\ <<a, c>> \notin ByRanks /\ <<c, a>> \notin ByRanks
        /\ <<a, c>> \notin ByGenericity /\ <<c, a>> \notin ByGenericity
    BY <1>1, <2>2, SameIsAlike
  <2>4. Weak(ByName, JavaMethod) /\ Weak(ByRanks, JavaMethod) /\ Weak(ByGenericity, JavaMethod)
    BY MethodsOrdered
  <2>5. /\ <<a, b>> \notin ByName /\ <<b, a>> \notin ByName
        /\ <<a, b>> \in InOrderOfRanks /\ <<b, c>> \in InOrderOfRanks
    BY <1>1, <2>1, <2>3, <2>4, MiddleAlike DEF InOrderOfNames
  <2>6. /\ <<a, b>> \notin ByRanks /\ <<b, a>> \notin ByRanks
        /\ <<a, b>> \in InOrderOfGenericity /\ <<b, c>> \in InOrderOfGenericity
    BY <1>1, <2>5, <2>3, <2>4, MiddleAlike DEF InOrderOfRanks
  <2>7. <<a, b>> \notin ByGenericity /\ <<b, a>> \notin ByGenericity
    BY <1>1, <2>6, <2>3, <2>4, MiddleAlike DEF InOrderOfGenericity
  <2>8. Same(a, b)
    BY <1>1, <2>5, <2>6, <2>7, SameIsAlike
  <2> QED
    BY <2>8 DEF a, b
<1> QED
  BY <1>2, <1>3

-----------------------------------------------------------------------------
(* Collapsing *)

(* A type of an overload, and an overload. *)
OrTypes == {s \in [alt : Seq(Nat), rank : Nat] : Len(s.alt) > 0}
Overload == [name : Nat, args : Seq(OrTypes), ret : JavaType]

(* Types s and t make the same C++ parameter. *)
Fits(s, t) ==
  /\ s.rank = t.rank
  /\ \/ ~IsNative(s) /\ ~IsNative(t)
     \/ s = t

(* Type s of an overload takes the type t of a method. *)
StandsFor(s, t) ==
  /\ s.rank = t.rank
  /\ \E i \in 1..Len(s.alt) : s.alt[i] = t.alt[1]
  /\ IsNative(s) \/ IsNative(t) => s = t

LEMMA OneName ==
  ASSUME NEW a \in [1..1 -> Nat]
  PROVE  a \in Seq(Nat) /\ Len(a) = 1
<1>1. DOMAIN a = 1..1 /\ 1 \in Nat
  OBVIOUS
<1>2. a \in Seq(Nat)
  BY <1>1, SeqDef, Zenon
<1> DEFINE n == Len(a)
<1>3. DOMAIN a = 1..n /\ n \in Nat
  BY <1>2, LenProperties, Zenon
<1> HIDE DEF n
<1>4. \A i : i \in 1..n <=> i \in 1..1
  BY <1>1, <1>3
<1>5. 1 \in 1..n
  BY <1>4
<1>6. n \in 1..n
  BY <1>3, <1>5
<1>7. n = 1
  BY <1>4, <1>6
<1> QED
  BY <1>2, <1>7 DEF n

LEMMA TypeIsOrType ==
  ASSUME NEW t \in JavaType
  PROVE  t \in OrTypes /\ Len(t.alt) = 1 /\ StandsFor(t, t)
<1>1. t.alt \in [1..1 -> Nat] /\ t.rank \in Nat /\ t = [alt |-> t.alt, rank |-> t.rank]
  BY DEF JavaType
<1>2. t.alt \in Seq(Nat) /\ Len(t.alt) = 1
  BY <1>1, OneName
<1> QED
  BY <1>1, <1>2 DEF OrTypes, StandsFor

LEMMA AddName ==
  ASSUME NEW a \in Seq(Nat), NEW b \in Seq(Nat), Len(b) = 1
  PROVE  /\ a \o b \in Seq(Nat) /\ Len(a \o b) = Len(a) + 1
         /\ \A i \in 1..Len(a) : (a \o b)[i] = a[i]
         /\ (a \o b)[Len(a) + 1] = b[1]
<1> DEFINE n == Len(a)
           c == a \o b
<1>1. n \in Nat
  OBVIOUS
<1>2. /\ c \in Seq(Nat) /\ Len(c) = n + Len(b)
      /\ \A i \in 1..n + Len(b) : c[i] = IF i <= n THEN a[i] ELSE b[i - n]
  BY ConcatProperties, Zenon
<1> HIDE DEF n, c
<1>3. c[n + 1] = b[1] /\ \A i \in 1..n : c[i] = a[i]
  BY <1>1, <1>2
<1>4. Len(c) = n + 1
  BY <1>2
<1> QED
  BY <1>2, <1>3, <1>4 DEF n, c

LEMMA OrTypeStands ==
  ASSUME NEW s \in OrTypes, NEW u \in JavaType, Fits(s, u)
  PROVE  /\ OrType(s, u) \in OrTypes
         /\ StandsFor(OrType(s, u), u)
         /\ \A t \in JavaType : StandsFor(s, t) => StandsFor(OrType(s, u), t)
<1>1. CASE s = u
  BY <1>1, TypeIsOrType DEF OrType
<1>2. CASE s # u
  <2> DEFINE or == [alt |-> s.alt \o u.alt, rank |-> s.rank]
  <2>1. OrType(s, u) = or
    BY <1>2 DEF OrType, OrTypes
  <2>2. /\ s.alt \in Seq(Nat) /\ Len(s.alt) > 0 /\ s.rank \in Nat
        /\ u.alt \in Seq(Nat) /\ Len(u.alt) = 1
    BY TypeIsOrType DEF OrTypes
  <2>3. /\ or.alt = s.alt \o u.alt /\ or.rank = s.rank
        /\ or = [alt |-> or.alt, rank |-> or.rank]
    OBVIOUS
  <2> HIDE DEF or
  <2>4. Len(s.alt) \in Nat
    BY <2>2
  <2>5. /\ s.alt \o u.alt \in Seq(Nat) /\ Len(s.alt \o u.alt) = Len(s.alt) + 1
        /\ \A i \in 1..Len(s.alt) : (s.alt \o u.alt)[i] = s.alt[i]
        /\ (s.alt \o u.alt)[Len(s.alt) + 1] = u.alt[1]
    BY <2>2, AddName, Zenon
  <2>6. /\ or.alt \in Seq(Nat) /\ Len(or.alt) = Len(s.alt) + 1
        /\ or.alt[Len(s.alt) + 1] = u.alt[1]
    BY <2>3, <2>5, Zenon
  <2>7. \A i \in 1..Len(s.alt) : or.alt[i] = s.alt[i]
    BY <2>3, <2>5, Zenon
  <2>8. or \in OrTypes
    <3>1. Len(or.alt) > 0 /\ or.rank \in Nat
      BY <2>2, <2>3, <2>4, <2>6
    <3>2. or \in [alt : Seq(Nat), rank : Nat]
      BY <2>3, <2>6, <3>1
    <3> QED
      BY <3>1, <3>2 DEF OrTypes
  <2>9. ~IsNative(or)
    BY <2>2, <2>6 DEF IsNative
  <2>10. ~IsNative(s) /\ ~IsNative(u) /\ s.rank = u.rank
    BY <1>2 DEF Fits
  <2>11. StandsFor(or, u)
    <3>1. Len(s.alt) + 1 \in 1..Len(or.alt)
      BY <2>6, <2>4
    <3> QED
      BY <2>3, <2>6, <2>9, <2>10, <3>1, Zenon DEF StandsFor
  <2>12. ASSUME NEW t \in JavaType, StandsFor(s, t) PROVE StandsFor(or, t)
    <3>1. PICK i \in 1..Len(s.alt) : s.alt[i] = t.alt[1]
      BY <2>12 DEF StandsFor
    <3>2. i \in 1..Len(or.alt) /\ or.alt[i] = t.alt[1]
      BY <2>4, <2>6, <2>7, <3>1
    <3>3. s.rank = t.rank /\ ~IsNative(t)
      BY <2>10, <2>12 DEF StandsFor
    <3> QED
      BY <2>3, <2>9, <3>2, <3>3 DEF StandsFor
  <2> QED
    BY <2>1, <2>8, <2>11, <2>12
<1> QED
  BY <1>1, <1>2

(* Types make one parameter if the types that they stand for do. *)
LEMMA StandFits ==
  ASSUME NEW s, NEW t, NEW v, NEW u, StandsFor(s, t), StandsFor(v, u)
  PROVE  Fits(s, v) <=> Fits(t, u)
  BY Zenon DEF StandsFor, Fits

(* Overload o stands for method m. *)
Stands(o, m) ==
  /\ o.name = m.name /\ Len(o.args) = Len(m.args)
  /\ \A k \in 1..Len(m.args) : StandsFor(o.args[k], m.args[k])

LEMMA MethodStands ==
  ASSUME NEW m \in JavaMethod
  PROVE  m \in Overload /\ Stands(m, m)
<1>1. m.args \in Seq(JavaType) /\ m.name \in Nat /\ m.ret \in JavaType
      /\ m = [name |-> m.name, args |-> m.args, ret |-> m.ret]
  BY DEF JavaMethod
<1>2. \A k \in 1..Len(m.args) : m.args[k] \in OrTypes /\ StandsFor(m.args[k], m.args[k])
  BY <1>1, TypeIsOrType
<1>3. m.args \in Seq(OrTypes)
  BY <1>1, <1>2
<1> QED
  BY <1>1, <1>2, <1>3 DEF Overload, Stands

LEMMA StandsShape ==
  ASSUME NEW o \in Overload, NEW m \in JavaMethod, Stands(o, m),
         NEW r \in Overload, NEW n \in JavaMethod, Stands(r, n)
  PROVE  /\ Differ(o, r) <=> Differ(m, n)
         /\ ~Differ(m, n) => (SameShape(o.args, r.args) <=> SameShape(m.args, n.args))
<1>1. m.args \in Seq(JavaType) /\ n.args \in Seq(JavaType)
      /\ o.args \in Seq(OrTypes) /\ r.args \in Seq(OrTypes)
  BY DEF JavaMethod, Overload
<1>2. Differ(o, r) <=> Differ(m, n)
  BY DEF Stands, Differ
<1>3. ASSUME ~Differ(m, n)
      PROVE  SameShape(o.args, r.args) <=> SameShape(m.args, n.args)
  <2>1. /\ Len(m.args) = Len(n.args) /\ Len(o.args) = Len(m.args)
        /\ \A k \in 1..Len(m.args) : /\ StandsFor(o.args[k], m.args[k])
                                     /\ StandsFor(r.args[k], n.args[k])
    BY <1>3 DEF Stands, Differ
  <2>2. \A k \in 1..Len(m.args) : Fits(o.args[k], r.args[k]) <=> Fits(m.args[k], n.args[k])
    BY <2>1, StandFits
  <2>3. DOMAIN o.args = 1..Len(m.args) /\ DOMAIN m.args = 1..Len(m.args)
    BY <1>1, <2>1
  <2>4. /\ SameShape(o.args, r.args)
             <=> \A k \in 1..Len(m.args) : Fits(o.args[k], r.args[k])
        /\ SameShape(m.args, n.args)
             <=> \A k \in 1..Len(m.args) : Fits(m.args[k], n.args[k])
    BY <2>3, Zenon DEF SameShape, Fits
  <2> QED
    BY <2>2, <2>4
<1> QED
  BY <1>2, <1>3

(* The overloads v are made of the methods of t from the one place to the     *)
(* other: each stands for the methods that are one function, the last one for *)
(* the last of them.                                                          *)
Grouped(t, from, upto, v) ==
  /\ v \in Seq(Overload)
  /\ \E g \in [from..upto -> 1..Len(v)] :
       /\ \A i \in 1..Len(v) : \E l \in from..upto : g[l] = i
       /\ from <= upto => g[upto] = Len(v)
       /\ \A l \in from..upto : Stands(v[g[l]], t[l])
       /\ \A k, l \in from..upto : g[k] = g[l] <=> Same(t[k], t[l])

(* One step of the accumulation. *)
LEMMA CollapseGroups ==
  ASSUME NEW t \in Seq(JavaMethod), Ordered(t, InOrderOfNames),
         NEW from \in 1..Len(t), NEW upto \in Nat, from <= upto + 1, upto < Len(t),
         \A l \in from..upto : ~Differ(t[l], t[upto + 1]),
         NEW v, Grouped(t, from, upto, v), from <= upto <=> v # <<>>
  PROVE  Grouped(t, from, upto + 1, Collapse(v, t[upto + 1]))
<1> DEFINE m == t[upto + 1]
           w == Collapse(v, m)
<1>1. m \in JavaMethod /\ m.args \in Seq(JavaType) /\ v \in Seq(Overload) /\ Len(v) \in Nat
  <2>1. upto + 1 \in 1..Len(t)
    OBVIOUS
  <2>2. m \in JavaMethod
    BY <2>1
  <2>3. v \in Seq(Overload)
    BY Zenon DEF Grouped
  <2> HIDE DEF m
  <2> QED
    BY <2>2, <2>3 DEF JavaMethod
<1>2. PICK g \in [from..upto -> 1..Len(v)] :
        /\ \A i \in 1..Len(v) : \E l \in from..upto : g[l] = i
        /\ from <= upto => g[upto] = Len(v)
        /\ \A l \in from..upto : Stands(v[g[l]], t[l])
        /\ \A k, l \in from..upto : g[k] = g[l] <=> Same(t[k], t[l])
  BY Zenon DEF Grouped
<1>3. \A l \in from..upto + 1 : t[l] \in JavaMethod
  OBVIOUS
<1>4. \A l \in from..upto + 1 : l = upto + 1 \/ l \in from..upto
  OBVIOUS
<1>5. upto + 1 \in from..upto + 1 /\ upto + 1 \notin from..upto
  OBVIOUS
<1>6. from..upto \subseteq from..upto + 1
  OBVIOUS
<1>7. CASE v = <<>>
  <2>1. w = <<m>> /\ from = upto + 1
    BY <1>7 DEF Collapse
  <2> DEFINE h == [l \in from..upto + 1 |-> 1]
  <2>2. w \in Seq(Overload) /\ Len(w) = 1 /\ w[1] = m /\ Stands(m, m) /\ Same(m, m)
    BY <1>1, <2>1, MethodStands, SameAgain
  <2>3. h \in [from..upto + 1 -> 1..Len(w)]
    BY <2>2
  <2>4. /\ \A i \in 1..Len(w) : \E l \in from..upto + 1 : h[l] = i
        /\ h[upto + 1] = Len(w)
    BY <1>5, <2>2
  <2>5. \A l \in from..upto + 1 : l = upto + 1 /\ h[l] = 1
    BY <2>1
  <2> HIDE DEF h, w
  <2>6. /\ \A l \in from..upto + 1 : Stands(w[h[l]], t[l])
        /\ \A k, l \in from..upto + 1 : h[k] = h[l] <=> Same(t[k], t[l])
    BY <2>2, <2>5
  <2>7. Grouped(t, from, upto + 1, w)
    BY <2>2, <2>3, <2>4, <2>6 DEF Grouped
  <2> QED
    BY <2>7 DEF w
<1>8. CASE v # <<>>
  <2> DEFINE last == v[Len(v)]
  <2>1. /\ upto \in from..upto /\ g[upto] = Len(v) /\ Len(v) \in 1..Len(v)
        /\ last \in Overload /\ Last(v) = last
    BY <1>1, <1>2, <1>8 DEF Last
  <2>2. Stands(last, t[upto]) /\ t[upto] \in JavaMethod /\ ~Differ(t[upto], m)
    BY <1>2, <1>3, <1>6, <2>1
  <2>3. SameShape(last.args, m.args) <=> Same(t[upto], m)
    BY <1>1, <2>1, <2>2, MethodStands, StandsShape DEF Same
  <2>4. last.name = m.name /\ Len(last.args) = Len(m.args)
        /\ last.args \in Seq(OrTypes) /\ last.name \in Nat /\ last.ret \in JavaType
    BY <2>1, <2>2 DEF Stands, Differ, Overload
  <2>5. CASE SameShape(last.args, m.args)
    <3> DEFINE args == [k \in DOMAIN m.args |-> OrType(last.args[k], m.args[k])]
               or == [name |-> last.name, args |-> args, ret |-> last.ret]
               h == [l \in from..upto + 1 |-> IF l = upto + 1 THEN Len(v) ELSE g[l]]
    <3>1. [last EXCEPT !.args = [k \in DOMAIN m.args |-> OrType(@[k], m.args[k])]] = or
      BY <2>1, SMTT(40) DEF Overload
    <3>2. w = Append(Front(v), or)
      BY <1>8, <2>1, <2>5, <3>1 DEF Collapse
    <3>3. ASSUME NEW k \in 1..Len(m.args)
          PROVE  /\ last.args[k] \in OrTypes /\ m.args[k] \in JavaType
                 /\ Fits(last.args[k], m.args[k])
      BY <1>1, <2>4, <2>5, SMTT(40) DEF SameShape, Fits
    <3>4. ASSUME NEW k \in 1..Len(m.args)
          PROVE  /\ args[k] \in OrTypes /\ StandsFor(args[k], m.args[k])
                 /\ \A s \in JavaType : StandsFor(last.args[k], s) => StandsFor(args[k], s)
      BY <1>1, <3>3, OrTypeStands, SMTT(40)
    <3>5. args \in Seq(OrTypes) /\ Len(args) = Len(m.args)
      <4>1. DOMAIN m.args = 1..Len(m.args) /\ Len(m.args) \in Nat
        BY <1>1
      <4>2. args \in [1..Len(m.args) -> OrTypes]
        BY <3>4, <4>1
      <4> HIDE DEF args
      <4> QED
        BY <4>1, <4>2, SMTT(40)
    <3> HIDE DEF args
    <3>6. or \in Overload /\ or.name = last.name /\ or.args = args
      BY <2>4, <3>5 DEF Overload
    <3> HIDE DEF or
    <3>7. Stands(or, m)
      BY <2>4, <3>4, <3>5, <3>6 DEF Stands
    <3>8. ASSUME NEW n \in JavaMethod, Stands(last, n) PROVE Stands(or, n)
      <4>1. n.args \in Seq(JavaType)
        BY DEF JavaMethod
      <4>2. Len(n.args) = Len(m.args) /\ n.name = or.name
        BY <2>4, <3>6, <3>8 DEF Stands
      <4>3. \A k \in 1..Len(m.args) : n.args[k] \in JavaType /\ StandsFor(last.args[k], n.args[k])
        BY <3>8, <4>1, <4>2 DEF Stands
      <4> QED
        BY <3>4, <3>5, <3>6, <4>2, <4>3 DEF Stands
    <3>9. /\ w \in Seq(Overload) /\ Len(w) = Len(v) /\ w[Len(v)] = or
          /\ \A i \in 1..Len(v) - 1 : w[i] = v[i]
      BY <1>1, <2>1, <3>2, <3>6 DEF Front
    <3>10. /\ h[upto + 1] = Len(v)
           /\ \A l \in from..upto : h[l] = g[l] /\ g[l] \in 1..Len(v)
      BY <1>2, <1>5, <1>6
    <3>11. h \in [from..upto + 1 -> 1..Len(w)]
      BY <1>2, <1>4, <2>1, <3>9
    <3> HIDE DEF h, w, last
    <3>12. \A i \in 1..Len(w) : \E l \in from..upto + 1 : h[l] = i
      BY <1>2, <1>6, <3>9, <3>10, ZenonT(60)
    <3>13. ASSUME NEW l \in from..upto + 1 PROVE Stands(w[h[l]], t[l])
      <4>1. CASE l = upto + 1
        BY <3>7, <3>9, <3>10, <4>1
      <4>2. CASE l \in from..upto /\ g[l] = Len(v)
        <5>1. Stands(last, t[l])
          BY <1>2, <4>2 DEF last
        <5> QED
          BY <1>3, <3>8, <3>9, <3>10, <4>2, <5>1
      <4>3. CASE l \in from..upto /\ g[l] # Len(v)
        <5>1. h[l] = g[l] /\ g[l] \in 1..Len(v) - 1
          BY <1>1, <3>10, <4>3
        <5>3. w[g[l]] = v[g[l]]
          BY <3>9, <5>1
        <5> QED
          BY <1>2, <4>3, <5>1, <5>3
      <4> QED
        BY <1>4, <4>1, <4>2, <4>3
    <3>14. Same(t[upto], m) /\ t[upto] \in JavaMethod
      BY <2>2, <2>3, <2>5
    <3>15. ASSUME NEW l \in from..upto PROVE h[l] = h[upto + 1] <=> Same(t[l], m)
      <4>1. h[l] = h[upto + 1] <=> Same(t[l], t[upto])
        BY <1>2, <2>1, <3>10, SMTT(40)
      <4>2. t[l] \in JavaMethod
        BY <1>3, <1>6
      <4> QED
        BY <1>1, <3>14, <4>1, <4>2, SameAgain
    <3>16. \A k, l \in from..upto + 1 : h[k] = h[l] <=> Same(t[k], t[l])
      <4> SUFFICES ASSUME NEW k \in from..upto + 1, NEW l \in from..upto + 1
                   PROVE  h[k] = h[l] <=> Same(t[k], t[l])
        OBVIOUS
      <4>1. CASE k \in from..upto /\ l \in from..upto
        BY <1>2, <3>10, <4>1, ZenonT(60)
      <4>2. CASE k \in from..upto /\ l = upto + 1
        BY <3>15, <4>2
      <4>3. CASE l \in from..upto /\ k = upto + 1
        BY <1>1, <1>3, <3>15, <4>3, SameAgain
      <4>4. CASE k = upto + 1 /\ l = upto + 1
        BY <1>1, <4>4, SameAgain
      <4> QED
        BY <1>4, <4>1, <4>2, <4>3, <4>4
    <3>17. Grouped(t, from, upto + 1, w)
      <4>1. from <= upto + 1 => h[upto + 1] = Len(w)
        BY <3>9, <3>10
      <4> QED
        BY <3>9, <3>11, <3>12, <3>13, <3>16, <4>1, Zenon DEF Grouped
    <3> QED
      BY <3>17 DEF w
  <2>6. CASE ~SameShape(last.args, m.args)
    <3> DEFINE new == [name |-> last.name, args |-> m.args, ret |-> last.ret]
               h == [l \in from..upto + 1 |-> IF l = upto + 1 THEN Len(v) + 1 ELSE g[l]]
    <3>1. [last EXCEPT !.args = m.args] = new
      BY <2>1 DEF Overload
    <3>2. w = Append(v, new)
      BY <1>8, <2>1, <2>6, <3>1 DEF Collapse
    <3>3. new \in Overload /\ Stands(new, m)
      <4>1. m \in Overload /\ Stands(m, m)
        BY <1>1, MethodStands
      <4> QED
        BY <2>4, <4>1 DEF Overload, Stands
    <3> HIDE DEF new
    <3>4. /\ w \in Seq(Overload) /\ Len(w) = Len(v) + 1 /\ w[Len(v) + 1] = new
          /\ \A i \in 1..Len(v) : w[i] = v[i]
      BY <1>1, <3>2, <3>3
    <3>5. /\ h[upto + 1] = Len(v) + 1
          /\ \A l \in from..upto : h[l] = g[l] /\ g[l] \in 1..Len(v)
      BY <1>2, <1>5, <1>6
    <3>6. h \in [from..upto + 1 -> 1..Len(w)]
      <4>1. \A l \in from..upto + 1 : h[l] \in 1..Len(w)
        BY <1>1, <1>4, <3>4, <3>5
      <4> QED
        BY <4>1
    <3> HIDE DEF h, w, last
    <3>7. \A i \in 1..Len(w) : \E l \in from..upto + 1 : h[l] = i
      <4> SUFFICES ASSUME NEW i \in 1..Len(w) PROVE \E l \in from..upto + 1 : h[l] = i
        OBVIOUS
      <4>1. CASE i = Len(v) + 1
        BY <1>5, <3>5, <4>1
      <4>2. CASE i # Len(v) + 1
        <5>1. i \in 1..Len(v)
          BY <1>1, <3>4, <4>2
        <5> QED
          BY <1>2, <1>6, <3>5, <5>1
      <4> QED
        BY <4>1, <4>2
    <3>8. ASSUME NEW l \in from..upto + 1 PROVE Stands(w[h[l]], t[l])
      <4>1. CASE l = upto + 1
        BY <3>3, <3>4, <3>5, <4>1
      <4>2. CASE l \in from..upto
        BY <1>2, <3>4, <3>5, <4>2, SMTT(40)
      <4> QED
        BY <1>4, <4>1, <4>2
    <3>9. ASSUME NEW l \in from..upto
          PROVE  h[l] # h[upto + 1] /\ ~Same(t[l], m) /\ ~Same(m, t[l])
      <4>1. h[l] # h[upto + 1]
        BY <1>1, <3>5
      <4>2. t[l] \in JavaMethod /\ t[upto] \in JavaMethod
        BY <1>3, <1>6, <2>2
      <4>3. ~Same(t[l], m)
        <5> SUFFICES ASSUME Same(t[l], m) PROVE FALSE
          OBVIOUS
        <5>1. Same(t[l], t[upto])
          <6>1. CASE l = upto
            BY <4>2, <6>1, SameAgain
          <6>2. CASE l # upto
            <7>1. /\ l \in 1..Len(t) /\ upto \in 1..Len(t) /\ upto + 1 \in 1..Len(t)
                  /\ l < upto /\ upto <= upto + 1
              BY <6>2
            <7> QED
              BY <7>1, Together
          <6> QED
            BY <6>1, <6>2
        <5>2. Same(t[upto], m)
          BY <1>1, <4>2, <5>1, SameAgain
        <5> QED
          BY <2>3, <2>6, <5>2
      <4> QED
        BY <1>1, <4>1, <4>2, <4>3, SameAgain
    <3>10. \A k, l \in from..upto + 1 : h[k] = h[l] <=> Same(t[k], t[l])
      <4> SUFFICES ASSUME NEW k \in from..upto + 1, NEW l \in from..upto + 1
                   PROVE  h[k] = h[l] <=> Same(t[k], t[l])
        OBVIOUS
      <4>1. CASE k \in from..upto /\ l \in from..upto
        BY <1>2, <3>5, <4>1
      <4>2. CASE k \in from..upto /\ l = upto + 1
        BY <3>9, <4>2
      <4>3. CASE l \in from..upto /\ k = upto + 1
        BY <3>9, <4>3
      <4>4. CASE k = upto + 1 /\ l = upto + 1
        BY <1>1, <4>4, SameAgain
      <4> QED
        BY <1>4, <4>1, <4>2, <4>3, <4>4
    <3>11. Grouped(t, from, upto + 1, w)
      <4>1. from <= upto + 1 => h[upto + 1] = Len(w)
        BY <3>4, <3>5
      <4> QED
        BY <3>4, <3>6, <3>7, <3>8, <3>10, <4>1, Zenon DEF Grouped
    <3> QED
      BY <3>11 DEF w
  <2> QED
    BY <2>5, <2>6
<1> QED
  BY <1>7, <1>8

(* The accumulation, as a function of the places that it has gone over. *)
FoldsTo(f, ms, m) ==
  f = [s \in SUBSET (1..m) |->
         IF s = {} THEN <<>> ELSE Collapse(f[s \ {Max(s)}], ms[Max(s)])]

LEMMA FoldIs ==
  ASSUME NEW ms, NEW n \in Nat, DOMAIN ms = 1..n
  PROVE  FoldLeft(Collapse, <<>>, ms) = (CHOOSE f : FoldsTo(f, ms, n))[1..n]
  BY DEF FoldLeft, MapThenFoldSet, FoldsTo

LEMMA FoldStep ==
  ASSUME NEW ms, NEW m \in Nat, NEW f, FoldsTo(f, ms, m)
  PROVE  \E h : FoldsTo(h, ms, m + 1)
<1> DEFINE h == [s \in SUBSET (1..m + 1) |->
                   IF m + 1 \in s THEN Collapse(f[s \ {m + 1}], ms[m + 1]) ELSE f[s]]
<1>1. ASSUME NEW s \in SUBSET (1..m + 1), m + 1 \notin s
      PROVE  s \in SUBSET (1..m) /\ h[s] = f[s]
  BY <1>1
<1>2. ASSUME NEW s \in SUBSET (1..m + 1), m + 1 \in s
      PROVE  h[s] = Collapse(f[s \ {m + 1}], ms[m + 1])
  BY <1>2
<1>3. h = [s \in SUBSET (1..m + 1) |-> h[s]]
  OBVIOUS
<1>4. \A s \in SUBSET (1..m) :
        f[s] = IF s = {} THEN <<>> ELSE Collapse(f[s \ {Max(s)}], ms[Max(s)])
  BY Zenon DEF FoldsTo
<1> HIDE DEF h
<1>5. ASSUME NEW s \in SUBSET (1..m + 1)
      PROVE  h[s] = IF s = {} THEN <<>> ELSE Collapse(h[s \ {Max(s)}], ms[Max(s)])
  <2>1. CASE m + 1 \in s
    <3>1. Max(s) = m + 1 /\ s # {}
      BY <2>1, MaxOf
    <3>2. s \ {m + 1} \in SUBSET (1..m + 1) /\ m + 1 \notin s \ {m + 1}
      OBVIOUS
    <3>3. h[s \ {m + 1}] = f[s \ {m + 1}]
      BY <1>1, <3>2
    <3> QED
      BY <1>2, <2>1, <3>1, <3>3
  <2>2. CASE m + 1 \notin s
    <3>1. s \in SUBSET (1..m) /\ h[s] = f[s]
      BY <1>1, <2>2
    <3>2. s \ {Max(s)} \in SUBSET (1..m + 1) /\ m + 1 \notin s \ {Max(s)}
      BY <2>2
    <3>3. h[s \ {Max(s)}] = f[s \ {Max(s)}]
      BY <1>1, <3>2
    <3> QED
      BY <1>4, <3>1, <3>3, Zenon
  <2> QED
    BY <2>1, <2>2
<1>6. FoldsTo(h, ms, m + 1)
  BY <1>3, <1>5 DEF FoldsTo
<1> QED
  BY <1>6

LEMMA FoldExists ==
  ASSUME NEW ms, NEW n \in Nat
  PROVE  \E f : FoldsTo(f, ms, n)
<1> DEFINE fails == {m \in Nat : ~\E f : FoldsTo(f, ms, m)}
<1>1. 0 \notin fails
  <2> DEFINE f == [s \in SUBSET (1..0) |-> <<>>]
  <2>1. \A s \in SUBSET (1..0) : s = {}
    OBVIOUS
  <2>2. FoldsTo(f, ms, 0)
    BY <2>1 DEF FoldsTo
  <2> QED
    BY <2>2
<1>2. \A m \in Nat : m \notin fails => m + 1 \notin fails
  BY FoldStep
<1>3. n \notin fails
  <2> SUFFICES ASSUME fails # {} PROVE FALSE
    OBVIOUS
  <2> HIDE DEF fails
  <2>1. fails \in SUBSET Nat
    BY DEF fails
  <2>2. PICK m \in fails : \A k \in fails : m <= k
    BY <2>1, LeastNumber
  <2>3. m \in Nat /\ m # 0
    BY <1>1, <2>1
  <2>4. m - 1 \in Nat /\ m - 1 \notin fails
    BY <2>2, <2>3
  <2>5. (m - 1) + 1 \notin fails
    BY <1>2, <2>4
  <2> QED
    BY <2>3, <2>5
<1> QED
  BY <1>3

LEMMA FoldValues ==
  ASSUME NEW ms, NEW n \in Nat, DOMAIN ms = 1..n
  PROVE  \E f : /\ FoldLeft(Collapse, <<>>, ms) = f[1..n]
                /\ f[1..0] = <<>>
                /\ \A m \in 0..n - 1 : f[1..m + 1] = Collapse(f[1..m], ms[m + 1])
<1> DEFINE f == CHOOSE f : FoldsTo(f, ms, n)
<1>1. FoldsTo(f, ms, n)
  BY FoldExists
<1>2. FoldLeft(Collapse, <<>>, ms) = f[1..n]
  BY FoldIs
<1> HIDE DEF f
<1>3. \A s \in SUBSET (1..n) :
        f[s] = IF s = {} THEN <<>> ELSE Collapse(f[s \ {Max(s)}], ms[Max(s)])
  BY <1>1, Zenon DEF FoldsTo
<1>4. f[1..0] = <<>>
  <2>1. 1..0 = {}
    OBVIOUS
  <2>2. 1..0 \in SUBSET (1..n)
    BY <2>1
  <2> QED
    BY <1>3, <2>1, <2>2, Zenon
<1>5. ASSUME NEW m \in 0..n - 1 PROVE f[1..m + 1] = Collapse(f[1..m], ms[m + 1])
  <2>1. 1..m + 1 \in SUBSET (1..n) /\ 1..m + 1 # {} /\ m + 1 \in 1..m + 1
    <3>1. m + 1 \in 1..m + 1 /\ \A i \in 1..m + 1 : i \in 1..n
      OBVIOUS
    <3> QED
      BY <3>1
  <2>2. Max(1..m + 1) = m + 1
    BY MaxOf
  <2>3. (1..m + 1) \ {m + 1} = 1..m
    OBVIOUS
  <2> QED
    BY <1>3, <2>1, <2>2, <2>3, Zenon
<1> QED
  BY <1>2, <1>4, <1>5

LEMMA GroupedNone ==
  ASSUME NEW t, NEW from \in Nat, NEW upto \in Nat, upto < from
  PROVE  Grouped(t, from, upto, <<>>)
<1> DEFINE g == [l \in from..upto |-> 1]
<1>1. from..upto = {} /\ <<>> \in Seq(Overload) /\ Len(<<>>) = 0
  OBVIOUS
<1>2. g \in [from..upto -> 1..Len(<<>>)]
  BY <1>1
<1>3. /\ \A i \in 1..Len(<<>>) : \E l \in from..upto : g[l] = i
      /\ from <= upto => g[upto] = Len(<<>>)
      /\ \A l \in from..upto : Stands(<<>>[g[l]], t[l])
      /\ \A k, l \in from..upto : g[k] = g[l] <=> Same(t[k], t[l])
  BY <1>1
<1> QED
  BY <1>1, <1>2, <1>3, Zenon DEF Grouped

LEMMA GroupedSome ==
  ASSUME NEW t, NEW from \in Nat, NEW upto \in Nat, NEW v, Grouped(t, from, upto, v)
  PROVE  from <= upto <=> v # <<>>
<1>1. PICK g \in [from..upto -> 1..Len(v)] :
        \A i \in 1..Len(v) : \E l \in from..upto : g[l] = i
  BY Zenon DEF Grouped
<1>2. v \in Seq(Overload)
  BY Zenon DEF Grouped
<1>3. v # <<>> => 1 \in 1..Len(v)
  BY <1>2
<1>4. from <= upto => from \in from..upto /\ g[from] \in 1..Len(v)
  BY <1>1
<1> QED
  BY <1>1, <1>2, <1>3, <1>4

(* The accumulation over a group. *)
LEMMA GroupCollapses ==
  ASSUME NEW t \in Seq(JavaMethod), Ordered(t, InOrderOfNames),
         NEW from \in 1..Len(t), NEW upto \in from..Len(t),
         \A k, l \in from..upto : ~Differ(t[k], t[l])
  PROVE  Grouped(t, from, upto, FoldLeft(Collapse, <<>>, SubSeq(t, from, upto)))
<1> DEFINE ms == SubSeq(t, from, upto)
           n == upto - from + 1
<1>1. /\ DOMAIN ms = 1..n /\ n \in Nat
      /\ \A m \in 1..n : ms[m] = t[from + m - 1]
  OBVIOUS
<1> HIDE DEF ms
<1>2. PICK f : /\ FoldLeft(Collapse, <<>>, ms) = f[1..n]
               /\ f[1..0] = <<>>
               /\ \A m \in 0..n - 1 : f[1..m + 1] = Collapse(f[1..m], ms[m + 1])
  BY <1>1, FoldValues
<1> DEFINE fails == {m \in 0..n : ~Grouped(t, from, from + m - 1, f[1..m])}
<1>3. fails = {}
  <2> SUFFICES ASSUME fails # {} PROVE FALSE
    OBVIOUS
  <2>1. fails \in SUBSET Nat
    OBVIOUS
  <2>2. PICK m \in fails : \A k \in fails : m <= k
    BY <2>1, LeastNumber
  <2>3. m # 0
    <3>1. Grouped(t, from, from - 1, f[1..0])
      BY <1>2, GroupedNone
    <3> QED
      BY <3>1
  <2> DEFINE k == m - 1
             last == from + k - 1
  <2>4. k \in 0..n - 1 /\ m = k + 1
    BY <2>1, <2>3
  <2>5. Grouped(t, from, last, f[1..k])
    BY <2>2, <2>4
  <2>6. /\ last \in Nat /\ from <= last + 1 /\ last < Len(t)
        /\ last + 1 \in from..upto /\ from..last \subseteq from..upto
        /\ last + 1 = from + (k + 1) - 1
    BY <2>4
  <2>7. f[1..k + 1] = Collapse(f[1..k], t[last + 1])
    BY <1>1, <1>2, <2>4
  <2> HIDE DEF k, last, fails
  <2>8. Grouped(t, from, last + 1, f[1..k + 1])
    <3>1. \A l \in from..last : ~Differ(t[l], t[last + 1])
      BY <2>6
    <3>2. from <= last <=> f[1..k] # <<>>
      BY <2>5, <2>6, GroupedSome
    <3>3. Grouped(t, from, last + 1, Collapse(f[1..k], t[last + 1]))
      BY <2>5, <2>6, <3>1, <3>2, CollapseGroups
    <3> QED
      BY <2>7, <3>3
  <2>9. Grouped(t, from, from + m - 1, f[1..m])
    BY <2>4, <2>6, <2>8
  <2> QED
    BY <2>9 DEF fails
<1>4. n \in 0..n /\ from + n - 1 = upto
  BY <1>1
<1>5. Grouped(t, from, upto, f[1..n])
  BY <1>3, <1>4
<1> QED
  BY <1>2, <1>5 DEF ms

(* Two groups that no function has methods of both of. *)
LEMMA GroupsJoin ==
  ASSUME NEW t \in Seq(JavaMethod), NEW from \in 1..Len(t), NEW upto \in from..Len(t),
         NEW v, Grouped(t, 1, from - 1, v), NEW w, Grouped(t, from, upto, w),
         \A k \in 1..from - 1, l \in from..upto : ~Same(t[k], t[l])
  PROVE  Grouped(t, 1, upto, v \o w)
<1>1. PICK g \in [1..from - 1 -> 1..Len(v)] :
        /\ \A i \in 1..Len(v) : \E l \in 1..from - 1 : g[l] = i
        /\ \A l \in 1..from - 1 : Stands(v[g[l]], t[l])
        /\ \A k, l \in 1..from - 1 : g[k] = g[l] <=> Same(t[k], t[l])
  BY Zenon DEF Grouped
<1>2. PICK h \in [from..upto -> 1..Len(w)] :
        /\ \A i \in 1..Len(w) : \E l \in from..upto : h[l] = i
        /\ from <= upto => h[upto] = Len(w)
        /\ \A l \in from..upto : Stands(w[h[l]], t[l])
        /\ \A k, l \in from..upto : h[k] = h[l] <=> Same(t[k], t[l])
  BY Zenon DEF Grouped
<1> DEFINE m == Len(v)
           n == Len(w)
           o == v \o w
           f == [l \in 1..upto |-> IF l < from THEN g[l] ELSE m + h[l]]
<1>3. v \in Seq(Overload) /\ w \in Seq(Overload)
  BY Zenon DEF Grouped
<1>4. m \in Nat /\ n \in Nat
  BY <1>3
<1>5. /\ o \in Seq(Overload) /\ Len(o) = m + n
      /\ \A i \in 1..m + n : o[i] = IF i <= m THEN v[i] ELSE w[i - m]
  BY <1>3, ConcatProperties, Zenon
<1>6. /\ \A l \in 1..upto : l \in 1..from - 1 \/ l \in from..upto
      /\ \A l \in 1..from - 1 : l \in 1..upto /\ l < from
      /\ \A l \in from..upto : l \in 1..upto /\ ~(l < from)
      /\ upto \in from..upto
  OBVIOUS
<1>7. /\ \A l \in 1..from - 1 : f[l] = g[l] /\ g[l] \in 1..m
      /\ \A l \in from..upto : f[l] = m + h[l] /\ h[l] \in 1..n
  BY <1>1, <1>2, <1>6
<1>8. f = [l \in 1..upto |-> f[l]]
  OBVIOUS
<1> HIDE DEF f, o
<1>9. /\ \A l \in 1..from - 1 : o[g[l]] = v[g[l]]
      /\ \A l \in from..upto : o[m + h[l]] = w[h[l]]
  <2> HIDE DEF m, n
  <2>1. ASSUME NEW l \in 1..from - 1 PROVE o[g[l]] = v[g[l]]
    BY <1>4, <1>5, <1>7, SMTT(40)
  <2>2. ASSUME NEW l \in from..upto PROVE o[m + h[l]] = w[h[l]]
    <3>1. h[l] \in 1..n
      BY <1>7
    <3>2. m + h[l] \in 1..m + n /\ ~(m + h[l] <= m) /\ (m + h[l]) - m = h[l]
      BY <1>4, <3>1
    <3> QED
      BY <1>5, <3>2
  <2> QED
    BY <2>1, <2>2
<1>10. f \in [1..upto -> 1..Len(o)]
  <2> HIDE DEF m, n
  <2>1. ASSUME NEW l \in 1..upto PROVE f[l] \in 1..m + n
    <3>1. CASE l \in 1..from - 1
      BY <1>4, <1>7, <3>1, SMTT(40)
    <3>2. CASE l \in from..upto
      BY <1>4, <1>7, <3>2, SMTT(40)
    <3> QED
      BY <1>6, <3>1, <3>2
  <2> QED
    BY <1>5, <1>8, <2>1
<1>11. ASSUME NEW i \in 1..Len(o) PROVE \E l \in 1..upto : f[l] = i
  <2>1. CASE i <= m
    <3>1. i \in 1..m
      BY <2>1
    <3>2. PICK l \in 1..from - 1 : g[l] = i
      BY <1>1, <3>1
    <3> QED
      BY <1>6, <1>7, <3>2
  <2>2. CASE ~(i <= m)
    <3> HIDE DEF m, n
    <3>1. i - m \in 1..n
      BY <1>4, <1>5, <2>2
    <3>2. PICK l \in from..upto : h[l] = i - m
      BY <1>2, <3>1 DEF n
    <3>3. f[l] = i
      BY <1>4, <1>5, <1>7, <3>2, SMTT(40)
    <3> QED
      BY <1>6, <3>3
  <2> QED
    BY <2>1, <2>2
<1>12. f[upto] = Len(o)
  <2>1. h[upto] = n
    BY <1>2
  <2> HIDE DEF m, n
  <2> QED
    BY <1>5, <1>6, <1>7, <2>1
<1>13. ASSUME NEW l \in 1..upto PROVE Stands(o[f[l]], t[l])
  <2> HIDE DEF m, n
  <2>1. CASE l \in 1..from - 1
    <3>1. o[f[l]] = v[g[l]]
      BY <1>7, <1>9, <2>1
    <3> QED
      BY <1>1, <2>1, <3>1, Zenon
  <2>2. CASE l \in from..upto
    <3>1. o[f[l]] = w[h[l]]
      BY <1>7, <1>9, <2>2
    <3> QED
      BY <1>2, <2>2, <3>1, Zenon
  <2> QED
    BY <1>6, <2>1, <2>2
<1>14. ASSUME NEW k \in 1..upto, NEW l \in 1..upto
       PROVE  f[k] = f[l] <=> Same(t[k], t[l])
  <2> HIDE DEF m, n
  <2>1. CASE k \in 1..from - 1 /\ l \in 1..from - 1
    BY <1>1, <1>7, <2>1, ZenonT(60)
  <2>2. CASE k \in from..upto /\ l \in from..upto
    <3>1. f[k] = f[l] <=> h[k] = h[l]
      BY <1>4, <1>7, <2>2, SMTT(40)
    <3> QED
      BY <1>2, <2>2, <3>1
  <2>3. ASSUME NEW i \in 1..from - 1, NEW j \in from..upto
        PROVE  f[i] # f[j] /\ ~Same(t[i], t[j]) /\ ~Same(t[j], t[i])
    <3>1. f[i] # f[j]
      BY <1>4, <1>7, SMTT(40)
    <3>2. t[i] \in JavaMethod /\ t[j] \in JavaMethod
      OBVIOUS
    <3> QED
      BY <3>1, <3>2, SameAgain
  <2> QED
    BY <1>6, <2>1, <2>2, <2>3
<1>15. Grouped(t, 1, upto, o)
  BY <1>5, <1>10, <1>11, <1>12, <1>13, <1>14, Zenon DEF Grouped
<1> QED
  BY <1>15 DEF o

(* Groups have no function with methods of both. *)
LEMMA GroupsApart ==
  ASSUME NEW t \in Seq(JavaMethod), Ordered(t, InOrderOfNames),
         NEW from \in 1..Len(t), from > 1 => Differ(t[from - 1], t[from]),
         NEW k \in 1..from - 1, NEW l \in from..Len(t)
  PROVE  ~Same(t[k], t[l])
<1> SUFFICES ASSUME Same(t[k], t[l]) PROVE FALSE
  OBVIOUS
<1>1. /\ k \in 1..Len(t) /\ l \in 1..Len(t) /\ from - 1 \in 1..Len(t)
      /\ k < from /\ from <= l /\ from - 1 <= l /\ from > 1
  OBVIOUS
<1>2. Same(t[k], t[from])
  BY <1>1, Together
<1>3. t[k] \in JavaMethod /\ t[from] \in JavaMethod /\ t[from - 1] \in JavaMethod
  BY <1>1
<1>4. Same(t[k], t[from - 1])
  <2>1. CASE k = from - 1
    BY <1>3, <2>1, SameAgain
  <2>2. CASE k < from - 1
    BY <1>1, <2>2, Together
  <2> QED
    BY <1>1, <2>1, <2>2
<1>5. Same(t[from - 1], t[from])
  BY <1>2, <1>3, <1>4, SameAgain
<1> QED
  BY <1>1, <1>5 DEF Same

(* adjacent_find gives the group: all of it is of one name and arity, and  *)
(* what comes after it is not.                                             *)
LEMMA GroupEndIs ==
  ASSUME methods \in Seq(JavaMethod), lower \in 1..Len(methods)
  PROVE  /\ GroupEnd(lower) \in lower..Len(methods)
         /\ GroupEnd(lower) < Len(methods) =>
              Differ(methods[GroupEnd(lower)], methods[GroupEnd(lower) + 1])
         /\ \A k, l \in lower..GroupEnd(lower) : ~Differ(methods[k], methods[l])
<1> DEFINE ends == {j \in lower..Len(methods) :
                      j = Len(methods) \/ Differ(methods[j], methods[j + 1])}
           upper == GroupEnd(lower)
<1>1. ends \in SUBSET Nat /\ Len(methods) \in ends
  OBVIOUS
<1>2. upper \in ends /\ \A j \in ends : upper <= j
  <2>1. upper = Min(ends)
    BY DEF GroupEnd
  <2>2. \E x \in ends : \A j \in ends : x <= j
    BY <1>1, LeastNumber
  <2> HIDE DEF ends, upper
  <2> QED
    BY <2>1, <2>2 DEF Min
<1>3. upper \in lower..Len(methods) /\ upper \in Nat
  BY <1>1, <1>2
<1>4. upper < Len(methods) => Differ(methods[upper], methods[upper + 1])
  BY <1>2
<1>5. \A j \in lower..upper - 1 : ~Differ(methods[j], methods[j + 1])
  <2> SUFFICES ASSUME NEW j \in lower..upper - 1, Differ(methods[j], methods[j + 1])
               PROVE  FALSE
    OBVIOUS
  <2> HIDE DEF upper
  <2>1. j \in ends
    BY <1>3
  <2> HIDE DEF ends
  <2> QED
    BY <1>2, <1>3, <2>1
<1> HIDE DEF upper, ends
<1>6. \A l \in lower..upper : ~Differ(methods[lower], methods[l])
  <2> DEFINE fails == {l \in lower..upper : Differ(methods[lower], methods[l])}
  <2> SUFFICES ASSUME fails # {} PROVE FALSE
    OBVIOUS
  <2>1. fails \in SUBSET Nat
    OBVIOUS
  <2>2. PICK l \in fails : \A k \in fails : l <= k
    BY <2>1, LeastNumber
  <2>3. l \in lower..upper /\ Differ(methods[lower], methods[l])
    OBVIOUS
  <2>4. l # lower
    BY <2>3 DEF Differ
  <2>5. l - 1 \in lower..upper - 1 /\ l - 1 \in lower..upper /\ (l - 1) + 1 = l
    BY <1>3, <2>3, <2>4
  <2>6. ~Differ(methods[lower], methods[l - 1])
    BY <2>2, <2>3, <2>5
  <2>7. ~Differ(methods[l - 1], methods[l])
    BY <1>5, <2>5
  <2> HIDE DEF fails
  <2> QED
    BY <2>3, <2>6, <2>7 DEF Differ
<1>7. \A k, l \in lower..upper : ~Differ(methods[k], methods[l])
  BY <1>6 DEF Differ
<1> QED
  BY <1>3, <1>4, <1>7 DEF upper

-----------------------------------------------------------------------------
(* The inductive invariant *)

(* The methods are those of the class. *)
Rearranged ==
  /\ input \in Seq(JavaMethod) /\ methods \in Seq(JavaMethod)
  /\ Len(methods) = Len(input) /\ ToSet(methods) = ToSet(input)

(* They are in the order of the sorts that there were. *)
SortedSoFar ==
  /\ stage \in {"arity", "returned", "args", "generic", "rank", "name", "group", "done"}
  /\ stage = "rank" => Ordered(methods, InOrderOfGenericity)
  /\ stage = "name" => Ordered(methods, InOrderOfRanks)
  /\ stage \in {"group", "done"} => Ordered(methods, InOrderOfNames)

(* The overloads are made of the methods of the groups that there were. *)
WalkedSoFar ==
  /\ lower \in 1..Len(methods) + 1 /\ count = lower - 1
  /\ lower \in 2..Len(methods) => Differ(methods[lower - 1], methods[lower])
  /\ Grouped(methods, 1, lower - 1, overloads)
  /\ stage \notin {"group", "done"} => lower = 1
  /\ stage = "done" => lower = Len(methods) + 1

Collapsing == Rearranged /\ SortedSoFar /\ WalkedSoFar

LEMMA StartsCollapsing ==
  ASSUME input \in Seq(JavaMethod), methods = input, stage = "arity",
         lower = 1, overloads = <<>>, count = 0
  PROVE  Collapsing
<1>1. Grouped(methods, 1, lower - 1, overloads)
  BY GroupedNone
<1>2. lower \in 1..Len(methods) + 1
  OBVIOUS
<1> QED
  BY <1>1, <1>2 DEF Collapsing, Rearranged, SortedSoFar, WalkedSoFar

(* A sort leaves the walk at its start. *)
LEMMA SortKeepsWalk ==
  ASSUME Rearranged, WalkedSoFar, stage \notin {"group", "done"},
         methods' \in Seq(JavaMethod), Len(methods') = Len(methods),
         ToSet(methods') = ToSet(methods), stage' # "done",
         UNCHANGED <<input, lower, overloads, count>>
  PROVE  Rearranged' /\ WalkedSoFar'
<1>1. lower = 1 /\ Grouped(methods, 1, 0, overloads)
  BY DEF WalkedSoFar
<1>2. overloads = <<>>
  BY <1>1, GroupedSome
<1>3. Grouped(methods', 1, 0, overloads')
  BY <1>2, GroupedNone
<1>4. Rearranged'
  BY DEF Rearranged
<1>5. lower' = 1 /\ count' = count /\ count = lower - 1 /\ Len(methods') \in Nat
  BY <1>1 DEF WalkedSoFar
<1> QED
  BY <1>1, <1>3, <1>4, <1>5 DEF WalkedSoFar

LEMMA SortArityKeeps ==
  ASSUME Collapsing, SortArity
  PROVE  Collapsing'
<1>1. methods \in Seq(JavaMethod) /\ DOMAIN methods = 1..Len(methods) /\ Len(methods) \in Nat
  BY DEF Collapsing, Rearranged
<1>2. PICK p \in SetToSeqs(DOMAIN methods) :
        methods' = StableSort(ArityLess, [i \in DOMAIN p |-> methods[p[i]]])
  BY DEF SortArity
<1> DEFINE n == Len(methods)
           s == [i \in DOMAIN p |-> methods[p[i]]]
<1>3. IsFiniteSet(1..n) /\ Cardinality(1..n) = n
  BY <1>1, FS_Interval, SMTT(40)
<1>4. p \in [1..n -> 1..n] /\ \A i, j \in 1..n : i # j => p[i] # p[j]
  BY <1>1, <1>3, Zenon DEF SetToSeqs
<1>5. \A i \in 1..n : \E k \in 1..n : p[k] = i
  <2>1. p \in Injection(1..n, 1..n)
    BY <1>4, Fun_IsInj, Zenon
  <2>2. p \in Surjection(1..n, 1..n)
    BY <1>3, <2>1, FS_Injection, Zenon
  <2> QED
    BY <2>2 DEF Surjection
<1>6. DOMAIN p = 1..n /\ \A k \in 1..n : p[k] \in 1..n /\ s[k] = methods[p[k]]
  BY <1>4
<1>7. s \in Seq(JavaMethod) /\ Len(s) = n
  <2>1. s \in [1..n -> JavaMethod]
    BY <1>1, <1>6
  <2>2. DOMAIN s = 1..n
    BY <1>6
  <2> HIDE DEF s
  <2> QED
    BY <1>1, <2>1, <2>2
<1>8. ToSet(s) = ToSet(methods)
  <2>1. /\ \A i \in 1..n : \E k \in 1..n : methods[i] = s[k]
        /\ \A k \in 1..n : \E i \in 1..n : s[k] = methods[i]
    <3> HIDE DEF n, s
    <3>1. ASSUME NEW i \in 1..n PROVE \E k \in 1..n : methods[i] = s[k]
      <4>1. PICK k \in 1..n : p[k] = i
        BY <1>5
      <4> QED
        BY <1>6, <4>1
    <3> QED
      BY <1>6, <3>1
  <2>2. DOMAIN s = 1..n /\ DOMAIN methods = 1..n
    BY <1>1, <1>6
  <2> HIDE DEF n, s
  <2>3. ToSet(s) = {s[k] : k \in 1..n} /\ ToSet(methods) = {methods[k] : k \in 1..n}
    BY <2>2, Zenon DEF ToSet
  <2>4. {s[k] : k \in 1..n} = {methods[k] : k \in 1..n}
    <3> DEFINE places == 1..n
    <3>1. /\ \A i \in places : \E k \in places : methods[i] = s[k]
          /\ \A k \in places : \E i \in places : s[k] = methods[i]
      BY <2>1
    <3> HIDE DEF places
    <3>2. {s[k] : k \in places} = {methods[k] : k \in places}
      BY <3>1
    <3> QED
      BY <3>2 DEF places
  <2> QED
    BY <2>3, <2>4
<1> HIDE DEF n, s
<1>9. SortedAs(JavaMethod, s, methods', ByArity)
  BY <1>2, <1>7, ArityOrdered DEF s
<1>10. /\ methods' \in Seq(JavaMethod) /\ Len(methods') = Len(methods)
       /\ ToSet(methods') = ToSet(methods)
  BY <1>7, <1>8, <1>9, SortRearranges DEF n
<1>11. /\ stage = "arity" /\ stage' = "returned"
       /\ UNCHANGED <<input, lower, overloads, count>>
  BY DEF SortArity
<1>12. Rearranged' /\ WalkedSoFar'
  BY <1>10, <1>11, SortKeepsWalk DEF Collapsing
<1>13. SortedSoFar'
  BY <1>11 DEF SortedSoFar
<1> QED
  BY <1>12, <1>13 DEF Collapsing

LEMMA SortsKeep ==
  ASSUME Collapsing, SortReturned \/ SortArgs \/ SortGeneric \/ SortRanks \/ SortName
  PROVE  Collapsing'
<1>1. methods \in Seq(JavaMethod)
  BY DEF Collapsing, Rearranged
<1>2. /\ stage = "rank" => Ordered(methods, InOrderOfGenericity)
      /\ stage = "name" => Ordered(methods, InOrderOfRanks)
  BY DEF Collapsing, SortedSoFar
<1>3. ASSUME NEW R, SortedAs(JavaMethod, methods, methods', R), stage \notin {"group", "done"},
             stage' # "done", UNCHANGED <<input, lower, overloads, count>>, SortedSoFar'
      PROVE  Collapsing'
  <2>1. /\ methods' \in Seq(JavaMethod) /\ Len(methods') = Len(methods)
        /\ ToSet(methods') = ToSet(methods)
    BY <1>1, <1>3, SortRearranges
  <2>2. Rearranged' /\ WalkedSoFar'
    BY <1>3, <2>1, SortKeepsWalk DEF Collapsing
  <2> QED
    BY <1>3, <2>2 DEF Collapsing
<1>4. CASE SortReturned
  <2>1. /\ methods' = StableSort(ReturnedLess, methods) /\ stage = "returned" /\ stage' = "args"
        /\ UNCHANGED <<input, lower, overloads, count>>
    BY <1>4 DEF SortReturned, Sort
  <2>2. SortedAs(JavaMethod, methods, methods', ByReturned)
    BY <1>1, <2>1, ReturnedOrdered
  <2>3. SortedSoFar'
    BY <2>1 DEF SortedSoFar
  <2> QED
    BY <1>3, <2>1, <2>2, <2>3
<1>5. CASE SortArgs
  <2>1. /\ methods' = StableSort(ArgsLess, methods) /\ stage = "args" /\ stage' = "generic"
        /\ UNCHANGED <<input, lower, overloads, count>>
    BY <1>5 DEF SortArgs, Sort
  <2>2. SortedAs(JavaMethod, methods, methods', ByArgs)
    BY <1>1, <2>1, ArgsOrdered
  <2>3. SortedSoFar'
    BY <2>1 DEF SortedSoFar
  <2> QED
    BY <1>3, <2>1, <2>2, <2>3
<1>6. CASE SortGeneric
  <2>1. /\ methods' = StableSort(GenericityLess, methods) /\ stage = "generic" /\ stage' = "rank"
        /\ UNCHANGED <<input, lower, overloads, count>>
    BY <1>6 DEF SortGeneric, Sort
  <2>2. SortedAs(JavaMethod, methods, methods', ByGenericity)
    BY <1>1, <2>1, GenericityOrdered
  <2>3. Ordered(methods, Anything)
    BY <1>1 DEF Ordered, Anything
  <2>4. Ordered(methods', InOrderOfGenericity)
    BY <1>1, <2>2, <2>3, SortKeeps DEF InOrderOfGenericity
  <2>5. SortedSoFar'
    BY <2>1, <2>4 DEF SortedSoFar
  <2> QED
    BY <1>3, <2>1, <2>2, <2>5
<1>7. CASE SortRanks
  <2>1. /\ methods' = StableSort(RanksLess, methods) /\ stage = "rank" /\ stage' = "name"
        /\ UNCHANGED <<input, lower, overloads, count>>
    BY <1>7 DEF SortRanks, Sort
  <2>2. SortedAs(JavaMethod, methods, methods', ByRanks)
    BY <1>1, <2>1, RanksOrdered
  <2>3. Ordered(methods', InOrderOfRanks)
    BY <1>1, <1>2, <2>1, <2>2, SortKeeps DEF InOrderOfRanks
  <2>4. SortedSoFar'
    BY <2>1, <2>3 DEF SortedSoFar
  <2> QED
    BY <1>3, <2>1, <2>2, <2>4
<1>8. CASE SortName
  <2>1. /\ methods' = StableSort(NameLess, methods) /\ stage = "name" /\ stage' = "group"
        /\ UNCHANGED <<input, lower, overloads, count>>
    BY <1>8 DEF SortName, Sort
  <2>2. SortedAs(JavaMethod, methods, methods', ByName)
    BY <1>1, <2>1, NameOrdered
  <2>3. Ordered(methods', InOrderOfNames)
    BY <1>1, <1>2, <2>1, <2>2, SortKeeps DEF InOrderOfNames
  <2>4. SortedSoFar'
    BY <2>1, <2>3 DEF SortedSoFar
  <2> QED
    BY <1>3, <2>1, <2>2, <2>4
<1> QED
  BY <1>4, <1>5, <1>6, <1>7, <1>8

LEMMA GroupKeeps ==
  ASSUME Collapsing, Group
  PROVE  Collapsing'
<1> DEFINE upper == GroupEnd(lower)
           made == FoldLeft(Collapse, <<>>, SubSeq(methods, lower, upper))
<1>1. /\ stage = "group" /\ lower <= Len(methods)
      /\ overloads' = overloads \o made
      /\ count' = count + upper - lower + 1 /\ lower' = upper + 1
      /\ UNCHANGED <<input, methods, stage>>
  BY DEF Group
<1>2. /\ methods \in Seq(JavaMethod) /\ Ordered(methods, InOrderOfNames)
      /\ lower \in 1..Len(methods) /\ count = lower - 1
      /\ lower \in 2..Len(methods) => Differ(methods[lower - 1], methods[lower])
      /\ Grouped(methods, 1, lower - 1, overloads)
  BY <1>1 DEF Collapsing, Rearranged, SortedSoFar, WalkedSoFar
<1>3. /\ upper \in lower..Len(methods)
      /\ upper < Len(methods) => Differ(methods[upper], methods[upper + 1])
      /\ \A k, l \in lower..upper : ~Differ(methods[k], methods[l])
  BY <1>2, GroupEndIs
<1>4. Grouped(methods, lower, upper, made)
  BY <1>2, <1>3, GroupCollapses
<1> HIDE DEF upper, made
<1>5. \A k \in 1..lower - 1, l \in lower..upper : ~Same(methods[k], methods[l])
  <2>1. lower > 1 => Differ(methods[lower - 1], methods[lower])
    BY <1>2
  <2>2. lower..upper \subseteq lower..Len(methods)
    BY <1>3
  <2> QED
    BY <1>2, <2>1, <2>2, GroupsApart
<1>6. Grouped(methods, 1, upper, overloads \o made)
  BY <1>2, <1>3, <1>4, <1>5, GroupsJoin
<1>7. Rearranged' /\ SortedSoFar'
  BY <1>1 DEF Collapsing, Rearranged, SortedSoFar
<1>8. /\ lower' \in 1..Len(methods) + 1 /\ lower' - 1 = upper /\ count' = lower' - 1
      /\ lower' \in 2..Len(methods) => Differ(methods[lower' - 1], methods[lower'])
  BY <1>1, <1>2, <1>3
<1>9. WalkedSoFar'
  BY <1>1, <1>6, <1>8 DEF WalkedSoFar
<1> QED
  BY <1>7, <1>9 DEF Collapsing

LEMMA NextKeepsCollapsing ==
  ASSUME Collapsing, [Next]_vars
  PROVE  Collapsing'
<1>1. CASE Finish
  <2>1. stage = "group" /\ stage' = "done" /\ lower > Len(methods)
        /\ UNCHANGED <<input, methods, lower, overloads, count>>
    BY <1>1 DEF Finish
  <2>2. lower = Len(methods) + 1
    BY <2>1 DEF Collapsing, Rearranged, WalkedSoFar
  <2> QED
    BY <2>1, <2>2 DEF Collapsing, Rearranged, SortedSoFar, WalkedSoFar
<1>2. CASE UNCHANGED vars
  BY <1>2 DEF Collapsing, Rearranged, SortedSoFar, WalkedSoFar, vars
<1> QED
  BY <1>1, <1>2, SortArityKeeps, SortsKeep, GroupKeeps DEF Next

LEMMA CollapsingIsTyped ==
  ASSUME Collapsing
  PROVE  TypeOK
<1>1. methods \in Seq(JavaMethod) /\ ToSet(methods) = ToSet(input)
  BY DEF Collapsing, Rearranged
<1>2. methods \in Seq(ToSet(input))
  <2>1. DOMAIN methods = 1..Len(methods) /\ Len(methods) \in Nat
    BY <1>1
  <2>2. \A k \in 1..Len(methods) : methods[k] \in ToSet(methods)
    BY <2>1 DEF ToSet
  <2>3. methods = [k \in 1..Len(methods) |-> methods[k]]
    BY <1>1, <2>1
  <2>4. methods \in [1..Len(methods) -> ToSet(input)]
    BY <1>1, <2>2, <2>3
  <2> QED
    BY <2>1, <2>4, SeqDef, Zenon
<1>3. stage \in ToSet(Passes) \cup {"done"}
  <2>1. stage \in {"arity", "returned", "args", "generic", "rank", "name", "group", "done"}
    BY DEF Collapsing, SortedSoFar
  <2>2. /\ DOMAIN Passes = 1..7
        /\ Passes[1] = "arity" /\ Passes[2] = "returned" /\ Passes[3] = "args"
        /\ Passes[4] = "generic" /\ Passes[5] = "rank" /\ Passes[6] = "name"
        /\ Passes[7] = "group"
    BY DEF Passes
  <2> QED
    BY <2>1, <2>2 DEF ToSet
<1>4. lower \in 1..Len(methods) + 1 /\ count \in Nat
  BY <1>1 DEF Collapsing, WalkedSoFar
<1>5. \A i \in DOMAIN overloads : DOMAIN overloads[i] = {"ret", "name", "args"}
  <2>1. overloads \in Seq(Overload)
    BY Zenon DEF Collapsing, WalkedSoFar, Grouped
  <2>2. \A i \in DOMAIN overloads : overloads[i] \in Overload
    BY <2>1
  <2> QED
    BY <2>2 DEF Overload
<1> QED
  BY <1>2, <1>3, <1>4, <1>5 DEF TypeOK

(* What the groups in the end say of the overloads: each method is kept,   *)
(* no overload is of no method, and no two have the same parameters.       *)
LEMMA GroupedKeeps ==
  ASSUME NEW t \in Seq(JavaMethod), NEW v, Grouped(t, 1, Len(t), v)
  PROVE  /\ v \in Seq(Overload)
         /\ \A m \in ToSet(t) : \E i \in DOMAIN v : Takes(v[i], m)
         /\ \A i \in DOMAIN v : \E m \in ToSet(t) : ~Differ(v[i], m)
<1>1. v \in Seq(Overload) /\ DOMAIN v = 1..Len(v) /\ DOMAIN t = 1..Len(t)
  <2>1. v \in Seq(Overload)
    BY Zenon DEF Grouped
  <2> QED
    BY <2>1
<1>2. PICK g \in [1..Len(t) -> 1..Len(v)] :
        /\ \A i \in 1..Len(v) : \E l \in 1..Len(t) : g[l] = i
        /\ \A l \in 1..Len(t) : Stands(v[g[l]], t[l])
  BY Zenon DEF Grouped
<1>3. ASSUME NEW o \in Overload, NEW m \in JavaMethod, Stands(o, m)
      PROVE  Takes(o, m) /\ ~Differ(o, m)
  <2>1. DOMAIN o.args = 1..Len(m.args) /\ o.args \in Seq(OrTypes)
    BY <1>3 DEF Overload, Stands
  <2>2. ASSUME NEW k \in DOMAIN o.args
        PROVE  o.args[k].rank = m.args[k].rank /\ m.args[k].alt[1] \in ToSet(o.args[k].alt)
    <3>1. StandsFor(o.args[k], m.args[k])
      BY <1>3, <2>1, <2>2 DEF Stands
    <3>2. o.args[k].alt \in Seq(Nat)
      BY <2>1, <2>2 DEF OrTypes
    <3>3. DOMAIN o.args[k].alt = 1..Len(o.args[k].alt)
      BY <3>2
    <3> QED
      BY <3>1, <3>3, Zenon DEF StandsFor, ToSet
  <2> QED
    BY <1>3, <2>2 DEF Stands, Takes, Differ
<1>4. \A l \in 1..Len(t) : /\ g[l] \in 1..Len(v) /\ v[g[l]] \in Overload
                           /\ t[l] \in JavaMethod /\ t[l] \in ToSet(t)
  <2>1. \A l \in 1..Len(t) : g[l] \in 1..Len(v)
    OBVIOUS
  <2>2. \A l \in 1..Len(t) : t[l] \in JavaMethod /\ t[l] \in ToSet(t)
    BY <1>1 DEF ToSet
  <2> QED
    BY <1>1, <2>1, <2>2
<1>5. ASSUME NEW m \in ToSet(t)
      PROVE  \E i \in DOMAIN v : Takes(v[i], m)
  <2>1. PICK l \in 1..Len(t) : m = t[l]
    BY <1>1 DEF ToSet
  <2>2. g[l] \in DOMAIN v /\ Takes(v[g[l]], m)
    BY <1>1, <1>2, <1>3, <1>4, <2>1
  <2> QED
    BY <2>2
<1>6. ASSUME NEW i \in DOMAIN v
      PROVE  \E m \in ToSet(t) : ~Differ(v[i], m)
  <2>1. PICK l \in 1..Len(t) : g[l] = i
    BY <1>1, <1>2
  <2>2. t[l] \in ToSet(t) /\ ~Differ(v[i], t[l])
    <3>1. v[i] \in Overload /\ t[l] \in JavaMethod /\ Stands(v[i], t[l])
      BY <1>2, <1>4, <2>1
    <3> QED
      BY <1>3, <1>4, <3>1
  <2> QED
    BY <2>2
<1> QED
  BY <1>1, <1>5, <1>6

LEMMA GroupedApart ==
  ASSUME NEW t \in Seq(JavaMethod), NEW v, Grouped(t, 1, Len(t), v),
         NEW i \in DOMAIN v, NEW j \in DOMAIN v, i # j, ~Differ(v[i], v[j])
  PROVE  ~SameShape(v[i].args, v[j].args)
<1> SUFFICES ASSUME SameShape(v[i].args, v[j].args) PROVE FALSE
  OBVIOUS
<1>1. v \in Seq(Overload) /\ DOMAIN v = 1..Len(v)
  <2>1. v \in Seq(Overload)
    BY Zenon DEF Grouped
  <2> QED
    BY <2>1
<1>2. PICK g \in [1..Len(t) -> 1..Len(v)] :
        /\ \A x \in 1..Len(v) : \E l \in 1..Len(t) : g[l] = x
        /\ \A l \in 1..Len(t) : Stands(v[g[l]], t[l])
        /\ \A k, l \in 1..Len(t) : g[k] = g[l] <=> Same(t[k], t[l])
  BY Zenon DEF Grouped
<1>3. PICK k \in 1..Len(t) : g[k] = i
  BY <1>1, <1>2
<1>4. PICK l \in 1..Len(t) : g[l] = j
  BY <1>1, <1>2
<1>5. /\ t[k] \in JavaMethod /\ t[l] \in JavaMethod
      /\ v[i] \in Overload /\ v[j] \in Overload
      /\ Stands(v[i], t[k]) /\ Stands(v[j], t[l])
  BY <1>1, <1>2, <1>3, <1>4
<1>6. Same(t[k], t[l])
  BY <1>5, StandsShape DEF Same
<1> QED
  BY <1>2, <1>3, <1>4, <1>6

LEMMA CollapsedIsGrouped ==
  ASSUME Collapsing, stage = "done"
  PROVE  /\ methods \in Seq(JavaMethod) /\ ToSet(methods) = ToSet(input)
         /\ Grouped(methods, 1, Len(methods), overloads) /\ count = Len(input)
<1>1. /\ methods \in Seq(JavaMethod) /\ ToSet(methods) = ToSet(input)
      /\ Len(methods) = Len(input) /\ Len(methods) \in Nat
      /\ lower = Len(methods) + 1 /\ count = lower - 1
      /\ Grouped(methods, 1, lower - 1, overloads)
  BY DEF Collapsing, Rearranged, WalkedSoFar
<1>2. lower - 1 = Len(methods) /\ count = Len(input)
  BY <1>1
<1> QED
  BY <1>1, <1>2

LEMMA CollapsedIsComplete ==
  ASSUME Collapsing
  PROVE  Complete
<1> SUFFICES ASSUME stage = "done" PROVE Complete
  BY DEF Complete, EveryMethodKept, AllCounted
<1> QED
  BY CollapsedIsGrouped, GroupedKeeps DEF Complete, EveryMethodKept, AllCounted

LEMMA CollapsedIsDistinct ==
  ASSUME Collapsing
  PROVE  NoRedeclaration
<1> SUFFICES ASSUME stage = "done",
                    NEW i \in DOMAIN overloads, NEW j \in DOMAIN overloads,
                    i # j, ~Differ(overloads[i], overloads[j])
             PROVE  ~SameShape(overloads[i].args, overloads[j].args)
  BY Zenon DEF NoRedeclaration
<1> QED
  BY CollapsedIsGrouped, GroupedApart, Zenon

-----------------------------------------------------------------------------
(* Theorem: whatever the class, the collapsing goes through the states that *)
(* Collapsing describes.                                                    *)
THEOREM CollapsingHolds == Spec => []Collapsing
<1>1. Init => Collapsing
  BY InputsType, StartsCollapsing DEF Init
<1>2. Collapsing /\ [Next]_vars => Collapsing'
  BY NextKeepsCollapsing
<1> QED
  BY <1>1, <1>2, PTL DEF Spec

-----------------------------------------------------------------------------
(* Places *)

(* The places of S in a sequence of n, in order. *)
LEMMA PlacesAre ==
  ASSUME NEW T, NEW t \in Seq(T), NEW S
  PROVE  /\ Places(t, S) \in Seq(Nat)
         /\ \A i \in 1..Len(Places(t, S)) : Places(t, S)[i] \in (1..Len(t)) \cap S
         /\ \A i, j \in 1..Len(Places(t, S)) :
              i < j => Places(t, S)[i] < Places(t, S)[j]
         /\ \A k \in (1..Len(t)) \cap S :
              \E i \in 1..Len(Places(t, S)) : Places(t, S)[i] = k
<1> DEFINE n == Len(t)
           numbers == [k \in 1..n |-> k]
           r == Places(t, S)
<1>1. n \in Nat /\ DOMAIN t = 1..n
  OBVIOUS
<1>2. numbers \in Seq(Nat) /\ Len(numbers) = n /\ \A k \in 1..n : numbers[k] = k
  <2>1. numbers \in [1..n -> Nat] /\ DOMAIN numbers = 1..n
    BY <1>1
  <2>2. \A k \in 1..n : numbers[k] = k
    OBVIOUS
  <2> HIDE DEF numbers
  <2> QED
    BY <1>1, <2>1, <2>2
<1>3. r = At(numbers, S)
  BY <1>1 DEF Places
<1> HIDE DEF numbers, r
<1>4. Selects(Nat, numbers, S, n, r)
  <2>1. Selects(Nat, numbers, S, Len(numbers), At(numbers, S))
    BY <1>2, AtIs, Zenon
  <2> QED
    BY <1>2, <1>3, <2>1, Zenon
<1>5. PICK pos \in [1..Len(r) -> (1..n) \cap S] :
        /\ \A i \in 1..Len(r) : r[i] = numbers[pos[i]]
        /\ \A i, j \in 1..Len(r) : i < j => pos[i] < pos[j]
        /\ \A k \in (1..n) \cap S : \E i \in 1..Len(r) : pos[i] = k
  BY <1>4, Zenon DEF Selects
<1>6. r \in Seq(Nat)
  BY <1>4, Zenon DEF Selects
<1>7. \A i \in 1..Len(r) : pos[i] \in (1..n) \cap S /\ r[i] = pos[i]
  BY <1>2, <1>5
<1>8. /\ \A i \in 1..Len(r) : r[i] \in (1..n) \cap S
      /\ \A i, j \in 1..Len(r) : i < j => r[i] < r[j]
      /\ \A k \in (1..n) \cap S : \E i \in 1..Len(r) : r[i] = k
  BY <1>5, <1>7
<1> QED
  BY <1>6, <1>8 DEF r, n

(* A class is between braces. *)
Opens(x) == x.is = "{"
Closes(x) == x.is = "}"

(* Where the pieces begin and end. *)
Ends_(t) == Places(t, {k \in DOMAIN t : Closes(t[k])})
From(t, p) == IF p = 1 THEN 1 ELSE Ends_(t)[p - 1] + 1
Upto(t, p) == IF p = Len(Ends_(t)) + 1 THEN Len(t) ELSE Ends_(t)[p] - 1

LEMMA PiecesAre ==
  ASSUME NEW t \in Seq(Token)
  PROVE  /\ Ends_(t) \in Seq(Nat)
         /\ Pieces(t) = [p \in 1..Len(Ends_(t)) + 1 |-> SubSeq(t, From(t, p), Upto(t, p))]
         /\ \A p \in 1..Len(Ends_(t)) + 1 :
              /\ From(t, p) \in 1..Len(t) + 1 /\ Upto(t, p) \in From(t, p) - 1..Len(t)
              /\ \A k \in From(t, p)..Upto(t, p) : ~Closes(t[k])
<1> DEFINE S == {k \in DOMAIN t : Closes(t[k])}
           ends == Ends_(t)
           n == Len(ends)
<1>1. /\ ends \in Seq(Nat)
      /\ \A i \in 1..n : ends[i] \in (1..Len(t)) \cap S
      /\ \A i, j \in 1..n : i < j => ends[i] < ends[j]
      /\ \A k \in (1..Len(t)) \cap S : \E i \in 1..n : ends[i] = k
  <2>1. ends = Places(t, S)
    BY DEF Ends_
  <2> HIDE DEF S
  <2>2. /\ Places(t, S) \in Seq(Nat)
        /\ \A i \in 1..Len(Places(t, S)) : Places(t, S)[i] \in (1..Len(t)) \cap S
        /\ \A i, j \in 1..Len(Places(t, S)) :
             i < j => Places(t, S)[i] < Places(t, S)[j]
        /\ \A k \in (1..Len(t)) \cap S :
             \E i \in 1..Len(Places(t, S)) : Places(t, S)[i] = k
    BY PlacesAre
  <2> QED
    BY <2>1, <2>2, Zenon
<1>2. Pieces(t) = [p \in 1..n + 1 |-> SubSeq(t, From(t, p), Upto(t, p))]
  BY DEF Pieces, Ends_, From, Upto, Closes
<1>3. Len(t) \in Nat /\ n \in Nat /\ DOMAIN t = 1..Len(t)
  <2> HIDE DEF ends, S
  <2> QED
    BY <1>1
<1>4. \A k \in 1..Len(t) : k \in S <=> Closes(t[k])
  BY <1>3
<1>5. \A p \in 1..n + 1 : /\ From(t, p) = IF p = 1 THEN 1 ELSE ends[p - 1] + 1
                          /\ Upto(t, p) = IF p = n + 1 THEN Len(t) ELSE ends[p] - 1
  BY DEF From, Upto
<1> HIDE DEF ends, n, S
<1>6. ASSUME NEW p \in 1..n + 1
      PROVE  /\ From(t, p) \in 1..Len(t) + 1 /\ Upto(t, p) \in From(t, p) - 1..Len(t)
             /\ \A k \in From(t, p)..Upto(t, p) : ~Closes(t[k])
  <2>1. p # 1 => p - 1 \in 1..n /\ ends[p - 1] \in 1..Len(t)
    BY <1>1, <1>3
  <2>2. p # n + 1 => p \in 1..n /\ ends[p] \in 1..Len(t)
    BY <1>1, <1>3
  <2>3. p # 1 /\ p # n + 1 => ends[p - 1] < ends[p]
    BY <1>1, <1>3, <2>1, <2>2
  <2>4. From(t, p) \in 1..Len(t) + 1 /\ Upto(t, p) \in From(t, p) - 1..Len(t)
    BY <1>3, <1>5, <2>1, <2>2, <2>3, SMTT(40)
  <2>5. ASSUME NEW k \in From(t, p)..Upto(t, p), Closes(t[k]) PROVE FALSE
    <3>1. k \in (1..Len(t)) \cap S
      <4>1. k \in 1..Len(t)
        BY <1>3, <2>4
      <4> QED
        BY <1>4, <2>5, <4>1
    <3>2. PICK i \in 1..n : ends[i] = k
      BY <1>1, <3>1
    <3>3. p # 1 => p - 1 < i
      <4> SUFFICES ASSUME p # 1, i <= p - 1 PROVE FALSE
        BY <1>3, <3>2
      <4>1. ends[i] <= ends[p - 1]
        BY <1>1, <1>3, <2>1, <3>2
      <4> QED
        BY <1>3, <1>5, <2>1, <2>4, <3>2, <4>1
    <3>4. p # n + 1 => i < p
      <4> SUFFICES ASSUME p # n + 1, p <= i PROVE FALSE
        BY <1>3, <3>2
      <4>1. ends[p] <= ends[i]
        BY <1>1, <1>3, <2>2, <3>2, SMTT(40)
      <4> QED
        BY <1>3, <1>5, <2>2, <2>4, <3>2, <4>1
    <3> QED
      BY <1>3, <3>2, <3>3, <3>4
  <2> QED
    BY <2>4, <2>5
<1> QED
  BY <1>1, <1>2, <1>6 DEF n, ends

(* From the first brace on, and all if there is none. *)
LEMMA AfterBraceIs ==
  ASSUME NEW piece \in Seq(Token)
  PROVE  \E c \in 1..Len(piece) + 1 :
           /\ AfterBrace(piece) = SubSeq(piece, c, Len(piece))
           /\ c # 1 => Opens(piece[c - 1])
           /\ \A k \in 1..Len(piece) : Opens(piece[k]) => c # 1 /\ c - 1 <= k
<1> DEFINE n == Len(piece)
           opens == {k \in DOMAIN piece : Opens(piece[k])}
<1>1. n \in Nat /\ DOMAIN piece = 1..n
  OBVIOUS
<1>2. AfterBrace(piece) = IF opens = {} THEN piece ELSE SubSeq(piece, Min(opens) + 1, n)
  BY DEF AfterBrace, Opens
<1>3. /\ opens \in SUBSET (1..n)
      /\ \A k \in 1..n : k \in opens <=> Opens(piece[k])
  BY <1>1
<1> HIDE DEF opens, n
<1>4. CASE opens = {}
  <2>1. SubSeq(piece, 1, n) = piece
    BY DEF n
  <2>2. AfterBrace(piece) = SubSeq(piece, 1, n)
    BY <1>2, <1>4, <2>1
  <2>3. \A k \in 1..n : ~Opens(piece[k])
    BY <1>3, <1>4
  <2>4. 1 \in 1..n + 1
    BY <1>1
  <2> QED
    BY <2>2, <2>3, <2>4 DEF n
<1>5. CASE opens # {}
  <2>1. PICK m \in opens : \A k \in opens : m <= k
    <3>1. opens \in SUBSET Nat
      <4>1. \A k \in opens : k \in 1..n
        BY <1>3
      <4>2. \A k \in opens : k \in Nat
        BY <1>1, <4>1
      <4> QED
        BY <4>2
    <3> QED
      BY <1>5, <3>1, LeastNumber
  <2>2. Min(opens) \in opens /\ \A k \in opens : Min(opens) <= k
    BY <2>1 DEF Min
  <2>3. /\ Min(opens) + 1 \in 1..n + 1 /\ Min(opens) + 1 # 1
        /\ (Min(opens) + 1) - 1 = Min(opens)
    <3>1. Min(opens) \in 1..n
      BY <1>3, <2>2
    <3> QED
      BY <1>1, <3>1
  <2> DEFINE c == Min(opens) + 1
  <2>4. /\ c \in 1..n + 1 /\ AfterBrace(piece) = SubSeq(piece, c, n)
        /\ c # 1 /\ Opens(piece[c - 1])
        /\ \A k \in 1..n : Opens(piece[k]) => c - 1 <= k
    BY <1>2, <1>3, <1>5, <2>2, <2>3
  <2> HIDE DEF c
  <2> QED
    BY <2>4 DEF n
<1> QED
  BY <1>4, <1>5

-----------------------------------------------------------------------------
(* The text *)

(* Sequence t is the sequences of s, one after the other; L[j] is where the *)
(* j-th ends.                                                               *)
Laid(s, t, L) ==
  /\ L \in [0..Len(s) -> Nat] /\ L[0] = 0 /\ Len(t) = L[Len(s)]
  /\ \A j \in 1..Len(s) : L[j] = L[j - 1] + Len(s[j])
  /\ \A j, k \in 0..Len(s) : j <= k => L[j] <= L[k]
  /\ \A j \in 1..Len(s) : \A i \in 1..Len(s[j]) : t[L[j - 1] + i] = s[j][i]
  /\ \A q \in 1..Len(t) : \E j \in 1..Len(s) : L[j - 1] < q /\ q <= L[j]

(* ... up to the m-th. *)
LaidUpto(s, f, L, m) ==
  /\ \A j \in 0..m : L[j] <= L[m]
  /\ \A j \in 1..m : \A i \in 1..Len(s[j]) : f[m][L[j - 1] + i] = s[j][i]
  /\ \A q \in 1..L[m] : \E j \in 1..m : L[j - 1] < q /\ q <= L[j]

LEMMA FlattenLays ==
  ASSUME NEW T, NEW s \in Seq(Seq(T))
  PROVE  FlattenSeq(s) \in Seq(T) /\ \E L : Laid(s, FlattenSeq(s), L)
<1> DEFINE n == Len(s)
<1>1. n \in Nat /\ \A i \in 1..n : s[i] \in Seq(T) /\ Len(s[i]) \in Nat
  OBVIOUS
<1>2. PICK f : Concatenates(T, s, f)
  BY FlattenIs
<1>3. /\ f \in [0..n -> Seq(T)] /\ f[0] = <<>>
      /\ \A i \in 0..n - 1 : f[i + 1] = f[i] \o s[i + 1]
      /\ FlattenSeq(s) = f[n]
  BY <1>2, Zenon DEF Concatenates
<1> HIDE DEF n
<1> DEFINE L == [j \in 0..n |-> Len(f[j])]
<1>4. /\ L \in [0..n -> Nat] /\ L[0] = 0
      /\ \A j \in 0..n : L[j] = Len(f[j]) /\ f[j] \in Seq(T)
  <2>1. \A j \in 0..n : f[j] \in Seq(T) /\ Len(f[j]) \in Nat
    BY <1>3
  <2>2. 0 \in 0..n
    BY <1>1
  <2>3. Len(<<>>) = 0
    OBVIOUS
  <2> QED
    BY <1>3, <2>1, <2>2, <2>3
<1> HIDE DEF L
<1>5. \A j \in 0..n : L[j] \in Nat
  BY <1>4
<1>6. ASSUME NEW m \in 0..n - 1
      PROVE  /\ m \in 0..n /\ m + 1 \in 1..n /\ m + 1 \in 0..n /\ (m + 1) - 1 = m
             /\ L[m + 1] = L[m] + Len(s[m + 1]) /\ Len(s[m + 1]) \in Nat
             /\ \A q \in 1..L[m] : f[m + 1][q] = f[m][q]
             /\ \A i \in 1..Len(s[m + 1]) : f[m + 1][L[m] + i] = s[m + 1][i]
  <2>1. m \in 0..n /\ m + 1 \in 1..n /\ m + 1 \in 0..n /\ (m + 1) - 1 = m
    BY <1>1
  <2>2. f[m] \in Seq(T) /\ s[m + 1] \in Seq(T) /\ f[m + 1] = f[m] \o s[m + 1]
    BY <1>1, <1>3, <1>4, <2>1
  <2>3. L[m] = Len(f[m]) /\ L[m + 1] = Len(f[m + 1])
    BY <1>4, <2>1
  <2> DEFINE a == f[m]
             b == s[m + 1]
  <2>4. /\ Len(a \o b) = Len(a) + Len(b) /\ Len(a) \in Nat /\ Len(b) \in Nat
        /\ \A q \in 1..Len(a) : (a \o b)[q] = a[q]
        /\ \A i \in 1..Len(b) : (a \o b)[Len(a) + i] = b[i]
    <3>1. a \in Seq(T) /\ b \in Seq(T)
      BY <2>2
    <3> HIDE DEF a, b
    <3> QED
      BY <3>1
  <2> QED
    BY <2>1, <2>2, <2>3, <2>4
<1>7. LaidUpto(s, f, L, 0)
  BY <1>4 DEF LaidUpto
<1>8. ASSUME NEW m \in 0..n - 1, LaidUpto(s, f, L, m)
      PROVE  LaidUpto(s, f, L, m + 1)
  <2>1. /\ \A j \in 0..m : L[j] <= L[m]
        /\ \A j \in 1..m : \A i \in 1..Len(s[j]) : f[m][L[j - 1] + i] = s[j][i]
        /\ \A q \in 1..L[m] : \E j \in 1..m : L[j - 1] < q /\ q <= L[j]
    BY <1>8 DEF LaidUpto
  <2>2. /\ m \in 0..n /\ m \in Nat /\ L[m] \in Nat /\ L[m + 1] \in Nat
        /\ L[m + 1] = L[m] + Len(s[m + 1]) /\ Len(s[m + 1]) \in Nat
    BY <1>1, <1>5, <1>6
  <2>3. ASSUME NEW j \in 0..m + 1 PROVE L[j] <= L[m + 1]
    <3>1. CASE j = m + 1
      BY <2>2, <3>1
    <3>2. CASE j # m + 1
      <4>1. j \in 0..m /\ j \in 0..n
        BY <1>1, <2>2, <3>2
      <4> QED
        BY <1>5, <2>1, <2>2, <4>1, SMTT(40)
    <3> QED
      BY <3>1, <3>2
  <2>4. ASSUME NEW j \in 1..m + 1, NEW i \in 1..Len(s[j])
        PROVE  f[m + 1][L[j - 1] + i] = s[j][i]
    <3>1. CASE j = m + 1
      BY <1>6, <3>1
    <3>2. CASE j # m + 1
      <4>1. j \in 1..m /\ j \in 0..n - 1 /\ j - 1 \in 0..n - 1 /\ (j - 1) + 1 = j
        BY <1>1, <2>2, <3>2
      <4>2. L[j] = L[j - 1] + Len(s[j]) /\ L[j] <= L[m] /\ L[j] \in Nat /\ L[j - 1] \in Nat
        <5>1. L[(j - 1) + 1] = L[j - 1] + Len(s[(j - 1) + 1]) /\ j - 1 \in 0..n /\ j \in 0..n
          BY <1>1, <1>6, <4>1
        <5>2. j \in 0..m
          BY <2>2, <4>1
        <5> QED
          BY <1>5, <2>1, <4>1, <5>1, <5>2
      <4>3. L[j - 1] + i \in 1..L[m]
        <5>1. j \in 1..n
          BY <1>1, <2>2, <4>1
        <5>2. Len(s[j]) \in Nat
          BY <1>1, <5>1
        <5>3. i \in Nat /\ 1 <= i /\ i <= Len(s[j])
          BY <5>2
        <5>4. L[m] \in Nat /\ L[j - 1] \in Nat /\ L[j - 1] + Len(s[j]) <= L[m]
          BY <2>2, <4>2
        <5> QED
          BY <5>2, <5>3, <5>4, SMTT(40)
      <4>4. f[m + 1][L[j - 1] + i] = f[m][L[j - 1] + i]
        BY <1>6, <4>3
      <4> QED
        BY <2>1, <4>1, <4>4
    <3> QED
      BY <3>1, <3>2
  <2>5. ASSUME NEW q \in 1..L[m + 1]
        PROVE  \E j \in 1..m + 1 : L[j - 1] < q /\ q <= L[j]
    <3>1. CASE q <= L[m]
      <4>1. PICK j \in 1..m : L[j - 1] < q /\ q <= L[j]
        BY <2>1, <2>2, <3>1
      <4>2. j \in 1..m + 1
        BY <2>2
      <4> QED
        BY <4>1, <4>2
    <3>2. CASE ~(q <= L[m])
      <4>1. m + 1 \in 1..m + 1 /\ (m + 1) - 1 = m /\ L[m] < q /\ q <= L[m + 1]
        BY <2>2, <3>2
      <4> QED
        BY <4>1
    <3> QED
      BY <3>1, <3>2
  <2> QED
    BY <2>3, <2>4, <2>5 DEF LaidUpto
<1> DEFINE fails == {m \in 0..n : ~LaidUpto(s, f, L, m)}
<1>9. fails = {}
  <2> SUFFICES ASSUME fails # {} PROVE FALSE
    OBVIOUS
  <2>1. fails \in SUBSET Nat
    BY <1>1
  <2>2. PICK m \in fails : \A k \in fails : m <= k
    BY <2>1, LeastNumber
  <2>3. m \in 0..n /\ ~LaidUpto(s, f, L, m)
    OBVIOUS
  <2>4. m # 0
    BY <1>7, <2>3
  <2>5. m - 1 \in 0..n /\ m - 1 \in 0..n - 1 /\ (m - 1) + 1 = m /\ ~(m <= m - 1)
    BY <1>1, <2>3, <2>4
  <2>6. LaidUpto(s, f, L, m - 1)
    BY <2>2, <2>5
  <2> QED
    BY <1>8, <2>3, <2>5, <2>6
<1>10. \A m \in 0..n : LaidUpto(s, f, L, m)
  BY <1>9
<1> HIDE DEF fails
<1>11. n \in 0..n /\ LaidUpto(s, f, L, n)
  BY <1>1, <1>10
<1>12. \A j, k \in 0..n : j <= k => L[j] <= L[k]
  <2> SUFFICES ASSUME NEW j \in 0..n, NEW k \in 0..n, j <= k PROVE L[j] <= L[k]
    OBVIOUS
  <2>1. LaidUpto(s, f, L, k) /\ j \in 0..k
    BY <1>1, <1>10
  <2> QED
    BY <2>1 DEF LaidUpto
<1>13. \A j \in 1..n : L[j] = L[j - 1] + Len(s[j])
  <2> SUFFICES ASSUME NEW j \in 1..n PROVE L[j] = L[j - 1] + Len(s[j])
    OBVIOUS
  <2>1. j - 1 \in 0..n - 1 /\ (j - 1) + 1 = j
    BY <1>1
  <2>2. L[(j - 1) + 1] = L[j - 1] + Len(s[(j - 1) + 1])
    BY <1>6, <2>1
  <2> QED
    BY <2>1, <2>2
<1>14. f[n] \in Seq(T) /\ Len(f[n]) = L[n]
  BY <1>4, <1>11
<1>15. Laid(s, f[n], L)
  <2>1. /\ \A j \in 1..n : \A i \in 1..Len(s[j]) : f[n][L[j - 1] + i] = s[j][i]
        /\ \A q \in 1..L[n] : \E j \in 1..n : L[j - 1] < q /\ q <= L[j]
    BY <1>11, Zenon DEF LaidUpto
  <2> QED
    BY <1>4, <1>12, <1>13, <1>14, <2>1, Zenon DEF Laid, n
<1> QED
  BY <1>3, <1>14, <1>15

-----------------------------------------------------------------------------
(* The members of a piece *)

(* What a member has, and the places of the tokens that are not erased. *)
What(is) == IF is = "method" THEN JavaMethod ELSE [name : Nat, type : JavaType]
Bracketed(piece, k) ==
  Cardinality({j \in 1..k : piece[j].is = "<"})
    - Cardinality({j \in 1..k : piece[j].is = ">"})
Unerased(piece) == {k \in DOMAIN piece : Bracketed(piece, k) = 0 /\ piece[k].is # ">"}
Ended(piece, is) ==
  {k \in DOMAIN piece : piece[k].is = is /\ k < Len(piece) /\ piece[k + 1].is = ";"}

LEMMA ErasedIs ==
  ASSUME NEW piece \in Seq(Token)
  PROVE  Selects(Token, piece, Unerased(piece), Len(piece), Erased(piece))
<1>1. Erased(piece) = At(piece, Unerased(piece))
  BY DEF Erased, Unerased, Bracketed
<1>2. Selects(Token, piece, Unerased(piece), Len(piece), At(piece, Unerased(piece)))
  BY AtIs, Zenon
<1> QED
  BY <1>1, <1>2, Zenon

(* line q[l] of piece is member l. *)
LinesAt(piece, is, lines, q) ==
  /\ lines \in Seq(What(is)) /\ q \in [1..Len(lines) -> 1..Len(piece)]
  /\ \A l \in 1..Len(lines) : lines[l] = piece[q[l]].what /\ piece[q[l]].is = is
  /\ \A k, l \in 1..Len(lines) : k < l => q[k] < q[l]
  /\ \A k \in Ended(piece, is) : \E l \in 1..Len(lines) : q[l] = k

LEMMA LinesAre ==
  ASSUME NEW piece \in Seq(Token), NEW is \in {"method", "field"}
  PROVE  \E q : LinesAt(piece, is, Lines(piece, is), q)
<1> DEFINE S == Ended(piece, is)
           r == At(piece, S)
           lines == [l \in DOMAIN r |-> r[l].what]
<1>1. Lines(piece, is) = lines
  BY DEF Lines, Ended
<1>2. Selects(Token, piece, S, Len(piece), r)
  BY AtIs, Zenon
<1> HIDE DEF r
<1>3. r \in Seq(Token)
  BY <1>2, Zenon DEF Selects
<1>4. PICK q \in [1..Len(r) -> (1..Len(piece)) \cap S] :
        /\ \A i \in 1..Len(r) : r[i] = piece[q[i]]
        /\ \A i, j \in 1..Len(r) : i < j => q[i] < q[j]
        /\ \A k \in (1..Len(piece)) \cap S : \E i \in 1..Len(r) : q[i] = k
  BY <1>2, Zenon DEF Selects
<1>5. DOMAIN r = 1..Len(r) /\ Len(r) \in Nat /\ DOMAIN piece = 1..Len(piece)
  BY <1>3
<1>6. ASSUME NEW l \in 1..Len(r)
      PROVE  /\ q[l] \in 1..Len(piece) /\ r[l] \in Token /\ r[l].is = is
             /\ r[l] = piece[q[l]] /\ lines[l] = r[l].what
  <2>1. q[l] \in (1..Len(piece)) \cap S /\ r[l] \in Token /\ r[l] = piece[q[l]]
    BY <1>3, <1>4
  <2>2. piece[q[l]].is = is
    BY <2>1 DEF Ended
  <2>3. lines[l] = r[l].what
    BY <1>5
  <2> QED
    BY <2>1, <2>2, <2>3
<1>7. \A x \in Token : x.is = is => x.what \in What(is)
  <2> SUFFICES ASSUME NEW x \in Token, x.is = is PROVE x.what \in What(is)
    OBVIOUS
  <2>1. CASE is = "method"
    BY <2>1 DEF Token, What
  <2>2. CASE is = "field"
    BY <2>2 DEF Token, What
  <2> QED
    BY <2>1, <2>2
<1>8. lines \in [1..Len(r) -> What(is)]
  BY <1>5, <1>6, <1>7
<1> HIDE DEF lines
<1>9. lines \in Seq(What(is)) /\ Len(lines) = Len(r)
  BY <1>5, <1>8
<1>10. q \in [1..Len(r) -> 1..Len(piece)]
  BY <1>4, <1>6
<1>11. \A k \in S : \E l \in 1..Len(lines) : q[l] = k
  <2>1. \A k \in S : k \in (1..Len(piece)) \cap S
    BY <1>5 DEF Ended
  <2> QED
    BY <1>4, <1>9, <2>1
<1>12. \A l \in 1..Len(lines) : lines[l] = piece[q[l]].what /\ piece[q[l]].is = is
  BY <1>6, <1>9
<1>13. \A k, l \in 1..Len(lines) : k < l => q[k] < q[l]
  BY <1>4, <1>9
<1>14. LinesAt(piece, is, lines, q)
  BY <1>9, <1>10, <1>11, <1>12, <1>13, Zenon DEF LinesAt
<1> QED
  BY <1>1, <1>14

-----------------------------------------------------------------------------
(* The pipeline *)

(* What javap has to print, and what is cut out of a text. *)
Names == {Unsuffixed(e.name) : e \in ToSet(jar)}
Printout == [k \in DOMAIN classes |-> Printed(EntryOf(classes[k]))]
Cut(t) == [p \in DOMAIN Pieces(t) |-> AfterBrace(Pieces(t)[p])]

(* The text is what javap prints of the classes of the jar, and the members *)
(* are cut out of it.                                                       *)
Reading ==
  /\ jar \in Jars
  /\ step \in {"javap", "split", "members", "collapse"} \/ members_list # <<>>
       => jar \in Seq(JarEntry) /\ jar # Unreadable
  /\ step \in {"split", "members", "collapse"} \/ members_list # <<>>
       => text = FlattenSeq(Printout) /\ classes # <<>>
  /\ step \in {"open", "javap", "split"} => members_list = <<>>
  /\ step \in {"members", "collapse"} => members_list # <<>>
  /\ members_list # <<>> => members_list = Cut(text)
  /\ classes \in Seq(Names)
  /\ text \in Seq(Token) /\ members_list \in Seq(Seq(Token))

(* The functions of the members of a piece, collapsed into the overloads v. *)
Functions_(piece, v) ==
  LET own == ClassName(Lines(piece, "method"))
      fields == Lines(piece, "field")
  IN  [k \in DOMAIN fields |-> FieldFunction(fields[k], own)]
      \o [k \in DOMAIN v |-> MethodFunction(v[k], own)]

Collapses(ms, v) ==
  \E t \in Seq(JavaMethod) : ToSet(t) = ToSet(ms) /\ Grouped(t, 1, Len(t), v)

(* Functions fs are made of piece, after its generic arguments are erased. *)
Wraps(piece, fs) ==
  \E v \in Seq(Overload) : /\ Collapses(Lines(Erased(piece), "method"), v)
                           /\ fs = Functions_(Erased(piece), v)

(* The pieces are processed in their order, and none is passed over. *)
Writing ==
  /\ step \in {"open", "javap", "split", "members", "collapse", "exit"}
  /\ status \in 0..255
  /\ wrapped \in Seq({Functions_(piece, v) : piece \in Seq(Token), v \in Seq(Overload)})
  /\ Len(wrapped) <= Len(members_list)
  /\ \A p \in 1..Len(wrapped) : Wraps(members_list[p], wrapped[p])
  /\ step = "collapse" =>
       Len(wrapped) < Len(members_list) /\ input = Lines(Piece, "method")
  /\ step \in {"open", "javap", "split"} => wrapped = <<>>
  /\ step # "exit" => results = <<>>
  /\ results # <<>> =>
       /\ members_list # <<>> /\ Len(wrapped) = Len(members_list)
       /\ results = [k \in DOMAIN classes |->
            [macro |-> Macro(classes[k]), signature |-> Signature(classes[k]),
             namespaces |-> Namespaces(classes[k]), functions |-> wrapped[k]]]

PipelineInv == Collapsing /\ Reading /\ Writing

LEMMA PipelineStarts ==
  ASSUME PipelineInit
  PROVE  PipelineInv
<1> USE DEF PipelineInit
<1>1. <<>> \in Seq(JavaMethod) /\ Len(<<>>) = 0
  OBVIOUS
<1>2. Grouped(methods, 1, lower - 1, overloads)
  BY GroupedNone
<1>3. Collapsing
  BY <1>1, <1>2 DEF Collapsing, Rearranged, SortedSoFar, WalkedSoFar, Ordered
<1>4. Reading
  <2>1. /\ classes = <<>> /\ text = <<>> /\ members_list = <<>>
        /\ step = "open" /\ jar \in Jars
    OBVIOUS
  <2>2. <<>> \in Seq(Names) /\ <<>> \in Seq(Token) /\ <<>> \in Seq(Seq(Token))
    OBVIOUS
  <2> QED
    BY <2>1, <2>2, Zenon DEF Reading
<1>5. Writing
  <2> DEFINE W == {Functions_(piece, v) : piece \in Seq(Token), v \in Seq(Overload)}
  <2>1. /\ wrapped = <<>> /\ members_list = <<>> /\ results = <<>>
        /\ step = "open" /\ status = 0
    OBVIOUS
  <2>2. <<>> \in Seq(W)
    OBVIOUS
  <2> HIDE DEF PipelineInit, W
  <2>3. \A p \in 1..Len(wrapped) : Wraps(members_list[p], wrapped[p])
    <3>1. 1..Len(wrapped) = {}
      BY <1>1, <2>1
    <3> QED
      BY <3>1
  <2>4. Len(wrapped) <= Len(members_list) /\ status \in 0..255
    BY <1>1, <2>1
  <2>5. wrapped \in Seq(W)
    BY <2>1, <2>2, Zenon
  <2> QED
    BY <2>1, <2>3, <2>4, <2>5 DEF Writing, W
<1> QED
  BY <1>3, <1>4, <1>5 DEF PipelineInv

LEMMA CollapsingUnchanged ==
  ASSUME Collapsing, UNCHANGED vars
  PROVE  Collapsing'
  BY NextKeepsCollapsing

(* A step that only sets the step, and the names, text or members. *)
LEMMA WritingUnchanged ==
  ASSUME Writing, step \in {"open", "javap", "split"},
         step' \in {"javap", "split", "members", "exit"}, status' \in 0..255,
         UNCHANGED <<wrapped, results>>, members_list' \in Seq(Seq(Token))
  PROVE  Writing'
<1> DEFINE W == {Functions_(piece, v) : piece \in Seq(Token), v \in Seq(Overload)}
<1>1. wrapped = <<>> /\ results = <<>> /\ wrapped' = <<>> /\ results' = <<>>
  BY DEF Writing
<1>2. wrapped' \in Seq(W)
  BY <1>1 DEF Writing
<1>3. Len(wrapped') <= Len(members_list') /\ 1..Len(wrapped') = {}
  <2>1. Len(<<>>) = 0 /\ Len(members_list') \in Nat
    OBVIOUS
  <2> QED
    BY <1>1, <2>1
<1>4. \A p \in 1..Len(wrapped') : Wraps(members_list'[p], wrapped'[p])
  BY <1>3
<1> HIDE DEF W
<1> QED
  BY <1>1, <1>2, <1>3, <1>4 DEF Writing, W

(* A step that leaves what is read, but for the step itself. *)
LEMMA ReadingUnchanged ==
  ASSUME Reading, UNCHANGED <<jar, classes, text, members_list>>,
         step' \in {"exit", step} \/ {step, step'} = {"members", "collapse"}
  PROVE  Reading'
<1>1. /\ Names' = Names /\ Printout' = Printout
      /\ Cut(text)' = Cut(text)
  BY DEF Names, Printout, EntryOf, Cut
<1> QED
  BY <1>1 DEF Reading

LEMMA ListKeeps ==
  ASSUME PipelineInv, List
  PROVE  PipelineInv'
<1>1. jar \in Seq(JarEntry)
  BY JarsType DEF PipelineInv, Reading, List
<1>2. /\ Listed \in Seq(JarEntry)
      /\ \A i \in 1..Len(Listed) : \E k \in 1..Len(jar) : Listed[i] = jar[k]
  <2> DEFINE S == {k \in DOMAIN jar : jar[k].name \notin Filtered}
  <2>1. Listed = At(jar, S)
    BY DEF Listed
  <2> HIDE DEF S
  <2>2. /\ At(jar, S) \in Seq(JarEntry)
        /\ \A i \in 1..Len(At(jar, S)) :
             \E k \in 1..Len(jar) : k \in S /\ At(jar, S)[i] = jar[k]
    BY <1>1, AtChooses
  <2> QED
    BY <2>1, <2>2, Zenon
<1>3. PICK wanted \in {At(Listed, {k \in DOMAIN Listed : Listed[k].name \notin Excluded})} :
        classes' = LET names == [k \in DOMAIN wanted |-> wanted[k].name]
                       sorted == StableSort(StringBefore, names)
                   IN  [k \in DOMAIN sorted |-> Unsuffixed(sorted[k])]
  BY DEF List
<1>4. /\ wanted \in Seq(JarEntry)
      /\ \A i \in 1..Len(wanted) : \E k \in 1..Len(Listed) : wanted[i] = Listed[k]
  <2> DEFINE S == {k \in DOMAIN Listed : Listed[k].name \notin Excluded}
  <2>1. wanted = At(Listed, S)
    OBVIOUS
  <2> HIDE DEF S
  <2>2. /\ At(Listed, S) \in Seq(JarEntry)
        /\ \A i \in 1..Len(At(Listed, S)) :
             \E k \in 1..Len(Listed) : k \in S /\ At(Listed, S)[i] = Listed[k]
    BY <1>2, AtChooses
  <2> QED
    BY <2>1, <2>2, Zenon
<1> DEFINE names == [k \in DOMAIN wanted |-> wanted[k].name]
           sorted == StableSort(StringBefore, names)
<1>5. /\ DOMAIN wanted = 1..Len(wanted) /\ Len(wanted) \in Nat
      /\ \A i \in 1..Len(wanted) : wanted[i] \in ToSet(jar) /\ wanted[i].name \in Seq(Nat)
  <2>1. DOMAIN wanted = 1..Len(wanted) /\ Len(wanted) \in Nat
    BY <1>4
  <2>2. ASSUME NEW i \in 1..Len(wanted)
        PROVE  wanted[i] \in ToSet(jar) /\ wanted[i].name \in Seq(Nat)
    <3>1. PICK k \in 1..Len(Listed) : wanted[i] = Listed[k]
      BY <1>4
    <3>2. PICK l \in 1..Len(jar) : Listed[k] = jar[l]
      BY <1>2
    <3>3. l \in DOMAIN jar /\ jar[l] \in JarEntry
      BY <1>1
    <3> QED
      BY <3>1, <3>2, <3>3 DEF ToSet, JarEntry
  <2> QED
    BY <2>1, <2>2
<1>6. names \in Seq(Seq(Nat)) /\ \A i \in 1..Len(names) : Unsuffixed(names[i]) \in Names
  <2>1. names \in [1..Len(wanted) -> Seq(Nat)] /\ DOMAIN names = 1..Len(wanted)
    BY <1>5
  <2>2. \A i \in 1..Len(wanted) : Unsuffixed(names[i]) \in Names
    BY <1>5 DEF Names
  <2> HIDE DEF names
  <2> DEFINE Words == Seq(Nat)
  <2>3. names \in Seq(Words)
    <3>1. names \in [1..Len(wanted) -> Words]
      BY <2>1
    <3> HIDE DEF Words
    <3> QED
      BY <1>5, <3>1
  <2>4. Len(names) = Len(wanted)
    BY <1>5, <2>1, <2>3
  <2> QED
    BY <2>2, <2>3, <2>4
<1>7. classes' = [k \in DOMAIN sorted |-> Unsuffixed(sorted[k])]
  BY <1>3
<1> HIDE DEF names
<1>8. SortedAs(Seq(Nat), names, sorted, Alphabetical)
  BY <1>6, NamesSorted
<1> HIDE DEF sorted
<1>9. PICK p \in [1..Len(names) -> 1..Len(names)] : \A k \in 1..Len(names) : sorted[k] = names[p[k]]
  BY <1>8, Zenon DEF SortedAs
<1>10. sorted \in Seq(Seq(Nat)) /\ Len(sorted) = Len(names) /\ DOMAIN sorted = 1..Len(names)
  BY <1>6, <1>8 DEF SortedAs
<1>11. \A k \in 1..Len(names) : Unsuffixed(sorted[k]) \in Names
  <2> SUFFICES ASSUME NEW k \in 1..Len(names) PROVE Unsuffixed(sorted[k]) \in Names
    OBVIOUS
  <2>1. p[k] \in 1..Len(names) /\ sorted[k] = names[p[k]]
    BY <1>9
  <2> QED
    BY <1>6, <2>1
<1>12. classes' \in Seq(Names)
  <2>1. classes' \in [1..Len(names) -> Names]
    BY <1>7, <1>10, <1>11
  <2>2. Len(names) \in Nat
    BY <1>6
  <2> QED
    BY <2>1, <2>2
<1>13. /\ UNCHANGED <<vars, jar, status, text, members_list, wrapped, results>>
       /\ step = "open" /\ step' = "javap"
  BY DEF List
<1>14. Collapsing'
  BY <1>13, CollapsingUnchanged DEF PipelineInv
<1>15. Reading'
  <2>1. Names' = Names /\ members_list' = <<>>
    BY <1>13 DEF Names, PipelineInv, Reading
  <2>2. /\ jar' \in Jars /\ jar' \in Seq(JarEntry) /\ classes' \in Seq(Names')
        /\ text' \in Seq(Token) /\ members_list' \in Seq(Seq(Token))
        /\ jar' # Unreadable
    BY <1>1, <1>12, <1>13, <2>1 DEF PipelineInv, Reading, List
  <2> QED
    BY <1>13, <2>1, <2>2 DEF Reading
<1>16. Writing'
  <2>1. status' \in 0..255 /\ members_list' \in Seq(Seq(Token))
    BY <1>13 DEF PipelineInv, Reading, Writing
  <2> QED
    BY <1>13, <2>1, WritingUnchanged DEF PipelineInv
<1> QED
  BY <1>14, <1>15, <1>16 DEF PipelineInv

LEMMA ReturnKeeps ==
  ASSUME PipelineInv, step \in {"open", "javap"}, NEW rc \in Int, Return(rc)
  PROVE  PipelineInv'
<1>1. /\ UNCHANGED <<vars, jar, classes, text, members_list, wrapped, results>>
      /\ step' = "exit" /\ status' \in 0..255
  BY DEF Return, Status
<1>2. Collapsing'
  BY <1>1, CollapsingUnchanged DEF PipelineInv
<1>3. Reading'
  BY <1>1, ReadingUnchanged DEF PipelineInv
<1>4. Writing'
  <2>1. members_list' \in Seq(Seq(Token))
    BY <1>1 DEF PipelineInv, Reading
  <2> QED
    BY <1>1, <2>1, WritingUnchanged DEF PipelineInv
<1> QED
  BY <1>2, <1>3, <1>4 DEF PipelineInv

(* Each name is of an entry of the jar. *)
LEMMA EntriesAre ==
  ASSUME classes \in Seq(Names), jar \in Seq(JarEntry)
  PROVE  /\ DOMAIN classes = 1..Len(classes) /\ Len(classes) \in Nat
         /\ \A k \in 1..Len(classes) :
              EntryOf(classes[k]) \in ToSet(jar) /\ EntryOf(classes[k]) \in JarEntry
<1>1. DOMAIN classes = 1..Len(classes) /\ Len(classes) \in Nat
  OBVIOUS
<1>2. ASSUME NEW k \in 1..Len(classes)
      PROVE  EntryOf(classes[k]) \in ToSet(jar)
  <2>1. classes[k] \in Names
    OBVIOUS
  <2>2. PICK e \in ToSet(jar) : classes[k] = Unsuffixed(e.name)
    BY <2>1 DEF Names
  <2> QED
    BY <2>2 DEF EntryOf
<1>3. ToSet(jar) \subseteq JarEntry
  BY DEF ToSet
<1> QED
  BY <1>1, <1>2, <1>3

LEMMA ConcatIs ==
  ASSUME NEW T, NEW a \in Seq(T), NEW b \in Seq(T)
  PROVE  /\ DOMAIN (a \o b) = 1..Len(a) + Len(b)
         /\ \A f \in 1..Len(a) : (a \o b)[f] = a[f]
         /\ \A i \in 1..Len(b) : (a \o b)[Len(a) + i] = b[i]
  OBVIOUS

LEMMA Between ==
  ASSUME NEW T, NEW x \in T, NEW y \in T, NEW ms \in Seq(T)
  PROVE  /\ <<x>> \o ms \o <<y>> \in Seq(T)
         /\ Len(<<x>> \o ms \o <<y>>) = Len(ms) + 2
         /\ (<<x>> \o ms \o <<y>>)[1] = x /\ (<<x>> \o ms \o <<y>>)[Len(ms) + 2] = y
         /\ \A i \in 1..Len(ms) : (<<x>> \o ms \o <<y>>)[i + 1] = ms[i]
  OBVIOUS

LEMMA PrintedIs ==
  ASSUME NEW e \in JarEntry
  PROVE  /\ e.members \in Seq(Token) /\ Len(e.members) \in Nat
         /\ Printed(e) \in Seq(Token) /\ Len(Printed(e)) = Len(e.members) + 2
         /\ Opens(Printed(e)[1]) /\ Closes(Printed(e)[Len(e.members) + 2])
         /\ \A i \in 1..Len(e.members) : Printed(e)[i + 1] = e.members[i]
<1>1. e.members \in Seq(Token) /\ Len(e.members) \in Nat
  BY DEF JarEntry
<1> DEFINE x == [is |-> "{"]
           y == [is |-> "}"]
<1>2. Printed(e) = <<x>> \o e.members \o <<y>> /\ Opens(x) /\ Closes(y)
  BY DEF Printed, Opens, Closes
<1>3. x \in Token /\ y \in Token
  BY DEF Token
<1> HIDE DEF x, y
<1> DEFINE ms == e.members
           whole == <<x>> \o ms \o <<y>>
<1>4. ms \in Seq(Token) /\ Len(ms) \in Nat /\ Printed(e) = whole
  BY <1>1, <1>2
<1> HIDE DEF ms
<1>5. /\ whole \in Seq(Token) /\ Len(whole) = Len(ms) + 2
      /\ whole[1] = x /\ whole[Len(ms) + 2] = y
      /\ \A i \in 1..Len(ms) : whole[i + 1] = ms[i]
  BY <1>3, <1>4, Between
<1> HIDE DEF whole
<1> QED
  BY <1>2, <1>4, <1>5 DEF ms

LEMMA PrintoutIs ==
  ASSUME classes \in Seq(Names), jar \in Seq(JarEntry)
  PROVE  /\ Printout \in Seq(Seq(Token)) /\ Len(Printout) = Len(classes)
         /\ \A k \in 1..Len(classes) : Printout[k] = Printed(EntryOf(classes[k]))
<1>1. /\ DOMAIN classes = 1..Len(classes) /\ Len(classes) \in Nat
      /\ \A k \in 1..Len(classes) : EntryOf(classes[k]) \in JarEntry
  BY EntriesAre
<1>2. \A e \in JarEntry : Printed(e) \in Seq(Token)
  BY PrintedIs
<1>3. Printout \in [1..Len(classes) -> Seq(Token)] /\ DOMAIN Printout = 1..Len(classes)
  BY <1>1, <1>2 DEF Printout
<1>4. \A k \in 1..Len(classes) : Printout[k] = Printed(EntryOf(classes[k]))
  BY <1>1 DEF Printout
<1>5. Printout \in Seq(Seq(Token))
  BY <1>1, <1>3
<1> QED
  BY <1>1, <1>3, <1>4, <1>5

LEMMA JavapKeeps ==
  ASSUME PipelineInv, Javap
  PROVE  PipelineInv'
<1>1. /\ UNCHANGED <<vars, jar, status, classes, members_list, wrapped, results>>
      /\ step = "javap" /\ step' = "split"
      /\ text' = FlattenSeq(Printout) /\ classes # <<>>
  BY DEF Javap, Printout, Readable
<1>2. /\ jar \in Jars /\ jar \in Seq(JarEntry) /\ classes \in Seq(Names)
      /\ jar # Unreadable
      /\ members_list = <<>> /\ members_list \in Seq(Seq(Token))
  BY <1>1 DEF PipelineInv, Reading
<1>3. text' \in Seq(Token)
  BY <1>1, <1>2, PrintoutIs, FlattenLays
<1>4. Names' = Names /\ Printout' = Printout
  BY <1>1 DEF Names, Printout, EntryOf
<1>5. Collapsing'
  BY <1>1, CollapsingUnchanged DEF PipelineInv
<1>6. Reading'
  BY <1>1, <1>2, <1>3, <1>4 DEF Reading
<1>7. Writing'
  <2>1. status' \in 0..255 /\ members_list' \in Seq(Seq(Token))
    BY <1>1, <1>2 DEF PipelineInv, Writing
  <2> QED
    BY <1>1, <2>1, WritingUnchanged DEF PipelineInv
<1> QED
  BY <1>5, <1>6, <1>7 DEF PipelineInv

LEMMA CutIs ==
  ASSUME NEW t \in Seq(Token)
  PROVE  Cut(t) \in Seq(Seq(Token)) /\ Len(Cut(t)) = Len(Ends_(t)) + 1
<1> DEFINE n == Len(Ends_(t)) + 1
<1>1. /\ n \in Nat
      /\ Pieces(t) = [p \in 1..n |-> SubSeq(t, From(t, p), Upto(t, p))]
      /\ \A p \in 1..n : From(t, p) \in 1..Len(t) + 1 /\ Upto(t, p) \in From(t, p) - 1..Len(t)
  <2>1. Ends_(t) \in Seq(Nat)
    BY PiecesAre, Zenon
  <2>2. n \in Nat
    BY <2>1
  <2>3. /\ Pieces(t) = [p \in 1..n |-> SubSeq(t, From(t, p), Upto(t, p))]
        /\ \A p \in 1..n : From(t, p) \in 1..Len(t) + 1 /\ Upto(t, p) \in From(t, p) - 1..Len(t)
    BY PiecesAre, Zenon
  <2> QED
    BY <2>2, <2>3, Zenon
<1> HIDE DEF n
<1>2. ASSUME NEW p \in 1..n
      PROVE  Pieces(t)[p] \in Seq(Token) /\ AfterBrace(Pieces(t)[p]) \in Seq(Token)
  <2>1. ASSUME NEW x \in Seq(Token), NEW c \in 1..Len(x) + 1, NEW d \in c - 1..Len(x)
        PROVE  SubSeq(x, c, d) \in Seq(Token)
    OBVIOUS
  <2>2. Pieces(t)[p] \in Seq(Token)
    BY <1>1, <2>1
  <2>3. PICK c \in 1..Len(Pieces(t)[p]) + 1 :
          AfterBrace(Pieces(t)[p]) = SubSeq(Pieces(t)[p], c, Len(Pieces(t)[p]))
    BY <2>2, AfterBraceIs
  <2>4. Len(Pieces(t)[p]) \in c - 1..Len(Pieces(t)[p])
    BY <2>2
  <2> QED
    BY <2>1, <2>2, <2>3, <2>4
<1>3. DOMAIN Pieces(t) = 1..n
  BY <1>1
<1>4. Cut(t) \in [1..n -> Seq(Token)]
  BY <1>2, <1>3 DEF Cut
<1>5. Cut(t) \in Seq(Seq(Token)) /\ Len(Cut(t)) = n
  BY <1>1, <1>4
<1> QED
  BY <1>5 DEF n

LEMMA SplitKeeps ==
  ASSUME PipelineInv, Split
  PROVE  PipelineInv'
<1>1. /\ UNCHANGED <<vars, jar, status, classes, text, wrapped, results>>
      /\ step = "split" /\ step' = "members"
  BY DEF Split
<1>2. members_list' = Cut(text)
  BY DEF Split, Cut
<1>3. /\ jar \in Jars /\ jar \in Seq(JarEntry) /\ classes \in Seq(Names)
      /\ text = FlattenSeq(Printout) /\ text \in Seq(Token)
      /\ jar # Unreadable /\ classes # <<>>
  BY <1>1 DEF PipelineInv, Reading
<1>4. members_list' \in Seq(Seq(Token)) /\ members_list' # <<>>
  <2>1. Cut(text) \in Seq(Seq(Token)) /\ Len(Cut(text)) = Len(Ends_(text)) + 1
    BY <1>3, CutIs
  <2>2. Len(Ends_(text)) \in Nat
    <3>1. Ends_(text) \in Seq(Nat)
      BY <1>3, PiecesAre
    <3> QED
      BY <3>1
  <2>3. Cut(text) # <<>>
    BY <2>1, <2>2
  <2> QED
    BY <1>2, <2>1, <2>3
<1>5. Names' = Names /\ Printout' = Printout /\ Cut(text)' = Cut(text)
  BY <1>1 DEF Names, Printout, EntryOf, Cut
<1>6. Collapsing'
  BY <1>1, CollapsingUnchanged DEF PipelineInv
<1>7. Reading'
  BY <1>1, <1>2, <1>3, <1>4, <1>5 DEF Reading
<1>8. Writing'
  <2>1. status' \in 0..255
    BY <1>1 DEF PipelineInv, Writing
  <2> QED
    BY <1>1, <1>4, <2>1, WritingUnchanged DEF PipelineInv
<1> QED
  BY <1>6, <1>7, <1>8 DEF PipelineInv

(* The piece that comes next, without its generic arguments. *)
LEMMA PieceIs ==
  ASSUME PipelineInv, Len(wrapped) < Len(members_list)
  PROVE  /\ Len(wrapped) + 1 \in 1..Len(members_list)
         /\ members_list[Len(wrapped) + 1] \in Seq(Token)
         /\ Piece \in Seq(Token)
         /\ Lines(Piece, "method") \in Seq(JavaMethod)
<1> DEFINE Writings == {Functions_(piece, v) : piece \in Seq(Token), v \in Seq(Overload)}
<1>1. members_list \in Seq(Seq(Token)) /\ wrapped \in Seq(Writings)
  BY DEF PipelineInv, Reading, Writing
<1> HIDE DEF Writings
<1>2. Len(wrapped) \in Nat /\ Len(members_list) \in Nat
  BY <1>1
<1>3. Len(wrapped) + 1 \in 1..Len(members_list)
  BY <1>2
<1>4. members_list[Len(wrapped) + 1] \in Seq(Token)
  BY <1>1, <1>3
<1>5. Piece \in Seq(Token)
  BY <1>4, ErasedIs, Zenon DEF Piece, Selects
<1>6. Lines(Piece, "method") \in Seq(What("method"))
  BY <1>5, LinesAre, Zenon DEF LinesAt
<1>7. What("method") = JavaMethod
  BY DEF What
<1> QED
  BY <1>3, <1>4, <1>5, <1>6, <1>7, Zenon

LEMMA ParseKeeps ==
  ASSUME PipelineInv, Parse
  PROVE  PipelineInv'
<1>1. /\ UNCHANGED <<jar, status, classes, text, members_list, wrapped, results>>
      /\ step = "members" /\ step' = "collapse" /\ Len(wrapped) < Len(members_list)
      /\ input' = Lines(Piece, "method") /\ methods' = input' /\ stage' = "arity"
      /\ lower' = 1 /\ overloads' = <<>> /\ count' = 0
  BY DEF Parse
<1>2. input' \in Seq(JavaMethod)
  BY <1>1, PieceIs
<1>3. Collapsing'
  <2>1. /\ input' \in Seq(JavaMethod) /\ methods' = input' /\ stage' = "arity"
        /\ lower' = 1 /\ overloads' = <<>> /\ count' = 0
    BY <1>1, <1>2
  <2>2. Grouped(methods', 1, lower' - 1, overloads')
    BY <2>1, GroupedNone
  <2>3. lower' \in 1..Len(methods') + 1
    BY <2>1
  <2> QED
    BY <2>1, <2>2, <2>3 DEF Collapsing, Rearranged, SortedSoFar, WalkedSoFar
<1>4. Reading'
  BY <1>1, ReadingUnchanged DEF PipelineInv
<1>5. Piece' = Piece
  BY <1>1 DEF Piece
<1>6. Writing'
  BY <1>1, <1>5 DEF PipelineInv, Writing
<1> QED
  BY <1>3, <1>4, <1>6 DEF PipelineInv

LEMMA CollapseMethodsKeeps ==
  ASSUME PipelineInv, CollapseMethods
  PROVE  PipelineInv'
<1>1. /\ UNCHANGED <<jar, status, step, classes, text, members_list, wrapped, results>>
      /\ step = "collapse" /\ Next
  BY DEF CollapseMethods, generated
<1>2. input' = input
  BY <1>1 DEF Next, SortArity, SortReturned, SortArgs, SortGeneric, SortRanks, SortName,
              Sort, Group, Finish
<1>3. Collapsing'
  BY <1>1, NextKeepsCollapsing DEF PipelineInv
<1>4. Reading'
  BY <1>1, ReadingUnchanged DEF PipelineInv
<1>5. Piece' = Piece
  BY <1>1 DEF Piece
<1>6. Writing'
  BY <1>1, <1>2, <1>5 DEF PipelineInv, Writing
<1> QED
  BY <1>3, <1>4, <1>6 DEF PipelineInv

LEMMA WrapKeeps ==
  ASSUME PipelineInv, Wrap
  PROVE  PipelineInv'
<1> DEFINE Writings == {Functions_(piece, v) : piece \in Seq(Token), v \in Seq(Overload)}
           fs == Functions_(Piece, overloads)
           n == Len(wrapped)
<1>1. /\ UNCHANGED <<vars, jar, status, classes, text, members_list, results>>
      /\ step = "collapse" /\ step' = "members" /\ stage = "done"
  BY DEF Wrap
<1>2. /\ n < Len(members_list) /\ input = Lines(Piece, "method")
      /\ wrapped \in Seq(Writings) /\ results = <<>> /\ status \in 0..255
      /\ \A p \in 1..n : Wraps(members_list[p], wrapped[p])
      /\ members_list \in Seq(Seq(Token))
  BY <1>1 DEF PipelineInv, Reading, Writing
<1>3. wrapped' = Append(wrapped, fs)
  BY <1>2 DEF Wrap, Functions_
<1>4. Collapses(input, overloads) /\ overloads \in Seq(Overload)
  <2>1. /\ methods \in Seq(JavaMethod) /\ ToSet(methods) = ToSet(input)
        /\ Grouped(methods, 1, Len(methods), overloads)
    BY <1>1, CollapsedIsGrouped DEF PipelineInv
  <2> QED
    BY <2>1, Zenon DEF Collapses, Grouped
<1>5. Piece \in Seq(Token) /\ n + 1 \in 1..Len(members_list) /\ Len(members_list) \in Nat
  BY <1>2, PieceIs
<1>6. fs \in Writings
  BY <1>4, <1>5
<1>7. Wraps(members_list[n + 1], fs)
  BY <1>2, <1>4 DEF Wraps, Piece
<1> HIDE DEF fs, Writings
<1>8. /\ wrapped' \in Seq(Writings) /\ Len(wrapped') = n + 1 /\ n \in Nat
      /\ wrapped'[n + 1] = fs /\ \A p \in 1..n : wrapped'[p] = wrapped[p]
  BY <1>2, <1>3, <1>6
<1> HIDE DEF n
<1>9. \A p \in 1..Len(wrapped') : Wraps(members_list[p], wrapped'[p])
  <2> SUFFICES ASSUME NEW p \in 1..Len(wrapped') PROVE Wraps(members_list[p], wrapped'[p])
    OBVIOUS
  <2>1. CASE p = n + 1
    BY <1>7, <1>8, <2>1
  <2>2. CASE p # n + 1
    <3>1. p \in 1..n
      BY <1>8, <2>2
    <3> QED
      BY <1>2, <1>8, <3>1
  <2> QED
    BY <2>1, <2>2
<1>10. Len(wrapped') <= Len(members_list)
  BY <1>5, <1>8
<1>11. Collapsing'
  BY <1>1, CollapsingUnchanged DEF PipelineInv
<1>12. Reading'
  BY <1>1, ReadingUnchanged DEF PipelineInv
<1>13. Writing'
  <2>1. /\ step' = "members" /\ status' \in 0..255 /\ wrapped' \in Seq(Writings)
        /\ Len(wrapped') <= Len(members_list') /\ results' = <<>>
        /\ \A p \in 1..Len(wrapped') : Wraps(members_list'[p], wrapped'[p])
    BY <1>1, <1>2, <1>8, <1>9, <1>10
  <2> QED
    BY <2>1 DEF Writing, Writings
<1> QED
  BY <1>11, <1>12, <1>13 DEF PipelineInv

LEMMA OutputKeeps ==
  ASSUME PipelineInv, Output
  PROVE  PipelineInv'
<1>1. /\ UNCHANGED <<vars, jar, status, classes, text, members_list, wrapped>>
      /\ step = "members" /\ step' = "exit" /\ Len(wrapped) = Len(members_list)
      /\ results' = [k \in DOMAIN classes |->
           [macro |-> Macro(classes[k]), signature |-> Signature(classes[k]),
            namespaces |-> Namespaces(classes[k]), functions |-> wrapped[k]]]
  BY DEF Output
<1>2. members_list # <<>>
  BY <1>1 DEF PipelineInv, Reading
<1>3. Collapsing'
  BY <1>1, CollapsingUnchanged DEF PipelineInv
<1>4. Reading'
  BY <1>1, ReadingUnchanged DEF PipelineInv
<1>5. Writing'
  <2>1. results' = [k \in DOMAIN classes' |->
           [macro |-> Macro(classes'[k]), signature |-> Signature(classes'[k]),
            namespaces |-> Namespaces(classes'[k]), functions |-> wrapped'[k]]]
    BY <1>1, Zenon
  <2>2. members_list' # <<>> /\ Len(wrapped') = Len(members_list') /\ step' = "exit"
    BY <1>1, <1>2
  <2>3. /\ status' \in 0..255
        /\ wrapped' \in Seq({Functions_(piece, v) : piece \in Seq(Token), v \in Seq(Overload)})
        /\ Len(wrapped') <= Len(members_list')
        /\ \A p \in 1..Len(wrapped') : Wraps(members_list'[p], wrapped'[p])
    BY <1>1 DEF PipelineInv, Writing
  <2>4. /\ step' \in {"open", "javap", "split", "members", "collapse", "exit"}
        /\ step' \notin {"open", "javap", "split"} /\ step' # "collapse"
    BY <2>2
  <2> QED
    BY <2>1, <2>2, <2>3, <2>4 DEF Writing
<1> QED
  BY <1>3, <1>4, <1>5 DEF PipelineInv

LEMMA NextKeepsPipelineInv ==
  ASSUME PipelineInv, [PipelineNext]_allVars
  PROVE  PipelineInv'
<1>1. CASE CannotOpen
  <2>1. step = "open" /\ Return(-1) /\ -1 \in Int
    BY <1>1 DEF CannotOpen
  <2> QED
    BY <2>1, ReturnKeeps
<1>2. CASE NothingListed
  <2>1. step = "open" /\ Return(Waited(1)) /\ Waited(1) \in Int
    BY <1>2 DEF NothingListed, Waited
  <2> QED
    BY <2>1, ReturnKeeps
<1>3. CASE JavapFails
  <2>1. step = "javap" /\ Return(Waited(1)) /\ Waited(1) \in Int
    BY <1>3 DEF JavapFails, Waited
  <2> QED
    BY <2>1, ReturnKeeps
<1>4. CASE UNCHANGED allVars
  <2>1. UNCHANGED vars /\ UNCHANGED generated
    BY <1>4 DEF allVars
  <2>2. UNCHANGED <<input, jar, step, status, classes, text, members_list, wrapped, results>>
    BY <2>1 DEF vars, generated
  <2>3. Collapsing'
    BY <2>1, CollapsingUnchanged DEF PipelineInv
  <2>4. Reading'
    BY <2>2, ReadingUnchanged DEF PipelineInv
  <2>5. Piece' = Piece
    BY <2>2 DEF Piece
  <2>6. Writing'
    BY <2>2, <2>5 DEF PipelineInv, Writing
  <2> QED
    BY <2>3, <2>4, <2>6 DEF PipelineInv
<1> QED
  BY <1>1, <1>2, <1>3, <1>4, ListKeeps, JavapKeeps, SplitKeeps, ParseKeeps,
     CollapseMethodsKeeps, WrapKeeps, OutputKeeps DEF PipelineNext

(* Theorem: whatever jars there are, the program goes through the states that *)
(* PipelineInv describes: it reads what javap prints of the classes in their  *)
(* order, cuts it, and collapses and writes the pieces one after the other.   *)
THEOREM PipelineInvHolds == PipelineSpec => []PipelineInv
<1>1. PipelineInit => PipelineInv
  BY PipelineStarts
<1>2. PipelineInv /\ [PipelineNext]_allVars => PipelineInv'
  BY NextKeepsPipelineInv
<1> QED
  BY <1>1, <1>2, PTL DEF PipelineSpec

-----------------------------------------------------------------------------
(* The pieces and the classes *)

LEMMA SubSeqIs ==
  ASSUME NEW T, NEW x \in Seq(T), NEW c \in 1..Len(x) + 1, NEW d \in c - 1..Len(x)
  PROVE  /\ SubSeq(x, c, d) \in Seq(T) /\ Len(SubSeq(x, c, d)) = d - c + 1
         /\ \A i \in 1..d - c + 1 : SubSeq(x, c, d)[i] = x[c + i - 1]
  OBVIOUS

(* Sequence x is what is printed of e from place d + 1 on, or a part of it. *)
PartOf(x, e, d) ==
  \A k \in 1..Len(x) : d + k \in 1..Len(Printed(e)) /\ x[k] = Printed(e)[d + k]

(* No piece is of two classes. *)
LEMMA PieceOfOne ==
  ASSUME PipelineInv, NEW p \in 1..Len(members_list)
  PROVE  \E k \in 1..Len(classes), d \in Nat : PartOf(members_list[p], EntryOf(classes[k]), d)
<1> DEFINE s == Printout
           a == From(text, p)
           b == Upto(text, p)
           piece == SubSeq(text, a, b)
           n == Len(classes)
<1>1. members_list # <<>>
  <2>1. members_list \in Seq(Seq(Token))
    BY DEF PipelineInv, Reading
  <2> QED
    BY <2>1
<1>2. /\ jar \in Seq(JarEntry) /\ classes \in Seq(Names)
      /\ text = FlattenSeq(s) /\ text \in Seq(Token) /\ members_list = Cut(text)
      /\ classes # <<>>
  BY <1>1 DEF PipelineInv, Reading
<1>3. /\ s \in Seq(Seq(Token)) /\ Len(s) = n /\ n \in Nat
      /\ \A k \in 1..n : s[k] = Printed(EntryOf(classes[k])) /\ EntryOf(classes[k]) \in JarEntry
  BY <1>2, PrintoutIs, EntriesAre
<1>4. PICK L : Laid(s, text, L)
  BY <1>2, <1>3, FlattenLays
<1> HIDE DEF s, n
<1>5. p \in 1..Len(Ends_(text)) + 1 /\ Len(text) \in Nat
  <2>1. Len(members_list) = Len(Ends_(text)) + 1
    BY <1>2, CutIs
  <2> QED
    BY <1>2, <2>1
<1>6. /\ Pieces(text) = [q \in 1..Len(Ends_(text)) + 1 |->
                           SubSeq(text, From(text, q), Upto(text, q))]
      /\ a \in 1..Len(text) + 1 /\ b \in a - 1..Len(text)
      /\ \A k \in a..b : ~Closes(text[k])
  BY <1>2, <1>5, PiecesAre
<1>7. members_list[p] = AfterBrace(piece)
  <2>1. p \in DOMAIN Pieces(text) /\ Pieces(text)[p] = piece
    BY <1>5, <1>6
  <2> QED
    BY <1>2, <2>1 DEF Cut
<1> HIDE DEF a, b
<1>8. /\ piece \in Seq(Token) /\ Len(piece) = b - a + 1
      /\ \A i \in 1..b - a + 1 : piece[i] = text[a + i - 1]
  BY <1>2, <1>6, SubSeqIs
<1> HIDE DEF piece
<1>9. PICK c \in 1..Len(piece) + 1 : AfterBrace(piece) = SubSeq(piece, c, Len(piece))
  BY <1>8, AfterBraceIs
<1>10. /\ Len(piece) \in Nat /\ c \in Nat /\ a \in Nat /\ b \in Int
  BY <1>5, <1>6, <1>8, <1>9
<1> DEFINE x == members_list[p]
<1>11. /\ x \in Seq(Token) /\ Len(x) = Len(piece) - c + 1
       /\ \A i \in 1..Len(piece) - c + 1 : x[i] = piece[c + i - 1]
  <2>1. Len(piece) \in c - 1..Len(piece)
    BY <1>9, <1>10
  <2>2. x = SubSeq(piece, c, Len(piece))
    BY <1>7, <1>9
  <2> QED
    BY <1>8, <2>1, <2>2, SubSeqIs
<1> HIDE DEF x
<1>12. CASE a > b
  <2>1. Len(x) = 0
    BY <1>6, <1>8, <1>9, <1>10, <1>11, <1>12
  <2>2. PartOf(x, EntryOf(classes[1]), 0)
    BY <2>1 DEF PartOf
  <2>3. 1 \in 1..Len(classes)
    BY <1>2
  <2> QED
    BY <2>2, <2>3 DEF x
<1>13. CASE ~(a > b)
  <2>1. a \in 1..Len(text) /\ a <= b /\ b <= Len(text)
    BY <1>5, <1>6, <1>10, <1>13
  <2>2. PICK j \in 1..n : L[j - 1] < a /\ a <= L[j]
    BY <1>3, <1>4, <2>1 DEF Laid
  <2> DEFINE e == EntryOf(classes[j])
             m == Len(e.members)
  <2>3. /\ s[j] = Printed(e) /\ e \in JarEntry /\ m \in Nat
        /\ Len(s[j]) = m + 2 /\ Closes(s[j][m + 2])
    BY <1>3, <2>2, PrintedIs
  <2>4. /\ L[j - 1] \in Nat /\ L[j] \in Nat /\ L[j] = L[j - 1] + Len(s[j])
        /\ \A i \in 1..Len(s[j]) : text[L[j - 1] + i] = s[j][i]
    <3>1. j \in 0..n /\ j - 1 \in 0..n
      BY <1>3
    <3> QED
      BY <1>3, <1>4, <3>1 DEF Laid
  <2> HIDE DEF m, e
  <2>5. Closes(text[L[j]])
    BY <2>3, <2>4
  <2>6. b < L[j]
    <3> SUFFICES ASSUME L[j] <= b PROVE FALSE
      BY <1>10, <2>4
    <3>1. L[j] \in a..b
      BY <1>10, <2>2, <2>4
    <3> QED
      BY <1>6, <2>5, <3>1
  <2> DEFINE d == a + c - 2 - L[j - 1]
  <2>7. d \in Nat /\ d = a + c - 2 - L[j - 1]
    BY <1>9, <1>10, <2>2, <2>4, SMTT(40)
  <2> HIDE DEF d
  <2>8. ASSUME NEW k \in 1..Len(x)
        PROVE  d + k \in 1..Len(s[j]) /\ x[k] = s[j][d + k]
    <3>1. k \in 1..Len(piece) - c + 1 /\ c + k - 1 \in 1..b - a + 1 /\ k \in Nat
      BY <1>8, <1>9, <1>10, <1>11
    <3>2. x[k] = text[a + (c + k - 1) - 1]
      BY <1>8, <1>11, <3>1
    <3> DEFINE before == L[j - 1]
    <3>3. /\ before \in Nat /\ L[j] \in Nat /\ Len(s[j]) \in Nat
          /\ L[j] = before + Len(s[j]) /\ d = a + c - 2 - before /\ before < a
      BY <2>2, <2>3, <2>4, <2>7
    <3> HIDE DEF before
    <3>4. /\ a + (c + k - 1) - 1 = before + (d + k)
          /\ d + k \in 1..Len(s[j])
      <4>1. /\ k \in Nat /\ k >= 1 /\ c + k - 1 <= b - a + 1
            /\ c \in Nat /\ a \in Nat /\ b \in Int /\ d \in Nat
        BY <1>10, <2>7, <3>1
      <4>2. b < L[j] /\ L[j] \in Nat
        BY <2>6, <3>3
      <4> DEFINE len == Len(s[j])
                 end == L[j]
      <4>3. /\ before \in Nat /\ end \in Nat /\ len \in Nat /\ b < end
            /\ end = before + len /\ d = a + c - 2 - before
        BY <3>3, <4>2
      <4> HIDE DEF len, end
      <4>4. d + k \in 1..len /\ a + (c + k - 1) - 1 = before + (d + k)
        BY <4>1, <4>3
      <4> QED
        BY <4>4 DEF len
    <3>5. text[before + (d + k)] = s[j][d + k]
      BY <2>4, <3>4 DEF before
    <3> QED
      BY <3>2, <3>4, <3>5
  <2>9. PartOf(x, e, d)
    BY <2>3, <2>8 DEF PartOf
  <2> QED
    BY <2>2, <2>7, <2>9 DEF x, e, n
<1> QED
  BY <1>12, <1>13

(* The members lines are members of entry e, in the order of e. *)
ComesFrom(lines, is, e) ==
  \E h \in [1..Len(lines) -> 1..Len(e.members)] :
    /\ \A l \in 1..Len(lines) : e.members[h[l]].is = is /\ lines[l] = e.members[h[l]].what
    /\ \A k, l \in 1..Len(lines) : k < l => h[k] < h[l]

LEMMA NoBrace ==
  ASSUME NEW x, x.is \in {"method", "field"}
  PROVE  ~Opens(x) /\ ~Closes(x)
  BY Zenon DEF Opens, Closes

LEMMA LinesOfPart ==
  ASSUME NEW x \in Seq(Token), NEW e \in JarEntry, NEW d \in Nat, PartOf(x, e, d),
         NEW is \in {"method", "field"}
  PROVE  ComesFrom(Lines(Erased(x), is), is, e)
<1> DEFINE r == Erased(x)
           lines == Lines(r, is)
           m == Len(e.members)
<1>1. r \in Seq(Token)
  BY ErasedIs, Zenon DEF Selects
<1>2. PICK pos \in [1..Len(r) -> (1..Len(x)) \cap Unerased(x)] :
        /\ \A i \in 1..Len(r) : r[i] = x[pos[i]]
        /\ \A i, j \in 1..Len(r) : i < j => pos[i] < pos[j]
  BY ErasedIs, Zenon DEF Selects
<1>3. PICK q : LinesAt(r, is, lines, q)
  BY <1>1, LinesAre, Zenon
<1>4. /\ lines \in Seq(What(is)) /\ q \in [1..Len(lines) -> 1..Len(r)]
      /\ \A l \in 1..Len(lines) : lines[l] = r[q[l]].what /\ r[q[l]].is = is
      /\ \A k, l \in 1..Len(lines) : k < l => q[k] < q[l]
  BY <1>3, Zenon DEF LinesAt
<1> HIDE DEF r, lines
<1>5. /\ m \in Nat /\ Len(Printed(e)) = m + 2 /\ Len(x) \in Nat
      /\ Opens(Printed(e)[1]) /\ Closes(Printed(e)[m + 2])
      /\ \A i \in 1..m : Printed(e)[i + 1] = e.members[i]
  BY PrintedIs
<1> HIDE DEF m
<1> DEFINE h == [l \in 1..Len(lines) |-> d + pos[q[l]] - 1]
<1>6. ASSUME NEW l \in 1..Len(lines)
      PROVE  /\ pos[q[l]] \in 1..Len(x) /\ h[l] = d + pos[q[l]] - 1
             /\ h[l] \in 1..m
             /\ e.members[h[l]].is = is /\ lines[l] = e.members[h[l]].what
  <2> DEFINE y == x[pos[q[l]]]
  <2>1. q[l] \in 1..Len(r) /\ pos[q[l]] \in 1..Len(x)
    BY <1>2, <1>4
  <2>2. y = r[q[l]] /\ y.is = is /\ lines[l] = y.what
    BY <1>2, <1>4, <2>1
  <2>3. d + pos[q[l]] \in 1..m + 2 /\ y = Printed(e)[d + pos[q[l]]]
    BY <1>5, <2>1 DEF PartOf
  <2> HIDE DEF y
  <2>4. ~Opens(y) /\ ~Closes(y)
    BY <2>2, NoBrace
  <2>5. d + pos[q[l]] # 1 /\ d + pos[q[l]] # m + 2
    BY <1>5, <2>3, <2>4
  <2>6. h[l] = d + pos[q[l]] - 1
    OBVIOUS
  <2>7. h[l] \in 1..m /\ h[l] + 1 = d + pos[q[l]]
    <3> DEFINE at == pos[q[l]]
    <3>1. /\ at \in Nat /\ d + at \in 1..m + 2 /\ d + at # 1 /\ d + at # m + 2
          /\ h[l] = d + at - 1 /\ m \in Nat
      BY <1>5, <2>1, <2>3, <2>5
    <3> HIDE DEF at, h
    <3>2. h[l] \in 1..m /\ h[l] + 1 = d + at
      BY <3>1
    <3> QED
      BY <3>2 DEF at
  <2>8. y = e.members[h[l]]
    BY <1>5, <2>3, <2>7
  <2> QED
    BY <2>1, <2>2, <2>6, <2>7, <2>8
<1>7. h \in [1..Len(lines) -> 1..m]
  BY <1>6
<1>8. \A k, l \in 1..Len(lines) : k < l => h[k] < h[l]
  <2> SUFFICES ASSUME NEW k \in 1..Len(lines), NEW l \in 1..Len(lines), k < l
               PROVE  h[k] < h[l]
    OBVIOUS
  <2>1. q[k] \in 1..Len(r) /\ q[l] \in 1..Len(r) /\ q[k] < q[l]
    BY <1>4
  <2>2. pos[q[k]] < pos[q[l]] /\ pos[q[k]] \in 1..Len(x) /\ pos[q[l]] \in 1..Len(x)
    BY <1>2, <1>6, <2>1
  <2> HIDE DEF h
  <2> DEFINE i == pos[q[k]]
             j == pos[q[l]]
  <2>3. /\ h[k] = d + i - 1 /\ h[l] = d + j - 1
        /\ i \in Nat /\ j \in Nat /\ i < j
    <3>1. h[k] = d + i - 1 /\ h[l] = d + j - 1
      BY <1>6, Zenon
    <3>2. i \in Nat /\ j \in Nat /\ i < j
      BY <1>5, <2>2, SMTT(40)
    <3> QED
      BY <3>1, <3>2
  <2> HIDE DEF i, j
  <2> QED
    BY <2>3
<1>9. \A l \in 1..Len(lines) : e.members[h[l]].is = is /\ lines[l] = e.members[h[l]].what
  BY <1>6
<1> HIDE DEF h
<1>10. ComesFrom(lines, is, e)
  BY <1>7, <1>8, <1>9, Zenon DEF ComesFrom, m
<1> QED
  BY <1>10 DEF lines, r

(* The functions of what is written for a piece: those of its fields, and  *)
(* then those of its overloads.                                            *)
LEMMA FunctionsAre ==
  ASSUME NEW piece \in Seq(Token), NEW v \in Seq(Overload)
  PROVE  LET own == ClassName(Lines(piece, "method"))
             fields == Lines(piece, "field")
             n == Len(fields)
         IN  /\ fields \in Seq([name : Nat, type : JavaType]) /\ n \in Nat
             /\ DOMAIN Functions_(piece, v) = 1..n + Len(v)
             /\ \A f \in 1..n : Functions_(piece, v)[f] = FieldFunction(fields[f], own)
             /\ \A i \in 1..Len(v) : Functions_(piece, v)[n + i] = MethodFunction(v[i], own)
<1> DEFINE own == ClassName(Lines(piece, "method"))
           fields == Lines(piece, "field")
           Field == [name : Nat, type : JavaType]
           T == {FieldFunction(x, own) : x \in Field} \cup {MethodFunction(o, own) : o \in Overload}
           a == [k \in DOMAIN fields |-> FieldFunction(fields[k], own)]
           b == [k \in DOMAIN v |-> MethodFunction(v[k], own)]
<1>1. Functions_(piece, v) = a \o b
  BY DEF Functions_
<1>2. fields \in Seq(Field)
  <2>1. fields \in Seq(What("field"))
    BY LinesAre, Zenon DEF LinesAt
  <2>2. What("field") = Field
    BY DEF What
  <2> QED
    BY <2>1, <2>2, Zenon
<1> HIDE DEF fields, Field, own
<1>3. /\ DOMAIN fields = 1..Len(fields) /\ Len(fields) \in Nat
      /\ DOMAIN v = 1..Len(v) /\ Len(v) \in Nat
  BY <1>2
<1>4. /\ \A f \in 1..Len(fields) : fields[f] \in Field
      /\ \A i \in 1..Len(v) : v[i] \in Overload
  BY <1>2
<1>5. /\ \A x \in Field : FieldFunction(x, own) \in T
      /\ \A o \in Overload : MethodFunction(o, own) \in T
  OBVIOUS
<1> HIDE DEF T
<1>6. /\ \A f \in 1..Len(fields) : a[f] = FieldFunction(fields[f], own)
      /\ \A i \in 1..Len(v) : b[i] = MethodFunction(v[i], own)
  BY <1>3
<1>7. a \in [1..Len(fields) -> T] /\ b \in [1..Len(v) -> T]
  BY <1>3, <1>4, <1>5
<1> HIDE DEF a, b
<1>8. /\ a \in Seq(T) /\ b \in Seq(T) /\ Len(a) = Len(fields) /\ Len(b) = Len(v)
  <2>1. ASSUME NEW n \in Nat, NEW c \in [1..n -> T] PROVE c \in Seq(T) /\ Len(c) = n
    OBVIOUS
  <2> QED
    BY <1>3, <1>7, <2>1
<1>9. /\ DOMAIN (a \o b) = 1..Len(a) + Len(b)
      /\ \A f \in 1..Len(a) : (a \o b)[f] = a[f]
      /\ \A i \in 1..Len(b) : (a \o b)[Len(a) + i] = b[i]
  <2>1. a \in Seq(T) /\ b \in Seq(T)
    BY <1>8
  <2> QED
    BY <2>1
<1>10. /\ DOMAIN Functions_(piece, v) = 1..Len(fields) + Len(v)
       /\ \A f \in 1..Len(fields) : Functions_(piece, v)[f] = FieldFunction(fields[f], own)
       /\ \A i \in 1..Len(v) : Functions_(piece, v)[Len(fields) + i] = MethodFunction(v[i], own)
  BY <1>1, <1>3, <1>6, <1>8, <1>9
<1> QED
  BY <1>2, <1>3, <1>10 DEF fields, own, Field

-----------------------------------------------------------------------------
(* No function twice *)

(* Types that make the same parameter are the same, or both not native. *)
LEMMA ParameterFits ==
  ASSUME NEW s \in OrTypes, NEW t \in OrTypes, NEW own,
         Parameter(s, own) = Parameter(t, own)
  PROVE  Fits(s, t)
<1>1. ASSUME NEW u \in OrTypes
      PROVE  /\ Parameter(u, own).rank = u.rank
             /\ Parameter(u, own).alt = IF Deduced(u, own) THEN <<>> ELSE u.alt
             /\ Len(u.alt) > 0 /\ u.alt # <<>>
             /\ u = [alt |-> u.alt, rank |-> u.rank]
  <2>1. /\ u \in [alt : Seq(Nat), rank : Nat] /\ Len(u.alt) > 0
    BY DEF OrTypes
  <2>2. u.alt # <<>>
    BY <2>1
  <2>3. Parameter(u, own).rank = u.rank
    BY <2>1 DEF Parameter
  <2>4. Parameter(u, own).alt = IF Deduced(u, own) THEN <<>> ELSE u.alt
    BY <2>1 DEF Parameter
  <2> QED
    BY <2>1, <2>2, <2>3, <2>4
<1>2. s.rank = t.rank
  BY <1>1
<1>3. Deduced(s, own) <=> Deduced(t, own)
  BY <1>1
<1>4. CASE Deduced(s, own)
  BY <1>2, <1>3, <1>4 DEF Deduced, Fits
<1>5. CASE ~Deduced(s, own)
  <2>1. s.alt = t.alt
    BY <1>1, <1>3, <1>5
  <2>2. s = t
    BY <1>1, <1>2, <2>1
  <2> QED
    BY <2>2 DEF Fits
<1> QED
  BY <1>4, <1>5

LEMMA ParametersShape ==
  ASSUME NEW o \in Overload, NEW u \in Overload, NEW own,
         MethodFunction(o, own).params = MethodFunction(u, own).params
  PROVE  Len(o.args) = Len(u.args) /\ SameShape(o.args, u.args)
<1>1. /\ o.args \in Seq(OrTypes) /\ u.args \in Seq(OrTypes)
  BY DEF Overload
<1>2. [k \in DOMAIN o.args |-> Parameter(o.args[k], own)]
        = [k \in DOMAIN u.args |-> Parameter(u.args[k], own)]
  BY DEF MethodFunction
<1>3. DOMAIN o.args = DOMAIN u.args
  BY <1>2
<1>4. Len(o.args) = Len(u.args)
  BY <1>1, <1>3
<1>5. ASSUME NEW k \in DOMAIN o.args
      PROVE  Fits(o.args[k], u.args[k])
  <2>1. Parameter(o.args[k], own) = Parameter(u.args[k], own)
    BY <1>2, <1>3
  <2>2. o.args[k] \in OrTypes /\ u.args[k] \in OrTypes
    BY <1>1, <1>3
  <2> QED
    BY <2>1, <2>2, ParameterFits
<1> QED
  BY <1>4, <1>5, Zenon DEF SameShape, Fits

(* The piece and the overloads that what is written is made of, and the class. *)
Origin(p, e, d, v) ==
  /\ e \in JarEntry /\ NamesDistinct(e) /\ d \in Nat
  /\ members_list[p] \in Seq(Token) /\ PartOf(members_list[p], e, d)
  /\ Erased(members_list[p]) \in Seq(Token) /\ v \in Seq(Overload)
  /\ Collapses(Lines(Erased(members_list[p]), "method"), v)
  /\ wrapped[p] = Functions_(Erased(members_list[p]), v)

LEMMA WrittenOrigin ==
  ASSUME PipelineInv, NEW p \in DOMAIN wrapped
  PROVE  /\ p \in 1..Len(wrapped) /\ p \in 1..Len(members_list)
         /\ \E k \in 1..Len(classes), d \in Nat, v \in Seq(Overload) :
              Origin(p, EntryOf(classes[k]), d, v)
<1> DEFINE Writings == {Functions_(piece, v) : piece \in Seq(Token), v \in Seq(Overload)}
<1>1. /\ members_list \in Seq(Seq(Token)) /\ wrapped \in Seq(Writings)
      /\ Len(wrapped) <= Len(members_list)
  BY DEF PipelineInv, Reading, Writing
<1> HIDE DEF Writings
<1>2. /\ p \in 1..Len(wrapped) /\ p \in 1..Len(members_list)
      /\ members_list[p] \in Seq(Token) /\ members_list # <<>>
  <2>1. p \in 1..Len(wrapped) /\ p \in 1..Len(members_list)
    BY <1>1
  <2>2. members_list[p] \in Seq(Token) /\ members_list # <<>>
    BY <1>1, <2>1
  <2> QED
    BY <2>1, <2>2
<1>3. PICK k \in 1..Len(classes), d \in Nat : PartOf(members_list[p], EntryOf(classes[k]), d)
  BY <1>2, PieceOfOne
<1>4. PICK v \in Seq(Overload) : /\ Collapses(Lines(Erased(members_list[p]), "method"), v)
                                 /\ wrapped[p] = Functions_(Erased(members_list[p]), v)
  <2>1. Wraps(members_list[p], wrapped[p])
    BY <1>2 DEF PipelineInv, Writing
  <2> QED
    BY <2>1, Zenon DEF Wraps
<1>5. Erased(members_list[p]) \in Seq(Token)
  BY <1>2, ErasedIs, Zenon DEF Selects
<1>6. EntryOf(classes[k]) \in JarEntry /\ NamesDistinct(EntryOf(classes[k]))
  <2>1. jar \in Seq(JarEntry) /\ classes \in Seq(Names) /\ jar \in Jars \ {Unreadable}
    BY <1>2 DEF PipelineInv, Reading
  <2>2. EntryOf(classes[k]) \in ToSet(jar) /\ EntryOf(classes[k]) \in JarEntry
    BY <2>1, EntriesAre
  <2> QED
    BY <2>1, <2>2, NamesApart
<1>7. Origin(p, EntryOf(classes[k]), d, v)
  BY <1>2, <1>3, <1>4, <1>5, <1>6, Zenon DEF Origin
<1> QED
  BY <1>2, <1>7

LEMMA MethodsOfClass ==
  ASSUME NEW lines \in Seq(JavaMethod), NEW e, ComesFrom(lines, "method", e),
         NEW v, Collapses(lines, v), NEW i \in DOMAIN v
  PROVE  \E k \in 1..Len(e.members) :
           e.members[k].is = "method" /\ ~Differ(v[i], e.members[k].what)
<1>1. PICK t \in Seq(JavaMethod) : ToSet(t) = ToSet(lines) /\ Grouped(t, 1, Len(t), v)
  BY Zenon DEF Collapses
<1>2. PICK m \in ToSet(lines) : ~Differ(v[i], m)
  BY <1>1, GroupedKeeps
<1>3. PICK l \in 1..Len(lines) : m = lines[l]
  BY DEF ToSet
<1>4. PICK h \in [1..Len(lines) -> 1..Len(e.members)] :
        \A x \in 1..Len(lines) : e.members[h[x]].is = "method"
                                 /\ lines[x] = e.members[h[x]].what
  BY Zenon DEF ComesFrom
<1>5. /\ h[l] \in 1..Len(e.members) /\ e.members[h[l]].is = "method"
      /\ m = e.members[h[l]].what
  BY <1>3, <1>4
<1> QED
  BY <1>2, <1>5

LEMMA DistinctNames ==
  ASSUME NEW e, NamesDistinct(e), NEW i \in DOMAIN e.members, NEW k \in DOMAIN e.members
  PROVE  /\ e.members[i].is = "field" /\ e.members[k].is = "field"
            /\ CppName(e.members[i].what.name, FieldWords)
                 = CppName(e.members[k].what.name, FieldWords)
            => i = k
         /\ e.members[i].is = "method" /\ e.members[k].is = "method"
            /\ CppName(e.members[i].what.name, MethodWords)
                 = CppName(e.members[k].what.name, MethodWords)
            => e.members[i].what.name = e.members[k].what.name
  BY Zenon DEF NamesDistinct

LEMMA NoneWrittenTwice ==
  ASSUME PipelineInv
  PROVE  NoFunctionTwice
<1> SUFFICES ASSUME NEW p \in DOMAIN wrapped,
                    NEW f \in DOMAIN wrapped[p], NEW g \in DOMAIN wrapped[p],
                    f # g, wrapped[p][f].name = wrapped[p][g].name,
                    wrapped[p][f].params = wrapped[p][g].params,
                    wrapped[p][f].method = wrapped[p][g].method
             PROVE  FALSE
  BY Zenon DEF NoFunctionTwice
<1>1. PICK k \in 1..Len(classes), d \in Nat, v \in Seq(Overload) :
        Origin(p, EntryOf(classes[k]), d, v)
  BY WrittenOrigin
<1> DEFINE e == EntryOf(classes[k])
           piece == Erased(members_list[p])
           ms == Lines(piece, "method")
           own == ClassName(ms)
           fields == Lines(piece, "field")
           n == Len(fields)
<1>2. /\ e \in JarEntry /\ NamesDistinct(e) /\ d \in Nat
      /\ members_list[p] \in Seq(Token) /\ PartOf(members_list[p], e, d)
      /\ piece \in Seq(Token) /\ Collapses(ms, v)
      /\ wrapped[p] = Functions_(piece, v)
  BY <1>1 DEF Origin
<1>3. ComesFrom(ms, "method", e) /\ ComesFrom(fields, "field", e)
  BY <1>2, LinesOfPart
<1>4. /\ fields \in Seq([name : Nat, type : JavaType]) /\ n \in Nat
      /\ DOMAIN wrapped[p] = 1..n + Len(v)
      /\ \A x \in 1..n : wrapped[p][x] = FieldFunction(fields[x], own)
      /\ \A i \in 1..Len(v) : wrapped[p][n + i] = MethodFunction(v[i], own)
  BY <1>2, FunctionsAre
<1>5. ms \in Seq(JavaMethod)
  <2>1. ms \in Seq(What("method"))
    BY <1>2, LinesAre, Zenon DEF LinesAt
  <2> QED
    BY <2>1 DEF What
<1>6. e.members \in Seq(Token) /\ DOMAIN e.members = 1..Len(e.members)
  <2>1. e.members \in Seq(Token)
    BY <1>2 DEF JarEntry
  <2> HIDE DEF e
  <2> QED
    BY <2>1
<1> HIDE DEF e, piece, ms, own, fields, n
<1>7. Len(v) \in Nat /\ DOMAIN v = 1..Len(v)
  OBVIOUS
<1>8. \A x \in DOMAIN wrapped[p] :
        \/ x \in 1..n /\ wrapped[p][x] = FieldFunction(fields[x], own)
        \/ \E i \in 1..Len(v) : x = n + i /\ wrapped[p][x] = MethodFunction(v[i], own)
  <2> SUFFICES ASSUME NEW x \in DOMAIN wrapped[p], x \notin 1..n
               PROVE  \E i \in 1..Len(v) : x = n + i /\ wrapped[p][x] = MethodFunction(v[i], own)
    BY <1>4
  <2>1. x - n \in 1..Len(v) /\ x = n + (x - n)
    BY <1>4, <1>7
  <2> QED
    BY <1>4, <2>1
<1>9. CASE f \in 1..n /\ g \in 1..n
  <2>1. FieldFunction(fields[f], own).name = FieldFunction(fields[g], own).name
    BY <1>4, <1>9, Zenon
  <2>2. CppName(fields[f].name, FieldWords) = CppName(fields[g].name, FieldWords)
    BY <2>1 DEF FieldFunction
  <2>3. PICK h \in [1..Len(fields) -> 1..Len(e.members)] :
          /\ \A l \in 1..Len(fields) : e.members[h[l]].is = "field"
                                       /\ fields[l] = e.members[h[l]].what
          /\ \A x, y \in 1..Len(fields) : x < y => h[x] < h[y]
    BY <1>3, Zenon DEF ComesFrom
  <2>4. /\ h[f] \in DOMAIN e.members /\ h[g] \in DOMAIN e.members
        /\ e.members[h[f]].is = "field" /\ fields[f] = e.members[h[f]].what
        /\ e.members[h[g]].is = "field" /\ fields[g] = e.members[h[g]].what
    BY <1>6, <1>9, <2>3 DEF n
  <2>5. h[f] = h[g]
    BY <1>2, <2>2, <2>4, DistinctNames, ZenonT(60)
  <2>6. f \in Nat /\ g \in Nat /\ f \in 1..Len(fields) /\ g \in 1..Len(fields)
    BY <1>9 DEF n
  <2>7. h[f] \in Nat /\ h[g] \in Nat
    BY <1>6, <2>4
  <2>8. f < g => h[f] < h[g]
    BY <2>3, <2>6, Zenon
  <2>9. g < f => h[g] < h[f]
    BY <2>3, <2>6, Zenon
  <2> DEFINE hf == h[f]
             hg == h[g]
  <2>10. hf \in Nat /\ hg \in Nat /\ hf = hg /\ (f < g => hf < hg) /\ (g < f => hg < hf)
    BY <2>5, <2>7, <2>8, <2>9, Zenon
  <2> HIDE DEF hf, hg
  <2> QED
    BY <2>6, <2>10
<1>10. ASSUME NEW i \in 1..Len(v), f = n + i, wrapped[p][f] = MethodFunction(v[i], own),
              NEW j \in 1..Len(v), g = n + j, wrapped[p][g] = MethodFunction(v[j], own)
       PROVE  FALSE
  <2>1. v[i] \in Overload /\ v[j] \in Overload /\ i # j
    BY <1>10
  <2>2. /\ CppName(v[i].name, MethodWords) = CppName(v[j].name, MethodWords)
        /\ MethodFunction(v[i], own).params = MethodFunction(v[j], own).params
    BY <1>10 DEF MethodFunction
  <2>3. Len(v[i].args) = Len(v[j].args) /\ SameShape(v[i].args, v[j].args)
    BY <2>1, <2>2, ParametersShape
  <2>4. PICK a \in 1..Len(e.members) :
          e.members[a].is = "method" /\ ~Differ(v[i], e.members[a].what)
    BY <1>2, <1>3, <1>5, <1>7, MethodsOfClass
  <2>5. PICK b \in 1..Len(e.members) :
          e.members[b].is = "method" /\ ~Differ(v[j], e.members[b].what)
    BY <1>2, <1>3, <1>5, <1>7, MethodsOfClass
  <2>6. v[i].name = e.members[a].what.name /\ v[j].name = e.members[b].what.name
    BY <2>4, <2>5 DEF Differ
  <2>7. e.members[a].what.name = e.members[b].what.name
    <3>1. a \in DOMAIN e.members /\ b \in DOMAIN e.members
      BY <1>6, Zenon
    <3>2. CppName(e.members[a].what.name, MethodWords)
            = CppName(e.members[b].what.name, MethodWords)
      BY <2>2, <2>6, Zenon
    <3> QED
      BY <1>2, <2>4, <2>5, <3>1, <3>2, DistinctNames, Zenon
  <2>8. ~Differ(v[i], v[j])
    BY <2>3, <2>6, <2>7 DEF Differ
  <2>9. PICK t \in Seq(JavaMethod) : Grouped(t, 1, Len(t), v)
    BY <1>2, Zenon DEF Collapses
  <2> QED
    BY <1>7, <2>1, <2>3, <2>8, <2>9, GroupedApart
<1>11. ASSUME NEW x \in 1..n, NEW i \in 1..Len(v)
       PROVE  FieldFunction(fields[x], own).method # MethodFunction(v[i], own).method
  BY DEF FieldFunction, MethodFunction
<1> QED
  BY <1>8, <1>9, <1>10, <1>11

LEMMA PipelineTyped ==
  ASSUME PipelineInv
  PROVE  PipelineTypeOK
<1>1. TypeOK
  BY CollapsingIsTyped DEF PipelineInv
<1>2. /\ step \in {"open", "javap", "split", "members", "collapse", "exit"}
      /\ status \in 0..255 /\ Len(wrapped) <= Len(members_list)
  BY DEF PipelineInv, Writing
<1>3. results # <<>> => DOMAIN results = DOMAIN classes
  BY DEF PipelineInv, Writing
<1> QED
  BY <1>1, <1>2, <1>3 DEF PipelineTypeOK

-----------------------------------------------------------------------------
(* Every class its own *)

(* Up to the k-th sequence, each one closes at its end and not before. *)
ClosedUpto(s, k) ==
  \A j \in 1..k : /\ Len(s[j]) \in Nat \ {0} /\ Closes(s[j][Len(s[j])])
                  /\ \A i \in 1..Len(s[j]) - 1 : ~Closes(s[j][i])

(* Where the text closes up to there is where sequences end. *)
LEMMA ClosesAtEnds ==
  ASSUME NEW s \in Seq(Seq(Token)), NEW t \in Seq(Token), NEW L, Laid(s, t, L),
         NEW k \in 1..Len(s), ClosedUpto(s, k)
  PROVE  /\ \A j \in 1..k : /\ L[j] \in 1..Len(t) /\ L[j] \in Nat /\ L[j - 1] < L[j]
                            /\ Closes(t[L[j]])
         /\ \A q \in 1..Len(t) : Closes(t[q]) /\ q <= L[k] => \E j \in 1..k : q = L[j]
<1> DEFINE n == Len(s)
<1>1. n \in Nat /\ k \in 1..n /\ k \in Nat /\ Len(t) \in Nat
  OBVIOUS
<1>2. /\ L \in [0..n -> Nat] /\ Len(t) = L[n]
      /\ \A j \in 1..n : L[j] = L[j - 1] + Len(s[j])
      /\ \A i, j \in 0..n : i <= j => L[i] <= L[j]
      /\ \A j \in 1..n : \A i \in 1..Len(s[j]) : t[L[j - 1] + i] = s[j][i]
      /\ \A q \in 1..Len(t) : \E j \in 1..n : L[j - 1] < q /\ q <= L[j]
  BY DEF Laid
<1> HIDE DEF n
<1>3. ASSUME NEW j \in 1..k
      PROVE  /\ j \in 1..n /\ j \in 0..n /\ j - 1 \in 0..n /\ Len(s[j]) \in Nat \ {0}
             /\ L[j] \in Nat /\ L[j - 1] \in Nat /\ L[j] = L[j - 1] + Len(s[j])
  <2>1. j \in 1..n /\ j \in 0..n /\ j - 1 \in 0..n
    BY <1>1
  <2>2. Len(s[j]) \in Nat \ {0}
    BY DEF ClosedUpto
  <2> QED
    BY <1>2, <2>1, <2>2
<1>4. ASSUME NEW j \in 1..k
      PROVE  /\ L[j] \in 1..Len(t) /\ L[j] \in Nat /\ L[j - 1] < L[j]
             /\ Closes(t[L[j]])
  <2> DEFINE before == L[j - 1]
             end == L[j]
             len == Len(s[j])
  <2>1. before \in Nat /\ end \in Nat /\ len \in Nat \ {0} /\ end = before + len
    BY <1>3, Zenon
  <2>2. end <= Len(t)
    BY <1>1, <1>2, <1>3, SMTT(40)
  <2>3. t[before + len] = s[j][len]
    <3>1. len \in 1..len
      BY <2>1
    <3> QED
      BY <1>2, <1>3, <3>1, Zenon
  <2>4. Closes(s[j][len])
    BY DEF ClosedUpto
  <2>5. Closes(t[end])
    BY <2>1, <2>3, <2>4, Zenon
  <2> HIDE DEF before, end, len
  <2>6. end \in 1..Len(t) /\ end \in Nat /\ before < end
    BY <1>1, <2>1, <2>2
  <2> QED
    BY <2>5, <2>6 DEF before, end
<1>5. ASSUME NEW q \in 1..Len(t), Closes(t[q]), q <= L[k]
      PROVE  \E j \in 1..k : q = L[j]
  <2>1. PICK j \in 1..n : L[j - 1] < q /\ q <= L[j]
    BY <1>2
  <2>2. j - 1 \in 0..n /\ k \in 0..n /\ L[j - 1] \in Nat /\ L[k] \in Nat /\ q \in Nat
    <3>1. j - 1 \in 0..n /\ k \in 0..n /\ q \in Nat
      BY <1>1
    <3> QED
      BY <1>2, <3>1
  <2>3. j \in 1..k
    <3> SUFFICES ASSUME j > k PROVE FALSE
      BY <1>1
    <3>1. k <= j - 1
      BY <1>1
    <3>2. L[k] <= L[j - 1]
      BY <1>2, <2>2, <3>1
    <3> DEFINE x == L[k]
               y == L[j - 1]
    <3>3. x <= y /\ y < q /\ q <= x /\ x \in Nat /\ y \in Nat /\ q \in Nat
      BY <1>5, <2>1, <2>2, <3>2
    <3> HIDE DEF x, y
    <3> QED
      BY <3>3
  <2> DEFINE before == L[j - 1]
             end == L[j]
             len == Len(s[j])
             i == q - before
  <2>4. /\ before \in Nat /\ end \in Nat /\ len \in Nat \ {0} /\ end = before + len
        /\ before < q /\ q <= end /\ q \in Nat
    BY <1>3, <2>1, <2>2, <2>3, Zenon
  <2>5. \A x \in 1..len - 1 : ~Closes(s[j][x])
    BY <2>3 DEF ClosedUpto
  <2>6. \A x \in 1..len : t[before + x] = s[j][x]
    BY <1>2
  <2> HIDE DEF before, end, len
  <2>7. i \in 1..len /\ before + i = q /\ (i \in 1..len - 1 \/ q = end)
    BY <2>4
  <2> HIDE DEF i
  <2>8. q = end
    BY <1>5, <2>5, <2>6, <2>7
  <2> QED
    BY <2>3, <2>8 DEF end
<1> QED
  BY <1>4, <1>5

LEMMA EndsOfClosed ==
  ASSUME NEW s \in Seq(Seq(Token)), NEW t \in Seq(Token), NEW L, Laid(s, t, L),
         NEW k \in 1..Len(s), ClosedUpto(s, k)
  PROVE  k <= Len(Ends_(t)) /\ \A j \in 1..k : Ends_(t)[j] = L[j]
<1> DEFINE ends == Ends_(t)
           c == Len(ends)
<1>1. /\ ends \in Seq(Nat) /\ c \in Nat
      /\ \A i \in 1..c : ends[i] \in 1..Len(t) /\ Closes(t[ends[i]])
      /\ \A i, j \in 1..c : i < j => ends[i] < ends[j]
      /\ \A q \in 1..Len(t) : Closes(t[q]) => \E i \in 1..c : ends[i] = q
  <2> DEFINE S == {q \in DOMAIN t : Closes(t[q])}
  <2>1. /\ ends \in Seq(Nat)
        /\ \A i \in 1..c : ends[i] \in (1..Len(t)) \cap S
        /\ \A i, j \in 1..c : i < j => ends[i] < ends[j]
        /\ \A q \in (1..Len(t)) \cap S : \E i \in 1..c : ends[i] = q
    <3>1. ends = Places(t, S)
      BY DEF Ends_
    <3> HIDE DEF ends, S
    <3>2. /\ Places(t, S) \in Seq(Nat)
          /\ \A i \in 1..Len(Places(t, S)) : Places(t, S)[i] \in (1..Len(t)) \cap S
          /\ \A i, j \in 1..Len(Places(t, S)) :
               i < j => Places(t, S)[i] < Places(t, S)[j]
          /\ \A q \in (1..Len(t)) \cap S :
               \E i \in 1..Len(Places(t, S)) : Places(t, S)[i] = q
      BY PlacesAre
    <3> QED
      BY <3>1, <3>2, Zenon
  <2>2. DOMAIN t = 1..Len(t)
    OBVIOUS
  <2> HIDE DEF ends
  <2> QED
    BY <2>1, <2>2
<1> HIDE DEF ends, c
<1>2. /\ k \in Nat /\ Len(t) \in Nat
      /\ \A j \in 1..k : /\ L[j] \in 1..Len(t) /\ L[j] \in Nat /\ L[j - 1] < L[j]
                         /\ Closes(t[L[j]])
      /\ \A q \in 1..Len(t) : Closes(t[q]) /\ q <= L[k] => \E j \in 1..k : q = L[j]
  BY ClosesAtEnds
<1>3. \A i, j \in 1..k : i < j => L[i] < L[j]
  <2> SUFFICES ASSUME NEW i \in 1..k, NEW j \in 1..k, i < j PROVE L[i] < L[j]
    OBVIOUS
  <2>1. /\ i \in 0..Len(s) /\ j - 1 \in 0..Len(s) /\ i <= j - 1
    BY <1>2
  <2>2. L[i] <= L[j - 1] /\ L[j - 1] \in Nat
    BY <2>1 DEF Laid
  <2> DEFINE x == L[i]
             y == L[j - 1]
             z == L[j]
  <2>3. x <= y /\ y < z /\ x \in Nat /\ y \in Nat /\ z \in Nat
    BY <1>2, <2>2
  <2> HIDE DEF x, y, z
  <2>4. x < z
    BY <2>3
  <2> QED
    BY <2>4 DEF x, z
<1> DEFINE wrong == {j \in 1..k : ~(j <= c /\ ends[j] = L[j])}
<1>4. wrong = {}
  <2> SUFFICES ASSUME wrong # {} PROVE FALSE
    OBVIOUS
  <2>1. wrong \in SUBSET Nat
    OBVIOUS
  <2>2. PICK j \in wrong : \A i \in wrong : j <= i
    BY <2>1, LeastNumber
  <2>3. j \in 1..k /\ j \in Nat /\ ~(j <= c /\ ends[j] = L[j])
    OBVIOUS
  <2>4. \A i \in 1..k : i < j => i <= c /\ ends[i] = L[i]
    <3> SUFFICES ASSUME NEW i \in 1..k, i < j, i \in wrong PROVE FALSE
      OBVIOUS
    <3>1. j <= i
      BY <2>2
    <3> QED
      BY <2>3, <3>1
  <2> HIDE DEF wrong
  <2>5. PICK i \in 1..c : ends[i] = L[j]
    BY <1>1, <1>2, <2>3
  <2>6. ~(i < j)
    <3> SUFFICES ASSUME i < j PROVE FALSE
      OBVIOUS
    <3>1. i \in 1..k
      BY <1>1, <1>2, <2>3
    <3>2. L[i] < L[j] /\ L[i] = L[j] /\ L[i] \in Nat
      BY <1>2, <1>3, <2>3, <2>4, <2>5, <3>1
    <3> QED
      BY <3>2
  <2>7. j \in 1..c /\ (j = i \/ j < i)
    BY <1>1, <2>3, <2>5, <2>6
  <2>8. ends[j] \in 1..Len(t) /\ Closes(t[ends[j]]) /\ ends[j] \in Nat
    BY <1>1, <1>2, <2>7
  <2> DEFINE e == ends[j]
             l == L[j]
  <2>9. e <= l /\ e # l /\ l \in Nat /\ e \in Nat
    <3>1. j < i => ends[j] < ends[i]
      BY <1>1, <2>5, <2>7
    <3>2. e = l \/ e < l
      BY <2>5, <2>7, <3>1
    <3>3. e # l
      BY <1>1, <2>3, <2>7
    <3>4. l \in Nat /\ e \in Nat
      BY <1>2, <2>3, <2>8
    <3> HIDE DEF e, l
    <3> QED
      BY <3>2, <3>3, <3>4
  <2>10. e <= L[k]
    <3> DEFINE m == L[k]
    <3>1. k \in 1..k /\ (j = k \/ j < k)
      BY <1>2, <2>3
    <3>2. l = m \/ l < m
      BY <1>3, <2>3, <3>1
    <3>3. m \in Nat
      BY <1>2, <3>1
    <3> HIDE DEF e, l, m
    <3>4. e <= m
      BY <2>9, <3>2, <3>3
    <3> QED
      BY <3>4 DEF m
  <2>11. PICK x \in 1..k : e = L[x]
    BY <1>2, <2>8, <2>10
  <2>12. x < j
    <3> SUFFICES ASSUME ~(x < j) PROVE FALSE
      OBVIOUS
    <3>1. j = x \/ j < x
      BY <1>2, <2>3
    <3>2. l = e \/ l < e
      BY <1>3, <2>3, <2>11, <3>1
    <3> HIDE DEF e, l
    <3> QED
      BY <2>9, <3>2
  <2>13. x \in 1..c /\ ends[x] = e
    BY <1>1, <1>2, <2>4, <2>11, <2>12
  <2>14. ends[x] < ends[j]
    BY <1>1, <2>7, <2>12, <2>13
  <2> QED
    BY <2>8, <2>13, <2>14
<1>5. \A j \in 1..k : j <= c /\ ends[j] = L[j]
  BY <1>4
<1>6. k \in 1..k
  BY <1>2
<1> HIDE DEF wrong
<1> QED
  BY <1>5, <1>6 DEF ends, c

LEMMA SubSeqShifts ==
  ASSUME NEW T, NEW x \in Seq(T), NEW b \in Nat, NEW n \in Nat, b + n <= Len(x)
  PROVE  /\ SubSeq(x, b + 1, b + n) \in Seq(T) /\ Len(SubSeq(x, b + 1, b + n)) = n
         /\ \A i \in 1..n : SubSeq(x, b + 1, b + n)[i] = x[b + i]
<1> DEFINE c == b + 1
           d == b + n
<1>1. /\ c \in 1..Len(x) + 1 /\ d \in c - 1..Len(x) /\ d - c + 1 = n
      /\ \A i \in 1..n : c + i - 1 = b + i
  OBVIOUS
<1> HIDE DEF c, d
<1>2. /\ SubSeq(x, c, d) \in Seq(T) /\ Len(SubSeq(x, c, d)) = d - c + 1
      /\ \A i \in 1..d - c + 1 : SubSeq(x, c, d)[i] = x[c + i - 1]
  BY <1>1, SubSeqIs
<1>3. /\ SubSeq(x, c, d) \in Seq(T) /\ Len(SubSeq(x, c, d)) = n
      /\ \A i \in 1..n : SubSeq(x, c, d)[i] = x[b + i]
  BY <1>1, <1>2, Zenon
<1> QED
  BY <1>3 DEF c, d

LEMMA WholeHasNoBrace ==
  ASSUME NEW t, Whole(t)
  PROVE  \A i \in DOMAIN t : ~Closes(t[i])
  BY Zenon DEF Whole, Closes

(* The piece of a class is its members, when it is whole and the classes   *)
(* before it are.                                                          *)
LEMMA PieceOfWhole ==
  ASSUME PipelineInv, members_list # <<>>, NEW k \in 1..Len(classes),
         \A j \in 1..k : Whole(EntryOf(classes[j]).members)
  PROVE  /\ k \in 1..Len(members_list)
         /\ EntryOf(classes[k]) \in JarEntry
         /\ EntryOf(classes[k]) \in ToSet(jar) /\ jar \in Jars \ {Unreadable}
         /\ members_list[k] = EntryOf(classes[k]).members
<1> DEFINE s == Printout
           n == Len(classes)
           e == EntryOf(classes[k])
           ms == e.members
           m == Len(ms)
<1>1. /\ jar \in Seq(JarEntry) /\ jar \in Jars \ {Unreadable} /\ classes \in Seq(Names)
      /\ text = FlattenSeq(s) /\ text \in Seq(Token) /\ members_list = Cut(text)
      /\ members_list \in Seq(Seq(Token))
  BY DEF PipelineInv, Reading
<1>2. /\ s \in Seq(Seq(Token)) /\ Len(s) = n /\ n \in Nat
      /\ \A j \in 1..n : /\ s[j] = Printed(EntryOf(classes[j]))
                         /\ EntryOf(classes[j]) \in JarEntry
                         /\ EntryOf(classes[j]) \in ToSet(jar)
  BY <1>1, PrintoutIs, EntriesAre
<1>3. PICK L : Laid(s, text, L)
  BY <1>1, <1>2, FlattenLays
<1> HIDE DEF s, n
<1>4. k \in 1..n /\ k \in Nat /\ e \in JarEntry /\ e \in ToSet(jar)
  BY <1>2 DEF n
<1>5. ASSUME NEW j \in 1..k
      PROVE  /\ Len(s[j]) \in Nat \ {0} /\ Closes(s[j][Len(s[j])])
             /\ \A i \in 1..Len(s[j]) - 1 : ~Closes(s[j][i])
  <2> DEFINE f == EntryOf(classes[j])
             p == Printed(f)
             l == Len(f.members)
  <2>1. j \in 1..n /\ f \in JarEntry /\ s[j] = p
    BY <1>2, <1>4
  <2>2. /\ f.members \in Seq(Token) /\ l \in Nat /\ Len(p) = l + 2
        /\ Opens(p[1]) /\ Closes(p[l + 2])
        /\ \A i \in 1..l : p[i + 1] = f.members[i]
    BY <2>1, PrintedIs
  <2>3. \A i \in 1..l : ~Closes(f.members[i])
    <3>1. \A i \in DOMAIN f.members : ~Closes(f.members[i])
      BY WholeHasNoBrace
    <3>2. DOMAIN f.members = 1..l
      <4> HIDE DEF f
      <4> QED
        BY <2>2
    <3> QED
      BY <3>1, <3>2, Zenon
  <2>4. ~Closes(p[1])
    BY <2>2, Zenon DEF Opens, Closes
  <2> HIDE DEF f, p, l
  <2>5. ASSUME NEW i \in 1..l + 1
        PROVE  ~Closes(p[i])
    <3>1. CASE i = 1
      BY <2>4, <3>1
    <3>2. CASE i # 1
      <4>1. i - 1 \in 1..l /\ (i - 1) + 1 = i
        BY <2>2, <3>2
      <4>2. p[i] = f.members[i - 1]
        BY <2>2, <4>1
      <4> QED
        BY <2>3, <4>1, <4>2
    <3> QED
      BY <3>1, <3>2
  <2>6. /\ Len(p) \in Nat \ {0} /\ Closes(p[Len(p)])
        /\ \A i \in 1..Len(p) - 1 : ~Closes(p[i])
    <3>1. Len(p) - 1 = l + 1 /\ Len(p) \in Nat \ {0}
      BY <2>2
    <3> QED
      BY <2>2, <2>5, <3>1
  <2> QED
    BY <2>1, <2>6
<1>6. ClosedUpto(s, k)
  BY <1>5 DEF ClosedUpto
<1>7. k <= Len(Ends_(text)) /\ \A j \in 1..k : Ends_(text)[j] = L[j]
  BY <1>1, <1>2, <1>3, <1>4, <1>6, EndsOfClosed, SMTT(40)
<1> DEFINE before == L[k - 1]
           end == L[k]
<1>8. /\ before \in Nat /\ end \in Nat /\ end = before + m + 2 /\ m \in Nat
      /\ ms \in Seq(Token) /\ Len(s[k]) = m + 2
      /\ Opens(s[k][1]) /\ \A i \in 1..m : s[k][i + 1] = ms[i]
      /\ \A i \in 1..Len(s[k]) : text[before + i] = s[k][i]
  <2>1. k \in 0..n /\ k - 1 \in 0..n
    BY <1>2, <1>4
  <2>2. L[k] \in Nat /\ L[k - 1] \in Nat /\ L[k] = L[k - 1] + Len(s[k])
    BY <1>2, <1>3, <1>4, <2>1 DEF Laid
  <2>3. \A i \in 1..Len(s[k]) : text[L[k - 1] + i] = s[k][i]
    BY <1>2, <1>3, <1>4 DEF Laid
  <2>4. /\ s[k] = Printed(e) /\ ms \in Seq(Token) /\ m \in Nat /\ Len(s[k]) = m + 2
        /\ Opens(s[k][1]) /\ \A i \in 1..m : s[k][i + 1] = ms[i]
    BY <1>2, <1>4, PrintedIs, SMTT(40)
  <2> DEFINE len == Len(s[k])
  <2>5. before \in Nat /\ end \in Nat /\ end = before + len /\ len = m + 2 /\ m \in Nat
    BY <2>2, <2>4, Zenon
  <2> HIDE DEF ms, e, m, before, end, len
  <2>6. end = before + m + 2
    BY <2>5
  <2> USE DEF len
  <2>7. \A i \in 1..Len(s[k]) : text[before + i] = s[k][i]
    BY <2>3, Zenon DEF before
  <2> QED
    BY <2>4, <2>5, <2>6, <2>7, Zenon
<1>9. Len(Ends_(text)) \in Nat
  <2>1. Ends_(text) \in Seq(Nat)
    BY <1>1, PiecesAre
  <2> QED
    BY <2>1
<1>10. From(text, k) = before + 1 /\ Upto(text, k) = end - 1
  <2>1. Upto(text, k) = Ends_(text)[k] - 1
    <3>1. k # Len(Ends_(text)) + 1
      BY <1>4, <1>7, <1>9
    <3> QED
      BY <3>1, Zenon DEF Upto
  <2>2. CASE k = 1
    <3>1. From(text, k) = 1
      BY <2>2 DEF From
    <3>2. before = 0
      BY <1>3, <2>2 DEF Laid
    <3> QED
      BY <1>4, <1>7, <2>1, <3>1, <3>2
  <2>3. CASE k # 1
    <3>1. k - 1 \in 1..k /\ k \in 1..k
      BY <1>4, <2>3
    <3>2. From(text, k) = Ends_(text)[k - 1] + 1
      BY <2>3 DEF From
    <3> QED
      BY <1>7, <2>1, <3>1, <3>2
  <2> QED
    BY <2>2, <2>3
<1> DEFINE piece == SubSeq(text, before + 1, end - 1)
<1>11. k \in 1..Len(Ends_(text)) + 1 /\ k \in 1..Len(members_list)
  <2>1. Len(members_list) = Len(Ends_(text)) + 1
    BY <1>1, CutIs
  <2>2. k \in 1..Len(Ends_(text)) + 1
    BY <1>4, <1>7, <1>9
  <2> QED
    BY <2>1, <2>2
<1>12. /\ Pieces(text) = [q \in 1..Len(Ends_(text)) + 1 |->
                           SubSeq(text, From(text, q), Upto(text, q))]
       /\ From(text, k) \in 1..Len(text) + 1
       /\ Upto(text, k) \in From(text, k) - 1..Len(text)
  BY <1>1, <1>11, PiecesAre
<1>13. members_list[k] = AfterBrace(piece)
  <2>1. k \in DOMAIN Pieces(text) /\ Pieces(text)[k] = piece
    BY <1>10, <1>11, <1>12
  <2> QED
    BY <1>1, <2>1 DEF Cut
<1>14. /\ piece \in Seq(Token) /\ Len(piece) = m + 1
       /\ \A i \in 1..m + 1 : piece[i] = s[k][i]
  <2> HIDE DEF before, end, ms, m
  <2>1. /\ before \in Nat /\ m + 1 \in Nat /\ end - 1 = before + (m + 1)
        /\ before + (m + 1) <= Len(text)
    <3>1. end - 1 <= Len(text)
      <4>1. Upto(text, k) <= Len(text)
        BY <1>1, <1>12
      <4> QED
        BY <1>10, <4>1
    <3> QED
      BY <1>8, <3>1
  <2> DEFINE y == SubSeq(text, before + 1, before + (m + 1))
  <2>2. piece = y
    BY <2>1, Zenon
  <2>3. /\ y \in Seq(Token) /\ Len(y) = m + 1
        /\ \A i \in 1..m + 1 : y[i] = text[before + i]
    BY <1>1, <2>1, SubSeqShifts, SMTT(40)
  <2> HIDE DEF y, piece
  <2>4. \A i \in 1..m + 1 : i \in 1..Len(s[k])
    BY <1>8
  <2> QED
    BY <1>8, <2>2, <2>3, <2>4
<1> HIDE DEF piece, before, end
<1>15. PICK c \in 1..Len(piece) + 1 :
         /\ AfterBrace(piece) = SubSeq(piece, c, Len(piece))
         /\ c # 1 => Opens(piece[c - 1])
         /\ \A i \in 1..Len(piece) : Opens(piece[i]) => c # 1 /\ c - 1 <= i
  BY <1>14, AfterBraceIs
<1>16. m \in Nat /\ c = 2
  <2> HIDE DEF ms, m
  <2>1. 1 \in 1..Len(piece) /\ 1 \in 1..m + 1
    BY <1>8, <1>14
  <2>2. Opens(piece[1])
    BY <1>8, <1>14, <2>1
  <2>3. c # 1 /\ c - 1 <= 1
    BY <1>15, <2>1, <2>2
  <2> QED
    BY <1>8, <1>15, <2>3
<1> DEFINE x == SubSeq(piece, 1 + 1, 1 + m)
<1>17. /\ x \in Seq(Token) /\ Len(x) = m /\ \A i \in 1..m : x[i] = ms[i]
       /\ AfterBrace(piece) = x
  <2> HIDE DEF ms, m
  <2>1. c = 1 + 1 /\ Len(piece) = 1 + m /\ 1 + m <= Len(piece) /\ 1 \in Nat
    BY <1>14, <1>16
  <2>2. AfterBrace(piece) = x
    BY <1>15, <2>1, Zenon
  <2>3. /\ x \in Seq(Token) /\ Len(x) = m /\ \A i \in 1..m : x[i] = piece[1 + i]
    BY <1>14, <1>16, <2>1, SubSeqShifts
  <2> HIDE DEF x
  <2>4. \A i \in 1..m : 1 + i = i + 1 /\ i + 1 \in 1..m + 1
    BY <1>16
  <2> QED
    BY <1>8, <1>14, <2>2, <2>3, <2>4, ZenonT(60)
<1>18. x = ms
  <2>1. ms \in Seq(Token) /\ Len(ms) = m
    BY <1>8
  <2> HIDE DEF x, ms, m
  <2> QED
    BY <1>16, <1>17, <2>1
<1>19. members_list[k] = ms
  BY <1>13, <1>17, <1>18, Zenon
<1> QED
  BY <1>1, <1>4, <1>11, <1>19

(* Each member that is ended is on a line. *)
LEMMA EveryMemberHasLine ==
  ASSUME NEW t \in Seq(Token), MembersEnd(t),
         NEW is \in {"method", "field"}, NEW k \in 1..Len(t), t[k].is = is
  PROVE  \E l \in 1..Len(Lines(Erased(t), is)) : Lines(Erased(t), is)[l] = t[k].what
<1> DEFINE r == Erased(t)
           U == Unerased(t)
           n == Len(t)
           c == Len(r)
<1>1. r \in Seq(Token) /\ c \in Nat /\ n \in Nat /\ DOMAIN t = 1..n
  <2>1. r \in Seq(Token)
    BY ErasedIs, Zenon DEF Selects
  <2> HIDE DEF r
  <2> QED
    BY <2>1
<1>2. PICK pos \in [1..Len(r) -> (1..Len(t)) \cap Unerased(t)] :
        /\ \A i \in 1..Len(r) : r[i] = t[pos[i]]
        /\ \A i, j \in 1..Len(r) : i < j => pos[i] < pos[j]
        /\ \A q \in (1..Len(t)) \cap Unerased(t) : \E i \in 1..Len(r) : pos[i] = q
  BY ErasedIs, Zenon DEF Selects
<1>3. ASSUME NEW i \in 1..n
      PROVE  i \in U <=> ~InBrackets(t, i)
  <2> DEFINE a == Cardinality({j \in 1..i : t[j].is = "<"})
             b == Cardinality({j \in 1..i : t[j].is = ">"})
  <2>1. a \in Nat /\ b \in Nat
    <3>1. IsFiniteSet(1..i)
      BY FS_Interval
    <3>2. /\ IsFiniteSet({j \in 1..i : t[j].is = "<"})
          /\ IsFiniteSet({j \in 1..i : t[j].is = ">"})
      BY <3>1, FS_Subset
    <3> QED
      BY <3>2, FS_CardinalityType
  <2>2. Bracketed(t, i) = a - b
    BY DEF Bracketed
  <2>3. InBrackets(t, i) <=> a # b \/ t[i].is = ">"
    BY DEF InBrackets
  <2> HIDE DEF a, b
  <2>4. Bracketed(t, i) = 0 <=> a = b
    BY <2>1, <2>2
  <2> QED
    BY <1>1, <2>3, <2>4 DEF Unerased
<1> HIDE DEF r, U, c, n
<1>4. /\ k \in 1..n /\ ~InBrackets(t, k)
      /\ \E j \in 1..n : /\ k < j /\ t[j].is = ";" /\ ~InBrackets(t, j)
                         /\ \A i \in k + 1..j - 1 : InBrackets(t, i)
  BY <1>1 DEF MembersEnd, n
<1>5. PICK j \in 1..n : /\ k < j /\ t[j].is = ";" /\ ~InBrackets(t, j)
                        /\ \A i \in k + 1..j - 1 : InBrackets(t, i)
  BY <1>4
<1>6. \A i \in 1..c : pos[i] \in 1..n /\ pos[i] \in U /\ pos[i] \in Nat
  BY <1>1, <1>2, SMTT(40) DEF c, n, U
<1>7. PICK x \in 1..c : pos[x] = k
  BY <1>2, <1>3, <1>4 DEF c, n, U
<1>8. PICK y \in 1..c : pos[y] = j
  BY <1>2, <1>3, <1>5 DEF c, n, U
<1>9. x < y
  <2> SUFFICES ASSUME ~(x < y) PROVE FALSE
    OBVIOUS
  <2>1. y = x \/ y < x
    BY <1>1
  <2>2. j = k \/ j < k
    BY <1>2, <1>7, <1>8, <2>1 DEF c
  <2>3. k < j /\ k \in 1..n
    BY <1>4, <1>5, Zenon
  <2>4. k \in Nat /\ j \in Nat
    BY <1>1, <2>3
  <2> QED
    BY <2>2, <2>3, <2>4
<1>10. x + 1 = y
  <2> SUFFICES ASSUME x + 1 # y PROVE FALSE
    OBVIOUS
  <2>1. x + 1 \in 1..c /\ x < x + 1 /\ x + 1 < y
    BY <1>1, <1>9
  <2>2. k < pos[x + 1] /\ pos[x + 1] < j
    BY <1>2, <1>7, <1>8, <2>1 DEF c
  <2> DEFINE at == pos[x + 1]
  <2>3. at \in Nat /\ at \in 1..n /\ at \in U /\ k < at /\ at < j
    BY <1>6, <2>1, <2>2
  <2> HIDE DEF at
  <2>4. k \in Nat /\ j \in Nat
    BY <1>1
  <2>5. at \in k + 1..j - 1
    BY <2>3, <2>4
  <2> QED
    BY <1>3, <1>5, <2>3, <2>5
<1>11. /\ x < c /\ x \in 1..c /\ x + 1 \in 1..c
       /\ r[x] = t[k] /\ r[x + 1] = t[j]
  BY <1>1, <1>2, <1>7, <1>8, <1>9, <1>10, SMTT(40) DEF c
<1>12. x \in Ended(r, is)
  <2>1. DOMAIN r = 1..c
    BY <1>1 DEF c
  <2> QED
    BY <1>5, <1>11, <2>1 DEF Ended, c
<1>13. PICK q : LinesAt(r, is, Lines(r, is), q)
  BY <1>1, LinesAre, Zenon
<1> DEFINE lines == Lines(r, is)
<1> HIDE DEF lines
<1>14. PICK l \in 1..Len(lines) : q[l] = x
  BY <1>12, <1>13, Zenon DEF LinesAt, lines
<1>15. lines[l] = r[q[l]].what
  BY <1>13, Zenon DEF LinesAt, lines
<1>16. lines[l] = t[k].what
  BY <1>11, <1>14, <1>15
<1> QED
  BY <1>16 DEF lines, r

LEMMA MembersAre ==
  ASSUME NEW e \in JarEntry, NEW is
  PROVE  /\ \A m \in Members(e, is) :
              \E i \in 1..Len(e.members) : e.members[i].is = is /\ m = e.members[i].what
         /\ \A i \in 1..Len(e.members) :
              e.members[i].is = is => e.members[i].what \in Members(e, is)
<1> DEFINE t == e.members
<1>1. t \in Seq(Token)
  BY DEF JarEntry
<1> HIDE DEF t
<1>2. DOMAIN t = 1..Len(t)
  BY <1>1
<1>3. \A x : x \in ToSet(t) <=> \E i \in 1..Len(t) : x = t[i]
  BY <1>2, Zenon DEF ToSet
<1>4. Members(e, is) = {x.what : x \in {y \in ToSet(t) : y.is = is}}
  BY Zenon DEF Members, t
<1>5. ASSUME NEW m \in Members(e, is)
      PROVE  \E i \in 1..Len(t) : t[i].is = is /\ m = t[i].what
  <2>1. PICK x \in ToSet(t) : x.is = is /\ m = x.what
    BY <1>4, Zenon
  <2> QED
    BY <1>3, <2>1, Zenon
<1>6. ASSUME NEW i \in 1..Len(t), t[i].is = is
      PROVE  t[i].what \in Members(e, is)
  <2>1. t[i] \in ToSet(t)
    BY <1>3, Zenon
  <2> QED
    BY <1>4, <1>6, <2>1, Zenon
<1> QED
  BY <1>5, <1>6 DEF t

LEMMA EveryClassItsOwn ==
  ASSUME PipelineInv
  PROVE  OwnMembers
<1> SUFFICES ASSUME NEW k \in DOMAIN results,
                    \A j \in 1..k : Whole(EntryOf(classes[j]).members)
             PROVE  LET e == EntryOf(classes[k])
                        fs == ToSet(results[k].functions)
                        Named(m, f) == f.method /\ f.name = CppName(m.name, MethodWords)
                                                /\ Len(f.params) = Len(m.args)
                    IN  /\ \A m \in Members(e, "method") : \E f \in fs : Named(m, f)
                        /\ \A f \in fs : f.method => \E m \in Members(e, "method") : Named(m, f)
                        /\ {f.name : f \in {f \in fs : ~f.method}}
                             = {CppName(f.name, FieldWords) : f \in Members(e, "field")}
  BY Zenon DEF OwnMembers
<1> DEFINE e == EntryOf(classes[k])
           t == e.members
           piece == Erased(t)
           ms == Lines(piece, "method")
           own == ClassName(ms)
           fields == Lines(piece, "field")
           n == Len(fields)
           w == wrapped[k]
           fs == ToSet(results[k].functions)
           Named(m, f) == f.method /\ f.name = CppName(m.name, MethodWords)
                                   /\ Len(f.params) = Len(m.args)
<1>1. results # <<>>
  <2>1. DOMAIN <<>> = {}
    OBVIOUS
  <2> QED
    BY <2>1, Zenon
<1>2. /\ members_list # <<>> /\ Len(wrapped) = Len(members_list)
      /\ k \in DOMAIN classes /\ results[k].functions = w
      /\ classes \in Seq(Names)
  BY <1>1 DEF PipelineInv, Reading, Writing
<1>3. k \in 1..Len(classes)
  BY <1>2
<1>4. /\ k \in 1..Len(members_list)
      /\ e \in JarEntry /\ e \in ToSet(jar) /\ jar \in Jars \ {Unreadable}
      /\ members_list[k] = t
  BY <1>2, <1>3, PieceOfWhole
<1>5. MembersEnd(t)
  <2>1. k \in 1..k
    BY <1>3
  <2>2. Whole(t)
    BY <2>1
  <2> QED
    BY <1>4, <2>2, MembersWritten
<1>6. PICK v \in Seq(Overload) : Collapses(ms, v) /\ w = Functions_(piece, v)
  <2>1. Wraps(t, w)
    BY <1>2, <1>4, SMTT(40) DEF PipelineInv, Writing
  <2> QED
    BY <2>1, Zenon DEF Wraps
<1>7. t \in Seq(Token) /\ PartOf(t, e, 1)
  <2>1. /\ t \in Seq(Token) /\ Len(t) \in Nat /\ Len(Printed(e)) = Len(t) + 2
        /\ \A i \in 1..Len(t) : Printed(e)[i + 1] = t[i]
    BY <1>4, PrintedIs
  <2> HIDE DEF e, t
  <2>2. ASSUME NEW i \in 1..Len(t)
        PROVE  1 + i \in 1..Len(Printed(e)) /\ t[i] = Printed(e)[1 + i]
    <3>1. 1 + i = i + 1 /\ i + 1 \in 1..Len(t) + 2
      BY <2>1
    <3> QED
      BY <2>1, <3>1
  <2> QED
    BY <2>1, <2>2 DEF PartOf
<1>8. piece \in Seq(Token)
  BY <1>7, ErasedIs, Zenon DEF Selects
<1>9. ComesFrom(ms, "method", e) /\ ComesFrom(fields, "field", e)
  BY <1>4, <1>7, LinesOfPart
<1>10. /\ fields \in Seq([name : Nat, type : JavaType]) /\ n \in Nat
       /\ DOMAIN w = 1..n + Len(v)
       /\ \A x \in 1..n : w[x] = FieldFunction(fields[x], own)
       /\ \A i \in 1..Len(v) : w[n + i] = MethodFunction(v[i], own)
  BY <1>6, <1>8, FunctionsAre, ZenonT(60)
<1>11. ms \in Seq(JavaMethod)
  <2>1. ms \in Seq(What("method"))
    BY <1>8, LinesAre, Zenon DEF LinesAt
  <2> QED
    BY <2>1 DEF What
<1>12. /\ \A i \in 1..Len(t) : t[i].is = "method" => \E l \in 1..Len(ms) : ms[l] = t[i].what
       /\ \A i \in 1..Len(t) : t[i].is = "field" => \E l \in 1..n : fields[l] = t[i].what
  <2>1. ASSUME NEW is \in {"method", "field"}, NEW i \in 1..Len(t), t[i].is = is
        PROVE  \E l \in 1..Len(Lines(piece, is)) : Lines(piece, is)[l] = t[i].what
    BY <1>5, <1>7, <2>1, EveryMemberHasLine
  <2> QED
    BY <2>1
<1>13. /\ \A m \in Members(e, "method") : \E i \in 1..Len(t) : t[i].is = "method" /\ m = t[i].what
       /\ \A i \in 1..Len(t) : t[i].is = "method" => t[i].what \in Members(e, "method")
       /\ \A m \in Members(e, "field") : \E i \in 1..Len(t) : t[i].is = "field" /\ m = t[i].what
       /\ \A i \in 1..Len(t) : t[i].is = "field" => t[i].what \in Members(e, "field")
  BY <1>4, MembersAre, SMTT(40)
<1>14. fs = ToSet(w) /\ \A f : f \in fs <=> \E x \in 1..n + Len(v) : f = w[x]
  <2>1. fs = ToSet(w)
    BY <1>2
  <2> HIDE DEF w, fs
  <2> QED
    BY <1>10, <2>1, Zenon DEF ToSet
<1> HIDE DEF e, t, piece, ms, own, fields, n, w, fs
<1>15. Len(v) \in Nat /\ DOMAIN v = 1..Len(v)
  OBVIOUS
<1>16. /\ \A x \in 1..n : x \in 1..n + Len(v)
       /\ \A i \in 1..Len(v) : n + i \in 1..n + Len(v)
       /\ \A x \in 1..n + Len(v) : x \notin 1..n => \E i \in 1..Len(v) : x = n + i
  <2>1. ASSUME NEW x \in 1..n + Len(v), x \notin 1..n
        PROVE  \E i \in 1..Len(v) : x = n + i
    <3>1. x - n \in 1..Len(v) /\ x = n + (x - n)
      BY <1>10, <1>15, <2>1
    <3> QED
      BY <3>1
  <2>2. \A x \in 1..n : x \in 1..n + Len(v)
    BY <1>10, <1>15
  <2>3. \A i \in 1..Len(v) : n + i \in 1..n + Len(v)
    BY <1>10, <1>15
  <2> QED
    BY <2>1, <2>2, <2>3
<1>17. ASSUME NEW i \in 1..Len(v)
       PROVE  /\ MethodFunction(v[i], own).method = TRUE
              /\ MethodFunction(v[i], own).name = CppName(v[i].name, MethodWords)
              /\ Len(MethodFunction(v[i], own).params) = Len(v[i].args)
  <2>1. v[i].args \in Seq(OrTypes)
    <3>1. v[i] \in Overload
      BY <1>15
    <3> QED
      BY <3>1 DEF Overload
  <2> DEFINE params == [x \in DOMAIN v[i].args |-> Parameter(v[i].args[x], own)]
  <2>2. Len(params) = Len(v[i].args)
    <3>1. DOMAIN params = 1..Len(v[i].args) /\ Len(v[i].args) \in Nat
      BY <2>1
    <3> HIDE DEF params
    <3> QED
      BY <3>1
  <2>3. /\ MethodFunction(v[i], own).method = TRUE
        /\ MethodFunction(v[i], own).name = CppName(v[i].name, MethodWords)
        /\ MethodFunction(v[i], own).params = params
    BY DEF MethodFunction
  <2> QED
    BY <2>2, <2>3, Zenon
<1>18. \A f : /\ FieldFunction(f, own).method = FALSE
              /\ FieldFunction(f, own).name = CppName(f.name, FieldWords)
  BY DEF FieldFunction
<1>19. ASSUME NEW m \in Members(e, "method")
       PROVE  \E f \in fs : Named(m, f)
  <2>1. PICK l \in 1..Len(ms) : ms[l] = m
    <3>1. PICK i \in 1..Len(t) : t[i].is = "method" /\ m = t[i].what
      BY <1>13, <1>19, Zenon
    <3> QED
      BY <1>12, <3>1
  <2>2. m \in ToSet(ms)
    BY <1>11, <2>1 DEF ToSet
  <2>3. PICK u \in Seq(JavaMethod) : ToSet(u) = ToSet(ms) /\ Grouped(u, 1, Len(u), v)
    BY <1>6, Zenon DEF Collapses
  <2>4. PICK i \in 1..Len(v) : Takes(v[i], m)
    BY <1>15, <2>2, <2>3, GroupedKeeps, Zenon
  <2>5. v[i].name = m.name /\ Len(v[i].args) = Len(m.args)
    BY <2>4, Zenon DEF Takes
  <2>6. w[n + i] \in fs
    BY <1>14, <1>16, Zenon
  <2>7. Named(m, w[n + i])
    BY <1>10, <1>17, <2>5, Zenon
  <2> QED
    BY <2>6, <2>7, Zenon
<1>20. ASSUME NEW f \in fs, f.method
       PROVE  \E m \in Members(e, "method") : Named(m, f)
  <2>1. PICK x \in 1..n + Len(v) : f = w[x]
    BY <1>14, Zenon
  <2>2. x \notin 1..n
    BY <1>10, <1>18, <1>20, <2>1, Zenon
  <2>3. PICK i \in 1..Len(v) : x = n + i
    BY <1>16, <2>2, Zenon
  <2>4. PICK a \in 1..Len(t) : t[a].is = "method" /\ ~Differ(v[i], t[a].what)
    BY <1>6, <1>9, <1>11, <1>15, MethodsOfClass DEF t
  <2>5. v[i].name = t[a].what.name /\ Len(v[i].args) = Len(t[a].what.args)
    BY <2>4, Zenon DEF Differ
  <2>6. f = MethodFunction(v[i], own)
    BY <1>10, <2>1, <2>3, Zenon
  <2>7. Named(t[a].what, f)
    BY <1>17, <2>5, <2>6, Zenon
  <2> QED
    BY <1>13, <2>4, <2>7, Zenon
<1>21. {f.name : f \in {f \in fs : ~f.method}}
         = {CppName(f.name, FieldWords) : f \in Members(e, "field")}
  <2>1. ASSUME NEW f \in fs, ~f.method
        PROVE  \E g \in Members(e, "field") : f.name = CppName(g.name, FieldWords)
    <3>1. PICK x \in 1..n + Len(v) : f = w[x]
      BY <1>14, Zenon
    <3>2. x \in 1..n
      BY <1>10, <1>16, <1>17, <2>1, <3>1, ZenonT(60)
    <3>3. f.name = CppName(fields[x].name, FieldWords)
      BY <1>10, <1>18, <3>1, <3>2, Zenon
    <3>4. PICK h \in [1..Len(fields) -> 1..Len(e.members)] :
            \A l \in 1..Len(fields) : e.members[h[l]].is = "field"
                                      /\ fields[l] = e.members[h[l]].what
      BY <1>9, Zenon DEF ComesFrom
    <3>5. h[x] \in 1..Len(t) /\ t[h[x]].is = "field" /\ fields[x] = t[h[x]].what
      BY <3>2, <3>4 DEF n, t
    <3> QED
      BY <1>13, <3>3, <3>5, Zenon
  <2>2. ASSUME NEW g \in Members(e, "field")
        PROVE  \E f \in fs : ~f.method /\ f.name = CppName(g.name, FieldWords)
    <3>1. PICK l \in 1..n : fields[l] = g
      <4>1. PICK i \in 1..Len(t) : t[i].is = "field" /\ g = t[i].what
        BY <1>13, <2>2, Zenon
      <4> QED
        BY <1>12, <4>1
    <3>2. w[l] \in fs
      BY <1>14, <1>16, Zenon
    <3>3. ~w[l].method /\ w[l].name = CppName(g.name, FieldWords)
      BY <1>10, <1>18, <3>1, Zenon
    <3> QED
      BY <3>2, <3>3, Zenon
  <2> QED
    BY <2>1, <2>2
<1> QED
  BY <1>19, <1>20, <1>21, Zenon DEF e, fs

-----------------------------------------------------------------------------
(* Theorem: in the run of the generator, whatever the jar, process_members    *)
(* loses no method of a class while it collapses: each can be called through  *)
(* an overload with its own array ranks and native types, and each is counted *)
(* once, the assertion of the program.                                        *)
THEOREM NoMethodLost == PipelineSpec => []Complete
<1>1. PipelineInv => Complete
  BY CollapsedIsComplete DEF PipelineInv
<1> QED
  BY <1>1, PipelineInvHolds, PTL

(* Theorem: nor does it leave two overloads of one name with parameters that  *)
(* C++ takes for the same, although it compares only what the sorts have made *)
(* neighbours.                                                                *)
THEOREM NoOverloadTwice == PipelineSpec => []NoRedeclaration
<1>1. PipelineInv => NoRedeclaration
  BY CollapsedIsDistinct DEF PipelineInv
<1> QED
  BY <1>1, PipelineInvHolds, PTL

(* Theorem: whatever the jar, what the generator writes is well formed: no *)
(* piece of what javap prints, cut and erased wherever its constants have  *)
(* braces and brackets, makes two functions of one name and parameters.    *)
THEOREM WrittenWellFormed == PipelineSpec => []WellFormed
<1>1. PipelineInv => WellFormed
  BY PipelineTyped, NoneWrittenTwice DEF WellFormed
<1> QED
  BY <1>1, PipelineInvHolds, PTL

(* Theorem: whatever the jar, as long as no class up to it has a constant  *)
(* with a brace or a bracket alone, the functions that are written for a   *)
(* class are those of its own members, all of them, and of no others.      *)
THEOREM EachClassItsOwn == PipelineSpec => []OwnMembers
<1>1. PipelineInv => OwnMembers
  BY EveryClassItsOwn
<1> QED
  BY <1>1, PipelineInvHolds, PTL

(* Theorem: the collapsing of any one class by itself loses no method,     *)
(* whatever the generator does before it and after it.                     *)
THEOREM CollapseIsComplete == Spec => []Complete
<1>1. Collapsing => Complete
  BY CollapsedIsComplete
<1> QED
  BY <1>1, CollapsingHolds, PTL

(* Theorem: nor does it, by itself, leave two overloads that C++ takes for *)
(* one.                                                                    *)
THEOREM CollapseIsDistinct == Spec => []NoRedeclaration
<1>1. Collapsing => NoRedeclaration
  BY CollapsedIsDistinct
<1> QED
  BY <1>1, CollapsingHolds, PTL

=============================================================================
