-------------------------------- MODULE Lists --------------------------------
(***************************************************************************)
(* What the generators use of the C++ library on lists: comparing, sorting *)
(* and choosing.  Less(x, y) is a comparison that std::sort accepts.       *)
(***************************************************************************)
EXTENDS Naturals, Sequences, SequencesExt, FiniteSetsExt

(* std::lexicographical_compare *)
Lexicographic(Less(_, _), a, b) ==
  LET common == 1..Min({Len(a), Len(b)})
      Alike(i) == ~Less(a[i], b[i]) /\ ~Less(b[i], a[i])
  IN  \/ \E i \in common :
           Less(a[i], b[i]) /\ \A j \in 1..i - 1 : Alike(j)
      \/ Len(a) < Len(b) /\ \A i \in common : Alike(i)

(* The order of characters, and operator< of strings. *)
Number(c, d) == c < d
StringBefore(a, b) == Lexicographic(Number, a, b)

(* std::stable_sort: an element goes behind all that are less, and behind  *)
(* the earlier ones that are not greater.                                  *)
StableSort(Less(_, _), s) ==
  LET before == [i \in DOMAIN s |->
                   {j \in DOMAIN s : \/ Less(s[j], s[i])
                                     \/ j < i /\ ~Less(s[i], s[j])}]
  IN  [p \in DOMAIN s |->
         s[CHOOSE i \in DOMAIN s : Cardinality(before[i]) = p - 1]]

(* std::sort of the members of a set, no two of which are alike. *)
Ascending(Less(_, _), S) ==
  [p \in 1..Cardinality(S) |->
     CHOOSE x \in S : Cardinality({y \in S : Less(y, x)}) = p - 1]

(* What a sequence has at a set of places, in order. *)
At(t, places) ==
  FlattenSeq([k \in DOMAIN t |-> IF k \in places THEN <<t[k]>> ELSE <<>>])

==============================================================================
