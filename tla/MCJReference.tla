---------------------------- MODULE MCJReference ----------------------------
(* Small instances of JReference for TLC. *)
EXTENDS JReference, TLC

CONSTANTS s1, s2, s3, h1, h2, h3, h4, o1, o2

Slots2 == {s1, s2}
Slots3 == {s1, s2, s3}
Handles4 == {h1, h2, h3, h4}
Objects2 == {o1, o2}

(* Everything the interface allows. *)
AllKinds == ValidKinds
AllConversions == ValidKinds \X ValidKinds

(* Conversions that do not change the kind, on which the tag comes out right. *)
SameKind == {<<k, k>> : k \in ValidKinds}

Symm2 == Permutations(Slots2) \cup Permutations(Handles4)
           \cup Permutations(Objects2)
Symm3 == Permutations(Slots3) \cup Permutations(Handles4)
           \cup Permutations(Objects2)
=============================================================================
