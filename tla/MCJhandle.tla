----------------------------- MODULE MCJhandle -----------------------------
(* Small instances of Jhandle for TLC. *)
EXTENDS Jhandle, TLC

CONSTANTS s1, s2, s3, h1, h2, h3, o1, o2

Slots3 == {s1, s2, s3}
Handles3 == {h1, h2, h3}
Objects2 == {o1, o2}

AllKinds == Kinds \ {"invalid"}

Disciplined == {}

Symm3 == Permutations(Slots3) \cup Permutations(Handles3)
           \cup Permutations(Objects2)
=============================================================================
