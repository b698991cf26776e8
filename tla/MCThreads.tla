----------------------------- MODULE MCThreads -----------------------------
(* Every use of the library, two wrapper classes, two threads and four     *)
(* references: each thread can hold one while both classes have theirs.    *)
EXTENDS Threads, TLC

CONSTANTS k1, k2, t1, t2, r1, r2, r3, r4

AnyUse == {"launcher", "library", "agent"}
Classes2 == {k1, k2}
Workers2 == {t1, t2}
Refs4 == {r1, r2, r3, r4}

Symm == Permutations(Classes2) \cup Permutations(Refs4)
=============================================================================
