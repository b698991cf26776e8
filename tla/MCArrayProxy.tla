---------------------------- MODULE MCArrayProxy ----------------------------
(* Two variables over two arrays of two elements, two iterators or proxies,  *)
(* and three references to share.                                             *)
EXTENDS ArrayProxy, TLC

StepsTaken == {-2, -1, 1, 2}

Symmetric == Permutations(Handles) \cup Permutations(Vars)

=============================================================================
