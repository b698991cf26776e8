---------------------------- MODULE MCOldHandle ----------------------------
(* A small instance of OldHandle for TLC: two variables and two handles. *)
EXTENDS OldHandle

CONSTANTS s1, s2, h1, h2, o1

Slots2 == {s1, s2}
Handles2 == {h1, h2}
Objects1 == {o1}
LocalOnly == {"local"}
Disciplined == {}
=============================================================================
