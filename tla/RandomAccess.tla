---------------------------- MODULE RandomAccess ----------------------------
(***************************************************************************)
(* What an iterator over an array promises when it calls itself a random   *)
(* access iterator: it denotes a place, operations on it move it and leave *)
(* the array alone, storing through it changes that one place and moves no *)
(* iterator, and it equals another one when both denote the same place.    *)
(* Some of the iterators do something else in a few operations; what that  *)
(* is belongs to the promise too.                                          *)
(* request records what the client asked for last, with the answer.        *)
(***************************************************************************)
EXTENDS Integers

CONSTANTS
  Iters,     \* iterator variables
  Arrays,    \* Java arrays, all of one length
  Places,    \* indices of elements
  Positions, \* where an iterator may be: the places and past the end
  Steps,     \* how far it may be moved at once
  Values,
  None

VARIABLES elems, place, request

vars == <<elems, place, request>>

Init ==
  /\ elems \in [Arrays -> [Places -> Values]]
  /\ place = [i \in Iters |-> None]
  /\ request = None

Move(i, p) == place' = [place EXCEPT ![i] = p] /\ UNCHANGED elems

At(i, a, k) ==
  /\ request' = <<"at", i>>
  /\ Move(i, <<a, k>>)

Assign(i, j) ==
  /\ place[j] # None
  /\ request' = <<"assign", i, j>>
  /\ Move(i, place[j])

Advance(i, n) ==
  /\ place[i] # None
  /\ request' = <<"advance", i, n>>
  /\ Move(i, <<place[i][1], place[i][2] + n>>)

Plus(i, j, n) ==
  /\ place[j] # None
  /\ request' = <<"plus", i, j, n>>
  /\ Move(i, <<place[j][1], place[j][2] + n>>)

Store(i, x) ==
  /\ place[i] # None /\ place[i][2] \in Places
  /\ request' = <<"store", i, x>>
  /\ elems' = [elems EXCEPT ![place[i][1]][place[i][2]] = x]
  /\ UNCHANGED place

Compare(i, j) ==
  /\ place[i] # None /\ place[j] # None
  /\ request' = <<"compare", i, j, place[i] = place[j]>>
  /\ UNCHANGED <<elems, place>>

Forget(i) ==
  /\ request' = <<"forget", i>>
  /\ Move(i, None)

Next ==
  \/ \E i, j \in Iters : Assign(i, j) \/ Compare(i, j)
  \/ \E i \in Iters, a \in Arrays, k \in Positions : At(i, a, k)
  \/ \E i \in Iters, n \in Steps : Advance(i, n)
  \/ \E i, j \in Iters, n \in Steps \cup {0} : Plus(i, j, n)
  \/ \E i \in Iters, x \in Values : Store(i, x)
  \/ \E i \in Iters : Forget(i)

Spec == Init /\ [][Next]_vars

-----------------------------------------------------------------------------
(* What is done instead by an iterator that is a proxy in disguise: what   *)
(* should give it another place stores what is at that place in its own,   *)
(* and it stays where it is.                                               *)
Stored(i, p) ==
  /\ place[i] # None /\ place[i][2] \in Places /\ p[2] \in Places
  /\ elems' = [elems EXCEPT ![place[i][1]][place[i][2]] = elems[p[1]][p[2]]]
  /\ UNCHANGED place

AssignElement(i, j) ==
  /\ place[j] # None
  /\ request' = <<"assign", i, j>>
  /\ Stored(i, place[j])

AdvanceElement(i, n) ==
  /\ place[i] # None
  /\ request' = <<"advance", i, n>>
  /\ Stored(i, <<place[i][1], place[i][2] + n>>)

(* Iterators at one place that count as different. *)
Unequal(i, j) ==
  /\ place[i] # None /\ place[i] = place[j]
  /\ request' = <<"compare", i, j, FALSE>>
  /\ UNCHANGED <<elems, place>>

=============================================================================
