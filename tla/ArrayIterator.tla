--------------------------- MODULE ArrayIterator ---------------------------
(***************************************************************************)
(* Iterators over Java arrays in no-jni.hpp: Iterator holds an Element, an *)
(* Element holds the raw handle of the array, taken from the jObject that  *)
(* made it, and an index.  Element is a proxy: assigning to an Element     *)
(* assigns the element of the Java array.  The assignment of Iterator is   *)
(* defaulted, so it assigns its Element.                                   *)
(*                                                                         *)
(* A jObject is here a variable that owns one global reference, which it   *)
(* makes and deletes (see JReference); references are reused.              *)
(***************************************************************************)
EXTENDS Integers

CONSTANTS
  Vars,      \* jObject variables that hold an array
  Iters,     \* Iterator variables
  Handles,   \* JNI references
  Arrays,    \* Java arrays
  Length,    \* their length
  Steps,     \* distances an iterator is moved at once
  Values,    \* what an element may hold
  None       \* no handle, no array

ASSUME NoneNotUsed ==
  None \notin Handles \cup Arrays \cup (Arrays \X (0..Length))
ASSUME LengthPositive == Length \in Nat \ {0}
ASSUME StepsType == Steps \subseteq Int

VARIABLES
  elems,   \* the elements of the arrays
  names,   \* names[h]: the array that reference h refers to
  owner,   \* owner[v]: ref.obj of variable v
  obj,     \* obj[i]: element.obj of iterator i; None where there is no i
  idx,     \* idx[i]: element.idx of iterator i
  request  \* what the client asked of an iterator last, and the answer

vars == <<elems, names, owner, obj, idx, request>>

Places == 0..Length - 1
Positions == 0..Length

TypeOK ==
  /\ elems \in [Arrays -> [Places -> Values]]
  /\ names \in [Handles -> Arrays \cup {None}]
  /\ owner \in [Vars -> Handles \cup {None}]
  /\ obj \in [Iters -> Handles \cup {None}]
  /\ idx \in [Iters -> Positions]

Init ==
  /\ elems \in [Arrays -> [Places -> Values]]
  /\ names = [h \in Handles |-> None]
  /\ owner = [v \in Vars |-> None]
  /\ obj = [i \in Iters |-> None]
  /\ idx = [i \in Iters |-> 0]
  /\ request = None

-----------------------------------------------------------------------------
(* The variables that own arrays *)

(* A slip, to test the properties: v shares the reference of another. *)
OwnShared(v, a) ==
  /\ owner[v] = None
  /\ \E h \in Handles :
       /\ names[h] \in {None, a}
       /\ names' = [names EXCEPT ![h] = a]
       /\ owner' = [owner EXCEPT ![v] = h]
  /\ UNCHANGED <<elems, obj, idx, request>>

(* v comes to own a new reference to array a, from JNI or from a copy. *)
Own(v, a) ==
  /\ owner[v] = None
  /\ \E h \in Handles :
       /\ names[h] = None
       /\ names' = [names EXCEPT ![h] = a]
       /\ owner' = [owner EXCEPT ![v] = h]
  /\ UNCHANGED <<elems, obj, idx, request>>

(* v is destroyed and its reference deleted.  The client keeps a jObject    *)
(* as long as it uses the iterators that it got from it.                      *)
Disown(v) ==
  /\ owner[v] # None
  /\ \A i \in Iters : obj[i] # owner[v]
  /\ names' = [names EXCEPT ![owner[v]] = None]
  /\ owner' = [owner EXCEPT ![v] = None]
  /\ UNCHANGED <<elems, obj, idx, request>>

-----------------------------------------------------------------------------
(* Iterators *)

Live(i) == obj[i] # None

(* What the Element of iterator i gives when it is read. *)
Element(i) == elems[names[obj[i]]][idx[i]]

(* The Element of i is assigned value x. *)
SetElement(i, x) ==
  elems' = [elems EXCEPT ![names[obj[i]]][idx[i]] = x]

(* An Iterator is made with handle h and index k. *)
Make(i, h, k) ==
  /\ obj' = [obj EXCEPT ![i] = h]
  /\ idx' = [idx EXCEPT ![i] = k]
  /\ UNCHANGED <<elems, names, owner>>

(* begin() and end() *)
Begin(i, v) ==
  /\ ~Live(i) /\ owner[v] # None
  /\ \E k \in {0, Length} : Make(i, owner[v], k)
  /\ request' = <<"at", i>>

(* Iterator(const Iterator &) *)
Copy(i, j) ==
  /\ ~Live(i) /\ Live(j)
  /\ Make(i, obj[j], idx[j])
  /\ request' = <<"assign", i, j>>

(* ++i, --i, or a new iterator i + n in the place of i. *)
MoveBy(i, n) ==
  /\ Live(i) /\ idx[i] + n \in Positions
  /\ idx' = [idx EXCEPT ![i] = idx[i] + n]
  /\ request' = <<"advance", i, n>>
  /\ UNCHANGED <<elems, names, owner, obj>>

(* i = j: the defaulted operator= assigns the Elements, that is, it stores   *)
(* the array element of j in that of i.                                       *)
Assign(i, j) ==
  /\ Live(i) /\ Live(j) /\ idx[i] # Length /\ idx[j] # Length
  /\ SetElement(i, Element(j))
  /\ request' = <<"assign", i, j>>
  /\ UNCHANGED <<names, owner, obj, idx>>

(* A slip: the element is copied the other way. *)
PlusAssignReversed(i, n) ==
  /\ Live(i) /\ idx[i] # Length /\ idx[i] + n \in Places
  /\ elems' = [elems EXCEPT ![names[obj[i]]][idx[i] + n] = Element(i)]
  /\ request' = <<"advance", i, n>>
  /\ UNCHANGED <<names, owner, obj, idx>>

(* i += n assigns to i the iterator i + n, which again assigns Elements. *)
PlusAssign(i, n) ==
  /\ Live(i) /\ idx[i] # Length /\ idx[i] + n \in Places
  /\ SetElement(i, elems[names[obj[i]]][idx[i] + n])
  /\ request' = <<"advance", i, n>>
  /\ UNCHANGED <<names, owner, obj, idx>>

(* The element that i denotes is assigned x. *)
Store(i, x) ==
  /\ Live(i) /\ idx[i] # Length
  /\ SetElement(i, x)
  /\ request' = <<"store", i, x>>
  /\ UNCHANGED <<names, owner, obj, idx>>

(* i == j compares handles and indices. *)
Compare(i, j) ==
  /\ Live(i) /\ Live(j)
  /\ request' = <<"compare", i, j, obj[i] = obj[j] /\ idx[i] = idx[j]>>
  /\ UNCHANGED <<elems, names, owner, obj, idx>>

(* i goes out of scope. *)
Destroy(i) ==
  /\ Live(i)
  /\ Make(i, None, 0)
  /\ request' = <<"forget", i>>

Next ==
  \/ \E v \in Vars, a \in Arrays : Own(v, a)
  \/ \E v \in Vars : Disown(v)
  \/ \E i \in Iters, v \in Vars : Begin(i, v)
  \/ \E i, j \in Iters : Copy(i, j) \/ Assign(i, j) \/ Compare(i, j)
  \/ \E i \in Iters, n \in Steps : MoveBy(i, n) \/ PlusAssign(i, n)
  \/ \E i \in Iters, x \in Values : Store(i, x)
  \/ \E i \in Iters : Destroy(i)

Spec == Init /\ [][Next]_vars

-----------------------------------------------------------------------------
(* Each reference to an array belongs to one variable, and the handle that  *)
(* an iterator copied still refers to an array when the iterator uses it.    *)
HandlesLive ==
  /\ \A v, w \in Vars : v # w /\ owner[v] # None => owner[v] # owner[w]
  /\ \A i \in Iters : Live(i) => names[obj[i]] # None

(* The array and index an iterator denotes. *)
Denoted ==
  [i \in Iters |-> IF Live(i) THEN <<names[obj[i]], idx[i]>> ELSE None]

Promise == INSTANCE RandomAccess WITH place <- Denoted

(* How the promise of iterator_traits is broken: = and += store an element   *)
(* where they should move an iterator, and == may find iterators of two        *)
(* jObjects different that are at one place.                                   *)
Divergent ==
  \/ \E i, j \in Iters : Promise!AssignElement(i, j) \/ Promise!Unequal(i, j)
  \/ \E i \in Iters, n \in Steps : Promise!AdvanceElement(i, n)

(* But for that, and whatever of it came before, the iterators are random   *)
(* access iterators: moving one leaves the array alone, storing moves none,  *)
(* making and dropping variables that own arrays does not matter to any, and *)
(* places that differ are not equal.  And = and += do no more harm than      *)
(* Divergent says: they change one element, to a value that was asked for.    *)
RandomAccessElsewhere ==
  Promise!Init /\ [][Promise!Next \/ Divergent]_<<elems, Denoted, request>>
=============================================================================
