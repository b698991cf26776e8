----------------------------- MODULE ArrayProxy -----------------------------
(***************************************************************************)
(* The element proxies and array iterators of jnixx.h and jnixx.cpp, added *)
(* to those of no-jni.hpp (ArrayIterator) so that the three can be held to *)
(* one promise.  A client is compiled with one of the libraries.           *)
(*                                                                         *)
(* An element_proxy is an array and an index; a java_array_iterator is a   *)
(* proxy that it moves in place.  In jnixx.h the proxy copies the jhandle  *)
(* of the array, that is, it owns a reference of its own, and the array's  *)
(* handle may go before it.  In jnixx.cpp it has the raw handle, like the  *)
(* Element of no-jni.hpp, and the client keeps the array's handle.         *)
(***************************************************************************)
EXTENDS ArrayIterator

VARIABLE lib   \* the library the client is compiled with

Libs == {"no-jni", "jnixx.h", "jnixx.cpp"}

ProxyInit == Init /\ lib \in Libs

-----------------------------------------------------------------------------
(* jnixx.h: proxies own their references *)

(* The handle v goes, whoever else refers to its array. *)
DisownFreely(v) ==
  /\ lib = "jnixx.h"
  /\ owner[v] # None
  /\ names' = [names EXCEPT ![owner[v]] = None]
  /\ owner' = [owner EXCEPT ![v] = None]
  /\ UNCHANGED <<elems, obj, idx, request, lib>>

(* i becomes a proxy of index k with a new reference to array a. *)
OwnProxy(i, a, k) ==
  /\ lib = "jnixx.h" /\ ~Live(i)
  /\ \E h \in Handles :
       /\ names[h] = None
       /\ names' = [names EXCEPT ![h] = a]
       /\ obj' = [obj EXCEPT ![i] = h]
  /\ idx' = [idx EXCEPT ![i] = k]
  /\ UNCHANGED <<elems, owner, lib>>

(* array[k], begin() and end(): end() is begin() + length(). *)
IndexOwning(i, v, k) ==
  /\ owner[v] # None
  /\ OwnProxy(i, names[owner[v]], k)
  /\ request' = <<"at", i>>

(* The copy constructor, and j + n or j - n; for a proxy also j[n]. *)
PlusOwning(i, j, n) ==
  /\ Live(j) /\ idx[j] + n \in Positions
  /\ OwnProxy(i, names[obj[j]], idx[j] + n)
  /\ request' = <<"plus", i, j, n>>

(* A slip: the proxy keeps its reference. *)
DestroyLeaking(i) ==
  /\ lib = "jnixx.h" /\ Live(i)
  /\ Make(i, None, 0)
  /\ request' = <<"forget", i>>
  /\ UNCHANGED lib

(* i goes out of scope, and its reference is deleted. *)
DestroyOwning(i) ==
  /\ lib = "jnixx.h" /\ Live(i)
  /\ names' = [names EXCEPT ![obj[i]] = None]
  /\ obj' = [obj EXCEPT ![i] = None]
  /\ idx' = [idx EXCEPT ![i] = 0]
  /\ request' = <<"forget", i>>
  /\ UNCHANGED <<elems, owner, lib>>

(* i = j of iterators: the implicit assignment assigns the proxies.          *)
AssignOwning(i, j) ==
  /\ lib = "jnixx.h"
  /\ Assign(i, j)
  /\ UNCHANGED lib

-----------------------------------------------------------------------------
(* jnixx.cpp: proxies have the raw handle, and iterators cannot be assigned *)

(* array[k], begin() and end() *)
IndexRaw(i, v, k) ==
  /\ lib = "jnixx.cpp" /\ ~Live(i) /\ owner[v] # None
  /\ Make(i, owner[v], k)
  /\ request' = <<"at", i>>
  /\ UNCHANGED lib

PlusRaw(i, j, n) ==
  /\ lib = "jnixx.cpp" /\ ~Live(i) /\ Live(j) /\ idx[j] + n \in Positions
  /\ Make(i, obj[j], idx[j] + n)
  /\ request' = <<"plus", i, j, n>>
  /\ UNCHANGED lib

DestroyRaw(i) ==
  /\ lib = "jnixx.cpp"
  /\ Destroy(i)
  /\ UNCHANGED lib

-----------------------------------------------------------------------------
(* Both *)

(* i += n, i -= n, ++i and --i move the proxy of i in place. *)
MoveInPlace(i, n) ==
  /\ lib # "no-jni"
  /\ Live(i) /\ idx[i] + n \in Positions
  /\ idx' = [idx EXCEPT ![i] = idx[i] + n]
  /\ request' = <<"advance", i, n>>
  /\ UNCHANGED <<elems, names, owner, obj, lib>>

(* A value is assigned to the proxy i. *)
StoreValue(i, x) ==
  /\ lib # "no-jni"
  /\ Store(i, x)
  /\ UNCHANGED lib

(* array[k] = array[l]: the proxy is assigned what the other one reads.      *)
StoreElement(i, j) ==
  /\ lib # "no-jni"
  /\ Live(i) /\ idx[i] # Length /\ Live(j) /\ idx[j] # Length
  /\ SetElement(i, Element(j))
  /\ request' = <<"store", i, Element(j)>>
  /\ UNCHANGED <<names, owner, obj, idx, lib>>

(* A slip: the handles are compared and not the arrays. *)
SameProxyHandles(i, j) ==
  /\ lib # "no-jni"
  /\ Compare(i, j)
  /\ UNCHANGED lib

(* i == j of proxies or iterators asks IsSameObject of the arrays.           *)
SameProxy(i, j) ==
  /\ lib # "no-jni"
  /\ Live(i) /\ Live(j)
  /\ request' = <<"compare", i, j,
                  names[obj[i]] = names[obj[j]] /\ idx[i] = idx[j]>>
  /\ UNCHANGED <<elems, names, owner, obj, idx, lib>>

ProxyNext ==
  \/ lib = "no-jni" /\ Next /\ UNCHANGED lib
  \/ \E v \in Vars, a \in Arrays : lib # "no-jni" /\ Own(v, a) /\ UNCHANGED lib
  \/ \E v \in Vars : lib = "jnixx.cpp" /\ Disown(v) /\ UNCHANGED lib
  \/ \E v \in Vars : DisownFreely(v)
  \/ \E i \in Iters, v \in Vars, k \in Positions :
       IndexOwning(i, v, k) \/ IndexRaw(i, v, k)
  \/ \E i, j \in Iters, n \in Steps \cup {0} :
       PlusOwning(i, j, n) \/ PlusRaw(i, j, n)
  \/ \E i \in Iters : DestroyOwning(i) \/ DestroyRaw(i)
  \/ \E i \in Iters, n \in Steps : MoveInPlace(i, n)
  \/ \E i \in Iters, x \in Values : StoreValue(i, x)
  \/ \E i, j \in Iters :
       AssignOwning(i, j) \/ StoreElement(i, j) \/ SameProxy(i, j)

ProxySpec == ProxyInit /\ [][ProxyNext]_<<vars, lib>>

-----------------------------------------------------------------------------
(* Where a reference can be: with a variable, or in jnixx.h with a proxy.    *)
Keepers(h) ==
  {v \in Vars : owner[v] = h}
    \cup {i \in Iters : lib = "jnixx.h" /\ obj[i] = h}

(* In each library every reference to an array has one keeper, which deletes *)
(* it: none is leaked and none is deleted twice, in whatever order handles,   *)
(* proxies and iterators go.                                                  *)
OneKeeper ==
  \A h \in Handles : names[h] # None => \E x \in Keepers(h) : Keepers(h) = {x}

(* The iterators of jnixx promise the same as those of no-jni.hpp, and break *)
(* it only in jnixx.h, where to assign one stores the element of the other;   *)
(* += moves, and equality is of places.  Handles that go before their         *)
(* iterators do not matter.                                                   *)
ProxiesRandomAccess ==
  Promise!Init /\
  [][\/ Promise!Next
     \/ lib = "no-jni" /\ Divergent
     \/ lib = "jnixx.h" /\ \E i, j \in Iters : Promise!AssignElement(i, j)
    ]_<<elems, Denoted, request>>

=============================================================================
