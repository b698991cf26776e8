-------------------------- MODULE ArrayProxyProofs --------------------------
(***************************************************************************)
(* Proofs about ArrayIterator and ArrayProxy: in each of the three         *)
(* libraries every reference to an array has one keeper, iterators refer   *)
(* to arrays, and they are random access iterators in all they do, but for *)
(* the steps of RandomAccess that are named as divergent, for any number   *)
(* of arrays and iterators.                                                *)
(*                                                                         *)
(* First come those of no-jni.hpp.  The step proof needs that handles are  *)
(* not mistaken for one another: a reference is reused only after its      *)
(* owner, and with it all the iterators that copied it, are gone           *)
(* (HandlesLive and OwnersLive).  Then come those of all three libraries.  *)
(* The keepers differ: an iterator of jnixx.h has a reference that nobody  *)
(* else has, one of the others has the reference of a variable.            *)
(***************************************************************************)
EXTENDS ArrayProxy, TLAPS
(* Every owner has a reference that refers to an array, and iterators use   *)
(* references that some variable owns.                                        *)
OwnersLive ==
  /\ \A v \in Vars : owner[v] # None => names[owner[v]] # None
  /\ \A i \in Iters : Live(i) => \E v \in Vars : obj[i] = owner[v]

Sound == TypeOK /\ HandlesLive /\ OwnersLive

LEMMA InitSound == Init => Sound
  BY LengthPositive
     DEF Init, Sound, TypeOK, HandlesLive, OwnersLive, Live, Places, Positions

LEMMA NextSound == Sound /\ [Next]_vars => Sound'
  <1> SUFFICES ASSUME Sound, [Next]_vars PROVE Sound'
    OBVIOUS
  <1> USE NoneNotUsed, LengthPositive, StepsType
  <1> USE DEF Sound, HandlesLive, OwnersLive, Live
  <1>1. ASSUME NEW v \in Vars, NEW a \in Arrays, Own(v, a) PROVE Sound'
    <2>1. PICK h \in Handles : /\ names[h] = None
                               /\ names' = [names EXCEPT ![h] = a]
                               /\ owner' = [owner EXCEPT ![v] = h]
      BY <1>1 DEF Own
    <2>2. owner[v] = None /\ UNCHANGED <<elems, obj, idx, request>>
      BY <1>1 DEF Own
    <2>3. TypeOK'
      BY <2>1, <2>2 DEF TypeOK
    <2>4. HandlesLive'
      BY <2>1, <2>2 DEF TypeOK
    <2>5. OwnersLive'
      BY <2>1, <2>2 DEF TypeOK
    <2> QED
      BY <2>3, <2>4, <2>5
  <1>2. ASSUME NEW v \in Vars, Disown(v) PROVE Sound'
    BY <1>2 DEF Disown, TypeOK
  <1>3. ASSUME NEW i \in Iters, NEW v \in Vars, Begin(i, v) PROVE Sound'
    BY <1>3 DEF Begin, Make, TypeOK, Positions
  <1>4. ASSUME NEW i \in Iters, NEW j \in Iters, Copy(i, j) PROVE Sound'
    BY <1>4 DEF Copy, Make, TypeOK
  <1>5. ASSUME NEW i \in Iters, NEW j \in Iters, Assign(i, j) PROVE Sound'
    BY <1>5 DEF Assign, SetElement, Element, TypeOK, Places, Positions
  <1>6. ASSUME NEW i \in Iters, NEW j \in Iters, Compare(i, j) PROVE Sound'
    BY <1>6 DEF Compare, TypeOK
  <1>7. ASSUME NEW i \in Iters, NEW n \in Steps, MoveBy(i, n) PROVE Sound'
    BY <1>7 DEF MoveBy, TypeOK
  <1>8. ASSUME NEW i \in Iters, NEW n \in Steps, PlusAssign(i, n)
        PROVE  Sound'
    BY <1>8 DEF PlusAssign, SetElement, TypeOK, Places, Positions
  <1>9. ASSUME NEW i \in Iters, NEW x \in Values, Store(i, x) PROVE Sound'
    BY <1>9 DEF Store, SetElement, TypeOK, Places, Positions
  <1>10. ASSUME NEW i \in Iters, Destroy(i) PROVE Sound'
    BY <1>10 DEF Destroy, Make, TypeOK, Positions
  <1>11. CASE UNCHANGED vars
    BY <1>11 DEF vars, TypeOK
  <1> QED
    BY <1>1, <1>2, <1>3, <1>4, <1>5, <1>6, <1>7, <1>8, <1>9, <1>10, <1>11
       DEF Next

(* The variables keep their types: in particular an iterator never leaves   *)
(* its array.                                                                 *)
THEOREM TypeCorrect == Spec => []TypeOK
  <1>1. Sound => TypeOK
    BY DEF Sound
  <1> QED
    BY <1>1, InitSound, NextSound, PTL DEF Spec

(* The handle that an Element copied from its jObject always refers to an   *)
(* array, also when references are reused, whatever the client does with the *)
(* iterators.                                                                 *)
THEOREM IteratorsNeverDangle == Spec => []HandlesLive
  <1>1. Sound => HandlesLive
    BY DEF Sound
  <1> QED
    BY <1>1, InitSound, NextSound, PTL DEF Spec

-----------------------------------------------------------------------------

LEMMA InitPromise == Init => Promise!Init
  BY NoneNotUsed
     DEF Init, Promise!Init, Denoted, Live

(* Each step is one that RandomAccess has, or one of the three divergent ones.*)
LEMMA NextPromise ==
  ASSUME Sound, [Next]_vars
  PROVE  [Promise!Next \/ Divergent]_<<elems, Denoted, request>>
  <1> USE NoneNotUsed, LengthPositive, StepsType
  <1>0. \A i \in Iters : Live(i) => /\ Denoted[i] = <<names[obj[i]], idx[i]>>
                                    /\ Denoted[i][1] = names[obj[i]]
                                    /\ Denoted[i][2] = idx[i]
                                    /\ names[obj[i]] \in Arrays
                                    /\ Denoted[i] # None
    BY DEF Denoted, Live, Sound, HandlesLive, TypeOK, Positions
  <1>1. \A v \in Vars, a \in Arrays : Own(v, a) => UNCHANGED <<elems, Denoted, request>>
    BY DEF Own, Denoted, Live, Sound, HandlesLive, TypeOK
  <1>2. \A v \in Vars : Disown(v) => UNCHANGED <<elems, Denoted, request>>
    BY DEF Disown, Denoted, Live, Sound, TypeOK
  <1>3. ASSUME NEW i \in Iters, NEW v \in Vars, Begin(i, v)
        PROVE  Promise!Next
    <2>1. PICK k \in {0, Length} : Make(i, owner[v], k)
      BY <1>3 DEF Begin
    <2>2. names[owner[v]] \in Arrays /\ k \in Positions
      BY <1>3 DEF Begin, Sound, OwnersLive, TypeOK, Positions
    <2>3. Promise!At(i, names[owner[v]], k)
      BY <1>3, <2>1 DEF Begin, Make, Promise!At, Promise!Move, Denoted, Live,
                        Sound, TypeOK
    <2> QED
      BY <2>2, <2>3 DEF Promise!Next
  <1>4. ASSUME NEW i \in Iters, NEW j \in Iters, Copy(i, j)
        PROVE  Promise!Assign(i, j)
    <2>1. Denoted' = [Denoted EXCEPT ![i] = <<names[obj[j]], idx[j]>>]
      BY <1>4 DEF Copy, Make, Denoted, Live, Sound, TypeOK
    <2> QED
      BY <1>0, <1>4, <2>1 DEF Copy, Make, Promise!Assign, Promise!Move
  <1>5. ASSUME NEW i \in Iters, NEW j \in Iters, Compare(i, j)
        PROVE  Promise!Compare(i, j) \/ Promise!Unequal(i, j)
    <2>1. Live(i) /\ Live(j) /\ UNCHANGED <<elems, Denoted>>
      BY <1>5 DEF Compare, Denoted, Live
    <2>2. CASE (obj[i] = obj[j] /\ idx[i] = idx[j]) <=> Denoted[i] = Denoted[j]
      <3>1. request' = <<"compare", i, j, Denoted[i] = Denoted[j]>>
        BY <1>5, <2>2, Zenon DEF Compare
      <3> QED
        BY <1>0, <2>1, <3>1 DEF Promise!Compare
    <2>3. CASE ~((obj[i] = obj[j] /\ idx[i] = idx[j]) <=> Denoted[i] = Denoted[j])
      <3>1. Denoted[i] = Denoted[j] /\ ~(obj[i] = obj[j] /\ idx[i] = idx[j])
        BY <1>0, <2>1, <2>3
      <3>2. (obj[i] = obj[j] /\ idx[i] = idx[j]) = FALSE
        BY <3>1
      <3>3. request' = <<"compare", i, j, FALSE>>
        BY <1>5, <3>2, Zenon DEF Compare
      <3> QED
        BY <1>0, <2>1, <3>1, <3>3 DEF Promise!Unequal
    <2> QED
      BY <2>2, <2>3
  <1>6. ASSUME NEW i \in Iters, NEW n \in Steps, MoveBy(i, n)
        PROVE  Promise!Advance(i, n)
    <2>1. Denoted' = [Denoted EXCEPT ![i] = <<names[obj[i]], idx[i] + n>>]
      BY <1>6 DEF MoveBy, Denoted, Live, Sound, TypeOK
    <2> QED
      BY <1>0, <1>6, <2>1 DEF MoveBy, Promise!Advance, Promise!Move
  <1>7. ASSUME NEW i \in Iters, NEW x \in Values, Store(i, x)
        PROVE  Promise!Store(i, x)
    <2>1. Live(i) /\ UNCHANGED Denoted
      BY <1>7 DEF Store, Denoted, Live
    <2>2. idx[i] \in Places
      BY <1>7 DEF Store, Sound, TypeOK, Places, Positions
    <2> QED
      BY <1>0, <1>7, <2>1, <2>2 DEF Store, SetElement, Promise!Store
  <1>8. ASSUME NEW i \in Iters, Destroy(i) PROVE Promise!Forget(i)
    BY <1>8 DEF Destroy, Make, Promise!Forget, Promise!Move, Denoted, Live,
                Sound, TypeOK
  <1>9. CASE UNCHANGED vars
    BY <1>9 DEF vars, Denoted, Live
  <1>10. ASSUME NEW i \in Iters, NEW j \in Iters, Assign(i, j)
         PROVE  Promise!AssignElement(i, j)
    <2>1. /\ Live(i) /\ Live(j) /\ UNCHANGED Denoted
          /\ idx[i] \in Places /\ idx[j] \in Places
      BY <1>10 DEF Assign, Denoted, Live, Sound, TypeOK, Places, Positions
    <2> QED
      BY <1>0, <1>10, <2>1
         DEF Assign, SetElement, Element, Promise!AssignElement, Promise!Stored
  <1>11. ASSUME NEW i \in Iters, NEW n \in Steps, PlusAssign(i, n)
         PROVE  Promise!AdvanceElement(i, n)
    <2>1. /\ Live(i) /\ UNCHANGED Denoted
          /\ idx[i] \in Places /\ idx[i] + n \in Places
      BY <1>11 DEF PlusAssign, Denoted, Live, Sound, TypeOK, Places, Positions
    <2> QED
      BY <1>0, <1>11, <2>1
         DEF PlusAssign, SetElement, Promise!AdvanceElement, Promise!Stored
  <1> QED
    BY <1>1, <1>2, <1>3, <1>4, <1>5, <1>6, <1>7, <1>8, <1>9, <1>10, <1>11
       DEF Next, Promise!Next, Divergent

(* Whatever the client does, each step of an iterator is one of an abstract *)
(* random access iterator, or stores the element it should have moved to, or *)
(* finds equal iterators of two jObjects different, for arrays of any length. *)
THEOREM ImplementsRandomAccess == Spec => RandomAccessElsewhere
  <1> DEFINE Step == Promise!Next \/ Divergent
  <1>1. Sound /\ [Next]_vars => [Step]_<<elems, Denoted, request>>
    BY NextPromise
  <1>2. Spec => Promise!Init /\ [][Step]_<<elems, Denoted, request>>
    <2> HIDE DEF Step
    <2> QED
      BY <1>1, InitSound, NextSound, InitPromise, PTL DEF Spec
  <1> QED
    BY <1>2 DEF RandomAccessElsewhere

-----------------------------------------------------------------------------

Owning == lib = "jnixx.h"

(* A reference that refers to an array has somebody who deletes it. *)
NoneLeaked ==
  \A h \in Handles : names[h] # None =>
    \/ \E v \in Vars : owner[v] = h
    \/ Owning /\ \E i \in Iters : obj[i] = h

(* Iterators have references of their own, or share that of a variable. *)
Kept ==
  IF Owning
  THEN \A i \in Iters : Live(i) =>
         /\ \A v \in Vars : owner[v] # obj[i]
         /\ \A j \in Iters : obj[j] = obj[i] => j = i
  ELSE \A i \in Iters : Live(i) => \E v \in Vars : obj[i] = owner[v]

OwnersNamed == \A v \in Vars : owner[v] # None => names[owner[v]] # None

ProxySound ==
  /\ TypeOK /\ HandlesLive /\ lib \in Libs
  /\ OwnersNamed /\ Kept /\ NoneLeaked

LEMMA InitProxySound == ProxyInit => ProxySound
  BY InitSound, NoneNotUsed DEF ProxyInit, Init, ProxySound, Sound, Kept, Owning,
     OwnersNamed, NoneLeaked, Live

LEMMA NoneIsNone == None \notin Handles /\ None \notin Arrays
  BY NoneNotUsed

LEMMA NextProxySound ==
  ProxySound /\ [ProxyNext]_<<vars, lib>> => ProxySound'
<1> SUFFICES ASSUME ProxySound, [ProxyNext]_<<vars, lib>> PROVE ProxySound'
  OBVIOUS
<1> USE NoneIsNone
<1> USE DEF ProxySound, HandlesLive, OwnersNamed, Kept, NoneLeaked, Owning, Live,
        Libs, TypeOK
<1>1. CASE lib = "no-jni" /\ Next /\ UNCHANGED lib
  <2>1. Sound'
    BY <1>1, NextSound DEF Sound, OwnersLive
  <2>2. NoneLeaked'
    BY <1>1 DEF Next, Own, Disown, Begin, Copy, Assign, Compare, MoveBy, PlusAssign,
       Store, Destroy, Make
  <2> QED
    BY <1>1, <2>1, <2>2 DEF Sound, OwnersLive
<1>2. ASSUME NEW v \in Vars, NEW a \in Arrays, lib # "no-jni", Own(v, a), UNCHANGED lib
      PROVE  ProxySound'
  <2>1. PICK h \in Handles : /\ names[h] = None
                             /\ names' = [names EXCEPT ![h] = a]
                             /\ owner' = [owner EXCEPT ![v] = h]
    BY <1>2 DEF Own
  <2>2. owner[v] = None /\ UNCHANGED <<elems, obj, idx, lib>>
    BY <1>2 DEF Own
  <2>3. TypeOK' /\ HandlesLive'
    BY <2>1, <2>2
  <2>4. OwnersNamed' /\ Kept' /\ NoneLeaked'
    BY <2>1, <2>2
  <2> QED
    BY <2>2, <2>3, <2>4
<1>3. ASSUME NEW v \in Vars, lib = "jnixx.cpp", Disown(v), UNCHANGED lib
      PROVE  ProxySound'
  BY <1>3 DEF Disown
<1>4. ASSUME NEW v \in Vars, DisownFreely(v) PROVE ProxySound'
  <2>1. /\ Owning /\ owner[v] # None
        /\ names' = [names EXCEPT ![owner[v]] = None]
        /\ owner' = [owner EXCEPT ![v] = None]
        /\ UNCHANGED <<elems, obj, idx, lib>>
    BY <1>4 DEF DisownFreely
  <2>2. TypeOK' /\ HandlesLive'
    BY <2>1
  <2>3. OwnersNamed' /\ Kept'
    BY <2>1
  <2>4. NoneLeaked'
    BY <2>1
  <2> QED
    BY <2>1, <2>2, <2>3, <2>4
<1>5. ASSUME NEW i \in Iters, NEW a \in Arrays, NEW k \in Positions, OwnProxy(i, a, k)
      PROVE  ProxySound'
  <2>1. PICK h \in Handles : /\ names[h] = None
                             /\ names' = [names EXCEPT ![h] = a]
                             /\ obj' = [obj EXCEPT ![i] = h]
    BY <1>5 DEF OwnProxy
  <2>2. /\ Owning /\ ~Live(i)
        /\ idx' = [idx EXCEPT ![i] = k]
        /\ UNCHANGED <<elems, owner, lib>>
    BY <1>5 DEF OwnProxy
  <2>3. TypeOK' /\ HandlesLive'
    BY <2>1, <2>2
  <2>4. OwnersNamed'
    BY <2>1, <2>2
  <2>5. ASSUME NEW u \in Iters, Live(u)
        PROVE  u # i => obj[u] # h
    BY <2>1, <2>5
  <2>6. \A v \in Vars : owner[v] # h
    BY <2>1
  <2>7. Kept'
    BY <2>1, <2>2, <2>5, <2>6
  <2>8. NoneLeaked'
    <3>1. ASSUME NEW g \in Handles, g # h, names[g] # None
          PROVE  \/ \E v \in Vars : owner[v] = g
                 \/ \E u \in Iters : obj'[u] = g
      BY <2>1, <2>2, <3>1
    <3> QED
      BY <2>1, <2>2, <3>1
  <2> QED
    BY <2>2, <2>3, <2>4, <2>7, <2>8
<1>6. ASSUME NEW i \in Iters, NEW v \in Vars, NEW k \in Positions,
             IndexOwning(i, v, k) \/ IndexRaw(i, v, k)
      PROVE  ProxySound'
  <2>1. CASE IndexOwning(i, v, k)
    <3>1. names[owner[v]] \in Arrays /\ OwnProxy(i, names[owner[v]], k)
      BY <2>1 DEF IndexOwning
    <3> QED
      BY <1>5, <3>1
  <2>2. CASE IndexRaw(i, v, k)
    BY <2>2 DEF IndexRaw, Make
  <2> QED
    BY <1>6, <2>1, <2>2
<1>7. ASSUME NEW i \in Iters, NEW j \in Iters, NEW n \in Steps \cup {0},
             PlusOwning(i, j, n) \/ PlusRaw(i, j, n)
      PROVE  ProxySound'
  <2>1. CASE PlusOwning(i, j, n)
    <3>1. names[obj[j]] \in Arrays /\ OwnProxy(i, names[obj[j]], idx[j] + n)
          /\ idx[j] + n \in Positions
      BY <2>1 DEF PlusOwning
    <3> QED
      BY <1>5, <3>1
  <2>2. CASE PlusRaw(i, j, n)
    BY <2>2 DEF PlusRaw, Make
  <2> QED
    BY <1>7, <2>1, <2>2
<1>8. ASSUME NEW i \in Iters, DestroyOwning(i) PROVE ProxySound'
  <2>1. /\ Owning /\ Live(i)
        /\ names' = [names EXCEPT ![obj[i]] = None]
        /\ obj' = [obj EXCEPT ![i] = None]
        /\ idx' = [idx EXCEPT ![i] = 0]
        /\ UNCHANGED <<elems, owner, lib>>
    BY <1>8 DEF DestroyOwning
  <2>2. TypeOK'
    BY <2>1, LengthPositive DEF Positions
  <2>3. HandlesLive' /\ OwnersNamed' /\ Kept'
    BY <2>1
  <2>4. NoneLeaked'
    BY <2>1
  <2> QED
    BY <2>1, <2>2, <2>3, <2>4
<1>9. ASSUME NEW i \in Iters, DestroyRaw(i) PROVE ProxySound'
  BY <1>9, LengthPositive DEF DestroyRaw, Destroy, Make, Positions
<1>10. ASSUME NEW i \in Iters, NEW n \in Steps, MoveInPlace(i, n) PROVE ProxySound'
  BY <1>10 DEF MoveInPlace
<1>11. ASSUME NEW i \in Iters, NEW x \in Values, StoreValue(i, x) PROVE ProxySound'
  BY <1>11 DEF StoreValue, Store, SetElement
<1>12. ASSUME NEW i \in Iters, NEW j \in Iters, AssignOwning(i, j) \/ StoreElement(i, j)
       PROVE  ProxySound'
  <2>1. /\ Live(i) /\ Live(j) /\ idx[j] # Length /\ idx[i] # Length
        /\ elems' = [elems EXCEPT ![names[obj[i]]][idx[i]] = elems[names[obj[j]]][idx[j]]]
        /\ UNCHANGED <<names, owner, obj, idx, lib>>
    BY <1>12 DEF AssignOwning, Assign, StoreElement, SetElement, Element
  <2>2. elems[names[obj[j]]][idx[j]] \in Values
    BY <2>1, LengthPositive DEF Places, Positions
  <2>3. TypeOK'
    BY <2>1, <2>2
  <2> QED
    BY <2>1, <2>3
<1>13. ASSUME NEW i \in Iters, NEW j \in Iters, SameProxy(i, j) PROVE ProxySound'
  BY <1>13 DEF SameProxy
<1>14. CASE UNCHANGED <<vars, lib>>
  BY <1>14 DEF vars
<1> QED
  BY <1>1, <1>2, <1>3, <1>4, <1>6, <1>7, <1>8, <1>9, <1>10, <1>11, <1>12, <1>13, <1>14
     DEF ProxyNext

LEMMA ProxySoundHolds == ProxySpec => []ProxySound
  BY InitProxySound, NextProxySound, PTL DEF ProxySpec

(* A proxy or iterator refers to an array as long as it lives: in jnixx.h  *)
(* also when the variable that it came from is gone.                        *)
THEOREM ProxiesNeverDangle == ProxySpec => []HandlesLive
<1>1. ProxySound => HandlesLive
  BY DEF ProxySound
<1> QED
  BY <1>1, ProxySoundHolds, PTL

(* No reference to an array is leaked, and none is deleted twice. *)
THEOREM KeptByOne == ProxySpec => []OneKeeper
<1>1. ProxySound => OneKeeper
  <2> SUFFICES ASSUME ProxySound, NEW h \in Handles, names[h] # None
               PROVE  \E x \in Keepers(h) : Keepers(h) = {x}
    BY DEF OneKeeper
  <2> USE NoneNotUsed DEF ProxySound, HandlesLive, Kept, NoneLeaked, Keepers, Owning,
          Live
  <2>1. h # None
    OBVIOUS
  <2>2. PICK x \in Keepers(h) : TRUE
    OBVIOUS
  <2>3. ASSUME NEW y \in Keepers(h) PROVE y = x
    BY <2>1, <2>2, <2>3
  <2> QED
    BY <2>2, <2>3
<1> QED
  BY <1>1, ProxySoundHolds, PTL

-----------------------------------------------------------------------------
LEMMA DenotedOf ==
  ASSUME ProxySound
  PROVE  /\ \A i \in Iters : Live(i) => /\ Denoted[i] = <<names[obj[i]], idx[i]>>
                                       /\ Denoted[i][1] = names[obj[i]]
                                       /\ Denoted[i][2] = idx[i]
                                       /\ names[obj[i]] \in Arrays
                                       /\ idx[i] \in Positions
                                       /\ Denoted[i] # None
         /\ DOMAIN Denoted = Iters
  BY NoneNotUsed DEF Denoted, Live, ProxySound, HandlesLive, TypeOK, Positions

(* The variables that own arrays come and go without an iterator noticing. *)
LEMMA OwnersInvisible ==
  ASSUME ProxySound, NEW v \in Vars,
         \/ \E a \in Arrays : Own(v, a)
         \/ Disown(v)
         \/ DisownFreely(v)
  PROVE  UNCHANGED <<elems, Denoted, request>>
<1> USE NoneIsNone DEF ProxySound, HandlesLive, TypeOK, Kept, Owning, Live
<1>1. UNCHANGED <<elems, obj, idx, request>>
  BY DEF Own, Disown, DisownFreely
<1>2. ASSUME NEW i \in Iters, Live(i) PROVE names'[obj[i]] = names[obj[i]]
  BY <1>2 DEF Own, Disown, DisownFreely
<1> QED
  BY <1>1, <1>2 DEF Denoted

(* In jnixx.h the assignment of iterators assigns elements. *)
LEMMA OwningAssigns ==
  ASSUME ProxySound, NEW i \in Iters, NEW j \in Iters, AssignOwning(i, j)
  PROVE  lib = "jnixx.h" /\ Promise!AssignElement(i, j)
<1>1. /\ lib = "jnixx.h" /\ Live(i) /\ Live(j) /\ UNCHANGED Denoted
      /\ idx[i] \in Places /\ idx[j] \in Places
  BY LengthPositive DEF AssignOwning, Assign, Denoted, Live, ProxySound, TypeOK,
     Places, Positions
<1> QED
  BY <1>1, DenotedOf
  DEF AssignOwning, Assign, SetElement, Element, Promise!AssignElement, Promise!Stored

(* Each other step of jnixx.h or jnixx.cpp but the assignment of iterators *)
(* is one that RandomAccess allows.                                         *)
LEMMA ProxyStepAllowed ==
  ASSUME ProxySound, NEW i \in Iters,
         \/ \E v \in Vars, k \in Positions : IndexOwning(i, v, k) \/ IndexRaw(i, v, k)
         \/ \E j \in Iters, n \in Steps \cup {0} : PlusOwning(i, j, n) \/ PlusRaw(i, j, n)
         \/ DestroyOwning(i) \/ DestroyRaw(i)
         \/ \E n \in Steps : MoveInPlace(i, n)
         \/ \E x \in Values : StoreValue(i, x)
         \/ \E j \in Iters : StoreElement(i, j) \/ SameProxy(i, j)
  PROVE  Promise!Next
<1> USE NoneIsNone, DenotedOf
<1>1. ASSUME NEW a \in Arrays, NEW k, OwnProxy(i, a, k)
      PROVE  Denoted' = [Denoted EXCEPT ![i] = <<a, k>>] /\ UNCHANGED elems
  <2>1. PICK h \in Handles : /\ names[h] = None
                             /\ names' = [names EXCEPT ![h] = a]
                             /\ obj' = [obj EXCEPT ![i] = h]
    BY <1>1 DEF OwnProxy
  <2>2. ~Live(i) /\ idx' = [idx EXCEPT ![i] = k] /\ UNCHANGED elems
    BY <1>1 DEF OwnProxy
  <2>3. ASSUME NEW u \in Iters, u # i PROVE Denoted'[u] = Denoted[u]
    BY <2>1, <2>2, <2>3 DEF Denoted, Live, ProxySound, HandlesLive, TypeOK
  <2>4. Denoted'[i] = <<a, k>>
    BY <2>1, <2>2 DEF Denoted, Live, ProxySound, TypeOK
  <2>5. Denoted' = [u \in Iters |-> Denoted'[u]]
    BY DEF Denoted
  <2> QED
    BY <2>2, <2>3, <2>4, <2>5
<1>2. ASSUME NEW h \in Handles, NEW k, names[h] # None, Make(i, h, k)
      PROVE  Denoted' = [Denoted EXCEPT ![i] = <<names[h], k>>] /\ UNCHANGED elems
  BY <1>2 DEF Make, Denoted, Live, ProxySound, TypeOK
<1>3. ASSUME NEW v \in Vars, NEW k \in Positions, IndexOwning(i, v, k) \/ IndexRaw(i, v, k)
      PROVE  Promise!Next
  <2>1. names[owner[v]] \in Arrays /\ owner[v] \in Handles
    BY <1>3 DEF IndexOwning, IndexRaw, ProxySound, OwnersNamed, TypeOK
  <2>2. Promise!At(i, names[owner[v]], k)
    BY <1>1, <1>2, <1>3, <2>1 DEF IndexOwning, IndexRaw, Promise!At, Promise!Move
  <2> QED
    BY <2>1, <2>2 DEF Promise!Next
<1>4. ASSUME NEW j \in Iters, NEW n \in Steps \cup {0}, PlusOwning(i, j, n) \/ PlusRaw(i, j, n)
      PROVE  Promise!Next
  <2>1. Live(j) /\ obj[j] \in Handles
    BY <1>4 DEF PlusOwning, PlusRaw, Live, ProxySound, TypeOK
  <2>2. Promise!Plus(i, j, n)
    BY <1>1, <1>2, <1>4, <2>1 DEF PlusOwning, PlusRaw, Promise!Plus, Promise!Move
  <2> QED
    BY <2>2 DEF Promise!Next
<1>5. CASE DestroyOwning(i) \/ DestroyRaw(i)
  <2>1. /\ obj' = [obj EXCEPT ![i] = None] /\ Live(i)
        /\ idx' = [idx EXCEPT ![i] = 0]
        /\ request' = <<"forget", i>> /\ UNCHANGED elems
    BY <1>5 DEF DestroyOwning, DestroyRaw, Destroy, Make
  <2>2. ASSUME NEW u \in Iters, u # i, Live(u) PROVE names'[obj[u]] = names[obj[u]]
    BY <1>5, <2>1, <2>2 DEF DestroyOwning, DestroyRaw, Destroy, Make, Live, ProxySound,
       TypeOK, Kept, Owning
  <2>3. Denoted' = [Denoted EXCEPT ![i] = None]
    BY <2>1, <2>2 DEF Denoted, Live, ProxySound, TypeOK
  <2> QED
    BY <2>1, <2>3 DEF Promise!Next, Promise!Forget, Promise!Move
<1>6. ASSUME NEW n \in Steps, MoveInPlace(i, n) PROVE Promise!Next
  <2>1. Denoted' = [Denoted EXCEPT ![i] = <<names[obj[i]], idx[i] + n>>]
    BY <1>6 DEF MoveInPlace, Denoted, Live, ProxySound, TypeOK
  <2> QED
    BY <1>6, <2>1 DEF MoveInPlace, Promise!Next, Promise!Advance, Promise!Move
<1>7. ASSUME NEW x \in Values, Live(i), idx[i] # Length, SetElement(i, x),
             request' = <<"store", i, x>>, UNCHANGED <<names, obj, idx>>
      PROVE  Promise!Next
  <2>1. idx[i] \in Places /\ UNCHANGED Denoted
    BY <1>7, LengthPositive DEF Denoted, Live, Places, Positions, ProxySound, TypeOK
  <2>2. Promise!Store(i, x)
    BY <1>7, <2>1 DEF SetElement, Promise!Store
  <2> QED
    BY <2>2 DEF Promise!Next
<1>8. ASSUME NEW x \in Values, StoreValue(i, x) PROVE Promise!Next
  BY <1>7, <1>8 DEF StoreValue, Store
<1>9. ASSUME NEW j \in Iters, StoreElement(i, j) PROVE Promise!Next
  <2>1. Element(j) \in Values
    BY <1>9, LengthPositive DEF StoreElement, Element, Live, ProxySound, TypeOK,
       HandlesLive, Places, Positions
  <2> QED
    BY <1>7, <1>9, <2>1 DEF StoreElement
<1>10. ASSUME NEW j \in Iters, SameProxy(i, j) PROVE Promise!Next
  <2>1. Live(i) /\ Live(j) /\ UNCHANGED <<elems, Denoted>>
    BY <1>10 DEF SameProxy, Denoted, Live
  <2>2. (names[obj[i]] = names[obj[j]] /\ idx[i] = idx[j]) <=> Denoted[i] = Denoted[j]
    BY <2>1
  <2>3. request' = <<"compare", i, j, Denoted[i] = Denoted[j]>>
    BY <1>10, <2>2, Zenon DEF SameProxy
  <2>4. Promise!Compare(i, j)
    BY <2>1, <2>3 DEF Promise!Compare
  <2> QED
    BY <2>4 DEF Promise!Next
<1> QED
  BY <1>3, <1>4, <1>5, <1>6, <1>8, <1>9, <1>10

(* In jnixx.h and jnixx.cpp every operation is one of a random access        *)
(* iterator, for arrays of any length, but that to assign an iterator of       *)
(* jnixx.h stores the element of the other one.                                *)
THEOREM ImplementRandomAccess == ProxySpec => ProxiesRandomAccess
<1> DEFINE Step == \/ Promise!Next
                   \/ lib = "no-jni" /\ Divergent
                   \/ lib = "jnixx.h" /\ \E i, j \in Iters : Promise!AssignElement(i, j)
<1>1. ProxySound /\ [ProxyNext]_<<vars, lib>> => [Step]_<<elems, Denoted, request>>
  <2> SUFFICES ASSUME ProxySound, [ProxyNext]_<<vars, lib>>
               PROVE  Step \/ UNCHANGED <<elems, Denoted, request>>
    OBVIOUS
  <2>1. CASE lib = "no-jni" /\ Next
    BY <2>1, NextPromise DEF ProxySound, Sound, OwnersLive, OwnersNamed, Kept, Owning
  <2>2. CASE UNCHANGED <<vars, lib>>
    BY <2>2 DEF vars, Denoted, Live
  <2> QED
    BY <2>1, <2>2, OwnersInvisible, OwningAssigns, ProxyStepAllowed DEF ProxyNext
<1>2. ProxyInit => Promise!Init
  BY InitPromise DEF ProxyInit
<1>3. ProxySpec => Promise!Init /\ [][Step]_<<elems, Denoted, request>>
  <2> HIDE DEF Step
  <2> QED
    BY <1>1, <1>2, ProxySoundHolds, PTL DEF ProxySpec
<1> QED
  BY <1>3 DEF ProxiesRandomAccess
=============================================================================
