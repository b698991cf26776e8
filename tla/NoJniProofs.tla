---------------------------- MODULE NoJniProofs -----------------------------
(***************************************************************************)
(* Theorems about the two parts of no-jni.hpp that keep state from one     *)
(* call to the next: the references of JReference, for any number of       *)
(* slots, handles and objects, and the tables of MemberCache, for any      *)
(* number of threads and classes and any contents of the tables.           *)
(***************************************************************************)
EXTENDS JReference, MemberCache, TLAPS

-----------------------------------------------------------------------------
(***************************************************************************)
(* JReference                                                              *)
(*                                                                         *)
(* Every step of a jReference has one of three shapes (Acquire, Relocate,  *)
(* Release); the invariants are proved once per shape.                     *)
(***************************************************************************)

(* A new reference is null or a handle that nobody uses any more. *)
LEMMA FreshIsFree ==
  ASSUME NEW freed, NEW o, NEW h \in Fresh(freed, o)
  PROVE  /\ h = Null \/ (h \in Handles /\ (kind[h] = "invalid" \/ h \in freed))
         /\ o = NoObject => h = Null
  BY DEF Fresh

(* The destructor of a slot frees that slot's handle, or nothing. *)
LEMMA DeletedIsOwn ==
  ASSUME NEW s, NEW freed \in Deleted(s)
  PROVE  \/ freed = {}
         \/ env /\ obj[s] # Null /\ freed = {obj[s]}
  BY DEF Deleted

-----------------------------------------------------------------------------
(* What a destructor that ran on slot d has freed: nothing when d was not  *)
(* alive before the step.                                                  *)
Freed(d, freed) ==
  /\ freed = {} \/ (d \in alive /\ obj[d] # Null /\ freed = {obj[d]})
  /\ HonestType /\ NoDangling /\ d \in alive /\ obj[d] # Null
       => freed = {obj[d]}

(* Slot d lets go of its handle and comes to own h, a new handle of kind k *)
(* for object o, tagged t.                                                 *)
Acquire(d, freed, h, k, o, t) ==
  /\ env /\ UNCHANGED env
  /\ Freed(d, freed)
  /\ h = Null \/ (h \in Handles /\ (kind[h] = "invalid" \/ h \in freed))
  /\ o = NoObject => h = Null
  /\ o = NoObject \/ d \notin alive \/ \E s \in Slots \ {d} : o = Named(s)
  /\ Update(freed, h, k, o)
  /\ h = Null \/ t = k \/ <<t, k>> \in Conversions
  /\ type' = [type EXCEPT ![d] = t]
  /\ obj' = [obj EXCEPT ![d] = h]
  /\ alive' = alive \cup {d}
  /\ raw' \subseteq raw
  /\ \A r \in raw \ raw' : kind[r] = "local"

(* Slot d lets go of its handle and takes over the handle of s. *)
Relocate(d, s, freed, t) ==
  /\ env /\ UNCHANGED <<env, raw>>
  /\ Freed(d, freed)
  /\ d # s /\ s \in alive
  /\ Update(freed, Null, "invalid", NoObject)
  /\ type' = [type EXCEPT ![d] = type[s], ![s] = t]
  /\ obj' = [obj EXCEPT ![d] = obj[s], ![s] = Null]
  /\ alive' = alive \cup {d}

(* Slot d lets go of its handle. *)
Release(d, freed, t) ==
  /\ env /\ UNCHANGED <<env, raw>>
  /\ Freed(d, freed)
  /\ d \in alive
  /\ Update(freed, Null, "invalid", NoObject)
  /\ type' = [type EXCEPT ![d] = t]
  /\ obj' = [obj EXCEPT ![d] = Null]
  /\ alive' \in {alive, alive \ {d}}

Acquires == \E d \in Slots, freed \in SUBSET Handles, h \in Handles \cup {Null},
              k \in ValidKinds, o \in Objects \cup {NoObject}, t \in Kinds :
                 Acquire(d, freed, h, k, o, t)
Relocates == \E d, s \in Slots, freed \in SUBSET Handles, t \in Kinds :
                 Relocate(d, s, freed, t)
Releases == \E d \in Slots, freed \in SUBSET Handles, t \in Kinds :
                 Release(d, freed, t)
DestroyLate == \E s \in Slots : /\ ~env /\ alive' = alive \ {s}
                                /\ UNCHANGED <<env, table, raw, type, obj>>

LEMMA DeletedFreed ==
  ASSUME TypeOK, NEW d \in Slots, d \in alive, env, NEW freed \in Deleted(d)
  PROVE  freed \in SUBSET Handles /\ Freed(d, freed)
  BY NullNotHandle DEF Deleted, Freed, HonestType, NoDangling, TypeOK

LEMMA NothingFreed ==
  ASSUME NEW d \in Slots, d \notin alive
  PROVE  Freed(d, {})
  BY DEF Freed

LEMMA SameTable ==
  ASSUME TypeOK, UNCHANGED table
  PROVE  Update({}, Null, "invalid", NoObject) /\ Update({}, Null, "local", NoObject)
  BY NullNotHandle DEF TypeOK, Update, table

LEMMA ReferentType ==
  ASSUME TypeOK, NEW s \in Slots
  PROVE  Referent(obj[s]) \in Objects \cup {NoObject} /\ KindOf(obj[s]) \in Kinds
  BY DEF TypeOK, Referent, KindOf, Kinds

LEMMA ConstructShape ==
  ASSUME TypeOK, NEW s \in Slots, NEW l \in Handles, Construct(s, l)
  PROVE  Acquires
<1>1. PICK h \in Fresh({}, target[l]) :
         /\ Update({}, h, "global", target[l])
         /\ type' = [type EXCEPT ![s] = IF h = Null THEN "invalid" ELSE "global"]
         /\ obj' = [obj EXCEPT ![s] = h]
  BY DEF Construct
<1>2. target[l] \in Objects \cup {NoObject}
  BY DEF TypeOK
<1>3. /\ h = Null \/ (h \in Handles /\ kind[h] = "invalid")
      /\ target[l] = NoObject => h = Null
  BY <1>1, FreshIsFree
<1>4. Acquire(s, {}, h, "global", target[l],
              IF h = Null THEN "invalid" ELSE "global")
  BY <1>1, <1>3, NothingFreed DEF Acquire, Construct
<1>5. QED
  BY <1>2, <1>3, <1>4 DEF Acquires, Kinds, ValidKinds

LEMMA ConstructEmptyShape ==
  ASSUME TypeOK, NEW s \in Slots, ConstructEmpty(s)
  PROVE  Acquires
<1>1. Acquire(s, {}, Null, "local", NoObject, "invalid")
  BY SameTable, NothingFreed DEF Acquire, ConstructEmpty
<1>2. QED
  BY <1>1 DEF Acquires, Kinds, ValidKinds

LEMMA CopyConstructShape ==
  ASSUME TypeOK, NEW d \in Slots, NEW s \in Slots, CopyConstruct(d, s)
  PROVE  Acquires
<1>1. PICK h \in Fresh({}, Referent(obj[s])) :
         /\ Update({}, h, "global", Referent(obj[s]))
         /\ type' = [type EXCEPT ![d] = IF h = Null THEN "invalid" ELSE "global"]
         /\ obj' = [obj EXCEPT ![d] = h]
  BY DEF CopyConstruct
<1>2. /\ h = Null \/ (h \in Handles /\ kind[h] = "invalid")
      /\ Referent(obj[s]) = NoObject => h = Null
  BY <1>1, FreshIsFree
<1>3. Acquire(d, {}, h, "global", Referent(obj[s]),
              IF h = Null THEN "invalid" ELSE "global")
  BY <1>1, <1>2, NothingFreed DEF Acquire, CopyConstruct
<1>4. QED
  BY <1>2, <1>3, ReferentType DEF Acquires, Kinds, ValidKinds

LEMMA ConvertShape ==
  ASSUME TypeOK, NEW d \in Slots, NEW s \in Slots, NEW k \in ValidKinds,
         Convert(d, s, k)
  PROVE  Acquires
<1>1. PICK h \in Fresh({}, Referent(obj[s])) :
         /\ Update({}, h, k, Referent(obj[s]))
         /\ type' = [type EXCEPT ![d] = KindOf(obj[s])]
         /\ obj' = [obj EXCEPT ![d] = h]
  BY DEF Convert
<1>2. /\ h = Null \/ (h \in Handles /\ kind[h] = "invalid")
      /\ Referent(obj[s]) = NoObject => h = Null
  BY <1>1, FreshIsFree
<1>3. h = Null \/ <<KindOf(obj[s]), k>> \in Conversions
  BY <1>2 DEF Convert, Referent
<1>4. Acquire(d, {}, h, k, Referent(obj[s]), KindOf(obj[s]))
  BY <1>1, <1>2, <1>3, NothingFreed DEF Acquire, Convert
<1>5. QED
  BY <1>2, <1>4, ReferentType DEF Acquires

LEMMA CopyAssignShape ==
  ASSUME TypeOK, NEW d \in Slots, NEW s \in Slots, CopyAssign(d, s)
  PROVE  Acquires
<1> DEFINE o == IF s = d THEN NoObject ELSE Referent(obj[s])
           Effect(freed, h) ==
             /\ Update(freed, h, "global", o)
             /\ type' = [type EXCEPT ![d] = IF h = Null THEN "invalid"
                                                        ELSE "global"]
             /\ obj' = [obj EXCEPT ![d] = h]
<1>1. PICK freed \in Deleted(d) : \E h \in Fresh(freed, o) : Effect(freed, h)
  BY DEF CopyAssign
<1>2. PICK h \in Fresh(freed, o) : Effect(freed, h)
  BY <1>1
<1>3. /\ o \in Objects \cup {NoObject}
      /\ o = NoObject \/ \E x \in Slots \ {d} : o = Named(x)
  BY ReferentType DEF Named, CopyAssign
<1>4. freed \in SUBSET Handles /\ Freed(d, freed)
  BY <1>1, DeletedFreed DEF CopyAssign
<1>5. Acquire(d, freed, h, "global", o, IF h = Null THEN "invalid" ELSE "global")
  <2> HIDE DEF o
  <2> QED BY <1>2, <1>3, <1>4, FreshIsFree DEF Acquire, CopyAssign
<1>6. QED
  <2> HIDE DEF o
  <2> QED BY <1>2, <1>3, <1>4, <1>5, FreshIsFree
          DEF Acquires, Kinds, ValidKinds

LEMMA MoveConstructShape ==
  ASSUME TypeOK, NEW d \in Slots, NEW s \in Slots, MoveConstruct(d, s)
  PROVE  Relocates
<1>1. Relocate(d, s, {}, "invalid")
  BY SameTable, NothingFreed DEF Relocate, MoveConstruct
<1>2. QED
  BY <1>1 DEF Relocates, Kinds

LEMMA MoveAssignShape ==
  ASSUME TypeOK, NEW d \in Slots, NEW s \in Slots, MoveAssign(d, s)
  PROVE  Relocates \/ Releases
<1>1. PICK freed \in Deleted(d) : Update(freed, Null, "invalid", NoObject)
  BY DEF MoveAssign
<1>2. freed \in SUBSET Handles /\ Freed(d, freed)
  BY <1>1, DeletedFreed DEF MoveAssign
<1>3. TypeAfter(d) \in Kinds
  BY DEF TypeAfter, TypeOK, Kinds
<1>4. CASE s = d
  <2>1. Release(d, freed, TypeAfter(d))
    BY <1>1, <1>2, <1>4 DEF Release, MoveAssign
  <2>2. QED BY <1>2, <1>3, <2>1 DEF Releases
<1>5. CASE s # d
  <2>1. Relocate(d, s, freed, TypeAfter(d))
    BY <1>1, <1>2, <1>5 DEF Relocate, MoveAssign
  <2>2. QED BY <1>2, <1>3, <2>1 DEF Relocates
<1>6. QED BY <1>4, <1>5

LEMMA DestroyShape ==
  ASSUME TypeOK, NEW s \in Slots, Destroy(s)
  PROVE  Releases \/ DestroyLate
<1>1. PICK freed \in Deleted(s) : Update(freed, Null, "invalid", NoObject)
  BY DEF Destroy
<1>2. CASE env
  <2>1. freed \in SUBSET Handles /\ Freed(s, freed)
    BY <1>1, <1>2, DeletedFreed DEF Destroy
  <2>2. Release(s, freed, TypeAfter(s)) /\ TypeAfter(s) \in Kinds
    BY <1>1, <1>2, <2>1 DEF Release, Destroy, TypeAfter, TypeOK, Kinds
  <2>3. QED BY <2>1, <2>2 DEF Releases
<1>3. CASE ~env
  <2>1. freed = {}
    BY <1>1, <1>3 DEF Deleted
  <2>2. UNCHANGED table
    BY <1>1, <2>1, NullNotHandle DEF Update, TypeOK, table
  <2>3. QED BY <1>3, <2>2 DEF DestroyLate, Destroy, table
<1>4. QED BY <1>2, <1>3

(* The cases every invariance proof below goes through. *)
LEMMA StepShapes ==
  ASSUME TypeOK, [Next]_vars
  PROVE  \/ Acquires \/ Relocates \/ Releases \/ DestroyLate
         \/ \E k \in RawKinds, o \in Objects : JniResult(k, o)
         \/ \E s \in Slots, h \in Handles : Steal(s, h)
         \/ FrameReturn
         \/ \E o \in Objects : Collect(o)
         \/ DestroyVm
         \/ UNCHANGED vars
  BY ConstructShape, ConstructEmptyShape, CopyConstructShape, ConvertShape,
     CopyAssignShape, MoveConstructShape, MoveAssignShape, DestroyShape
  DEF Next

-----------------------------------------------------------------------------
LEMMA UpdateTypeOK ==
  ASSUME TypeOK, NEW freed, NEW h, NEW k \in Kinds,
         NEW o \in Objects \cup {NoObject}, Update(freed, h, k, o)
  PROVE  /\ kind' \in [Handles -> Kinds]
         /\ target' \in [Handles -> Objects \cup {NoObject}]
  BY DEF TypeOK, Update, Kinds

LEMMA TypeOKNext ==
  ASSUME TypeOK, [Next]_vars
  PROVE  TypeOK'
<1> USE DEF Kinds, ValidKinds, table, fields
<1>1. CASE Acquires
  <2>1. PICK d \in Slots, freed \in SUBSET Handles, h \in Handles \cup {Null},
             k \in ValidKinds, o \in Objects \cup {NoObject}, t \in Kinds :
               Acquire(d, freed, h, k, o, t)
    BY <1>1 DEF Acquires
  <2>2. /\ kind' \in [Handles -> Kinds]
        /\ target' \in [Handles -> Objects \cup {NoObject}]
    BY <2>1, UpdateTypeOK DEF Acquire
  <2>3. QED BY <2>1, <2>2 DEF Acquire, TypeOK
<1>2. CASE Relocates
  <2>1. PICK d \in Slots, s \in Slots, freed \in SUBSET Handles, t \in Kinds :
               Relocate(d, s, freed, t)
    BY <1>2 DEF Relocates
  <2>2. QED BY <2>1, UpdateTypeOK DEF Relocate, TypeOK
<1>3. CASE Releases
  <2>1. PICK d \in Slots, freed \in SUBSET Handles, t \in Kinds :
               Release(d, freed, t)
    BY <1>3 DEF Releases
  <2>2. QED BY <2>1, UpdateTypeOK DEF Release, TypeOK
<1>4. CASE DestroyLate
  BY <1>4 DEF DestroyLate, TypeOK
<1>5. ASSUME NEW k \in RawKinds, NEW o \in Objects, JniResult(k, o)
      PROVE  TypeOK'
  <2>1. PICK h \in Fresh({}, o) \ {Null} : /\ Update({}, h, k, o)
                                          /\ raw' = raw \cup {h}
    BY <1>5 DEF JniResult
  <2>2. h \in Handles /\ k \in Kinds
    BY <2>1, FreshIsFree, RawKindsAreKinds
  <2>3. /\ kind' \in [Handles -> Kinds]
        /\ target' \in [Handles -> Objects \cup {NoObject}]
    BY <2>1, <2>2, UpdateTypeOK
  <2>4. QED BY <1>5, <2>1, <2>2, <2>3 DEF JniResult, TypeOK
<1>6. ASSUME NEW s \in Slots, NEW h \in Handles, Steal(s, h)
      PROVE  TypeOK'
  BY <1>6 DEF Steal, TypeOK, KindOf
<1>7. CASE FrameReturn
  BY <1>7, UpdateTypeOK DEF FrameReturn, TypeOK
<1>8. ASSUME NEW o \in Objects, Collect(o)
      PROVE  TypeOK'
  BY <1>8 DEF Collect, TypeOK
<1>9. CASE DestroyVm
  BY <1>9, UpdateTypeOK DEF DestroyVm, TypeOK
<1>10. CASE UNCHANGED vars
  BY <1>10 DEF vars, TypeOK
<1>11. QED
  BY <1>1, <1>2, <1>3, <1>4, <1>5, <1>6, <1>7, <1>8, <1>9, <1>10, StepShapes

(* The members of every jReference and the reference table keep their      *)
(* types through every operation.                                          *)
THEOREM TypeCorrect == Spec => []TypeOK
<1>1. Init => TypeOK
  BY DEF Init, TypeOK, Kinds
<1>2. TypeOK /\ [Next]_vars => TypeOK'
  BY TypeOKNext
<1>3. QED BY <1>1, <1>2, PTL DEF Spec

-----------------------------------------------------------------------------
(* Ownership is inductive together with the validity of the raw handles,   *)
(* which steal() turns into owned ones, and with the fact that nothing is  *)
(* left in the table once the JVM is gone.                                 *)
RawValid == \A h \in raw : kind[h] # "invalid"
GoneIsGone == env \/ \A h \in Handles : kind[h] = "invalid"
Ownership == OneOwner /\ NoDangling /\ RawValid /\ GoneIsGone

LEMMA OwnershipNext ==
  ASSUME TypeOK, TypeOK', Ownership, [Next]_vars
  PROVE  Ownership'
<1> USE NullNotHandle
    DEF Ownership, OneOwner, NoDangling, RawValid, GoneIsGone, Owns, Update, Freed,
        Kinds, ValidKinds, table, fields
<1>1. CASE Acquires
  <2>1. PICK d \in Slots, freed \in SUBSET Handles, h \in Handles \cup {Null},
             k \in ValidKinds, o \in Objects \cup {NoObject}, t \in Kinds :
               Acquire(d, freed, h, k, o, t)
    BY <1>1 DEF Acquires
  <2>2. OneOwner'
    BY <2>1 DEF Acquire, TypeOK
  <2>3. NoDangling'
    BY <2>1 DEF Acquire, TypeOK
  <2>4. RawValid' /\ GoneIsGone'
    BY <2>1 DEF Acquire, TypeOK
  <2>5. QED BY <2>2, <2>3, <2>4
<1>2. CASE Relocates
  <2>1. PICK d \in Slots, s \in Slots, freed \in SUBSET Handles, t \in Kinds :
               Relocate(d, s, freed, t)
    BY <1>2 DEF Relocates
  <2>2. OneOwner'
    BY <2>1 DEF Relocate, TypeOK
  <2>3. NoDangling'
    BY <2>1 DEF Relocate, TypeOK
  <2>4. RawValid' /\ GoneIsGone'
    BY <2>1 DEF Relocate, TypeOK
  <2>5. QED BY <2>2, <2>3, <2>4
<1>3. CASE Releases
  <2>1. PICK d \in Slots, freed \in SUBSET Handles, t \in Kinds :
               Release(d, freed, t)
    BY <1>3 DEF Releases
  <2>2. OneOwner'
    BY <2>1 DEF Release, TypeOK
  <2>3. NoDangling'
    BY <2>1 DEF Release, TypeOK
  <2>4. RawValid' /\ GoneIsGone'
    BY <2>1 DEF Release, TypeOK
  <2>5. QED BY <2>2, <2>3, <2>4
<1>4. CASE DestroyLate
  BY <1>4 DEF DestroyLate, TypeOK
<1>5. ASSUME NEW k \in RawKinds, NEW o \in Objects, JniResult(k, o)
      PROVE  Ownership'
  <2>1. PICK h \in Fresh({}, o) \ {Null} : /\ Update({}, h, k, o)
                                          /\ raw' = raw \cup {h}
    BY <1>5 DEF JniResult
  <2>2. h \in Handles /\ kind[h] = "invalid"
    BY <2>1, FreshIsFree
  <2>3. k # "invalid"
    BY RawKindsAreKinds
  <2>4. QED
    BY <1>5, <2>1, <2>2, <2>3 DEF JniResult, TypeOK
<1>6. ASSUME NEW s \in Slots, NEW h \in Handles, Steal(s, h)
      PROVE  Ownership'
  BY <1>6 DEF Steal, TypeOK
<1>7. CASE FrameReturn
  BY <1>7 DEF FrameReturn, Locals, TypeOK
<1>8. ASSUME NEW o \in Objects, Collect(o)
      PROVE  Ownership'
  BY <1>8 DEF Collect, TypeOK
<1>9. CASE DestroyVm
  BY <1>9 DEF DestroyVm, TypeOK
<1>10. CASE UNCHANGED vars
  BY <1>10 DEF vars
<1>11. QED
  BY <1>1, <1>2, <1>3, <1>4, <1>5, <1>6, <1>7, <1>8, <1>9, <1>10, StepShapes

LEMMA OwnershipInvariant == Spec => []Ownership
<1>1. Init => Ownership
  BY DEF Init, Ownership, OneOwner, NoDangling, RawValid, GoneIsGone, Owns
<1>2. TypeOK /\ TypeOK' /\ Ownership /\ [Next]_vars => Ownership'
  BY OwnershipNext
<1>3. QED BY <1>1, <1>2, TypeCorrect, PTL DEF Spec

(* No handle is ever owned twice, and none is used after it was freed, for *)
(* every sequence of constructions, copies, moves, self-assignments,       *)
(* conversions and destructions, whichever kinds the client converts.      *)
THEOREM SingleOwnership == Spec => [](OneOwner /\ NoDangling)
<1>1. Ownership => OneOwner /\ NoDangling
  BY DEF Ownership
<1>2. QED BY <1>1, OwnershipInvariant, PTL

-----------------------------------------------------------------------------
(* As long as no conversion changes the kind of a reference, tags and      *)
(* kinds agree and the destructor always picks the right Delete function.  *)
SameKindOnly == \A c \in Conversions : c[1] = c[2]
Managed == HonestType /\ GlobalsOwned

LEMMA ManagedNext ==
  ASSUME SameKindOnly, TypeOK, TypeOK', Ownership, Managed, [Next]_vars
  PROVE  Managed'
<1> USE NullNotHandle
    DEF Managed, HonestType, GlobalsOwned, Owns, Update, Freed,
        Ownership, OneOwner, NoDangling, RawValid, GoneIsGone,
        Kinds, ValidKinds, table, fields
<1>1. CASE Acquires
  <2>1. PICK d \in Slots, freed \in SUBSET Handles, h \in Handles \cup {Null},
             k \in ValidKinds, o \in Objects \cup {NoObject}, t \in Kinds :
               Acquire(d, freed, h, k, o, t)
    BY <1>1 DEF Acquires
  <2>2. h = Null \/ t = k
    BY <2>1 DEF Acquire, SameKindOnly
  <2>3. HonestType'
    BY <2>1, <2>2 DEF Acquire, TypeOK
  <2>4. GlobalsOwned'
    <3> SUFFICES ASSUME NEW g \in Handles, kind'[g] \in {"global", "weak"}
                 PROVE  g \in raw' \/ \E x \in Slots : Owns(x, g)'
      OBVIOUS
    <3>1. CASE g = h
      BY <2>1, <3>1 DEF Acquire, TypeOK
    <3>2. CASE g # h
      <4>1. kind'[g] = kind[g] /\ g \notin freed
        BY <2>1, <3>2 DEF Acquire, TypeOK
      <4>2. CASE g \in raw
        BY <2>1, <4>1, <4>2 DEF Acquire
      <4>3. ASSUME NEW x \in Slots, Owns(x, g)
            PROVE  Owns(x, g)'
        BY <2>1, <4>1, <4>3 DEF Acquire, TypeOK
      <4>4. QED BY <4>1, <4>2, <4>3
    <3>3. QED BY <3>1, <3>2
  <2>5. QED BY <2>3, <2>4
<1>2. CASE Relocates
  <2>1. PICK d \in Slots, s \in Slots, freed \in SUBSET Handles, t \in Kinds :
               Relocate(d, s, freed, t)
    BY <1>2 DEF Relocates
  <2>2. HonestType'
    BY <2>1 DEF Relocate, TypeOK
  <2>3. GlobalsOwned'
    <3> SUFFICES ASSUME NEW g \in Handles, kind'[g] \in {"global", "weak"}
                 PROVE  g \in raw' \/ \E x \in Slots : Owns(x, g)'
      OBVIOUS
    <3>1. kind'[g] = kind[g] /\ g \notin freed
      BY <2>1 DEF Relocate, TypeOK
    <3>2. CASE g \in raw
      BY <2>1, <3>2 DEF Relocate
    <3>3. ASSUME NEW x \in Slots, Owns(x, g)
          PROVE  Owns(IF x = s THEN d ELSE x, g)'
      BY <2>1, <3>1, <3>3 DEF Relocate, TypeOK
    <3>4. QED BY <3>1, <3>2, <3>3
  <2>4. QED BY <2>2, <2>3
<1>3. CASE Releases
  <2>1. PICK d \in Slots, freed \in SUBSET Handles, t \in Kinds :
               Release(d, freed, t)
    BY <1>3 DEF Releases
  <2>2. HonestType'
    BY <2>1 DEF Release, TypeOK
  <2>3. GlobalsOwned'
    <3> SUFFICES ASSUME NEW g \in Handles, kind'[g] \in {"global", "weak"}
                 PROVE  g \in raw' \/ \E x \in Slots : Owns(x, g)'
      OBVIOUS
    <3>1. kind'[g] = kind[g] /\ g \notin freed
      BY <2>1 DEF Release, TypeOK
    <3>2. CASE g \in raw
      BY <2>1, <3>2 DEF Release
    <3>3. ASSUME NEW x \in Slots, Owns(x, g)
          PROVE  Owns(x, g)'
      BY <2>1, <3>1, <3>3 DEF Release, TypeOK
    <3>4. QED BY <3>1, <3>2, <3>3
  <2>4. QED BY <2>2, <2>3
<1>4. CASE DestroyLate
  BY <1>4 DEF DestroyLate, TypeOK
<1>5. ASSUME NEW k \in RawKinds, NEW o \in Objects, JniResult(k, o)
      PROVE  Managed'
  <2>1. PICK h \in Fresh({}, o) \ {Null} : /\ Update({}, h, k, o)
                                          /\ raw' = raw \cup {h}
    BY <1>5 DEF JniResult
  <2>2. h \in Handles /\ kind[h] = "invalid"
    BY <2>1, FreshIsFree
  <2>3. HonestType'
    BY <1>5, <2>1, <2>2 DEF JniResult, TypeOK
  <2>4. GlobalsOwned'
    BY <1>5, <2>1, <2>2 DEF JniResult, TypeOK
  <2>5. QED BY <2>3, <2>4
<1>6. ASSUME NEW s \in Slots, NEW h \in Handles, Steal(s, h)
      PROVE  Managed'
  <2>1. HonestType'
    BY <1>6 DEF Steal, TypeOK, KindOf
  <2>2. GlobalsOwned'
    BY <1>6 DEF Steal, TypeOK
  <2>3. QED BY <2>1, <2>2
<1>7. CASE FrameReturn
  BY <1>7 DEF FrameReturn, Locals, TypeOK
<1>8. ASSUME NEW o \in Objects, Collect(o)
      PROVE  Managed'
  BY <1>8 DEF Collect, TypeOK
<1>9. CASE DestroyVm
  BY <1>9 DEF DestroyVm, TypeOK
<1>10. CASE UNCHANGED vars
  BY <1>10 DEF vars
<1>11. QED
  BY <1>1, <1>2, <1>3, <1>4, <1>5, <1>6, <1>7, <1>8, <1>9, <1>10, StepShapes

(* When to_local, to_global and to_weak are only called on references that *)
(* already have the kind asked for, the tag of a jReference is always the  *)
(* kind of its handle and every global and weak reference has an owner:    *)
(* copy and move leak nothing.                                             *)
THEOREM SameKindManaged ==
  ASSUME SameKindOnly
  PROVE  Spec => [](HonestType /\ GlobalsOwned)
<1>1. Init => Managed
  BY DEF Init, Managed, HonestType, GlobalsOwned
<1>2. TypeOK /\ TypeOK' /\ Ownership /\ Managed /\ [Next]_vars => Managed'
  BY SameKindOnly, ManagedNext
<1>3. Managed => HonestType /\ GlobalsOwned
  BY DEF Managed
<1>4. QED BY <1>1, <1>2, <1>3, TypeCorrect, OwnershipInvariant, PTL DEF Spec

-----------------------------------------------------------------------------
(* How a change of what the slots name, seen from outside, is a step of the *)
(* abstract specification.  Other is what the slots not involved do.       *)
Other(S) == \A x \in Slots \ S : /\ Named(x)' = Named(x)
                                 /\ x \in StrongSlots' <=> x \in StrongSlots

LEMMA StrongNames ==
  /\ StrongSlots \subseteq Slots
  /\ \A x \in StrongSlots : Named(x) # NoObject
  /\ StrongSlots' \subseteq Slots
  /\ \A x \in StrongSlots' : Named(x)' # NoObject
  BY DEF StrongSlots

LEMMA ClearStep ==
  ASSUME NEW d \in Slots, Other({d}), Named(d)' = NoObject
  PROVE  Promise!Next
<1>1. [x \in Slots |-> Named(x)]'
        = [[x \in Slots |-> Named(x)] EXCEPT ![d] = NoObject]
  BY DEF Other
<1>2. StrongSlots' = StrongSlots \ {d}
  BY StrongNames DEF Other
<1>3. Promise!Clear(d)
  BY <1>1, <1>2 DEF Promise!Clear
<1>4. QED BY <1>3 DEF Promise!Next

LEMMA BindStep ==
  ASSUME NEW d \in Slots, NEW o \in Objects, Other({d}),
         Named(d) = NoObject, Named(d)' = o
  PROVE  Promise!Next
<1>1. [x \in Slots |-> Named(x)]'
        = [[x \in Slots |-> Named(x)] EXCEPT ![d] = o]
  BY DEF Other
<1>2. StrongSlots' = StrongSlots \cup {d} \/ StrongSlots' = StrongSlots
  BY StrongNames DEF Other
<1>3. Promise!Bind(d, o)
  BY <1>1, <1>2 DEF Promise!Bind
<1>4. QED BY <1>3 DEF Promise!Next

LEMMA CopyStep ==
  ASSUME NEW d \in Slots, NEW s \in Slots \ {d}, Other({d}),
         Named(d)' = Named(s)
  PROVE  Promise!Next
<1>1. [x \in Slots |-> Named(x)]'
        = [[x \in Slots |-> Named(x)] EXCEPT ![d] = Named(s)]
  BY DEF Other
<1>2. StrongSlots' = StrongSlots \cup {d} \/ StrongSlots' = StrongSlots \ {d}
  BY StrongNames DEF Other
<1>3. Promise!Copy(d, s)
  BY <1>1, <1>2 DEF Promise!Copy
<1>4. QED BY <1>3 DEF Promise!Next

LEMMA MoveStep ==
  ASSUME NEW d \in Slots, NEW s \in Slots \ {d}, Other({d, s}),
         Named(d)' = Named(s), Named(s)' = NoObject,
         d \in StrongSlots' <=> s \in StrongSlots
  PROVE  Promise!Next
<1>1. [x \in Slots |-> Named(x)]'
        = [[x \in Slots |-> Named(x)] EXCEPT ![d] = Named(s), ![s] = NoObject]
  BY DEF Other
<1>2. StrongSlots' = IF s \in StrongSlots THEN (StrongSlots \ {s}) \cup {d}
                                          ELSE StrongSlots \ {d}
  BY StrongNames DEF Other
<1>3. Promise!Move(d, s)
  BY <1>1, <1>2 DEF Promise!Move
<1>4. QED BY <1>3 DEF Promise!Next

(* Each shape of step changes what slots name as a step of Raii does. *)
LEMMA RefinementNext ==
  ASSUME TypeOK, TypeOK', Ownership, Ownership', [Next]_vars
  PROVE  [Promise!Next]_(Promise!vars)
<1> USE NullNotHandle, NoObjectNotObject
    DEF Named, StrongSlots, Referent, KindOf, Update, Freed, Owns,
        Ownership, OneOwner, NoDangling, RawValid, GoneIsGone,
        ValidKinds, Kinds, table, fields, Other
<1>1. CASE Acquires
  <2>1. PICK d \in Slots, freed \in SUBSET Handles, h \in Handles \cup {Null},
             k \in ValidKinds, o \in Objects \cup {NoObject}, t \in Kinds :
               Acquire(d, freed, h, k, o, t)
    BY <1>1 DEF Acquires
  <2>2. Other({d})
    BY <2>1 DEF Acquire, TypeOK
  <2>3. Named(d)' = IF h = Null THEN NoObject ELSE o
    BY <2>1 DEF Acquire, TypeOK
  <2>4. CASE h = Null
    <3> HIDE DEF Named, StrongSlots, Other
    <3> QED BY <2>2, <2>3, <2>4, ClearStep
  <2>5. CASE h # Null /\ d \notin alive
    <3>1. o \in Objects /\ Named(d) = NoObject
      BY <2>1, <2>5 DEF Acquire
    <3> HIDE DEF Named, StrongSlots, Other
    <3>2. QED BY <2>2, <2>3, <2>5, <3>1, BindStep
  <2>6. CASE h # Null /\ d \in alive
    <3>1. PICK s \in Slots \ {d} : o = Named(s)
      BY <2>1, <2>6 DEF Acquire
    <3> HIDE DEF Named, StrongSlots, Other
    <3>2. QED BY <2>2, <2>3, <2>6, <3>1, CopyStep
  <2>7. QED BY <2>4, <2>5, <2>6
<1>2. CASE Relocates
  <2>1. PICK d \in Slots, s \in Slots, freed \in SUBSET Handles, t \in Kinds :
               Relocate(d, s, freed, t)
    BY <1>2 DEF Relocates
  <2>2. Other({d, s})
    BY <2>1 DEF Relocate, TypeOK
  <2>3. /\ Named(d)' = Named(s)
        /\ Named(s)' = NoObject
        /\ d \in StrongSlots' <=> s \in StrongSlots
    BY <2>1 DEF Relocate, TypeOK
  <2>4. d # s
    BY <2>1 DEF Relocate
  <2> HIDE DEF Named, StrongSlots, Other
  <2>5. QED BY <2>2, <2>3, <2>4, MoveStep
<1>3. CASE Releases
  <2>1. PICK d \in Slots, freed \in SUBSET Handles, t \in Kinds :
               Release(d, freed, t)
    BY <1>3 DEF Releases
  <2>2. Other({d})
    BY <2>1 DEF Release, TypeOK
  <2>3. Named(d)' = NoObject
    BY <2>1 DEF Release, TypeOK
  <2> HIDE DEF Named, StrongSlots, Other
  <2>4. QED BY <2>2, <2>3, ClearStep
<1>4. CASE DestroyLate
  BY <1>4 DEF DestroyLate, Promise!vars
<1>5. ASSUME NEW k \in RawKinds, NEW o \in Objects, JniResult(k, o)
      PROVE  UNCHANGED Promise!vars
  <2>1. PICK h \in Fresh({}, o) \ {Null} : /\ Update({}, h, k, o)
                                          /\ raw' = raw \cup {h}
    BY <1>5 DEF JniResult
  <2>2. h \in Handles /\ kind[h] = "invalid"
    BY <2>1, FreshIsFree
  <2>3. \A x \in Slots : /\ Named(x)' = Named(x)
                         /\ x \in StrongSlots' <=> x \in StrongSlots
    BY <1>5, <2>1, <2>2 DEF JniResult, TypeOK
  <2>4. QED BY <2>3 DEF Promise!vars
<1>6. ASSUME NEW s \in Slots, NEW h \in Handles, Steal(s, h)
      PROVE  [Promise!Next]_(Promise!vars)
  <2>1. Other({s})
    BY <1>6 DEF Steal, TypeOK
  <2>2. Named(s) = NoObject /\ Named(s)' = target[h]
    BY <1>6 DEF Steal, TypeOK
  <2>3. CASE target[h] = NoObject
    <3> HIDE DEF Named, StrongSlots, Other
    <3> QED BY <2>1, <2>2, <2>3, ClearStep
  <2>4. CASE target[h] \in Objects
    <3> HIDE DEF Named, StrongSlots, Other
    <3> QED BY <2>1, <2>2, <2>4, BindStep
  <2>5. QED BY <2>3, <2>4 DEF TypeOK
<1>7. CASE FrameReturn
  <2>1. \A x \in Slots : /\ Named(x)' = Named(x)
                         /\ x \in StrongSlots' <=> x \in StrongSlots
    BY <1>7 DEF FrameReturn, Locals, TypeOK
  <2>2. QED BY <2>1 DEF Promise!vars
<1>8. ASSUME NEW o \in Objects, Collect(o)
      PROVE  Promise!Next
  <2>1. \A x \in Slots : Named(x)' = IF Named(x) = o THEN NoObject ELSE Named(x)
    BY <1>8 DEF Collect, TypeOK
  <2>2. \A x \in StrongSlots : Named(x) # o
    BY <1>8 DEF Collect, TypeOK
  <2>3. StrongSlots' = StrongSlots
    BY <1>8, <2>1, <2>2 DEF Collect, TypeOK
  <2>4. Promise!Fade(o)
    BY <2>1, <2>2, <2>3 DEF Promise!Fade
  <2>5. QED BY <2>4 DEF Promise!Next
<1>9. CASE DestroyVm
  <2>1. Promise!Shutdown
    BY <1>9 DEF DestroyVm, Promise!Shutdown
  <2>2. QED BY <2>1 DEF Promise!Next
<1>10. CASE UNCHANGED vars
  BY <1>10 DEF vars, Promise!vars
<1>11. QED
  BY <1>1, <1>2, <1>3, <1>4, <1>5, <1>6, <1>7, <1>8, <1>9, <1>10, StepShapes

(* jReferences implement the abstract promise: an operation on one variable*)
(* never changes the object that another variable names.                   *)
THEOREM ImplementsRaii == Spec => Refinement
<1>1. Init => Promise!Init
  BY DEF Init, Promise!Init, Named, StrongSlots
<1>2. /\ TypeOK /\ TypeOK' /\ Ownership /\ Ownership' /\ [Next]_vars
      => [Promise!Next]_(Promise!vars)
  BY RefinementNext
<1>3. QED
  BY <1>1, <1>2, TypeCorrect, OwnershipInvariant, PTL
  DEF Spec, Refinement, Promise!Spec

-----------------------------------------------------------------------------
(***************************************************************************)
(* MemberCache                                                             *)
(***************************************************************************)

LEMMA EntryIsMember ==
  ASSUME NEW K \in Classes, NEW i \in Entry(K)
  PROVE  /\ Table[K][i] \in Members /\ Table[K][i] \in Declared(K)
         /\ i \in Nat /\ Len(Table[K]) \in Nat
  BY TableType DEF Entry, Declared

LEMMA SiteParts ==
  ASSUME LookupTypeOK, NEW t \in Threads
  PROVE  /\ Start(t) \in Classes /\ Getter(t) \in Getters /\ Member(t) \in Members
         /\ level[t] \in Classes
  BY DEF LookupTypeOK, Start, Getter, Member

LEMMA AscendEffect ==
  ASSUME LookupTypeOK, NEW t \in Threads, Ascend(t)
  PROVE  /\ \/ pc' = [pc EXCEPT ![t] = "direct"] /\ level' = level
            \/ /\ pc' = [pc EXCEPT ![t] = "check"]
               /\ level' = [level EXCEPT ![t] = Super[level[t]]]
         /\ Super[level[t]] \in Classes
  BY SuperType DEF Ascend, LookupTypeOK

-----------------------------------------------------------------------------
(* Every table entry is empty or what JNI answers for some class that walks*)
(* through the table.                                                      *)
TableRight ==
  \A g \in Getters, K \in Classes, s \in Members :
    members[g][K][s] # NoId =>
      /\ s \in Declared(K)
      /\ \E D \in Classes :
           K \in Ancestors[D] /\ members[g][K][s] = Lookup[g][D][s]

(* A walk never leaves the ancestors of the class it began with, and fills *)
(* only tables that have an entry for what it looks for.                   *)
WalkOf(t) ==
  /\ level[t] \in Ancestors[Start(t)]
  /\ IF pc[t] = "init" THEN next[t] \in Entry(level[t]) ELSE next[t] = 1
  /\ pc[t] \in {"init", "read"} => Member(t) \in Declared(level[t])

RightOf(t) == pc[t] = "call" /\ Inherited(t) => OwnId(t)

(* As long as nothing was missing no exception is pending. *)
QuietOf(t) ==
  pc[t] \in {"check", "init", "read", "direct"} /\ clean[t] /\ ~Mixed(t)
    => ~pending[t]

MissOf(t) ==
  pc[t] = "call" /\ found[t] = NoId =>
    /\ pending[t]
    /\ IdOf(t, Member(t)) = NoId \/ ~clean[t] \/ Mixed(t)

ThreadOK(t) == WalkOf(t) /\ RightOf(t) /\ QuietOf(t) /\ MissOf(t)

LookupInv == LookupTypeOK /\ TableRight /\ \A t \in Threads : ThreadOK(t)

(* What is true of a thread depends on its own variables only. *)
Alike(t) ==
  /\ pc'[t] = pc[t] /\ site'[t] = site[t] /\ level'[t] = level[t]
  /\ next'[t] = next[t] /\ found'[t] = found[t] /\ pending'[t] = pending[t]
  /\ clean'[t] = clean[t]

LEMMA SiteAlike ==
  ASSUME NEW t, site'[t] = site[t]
  PROVE  /\ Start(t)' = Start(t) /\ Getter(t)' = Getter(t) /\ Member(t)' = Member(t)
         /\ Inherited(t)' = Inherited(t) /\ Mixed(t)' = Mixed(t)
         /\ \A s : IdOf(t, s)' = IdOf(t, s)
<1>1. Start(t)' = Start(t) /\ Getter(t)' = Getter(t) /\ Member(t)' = Member(t)
  BY DEF Start, Getter, Member
<1>2. \A s : IdOf(t, s)' = IdOf(t, s)
  BY <1>1 DEF IdOf
<1>3. Inherited(t)' = Inherited(t)
  BY <1>1 DEF Inherited, OneAnswer, Declared, Entry
<1>4. Mixed(t)' = Mixed(t)
  BY <1>1, <1>2 DEF Mixed, Declared, Entry
<1>5. QED BY <1>1, <1>2, <1>3, <1>4

LEMMA ThreadAlike ==
  ASSUME NEW t, Alike(t), ThreadOK(t)
  PROVE  ThreadOK(t)'
<1>1. WalkOf(t)'
  BY SiteAlike DEF Alike, ThreadOK, WalkOf, Entry, Declared
<1>2. RightOf(t)'
  BY SiteAlike DEF Alike, ThreadOK, RightOf, OwnId
<1>3. QuietOf(t)'
  BY SiteAlike DEF Alike, ThreadOK, QuietOf
<1>4. MissOf(t)'
  BY SiteAlike DEF Alike, ThreadOK, MissOf
<1>5. QED BY <1>1, <1>2, <1>3, <1>4 DEF ThreadOK

-----------------------------------------------------------------------------
(* The table from which t reads or fills gives it what JNI would give it,  *)
(* if the member is inherited.                                             *)
LEMMA EntryIsOwn ==
  ASSUME LookupInv, NEW t \in Threads, NEW K \in Ancestors[Start(t)],
         NEW s \in Members, OneAnswer(Getter(t), K, s),
         members[Getter(t)][K][s] # NoId
  PROVE  members[Getter(t)][K][s] = IdOf(t, s)
<1>1. Start(t) \in Classes /\ Getter(t) \in Getters /\ K \in Classes
  BY SiteParts, AncestorsClosed DEF LookupInv
<1>2. PICK D \in Classes : /\ K \in Ancestors[D]
                           /\ members[Getter(t)][K][s] = Lookup[Getter(t)][D][s]
  BY <1>1 DEF LookupInv, TableRight
<1>3. QED BY <1>1, <1>2 DEF OneAnswer, IdOf

(* One step up, or on to the last resort. *)
LEMMA AscendThread ==
  ASSUME LookupInv, NEW t \in Threads, Ascend(t), pc[t] \in {"check", "read"},
         UNCHANGED <<site, next, pending, clean>>
  PROVE  ThreadOK(t)' /\ \A u \in Threads \ {t} : pc'[u] = pc[u] /\ level'[u] = level[u]
<1>1. /\ pc'[t] \in {"check", "direct"}
      /\ level'[t] \in {level[t], Super[level[t]]}
      /\ \A u \in Threads \ {t} : pc'[u] = pc[u] /\ level'[u] = level[u]
  BY AscendEffect DEF LookupInv, LookupTypeOK
<1>2. level'[t] \in Ancestors[Start(t)]
  BY <1>1, SiteParts, AncestorsClosed DEF LookupInv, ThreadOK, WalkOf
<1>3. WalkOf(t)'
  BY <1>1, <1>2, SiteAlike DEF LookupInv, ThreadOK, WalkOf
<1>4. QuietOf(t)'
  BY <1>1, SiteAlike DEF LookupInv, ThreadOK, QuietOf
<1>5. RightOf(t)' /\ MissOf(t)'
  BY <1>1 DEF RightOf, MissOf
<1>6. QED BY <1>1, <1>3, <1>4, <1>5 DEF ThreadOK

(* What one step of init_members does: an entry that JNI gives one ID for  *)
(* gets it, or null if an exception is pending.                            *)
LEMMA InitMemberEffect ==
  ASSUME LookupInv, NEW t \in Threads, InitMember(t)
  PROVE  /\ members' \in [Getters -> [Classes -> [Members -> Ids \cup {NoId}]]]
         /\ TableRight'
         /\ \A g \in Getters, K \in Classes, s \in Members :
              members[g][K][s] # NoId /\ members'[g][K][s] # members[g][K][s] =>
                \/ ~OneAnswer(g, K, s)
                \/ members'[g][K][s] = NoId /\ level[t] = K /\ pending[t]
         /\ pending' \in [Threads -> BOOLEAN]
         /\ \A u \in Threads \ {t} : pending'[u] = pending[u]
         /\ ~pending[t] /\ ~Mixed(t) => ~pending'[t]
<1> DEFINE K0 == level[t]
           g0 == Getter(t)
           s0 == Table[K0][next[t]]
<1>1. /\ K0 \in Classes /\ g0 \in Getters /\ next[t] \in Entry(K0)
      /\ K0 \in Ancestors[Start(t)] /\ Member(t) \in Declared(K0)
      /\ Start(t) \in Classes
  BY SiteParts DEF LookupInv, ThreadOK, WalkOf, InitMember
<1>2. s0 \in Members /\ s0 \in Declared(K0)
  BY <1>1, EntryIsMember
<1>3. PICK id \in Answers(t, s0) :
        /\ members' = [members EXCEPT ![g0][K0][s0] = id]
        /\ Answered(t, id)
  BY DEF InitMember, Resolved
<1>4. id = IdOf(t, s0) \/ (id = NoId /\ pending[t])
  BY <1>3 DEF Answers
<1>5. IdOf(t, s0) = Lookup[g0][Start(t)][s0]
  BY DEF IdOf
<1>6. id \in Ids \cup {NoId}
  BY <1>1, <1>2, <1>4, <1>5, LookupType
<1>7. ~Mixed(t) => IdOf(t, s0) # NoId
  BY <1>1, <1>2 DEF Mixed
<1>8. pending' = [pending EXCEPT ![t] = pending[t] \/ id = NoId]
  BY <1>3 DEF Answered
<1>9. /\ pending' \in [Threads -> BOOLEAN]
      /\ \A u \in Threads \ {t} : pending'[u] = pending[u]
      /\ pending'[t] = (pending[t] \/ id = NoId)
  BY <1>8 DEF LookupInv, LookupTypeOK
<1>10. ~pending[t] /\ ~Mixed(t) => ~pending'[t]
  BY <1>4, <1>7, <1>9
<1>11. \A s \in Members :
         OneAnswer(g0, K0, s) /\ members[g0][K0][s] # NoId
           => members[g0][K0][s] = IdOf(t, s)
  BY <1>1, EntryIsOwn
<1> HIDE DEF K0, g0, s0
<1>12. members' \in [Getters -> [Classes -> [Members -> Ids \cup {NoId}]]]
  BY <1>1, <1>2, <1>3, <1>6 DEF LookupInv, LookupTypeOK
<1>13. \A g \in Getters, K \in Classes, s \in Members :
         members'[g][K][s] = IF g = g0 /\ K = K0 /\ s = s0 THEN id
                             ELSE members[g][K][s]
  BY <1>1, <1>2, <1>3 DEF LookupInv, LookupTypeOK
<1>14. TableRight'
  <2> SUFFICES ASSUME NEW g \in Getters, NEW K \in Classes, NEW s \in Members,
                      members'[g][K][s] # NoId
               PROVE  /\ s \in Declared(K)
                      /\ \E D \in Classes : /\ K \in Ancestors[D]
                                            /\ members'[g][K][s] = Lookup[g][D][s]
    BY DEF TableRight, Declared, Entry
  <2>1. CASE g = g0 /\ K = K0 /\ s = s0
    <3>1. members'[g][K][s] = Lookup[g][Start(t)][s]
      BY <1>4, <1>5, <1>13, <2>1
    <3>2. QED BY <1>1, <1>2, <2>1, <3>1 DEF K0
  <2>2. CASE ~(g = g0 /\ K = K0 /\ s = s0)
    <3>1. members'[g][K][s] = members[g][K][s]
      BY <1>13, <2>2
    <3>2. QED BY <3>1 DEF LookupInv, TableRight
  <2>3. QED BY <2>1, <2>2
<1>15. \A g \in Getters, K \in Classes, s \in Members :
         members[g][K][s] # NoId /\ members'[g][K][s] # members[g][K][s] =>
           \/ ~OneAnswer(g, K, s)
           \/ members'[g][K][s] = NoId /\ level[t] = K /\ pending[t]
  BY <1>4, <1>11, <1>13 DEF K0
<1>16. QED BY <1>9, <1>10, <1>12, <1>14, <1>15

LEMMA LookupInvInit == LookupInit => LookupInv
<1> SUFFICES ASSUME LookupInit PROVE LookupInv
  OBVIOUS
<1>1. NoSite \in Classes \X Getters \X Members
  BY SitesType DEF NoSite
<1>2. LookupTypeOK
  BY <1>1, LookupType DEF LookupInit, LookupTypeOK, Start
<1>3. TableRight
  BY DEF LookupInit, TableRight
<1>4. ASSUME NEW t \in Threads PROVE ThreadOK(t)
  <2>1. level[t] = Start(t) /\ next[t] = 1 /\ pc[t] = "idle"
    BY <1>4 DEF LookupInit
  <2>2. QED
    BY <1>2, <2>1, SiteParts, AncestorsClosed
    DEF ThreadOK, WalkOf, RightOf, QuietOf, MissOf
<1>5. QED BY <1>2, <1>3, <1>4 DEF LookupInv

LEMMA EnterInv ==
  ASSUME LookupInv, NEW t \in Threads, NEW x \in Sites, Enter(t, x)
  PROVE  LookupInv'
<1>1. x \in Classes \X Getters \X Members /\ x[1] \in Classes
  BY SitesType
<1>2. LookupTypeOK'
  BY <1>1 DEF Enter, LookupInv, LookupTypeOK
<1>3. TableRight'
  BY DEF Enter, LookupInv, TableRight, Declared, Entry
<1>4. \A u \in Threads \ {t} : Alike(u)
  BY DEF Enter, LookupInv, LookupTypeOK, Alike
<1>5. /\ pc'[t] = "check" /\ level'[t] = Start(t)' /\ Start(t)' \in Classes
      /\ next'[t] = 1 /\ clean'[t] = ~pending'[t]
  BY <1>1 DEF Enter, LookupInv, LookupTypeOK, ThreadOK, WalkOf, Start
<1>6. ThreadOK(t)'
  BY <1>5, AncestorsClosed DEF ThreadOK, WalkOf, RightOf, QuietOf, MissOf
<1>7. QED BY <1>2, <1>3, <1>4, <1>6, ThreadAlike DEF LookupInv

LEMMA CheckInv ==
  ASSUME LookupInv, NEW t \in Threads, Check(t)
  PROVE  LookupInv'
<1>1. TableRight'
  BY DEF Check, LookupInv, TableRight, Declared, Entry
<1>2. CASE Ascend(t)
  <2>1. LookupTypeOK'
    BY <1>2, AscendEffect DEF Check, LookupInv, LookupTypeOK
  <2>2. ThreadOK(t)' /\ \A u \in Threads \ {t} : Alike(u)
    BY <1>2, AscendThread DEF Check, Alike
  <2>3. QED BY <1>1, <2>1, <2>2, ThreadAlike DEF LookupInv
<1>3. CASE /\ Member(t) \in Declared(level[t])
           /\ \E v \in {"init", "read"} : pc' = [pc EXCEPT ![t] = v]
           /\ UNCHANGED level
  <2>1. LookupTypeOK'
    BY <1>3 DEF Check, LookupInv, LookupTypeOK
  <2>2. \A u \in Threads \ {t} : Alike(u)
    BY <1>3 DEF Check, LookupInv, LookupTypeOK, Alike
  <2>3. /\ pc[t] = "check" /\ pc'[t] \in {"init", "read"}
        /\ UNCHANGED <<site, level, next, pending, clean>>
    BY <1>3 DEF Check, LookupInv, LookupTypeOK
  <2>4. 1 \in Entry(level[t])
    BY SiteParts, TableType DEF Entry, LookupInv
  <2>5. WalkOf(t)'
    BY <1>3, <2>3, <2>4, SiteAlike
    DEF LookupInv, ThreadOK, WalkOf, Declared, Entry
  <2>6. QuietOf(t)'
    BY <2>3, SiteAlike DEF LookupInv, ThreadOK, QuietOf
  <2>7. ThreadOK(t)'
    BY <2>3, <2>5, <2>6 DEF ThreadOK, RightOf, MissOf
  <2>8. QED BY <1>1, <2>1, <2>2, <2>7, ThreadAlike DEF LookupInv
<1>4. QED BY <1>2, <1>3 DEF Check

LEMMA InitMemberInv ==
  ASSUME LookupInv, NEW t \in Threads, InitMember(t)
  PROVE  LookupInv'
<1>1. /\ pc[t] = "init" /\ Filled(t) /\ UNCHANGED <<site, level, found, clean>>
      /\ next[t] \in Entry(level[t]) /\ level[t] \in Classes
      /\ Member(t) \in Declared(level[t]) /\ level[t] \in Ancestors[Start(t)]
  BY SiteParts DEF InitMember, LookupInv, ThreadOK, WalkOf
<1>2. /\ pc' \in [Threads -> {"idle", "check", "init", "read", "direct", "call"}]
      /\ next' \in [Threads -> Nat]
      /\ \A u \in Threads \ {t} : pc'[u] = pc[u] /\ next'[u] = next[u]
      /\ \/ pc'[t] = "read" /\ next'[t] = 1
         \/ pc'[t] = "init" /\ next'[t] = next[t] + 1 /\ next'[t] \in Entry(level[t])
  <2>1. next[t] \in Nat /\ Len(Table[level[t]]) \in Nat
    BY <1>1, EntryIsMember
  <2>2. CASE next[t] = Len(Table[level[t]])
    <3>1. pc' = [pc EXCEPT ![t] = "read"] /\ next' = [next EXCEPT ![t] = 1]
      BY <1>1, <2>2 DEF Filled
    <3>2. QED BY <3>1 DEF LookupInv, LookupTypeOK
  <2>3. CASE next[t] # Len(Table[level[t]])
    <3>1. next[t] + 1 \in Entry(level[t])
      BY <1>1, <2>1, <2>3 DEF Entry
    <3>2. next' = [next EXCEPT ![t] = next[t] + 1] /\ pc' = pc
      BY <1>1, <2>3 DEF Filled
    <3>3. QED BY <1>1, <2>1, <3>1, <3>2 DEF LookupInv, LookupTypeOK
  <2>4. QED BY <2>2, <2>3
<1>3. LookupTypeOK'
  BY <1>1, <1>2, InitMemberEffect DEF LookupInv, LookupTypeOK
<1>4. TableRight'
  BY InitMemberEffect
<1>5. \A u \in Threads \ {t} : Alike(u)
  BY <1>1, <1>2, InitMemberEffect DEF Alike
<1>6. WalkOf(t)'
  BY <1>1, <1>2, SiteAlike DEF WalkOf, Declared, Entry
<1>7. QuietOf(t)'
  BY <1>1, InitMemberEffect, SiteAlike DEF LookupInv, ThreadOK, QuietOf
<1>8. ThreadOK(t)'
  BY <1>2, <1>6, <1>7 DEF ThreadOK, RightOf, MissOf
<1>9. QED BY <1>3, <1>4, <1>5, <1>8, ThreadAlike DEF LookupInv

LEMMA ReadInv ==
  ASSUME LookupInv, NEW t \in Threads, Read(t)
  PROVE  LookupInv'
<1> DEFINE id == members[Getter(t)][level[t]][Member(t)]
<1>1. /\ id \in Ids \cup {NoId}
      /\ pc[t] = "read" /\ UNCHANGED <<members, site, next, pending, clean>>
      /\ found' = [found EXCEPT ![t] = id]
      /\ \/ Ascend(t)
         \/ id # NoId /\ pc' = [pc EXCEPT ![t] = "call"] /\ UNCHANGED level
  BY SiteParts DEF Read, LookupInv, LookupTypeOK
<1>2. Inherited(t) /\ id # NoId => id = IdOf(t, Member(t))
  <2>1. /\ level[t] \in Ancestors[Start(t)] /\ Member(t) \in Declared(level[t])
        /\ Member(t) \in Members
    BY <1>1, SiteParts DEF LookupInv, ThreadOK, WalkOf
  <2>2. QED BY <2>1, EntryIsOwn DEF Inherited
<1> HIDE DEF id
<1>3. TableRight'
  BY <1>1 DEF LookupInv, TableRight, Declared, Entry
<1>4. CASE Ascend(t)
  <2>1. LookupTypeOK'
    BY <1>1, <1>4, AscendEffect DEF LookupInv, LookupTypeOK
  <2>2. ThreadOK(t)' /\ \A u \in Threads \ {t} : pc'[u] = pc[u] /\ level'[u] = level[u]
    BY <1>1, <1>4, AscendThread
  <2>3. \A u \in Threads \ {t} : Alike(u)
    BY <1>1, <2>2 DEF Alike, LookupInv, LookupTypeOK
  <2>4. QED BY <1>3, <2>1, <2>2, <2>3, ThreadAlike DEF LookupInv
<1>5. CASE id # NoId /\ pc' = [pc EXCEPT ![t] = "call"] /\ UNCHANGED level
  <2>1. LookupTypeOK'
    BY <1>1, <1>5 DEF LookupInv, LookupTypeOK
  <2>2. \A u \in Threads \ {t} : Alike(u)
    BY <1>1, <1>5 DEF Alike, LookupInv, LookupTypeOK
  <2>3. pc'[t] = "call" /\ found'[t] = id /\ level'[t] = level[t] /\ next'[t] = next[t]
    BY <1>1, <1>5 DEF LookupInv, LookupTypeOK
  <2>4. WalkOf(t)'
    BY <1>1, <2>3, SiteAlike DEF LookupInv, ThreadOK, WalkOf
  <2>5. RightOf(t)'
    BY <1>1, <1>2, <2>3, SiteAlike DEF RightOf, OwnId
  <2>6. ThreadOK(t)'
    BY <1>5, <2>3, <2>4, <2>5 DEF ThreadOK, QuietOf, MissOf
  <2>7. QED BY <1>3, <2>1, <2>2, <2>6, ThreadAlike DEF LookupInv
<1>6. QED BY <1>1, <1>4, <1>5

LEMMA DirectInv ==
  ASSUME LookupInv, NEW t \in Threads, Direct(t)
  PROVE  LookupInv'
<1>1. PICK id \in Answers(t, Member(t)) :
        found' = [found EXCEPT ![t] = id] /\ Answered(t, id)
  BY DEF Direct
<1>2. id = IdOf(t, Member(t)) \/ (id = NoId /\ pending[t])
  BY <1>1 DEF Answers
<1>3. id \in Ids \cup {NoId}
  BY <1>2, SiteParts, LookupType DEF IdOf, LookupInv
<1>4. /\ pc[t] = "direct" /\ pc' = [pc EXCEPT ![t] = "call"]
      /\ UNCHANGED <<members, site, level, next, clean>>
      /\ pending' = [pending EXCEPT ![t] = pending[t] \/ id = NoId]
  BY <1>1 DEF Direct, Answered
<1>5. LookupTypeOK'
  BY <1>1, <1>3, <1>4 DEF LookupInv, LookupTypeOK
<1>6. TableRight'
  BY <1>4 DEF LookupInv, TableRight, Declared, Entry
<1>7. \A u \in Threads \ {t} : Alike(u)
  BY <1>1, <1>4 DEF Alike, LookupInv, LookupTypeOK
<1>8. /\ pc'[t] = "call" /\ found'[t] = id
      /\ pending'[t] = (pending[t] \/ id = NoId)
  BY <1>1, <1>4 DEF LookupInv, LookupTypeOK
<1>9. WalkOf(t)'
  BY <1>4, <1>8, SiteAlike DEF LookupInv, ThreadOK, WalkOf
<1>10. RightOf(t)'
  BY <1>2, <1>4, <1>8, SiteAlike DEF RightOf, OwnId
<1>11. MissOf(t)'
  <2>1. id = NoId => IdOf(t, Member(t)) = NoId \/ ~clean[t] \/ Mixed(t)
    BY <1>2, <1>4 DEF LookupInv, ThreadOK, QuietOf
  <2>2. QED BY <2>1, <1>4, <1>8, SiteAlike DEF MissOf
<1>12. ThreadOK(t)'
  BY <1>8, <1>9, <1>10, <1>11 DEF ThreadOK, QuietOf
<1>13. QED BY <1>5, <1>6, <1>7, <1>12, ThreadAlike DEF LookupInv

LEMMA CallInv ==
  ASSUME LookupInv, NEW t \in Threads, Call(t) \/ Settle(t)
  PROVE  LookupInv'
<1>1. NoSite \in Classes \X Getters \X Members /\ NoSite[1] \in Classes
  BY SitesType DEF NoSite
<1>2. LookupTypeOK'
  <2>1. PICK b \in BOOLEAN : pending' = [pending EXCEPT ![t] = b]
    BY DEF Call, Settle, LookupInv, LookupTypeOK
  <2>2. CASE Call(t)
    <3>1. /\ UNCHANGED <<members, next>>
          /\ pc' = [pc EXCEPT ![t] = "idle"] /\ site' = [site EXCEPT ![t] = NoSite]
          /\ level' = [level EXCEPT ![t] = NoSite[1]]
          /\ found' = [found EXCEPT ![t] = NoId]
          /\ clean' = [clean EXCEPT ![t] = TRUE]
      BY <2>2 DEF Call
    <3>2. QED BY <1>1, <2>1, <3>1 DEF LookupInv, LookupTypeOK
  <2>3. CASE Settle(t)
    BY <2>1, <2>3 DEF Settle, LookupInv, LookupTypeOK
  <2>4. QED BY <2>2, <2>3
<1>3. TableRight'
  BY DEF Call, Settle, LookupInv, TableRight, Declared, Entry
<1>4. \A u \in Threads \ {t} : Alike(u)
  BY DEF Call, Settle, LookupInv, LookupTypeOK, Alike
<1>5. /\ pc'[t] = "idle" /\ next'[t] = 1 /\ level'[t] \in Ancestors[Start(t)']
  <2>1. CASE Call(t)
    <3>1. level'[t] = NoSite[1] /\ site'[t] = NoSite
      BY <2>1 DEF Call, LookupInv, LookupTypeOK
    <3>2. QED
      BY <1>1, <2>1, <3>1, AncestorsClosed
      DEF Call, LookupInv, LookupTypeOK, ThreadOK, WalkOf, Start
  <2>2. CASE Settle(t)
    BY <2>2 DEF Settle, LookupInv, ThreadOK, WalkOf, Start
  <2>3. QED BY <2>1, <2>2
<1>6. ThreadOK(t)'
  BY <1>5 DEF ThreadOK, WalkOf, RightOf, QuietOf, MissOf, Start
<1>7. QED BY <1>2, <1>3, <1>4, <1>6, ThreadAlike DEF LookupInv

LEMMA LookupInvNext ==
  ASSUME LookupInv, [LookupNext]_lookupVars
  PROVE  LookupInv'
<1>1. CASE UNCHANGED lookupVars
  <2>1. LookupTypeOK' /\ TableRight'
    BY <1>1 DEF lookupVars, LookupInv, LookupTypeOK, TableRight, Declared, Entry
  <2>2. \A t \in Threads : Alike(t)
    BY <1>1 DEF lookupVars, Alike
  <2>3. QED BY <2>1, <2>2, ThreadAlike DEF LookupInv
<1>2. QED
  BY <1>1, EnterInv, CheckInv, InitMemberInv, ReadInv, DirectInv, CallInv
  DEF LookupNext, Find

LEMMA LookupInvariant == LookupSpec => []LookupInv
<1>1. LookupInit => LookupInv
  BY LookupInvInit
<1>2. LookupInv /\ [LookupNext]_lookupVars => LookupInv'
  BY LookupInvNext
<1>3. QED BY <1>1, <1>2, PTL DEF LookupSpec

(* For any number of threads and any hierarchy: an ID that is found for an *)
(* inherited member, or one of its own, is the one that JNI gives for the  *)
(* class, whatever other threads and classes, with or without an exception *)
(* pending, have done to the tables on the way.  Only members of which JNI *)
(* has several, as constructors, are found wrongly.                        *)
THEOREM LookupIsRight == LookupSpec => [](LookupTypeOK /\ RightMember)
<1>1. LookupInv => LookupTypeOK /\ RightMember
  BY DEF LookupInv, ThreadOK, RightOf, RightMember
<1>2. QED BY <1>1, LookupInvariant, PTL

(* And a lookup that finds nothing, so that its call is skipped, had a     *)
(* reason of its own: there is no such member, or an exception was pending,*)
(* or the table it filled has a member that its getter does not find.  The *)
(* nulls that other threads write make no lookup fail.                     *)
THEOREM MissesHaveReasons == LookupSpec => []MissExplained
<1>1. LookupInv => MissExplained
  BY DEF LookupInv, ThreadOK, MissOf, MissExplained
<1>2. QED BY <1>1, LookupInvariant, PTL

LEMMA StepKeepsEntries ==
  ASSUME LookupInv, [LookupNext]_lookupVars
  PROVE  \A g \in Getters, K \in Classes, s \in Members :
           members[g][K][s] # NoId /\ members'[g][K][s] # members[g][K][s] =>
             \/ ~OneAnswer(g, K, s)
             \/ /\ members'[g][K][s] = NoId
                /\ \E t \in Threads : pc[t] = "init" /\ level[t] = K /\ pending[t]
<1>1. ASSUME NEW t \in Threads, InitMember(t)
      PROVE  \A g \in Getters, K \in Classes, s \in Members :
               members[g][K][s] # NoId /\ members'[g][K][s] # members[g][K][s] =>
                 \/ ~OneAnswer(g, K, s)
                 \/ members'[g][K][s] = NoId /\ level[t] = K /\ pending[t]
  BY <1>1, InitMemberEffect
<1>2. \A t \in Threads : InitMember(t) => pc[t] = "init"
  BY DEF InitMember
<1>3. (\E t \in Threads : InitMember(t)) \/ UNCHANGED members
  BY DEF LookupNext, Find, Check, Read, Direct, Call, Settle, Enter, lookupVars
<1>4. QED BY <1>1, <1>2, <1>3

(* An ID that is in a table stays: filling the table again writes the same *)
(* ID, or, with an exception pending, null, except over a constructor or   *)
(* another member of which JNI has several.                                *)
THEOREM EntriesStay == LookupSpec => CacheStable
<1>1. LookupInv /\ [LookupNext]_lookupVars
      => [\A g \in Getters, K \in Classes, s \in Members :
            members[g][K][s] # NoId /\ members'[g][K][s] # members[g][K][s] =>
              \/ ~OneAnswer(g, K, s)
              \/ /\ members'[g][K][s] = NoId
                 /\ \E t \in Threads :
                      pc[t] = "init" /\ level[t] = K /\ pending[t]]_lookupVars
  BY StepKeepsEntries
<1>2. QED BY <1>1, LookupInvariant, PTL DEF LookupSpec, CacheStable

=============================================================================
