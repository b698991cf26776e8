---------------------------- MODULE JnixxProofs -----------------------------
(***************************************************************************)
(* Theorems about the two parts of jnixx.h that deal in local frames: the  *)
(* handles of Jhandle, for any number of slots, handles and objects and    *)
(* any nesting of frames, and the chains of Exceptions, for any number of  *)
(* exceptions and any nesting of chains.                                   *)
(***************************************************************************)
EXTENDS Jhandle, Exceptions, TLAPS

-----------------------------------------------------------------------------
(***************************************************************************)
(* Jhandle                                                                 *)
(*                                                                         *)
(* Type correctness needs nothing; ownership needs the discipline, and an  *)
(* invariant that ties the frame of a local reference to the scope of the  *)
(* variable that holds it.                                                 *)
(***************************************************************************)

(* The client takes no liberties. *)
Disciplined == Liberties = {}

(* A new reference is null or a handle that nobody uses any more. *)
LEMMA FreshIsFree ==
  ASSUME NEW freed, NEW o, NEW h \in Fresh(freed, o)
  PROVE  /\ h = Null \/ (h \in Handles /\ (kind[h] = "invalid" \/ h \in freed))
         /\ o = NoObject => h = Null
  BY DEF Fresh

-----------------------------------------------------------------------------
LEMMA TypeNext ==
  ASSUME TypeOK, [Next]_vars
  PROVE  TypeOK'
<1> USE DepthBounded DEF TypeOK, Kinds
<1>1. CASE EnterNative
  BY <1>1 DEF EnterNative, table
<1>2. CASE PushFrame
  BY <1>2 DEF PushFrame, table
<1>3. CASE PopFrame
  BY <1>3 DEF PopFrame, Free, Update
<1>4. ASSUME NEW k \in RawKinds, NEW o \in Objects, JniResult(k, o)
      PROVE  TypeOK'
  BY <1>4, FreshIsFree, RawKindsAreKinds DEF JniResult, Update
<1>5. ASSUME NEW s \in Slots, NEW h \in Handles, StealRaw(s, h)
      PROVE  TypeOK'
  BY <1>5 DEF StealRaw, table
<1>6. ASSUME NEW s \in Slots, ConstructNull(s) \/ Release(s)
      PROVE  TypeOK'
  BY <1>6 DEF ConstructNull, Release, table
<1>7. ASSUME NEW s \in Slots, AssignNull(s) \/ Destroy(s)
      PROVE  TypeOK'
  BY <1>7 DEF AssignNull, Destroy, Free, Update, table
<1>8. ASSUME NEW s \in Slots, Globalize(s) \/ Localize(s)
      PROVE  TypeOK'
  BY <1>8, FreshIsFree DEF Globalize, Localize, Update, Referent
<1>9. ASSUME NEW d \in Slots, NEW s \in Slots, CopyConstruct(d, s)
      PROVE  TypeOK'
  BY <1>9, FreshIsFree DEF CopyConstruct, Copied, Referent, KindOf, Update
<1>10. ASSUME NEW d \in Slots, NEW s \in Slots, CopyAssign(d, s)
       PROVE  TypeOK'
  BY <1>10, FreshIsFree
  DEF CopyAssign, Copied, Deleted, Referent, KindOf, Update
<1>11. ASSUME NEW d \in Slots, NEW s \in Slots, MoveConstruct(d, s)
       PROVE  TypeOK'
  BY <1>11 DEF MoveConstruct, table
<1>12. ASSUME NEW d \in Slots, NEW s \in Slots, MoveAssign(d, s)
       PROVE  TypeOK'
  BY <1>12 DEF MoveAssign, Free, Update
<1>13. ASSUME NEW d \in Slots, NEW s \in Slots, PopFrameKeeping(d, s)
       PROVE  TypeOK'
  <2> DEFINE gone == {h \in Locals : frame[h] = depth}
             o == Referent(object[s])
  <2>1. PICK h \in Fresh(gone, o) :
           /\ Update(gone, h, "local", o, depth - 1)
           /\ object' = [object EXCEPT ![d] = h, ![s] = Null]
    BY <1>13 DEF PopFrameKeeping
  <2>2. h \in Handles \cup {Null} /\ o \in Objects \cup {NoObject}
    BY <2>1, FreshIsFree DEF Locals, Referent
  <2>3. depth - 1 \in 0..MaxDepth
    BY <1>13 DEF PopFrameKeeping
  <2> HIDE DEF gone, o
  <2>4. QED
    BY <1>13, <2>1, <2>2, <2>3 DEF PopFrameKeeping, Update
<1>14. ASSUME NEW o \in Objects, Collect(o)
       PROVE  TypeOK'
  BY <1>14 DEF Collect
<1>15. CASE UNCHANGED vars
  BY <1>15 DEF vars, table
<1>16. QED
  BY <1>1, <1>2, <1>3, <1>4, <1>5, <1>6, <1>7, <1>8, <1>9, <1>10, <1>11, <1>12,
     <1>13, <1>14, <1>15
  DEF Next

(* The member of every jhandle is null or a handle, whatever the client    *)
(* does, and the reference table keeps its type.                           *)
THEOREM TypeCorrect == Spec => []TypeOK
<1>1. Init => TypeOK
  <2>1. Init => jni \in BOOLEAN
    BY DEF Init
  <2>2. Init => /\ depth \in 0..MaxDepth
                /\ frame \in [Handles -> 0..MaxDepth]
                /\ born \in [Slots -> 0..MaxDepth]
    BY DepthBounded DEF Init
  <2>3. QED
    BY <2>1, <2>2 DEF Init, TypeOK, Kinds
<1>2. QED
  BY <1>1, TypeNext, PTL DEF Spec

-----------------------------------------------------------------------------
(* Before the first native method there is nothing to own. *)
Quiet == ~jni => depth = 0 /\ \A s \in alive : object[s] = Null

(* Every local is of a frame that is still there, and so is the scope of   *)
(* every variable; what a variable holds is not of a frame inside its own  *)
(* scope, and will not be popped while the variable lives.                 *)
Framed == /\ \A h \in Locals : frame[h] \in 1..depth
          /\ \A h \in Handles \ Locals : frame[h] = 0
          /\ \A s \in alive : born[s] <= depth
          /\ \A s \in alive : KindOf(object[s]) = "local"
                                => FrameOf(object[s]) <= born[s]

RawValid == \A h \in raw : kind[h] # "invalid"

Ownership == Quiet /\ Framed /\ RawValid /\ OneOwner /\ NoDangling /\ StrongOwned

LEMMA FrameSteps ==
  ASSUME TypeOK, Ownership, EnterNative \/ PushFrame \/ PopFrame
  PROVE  Ownership'
<1> USE NullNotHandle, DepthBounded
    DEF TypeOK, Ownership, Quiet, Framed, RawValid, OneOwner, NoDangling,
        StrongOwned, Owned, Owns, KindOf, FrameOf, Locals
<1>1. CASE EnterNative
  BY <1>1 DEF EnterNative, table
<1>2. CASE PushFrame
  BY <1>2 DEF PushFrame, table
<1>3. CASE PopFrame
  BY <1>3 DEF PopFrame, Free, Update
<1>4. QED
  BY <1>1, <1>2, <1>3

LEMMA RawSteps ==
  ASSUME TypeOK, Ownership,
         \/ \E k \in RawKinds, o \in Objects : JniResult(k, o)
         \/ \E s \in Slots, h \in Handles : StealRaw(s, h)
         \/ \E s \in Slots : Release(s)
         \/ \E o \in Objects : Collect(o)
  PROVE  Ownership'
<1> USE NullNotHandle, DepthBounded
    DEF TypeOK, Ownership, Quiet, Framed, RawValid, OneOwner, NoDangling,
        StrongOwned, Owned, Owns, KindOf, FrameOf, Locals
<1>1. ASSUME NEW k \in RawKinds, NEW o \in Objects, JniResult(k, o)
      PROVE  Ownership'
  BY <1>1, FreshIsFree, RawKindsAreKinds DEF JniResult, Update
<1>2. ASSUME NEW s \in Slots, NEW h \in Handles, StealRaw(s, h)
      PROVE  Ownership'
  BY <1>2 DEF StealRaw, table
<1>3. ASSUME NEW s \in Slots, Release(s)
      PROVE  Ownership'
  BY <1>3 DEF Release, table
<1>4. ASSUME NEW o \in Objects, Collect(o)
      PROVE  Ownership'
  BY <1>4 DEF Collect
<1>5. QED
  BY <1>1, <1>2, <1>3, <1>4

LEMMA SlotSteps ==
  ASSUME TypeOK, Ownership, Disciplined, NEW s \in Slots,
         \/ ConstructNull(s) \/ AssignNull(s) \/ Globalize(s)
         \/ Localize(s) \/ Destroy(s)
  PROVE  Ownership'
<1> USE NullNotHandle, DepthBounded
    DEF TypeOK, Ownership, Quiet, Framed, RawValid, OneOwner, NoDangling,
        StrongOwned, Owned, Owns, KindOf, FrameOf, Locals
<1>1. CASE ConstructNull(s)
  BY <1>1 DEF ConstructNull, table
<1>2. CASE AssignNull(s)
  BY <1>2 DEF AssignNull, Free, Update, Deleted
<1>3. CASE Globalize(s)
  BY <1>3, FreshIsFree DEF Globalize, Update, Referent
<1>4. CASE Localize(s)
  BY <1>4, FreshIsFree DEF Localize, Update, Referent, Allowed, Disciplined
<1>5. CASE Destroy(s)
  BY <1>5, SMTT(30) DEF Destroy, Free, Update, Deleted, table
<1>6. QED
  BY <1>1, <1>2, <1>3, <1>4, <1>5

LEMMA CopyAndMoveSteps ==
  ASSUME TypeOK, Ownership, Disciplined, NEW d \in Slots, NEW s \in Slots,
         \/ CopyConstruct(d, s) \/ MoveConstruct(d, s)
         \/ CopyAssign(d, s) \/ MoveAssign(d, s)
  PROVE  Ownership'
<1> USE NullNotHandle, DepthBounded
    DEF TypeOK, Ownership, Quiet, Framed, RawValid, OneOwner, NoDangling,
        StrongOwned, Owned, Owns, KindOf, FrameOf, Locals
<1>1. CASE CopyConstruct(d, s)
  BY <1>1, FreshIsFree DEF CopyConstruct, Copied, Update
<1>2. CASE MoveConstruct(d, s)
  BY <1>2 DEF MoveConstruct, table
<1>3. CASE CopyAssign(d, s)
  <2> DEFINE o == IF s = d THEN NoObject ELSE Copied(s)
  <2>1. PICK h \in Fresh(Deleted(d), o) :
          /\ Update(Deleted(d), h, KindOf(object[s]), o, depth)
          /\ object' = [object EXCEPT ![d] = h]
    BY <1>3, Zenon DEF CopyAssign
  <2>2. /\ depth > 0 /\ {d, s} \subseteq alive
        /\ d # s /\ KindOf(object[s]) = "local" => depth <= born[d]
        /\ UNCHANGED <<jni, depth, raw, alive, born>>
    BY <1>3 DEF CopyAssign, Allowed, Disciplined
  <2>3. \/ h = Null
        \/ /\ h \in Handles /\ d # s
           /\ KindOf(object[s]) \in {"local", "global"}
           /\ kind[h] = "invalid" \/ h \in Deleted(d)
    BY <2>1, FreshIsFree DEF Copied
  <2>4. Quiet' /\ RawValid' /\ NoDangling'
    BY <2>1, <2>2, <2>3 DEF Deleted, Update
  <2>5. Framed'
    BY <2>1, <2>2, <2>3 DEF Deleted, Update
  <2>6. OneOwner'
    BY <2>1, <2>2, <2>3 DEF Deleted, Update
  <2>7. StrongOwned'
    BY <2>1, <2>2, <2>3 DEF Deleted, Update
  <2>8. QED
    BY <2>4, <2>5, <2>6, <2>7
<1>4. CASE MoveAssign(d, s)
  <2>1. d # s /\ object' = [object EXCEPT ![d] = object[s], ![s] = Null]
    BY <1>4 DEF MoveAssign, Disciplined
  <2>2. KindOf(object[s]) = "local" => FrameOf(object[s]) <= born[d]
    BY <1>4 DEF MoveAssign, Allowed, Disciplined
  <2>3. Quiet' /\ RawValid' /\ NoDangling'
    BY <1>4, <2>1 DEF MoveAssign, Deleted, Free, Update
  <2>4. Framed'
    BY <1>4, <2>1, <2>2 DEF MoveAssign, Deleted, Free, Update
  <2>5. OneOwner' /\ StrongOwned'
    BY <1>4, <2>1 DEF MoveAssign, Deleted, Free, Update
  <2>6. QED
    BY <2>3, <2>4, <2>5
<1>5. QED
  BY <1>1, <1>2, <1>3, <1>4

LEMMA PopFrameKeepingStep ==
  ASSUME TypeOK, Ownership, Disciplined, NEW d \in Slots, NEW s \in Slots,
         PopFrameKeeping(d, s)
  PROVE  Ownership'
<1> DEFINE gone == {x \in Locals : frame[x] = depth}
           o == Referent(object[s])
<1>1. PICK h \in Fresh(gone, o) :
         /\ Update(gone, h, "local", o, depth - 1)
         /\ object' = [object EXCEPT ![d] = h, ![s] = Null]
  BY DEF PopFrameKeeping
<1>2. h = Null \/ (h \in Handles /\ (kind[h] = "invalid" \/ h \in gone))
  <2> HIDE DEF gone, o
  <2> QED BY <1>1, FreshIsFree
<1>3. object[s] = Null \/ object[s] \in gone
  BY DEF PopFrameKeeping, Disciplined, Ownership, NoDangling, Framed, FrameOf,
         KindOf, Locals, TypeOK
<1>4. \A t \in alive \ {s} : object[t] # Null => object[t] \notin gone
  BY NullNotHandle DEF PopFrameKeeping, Ownership, Framed, KindOf, FrameOf, Locals,
                       TypeOK
<1>5. /\ \A x \in Handles :
            \/ x = h /\ kind'[x] = "local" /\ frame'[x] = depth - 1
            \/ x # h /\ x \in gone /\ kind'[x] = "invalid" /\ frame'[x] = 0
            \/ x # h /\ x \notin gone /\ kind'[x] = kind[x] /\ frame'[x] = frame[x]
      /\ raw' = raw \ gone /\ depth' = depth - 1 /\ jni' = jni
      /\ alive' = alive \cup {d} /\ d \notin alive /\ s \in alive /\ depth > 1
      /\ born' = [born EXCEPT ![d] = depth - 1, ![s] = depth - 1]
      /\ \A t \in alive \ {s} : born[t] < depth
  BY <1>1 DEF PopFrameKeeping, Update, TypeOK, Locals
<1> HIDE DEF o
<1>6. Quiet'
  BY <1>5 DEF Quiet, Ownership, TypeOK
<1>7. Framed'
  BY <1>1, <1>2, <1>4, <1>5, NullNotHandle
  DEF Ownership, Framed, NoDangling, Locals, KindOf, FrameOf, TypeOK
<1>8. RawValid' /\ NoDangling'
  BY <1>1, <1>2, <1>4, <1>5, NullNotHandle
  DEF Ownership, RawValid, NoDangling, Locals, TypeOK
<1>9. OneOwner'
  BY <1>1, <1>2, <1>4, <1>5, NullNotHandle
  DEF Ownership, OneOwner, NoDangling, RawValid, Owns, Locals, TypeOK
<1>10. StrongOwned'
  BY <1>1, <1>2, <1>3, <1>5, NullNotHandle
  DEF Ownership, StrongOwned, Owned, Owns, Locals, TypeOK
<1>11. QED
  BY <1>6, <1>7, <1>8, <1>9, <1>10 DEF Ownership

LEMMA OwnershipNext ==
  ASSUME TypeOK, Ownership, Disciplined, [Next]_vars
  PROVE  Ownership'
<1>1. CASE UNCHANGED vars
  BY <1>1 DEF vars, table, Ownership, Quiet, Framed, RawValid, OneOwner,
              NoDangling, StrongOwned, Owned, Owns, KindOf, FrameOf, Locals
<1>2. QED
  BY <1>1, FrameSteps, RawSteps, SlotSteps, CopyAndMoveSteps, PopFrameKeepingStep
  DEF Next

LEMMA OwnershipInvariant ==
  ASSUME Disciplined
  PROVE  Spec => []Ownership
<1>1. Init => Ownership
  BY NullNotHandle
  DEF Init, Ownership, Quiet, Framed, RawValid, OneOwner, NoDangling,
      StrongOwned, Owned, Owns, KindOf, FrameOf, Locals
<1>2. TypeOK /\ Ownership /\ [Next]_vars => Ownership'
  BY Disciplined, OwnershipNext
<1>3. QED
  BY <1>1, <1>2, TypeCorrect, PTL DEF Spec

(* A disciplined client never has two owners of one reference, a jhandle   *)
(* that holds a freed one, in however many nested scopes it was copied,    *)
(* moved, localized and globalized, or a local or global reference that    *)
(* has been forgotten.                                                     *)
THEOREM SafeOwnership ==
  ASSUME Disciplined
  PROVE  Spec => [](OneOwner /\ NoDangling /\ StrongOwned)
<1>1. Ownership => OneOwner /\ NoDangling /\ StrongOwned
  BY DEF Ownership
<1>2. QED
  BY <1>1, Disciplined, OwnershipInvariant, PTL

-----------------------------------------------------------------------------
(* How a change of what the slots name, seen from outside, is a step of    *)
(* the abstract specification.  Same(S) is what the other slots do.        *)
Same(S) == \A x \in Slots \ S : /\ Named(x)' = Named(x)
                                /\ x \in StrongSlots' <=> x \in StrongSlots

LEMMA StrongNames ==
  /\ \A x \in StrongSlots : x \in Slots /\ Named(x) # NoObject
  /\ \A x \in StrongSlots' : x \in Slots /\ Named(x)' # NoObject
  BY DEF StrongSlots

LEMMA ClearStep ==
  ASSUME NEW d \in Slots, Same({d}), Named(d)' = NoObject
  PROVE  Promise!Next
<1>1. Promise!Clear(d)
  BY StrongNames DEF Same, Promise!Clear
<1>2. QED BY <1>1 DEF Promise!Next

LEMMA BindStep ==
  ASSUME NEW d \in Slots, NEW o \in Objects, Same({d}), Named(d) = NoObject,
         Named(d)' = o
  PROVE  Promise!Next
<1>1. Promise!Bind(d, o)
  BY StrongNames DEF Same, Promise!Bind
<1>2. QED BY <1>1 DEF Promise!Next

LEMMA CopyStep ==
  ASSUME NEW d \in Slots, NEW s \in Slots \ {d}, Same({d}),
         Named(d)' \in {Named(s), NoObject}
  PROVE  Promise!Next
<1>1. CASE Named(d)' = Named(s)
  <2>1. Promise!Copy(d, s)
    BY <1>1, StrongNames DEF Same, Promise!Copy
  <2>2. QED BY <2>1 DEF Promise!Next
<1>2. CASE Named(d)' = NoObject
  BY <1>2, ClearStep
<1>3. QED BY <1>1, <1>2

LEMMA MoveStep ==
  ASSUME NEW d \in Slots, NEW s \in Slots \ {d}, Same({d, s}),
         Named(d)' = Named(s), Named(s)' = NoObject,
         d \in StrongSlots' <=> s \in StrongSlots
  PROVE  Promise!Next
<1>1. [x \in Slots |-> Named(x)]'
        = [[x \in Slots |-> Named(x)] EXCEPT ![d] = Named(s), ![s] = NoObject]
  BY DEF Same
<1>2. StrongSlots' = IF s \in StrongSlots THEN (StrongSlots \ {s}) \cup {d}
                                          ELSE StrongSlots \ {d}
  BY StrongNames DEF Same
<1>3. Promise!Move(d, s)
  BY <1>1, <1>2 DEF Promise!Move
<1>4. QED BY <1>3 DEF Promise!Next

(* A slot that lets go of its own handle and gets a new one changes what   *)
(* no other slot names: nobody else holds either of the two.               *)
LEMMA OthersSame ==
  ASSUME TypeOK, Ownership, NEW S, NEW d \in S, d \in Slots, NEW freed, NEW h,
         NEW k, NEW o, NEW f,
         freed = {} \/ (d \in alive /\ freed = {object[d]}),
         Update(freed, h, k, o, f),
         h = Null \/ (h \in Handles /\ (kind[h] = "invalid" \/ h \in freed)),
         \A x \in Slots \ S : /\ object'[x] = object[x]
                              /\ x \in alive' <=> x \in alive
  PROVE  Same(S)
<1> SUFFICES ASSUME NEW x \in Slots \ S, x \in alive, object[x] # Null
             PROVE  /\ kind'[object[x]] = kind[object[x]]
                    /\ target'[object[x]] = target[object[x]]
  BY DEF Same, Named, StrongSlots, Referent, KindOf
<1>1. object[x] \in Handles /\ object[x] \notin freed /\ object[x] # h
  BY DEF TypeOK, Ownership, OneOwner, NoDangling, Owns
<1>2. QED
  BY <1>1 DEF Update

LEMMA SameTable ==
  ASSUME TypeOK, UNCHANGED table
  PROVE  Update({}, Null, "invalid", NoObject, 0)
  BY NullNotHandle DEF TypeOK, Update, table

LEMMA DeletedOwn ==
  ASSUME TypeOK, NEW s \in Slots, s \in alive
  PROVE  Deleted(s) = {} \/ Deleted(s) = {object[s]}
  BY DEF Deleted

(* Steps that only concern frames and raw handles change no name. *)
LEMMA FrameStepsRefine ==
  ASSUME TypeOK, Ownership,
         \/ EnterNative \/ PushFrame \/ PopFrame
         \/ \E k \in RawKinds, o \in Objects : JniResult(k, o)
  PROVE  UNCHANGED Promise!vars
<1> SUFFICES Same({})
  BY StrongNames DEF Same, Promise!vars
<1>1. CASE EnterNative \/ PushFrame
  BY <1>1 DEF EnterNative, PushFrame, table, Same, Named, StrongSlots, Referent,
              KindOf
<1>2. CASE PopFrame
  <2> DEFINE gone == {h \in Locals : frame[h] = depth}
  <2>1. \A s \in alive : object[s] # Null =>
           kind'[object[s]] = kind[object[s]] /\ target'[object[s]] = target[object[s]]
    <3> SUFFICES ASSUME NEW s \in alive, object[s] # Null
                 PROVE  /\ kind'[object[s]] = kind[object[s]]
                        /\ target'[object[s]] = target[object[s]]
      OBVIOUS
    <3>1. object[s] \in Handles \ gone
      BY <1>2 DEF PopFrame, Ownership, Framed, KindOf, FrameOf, Locals, TypeOK
    <3>2. QED
      BY <1>2, <3>1, NullNotHandle DEF PopFrame, Free, Update
  <2>2. QED
    BY <1>2, <2>1 DEF PopFrame, Same, Named, StrongSlots, Referent, KindOf
<1>3. ASSUME NEW k \in RawKinds, NEW o \in Objects, JniResult(k, o)
      PROVE  Same({})
  <2>1. PICK h \in Fresh({}, o) \ {Null} : Update({}, h, k, o, depth)
    BY <1>3 DEF JniResult
  <2>2. h \in Handles /\ kind[h] = "invalid"
    BY <2>1, FreshIsFree
  <2>3. \A s \in alive : object[s] # Null => object[s] \in Handles \ {h}
    BY <2>2 DEF Ownership, NoDangling, TypeOK
  <2>4. QED
    BY <1>3, <2>1, <2>3
    DEF JniResult, Update, Same, Named, StrongSlots, Referent, KindOf
<1>4. QED
  BY <1>1, <1>2, <1>3

LEMMA SlotStepsRefine ==
  ASSUME TypeOK, Ownership, NEW s \in Slots,
         \/ ConstructNull(s) \/ AssignNull(s) \/ Release(s) \/ Destroy(s)
         \/ Globalize(s) \/ Localize(s)
  PROVE  [Promise!Next]_(Promise!vars)
<1>1. CASE ConstructNull(s)
  <2>1. Named(s)' = NoObject
    BY <1>1 DEF ConstructNull, Named, Referent, TypeOK
  <2>2. Same({s})
    BY <1>1, SameTable, OthersSame DEF ConstructNull, TypeOK
  <2>3. QED BY <2>1, <2>2, ClearStep
<1>2. CASE AssignNull(s)
  <2>1. Named(s)' = NoObject
    BY <1>2 DEF AssignNull, Named, Referent, TypeOK
  <2>2. Same({s})
    BY <1>2, DeletedOwn, OthersSame DEF AssignNull, Free, TypeOK
  <2>3. QED BY <2>1, <2>2, ClearStep
<1>3. CASE Release(s)
  <2>1. Named(s)' = NoObject
    BY <1>3 DEF Release, Named, Referent, TypeOK
  <2>2. Same({s})
    BY <1>3, SameTable, OthersSame DEF Release, TypeOK
  <2>3. QED BY <2>1, <2>2, ClearStep
<1>4. CASE Destroy(s)
  <2>1. Named(s)' = NoObject
    BY <1>4 DEF Destroy, Named
  <2>2. CASE jni
    <3>1. Same({s})
      BY <1>4, <2>2, DeletedOwn, OthersSame DEF Destroy, Free, TypeOK
    <3>2. QED BY <2>1, <3>1, ClearStep
  <2>3. CASE ~jni
    <3>1. Same({s})
      BY <1>4, <2>3, SameTable, OthersSame DEF Destroy, TypeOK
    <3>2. QED BY <2>1, <3>1, ClearStep
  <2>4. QED BY <2>2, <2>3
<1>5. CASE Globalize(s) \/ Localize(s)
  <2> DEFINE o == Referent(object[s])
  <2>1. PICK k \in {"local", "global"} : \E h \in Fresh({}, o) \cup Fresh({object[s]}, o) :
           \E f \in {0, depth} : /\ Update({object[s]}, h, k, o, f)
                                 /\ object' = [object EXCEPT ![s] = h]
    BY <1>5 DEF Globalize, Localize
  <2>2. PICK h \in Fresh({}, o) \cup Fresh({object[s]}, o), f \in {0, depth} :
           /\ Update({object[s]}, h, k, o, f)
           /\ object' = [object EXCEPT ![s] = h]
    BY <2>1
  <2>3. /\ h = Null \/ (h \in Handles /\ (kind[h] = "invalid" \/ h \in {object[s]}))
        /\ o = NoObject => h = Null
    <3> HIDE DEF o
    <3> QED BY FreshIsFree
  <2>4. s \in alive /\ alive' = alive /\ KindOf(object[s]) \in {"local", "global"}
    BY <1>5 DEF Globalize, Localize
  <2>5. Same({s})
    BY <2>2, <2>3, <2>4, OthersSame DEF TypeOK
  <2>6. CASE h = Null
    <3>1. Named(s)' = NoObject
      BY <2>2, <2>6 DEF Named, Referent, TypeOK
    <3>2. QED BY <2>5, <3>1, ClearStep
  <2>7. CASE h # Null
    <3>1. Named(s)' = o /\ Named(s) = o /\ o # NoObject
      BY <2>2, <2>3, <2>4, <2>7 DEF Named, Referent, Update, TypeOK
    <3>2. s \in StrongSlots /\ s \in StrongSlots'
      BY <2>2, <2>3, <2>4, <2>7, <3>1
      DEF StrongSlots, KindOf, Update, TypeOK
    <3>3. QED
      BY <2>5, <3>1, <3>2, StrongNames DEF Same, Promise!vars
  <2>8. QED BY <2>6, <2>7
<1>6. QED
  BY <1>1, <1>2, <1>3, <1>4, <1>5

LEMMA StealRefines ==
  ASSUME TypeOK, Ownership, NEW s \in Slots, NEW h \in Handles, StealRaw(s, h)
  PROVE  Promise!Next
<1>1. Same({s})
  BY SameTable, OthersSame DEF StealRaw, TypeOK
<1>2. Named(s) = NoObject /\ Named(s)' = target[h]
  BY NullNotHandle DEF StealRaw, Named, Referent, table, TypeOK
<1>3. CASE target[h] = NoObject
  BY <1>1, <1>2, <1>3, ClearStep
<1>4. CASE target[h] \in Objects
  BY <1>1, <1>2, <1>4, BindStep
<1>5. QED
  BY <1>3, <1>4 DEF TypeOK

LEMMA CopyRefines ==
  ASSUME TypeOK, Ownership, NEW d \in Slots, NEW s \in Slots,
         CopyConstruct(d, s) \/ CopyAssign(d, s)
  PROVE  Promise!Next
<1> DEFINE old == IF d \in alive THEN Deleted(d) ELSE {}
           o == IF s = d THEN NoObject ELSE Copied(s)
<1>1. d \notin alive => d # s
  BY DEF CopyConstruct, CopyAssign
<1>2. PICK h \in Fresh(old, o) :
         /\ Update(old, h, KindOf(object[s]), o, depth)
         /\ object' = [object EXCEPT ![d] = h]
  BY <1>1 DEF CopyConstruct, CopyAssign
<1>3. /\ h = Null \/ (h \in Handles /\ (kind[h] = "invalid" \/ h \in old))
      /\ o = NoObject => h = Null
  <2> HIDE DEF old, o
  <2> QED BY <1>2, FreshIsFree
<1>4. s \in alive /\ alive' = alive \cup {d}
  BY DEF CopyConstruct, CopyAssign
<1>5. old = {} \/ (d \in alive /\ old = {object[d]})
  BY DeletedOwn
<1>6. Same({d})
  <2> HIDE DEF old, o
  <2> QED BY <1>2, <1>3, <1>4, <1>5, OthersSame DEF TypeOK
<1>7. Named(d)' = IF h = Null THEN NoObject ELSE o
  BY <1>2, <1>3, <1>4 DEF Named, Referent, Update, TypeOK
<1>8. o # NoObject => d # s /\ o = Named(s)
  BY <1>4 DEF Copied, Named
<1>9. CASE Named(d)' = NoObject
  BY <1>6, <1>9, ClearStep
<1>10. CASE Named(d)' # NoObject
  BY <1>6, <1>7, <1>8, <1>10, CopyStep
<1>11. QED
  BY <1>9, <1>10

LEMMA MoveRefines ==
  ASSUME TypeOK, Ownership, Disciplined, NEW d \in Slots, NEW s \in Slots,
         MoveConstruct(d, s) \/ MoveAssign(d, s)
  PROVE  Promise!Next
<1> DEFINE old == IF d \in alive THEN Deleted(d) ELSE {}
<1>1. d # s /\ s \in alive /\ alive' = alive \cup {d}
  BY DEF MoveConstruct, MoveAssign, Disciplined
<1>2. object' = [object EXCEPT ![d] = object[s], ![s] = Null]
  BY <1>1 DEF MoveConstruct, MoveAssign
<1>3. Update(old, Null, "invalid", NoObject, 0)
  BY SameTable DEF MoveConstruct, MoveAssign, Free
<1>4. old = {} \/ (d \in alive /\ old = {object[d]})
  BY DeletedOwn
<1>5. Same({d, s})
  <2> HIDE DEF old
  <2> QED BY <1>1, <1>2, <1>3, <1>4, OthersSame DEF TypeOK
<1>6. object[s] # Null => /\ object[s] \in Handles \ old
                          /\ kind'[object[s]] = kind[object[s]]
                          /\ target'[object[s]] = target[object[s]]
  <2>1. object[s] # Null => object[s] \in Handles \ old
    BY <1>1, <1>4 DEF Ownership, OneOwner, Owns, TypeOK
  <2> HIDE DEF old
  <2>2. QED BY <1>3, <2>1, NullNotHandle DEF Update
<1>7. Named(d)' = Named(s) /\ Named(s)' = NoObject
  BY <1>1, <1>2, <1>6 DEF Named, Referent, TypeOK
<1>8. d \in StrongSlots' <=> s \in StrongSlots
  <2>1. KindOf(object[d])' = KindOf(object[s])
    BY <1>1, <1>2, <1>6 DEF KindOf, TypeOK
  <2>2. QED BY <1>7, <2>1 DEF StrongSlots
<1>9. QED
  BY <1>1, <1>5, <1>7, <1>8, MoveStep

LEMMA PopFrameKeepingRefines ==
  ASSUME TypeOK, Ownership, Disciplined, NEW d \in Slots, NEW s \in Slots,
         PopFrameKeeping(d, s)
  PROVE  Promise!Next
<1> DEFINE gone == {x \in Locals : frame[x] = depth}
           o == Referent(object[s])
<1>1. PICK h \in Fresh(gone, o) :
         /\ Update(gone, h, "local", o, depth - 1)
         /\ object' = [object EXCEPT ![d] = h, ![s] = Null]
  BY DEF PopFrameKeeping
<1>2. /\ h = Null \/ (h \in Handles /\ (kind[h] = "invalid" \/ h \in gone))
      /\ o = NoObject => h = Null
  <2> HIDE DEF gone, o
  <2> QED BY <1>1, FreshIsFree
<1>3. object[s] = Null \/ object[s] \in gone
  BY DEF PopFrameKeeping, Disciplined, Ownership, NoDangling, Framed, FrameOf,
         KindOf, Locals, TypeOK
<1>4. \A t \in alive \ {s} : object[t] # Null =>
         object[t] \in Handles /\ object[t] \notin gone /\ object[t] # h
  BY <1>2, NullNotHandle
  DEF PopFrameKeeping, Ownership, NoDangling, Framed, KindOf, FrameOf, Locals, TypeOK
<1>5. d # s /\ d \notin alive /\ s \in alive /\ alive' = alive \cup {d}
  BY DEF PopFrameKeeping
<1>6. \A t \in alive \ {s} : object[t] # Null =>
         kind'[object[t]] = kind[object[t]] /\ target'[object[t]] = target[object[t]]
  BY <1>1, <1>4 DEF Update
<1>7. Same({d, s})
  BY <1>1, <1>5, <1>6 DEF Same, Named, StrongSlots, Referent, KindOf, TypeOK
<1>8. Named(s)' = NoObject
  BY <1>1, <1>5 DEF Named, Referent, TypeOK
<1>9. Named(d)' = IF h = Null THEN NoObject ELSE o
  BY <1>1, <1>2, <1>5 DEF Named, Referent, Update, TypeOK
<1>10. CASE h = Null
  <2>1. [x \in Slots |-> Named(x)]' = [[x \in Slots |-> Named(x)] EXCEPT ![s] = NoObject]
    BY <1>5, <1>7, <1>8, <1>9, <1>10 DEF Same, Named
  <2>2. StrongSlots' = StrongSlots \ {s}
    BY <1>5, <1>7, <1>8, <1>9, <1>10, StrongNames DEF Same, Named
  <2>3. Promise!Clear(s)
    BY <2>1, <2>2 DEF Promise!Clear
  <2>4. QED BY <2>3 DEF Promise!Next
<1>11. CASE h # Null
  <2>1. Named(d)' = Named(s)
    BY <1>5, <1>9, <1>11 DEF Named
  <2>2. s \in StrongSlots
    BY <1>2, <1>3, <1>5, <1>11, NullNotHandle
    DEF StrongSlots, Named, KindOf, Referent, Locals
  <2>3. d \in StrongSlots'
    BY <1>1, <1>2, <1>5, <1>9, <1>11
    DEF StrongSlots, KindOf, Update, TypeOK
  <2>4. QED
    BY <1>5, <1>7, <1>8, <2>1, <2>2, <2>3, MoveStep
<1>12. QED
  BY <1>10, <1>11

LEMMA CollectRefines ==
  ASSUME TypeOK, NEW o \in Objects, Collect(o)
  PROVE  Promise!Next
<1>1. \A x \in Slots : Named(x)' = IF Named(x) = o THEN NoObject ELSE Named(x)
  BY NullNotHandle, NoObjectNotObject DEF Collect, Named, Referent, TypeOK
<1>2. \A x \in StrongSlots : Named(x) # o
  <2> SUFFICES ASSUME NEW x \in StrongSlots, Named(x) = o
               PROVE  FALSE
    OBVIOUS
  <2>1. object[x] \in Handles /\ target[object[x]] = o
    BY NoObjectNotObject DEF StrongSlots, Named, Referent, TypeOK
  <2>2. kind[object[x]] = "weak"
    BY <2>1 DEF Collect
  <2>3. QED
    BY <2>1, <2>2, NullNotHandle DEF StrongSlots, KindOf
<1>3. StrongSlots' = StrongSlots
  BY <1>1, <1>2 DEF Collect, StrongSlots, KindOf
<1>4. Promise!Fade(o)
  BY <1>1, <1>2, <1>3, StrongNames DEF Promise!Fade
<1>5. QED BY <1>4 DEF Promise!Next

LEMMA RefinementNext ==
  ASSUME TypeOK, Ownership, Disciplined, [Next]_vars
  PROVE  [Promise!Next]_(Promise!vars)
<1>1. CASE UNCHANGED vars
  BY <1>1 DEF vars, table, Promise!vars, Named, StrongSlots, Referent, KindOf
<1>2. QED
  BY <1>1, FrameStepsRefine, SlotStepsRefine, StealRefines, CopyRefines,
     MoveRefines, PopFrameKeepingRefines, CollectRefines
  DEF Next

(* jhandles of a disciplined client implement the abstract promise: what   *)
(* one handle names changes only when an operation is applied to it.       *)
THEOREM ImplementsRaii ==
  ASSUME Disciplined
  PROVE  Spec => Refinement
<1>1. Init => Promise!Init
  BY DEF Init, Promise!Init, Named, StrongSlots
<1>2. TypeOK /\ Ownership /\ [Next]_vars => [Promise!Next]_(Promise!vars)
  BY Disciplined, RefinementNext
<1>3. QED
  BY <1>1, <1>2, Disciplined, TypeCorrect, OwnershipInvariant, PTL
  DEF Spec, Refinement, Promise!Spec

-----------------------------------------------------------------------------
(***************************************************************************)
(* Exceptions                                                              *)
(*                                                                         *)
(* The properties are not inductive.  Frames are pushed and popped one by  *)
(* one, so that they are restored at the end of a chain needs the frame    *)
(* count of every chain that runs (Levels); that no exception is lost or   *)
(* comes back needs that a handler's argument was thrown and given         *)
(* (Accounted); and that it is one of the chain's own needs that whatever  *)
(* is pending belongs to every chain that runs (PendingIsOwn).             *)
(***************************************************************************)

(* The frame a chain holds in the given phase. *)
Held(p) == IF p \in {"try", "handler"} THEN 1 ELSE 0

(* base and frames count the frames of the chains that run. *)
Levels ==
  /\ level = 0 => frames = 0
  /\ level > 0 => base[1] = 0 /\ frames = base[level] + Held(phase[level])
  /\ \A d \in Chains : d < level => base[d + 1] = base[d] + Held(phase[d])

(* What is pending, given or accepted was thrown, and handlers run for what *)
(* they were given.                                                          *)
Accounted ==
  /\ pending \in raised \cup {None}
  /\ given \subseteq raised
  /\ accepted \subseteq raised
  /\ \A d \in Chains : phase[d] = "handler" => caught[d] \in given

(* Whatever is pending was thrown inside every chain that runs, unless it   *)
(* was there when the chain began.                                           *)
PendingIsOwn ==
  \A d \in Chains : Running(d) /\ pending # None
                     => pending \in own[d] \/ pending = carried[d]

Handling == ChainsTypeOK /\ Levels /\ Accounted /\ Settled

LEMMA InitHandling == ChainsInit => Handling
  BY NoneNotThrowable, MaxChainsPositive
     DEF ChainsInit, Handling, ChainsTypeOK, Levels, Accounted, Settled, Chains, Phases

LEMMA NextHandling == Handling /\ [ChainsNext]_chainVars => Handling'
  <1> SUFFICES ASSUME Handling, [ChainsNext]_chainVars PROVE Handling'
    OBVIOUS
  <1> USE NoneNotThrowable, MaxChainsPositive
  <1> USE DEF Handling, ChainsTypeOK, Levels, Accounted, Settled, Chains, Phases,
              Held
  <1>1. ASSUME NEW e \in Throwables, Throw(e) PROVE Handling'
    BY <1>1 DEF Throw
  <1>2. CASE ClientClear
    BY <1>2 DEF ClientClear
  <1>3. CASE ReturnToJava
    BY <1>3 DEF ReturnToJava
  <1>4. CASE Try
    BY <1>4, SMTT(40) DEF Try, InClient
  <1>5. CASE TryReturns
    BY <1>5 DEF TryReturns, ghosts
  <1>6. CASE Catch
    BY <1>6 DEF Catch
  <1>7. CASE HandlerDeclines
    BY <1>7 DEF HandlerDeclines, HandlerReturns
  <1>8. CASE HandlerAccepts
    <2>1. HandlerReturns /\ pending' = None
          /\ accepted' = accepted \cup {caught[level]}
          /\ dropped' = dropped \cup ({pending} \ {None, caught[level]})
      BY ONLY <1>8 DEF HandlerAccepts
    <2>2. ChainsTypeOK' /\ Levels'
      BY <2>1 DEF HandlerReturns
    <2>3. Accounted'
      BY <2>1 DEF HandlerReturns
    <2>4. Settled'
      BY <2>1 DEF HandlerReturns
    <2> QED
      BY <2>2, <2>3, <2>4
  <1>9. CASE Finally
    BY <1>9 DEF Finally, ghosts
  <1>10. CASE EndChain
    BY <1>10, SMTT(40) DEF EndChain, Leave
  <1>11. CASE Unwind
    BY <1>11, SMTT(40) DEF Unwind, Leave
  <1>12. CASE UNCHANGED chainVars
    BY <1>12 DEF chainVars
  <1> QED
    BY <1>1, <1>2, <1>3, <1>4, <1>5, <1>6, <1>7, <1>8, <1>9, <1>10, <1>11,
       <1>12 DEF ChainsNext

(* The variables keep their types; in particular the thread never pops a    *)
(* local frame that it did not push.                                         *)
THEOREM ChainsTypeCorrect == ChainsSpec => []ChainsTypeOK
  <1>1. Handling => ChainsTypeOK
    BY DEF Handling
  <1> QED
    BY <1>1, InitHandling, NextHandling, PTL DEF ChainsSpec

(* Whatever the client does, jtry, jcatch and jfinally leave the local      *)
(* frames of the thread as they found them, by return or C++ exception.      *)
THEOREM ScopesBalance == ChainsSpec => []FramesRestored
  <1>1. Handling => FramesRestored
    BY DEF Handling, Levels, FramesRestored, Held, ChainsTypeOK, Chains
  <1> QED
    BY <1>1, InitHandling, NextHandling, PTL DEF ChainsSpec

(* Whatever the client does, an exception that a handler returned true for  *)
(* is never pending again.                                                   *)
THEOREM AcceptedIsOver == ChainsSpec => []Settled
  <1>1. Handling => Settled
    BY DEF Handling
  <1> QED
    BY <1>1, InitHandling, NextHandling, PTL DEF ChainsSpec

-----------------------------------------------------------------------------

(* No exception vanishes unless a handler was given it or the client let    *)
(* it go.                                                                     *)
THEOREM NothingVanishes == ChainsSpec => []NoneLost
  <1>1. ChainsInit => NoneLost
    BY DEF ChainsInit, NoneLost
  <1>2. Handling /\ NoneLost /\ [ChainsNext]_chainVars => NoneLost'
    <2> SUFFICES ASSUME Handling, NoneLost, [ChainsNext]_chainVars PROVE NoneLost'
      OBVIOUS
    <2> USE DEF Handling, ChainsTypeOK, Accounted, NoneLost, Chains
    <2>1. ASSUME NEW e \in Throwables, Throw(e) PROVE NoneLost'
      BY <2>1, NoneNotThrowable DEF Throw
    <2>2. CASE ClientClear \/ ReturnToJava
      BY <2>2 DEF ClientClear, ReturnToJava
    <2>3. CASE HandlerAccepts
      BY <2>3 DEF HandlerAccepts, HandlerReturns
    <2>4. CASE Catch
      BY <2>4 DEF Catch
    <2>5. CASE Try \/ TryReturns \/ Finally
      BY <2>5 DEF Try, TryReturns, Finally, ghosts
    <2>6. CASE HandlerDeclines
      BY <2>6 DEF HandlerDeclines, HandlerReturns
    <2>7. CASE EndChain \/ Unwind
      <3>1. UNCHANGED <<pending, raised, given, dropped>>
        BY ONLY <2>7 DEF EndChain, Unwind, Leave
      <3> QED
        BY <3>1
    <2>8. CASE UNCHANGED chainVars
      BY <2>8 DEF chainVars
    <2> QED
      BY <2>1, <2>2, <2>3, <2>4, <2>5, <2>6, <2>7, <2>8 DEF ChainsNext
  <1> QED
    BY <1>1, <1>2, InitHandling, NextHandling, PTL DEF ChainsSpec

(* A handler is called only for an exception of its own chain or the one    *)
(* that was pending when the chain began.                                    *)
THEOREM HandlersGetTheirOwn == ChainsSpec => []CaughtIsOwn
  <1> DEFINE Own == PendingIsOwn /\ CaughtIsOwn
  <1>1. ChainsInit => Own
    BY DEF ChainsInit, PendingIsOwn, CaughtIsOwn, Running
  <1>2. Handling /\ Own /\ [ChainsNext]_chainVars => Own'
    <2> SUFFICES ASSUME Handling, Own, [ChainsNext]_chainVars PROVE Own'
      OBVIOUS
    <2> USE DEF Handling, ChainsTypeOK, PendingIsOwn, CaughtIsOwn, Running, Chains
    <2>1. ASSUME NEW e \in Throwables, Throw(e) PROVE Own'
      BY <2>1 DEF Throw
    <2>2. CASE ClientClear \/ ReturnToJava
      BY <2>2 DEF ClientClear, ReturnToJava
    <2>3. CASE Try
      BY <2>3 DEF Try
    <2>4. CASE TryReturns \/ Finally
      BY <2>4 DEF TryReturns, Finally, ghosts
    <2>5. CASE Catch
      BY <2>5 DEF Catch
    <2>6. CASE HandlerDeclines
      BY <2>6 DEF HandlerDeclines, HandlerReturns
    <2>7. CASE HandlerAccepts
      BY <2>7 DEF HandlerAccepts, HandlerReturns
    <2>8. CASE EndChain \/ Unwind
      <3>1. Leave
        BY ONLY <2>8 DEF EndChain, Unwind
      <3> QED
        BY <3>1 DEF Leave
    <2>9. CASE UNCHANGED chainVars
      BY <2>9 DEF chainVars
    <2> QED
      BY <2>1, <2>2, <2>3, <2>4, <2>5, <2>6, <2>7, <2>8, <2>9 DEF ChainsNext
  <1>3. Own => CaughtIsOwn
    OBVIOUS
  <1> HIDE DEF Own
  <1> QED
    BY <1>1, <1>2, <1>3, InitHandling, NextHandling, PTL DEF ChainsSpec

=============================================================================
