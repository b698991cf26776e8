------------------------------ MODULE Jhandle ------------------------------
(***************************************************************************)
(* class jhandle<T> of jnixx.h: a C++ value of the size of a jobject that  *)
(* owns the JNI reference it holds.  It has no tag: every operation asks   *)
(* the JVM for the kind of the handle it is about to delete or to copy.    *)
(* Local references belong to the frame they were made in; jscope, jtry    *)
(* and jcatch run their callable in a frame of its own.                    *)
(***************************************************************************)
EXTENDS Naturals

CONSTANTS
  Slots,      \* C++ variables of type jhandle
  Handles,    \* JNI reference values the JVM can hand out
  Objects,    \* Java objects
  Null,       \* the null jobject
  NoObject,   \* what a free handle, or a cleared weak one, refers to
  RawKinds,   \* the kinds of raw handles the client gives to steal()
  MaxDepth,   \* bound on the nesting of frames
  Liberties   \* what the client does beyond the discipline below

Kinds == {"invalid", "local", "global", "weak"}   \* jobjectRefType

(* escape:   a handle of an outer scope is given a local of an inner frame *)
(* selfmove: a handle is moved to itself                                   *)
(* keepouter: pop_local_frame is given a handle that the frame does not    *)
(*            hold, which it releases and nobody deletes                   *)
AllLiberties == {"escape", "selfmove", "keepouter"}

ASSUME NullNotHandle == Null \notin Handles
ASSUME NoObjectNotObject == NoObject \notin Objects
ASSUME RawKindsAreKinds == RawKinds \subseteq Kinds \ {"invalid"}
ASSUME DepthBounded == MaxDepth \in Nat \ {0}
ASSUME LibertiesKnown == Liberties \subseteq AllLiberties

VARIABLES
  jni,      \* the thread's ::jni is set
  depth,    \* frames on the thread's stack; 0: no native method is running
  kind,     \* kind[h]: what GetObjectRefType(h) answers; "invalid" when free
  target,   \* target[h]: the object h refers to
  frame,    \* frame[h]: the frame a local handle h was made in
  raw,      \* raw handles the client holds in plain jobject variables
  alive,    \* the slots whose lifetime has begun and not ended
  born,     \* born[s]: the nesting of the C++ scope s is a variable of
  object    \* object[s]: the member of jhandle s

table == <<kind, target, frame>>
vars == <<jni, depth, table, raw, alive, born, object>>

TypeOK == /\ jni \in BOOLEAN
          /\ depth \in 0..MaxDepth
          /\ kind \in [Handles -> Kinds]
          /\ target \in [Handles -> Objects \cup {NoObject}]
          /\ frame \in [Handles -> 0..MaxDepth]
          /\ raw \subseteq Handles
          /\ alive \subseteq Slots
          /\ born \in [Slots -> 0..MaxDepth]
          /\ object \in [Slots -> Handles \cup {Null}]

Init == /\ jni = FALSE
        /\ depth = 0
        /\ kind = [h \in Handles |-> "invalid"]
        /\ target = [h \in Handles |-> NoObject]
        /\ frame = [h \in Handles |-> 0]
        /\ raw = {}
        /\ alive = {}
        /\ born = [s \in Slots |-> 0]
        /\ object = [s \in Slots |-> Null]

-----------------------------------------------------------------------------
(* The JVM's reference table.                                              *)

KindOf(h) == IF h = Null THEN "invalid" ELSE kind[h]
Referent(h) == IF h = Null THEN NoObject ELSE target[h]
FrameOf(h) == IF h = Null THEN 0 ELSE frame[h]
Locals == {h \in Handles : kind[h] = "local"}

(* The handles New<k>Ref(o) may answer once those in freed are gone: null  *)
(* for null, for a cleared weak reference and when none is left.           *)
Fresh(freed, o) ==
  LET free == {h \in Handles : kind[h] = "invalid" \/ h \in freed}
  IN  IF o = NoObject \/ free = {} THEN {Null} ELSE free

(* The table after deleting freed and allocating h, in frame f if local.   *)
Update(freed, h, k, o, f) ==
  /\ kind' = [x \in Handles |-> IF x = h THEN k
                                ELSE IF x \in freed THEN "invalid" ELSE kind[x]]
  /\ target' = [x \in Handles |-> IF x = h THEN o
                                  ELSE IF x \in freed THEN NoObject
                                  ELSE target[x]]
  /\ frame' = [x \in Handles |-> IF x = h /\ k = "local" THEN f
                                 ELSE IF x \in freed \cup {h} THEN 0
                                 ELSE frame[x]]

Free(freed) == Update(freed, Null, "invalid", NoObject, 0)

(* The switch over ref_type() that every operation begins with: what is    *)
(* deleted.  There is no case for weak references.                         *)
Deleted(s) == IF KindOf(object[s]) \in {"local", "global"} THEN {object[s]}
                                                          ELSE {}

(* The switch over other.ref_type(): a copy is of the kind of its source,  *)
(* and null for the kinds without a case.                                  *)
Copied(s) == IF KindOf(object[s]) \in {"local", "global"}
             THEN Referent(object[s]) ELSE NoObject

(* The discipline: a handle of an outer scope is not made to hold a local  *)
(* of frame f, which will be gone before the handle is.                    *)
Allowed(s, k, f) == k = "local" /\ f > born[s] => "escape" \in Liberties

-----------------------------------------------------------------------------
(* Slips; each stands in for the operation it is named after.              *)

(* globalize() forgets the local reference. *)
GlobalizeLeaks(s) ==
  /\ depth > 0 /\ s \in alive
  /\ KindOf(object[s]) = "local"
  /\ \E h \in Fresh({}, Referent(object[s])) :
       /\ Update({}, h, "global", Referent(object[s]), 0)
       /\ object' = [object EXCEPT ![s] = h]
  /\ UNCHANGED <<jni, depth, raw, alive, born>>

(* A move assignment that reads other.object without releasing it. *)
MoveAssignKeepsSource(d, s) ==
  /\ depth > 0 /\ {d, s} \subseteq alive
  /\ d # s
  /\ Allowed(d, KindOf(object[s]), FrameOf(object[s]))
  /\ Free(Deleted(d))
  /\ object' = [object EXCEPT ![d] = object[s]]
  /\ UNCHANGED <<jni, depth, raw, alive, born>>

(* The frame is popped before the handle is asked what to keep. *)
PopKeepingLate(d, s) ==
  /\ depth > 1
  /\ d \notin alive /\ s \in alive
  /\ born[s] = depth /\ \A t \in alive \ {s} : born[t] < depth
  /\ object[s] # Null /\ FrameOf(object[s]) # depth => "keepouter" \in Liberties
  /\ Free({h \in Locals : frame[h] = depth})
  /\ object' = [object EXCEPT ![d] = object[s], ![s] = Null]
  /\ born' = [born EXCEPT ![d] = depth - 1, ![s] = depth - 1]
  /\ alive' = alive \cup {d}
  /\ raw' = {h \in raw : ~(kind[h] = "local" /\ frame[h] = depth)}
  /\ depth' = depth - 1
  /\ UNCHANGED jni

-----------------------------------------------------------------------------
(* A native method is called: it sets ::jni, and the JVM gives it a frame. *)
EnterNative ==
  /\ depth = 0
  /\ depth' = 1 /\ jni' = TRUE
  /\ UNCHANGED <<table, raw, alive, born, object>>

(* push_local_frame, as the beginning of a jscope. *)
PushFrame ==
  /\ depth \in 1..(MaxDepth - 1)
  /\ depth' = depth + 1
  /\ UNCHANGED <<jni, table, raw, alive, born, object>>

(* pop_local_frame() at the end of a jscope, and the return of the native  *)
(* method.  The variables of the scope are destroyed by then.              *)
PopFrame ==
  /\ depth > 0
  /\ \A s \in alive : born[s] < depth
  /\ LET gone == {h \in Locals : frame[h] = depth}
     IN  Free(gone) /\ raw' = raw \ gone
  /\ depth' = depth - 1
  /\ UNCHANGED <<jni, alive, born, object>>

(* d = pop_local_frame(std::move(s)): releases s, and the JVM answers a    *)
(* local reference to its object in the frame below.                       *)
PopFrameKeeping(d, s) ==
  /\ depth > 1
  /\ d \notin alive /\ s \in alive
  /\ born[s] = depth /\ \A t \in alive \ {s} : born[t] < depth
  /\ object[s] # Null /\ FrameOf(object[s]) # depth => "keepouter" \in Liberties
  /\ LET gone == {h \in Locals : frame[h] = depth}
         o == Referent(object[s])
     IN  /\ \E h \in Fresh(gone, o) :
              /\ Update(gone, h, "local", o, depth - 1)
              /\ object' = [object EXCEPT ![d] = h, ![s] = Null]
         /\ raw' = raw \ gone
  /\ born' = [born EXCEPT ![d] = depth - 1, ![s] = depth - 1]
  /\ alive' = alive \cup {d}
  /\ depth' = depth - 1
  /\ UNCHANGED jni

-----------------------------------------------------------------------------
(* The client gets a raw handle from a JNI call or as a parameter. *)
JniResult(k, o) ==
  /\ depth > 0
  /\ \E h \in Fresh({}, o) \ {Null} :
        /\ Update({}, h, k, o, depth)
        /\ raw' = raw \cup {h}
  /\ UNCHANGED <<jni, depth, alive, born, object>>

(* jhandle() and jhandle(nullptr); a static one before any native call. *)
ConstructNull(s) ==
  /\ depth > 0 \/ ~jni
  /\ s \notin alive
  /\ alive' = alive \cup {s}
  /\ born' = [born EXCEPT ![s] = depth]
  /\ object' = [object EXCEPT ![s] = Null]
  /\ UNCHANGED <<jni, depth, table, raw>>

(* steal<U>(V &) of a raw handle, and the constructors that store the      *)
(* result of NewObject, NewStringUTF or New<Type>Array.                    *)
StealRaw(s, h) ==
  /\ depth > 0 /\ s \notin alive
  /\ h \in raw
  /\ object' = [object EXCEPT ![s] = h]
  /\ raw' = raw \ {h}
  /\ born' = [born EXCEPT ![s] = depth]
  /\ alive' = alive \cup {s}
  /\ UNCHANGED <<jni, depth, table>>

(* jhandle(jhandle &&), whose own member is still null, and steal<U>(V &)  *)
(* of a handle.                                                            *)
MoveConstruct(d, s) ==
  /\ depth > 0 /\ d \notin alive /\ s \in alive
  /\ object' = [object EXCEPT ![d] = object[s], ![s] = Null]
  /\ born' = [born EXCEPT ![d] = depth]
  /\ alive' = alive \cup {d}
  /\ UNCHANGED <<jni, depth, table, raw>>

(* jhandle(const jhandle &) *)
CopyConstruct(d, s) ==
  /\ depth > 0 /\ d \notin alive /\ s \in alive
  /\ \E h \in Fresh({}, Copied(s)) :
       /\ Update({}, h, KindOf(object[s]), Copied(s), depth)
       /\ object' = [object EXCEPT ![d] = h]
  /\ born' = [born EXCEPT ![d] = depth]
  /\ alive' = alive \cup {d}
  /\ UNCHANGED <<jni, depth, raw>>

(* operator=(nullptr) *)
AssignNull(s) ==
  /\ depth > 0 /\ s \in alive
  /\ Free(Deleted(s))
  /\ object' = [object EXCEPT ![s] = Null]
  /\ UNCHANGED <<jni, depth, raw, alive, born>>

(* operator=(const jhandle &): deletes and empties d before it looks at s, *)
(* which is empty by then when the two are the same variable.              *)
CopyAssign(d, s) ==
  /\ depth > 0 /\ {d, s} \subseteq alive
  /\ d # s => Allowed(d, KindOf(object[s]), depth)
  /\ LET o == IF s = d THEN NoObject ELSE Copied(s)
     IN  \E h \in Fresh(Deleted(d), o) :
           /\ Update(Deleted(d), h, KindOf(object[s]), o, depth)
           /\ object' = [object EXCEPT ![d] = h]
  /\ UNCHANGED <<jni, depth, raw, alive, born>>

(* operator=(jhandle &&): deletes what d holds, then object =              *)
(* other.release(); a handle moved to itself gets back what it deleted.    *)
MoveAssign(d, s) ==
  /\ depth > 0 /\ {d, s} \subseteq alive
  /\ d = s => "selfmove" \in Liberties
  /\ Allowed(d, KindOf(object[s]), FrameOf(object[s]))
  /\ Free(Deleted(d))
  /\ object' = IF d = s THEN object
               ELSE [object EXCEPT ![d] = object[s], ![s] = Null]
  /\ UNCHANGED <<jni, depth, raw, alive, born>>

(* release(): the client has a raw handle again. *)
Release(s) ==
  /\ depth > 0 /\ s \in alive
  /\ raw' = raw \cup ({object[s]} \cap Handles)
  /\ object' = [object EXCEPT ![s] = Null]
  /\ UNCHANGED <<jni, depth, table, alive, born>>

(* globalize(): null when no global reference is left; the local one goes  *)
(* all the same.                                                           *)
Globalize(s) ==
  /\ depth > 0 /\ s \in alive
  /\ KindOf(object[s]) = "local"
  /\ \E h \in Fresh({}, Referent(object[s])) :
       /\ Update({object[s]}, h, "global", Referent(object[s]), 0)
       /\ object' = [object EXCEPT ![s] = h]
  /\ UNCHANGED <<jni, depth, raw, alive, born>>

(* localize() *)
Localize(s) ==
  /\ depth > 0 /\ s \in alive
  /\ KindOf(object[s]) = "global"
  /\ Allowed(s, "local", depth)
  /\ \E h \in Fresh({}, Referent(object[s])) :
       /\ Update({object[s]}, h, "local", Referent(object[s]), depth)
       /\ object' = [object EXCEPT ![s] = h]
  /\ UNCHANGED <<jni, depth, raw, alive, born>>

(* ~jhandle, which returns early without an environment; what has static   *)
(* storage is destroyed when no native method is running any more.         *)
Destroy(s) ==
  /\ s \in alive
  /\ alive' = alive \ {s}
  /\ IF jni THEN /\ Free(Deleted(s))
                 /\ object' = [object EXCEPT ![s] = Null]
            ELSE UNCHANGED <<table, object>>
  /\ UNCHANGED <<jni, depth, raw, born>>

(* The collector takes o: weak references to it answer null from now on. *)
Collect(o) ==
  /\ \E h \in Handles : target[h] = o
  /\ \A h \in Handles : target[h] = o => kind[h] = "weak"
  /\ target' = [h \in Handles |-> IF target[h] = o THEN NoObject ELSE target[h]]
  /\ UNCHANGED <<jni, depth, kind, frame, raw, alive, born, object>>

Next ==
  \/ EnterNative \/ PushFrame \/ PopFrame
  \/ \E k \in RawKinds, o \in Objects : JniResult(k, o)
  \/ \E s \in Slots, h \in Handles : StealRaw(s, h)
  \/ \E d, s \in Slots : \/ CopyConstruct(d, s) \/ MoveConstruct(d, s)
                         \/ CopyAssign(d, s) \/ MoveAssign(d, s)
                         \/ PopFrameKeeping(d, s)
  \/ \E s \in Slots : \/ ConstructNull(s) \/ AssignNull(s) \/ Release(s)
                      \/ Globalize(s) \/ Localize(s) \/ Destroy(s)
  \/ \E o \in Objects : Collect(o)

Spec == Init /\ [][Next]_vars

-----------------------------------------------------------------------------
Owns(s, h) == s \in alive /\ object[s] = h
Owned(h) == h \in raw \/ \E s \in Slots : Owns(s, h)

(* No handle has two owners: neither two jhandles, nor a jhandle and a raw *)
(* variable.  Two owners would mean two deletes.                           *)
OneOwner ==
  \A h \in Handles : /\ \A s, t \in Slots : Owns(s, h) /\ Owns(t, h) => s = t
                     /\ h \in raw => \A s \in Slots : ~Owns(s, h)

(* No live jhandle holds a freed handle: not after copies, moves and       *)
(* conversions, and not after the frames in which they happened are gone.  *)
(* As the destructor asks the JVM for the kind, it would delete whatever   *)
(* the handle stands for by then.                                          *)
NoDangling == \A s \in alive : object[s] # Null => kind[object[s]] # "invalid"

(* RAII: no operation forgets a local or a global reference.  (A weak one   *)
(* is forgotten: the destructor and the assignments have no case for it.)   *)
StrongOwned ==
  \A h \in Handles : kind[h] \in {"local", "global"} => Owned(h)

(* The abstract promise: jhandles behave like variables that name an       *)
(* object, whatever goes on in the reference table and on the frame stack. *)
Named(s) == IF s \in alive THEN Referent(object[s]) ELSE NoObject
StrongSlots == {s \in Slots : /\ Named(s) # NoObject
                              /\ KindOf(object[s]) \in {"local", "global"}}

Promise == INSTANCE Raii WITH val <- [s \in Slots |-> Named(s)],
                              strong <- StrongSlots
Refinement == Promise!Spec
=============================================================================
