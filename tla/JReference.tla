----------------------------- MODULE JReference -----------------------------
(***************************************************************************)
(* class jReference of no-jni.hpp: the owner of one JNI reference, on      *)
(* which every wrapper of the library is built.  A jReference keeps the    *)
(* raw handle (obj) and a tag (type) that its destructor switches on to    *)
(* choose the Delete function.  The table of JNI references is the JVM's   *)
(* and external; it is modelled from how the class uses it.                *)
(***************************************************************************)
CONSTANTS
  Slots,        \* C++ variables of type jReference
  Handles,      \* JNI reference values the JVM can hand out
  Objects,      \* Java objects
  Null,         \* the null jobject
  NoObject,     \* what a free handle, or a cleared weak one, refers to
  RawKinds,     \* the kinds of raw handles the client gives to steal()
  Conversions   \* the <<kind of source, kind asked for>> pairs on which the
                \* client calls to_local, to_global and to_weak

Kinds == {"invalid", "local", "global", "weak"}   \* jobjectRefType
ValidKinds == Kinds \ {"invalid"}

ASSUME NullNotHandle == Null \notin Handles
ASSUME NoObjectNotObject == NoObject \notin Objects
ASSUME RawKindsAreKinds == RawKinds \subseteq ValidKinds
ASSUME ConversionsAreKinds == Conversions \subseteq ValidKinds \X ValidKinds

VARIABLES
  env,      \* JavaVirtualMachine::env is not null
  kind,     \* kind[h]: what GetObjectRefType(h) answers; "invalid" when free
  target,   \* target[h]: the object h refers to
  raw,      \* raw handles the client holds in plain jobject variables
  alive,    \* the slots whose lifetime has begun and not ended
  type,     \* type[s], obj[s]: the members of jReference s
  obj

table == <<kind, target>>
fields == <<alive, type, obj>>
vars == <<env, kind, target, raw, alive, type, obj>>

TypeOK == /\ env \in BOOLEAN
          /\ kind \in [Handles -> Kinds]
          /\ target \in [Handles -> Objects \cup {NoObject}]
          /\ raw \subseteq Handles
          /\ alive \subseteq Slots
          /\ type \in [Slots -> Kinds]
          /\ obj \in [Slots -> Handles \cup {Null}]

Init == /\ env = TRUE
        /\ kind = [h \in Handles |-> "invalid"]
        /\ target = [h \in Handles |-> NoObject]
        /\ raw = {}
        /\ alive = {}
        /\ type = [s \in Slots |-> "invalid"]
        /\ obj = [s \in Slots |-> Null]

-----------------------------------------------------------------------------
(* The JVM's reference table.                                              *)

KindOf(h) == IF h = Null THEN "invalid" ELSE kind[h]
Referent(h) == IF h = Null THEN NoObject ELSE target[h]

(* The handles New<k>Ref(o) may answer once the handles in freed are gone: *)
(* null for null, for a cleared weak reference and when none is left.      *)
Fresh(freed, o) ==
  LET free == {h \in Handles : kind[h] = "invalid" \/ h \in freed}
  IN  IF o = NoObject \/ free = {} THEN {Null} ELSE free

(* The table after deleting freed and then allocating h for object o. *)
Update(freed, h, k, o) ==
  /\ kind' = [x \in Handles |-> IF x = h THEN k
                                ELSE IF x \in freed THEN "invalid" ELSE kind[x]]
  /\ target' = [x \in Handles |-> IF x = h THEN o
                                  ELSE IF x \in freed THEN NoObject
                                  ELSE target[x]]

(* The handles ~jReference of s deletes, one set per outcome.  The Delete  *)
(* function is chosen by the tag; JNI leaves open what a Delete function   *)
(* does to a handle of another kind, so it may or may not be freed.        *)
Deleted(s) ==
  IF ~env \/ obj[s] = Null \/ type[s] = "invalid" THEN {{}}
  ELSE IF type[s] = kind[obj[s]] THEN {{obj[s]}}
  ELSE {{}, {obj[s]}}

(* ~jReference resets the tag, unless it returns early for a null handle. *)
TypeAfter(s) == IF obj[s] = Null THEN type[s] ELSE "invalid"

-----------------------------------------------------------------------------
(* Slips that are easy to make in this class.  No specification uses them; *)
(* each stands in for the operation it is named after, to see that a       *)
(* property notices.                                                       *)

(* The tag has no initializer. *)
ConstructEmptyUninitialised(s) ==
  /\ env /\ s \notin alive
  /\ type' = [type EXCEPT ![s] = "garbage"]
  /\ obj' = [obj EXCEPT ![s] = Null]
  /\ alive' = alive \cup {s}
  /\ UNCHANGED <<env, table, raw>>

(* The source is not emptied. *)
MoveConstructKeepsSource(d, s) ==
  /\ env /\ d \notin alive /\ s \in alive
  /\ type' = [type EXCEPT ![d] = type[s]]
  /\ obj' = [obj EXCEPT ![d] = obj[s]]
  /\ alive' = alive \cup {d}
  /\ UNCHANGED <<env, table, raw>>

(* The destination is not destroyed first. *)
CopyAssignLeaks(d, s) ==
  /\ env /\ {d, s} \subseteq alive
  /\ \E h \in Fresh({}, Referent(obj[s])) :
       /\ Update({}, h, "global", Referent(obj[s]))
       /\ type' = [type EXCEPT ![d] = IF h = Null THEN "invalid" ELSE "global"]
       /\ obj' = [obj EXCEPT ![d] = h]
  /\ UNCHANGED <<env, raw, alive>>

(* The destructor called by the assignment does not reset the members. *)
MoveAssignNoReset(d, s) ==
  /\ env /\ {d, s} \subseteq alive
  /\ \E freed \in Deleted(d) : Update(freed, Null, "invalid", NoObject)
  /\ type' = [type EXCEPT ![d] = type[s], ![s] = type[d]]
  /\ obj' = [obj EXCEPT ![d] = obj[s], ![s] = obj[d]]
  /\ UNCHANGED <<env, raw, alive>>

-----------------------------------------------------------------------------
(* The client gets a raw handle from the JVM: the result of a JNI call, or *)
(* the parameter of a callback.                                            *)
JniResult(k, o) ==
  /\ env
  /\ \E h \in Fresh({}, o) \ {Null} :
        /\ Update({}, h, k, o)
        /\ raw' = raw \cup {h}
  /\ UNCHANGED <<env, fields>>

(* jReference(jobject) on a local reference the client has no variable for *)
(* afterwards, as in jReference{env()->CallObjectMethod(...)}: takes a     *)
(* global reference of its own and leaves the local one as it is.          *)
Construct(s, l) ==
  /\ env /\ s \notin alive
  /\ l \in raw /\ kind[l] = "local"
  /\ \E h \in Fresh({}, target[l]) :
        /\ Update({}, h, "global", target[l])
        /\ type' = [type EXCEPT ![s] = IF h = Null THEN "invalid" ELSE "global"]
        /\ obj' = [obj EXCEPT ![s] = h]
  /\ raw' = raw \ {l}
  /\ alive' = alive \cup {s}
  /\ UNCHANGED env

(* jReference() and jReference(nullptr). *)
ConstructEmpty(s) ==
  /\ env /\ s \notin alive
  /\ type' = [type EXCEPT ![s] = "invalid"]
  /\ obj' = [obj EXCEPT ![s] = Null]
  /\ alive' = alive \cup {s}
  /\ UNCHANGED <<env, table, raw>>

(* steal: the raw handle itself becomes the slot's, the raw variable null. *)
Steal(s, h) ==
  /\ env /\ s \notin alive
  /\ h \in raw
  /\ type' = [type EXCEPT ![s] = KindOf(h)]
  /\ obj' = [obj EXCEPT ![s] = h]
  /\ raw' = raw \ {h}
  /\ alive' = alive \cup {s}
  /\ UNCHANGED <<env, table>>

(* jReference(const jReference &): a global reference, whatever s holds. *)
CopyConstruct(d, s) ==
  /\ env /\ d \notin alive /\ s \in alive
  /\ \E h \in Fresh({}, Referent(obj[s])) :
        /\ Update({}, h, "global", Referent(obj[s]))
        /\ type' = [type EXCEPT ![d] = IF h = Null THEN "invalid" ELSE "global"]
        /\ obj' = [obj EXCEPT ![d] = h]
  /\ alive' = alive \cup {d}
  /\ UNCHANGED <<env, raw>>

(* jReference(jReference &&) *)
MoveConstruct(d, s) ==
  /\ env /\ d \notin alive /\ s \in alive
  /\ type' = [type EXCEPT ![d] = type[s], ![s] = "invalid"]
  /\ obj' = [obj EXCEPT ![d] = obj[s], ![s] = Null]
  /\ alive' = alive \cup {d}
  /\ UNCHANGED <<env, table, raw>>

(* operator=(const jReference &): destroys d first, then copies s, which   *)
(* is empty by then when the two are the same variable.                    *)
CopyAssign(d, s) ==
  /\ env /\ {d, s} \subseteq alive
  /\ \E freed \in Deleted(d) :
       LET o == IF s = d THEN NoObject ELSE Referent(obj[s])
       IN  \E h \in Fresh(freed, o) :
             /\ Update(freed, h, "global", o)
             /\ type' = [type EXCEPT ![d] = IF h = Null THEN "invalid"
                                                        ELSE "global"]
             /\ obj' = [obj EXCEPT ![d] = h]
  /\ UNCHANGED <<env, raw, alive>>

(* operator=(jReference &&): destroys d, then swaps it with s. *)
MoveAssign(d, s) ==
  /\ env /\ {d, s} \subseteq alive
  /\ \E freed \in Deleted(d) : Update(freed, Null, "invalid", NoObject)
  /\ IF s = d
     THEN /\ type' = [type EXCEPT ![d] = TypeAfter(d)]
          /\ obj' = [obj EXCEPT ![d] = Null]
     ELSE /\ type' = [type EXCEPT ![d] = type[s], ![s] = TypeAfter(d)]
          /\ obj' = [obj EXCEPT ![d] = obj[s], ![s] = Null]
  /\ UNCHANGED <<env, raw, alive>>

(* d = s.to_local(), s.to_global() or s.to_weak(), by k.  The new handle   *)
(* is of kind k; the tag is read from the source handle.                   *)
Convert(d, s, k) ==
  /\ env /\ d \notin alive /\ s \in alive
  /\ obj[s] = Null \/ <<KindOf(obj[s]), k>> \in Conversions
  /\ \E h \in Fresh({}, Referent(obj[s])) :
        /\ Update({}, h, k, Referent(obj[s]))
        /\ type' = [type EXCEPT ![d] = KindOf(obj[s])]
        /\ obj' = [obj EXCEPT ![d] = h]
  /\ alive' = alive \cup {d}
  /\ UNCHANGED <<env, raw>>

(* ~jReference at the end of s's lifetime.  Without an environment it      *)
(* returns early and leaves the members as they are.                       *)
Destroy(s) ==
  /\ s \in alive
  /\ \E freed \in Deleted(s) : Update(freed, Null, "invalid", NoObject)
  /\ alive' = alive \ {s}
  /\ IF env THEN /\ type' = [type EXCEPT ![s] = TypeAfter(s)]
                 /\ obj' = [obj EXCEPT ![s] = Null]
            ELSE UNCHANGED <<type, obj>>
  /\ UNCHANGED <<env, raw>>

-----------------------------------------------------------------------------
Locals == {h \in Handles : kind[h] = "local"}

(* A callback returns to the JVM, which frees the locals of its frame.     *)
(* Stolen locals live in automatic variables: none is alive by then.       *)
FrameReturn ==
  /\ env
  /\ \A s \in alive : obj[s] \notin Locals
  /\ Update(Locals, Null, "invalid", NoObject)
  /\ raw' = raw \ Locals
  /\ UNCHANGED <<env, fields>>

(* The collector takes o: weak references to it answer null from now on. *)
Collect(o) ==
  /\ env
  /\ \E h \in Handles : target[h] = o
  /\ \A h \in Handles : target[h] = o => kind[h] = "weak"
  /\ target' = [h \in Handles |-> IF target[h] = o THEN NoObject ELSE target[h]]
  /\ UNCHANGED <<env, kind, raw, fields>>

(* ~JavaVirtualMachine: DestroyJavaVM, then env = nullptr.  What is left   *)
(* alive then has static storage, and only runs its destructor.            *)
DestroyVm ==
  /\ env
  /\ env' = FALSE
  /\ Update(Handles, Null, "invalid", NoObject)
  /\ raw' = {}
  /\ UNCHANGED fields

Next ==
  \/ \E k \in RawKinds, o \in Objects : JniResult(k, o)
  \/ \E s \in Slots, h \in Handles : Construct(s, h) \/ Steal(s, h)
  \/ \E s \in Slots : ConstructEmpty(s) \/ Destroy(s)
  \/ \E d, s \in Slots : \/ CopyConstruct(d, s) \/ MoveConstruct(d, s)
                         \/ CopyAssign(d, s) \/ MoveAssign(d, s)
  \/ \E d, s \in Slots, k \in ValidKinds : Convert(d, s, k)
  \/ FrameReturn
  \/ \E o \in Objects : Collect(o)
  \/ DestroyVm

Spec == Init /\ [][Next]_vars

-----------------------------------------------------------------------------
Owns(s, h) == s \in alive /\ obj[s] = h

(* No handle has two owners: neither two jReferences, nor a jReference and *)
(* a raw variable.  Two owners would mean two deletes.                     *)
OneOwner ==
  \A h \in Handles : /\ \A s, t \in Slots : Owns(s, h) /\ Owns(t, h) => s = t
                     /\ h \in raw => \A s \in Slots : ~Owns(s, h)

(* While there is an environment no live jReference holds a freed handle,  *)
(* whatever the order of copies, moves, conversions and destructions: its  *)
(* destructor never deletes what another jReference has allocated since.   *)
NoDangling ==
  env => \A s \in alive : obj[s] # Null => kind[obj[s]] # "invalid"

(* The tag the destructor switches on is the kind of the handle it deletes,*)
(* also for handles of jReferences that were moved, swapped and reassigned.*)
HonestType ==
  env => \A s \in alive : obj[s] # Null => type[s] = kind[obj[s]]

(* RAII: every global or weak reference has an owner that will delete it.  *)
(* (The local reference that is given to a constructor gets none.)          *)
GlobalsOwned ==
  \A h \in Handles : kind[h] \in {"global", "weak"} =>
                        h \in raw \/ \E s \in Slots : Owns(s, h)

(* The abstract promise: jReferences behave like variables that name an    *)
(* object, whatever goes on in the reference table below them.             *)
Named(s) == IF env /\ s \in alive THEN Referent(obj[s]) ELSE NoObject
StrongSlots ==
  {s \in Slots : Named(s) # NoObject /\ KindOf(obj[s]) \in {"local", "global"}}

Promise == INSTANCE Raii WITH val <- [s \in Slots |-> Named(s)],
                              strong <- StrongSlots
Refinement == Promise!Spec
=============================================================================
