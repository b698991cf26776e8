----------------------------- MODULE OldHandle -----------------------------
(***************************************************************************)
(* class jhandle<T> of jnixx.cpp, which jnixx.h replaced.  Its copy and    *)
(* move members are all templates, and a template is never the copy        *)
(* constructor nor the copy assignment: an lvalue is copied member by      *)
(* member.  The templates only ever see rvalues.  The reference table, the *)
(* raw handles and the operations both classes have are those of Jhandle.  *)
(***************************************************************************)
EXTENDS Jhandle

(* The implicit jhandle(const jhandle &): the copy holds the very handle.  *)
CopyImplicit(d, s) ==
  /\ depth > 0 /\ d \notin alive /\ s \in alive
  /\ object' = [object EXCEPT ![d] = object[s]]
  /\ born' = [born EXCEPT ![d] = depth]
  /\ alive' = alive \cup {d}
  /\ UNCHANGED <<jni, depth, table, raw>>

(* The implicit operator=(const jhandle &): nothing is deleted before. *)
CopyAssignImplicit(d, s) ==
  /\ depth > 0 /\ {d, s} \subseteq alive
  /\ object' = [object EXCEPT ![d] = object[s]]
  /\ UNCHANGED <<jni, depth, table, raw, alive, born>>

(* operator=(H &&): object = other.release(), and what object held is      *)
(* still referred to by the JVM.                                           *)
MoveAssignOver(d, s) ==
  /\ depth > 0 /\ {d, s} \subseteq alive
  /\ object' = [[object EXCEPT ![s] = Null] EXCEPT ![d] = object[s]]
  /\ UNCHANGED <<jni, depth, table, raw, alive, born>>

(* ~jhandle without the early return of jnixx.h: ::jni must be set. *)
DestroyInNative(s) == depth > 0 /\ Destroy(s)

OldNext ==
  \/ EnterNative \/ PopFrame
  \/ \E k \in RawKinds, o \in Objects : JniResult(k, o)
  \/ \E s \in Slots, h \in Handles : StealRaw(s, h)
  \/ \E d, s \in Slots : \/ CopyImplicit(d, s) \/ CopyAssignImplicit(d, s)
                         \/ MoveConstruct(d, s) \/ MoveAssignOver(d, s)
  \/ \E s \in Slots : \/ depth > 0 /\ ConstructNull(s)
                      \/ Release(s) \/ Globalize(s) \/ Localize(s)
                      \/ DestroyInNative(s)

OldSpec == Init /\ [][OldNext]_vars

(* "Wraps the JNI C API into C++ RAII managed objects" (src/README.md:3):  *)
(* no live jhandle holds a handle that was deleted.  A copy that goes out  *)
(* of scope deletes the reference of the one it was copied from: so do the *)
(* loop variables of the test that copies to_vector()'s elements, and what *)
(* a growing vector does with them.                                        *)
RaiiManaged == NoDangling
=============================================================================
