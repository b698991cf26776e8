------------------------------- MODULE Calls -------------------------------
(***************************************************************************)
(* How the wrappers reach a Java member: they look its ID up by name and   *)
(* signature, and apply to it the function of JNIEnv for its type.  The    *)
(* three libraries of the repository differ in what they do about a Java   *)
(* exception between these steps: jnixx.h does nothing, except in          *)
(* constructors, which describe exceptions after every step; jnixx.cpp     *)
(* describes after lookups and clears one where it tries again; no-jni.hpp *)
(* does nothing, and skips a call whose method it did not find.            *)
(* ExceptionDescribe and ExceptionClear both leave no exception pending.   *)
(*                                                                         *)
(* One thread makes one request after the other, of any class.  A lookup   *)
(* may fail because there is no such member, or because the initializer of *)
(* the class or the VM throws.  What JNI functions do while an exception   *)
(* is pending is not defined: here a lookup finds the member or does not.  *)
(***************************************************************************)
EXTENDS Invokers

CONSTANT None   \* no member, no request, no function

VARIABLES
  lib,      \* the library the client is compiled with
  stale,    \* no-jni.hpp: a table has members that its getter cannot find
  pending,  \* the pending exception: none, of a missing member, or thrown
  request,  \* what the client asks for
  step,     \* where the wrapper is
  id,       \* the ID looked up last
  passed,   \* how the receiver is passed: as jobject, jclass or jarray
  threw,    \* an exception was thrown by Java since the request
  applied   \* the last function of JNIEnv, as it was applied to a member

vars == <<lib, stale, pending, request, step, id, passed, threw, applied>>

Libs == {"jnixx.h", "jnixx.cpp", "no-jni"}
Exceptions == {"none", "miss", "thrown"}

(* Members, by what they are of: static members and instance members of the  *)
(* class, its constructors, and the class itself, which is looked up too;     *)
(* instance members of java.lang.Class can be called on a class.              *)
Members == {"static", "instance", "of Class", "constructor", "class"}

(* Requests: a member of a type on an object, on a class, or a constructor   *)
(* of a class given by name; an element of an array, or a new array.          *)
Asked ==
  {"call"} \X {"object", "class"} \X Types
    \cup {"get", "set"} \X {"object", "class"} \X (Types \ {"void"})
    \cup {"new"} \X {"name", "class"} \X {"void"}
    \cup {"load", "store", "create"} \X {"array"} \X (Types \ {"void"})

Requests ==
  [kind : {"call", "get", "set", "new", "load", "store", "create"},
   on : {"object", "class", "name", "array"},
   type : Types,
   there : SUBSET Members,  \* which of the members so named there are
   clean : BOOLEAN]         \* no exception was pending when it was made

Steps ==
  {"idle", "begin", "again", "constructor", "apply", "done", "undefined"}

Functions ==
  [does : {"call", "get", "set", "new", "load", "store", "create"},
   on : {"object", "class", "array"}, type : Types]

Applied ==
  [fn : Functions, id : Members \cup {None}, clear : BOOLEAN, threw : BOOLEAN]

ASSUME NoneNotUsed == None \notin Requests \cup Members \cup Applied

TypeOK ==
  /\ lib \in Libs
  /\ stale \in BOOLEAN
  /\ pending \in Exceptions
  /\ request \in Requests \cup {None}
  /\ step \in Steps
  /\ id \in Members \cup {None}
  /\ passed \in {"object", "class", "array"}
  /\ threw \in BOOLEAN
  /\ applied \in Applied \cup {None}

Init ==
  /\ lib \in Libs
  /\ stale \in BOOLEAN /\ (stale => lib = "no-jni")
  /\ pending = "none"
  /\ request = None
  /\ step = "idle"
  /\ id = None
  /\ passed = "object"
  /\ threw = FALSE
  /\ applied = None

-----------------------------------------------------------------------------
(* The client *)

(* The client asks for something, of a class that has it or has not.         *)
(* jnixx.cpp has no constructor that is given a class, and no-jni.hpp knows   *)
(* classes by type only.                                                     *)
Request ==
  /\ step = "idle"
  /\ \E a \in Asked, there \in SUBSET Members :
       /\ a[1] = "new" /\ lib # "jnixx.h" => a[2] = "name"
       /\ request' = [kind |-> a[1], on |-> a[2], type |-> a[3],
                      there |-> there, clean |-> pending = "none"]
  /\ step' = "begin"
  /\ UNCHANGED <<lib, stale, pending, id, passed, threw, applied>>

(* The client has seen how the request ended, and is done with the pending   *)
(* exception or leaves it.                                                   *)
GoOn ==
  /\ step = "done"
  /\ pending' \in {pending, "none"}
  /\ request' = None /\ step' = "idle" /\ id' = None /\ passed' = "object"
  /\ threw' = FALSE /\ applied' = None
  /\ UNCHANGED <<lib, stale>>

-----------------------------------------------------------------------------
(* JNI *)

(* What GetMethodID, FindClass and the like may give for member m, and       *)
(* leave pending.                                                             *)
Outcomes(m) ==
  {o \in [id : {m, None}, pending : Exceptions] :
     \/ o.id = m /\ m \in request.there /\ o.pending = pending
     \/ o.id = None /\ o.pending = "thrown"
     \/ o.id = None /\ o.pending = "miss" /\ m \notin request.there
     \/ o.id = None /\ o.pending = pending /\ pending # "none"}

(* A member is looked up, to be passed as p.  The wrapper clears what is      *)
(* pending after a hit, or a miss, if that is in cleared; and goes on at the  *)
(* step hit or miss.                                                          *)
LookUp(outcomes, cleared, p, hit, miss) ==
  /\ \E o \in outcomes :
       LET found == IF o.id = None THEN "miss" ELSE "hit"
       IN  /\ id' = o.id
           /\ pending' = IF found \in cleared THEN "none" ELSE o.pending
           /\ threw' = (threw \/ o.pending = "thrown")
           /\ step' = IF found = "hit" THEN hit ELSE miss
  /\ passed' = p
  /\ UNCHANGED <<lib, stale, request, applied>>

(* A function of JNIEnv is applied: the Java code of methods and             *)
(* constructors may throw, and access to elements may.                        *)
Apply(fn, described) ==
  \E t \in BOOLEAN :
    /\ fn.does \in {"get", "set"} => ~t
    /\ applied' = [fn |-> fn, id |-> id, clear |-> pending = "none",
                   threw |-> threw]
    /\ threw' = (threw \/ t)
    /\ pending' = IF described THEN "none"
                  ELSE IF t THEN "thrown" ELSE pending
    /\ UNCHANGED <<lib, stale, request, id>>

(* Without a member, what happens is not defined and nothing is promised.    *)
ApplyToMember(fn, described) ==
  /\ step = "apply"
  /\ Apply(fn, described)
  /\ step' = IF id = None THEN "undefined" ELSE "done"
  /\ UNCHANGED passed

Asks(kinds, on) ==
  step = "begin" /\ request.kind \in kinds /\ request.on = on

Never == {}
Always == {"hit", "miss"}

-----------------------------------------------------------------------------
(* jnixx.h *)

(* method_impl of a handle to an object *)
PlainMethod ==
  /\ lib = "jnixx.h" /\ Asks({"call"}, "object")
  /\ LookUp(Outcomes("instance"), Never, "object", "apply", "apply")

(* method_impl of a handle to a class: a static method, or else ...          *)
ClassMethod ==
  /\ lib = "jnixx.h" /\ Asks({"call"}, "class")
  /\ LookUp(Outcomes("static"), Never, "class", "apply", "again")

(* ... a method of java.lang.Class, while the NoSuchMethodError is pending.  *)
MethodOfClass ==
  /\ lib = "jnixx.h" /\ step = "again"
  /\ LookUp(Outcomes("of Class"), Never, "object", "apply", "apply")

(* field_impl of a handle to an object, and to a class *)
PlainField ==
  /\ lib = "jnixx.h" /\ Asks({"get", "set"}, "object")
  /\ LookUp(Outcomes("instance"), Never, "object", "apply", "apply")

ClassField ==
  /\ lib = "jnixx.h" /\ Asks({"get", "set"}, "class")
  /\ LookUp(Outcomes("static"), Never, "class", "apply", "apply")

(* jhandle(name, args...) finds its class first; what GetMethodID does with  *)
(* a null class is not defined.                                               *)
NewNamed ==
  /\ lib = "jnixx.h" /\ Asks({"new"}, "name")
  /\ LookUp(Outcomes("class"), Always, "class", "constructor", "undefined")

(* jhandle(klass, args...) describes what was pending before.                *)
NewOfClass ==
  /\ lib = "jnixx.h" /\ Asks({"new"}, "class")
  /\ pending' = "none" /\ step' = "constructor"
  /\ UNCHANGED <<lib, stale, request, id, passed, threw, applied>>

(* Both go on with <init>. *)
Constructor ==
  /\ lib # "no-jni" /\ step = "constructor"
  /\ LookUp(Outcomes("constructor"), Always, "class", "apply", "apply")

(* The ID is applied by the overload for what is passed. *)
CallMethod ==
  /\ lib # "no-jni" /\ step = "apply" /\ request.kind = "call"
  /\ ApplyToMember(invoker(request.type).call[passed], FALSE)

(* field_proxy: cast and operator= *)
field_proxy ==
  /\ lib # "no-jni" /\ step = "apply" /\ request.kind \in {"get", "set"}
  /\ ApplyToMember(invoker(request.type)[request.kind][passed], FALSE)

NewObject ==
  /\ lib # "no-jni" /\ step = "apply" /\ request.kind = "new"
  /\ ApplyToMember(Fn("new", "class", "void"), TRUE)

(* element_proxy, jhandle(len) and jhandle(len, initial): no ID is needed.   *)
UseArray ==
  /\ lib # "no-jni" /\ Asks({"load", "store", "create"}, "array")
  /\ Apply(invoker(request.type)[request.kind], FALSE)
  /\ step' = "done" /\ passed' = "array"

-----------------------------------------------------------------------------
(* jnixx.cpp *)

OldPlainMethod ==
  /\ lib = "jnixx.cpp" /\ Asks({"call"}, "object")
  /\ LookUp(Outcomes("instance"), Always, "object", "apply", "apply")

(* The exception of the first lookup is cleared before the second.           *)
OldClassMethod ==
  /\ lib = "jnixx.cpp" /\ Asks({"call"}, "class")
  /\ LookUp(Outcomes("static"), {"miss"}, "class", "apply", "again")

(* A slip: the second lookup is made for a static method again.              *)
OldMethodOfClassStatic ==
  /\ lib = "jnixx.cpp" /\ step = "again"
  /\ LookUp(Outcomes("static"), Always, "object", "apply", "apply")

OldMethodOfClass ==
  /\ lib = "jnixx.cpp" /\ step = "again"
  /\ LookUp(Outcomes("of Class"), Always, "object", "apply", "apply")

OldPlainField ==
  /\ lib = "jnixx.cpp" /\ Asks({"get", "set"}, "object")
  /\ LookUp(Outcomes("instance"), Always, "object", "apply", "apply")

OldClassField ==
  /\ lib = "jnixx.cpp" /\ Asks({"get", "set"}, "class")
  /\ LookUp(Outcomes("static"), Always, "class", "apply", "apply")

OldNewNamed ==
  /\ lib = "jnixx.cpp" /\ Asks({"new"}, "name")
  /\ LookUp(Outcomes("class"), Always, "class", "constructor", "undefined")

-----------------------------------------------------------------------------
(* no-jni.hpp *)

(* A slip: every table has something that its getter does not find. *)
MemberOutcomesStale(m) ==
  Outcomes(m) \cup {o \in [id : {m}, pending : {"miss"}] : m \in request.there}

(* get_member looks up all members of the table with one getter.  Where the  *)
(* table has both static members and others, or one that the class lacks, an  *)
(* exception is pending during the lookups that follow.                       *)
MemberOutcomes(m) ==
  Outcomes(m) \cup
    {o \in [id : {m, None}, pending : {"miss"}] :
       stale /\ (o.id = m => m \in request.there)}

(* A slip: a failed lookup is tidied up. *)
call_Tidy ==
  /\ lib = "no-jni"
  /\ Asks({"call"}, "object")
  /\ LookUp(MemberOutcomes("instance"), {"miss"}, "object", "apply", "done")

(* call and scall: call_ gives {} when there is no ID. *)
call_ ==
  /\ lib = "no-jni"
  /\ \/ /\ Asks({"call"}, "object")
        /\ LookUp(MemberOutcomes("instance"), Never, "object", "apply", "done")
     \/ /\ Asks({"call"}, "class")
        /\ LookUp(MemberOutcomes("static"), Never, "class", "apply", "done")

(* at and sat make a Field of the ID, null or not. *)
at_ ==
  /\ lib = "no-jni"
  /\ \/ /\ Asks({"get", "set"}, "object")
        /\ LookUp(MemberOutcomes("instance"), Never, "object", "apply", "apply")
     \/ /\ Asks({"get", "set"}, "class")
        /\ LookUp(MemberOutcomes("static"), Never, "class", "apply", "apply")

(* jObject(args...) looks <init> up in its class. *)
jObject ==
  /\ lib = "no-jni" /\ Asks({"new"}, "name")
  /\ LookUp(MemberOutcomes("constructor"), Never, "class", "apply", "apply")

(* A slip: a static method is called like the others. *)
InvokeNotStatic ==
  /\ lib = "no-jni" /\ step = "apply" /\ request.kind = "call"
  /\ ApplyToMember(caller(request.type), FALSE)

(* The function is chosen by the type, and by call or scall. *)
Invoke ==
  /\ lib = "no-jni" /\ step = "apply" /\ request.kind = "call"
  /\ ApplyToMember(IF request.on = "class" THEN static_caller(request.type)
                                           ELSE caller(request.type), FALSE)

(* Field: operator* and operator= *)
Field ==
  /\ lib = "no-jni" /\ step = "apply" /\ request.kind \in {"get", "set"}
  /\ LET static == request.on = "class"
         fn == IF request.kind = "get" THEN getter(static, request.type)
                                       ELSE setter(static, request.type)
     IN  ApplyToMember(fn, FALSE)

(* A slip: what the constructor throws is described and lost. *)
MakeDescribed ==
  /\ lib = "no-jni" /\ step = "apply" /\ request.kind = "new"
  /\ ApplyToMember(Fn("new", "class", "void"), TRUE)

(* jObject(args...) makes the object, and leaves pending what its            *)
(* constructor throws.                                                        *)
Make ==
  /\ lib = "no-jni" /\ step = "apply" /\ request.kind = "new"
  /\ ApplyToMember(Fn("new", "class", "void"), FALSE)

(* Element and jObject<E *>(length) *)
Element ==
  /\ lib = "no-jni" /\ Asks({"load", "store", "create"}, "array")
  /\ Apply(CASE request.kind = "load" -> array_getter(request.type)
             [] request.kind = "store" -> array_setter(request.type)
             [] request.kind = "create" -> alloc(request.type), FALSE)
  /\ step' = "done" /\ passed' = "array"

Next ==
  \/ Request \/ GoOn
  \/ PlainMethod \/ ClassMethod \/ MethodOfClass \/ PlainField \/ ClassField
  \/ NewNamed \/ NewOfClass \/ Constructor
  \/ CallMethod \/ field_proxy \/ NewObject \/ UseArray
  \/ OldPlainMethod \/ OldClassMethod \/ OldMethodOfClass
  \/ OldPlainField \/ OldClassField \/ OldNewNamed
  \/ call_ \/ at_ \/ jObject \/ Invoke \/ Field \/ Make \/ Element

Spec == Init /\ [][Next]_vars

-----------------------------------------------------------------------------
(* A function of JNIEnv is applied only to members of its own type, a static *)
(* one only to static members or constructors of a class that was passed as  *)
(* such, and the others only to an object.                                   *)
FunctionFits ==
  applied # None =>
    /\ applied.fn.does = request.kind
    /\ applied.fn.type = request.type
    /\ applied.id \in {"static", "constructor"} => applied.fn.on = "class"
    /\ applied.id \in {"instance", "of Class"} => applied.fn.on = "object"

(* Every request ends at a function of JNIEnv that fits it. *)
WellApplied == TypeOK /\ FunctionFits

(* The member that the expression would mean in Java, if there is one.  On a *)
(* class the handles of jnixx offer its static methods and, failing that,     *)
(* the methods of java.lang.Class.                                           *)
OnClass == lib # "no-jni" /\ request.kind = "call" /\ request.on = "class"

JavaMeans(m) ==
  /\ m \in request.there
  /\ \/ request.kind = "new" /\ m = "constructor"
     \/ request.kind # "new" /\ request.on = "object" /\ m = "instance"
     \/ request.kind # "new" /\ request.on = "class" /\ m = "static"
     \/ OnClass /\ "static" \notin request.there /\ m = "of Class"

(* When nothing was pending at the request, nothing was thrown during the    *)
(* lookups and no table is stale, the member that is used is the one that     *)
(* Java means, and no ID is null unless there is none.  Only the second       *)
(* lookup of jnixx.h may miss what is there, because of the first one's error. *)
ChosenAsJava ==
  applied # None /\ request.on # "array" /\ request.clean
    /\ ~applied.threw /\ ~stale =>
      \/ JavaMeans(applied.id)
      \/ /\ applied.id = None
         /\ \A m \in request.there :
              JavaMeans(m) => lib = "jnixx.h" /\ m = "of Class"

(* Under the same conditions, Java code never runs with an exception pending *)
(* that it does not know of: but methods of java.lang.Class in jnixx.h do.   *)
AppliedClear ==
  applied # None /\ applied.id # None /\ request.clean /\ ~stale =>
    applied.clear \/ (lib = "jnixx.h" /\ applied.id = "of Class")

(* Where jnixx drops what Java has thrown: in constructors, and in jnixx.cpp *)
(* when the initializer of a class throws at the lookup of a static method.  *)
Dropped ==
  \/ lib # "no-jni" /\ request.kind = "new"
  \/ lib = "jnixx.cpp" /\ OnClass

(* The client can tell from the pending exception how a request ended: what  *)
(* Java threw is pending unless it is dropped as above; nothing else is      *)
(* pending, but for a missing member that was skipped, or the error that     *)
(* jnixx.h leaves behind on its way to java.lang.Class.                      *)
ExceptionTold ==
  step = "done" /\ request.clean /\ ~stale =>
    /\ threw /\ ~Dropped => pending = "thrown"
    /\ pending = "thrown" => threw
    /\ pending = "miss" => \/ lib = "no-jni" /\ id = None
                           \/ lib = "jnixx.h" /\ id = "of Class"

(* A call that no-jni.hpp skips is not silent, whatever was before: an        *)
(* exception is pending.                                                     *)
SkipIsTold ==
  step = "done" /\ lib = "no-jni" /\ applied = None => pending # "none"

=============================================================================
