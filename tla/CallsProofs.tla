----------------------------- MODULE CallsProofs -----------------------------
(***************************************************************************)
(* Proofs about Calls: whatever is asked for, and of whatever class, a     *)
(* function of JNIEnv fits the member that it is applied to, the member is *)
(* the one that Java means, and the pending exception tells how it ended.  *)
(*                                                                         *)
(* The properties speak of the last application; the steps before it have  *)
(* to carry what they rest on: the ID that was found, how the receiver is  *)
(* to be passed, and what the lookups have left pending.                   *)
(***************************************************************************)
EXTENDS Calls, TLAPS

(* What the wrappers know of a request between its steps: nothing was       *)
(* applied before the last of them, and it has a member's kind.              *)
MemberKinds == {"call", "get", "set", "new"}

Sensible ==
  /\ request.kind \in {"call", "get", "set"} => request.on \in {"object", "class"}
  /\ request.kind = "new" => request.on \in {"name", "class"}
  /\ request.kind = "new" => request.type = "void"
  /\ request.kind \in {"load", "store", "create"} => request.on = "array"
  /\ request.type = "void" => request.kind \in {"call", "new"}

Placed ==
  /\ step = "idle" <=> request = None
  /\ request # None => Sensible
  /\ step \notin {"done", "undefined"} => applied = None
  /\ step \in {"idle", "begin"} => id = None /\ threw = FALSE
  /\ step = "begin" => (request.clean <=> pending = "none")
  /\ step = "again" => OnClass
  /\ step = "constructor" => lib # "no-jni" /\ request.kind = "new" /\ pending = "none"
  /\ step = "apply" => request.kind \in MemberKinds

(* The ID that was looked up is of a member that there is, of the kind that *)
(* was asked for, and the receiver is passed as that kind needs it.          *)
Fitting ==
  step = "apply" /\ id # None =>
    /\ id \in request.there
    /\ IF request.kind = "new" THEN id = "constructor"
       ELSE IF request.on = "object" THEN id = "instance" /\ passed = "object"
       ELSE \/ id = "static" /\ passed = "class"
            \/ OnClass /\ id = "of Class" /\ passed = "object"

PassedAsAsked ==
  step = "apply" /\ request.kind # "new" => passed \in {"object", "class"}

(* When nothing disturbs the lookups, static methods are given up only when *)
(* there are none, and a null ID means that Java has nothing either.         *)
Undisturbed == request.clean /\ ~threw /\ ~stale

Found ==
  /\ step = "again" /\ Undisturbed => "static" \notin request.there
  /\ step = "apply" /\ Undisturbed =>
       /\ id # None => JavaMeans(id)
       /\ id = None => \A m \in request.there :
                         JavaMeans(m) => lib = "jnixx.h" /\ m = "of Class"

(* What the lookups have left pending. *)
Left ==
  /\ step \in {"again", "apply"} /\ request.clean /\ ~stale =>
       (pending = "thrown" => threw)
  /\ step = "again" /\ request.clean /\ ~stale =>
       /\ lib = "jnixx.cpp" => pending = "none"
       /\ lib = "jnixx.h" /\ threw => pending = "thrown"
  /\ step = "apply" /\ id # None /\ request.clean /\ ~stale =>
       /\ threw /\ ~Dropped => pending = "thrown"
       /\ pending = "none" \/ (lib = "jnixx.h" /\ id = "of Class")

(* The inductive invariant. *)
Carried ==
  /\ TypeOK /\ Placed /\ Fitting /\ PassedAsAsked /\ Found /\ Left
  /\ FunctionFits /\ ChosenAsJava /\ AppliedClear /\ ExceptionTold /\ SkipIsTold

-----------------------------------------------------------------------------
(* The tables of functions have for every type the functions of that type. *)
LEMMA InvokerFits ==
  ASSUME NEW t \in Types
  PROVE  /\ \A on \in {"object", "class"} : invoker(t).call[on] = Fn("call", on, t)
         /\ t # "void" => \A on \in {"object", "class"} :
              /\ invoker(t)["get"][on] = Fn("get", on, t)
              /\ invoker(t)["set"][on] = Fn("set", on, t)
         /\ t # "void" => \A does \in {"load", "store", "create"} :
              invoker(t)[does] = Fn(does, "array", t)
<1>1. t = "void" => invoker(t).call = Overloads("call", t)
  BY DEF invoker, invoke_jni_jvoid
<1>2. t # "void" => invoker(t) = Specialisation(t)
  BY DEF invoker, invoke_jni_jobject, invoke_jni_jboolean, invoke_jni_jbyte,
     invoke_jni_jchar, invoke_jni_jshort, invoke_jni_jint, invoke_jni_jlong,
     invoke_jni_jfloat, invoke_jni_jdouble, Types, Primitives
<1> QED
  BY <1>1, <1>2 DEF Specialisation, Overloads

LEMMA TablesFit ==
  ASSUME NEW t \in Types, NEW static \in BOOLEAN
  PROVE  /\ caller(t) = Fn("call", "object", t)
         /\ static_caller(t) = Fn("call", "class", t)
         /\ t # "void" =>
              /\ getter(static, t) = Fn("get", IF static THEN "class" ELSE "object", t)
              /\ setter(static, t) = Fn("set", IF static THEN "class" ELSE "object", t)
              /\ array_getter(t) = Fn("load", "array", t)
              /\ array_setter(t) = Fn("store", "array", t)
              /\ alloc(t) = Fn("create", "array", t)
  BY DEF caller, static_caller, getter, setter, array_getter, array_setter, alloc,
     Named, Types, Primitives

LEMMA InitCarried == Init => Carried
  BY NoneNotUsed DEF Init, Carried, TypeOK, Placed, Fitting, PassedAsAsked, Found,
     Left, FunctionFits, ChosenAsJava, AppliedClear, ExceptionTold, SkipIsTold,
     Libs, Exceptions, Steps

-----------------------------------------------------------------------------
(* What a lookup gives is typed, and what is not found is not there unless  *)
(* something else is wrong.                                                   *)
LEMMA OutcomesTold ==
  ASSUME TypeOK, request # None, NEW m \in Members, NEW o,
         o \in Outcomes(m) \/ (lib = "no-jni" /\ o \in MemberOutcomes(m))
  PROVE  /\ o.id \in {m, None} /\ o.pending \in Exceptions
         /\ o.id = m => m \in request.there
         /\ ~(stale /\ lib = "no-jni") =>
              /\ o.id = m => o.pending = pending
              /\ o.id = None /\ m \in request.there =>
                   o.pending = "thrown" \/ (o.pending = pending /\ pending # "none")
              /\ o.pending \in {"thrown", "miss", pending}
              /\ o.pending = "miss" => pending = "miss" \/ m \notin request.there
         /\ o.id = None => o.pending # "none"
  BY NoneNotUsed DEF Outcomes, MemberOutcomes, Exceptions, TypeOK, Requests, Members

LEMMA RequestCarried == Carried /\ Request => Carried'
<1> SUFFICES ASSUME Carried, Request PROVE Carried'
  OBVIOUS
<1>1. PICK a \in Asked, there \in SUBSET Members :
        request' = [kind |-> a[1], on |-> a[2], type |-> a[3],
                    there |-> there, clean |-> pending = "none"]
  BY DEF Request
<1>2. request' \in Requests
  BY <1>1 DEF Asked, Requests, Types, Primitives
<1>3. Sensible'
  BY <1>1 DEF Asked, Sensible
<1> QED
  BY <1>1, <1>2, <1>3, NoneNotUsed DEF Request, Carried, TypeOK, Placed, Fitting,
     PassedAsAsked, Found, Left, FunctionFits, ChosenAsJava, AppliedClear,
     ExceptionTold, SkipIsTold, Steps

LEMMA GoOnCarried == Carried /\ GoOn => Carried'
  BY NoneNotUsed DEF GoOn, Carried, TypeOK, Placed, Fitting,
     PassedAsAsked, Found, Left, FunctionFits, ChosenAsJava, AppliedClear,
     ExceptionTold, SkipIsTold, Steps, Exceptions

(* A lookup of m has ended: what is known of the next state. *)
Result(m, cleared, p, hit, miss) ==
  /\ UNCHANGED <<lib, stale, request, applied>>
  /\ passed' = p
  /\ id' \in {m, None} /\ m # None
  /\ step' = IF id' = None THEN miss ELSE hit
  /\ pending' \in Exceptions /\ threw' \in BOOLEAN
  /\ id' = m => m \in request.there
  /\ threw => threw'
  /\ (IF id' = None THEN "miss" ELSE "hit") \in cleared => pending' = "none"
  /\ "miss" \notin cleared /\ id' = None => pending' # "none"
  /\ ~stale /\ (pending = "thrown" => threw) =>
       /\ id' = m => threw' = threw /\ pending' = IF "hit" \in cleared THEN "none" ELSE pending
       /\ id' = None /\ m \in request.there =>
            threw' \/ pending # "none"
       /\ pending' = "thrown" => threw'
       /\ threw' /\ "miss" \notin cleared =>
            pending' = "thrown" \/ threw

(* A lookup from a state where the ID was not applied. *)
LEMMA LookedUp ==
  ASSUME TypeOK, request # None, NEW m \in Members,
         NEW outcomes, NEW cleared, NEW p, NEW hit, NEW miss,
         outcomes = Outcomes(m) \/ (lib = "no-jni" /\ outcomes = MemberOutcomes(m)),
         LookUp(outcomes, cleared, p, hit, miss)
  PROVE  Result(m, cleared, p, hit, miss)
<1> USE NoneNotUsed
<1>1. PICK o \in outcomes :
        LET found == IF o.id = None THEN "miss" ELSE "hit"
        IN  /\ id' = o.id
            /\ pending' = IF found \in cleared THEN "none" ELSE o.pending
            /\ threw' = (threw \/ o.pending = "thrown")
            /\ step' = IF found = "hit" THEN hit ELSE miss
  BY DEF LookUp
<1>2. m # None
  BY NoneNotUsed
<1>3. "none" \in Exceptions /\ o.pending \in Exceptions /\ o.id \in {m, None}
  BY <1>1, OutcomesTold DEF Exceptions
<1>4. /\ UNCHANGED <<lib, stale, request, applied>> /\ passed' = p
      /\ id' \in {m, None} /\ pending' \in Exceptions /\ threw' \in BOOLEAN
      /\ step' = IF id' = None THEN miss ELSE hit
  BY <1>1, <1>2, <1>3 DEF LookUp
<1>5. /\ id' = m => m \in request.there
      /\ threw => threw'
      /\ (IF id' = None THEN "miss" ELSE "hit") \in cleared => pending' = "none"
      /\ "miss" \notin cleared /\ id' = None => pending' # "none"
  BY <1>1, <1>2, OutcomesTold
<1>6. ASSUME ~stale, pending = "thrown" => threw
      PROVE  /\ id' = m => threw' = threw /\ pending' = IF "hit" \in cleared THEN "none" ELSE pending
             /\ id' = None /\ m \in request.there => threw' \/ pending # "none"
             /\ pending' = "thrown" => threw'
             /\ threw' /\ "miss" \notin cleared => pending' = "thrown" \/ threw
  BY <1>1, <1>2, <1>6, OutcomesTold DEF TypeOK
<1> QED
  BY <1>2, <1>4, <1>5, <1>6 DEF Result

(* Every lookup carries the invariant: it is the first of a request, or the *)
(* second, or that of a constructor.                                          *)
LEMMA LookUpCarried ==
  ASSUME Carried,
         \/ PlainMethod \/ ClassMethod \/ MethodOfClass \/ PlainField \/ ClassField
         \/ NewNamed \/ Constructor
         \/ OldPlainMethod \/ OldClassMethod \/ OldMethodOfClass
         \/ OldPlainField \/ OldClassField \/ OldNewNamed
         \/ call_ \/ at_ \/ jObject
  PROVE  Carried'
<1> USE DEF Carried, TypeOK, Placed, Fitting, PassedAsAsked, Found, Left, FunctionFits,
        ChosenAsJava, AppliedClear, ExceptionTold, SkipIsTold, Asks, Never,
        Always, Undisturbed, JavaMeans, OnClass, Dropped, MemberKinds, Sensible,
        Steps, Members, Exceptions
<1>1. CASE PlainMethod \/ PlainField
  <2>1. Result("instance", Never, "object", "apply", "apply")
    BY <1>1, LookedUp DEF PlainMethod, PlainField
  <2> QED
    BY <1>1, <2>1, ZenonT(60) DEF Result, PlainMethod, PlainField
<1>2. CASE ClassMethod
  <2>1. Result("static", Never, "class", "apply", "again")
    BY <1>2, LookedUp DEF ClassMethod
  <2> QED
    BY <1>2, <2>1 DEF Result, ClassMethod
<1>3. CASE MethodOfClass
  <2>1. Result("of Class", Never, "object", "apply", "apply")
    BY <1>3, LookedUp DEF MethodOfClass
  <2> QED
    BY <1>3, <2>1 DEF Result, MethodOfClass
<1>4. CASE ClassField
  <2>1. Result("static", Never, "class", "apply", "apply")
    BY <1>4, LookedUp DEF ClassField
  <2> QED
    BY <1>4, <2>1, ZenonT(60) DEF Result, ClassField
<1>5. CASE NewNamed \/ OldNewNamed
  <2>1. Result("class", Always, "class", "constructor", "undefined")
    BY <1>5, LookedUp DEF NewNamed, OldNewNamed
  <2> QED
    BY <1>5, <2>1, ZenonT(60) DEF Result, NewNamed, OldNewNamed
<1>6. CASE Constructor
  <2>1. Result("constructor", Always, "class", "apply", "apply")
    BY <1>6, LookedUp DEF Constructor
  <2> QED
    BY <1>6, <2>1 DEF Result, Constructor
<1>7. CASE OldPlainMethod \/ OldPlainField
  <2>1. Result("instance", Always, "object", "apply", "apply")
    BY <1>7, LookedUp DEF OldPlainMethod, OldPlainField
  <2> QED
    BY <1>7, <2>1, ZenonT(60) DEF Result, OldPlainMethod, OldPlainField
<1>8. CASE OldClassMethod
  <2>1. Result("static", {"miss"}, "class", "apply", "again")
    BY <1>8, LookedUp DEF OldClassMethod
  <2> QED
    BY <1>8, <2>1 DEF Result, OldClassMethod
<1>9. CASE OldMethodOfClass
  <2>1. Result("of Class", Always, "object", "apply", "apply")
    BY <1>9, LookedUp DEF OldMethodOfClass
  <2> QED
    BY <1>9, <2>1 DEF Result, OldMethodOfClass
<1>10. CASE OldClassField
  <2>1. Result("static", Always, "class", "apply", "apply")
    BY <1>10, LookedUp DEF OldClassField
  <2> QED
    BY <1>10, <2>1, ZenonT(60) DEF Result, OldClassField
<1>11. CASE jObject
  <2>1. Result("constructor", Never, "class", "apply", "apply")
    BY <1>11, LookedUp DEF jObject
  <2> QED
    BY <1>11, <2>1 DEF Result, jObject
<1>12. CASE call_
  <2>1. \/ /\ request.on = "object"
           /\ Result("instance", Never, "object", "apply", "done")
        \/ /\ request.on = "class"
           /\ Result("static", Never, "class", "apply", "done")
    BY <1>12, LookedUp DEF call_
  <2> QED
    BY <1>12, <2>1 DEF Result, call_
<1>13. CASE at_
  <2>1. \/ /\ request.on = "object"
           /\ Result("instance", Never, "object", "apply", "apply")
        \/ /\ request.on = "class"
           /\ Result("static", Never, "class", "apply", "apply")
    BY <1>13, LookedUp DEF at_
  <2> QED
    BY <1>13, <2>1 DEF Result, at_
<1> QED
  BY <1>1, <1>2, <1>3, <1>4, <1>5, <1>6, <1>7, <1>8, <1>9, <1>10, <1>11, <1>12, <1>13

(* A function of JNIEnv has been applied to id: what is known of the next   *)
(* state.                                                                      *)
Applying(fn, described) ==
  /\ UNCHANGED <<lib, stale, request, id>>
  /\ applied' \in Applied
  /\ applied' # None
  /\ applied'.fn = fn /\ applied'.id = id
  /\ (applied'.clear <=> pending = "none") /\ (applied'.threw <=> threw)
  /\ pending' \in Exceptions /\ threw' \in BOOLEAN
  /\ threw => threw'
  /\ described => pending' = "none"
  /\ ~described => pending' = pending \/ (pending' = "thrown" /\ threw')
  /\ ~described /\ threw' => threw \/ pending' = "thrown"

LEMMA ApplyingHolds ==
  ASSUME TypeOK, NEW fn \in Functions, NEW described \in BOOLEAN,
         Apply(fn, described)
  PROVE  Applying(fn, described)
<1>1. PICK t \in BOOLEAN :
        /\ applied' = [fn |-> fn, id |-> id, clear |-> pending = "none",
                       threw |-> threw]
        /\ threw' = (threw \/ t)
        /\ pending' = IF described THEN "none"
                      ELSE IF t THEN "thrown" ELSE pending
        /\ UNCHANGED <<lib, stale, request, id>>
  BY DEF Apply
<1>2. applied' \in Applied
  BY <1>1 DEF TypeOK, Applied
<1>3. applied' # None
  BY <1>2, NoneNotUsed
<1> QED
  BY <1>1, <1>2, <1>3 DEF Applying, TypeOK, Exceptions

(* The functions that the wrappers choose, at the step that applies them.   *)
Chosen(fn, described) ==
  /\ ApplyToMember(fn, described)
  /\ fn.does = request.kind /\ fn.type = request.type
  /\ fn.on = IF request.kind = "new" THEN "class"
             ELSE IF lib = "no-jni" THEN request.on ELSE passed
  /\ described <=> lib # "no-jni" /\ request.kind = "new"

LEMMA SomeChosen ==
  ASSUME Carried, step = "apply",
         \/ CallMethod \/ field_proxy \/ NewObject \/ Invoke \/ Field \/ Make
  PROVE  \E fn \in Functions, described \in BOOLEAN : Chosen(fn, described)
<1>1. /\ request \in Requests /\ request.type \in Types
      /\ request.kind \in MemberKinds
      /\ request.kind # "new" => passed \in {"object", "class"}
  BY DEF Carried, Placed, TypeOK, Requests, PassedAsAsked
<1>2. /\ request.kind \in {"call", "get", "set"} =>
           request.on \in {"object", "class"}
      /\ request.kind = "new" => request.type = "void"
      /\ request.type = "void" => request.kind \in {"call", "new"}
  BY <1>1, NoneNotUsed DEF Carried, Placed, Sensible
<1>3. ASSUME NEW does \in MemberKinds, NEW on \in {"object", "class"},
             does = request.kind,
             on = IF request.kind = "new" THEN "class"
                  ELSE IF lib = "no-jni" THEN request.on ELSE passed,
             NEW described \in BOOLEAN,
             described <=> lib # "no-jni" /\ request.kind = "new",
             ApplyToMember(Fn(does, on, request.type), described)
      PROVE  \E fn \in Functions, d \in BOOLEAN : Chosen(fn, d)
  <2>1. Fn(does, on, request.type) \in Functions
    BY <1>1 DEF Fn, Functions, MemberKinds
  <2>2. Chosen(Fn(does, on, request.type), described)
    BY <1>3 DEF Chosen, Fn
  <2> QED
    BY <2>1, <2>2
<1>5. CASE CallMethod
  <2>1. invoker(request.type).call[passed] = Fn("call", passed, request.type)
    BY <1>1, <1>5, InvokerFits DEF CallMethod
  <2>2. ApplyToMember(Fn("call", passed, request.type), FALSE)
    BY <1>5, <2>1 DEF CallMethod
  <2> QED
    BY <1>1, <1>3, <1>5, <2>2 DEF CallMethod, MemberKinds
<1>6. CASE field_proxy
  <2>1. invoker(request.type)[request.kind][passed]
          = Fn(request.kind, passed, request.type)
    BY <1>1, <1>2, <1>6, InvokerFits DEF field_proxy
  <2>2. ApplyToMember(Fn(request.kind, passed, request.type), FALSE)
    BY <1>6, <2>1 DEF field_proxy
  <2> QED
    BY <1>1, <1>3, <1>6, <2>2 DEF field_proxy
<1>7. CASE NewObject \/ Make
  <2>1. ApplyToMember(Fn("new", "class", request.type), lib # "no-jni")
    BY <1>2, <1>7 DEF NewObject, Make
  <2> QED
    BY <1>3, <1>7, <2>1 DEF NewObject, Make, MemberKinds
<1>8. CASE Invoke
  <2>1. ApplyToMember(Fn("call", request.on, request.type), FALSE)
    BY <1>1, <1>2, <1>8, TablesFit DEF Invoke
  <2> QED
    BY <1>2, <1>3, <1>8, <2>1 DEF Invoke, MemberKinds
<1>9. CASE Field
  <2>1. ApplyToMember(Fn(request.kind, request.on, request.type), FALSE)
    BY <1>1, <1>2, <1>9, TablesFit DEF Field
  <2> QED
    BY <1>1, <1>2, <1>3, <1>9, <2>1 DEF Field
<1> QED
  BY <1>5, <1>6, <1>7, <1>8, <1>9

LEMMA ApplyCarried ==
  ASSUME Carried,
         \/ CallMethod \/ field_proxy \/ NewObject \/ Invoke \/ Field \/ Make
  PROVE  Carried'
<1>1. step = "apply"
  BY DEF CallMethod, field_proxy, NewObject, Invoke, Field, Make
<1>2. PICK fn \in Functions, described \in BOOLEAN : Chosen(fn, described)
  BY <1>1, SomeChosen
<1>3. Applying(fn, described)
  BY <1>2, ApplyingHolds DEF Chosen, ApplyToMember, Carried
<1>4. /\ step' = IF id = None THEN "undefined" ELSE "done"
      /\ passed' = passed
  BY <1>2 DEF Chosen, ApplyToMember
<1>5. TypeOK'
  BY <1>3, <1>4 DEF Applying, Carried, TypeOK, Steps
<1>6. FunctionFits'
  BY <1>1, <1>2, <1>3, NoneNotUsed DEF Members, Chosen, Applying, Carried, Placed, Fitting, FunctionFits,
     MemberKinds, Sensible, OnClass
<1>9. ChosenAsJava'
  BY <1>1, <1>2, <1>3 DEF Applying, Carried, Placed, Found, ChosenAsJava, JavaMeans,
     OnClass, Undisturbed
<1>10. AppliedClear'
  BY <1>1, <1>2, <1>3 DEF Applying, Carried, Left, AppliedClear
<1>7. ExceptionTold' /\ SkipIsTold'
  BY <1>1, <1>2, <1>3, <1>4 DEF Chosen, Applying, Carried, TypeOK, Placed, Fitting, Left,
     ExceptionTold, SkipIsTold, Dropped, OnClass
<1>8. (Placed /\ Fitting /\ PassedAsAsked /\ Found /\ Left)'
  BY <1>1, <1>3, <1>4 DEF Applying, Carried, Placed, Fitting, PassedAsAsked, Found, Left,
     Sensible, OnClass
<1> QED
  BY <1>5, <1>6, <1>7, <1>8, <1>9, <1>10 DEF Carried

(* The functions for arrays need no lookup. *)
LEMMA ArrayCarried ==
  ASSUME Carried, UseArray \/ Element
  PROVE  Carried'
<1>1. /\ step = "begin" /\ request \in Requests /\ request.type \in Types
      /\ request.kind \in {"load", "store", "create"} /\ request.on = "array"
  BY NoneNotUsed DEF UseArray, Element, Asks, Carried, TypeOK, Placed, Requests
<1>2. request.type # "void"
  BY <1>1, NoneNotUsed DEF Carried, Placed, Sensible
<1>3. /\ Apply(Fn(request.kind, "array", request.type), FALSE)
      /\ step' = "done" /\ passed' = "array"
  <2>1. CASE UseArray
    BY <1>1, <1>2, <2>1, InvokerFits DEF UseArray
  <2>2. CASE Element
    BY <1>1, <1>2, <2>2, TablesFit DEF Element
  <2> QED
    BY <2>1, <2>2
<1>4. PICK fn \in Functions : /\ Apply(fn, FALSE)
                             /\ fn.does = request.kind /\ fn.type = request.type
                             /\ fn.on = "array"
  <2>1. /\ Fn(request.kind, "array", request.type) \in Functions
        /\ Fn(request.kind, "array", request.type).does = request.kind
        /\ Fn(request.kind, "array", request.type).type = request.type
        /\ Fn(request.kind, "array", request.type).on = "array"
    BY <1>1 DEF Fn, Functions
  <2> QED
    BY <1>3, <2>1
<1>5. Applying(fn, FALSE)
  BY <1>4, ApplyingHolds DEF Carried
<1> QED
  BY <1>1, <1>3, <1>4, <1>5, NoneNotUsed DEF Applying, Carried, TypeOK, Placed, Fitting,
     PassedAsAsked, Found, Left, FunctionFits, ChosenAsJava, AppliedClear,
     ExceptionTold, SkipIsTold, Dropped, Steps, Members, Sensible, OnClass, Exceptions

LEMMA NewOfClassCarried == Carried /\ NewOfClass => Carried'
  BY NoneNotUsed DEF NewOfClass, Asks, Carried, TypeOK, Placed, Fitting, PassedAsAsked,
     Found, Left, FunctionFits, ChosenAsJava, AppliedClear, ExceptionTold, SkipIsTold,
     Sensible, Steps, Exceptions, OnClass

LEMMA NextCarried == Carried /\ [Next]_vars => Carried'
<1>1. ASSUME Carried, UNCHANGED vars PROVE Carried'
  <2>1. (TypeOK /\ Placed /\ Fitting /\ PassedAsAsked /\ Left)'
    <3>1. (TypeOK /\ Placed)'
      BY <1>1 DEF vars, Carried, TypeOK, Placed, Sensible, OnClass
    <3>2. (Fitting /\ PassedAsAsked /\ Left)'
      BY <1>1 DEF vars, Carried, Fitting, PassedAsAsked, Left, OnClass, Dropped
    <3> QED
      BY <3>1, <3>2
  <2>2. (FunctionFits /\ AppliedClear /\ ExceptionTold /\ SkipIsTold)'
    BY <1>1 DEF vars, Carried, FunctionFits, AppliedClear, ExceptionTold, SkipIsTold,
       OnClass, Dropped
  <2>3. \A m : JavaMeans(m)' <=> JavaMeans(m)
    BY <1>1 DEF vars, JavaMeans, OnClass
  <2>4. (Found /\ ChosenAsJava)'
    BY <1>1, <2>3 DEF vars, Carried, Found, ChosenAsJava, Undisturbed
  <2> QED
    BY <2>1, <2>2, <2>4 DEF Carried
<1> QED
  BY <1>1, RequestCarried, GoOnCarried, LookUpCarried, NewOfClassCarried, ApplyCarried,
     ArrayCarried DEF Next

LEMMA CarriedHolds == Spec => []Carried
  BY InitCarried, NextCarried, PTL DEF Spec

-----------------------------------------------------------------------------
(* Whatever is asked for, every request ends at a function of JNIEnv that   *)
(* fits it: for its type, and for what the receiver is passed as.            *)
THEOREM CallsWellApplied == Spec => []WellApplied
<1>1. Carried => WellApplied
  BY DEF Carried, WellApplied
<1> QED
  BY <1>1, CarriedHolds, PTL

(* Undisturbed, the member that is used is the one that Java means, in all   *)
(* three libraries.                                                           *)
THEOREM MembersAsJava == Spec => []ChosenAsJava
<1>1. Carried => ChosenAsJava
  BY DEF Carried
<1> QED
  BY <1>1, CarriedHolds, PTL

(* Java code does not run with an exception pending that it does not know   *)
(* of, but for methods of java.lang.Class in jnixx.h.                         *)
THEOREM ClearWhenApplied == Spec => []AppliedClear
<1>1. Carried => AppliedClear
  BY DEF Carried
<1> QED
  BY <1>1, CarriedHolds, PTL

(* The pending exception tells how a request ended. *)
THEOREM ExceptionsTold == Spec => []ExceptionTold
<1>1. Carried => ExceptionTold
  BY DEF Carried
<1> QED
  BY <1>1, CarriedHolds, PTL

(* A call that no-jni.hpp skips leaves an exception pending. *)
THEOREM SkipsTold == Spec => []SkipIsTold
<1>1. Carried => SkipIsTold
  BY DEF Carried
<1> QED
  BY <1>1, CarriedHolds, PTL

=============================================================================
