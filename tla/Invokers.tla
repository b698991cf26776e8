------------------------------ MODULE Invokers ------------------------------
(***************************************************************************)
(* The functions of JNIEnv by which a member or an array element is        *)
(* reached, and the tables that choose one of them by the C++ type of the  *)
(* member: invoke_jni of jni_invokers.h, whose overloads take an object or *)
(* a class, and caller, getter, setter and their kin of no-jni.hpp, which  *)
(* choose with is_same and if constexpr.                                   *)
(***************************************************************************)

Primitives ==
  {"boolean", "byte", "char", "short", "int", "long", "float", "double"}

Types == Primitives \cup {"void", "object"}

(* A function of JNIEnv: what it does, what it is applied to, and the type   *)
(* that its name has, as in CallStaticIntMethod or SetFloatArrayRegion.      *)
Fn(does, on, type) == [does |-> does, on |-> on, type |-> type]

-----------------------------------------------------------------------------
(* jni_invokers.h: invoke_jni<T> *)

(* The two overloads of one static member function: the argument decides.    *)
Overloads(does, t) ==
  [on \in {"object", "class"} |-> Fn(does, on, t)]

(* The specialisations are alike, but for the type they name; that for       *)
(* jobject reads and writes elements one at a time and the others a region   *)
(* of one element.                                                            *)
Specialisation(t) ==
  [call   |-> Overloads("call", t),
   get    |-> Overloads("get", t),
   set    |-> Overloads("set", t),
   load   |-> Fn("load", "array", t),
   store  |-> Fn("store", "array", t),
   create |-> Fn("create", "array", t)]

(* void: methods only *)
invoke_jni_jvoid == [call |-> Overloads("call", "void")]
invoke_jni_jobject == Specialisation("object")
invoke_jni_jboolean == Specialisation("boolean")
invoke_jni_jbyte == Specialisation("byte")
invoke_jni_jchar == Specialisation("char")
invoke_jni_jshort == Specialisation("short")
invoke_jni_jint == Specialisation("int")
invoke_jni_jlong == Specialisation("long")
invoke_jni_jfloat == Specialisation("float")
invoke_jni_jdouble == Specialisation("double")

(* jhandle::invoker<U>: the specialisation for what U converts to *)
invoker(u) ==
  CASE u = "void"    -> invoke_jni_jvoid
    [] u = "boolean" -> invoke_jni_jboolean
    [] u = "byte"    -> invoke_jni_jbyte
    [] u = "char"    -> invoke_jni_jchar
    [] u = "short"   -> invoke_jni_jshort
    [] u = "int"     -> invoke_jni_jint
    [] u = "long"    -> invoke_jni_jlong
    [] u = "float"   -> invoke_jni_jfloat
    [] u = "double"  -> invoke_jni_jdouble
    [] OTHER         -> invoke_jni_jobject

-----------------------------------------------------------------------------
(* no-jni.hpp: the chains of if constexpr (is_same<R, ...>) name the types   *)
(* of ts, and what is left is an object.                                      *)
Named(ts, r) == IF r \in ts THEN r ELSE "object"

static_caller(r) == Fn("call", "class", Named(Primitives \cup {"void"}, r))
caller(r) == Fn("call", "object", Named(Primitives \cup {"void"}, r))
getter(static, f) ==
  Fn("get", IF static THEN "class" ELSE "object", Named(Primitives, f))
setter(static, f) ==
  Fn("set", IF static THEN "class" ELSE "object", Named(Primitives, f))
array_getter(f) == Fn("load", "array", Named(Primitives, f))
array_setter(f) == Fn("store", "array", Named(Primitives, f))
alloc(f) == Fn("create", "array", Named(Primitives, f))

=============================================================================
