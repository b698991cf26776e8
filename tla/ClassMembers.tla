---------------------------- MODULE ClassMembers ----------------------------
(***************************************************************************)
(* What VMInit of no-jvmti.cpp writes for one class: its superclass, the   *)
(* tables of its fields and methods, and a C++ function for every field    *)
(* and for every name of a method.                                         *)
(*                                                                         *)
(* A class is a record of its superclass, whether it is public, and its    *)
(* fields and methods and those of the interfaces that it names.  A member *)
(* is a record of its name, its signature, and whether it is static,       *)
(* public and deprecated; names and signatures are numbers in the order of *)
(* the strings.                                                            *)
(***************************************************************************)
EXTENDS Lists

CONSTANTS
  HiddenSignatures,  \* with "/internal" or "java/awt/peer/" in them
  InternalClasses,   \* superclasses with "/internal" in their signatures
  Inits,             \* names with "init>" in them
  Keywords,          \* names that are escaped by an underscore
  Escaped_(_),       \* such a name with its underscore
  Object             \* ::java::lang::Object

Member == [name : Nat, sig : Nat, static : BOOLEAN, public : BOOLEAN,
           deprecated : BOOLEAN]
Class == [super : Nat, public : BOOLEAN, fields : SUBSET Member,
          methods : SUBSET Member, interfaceFields : SUBSET Member,
          interfaceMethods : SUBSET Member]

(* What is known of a member after it was read: its name, signature and     *)
(* whether it is static; tuples are compared in this order.                   *)
Before(m, n) ==
  \/ m.name < n.name
  \/ m.name = n.name /\ m.sig < n.sig
  \/ m.name = n.name /\ m.sig = n.sig /\ ~m.static /\ n.static

(* process_members, remove_if, sort and unique: the members of the class and *)
(* of its direct interfaces that are public, not deprecated and not hidden.   *)
Collected(own, inherited) ==
  Ascending(Before,
    {[name |-> m.name, sig |-> m.sig, static |-> m.static] :
       m \in {m \in own \cup inherited : /\ m.public /\ ~m.deprecated
                                         /\ m.sig \notin HiddenSignatures}})

(* The name of the C++ function of a member. *)
CppName(name) == IF name \in Keywords THEN Escaped_(name) ELSE name

(* The functions of members, by their names and whether they are static. *)
Functions(members) ==
  [k \in DOMAIN members |->
     [name |-> CppName(members[k].name), static |-> members[k].static]]

(* A slip, to test the properties: a name that was escaped is looked for.   *)
MethodFunctionsEscaped(methods) ==
  Functions(At(methods,
    {k \in DOMAIN methods :
       /\ methods[k].name \notin Inits
       /\ \A j \in 1..k - 1 : CppName(methods[j].name) # CppName(methods[k].name)}))

(* A slip: static overloads get a function of their own. *)
MethodFunctionsByStatic(methods) ==
  Functions(At(methods,
    {k \in DOMAIN methods :
       /\ methods[k].name \notin Inits
       /\ \A j \in 1..k - 1 : \/ methods[j].name # methods[k].name
                               \/ methods[j].static # methods[k].static}))

(* Every name of a method has a function, but for constructors: it is        *)
(* static, or not, as the first overload in the order of the signatures.       *)
MethodFunctions(methods) ==
  Functions(At(methods,
    {k \in DOMAIN methods :
       /\ methods[k].name \notin Inits
       /\ \A j \in 1..k - 1 : methods[j].name # methods[k].name}))

(* A superclass that is internal is replaced. *)
Superclass(c) == IF c.super \in InternalClasses THEN Object ELSE c.super

(* The text of a class. *)
ClassText(c) ==
  LET fields == Collected(c.fields, c.interfaceFields)
      methods == Collected(c.methods, c.interfaceMethods)
  IN  [super |-> Superclass(c), fields |-> fields, methods |-> methods,
       functions |-> Functions(fields) \o MethodFunctions(methods)]

(* The text when there is no class: JVMTI gives nothing of a null class.     *)
EmptyText ==
  [super |-> Object, fields |-> <<>>, methods |-> <<>>, functions |-> <<>>]

=============================================================================
