--------------------------- MODULE MCMemberCache ---------------------------
(* A root, a base class and two classes derived from it.  JNI's answers are *)
(* computed from what the classes declare.                                 *)
EXTENDS MemberCache

CONSTANTS t1, t2

Threads2 == {t1, t2}

MCClasses == {"Object", "Base", "Leaf", "Other"}
MCSuper == [C \in MCClasses |->
              CASE C = "Leaf" -> "Base" [] C = "Other" -> "Base"
                [] OTHER -> "Object"]
MCAncestors == [C \in MCClasses |-> {C, MCSuper[C], "Object"}]
MCGetters == {"instance", "static"}

(* The generators put static and instance methods and constructors into    *)
(* one table, and a filler into a table that would be empty, as that of an  *)
(* abstract class without public methods.                                   *)
MCMembers == {"size", "of", "first", "<init>", "absent", ""}
MCTable == [C \in MCClasses |->
              CASE C = "Object" -> <<"<init>">>
                [] C = "Base" -> <<"of", "<init>", "size">>
                [] C = "Leaf" -> <<"<init>", "first">>
                [] OTHER -> <<"">>]

MCIds == MCClasses \X MCMembers

(* What a class declares itself, with the getter that finds it. *)
Declares(C) ==
  CASE C = "Object" -> {<<"instance", "<init>">>}
    [] C = "Base" -> {<<"instance", "<init>">>, <<"static", "of">>, <<"instance", "size">>}
    [] C = "Leaf" -> {<<"instance", "<init>">>, <<"instance", "first">>}
    [] OTHER -> {}

(* GetMethodID and GetStaticMethodID: the nearest declaration upwards,     *)
(* except for constructors, which are not inherited.                       *)
Answer(g, C, s) ==
  LET up(K) == MCSuper[K]
      line == IF s = "<init>" THEN <<C>> ELSE <<C, up(C), up(up(C))>>
      has == {i \in 1..Len(line) : <<g, s>> \in Declares(line[i])}
  IN  IF has = {} THEN NoId
      ELSE <<line[CHOOSE i \in has : \A j \in has : i <= j], s>>

MCLookup ==
  [g \in MCGetters |-> [C \in MCClasses |-> [s \in MCMembers |-> Answer(g, C, s)]]]

MCSites == {<<"Leaf", "instance", "size">>, <<"Other", "instance", "size">>,
            <<"Base", "static", "of">>, <<"Base", "instance", "<init>">>,
            <<"Other", "static", "absent">>}
=============================================================================
