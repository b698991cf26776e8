--------------------------- MODULE MCPackageOrder ---------------------------
(***************************************************************************)
(* Class paths with java/lang and any of: packages before, in and after    *)
(* java/lang, javax, a package whose name begins "java", one named          *)
(* namespace and one inside it, one with an underscore, an internal one and  *)
(* a class that is not public; or any of these without java/lang, with a     *)
(* class that two jars have and one that FindClass fails for; and class paths  *)
(* with a class named by a beginning of java/lang and a package whose name     *)
(* begins "namespace", or one named namespace, alone or with a package in it,   *)
(* for some of which the properties have exceptions.  Then one                 *)
(* class with any of several methods and fields, its own or of an interface:  *)
(* overloads, static and not, a name that is escaped and the one that it is    *)
(* escaped to, a hidden signature, a constructor and a deprecated method.      *)
(***************************************************************************)
EXTENDS PackageOrder

(* '/' is before the capitals, these before '_', this before small letters. *)
S == 0
A == 1   O == 2   U == 3   a == 4   b == 5   j == 6   v == 7   w == 8
MCJava == <<j, v>>
MCJavaLang == <<j, v, S, b, b>>

Plain == [super |-> 1, public |-> TRUE, fields |-> {}, methods |-> {},
          interfaceFields |-> {}, interfaceMethods |-> {}]
In(p, c) == [package |-> p, clazz |-> c, content |-> Plain]

Always == <<In(MCJavaLang, <<O>>), In(MCJavaLang, <<A>>)>>
Maybe == <<In(<<j, v, S, a>>, <<A>>), In(MCJavaLang \o <<S, a>>, <<A>>),
           In(<<j, v, S, v>>, <<A>>), In(<<j, v, v>>, <<A>>),
           In(<<a, S, w>>, <<A>>), In(<<a, S, w, S, b>>, <<A>>),
           In(<<j>>, <<A>>), In(<<v, U, b>>, <<A>>), In(<<a, S, v>>, <<A>>),
           [In(<<v, S, a>>, <<A>>) EXCEPT !.content.public = FALSE]>>
Again == <<In(<<v, S, a>>, <<A>>),
           [In(<<a, S, b>>, <<A>>) EXCEPT !.content = None]>>

Odd == {<<In(<<j, v>>, <<b>>), In(<<w, v>>, <<A>>)>>,
        <<In(<<w>>, <<A>>)>>, <<In(<<w, S, b>>, <<A>>)>>}

Some(X) == SelectSeq(Maybe, LAMBDA e : e \in X)

(* Names 1 to 4, of which 2 is a keyword that is escaped to 3. *)
M(name, sig, static) ==
  [name |-> name, sig |-> sig, static |-> static, public |-> TRUE,
   deprecated |-> FALSE]
MCEscaped(name) == name + 1

OwnMethods == {M(1, 1, FALSE), M(1, 2, TRUE), M(2, 1, FALSE), M(3, 1, TRUE),
               M(4, 1, FALSE)}
InterfaceMethods == {M(1, 1, FALSE), M(3, 2, TRUE)}
OwnFields == {M(1, 1, FALSE), M(2, 1, TRUE)}
InterfaceFields == {M(1, 2, TRUE), M(1, 3, TRUE), M(3, 1, TRUE)}
Left == {M(1, 3, FALSE), [M(1, 4, TRUE) EXCEPT !.deprecated = TRUE],
         [M(1, 5, TRUE) EXCEPT !.public = FALSE]}

Contents ==
  [super : {1}, public : {TRUE}, fields : SUBSET OwnFields,
   methods : {Left \cup own : own \in SUBSET OwnMethods},
   interfaceFields : SUBSET InterfaceFields,
   interfaceMethods : SUBSET InterfaceMethods]

Filled == {<<[In(<<a>>, <<A>>) EXCEPT !.content = c]>> : c \in Contents}

MCJars == {Always \o Some(X) : X \in SUBSET ToSet(Maybe)}
            \cup {Some(X) \o Again : X \in SUBSET ToSet(Maybe)} \cup Filled
            \cup {Always \o Some(X) \o odd : X \in SUBSET {Maybe[k] : k \in 1..5}, odd \in Odd}

MCInternals == {<<a, S, v>>}
MCFundamental == {MCJavaLang \o <<S, O>>}
=============================================================================
