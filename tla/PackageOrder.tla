---------------------------- MODULE PackageOrder ----------------------------
(***************************************************************************)
(* VMInit of no-jvmti.cpp: the order in which the agent declares the       *)
(* packages, and then the classes, that it finds on the class path.  A     *)
(* package is declared by an expression over the package it is in, so that *)
(* one has to come first.                                                  *)
(*                                                                         *)
(* Names are strings, here sequences of numbers whose order is that of     *)
(* the characters: the code compares them by prefix.  Word stands for the  *)
(* whole of "namespace", to which an underscore is added.                   *)
(***************************************************************************)
EXTENDS ClassMembers

CONSTANTS
  Slash, Under, Word,   \* '/', '_' and "namespace"
  Java, JavaLang,       \* "java" and "java/lang"
  Internals,            \* packages with "/internal" in their names
  Fundamental,          \* java/lang/Class, /Object and /String
  Jars,                 \* contents of class paths: sequences of entries,
                        \* each a [package, clazz, content]
  None                  \* the content of an entry that FindClass fails for

ASSUME CharactersDistinct ==
  /\ {Slash, Under, Word} \subseteq Nat
  /\ Slash # Under /\ Slash # Word /\ Under # Word

(* Part of a path, and a path: parts with slashes between them. *)
Part(s) == s \in Seq(Nat) /\ s # <<>> /\ Slash \notin ToSet(s)
Path(p) ==
  /\ p \in Seq(Nat) /\ p # <<>>
  /\ \A k \in DOMAIN p : p[k] = Slash =>
       1 < k /\ k < Len(p) /\ p[k - 1] # Slash /\ p[k + 1] # Slash

(* "java" and "java/lang" are a part and two, with neither '_' nor          *)
(* "namespace" in them.                                                       *)
ASSUME JavaIs ==
  /\ JavaLang \in Seq(Nat) /\ ToSet(JavaLang) \cap {Under, Word} = {}
  /\ Part(Java) /\ IsPrefix(Java \o <<Slash>>, JavaLang)
  /\ Part(SubSeq(JavaLang, Len(Java) + 2, Len(JavaLang)))

ASSUME FundamentalIs == \A s \in Fundamental : IsPrefix(JavaLang \o <<Slash>>, s)

(* sig_rx takes a name of a zip entry apart at the last slash.  A class has *)
(* one field of a name.                                                       *)
Entry == [package : Seq(Nat), clazz : Seq(Nat), content : Class \cup {None}]
ASSUME JarsType ==
  \A jar \in Jars :
    /\ jar \in Seq(Entry)
    /\ \A e \in ToSet(jar) :
         /\ Path(e.package) /\ Part(e.clazz)
         /\ e.content # None =>
              /\ IsFiniteSet(e.content.fields \cup e.content.interfaceFields)
              /\ IsFiniteSet(e.content.methods \cup e.content.interfaceMethods)
              /\ \A m, n \in e.content.fields : m.name = n.name => m = n

VARIABLES
  entries,      \* jar entries still to be read
  pkgs,         \* the set of packages
  packages,     \* the packages in order
  csignatures,  \* the classes
  classes,      \* the public classes by name
  declared,     \* the packages that were declared, in order
  written,      \* the classes that were written, in order
  files,        \* the text of each
  stage

vars == <<entries, pkgs, packages, csignatures, classes, declared, written,
          files, stage>>

TypeOK ==
  /\ pkgs \subseteq Seq(Nat)
  /\ packages \in Seq(Seq(Nat) \ {<<>>})
  /\ csignatures \in Seq(Seq(Nat)) /\ DOMAIN classes \subseteq Seq(Nat)
  /\ declared \in Seq(ToSet(packages))
  /\ written \in Seq(ToSet(csignatures)) /\ DOMAIN files = ToSet(written)
  /\ stage \in {"scan", "sort", "declare", "write", "done", "undefined"}

-----------------------------------------------------------------------------
(* Strings *)

(* prefixed: compares as much as both strings have. *)
Prefixed(a, b) ==
  LET n == Min({Len(a), Len(b)})
  IN  StringBefore(SubSeq(a, 1, n), SubSeq(b, 1, n))

(* regex_replace of "namespace" by "namespace_" *)
Escape(s) ==
  FlattenSeq([k \in DOMAIN s |-> IF s[k] = Word THEN <<Word, Under>> ELSE <<s[k]>>])

Escaped(s) == [k \in DOMAIN s |-> Escape(s[k])]

-----------------------------------------------------------------------------
(* The algorithms of the C++ library, on the positions from r[1] to below   *)
(* r[2].  The searches halve a range, also when it is not ordered.            *)

Middle(r) == (r[1] + r[2]) \div 2

(* The range that is left when it is empty or its middle is in neither set. *)
Halved(range, below, above) ==
  LET within == range[1]..range[2]
      f[r \in within \X within] ==
        IF r[1] >= r[2] THEN r
        ELSE IF Middle(r) \in below THEN f[<<Middle(r) + 1, r[2]>>]
        ELSE IF Middle(r) \in above THEN f[<<r[1], Middle(r)>>]
        ELSE r
  IN  f[range]

(* std::equal_range, and lower_bound and upper_bound on the halves. *)
EqualRange(s, range, key) ==
  LET within == range[1]..range[2] - 1
      below == {m \in within : Prefixed(s[m], key)}
      above == {m \in within : Prefixed(key, s[m])}
      r == Halved(range, below, above)
  IN  IF r[1] = r[2] THEN r
      ELSE << Halved(<<r[1], Middle(r)>>, below, within \ below)[1],
              Halved(<<Middle(r) + 1, r[2]>>, within \ above, above)[1] >>

(* std::rotate; it looks first whether there is anything from middle on. *)
Rotates(first, middle, last) == middle = last \/ first <= middle
Rotate(s, first, middle, last) ==
  IF middle = last THEN s
  ELSE SubSeq(s, 1, first - 1) \o SubSeq(s, middle, last - 1)
       \o SubSeq(s, first, middle - 1) \o SubSeq(s, last, Len(s))

-----------------------------------------------------------------------------
Init ==
  /\ entries \in Jars
  /\ pkgs = {} /\ packages = <<>>
  /\ csignatures = <<>> /\ classes = <<>>
  /\ declared = <<>> /\ written = <<>> /\ files = <<>>
  /\ stage = "scan"

Signature(e) == e.package \o <<Slash>> \o e.clazz

(* The packages that package p is in, with the string before the first      *)
(* character, and p.                                                          *)
Around(p) ==
  {<<>>, p} \cup {SubSeq(p, 1, k - 1) : k \in {k \in DOMAIN p : p[k] = Slash}}

(* is_public of a null class reads a flag that was not set; whichever it is,  *)
(* Write finds that classes has no class of the name.                          *)
IsPublic(content) == content # None /\ content.public

(* The map f with a value for a key. *)
Put(f, key, value) ==
  [k \in DOMAIN f \cup {key} |-> IF k = key THEN value ELSE f[k]]

(* An entry of a jar is read. *)
Scan ==
  /\ stage = "scan" /\ entries # <<>>
  /\ entries' = Tail(entries)
  /\ LET e == Head(entries)
     IN  IF e.package \in Internals
         THEN UNCHANGED <<pkgs, csignatures, classes>>
         ELSE /\ pkgs' = pkgs \cup Around(e.package)
              /\ csignatures' = Append(csignatures, Signature(e))
              /\ classes' = IF IsPublic(e.content)
                            THEN Put(classes, Signature(e), e.content)
                            ELSE classes
  /\ UNCHANGED <<packages, declared, written, files, stage>>

(* The end of the scan: the packages are sorted, then escaped. *)
SortScanned ==
  /\ stage = "scan" /\ entries = <<>>
  /\ packages' = Escaped(Ascending(StringBefore, pkgs \ {<<>>}))
  /\ stage' = "sort"
  /\ UNCHANGED <<entries, pkgs, csignatures, classes, declared, written, files>>

(* A slip: the range of java/lang is rotated before java itself. *)
OrderPackagesToBegin ==
  /\ stage = "sort"
  /\ LET java == EqualRange(packages, <<1, Len(packages) + 1>>, Java)
         there == Rotate(packages, 1, java[1], java[2])
         lang == EqualRange(there, <<1, 1 + java[2] - java[1]>>, JavaLang)
     IN  packages' = Rotate(there, 1, lang[1], lang[2])
  /\ stage' = "declare"
  /\ UNCHANGED <<entries, pkgs, csignatures, classes, declared, written, files>>

(* A slip: the second search is for the first key again. *)
OrderPackagesTwiceJava ==
  /\ stage = "sort"
  /\ LET java == EqualRange(packages, <<1, Len(packages) + 1>>, Java)
         there == Rotate(packages, 1, java[1], java[2])
         lang == EqualRange(there, <<1, 1 + java[2] - java[1]>>, Java)
     IN  IF Rotates(2, lang[1], lang[2])
         THEN packages' = Rotate(there, 2, lang[1], lang[2]) /\ stage' = "declare"
         ELSE packages' = there /\ stage' = "undefined"
  /\ UNCHANGED <<entries, pkgs, csignatures, classes, declared, written, files>>

(* The range of java is rotated to the beginning of packages, and in it the *)
(* range of java/lang to the second place.  When that range begins before    *)
(* the second place the rotation is undefined, and so is what comes after.   *)
OrderPackages ==
  /\ stage = "sort"
  /\ LET java == EqualRange(packages, <<1, Len(packages) + 1>>, Java)
         there == Rotate(packages, 1, java[1], java[2])
         lang == EqualRange(there, <<1, 1 + java[2] - java[1]>>, JavaLang)
     IN  IF Rotates(2, lang[1], lang[2])
         THEN packages' = Rotate(there, 2, lang[1], lang[2]) /\ stage' = "declare"
         ELSE packages' = there /\ stage' = "undefined"
  /\ UNCHANGED <<entries, pkgs, csignatures, classes, declared, written, files>>

(* The next package is declared. *)
Declare ==
  /\ stage = "declare" /\ Len(declared) < Len(packages)
  /\ declared' = Append(declared, packages[Len(declared) + 1])
  /\ UNCHANGED <<entries, pkgs, packages, csignatures, classes, written,
                 files, stage>>

(* A slip: the partition does not keep the order. *)
PartitionUnstable(s, n, F) ==
  LET front == {k \in 1..n : s[k] \in F}
  IN  At(s, front) \o Reverse(At(s, (1..n) \ front)) \o At(s, n + 1..Len(s))

(* std::stable_partition of the first n places of s by F. *)
Partition(s, n, F) ==
  LET front == {k \in 1..n : s[k] \in F}
  IN  At(s, front) \o At(s, (1..n) \ front) \o At(s, n + 1..Len(s))

(* The packages are declared: the classes are sorted, escaped and rotated,  *)
(* java first and in it java/lang, with the fundamental ones in front.        *)
OrderClasses ==
  /\ stage = "declare" /\ declared = packages
  /\ LET sorted == Escaped(StableSort(StringBefore, csignatures))
         java == EqualRange(sorted, <<1, Len(sorted) + 1>>, Java)
         there == Rotate(sorted, 1, java[1], java[2])
         lang == EqualRange(there, <<1, 1 + java[2] - java[1]>>, JavaLang)
     IN  csignatures' = Partition(Rotate(there, 1, lang[1], lang[2]),
                                  lang[2] - lang[1], Fundamental)
  /\ stage' = "write"
  /\ UNCHANGED <<entries, pkgs, packages, classes, declared, written, files>>

(* The file of the next class is written.  classes[sig] makes an entry of a *)
(* null class for a name that is not there: an escaped one is never there.    *)
Write ==
  /\ stage = "write" /\ Len(written) < Len(csignatures)
  /\ LET sig == csignatures[Len(written) + 1]
         there == sig \in DOMAIN classes /\ classes[sig] # None
     IN  /\ written' = Append(written, sig)
         /\ classes' = IF sig \in DOMAIN classes THEN classes
                       ELSE Put(classes, sig, None)
         /\ files' = Put(files, sig, IF there THEN ClassText(classes[sig]) ELSE EmptyText)
  /\ UNCHANGED <<entries, pkgs, packages, csignatures, declared, stage>>

Finish ==
  /\ stage = "write" /\ written = csignatures
  /\ stage' = "done"
  /\ UNCHANGED <<entries, pkgs, packages, csignatures, classes, declared, written, files>>

Next == \/ Scan \/ SortScanned \/ OrderPackages \/ Declare
        \/ OrderClasses \/ Write \/ Finish

Spec == Init /\ [][Next]_vars

-----------------------------------------------------------------------------
(* What the code expects of a class path that has java in it: nothing is    *)
(* named by a beginning of "java/lang", and some package comes between java   *)
(* and java/lang, as java/io does.  Then the halving search for java/lang,    *)
(* in a range that is not ordered for it, never probes java itself.  And no   *)
(* name has an underscore, nor gets one in its middle, nor does a package get *)
(* one that others are in and that is in none itself.                          *)
Ordinary ==
  /\ \A p \in pkgs \ {<<>>, Java} : ~IsStrictPrefix(p, JavaLang)
  /\ Java \in pkgs => \E p \in pkgs : StringBefore(Java, p) /\ Prefixed(p, JavaLang)
  /\ \A p \in pkgs : \A k \in DOMAIN p :
       p[k] # Under /\ (p[k] = Word /\ k < Len(p) => p[k + 1] = Slash)
  /\ \A p \in pkgs : \A k \in DOMAIN p :
       p[k] = Slash /\ (\A i \in 1..k - 1 : p[i] # Slash) => p[k - 1] # Word

(* pkg_var, and its parts before and after the last underscore, or the last *)
(* but one if it ends in one; without such an underscore it is all parent.     *)
PkgVar(p) == [k \in DOMAIN p |-> IF p[k] = Slash THEN Under ELSE p[k]]

Unders(v) == {k \in DOMAIN v : v[k] = Under}

PkgParent(v) ==
  LET ends == IF Last(v) = Under /\ Len(v) > 1 THEN Unders(v) \ {Len(v)}
              ELSE Unders(v)
  IN  IF ends = {} THEN v ELSE SubSeq(v, 1, Max(ends) - 1)

PkgChild(v) ==
  IF PkgParent(v) = v THEN <<>> ELSE SubSeq(v, Len(PkgParent(v)) + 2, Len(v))

(* The C++ variable that is declared: one for a string has an underscore    *)
(* added, one for an expression has not.                                       *)
Variable(v) == IF PkgChild(v) = <<>> THEN v \o <<Under>> ELSE v

(* The variable that the expression is over. *)
ParentVariable(v) ==
  IF Under \in ToSet(PkgParent(v)) THEN PkgParent(v)
  ELSE PkgParent(v) \o <<Under>>

(* The rotation of java/lang is well defined. *)
RotationDefined == stage = "undefined" => ~Ordinary

(* Each package is declared by a string, or by an expression over a variable *)
(* that was declared before it.                                                *)
ParentsDeclared ==
  Ordinary =>
    \A k \in DOMAIN declared :
      LET v == PkgVar(declared[k])
      IN  \/ PkgChild(v) = <<>>
          \/ \E j \in 1..k - 1 : Variable(PkgVar(declared[j])) = ParentVariable(v)

(* java, then what begins with java/lang, then what begins with java, then  *)
(* the rest.                                                                   *)
Group(p) == IF p = Java THEN 0 ELSE IF IsPrefix(JavaLang, p) THEN 1
            ELSE IF IsPrefix(Java, p) THEN 2 ELSE 3

(* The rotations, found by halving in a range that is only ordered in part, *)
(* leave the packages as a sort by group and name would, none lost.            *)
PackagesGrouped ==
  Ordinary /\ stage \in {"declare", "write", "done"} =>
    /\ ToSet(packages) = {Escape(p) : p \in pkgs \ {<<>>}}
    /\ \A i, j \in DOMAIN packages : i < j =>
         \/ Group(packages[i]) < Group(packages[j])
         \/ /\ Group(packages[i]) = Group(packages[j])
            /\ StringBefore(packages[i], packages[j])

ClassGroup(s) == IF s \in Fundamental THEN 0 ELSE Group(s)

(* The same of the classes, of which the fundamental ones are first, if no  *)
(* class is named by a beginning of "java/lang"; and each is in a package that *)
(* has been declared.                                                          *)
ClassesGrouped ==
  stage = "done" =>
    /\ (\A s \in ToSet(written) : ~IsStrictPrefix(s, JavaLang)) =>
       \A i, j \in DOMAIN written : i < j =>
         \/ ClassGroup(written[i]) < ClassGroup(written[j])
         \/ /\ ClassGroup(written[i]) = ClassGroup(written[j])
            /\ ~StringBefore(written[j], written[i])
    /\ \A s \in ToSet(written) :
         \E p \in ToSet(declared) : IsPrefix(p \o <<Slash>>, s)

(* The methods of a public class that calls can be made to, and the texts   *)
(* of such classes whose names are not escaped.                                *)
Known == {sig \in DOMAIN classes : classes[sig] # None /\ sig \in DOMAIN files}
Callable(c) ==
  {m \in c.methods : /\ m.public /\ ~m.deprecated
                     /\ m.sig \notin HiddenSignatures /\ m.name \notin Inits}
Overloads(c, name) ==
  {m \in Callable(c) \cup Callable([c EXCEPT !.methods = c.interfaceMethods]) :
     m.name = name}

(* Every public method of a public class can be called by its name: the     *)
(* file has its signature and a function of that name, which is static as the  *)
(* method is, but where static and other methods, or the methods of two        *)
(* names that are escaped to one, share the function.                           *)
EveryMethodCallable ==
  \A sig \in Known : \A m \in Callable(classes[sig]) :
    LET text == files[sig]
    IN  /\ \E k \in DOMAIN text.methods :
             text.methods[k].name = m.name /\ text.methods[k].sig = m.sig
        /\ \E f \in DOMAIN text.functions :
             /\ text.functions[f].name = CppName(m.name)
             /\ \/ text.functions[f].static = m.static
                \/ \E n \in Overloads(classes[sig], m.name) : n.static # m.static

(* No file defines a function twice, but where two names are escaped to one: *)
(* of a method there is one function for all its overloads, those of the       *)
(* interfaces too; of a field there are two when an interface has a field of    *)
(* the name that the class, or another interface, has too.  The second of a     *)
(* pair with one name that is a field's and a method's is another template.     *)
FunctionsDistinct ==
  \A sig \in Known :
    LET c == classes[sig]
        text == files[sig]
        fields == 1..Len(text.fields)
        SameName(f, g) == text.functions[f].name = text.functions[g].name
        Clash(S) == \E m, n \in S : m # n /\ m.name # n.name
                                   /\ CppName(m.name) = CppName(n.name)
        hides == \E m \in c.interfaceFields, n \in c.fields \cup c.interfaceFields :
                   m # n /\ m.name = n.name
    IN  \A f, g \in DOMAIN text.functions :
          f # g /\ SameName(f, g) /\ (f \in fields <=> g \in fields)
          => IF f \in fields THEN hides \/ Clash(c.fields \cup c.interfaceFields)
             ELSE Clash(c.methods \cup c.interfaceMethods)

(* Packages and classes are written in the order of a sort by group and     *)
(* name, whatever the searches among them found.                             *)
InOrder == TypeOK /\ PackagesGrouped /\ ClassesGrouped


=============================================================================
