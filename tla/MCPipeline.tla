----------------------------- MODULE MCPipeline -----------------------------
(***************************************************************************)
(* Jars of one class with the methods of MCOverloadCollapse, and jars of   *)
(* up to three entries: an inner class and the class that it is in, with   *)
(* nested generic types, constants with brackets and a brace, fields, a     *)
(* constructor and a name that is escaped; a class that is filtered and one *)
(* that is excluded; and a file that is no class.                            *)
(***************************************************************************)
EXTENDS MCOverloadCollapse, Pipeline

(* '$' is before ".class", this before '/', then come the letters. *)
a == 6   b == 7

Sym(s) == [is |-> s]
End == Sym(";")
Arg == Sym("argument")
Generic == <<Sym("<"), Arg, Sym("<"), Arg, Sym(">"), Arg, Sym(">")>>

Is(is, what) == [is |-> is, what |-> what]
Simple(n) == Is("method", [Method(<<T(1, 0)>>) EXCEPT !.name = n])
Made == Is("method", [name |-> 0, args |-> <<T(4, 0)>>, ret |-> T(4, 0)])
AField(n) == Is("field", [name |-> n, type |-> T(2, 0)])
Known == AField(1)

(* A class with the methods ms. *)
Declared(ms) ==
  FoldLeft(LAMBDA t, m : t \o <<Is("method", m), End>>, <<>>, ms)

Entry(name, is, ms) == [name |-> name, isClass |-> is, members |-> ms]

Outer(name) ==
  {Entry(name, TRUE, ms) : ms \in
     {Generic \o <<Simple(1)>> \o Generic \o <<End, Made, End>>,
      <<AField(2), Sym(">"), End>> \o Generic \o <<Simple(2), End>>,
      <<Known, Sym("}"), End, Simple(3), End>>,
      <<Known, Sym("<"), End, Simple(3), End>>,
      <<AField(5), End, Simple(5), End>>}}

Others == {Entry(<<a, 3, b, 2>>, TRUE, <<Simple(4), End>>),
           Entry(<<a, 3, a, 2>>, TRUE, <<Simple(4), End>>),
           Entry(<<b, 2>>, TRUE, <<Simple(4), End>>),
           Entry(<<b, 9>>, FALSE, <<>>)}

Sample == Outer(<<a, 3, b, 1, a, 2>>) \cup Outer(<<b, 3, b, 2>>) \cup Others

MCJars ==
  {Unreadable, <<>>}
    \cup {<<Entry(<<b, 3, b, 2>>, TRUE, Declared(ms))>> : ms \in Inputs}
    \cup {s \in {SetToSeq(S) : S \in UNION {kSubset(n, Sample) : n \in 1..3}} :
            \A i, j \in DOMAIN s : i # j => s[i].name # s[j].name}

MCFiltered == {<<a, 3, a, 2>>}
MCExcluded == {<<b, 2>>}
MCEscaped(n) == n + 10
=============================================================================
