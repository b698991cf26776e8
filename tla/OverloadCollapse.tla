-------------------------- MODULE OverloadCollapse --------------------------
(***************************************************************************)
(* process_members of wrapper_generator.cpp: how the methods of a Java     *)
(* class become C++ overloads.  A parameter of a native type stays what it *)
(* is; a parameter of any other class becomes a template parameter, so     *)
(* Java overloads that differ only in such classes are one C++ function    *)
(* and must be collapsed.  Six sorts bring the methods together, then one  *)
(* pass over the groups of equal name and arity collapses neighbours.      *)
(*                                                                         *)
(* A type is [alt, rank]: the classes it stands for and its array rank.    *)
(* Collapsing "A" with "B" makes the type "A__or__B", here <<A, B>>.       *)
(* Names are numbers; the order of the numbers is the order of the strings.*)
(* No name is a prefix of another, so that an array type comes right after  *)
(* its element type.                                                        *)
(***************************************************************************)
EXTENDS Lists

CONSTANTS
  Inputs,  \* the lists of methods to process, as parsed from javap
  Natives  \* the class names that is_native holds true for

(* What is parsed: a type has one name. *)
JavaType == [alt : [1..1 -> Nat], rank : Nat]
JavaMethod == [name : Nat, args : Seq(JavaType), ret : JavaType]

ASSUME InputsType == Inputs \subseteq Seq(JavaMethod)

VARIABLES
  input,   \* the methods of the class
  methods, \* methods, while they are sorted
  stage,   \* the pass that comes next
  lower,   \* start of the next group of equal name and arity
  overloads, \* all_collapsed
  count

vars == <<input, methods, stage, lower, overloads, count>>

Passes == <<"arity", "returned", "args", "generic", "rank", "name", "group">>

TypeOK ==
  /\ methods \in Seq(ToSet(input))
  /\ stage \in ToSet(Passes) \cup {"done"}
  /\ lower \in 1..Len(methods) + 1
  /\ count \in Nat
  /\ \A i \in DOMAIN overloads :
       DOMAIN overloads[i] = {"ret", "name", "args"}

-----------------------------------------------------------------------------
(* Types and their orders *)

IsNative(t) == Len(t.alt) = 1 /\ t.alt[1] \in Natives

StringLess(s, t) == \/ s.alt[1] < t.alt[1]
                    \/ s.alt[1] = t.alt[1] /\ s.rank < t.rank

RankLess(s, t) == s.rank < t.rank

(* Native types first, among themselves by name; all others are alike. *)
GenericLess(s, t) ==
  IF IsNative(s) /\ IsNative(t) THEN StringLess(s, t)
  ELSE IsNative(s) /\ ~IsNative(t)

ArityLess(m, n) == Len(m.args) < Len(n.args)
ReturnedLess(m, n) == IsNative(m.ret) /\ ~IsNative(n.ret)
ArgsLess(m, n) == Lexicographic(StringLess, m.args, n.args)
GenericityLess(m, n) == Lexicographic(GenericLess, m.args, n.args)
RanksLess(m, n) == Lexicographic(RankLess, m.args, n.args)
NameLess(m, n) == m.name < n.name

-----------------------------------------------------------------------------
(* Collapsing *)

(* Both argument lists make the same C++ parameters: at each place the     *)
(* ranks agree, and both classes are generic or both types are the same.   *)
SameShape(a, b) ==
  \A k \in DOMAIN a :
    /\ a[k].rank = b[k].rank
    /\ \/ ~IsNative(a[k]) /\ ~IsNative(b[k])
       \/ a[k] = b[k]

(* Type s, standing for what it stood for and for t. *)
OrType(s, t) == IF s = t THEN s ELSE [s EXCEPT !.alt = @ \o t.alt]

(* A slip, to test the properties: the last of the collapsed methods       *)
(* replaces the others.                                                    *)
CollapseReplacing(v, m) ==
  IF v = <<>> THEN <<m>>
  ELSE IF SameShape(Last(v).args, m.args) THEN Front(v) \o <<m>>
  ELSE Append(v, [Last(v) EXCEPT !.args = m.args])

(* One step of the accumulation over a group: method m after the overloads *)
(* v.  An overload that is not collapsed is emplaced with the return type  *)
(* and name of the one before it.                                          *)
Collapse(v, m) ==
  IF v = <<>> THEN <<m>>
  ELSE IF ~SameShape(Last(v).args, m.args)
  THEN Append(v, [Last(v) EXCEPT !.args = m.args])
  ELSE Append(Front(v),
              [Last(v) EXCEPT !.args =
                 [k \in DOMAIN m.args |-> OrType(@[k], m.args[k])]])

(* method_and_arity: a group ends between two methods that differ so. *)
Differ(m, n) == m.name # n.name \/ Len(m.args) # Len(n.args)

(* The last method of the group that starts at i: adjacent_find. *)
GroupEnd(i) ==
  Min({j \in i..Len(methods) :
         j = Len(methods) \/ Differ(methods[j], methods[j + 1])})

-----------------------------------------------------------------------------
Init ==
  /\ input \in Inputs
  /\ methods = input
  /\ stage = "arity"
  /\ lower = 1
  /\ overloads = <<>>
  /\ count = 0

(* std::sort by arity, which may order methods of equal arity as it likes. *)
SortArity ==
  /\ stage = "arity"
  /\ \E p \in SetToSeqs(DOMAIN methods) :
       methods' = StableSort(ArityLess, [i \in DOMAIN p |-> methods[p[i]]])
  /\ stage' = "returned"
  /\ UNCHANGED <<input, lower, overloads, count>>

Sort(from, Less(_, _), to) ==
  /\ stage = from
  /\ methods' = StableSort(Less, methods)
  /\ stage' = to
  /\ UNCHANGED <<input, lower, overloads, count>>

SortReturned == Sort("returned", ReturnedLess, "args")
SortArgs == Sort("args", ArgsLess, "generic")

(* A slip: only the plain sort by argument names is made. *)
SortGenericByName == Sort("generic", ArgsLess, "rank")

SortGeneric == Sort("generic", GenericityLess, "rank")
SortRanks == Sort("rank", RanksLess, "name")
SortName == Sort("name", NameLess, "group")

(* One group: the accumulation from lower to upper. *)
Group ==
  /\ stage = "group" /\ lower <= Len(methods)
  /\ LET upper == GroupEnd(lower)
     IN  /\ overloads' = overloads
                         \o FoldLeft(Collapse, <<>>,
                                     SubSeq(methods, lower, upper))
         /\ count' = count + upper - lower + 1
         /\ lower' = upper + 1
  /\ UNCHANGED <<input, methods, stage>>

(* A slip: the walk waits for one group more than there is. *)
FinishLate ==
  /\ stage = "group" /\ lower > Len(methods) + 1
  /\ stage' = "done"
  /\ UNCHANGED <<input, methods, lower, overloads, count>>

(* lower has reached the end. *)
Finish ==
  /\ stage = "group" /\ lower > Len(methods)
  /\ stage' = "done"
  /\ UNCHANGED <<input, methods, lower, overloads, count>>

Next == \/ SortArity \/ SortReturned \/ SortArgs \/ SortGeneric
        \/ SortRanks \/ SortName \/ Group \/ Finish

Spec == Init /\ [][Next]_vars /\ WF_vars(Next)

-----------------------------------------------------------------------------
(* Overload o takes the arguments of method m. *)
Takes(o, m) ==
  /\ o.name = m.name
  /\ Len(o.args) = Len(m.args)
  /\ \A k \in DOMAIN o.args : /\ o.args[k].rank = m.args[k].rank
                              /\ m.args[k].alt[1] \in ToSet(o.args[k].alt)

(* Each method of the class can still be called, with its own array ranks  *)
(* and native types, through one of the C++ overloads.                     *)
EveryMethodKept ==
  stage = "done" =>
    \A m \in ToSet(input) : \E i \in DOMAIN overloads : Takes(overloads[i], m)

(* No two overloads have the same C++ parameters: the generated class        *)
(* declares no function twice and no call is ambiguous.  The collapsing only *)
(* looks at neighbours, so this is what the six sorts are for.               *)
NoRedeclaration ==
  stage = "done" =>
    \A i, j \in DOMAIN overloads :
      i # j /\ ~Differ(overloads[i], overloads[j])
      => ~SameShape(overloads[i].args, overloads[j].args)

(* assert(count == methods.size()): the walk over the groups meets every   *)
(* method exactly once.                                                    *)
AllCounted == stage = "done" => count = Len(input)

(* No method is lost: each is kept in some function, and each is counted. *)
Complete == EveryMethodKept /\ AllCounted


=============================================================================
