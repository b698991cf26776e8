------------------------------ MODULE Pipeline ------------------------------
(***************************************************************************)
(* main of wrapper_generator.cpp: the classes of a jar are listed, sorted  *)
(* and given to javap, its output is cut into one piece for each class at  *)
(* the closing braces, generic arguments are erased from each piece, its   *)
(* members are parsed and collapsed (OverloadCollapse) and written as C++  *)
(* functions, and the pieces are paired with the names by position.        *)
(*                                                                         *)
(* A name is a sequence of numbers, in the order of the characters.  What  *)
(* javap prints is a sequence of tokens: "{", "}", "<" and ">", which a    *)
(* string constant may have too, ";" at the end of a member, a method, a   *)
(* field, and an argument of a generic type.                               *)
(***************************************************************************)
EXTENDS OverloadCollapse, Integers

CONSTANTS
  Jars,       \* sequences of entries, each a [name, isClass, members]
  Unreadable, \* in place of a jar that cannot be opened
  Dollar, Suffix, Slash, Under, \* '$', ".class", '/' and '_'
  Filtered,   \* names that a grep takes out of the listing
  Excluded,   \* names that the second argument of the program excludes
  FieldWords, MethodWords, \* names of members that get an underscore
  Escaped_(_) \* such a name with its underscore

(* What javap prints, and what it prints of each class. *)
Token ==
  [is : {"{", "}", "<", ">", ";", "argument"}]
    \cup [is : {"method"}, what : JavaMethod]
    \cup [is : {"field"}, what : [name : Nat, type : JavaType]]
JarEntry == [name : Seq(Nat), isClass : BOOLEAN, members : Seq(Token)]

ASSUME JarsType == Jars \subseteq {Unreadable} \cup Seq(JarEntry)

VARIABLES
  jar,          \* the jar that the program is called with
  step,         \* what main does next
  status,       \* the exit status
  classes,      \* the names of classes
  text,         \* class_defs.txt
  members_list, \* the pieces of text
  wrapped,      \* the C++ functions of the pieces that were processed
  results       \* what is printed

generated == <<jar, step, status, classes, text, members_list, wrapped, results>>
allVars == <<vars, generated>>

PipelineTypeOK ==
  /\ TypeOK
  /\ step \in {"open", "javap", "split", "members", "collapse", "exit"}
  /\ status \in 0..255
  /\ Len(wrapped) <= Len(members_list)
  /\ results # <<>> => DOMAIN results = DOMAIN classes

-----------------------------------------------------------------------------
(* Names *)

Without(name, c) == SelectSeq(name, LAMBDA x : x # c)
Changed(name, from, to) ==
  [k \in DOMAIN name |-> IF name[k] \in from THEN to ELSE name[k]]

(* remove_class *)
Unsuffixed(name) == Without(name, Suffix)

(* to_macro, and to_signature, which is the same pattern. *)
Macro(name) == Changed(name, {Slash, Dollar}, Under)
Signature(name) == Changed(name, {Slash, Dollar}, Slash)

(* One namespace is opened, and one closed, for each '/'. *)
Namespaces(name) == Len(SelectSeq(name, LAMBDA x : x = Slash))

-----------------------------------------------------------------------------
(* Pieces *)

(* The places of a set, in order. *)
Places(t, places) == At([k \in DOMAIN t |-> k], places)

(* getline up to each '}', and what is after the last one. *)
Pieces(t) ==
  LET ends == Places(t, {k \in DOMAIN t : t[k].is = "}"})
      from(p) == IF p = 1 THEN 1 ELSE ends[p - 1] + 1
      upto(p) == IF p = Len(ends) + 1 THEN Len(t) ELSE ends[p] - 1
  IN  [p \in 1..Len(ends) + 1 |-> SubSeq(t, from(p), upto(p))]

(* line.substr(line.find('{') + 1): all of the line if it has none. *)
AfterBrace(piece) ==
  LET opens == {k \in DOMAIN piece : piece[k].is = "{"}
  IN  IF opens = {} THEN piece ELSE SubSeq(piece, Min(opens) + 1, Len(piece))

(* A slip, to test the properties: a flag in place of bracket_count. *)
ErasedToFirst(piece) ==
  LET erasing(k) == \E j \in 1..k : /\ piece[j].is = "<"
                                    /\ \A i \in j..k : piece[i].is # ">"
  IN  At(piece, {k \in DOMAIN piece : ~erasing(k) /\ piece[k].is # ">"})

(* What is between '<' and '>' is erased.  bracket_count is unsigned: a '>'  *)
(* before any '<' makes it large, and what follows is erased until a '<' has *)
(* made it zero again.                                                       *)
Erased(piece) ==
  LET seen(c, k) == Cardinality({j \in 1..k : piece[j].is = c})
      bracket_count(k) == seen("<", k) - seen(">", k)
  IN  At(piece, {k \in DOMAIN piece : bracket_count(k) = 0 /\ piece[k].is # ">"})

(* line_rx: the members of a piece, up to their semicolons. *)
Lines(piece, is) ==
  LET lines == At(piece, {k \in DOMAIN piece : /\ piece[k].is = is /\ k < Len(piece)
                                              /\ piece[k + 1].is = ";"})
  IN  [l \in DOMAIN lines |-> lines[l].what]

-----------------------------------------------------------------------------
(* Functions *)

CppName(name, words) == IF name \in words THEN Escaped_(name) ELSE name

(* A class has one field of a name, and no member with the name that that  *)
(* of another is escaped to.                                               *)
NamesDistinct(e) ==
  \A i, k \in DOMAIN e.members :
    LET x == e.members[i]   y == e.members[k]
        Alike(words) == CppName(x.what.name, words) = CppName(y.what.name, words)
    IN  /\ x.is = "field" /\ y.is = "field" /\ Alike(FieldWords) => i = k
        /\ x.is = "method" /\ y.is = "method" /\ Alike(MethodWords)
           => x.what.name = y.what.name

ASSUME NamesApart ==
  \A entries \in Jars \ {Unreadable} : \A e \in ToSet(entries) : NamesDistinct(e)

(* class_name is the class of a constructor, which has no name. *)
Constructor == 0
ClassName(ms) ==
  LET made == {m \in ToSet(ms) : m.name = Constructor}
  IN  IF made = {} THEN <<>> ELSE (CHOOSE m \in made : TRUE).ret.alt

(* A type that is neither native nor the class itself is a template        *)
(* parameter, which stands for any class.                                  *)
Deduced(t, own) == ~IsNative(t) /\ t.alt # own
Parameter(t, own) == [t EXCEPT !.alt = IF Deduced(t, own) THEN <<>> ELSE @]

(* A slip: the subscripts of a type are forgotten. *)
MethodFunctionFlat(o, own) ==
  [name |-> CppName(o.name, MethodWords),
   params |-> [k \in DOMAIN o.args |-> [Parameter(o.args[k], own) EXCEPT !.rank = 0]],
   template |-> {t.alt : t \in {t \in ToSet(o.args) \cup {o.ret} : Deduced(t, own)}},
   looksUp |-> CppName(o.name, MethodWords), method |-> TRUE]

(* The function of an overload.  What it looks up in Java is its C++ name. *)
MethodFunction(o, own) ==
  [name |-> CppName(o.name, MethodWords),
   params |-> [k \in DOMAIN o.args |-> Parameter(o.args[k], own)],
   template |-> {t.alt : t \in {t \in ToSet(o.args) \cup {o.ret} : Deduced(t, own)}},
   looksUp |-> CppName(o.name, MethodWords), method |-> TRUE]

FieldFunction(f, own) ==
  [name |-> CppName(f.name, FieldWords), params |-> <<>>,
   template |-> IF Deduced(f.type, own) THEN {f.type.alt} ELSE {},
   looksUp |-> CppName(f.name, FieldWords), method |-> FALSE]

-----------------------------------------------------------------------------
PipelineInit ==
  /\ jar \in Jars
  /\ step = "open" /\ status = 0
  /\ classes = <<>> /\ text = <<>> /\ members_list = <<>>
  /\ wrapped = <<>> /\ results = <<>>
  /\ input = <<>> /\ methods = <<>> /\ stage = "done"
  /\ lower = 1 /\ overloads = <<>> /\ count = 0

(* The status of a process that returns rc, and what std::system returns   *)
(* for one that has exited with a code.                                    *)
Status(rc) == rc % 256
Waited(code) == 256 * code

Return(rc) ==
  /\ step' = "exit" /\ status' = Status(rc)
  /\ UNCHANGED <<vars, jar, classes, text, members_list, wrapped, results>>

CannotOpen == step = "open" /\ jar = Unreadable /\ Return(-1)

(* jar tf and the greps; the last of these fails when it prints nothing. *)
Listed == At(jar, {k \in DOMAIN jar : jar[k].name \notin Filtered})

NothingListed ==
  step = "open" /\ jar # Unreadable /\ Listed = <<>> /\ Return(Waited(1))

List ==
  /\ step = "open" /\ jar # Unreadable /\ Listed # <<>>
  /\ \E wanted \in {At(Listed, {k \in DOMAIN Listed : Listed[k].name \notin Excluded})} :
       LET names == [k \in DOMAIN wanted |-> wanted[k].name]
           sorted == StableSort(StringBefore, names)
       IN  classes' = [k \in DOMAIN sorted |-> Unsuffixed(sorted[k])]
  /\ step' = "javap"
  /\ UNCHANGED <<vars, jar, status, text, members_list, wrapped, results>>

EntryOf(name) == CHOOSE e \in ToSet(jar) : Unsuffixed(e.name) = name

(* javap fails when it is given no class, or what is not one. *)
Readable == classes # <<>> /\ \A name \in ToSet(classes) : EntryOf(name).isClass

JavapFails == step = "javap" /\ ~Readable /\ Return(Waited(1))

(* javap prints the classes in the order that they were given. *)
Printed(e) == <<[is |-> "{"]>> \o e.members \o <<[is |-> "}"]>>
Javap ==
  /\ step = "javap" /\ Readable
  /\ text' = FlattenSeq([k \in DOMAIN classes |-> Printed(EntryOf(classes[k]))])
  /\ step' = "split"
  /\ UNCHANGED <<vars, jar, status, classes, members_list, wrapped, results>>

Split ==
  /\ step = "split"
  /\ \E pieces \in {Pieces(text)} :
       members_list' = [p \in DOMAIN pieces |-> AfterBrace(pieces[p])]
  /\ step' = "members"
  /\ UNCHANGED <<vars, jar, status, classes, text, wrapped, results>>

Piece == Erased(members_list[Len(wrapped) + 1])

(* process_members is called for the next piece. *)
Parse ==
  /\ step = "members" /\ Len(wrapped) < Len(members_list)
  /\ \E piece \in {Piece} : input' = Lines(piece, "method")
  /\ methods' = input' /\ stage' = "arity"
  /\ lower' = 1 /\ overloads' = <<>> /\ count' = 0
  /\ step' = "collapse"
  /\ UNCHANGED <<jar, status, classes, text, members_list, wrapped, results>>

(* The methods are sorted and collapsed. *)
CollapseMethods == step = "collapse" /\ Next /\ UNCHANGED generated

(* ... and the functions written, those of the fields first. *)
Wrap ==
  /\ step = "collapse" /\ stage = "done"
  /\ \E piece \in {Piece} :
       LET own == ClassName(input)
           fields == Lines(piece, "field")
       IN  wrapped' = Append(wrapped,
             [k \in DOMAIN fields |-> FieldFunction(fields[k], own)]
             \o [k \in DOMAIN overloads |-> MethodFunction(overloads[k], own)])
  /\ step' = "members"
  /\ UNCHANGED <<vars, jar, status, classes, text, members_list, results>>

(* inner_product pairs each name with the piece at its place.  There is    *)
(* always one piece more than there are classes.                           *)
Output ==
  /\ step = "members" /\ Len(wrapped) = Len(members_list)
  /\ results' = [k \in DOMAIN classes |->
       [macro |-> Macro(classes[k]), signature |-> Signature(classes[k]),
        namespaces |-> Namespaces(classes[k]), functions |-> wrapped[k]]]
  /\ step' = "exit"
  /\ UNCHANGED <<vars, jar, status, classes, text, members_list, wrapped>>

PipelineNext ==
  \/ CannotOpen \/ NothingListed \/ List \/ JavapFails \/ Javap \/ Split
  \/ Parse \/ CollapseMethods \/ Wrap \/ Output

PipelineSpec ==
  PipelineInit /\ [][PipelineNext]_allVars /\ WF_allVars(PipelineNext)

-----------------------------------------------------------------------------
(* No constant of a class has a brace, and no part of it a bracket that is *)
(* not in a pair: a generic type has only pairs.                           *)
Whole(t) ==
  /\ \A k \in DOMAIN t : t[k].is # "}"
  /\ \A k \in DOMAIN t :
       Cardinality({j \in 1..k : t[j].is = ">"})
         <= Cardinality({j \in 1..k : t[j].is = "<"})
  /\ Len(SelectSeq(t, LAMBDA c : c.is = "<")) = Len(SelectSeq(t, LAMBDA c : c.is = ">"))

(* How a class without such constants is written: its members are outside  *)
(* of brackets, and after each, but for what is in brackets, comes its     *)
(* semicolon.                                                              *)
InBrackets(t, k) ==
  \/ Cardinality({j \in 1..k : t[j].is = "<"}) # Cardinality({j \in 1..k : t[j].is = ">"})
  \/ t[k].is = ">"
MembersEnd(t) ==
  \A k \in DOMAIN t : t[k].is \in {"method", "field"} =>
    /\ ~InBrackets(t, k)
    /\ \E j \in DOMAIN t : /\ k < j /\ t[j].is = ";" /\ ~InBrackets(t, j)
                           /\ \A i \in k + 1..j - 1 : InBrackets(t, i)

ASSUME MembersWritten ==
  \A entries \in Jars \ {Unreadable} : \A e \in ToSet(entries) :
    Whole(e.members) => MembersEnd(e.members)

Members(e, is) == {t.what : t \in {t \in ToSet(e.members) : t.is = is}}

(* Each class gets the wrapper that is made of its own members, all of         *)
(* them, and of no others: the cutting of javap's output at braces, the        *)
(* erasing of generic arguments and the pairing by position give every class   *)
(* its own, as long as no constant of it, or of a class before it, has a brace *)
(* or a bracket alone.                                                         *)
OwnMembers ==
  \A k \in DOMAIN results :
    LET e == EntryOf(classes[k])
        fs == ToSet(results[k].functions)
        Named(m, f) == f.method /\ f.name = CppName(m.name, MethodWords)
                                /\ Len(f.params) = Len(m.args)
    IN  (\A j \in 1..k : Whole(EntryOf(classes[j]).members)) =>
          /\ \A m \in Members(e, "method") : \E f \in fs : Named(m, f)
          /\ \A f \in fs : f.method => \E m \in Members(e, "method") : Named(m, f)
          /\ {f.name : f \in {f \in fs : ~f.method}}
               = {CppName(f.name, FieldWords) : f \in Members(e, "field")}

(* No class has two functions with the same name and parameters, but for a *)
(* field and a method without arguments that have one name.                *)
NoFunctionTwice ==
  \A k \in DOMAIN wrapped : \A f, g \in DOMAIN wrapped[k] :
    LET F == wrapped[k][f]   G == wrapped[k][g]
    IN  f # g /\ F.name = G.name /\ F.params = G.params
        => F.method # G.method

(* What is written is well formed: no function is defined twice in a class, *)
(* and every class whose text is written has its piece.                     *)
WellFormed == PipelineTypeOK /\ NoFunctionTwice

(* The program ends. *)
Ends == <>(step = "exit")

=============================================================================
