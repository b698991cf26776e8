------------------------ MODULE MCOverloadCollapse ------------------------
(***************************************************************************)
(* Two native types (1 and 3) with two other classes (2 and 4) between and *)
(* after them in string order, arrays of rank one of a native and of a     *)
(* class, and up to two parameters: with up to four methods of one name    *)
(* everything the sorts have to bring together occurs apart.               *)
(***************************************************************************)
EXTENDS OverloadCollapse

NativeNames == {1, 3}

T(b, r) == [alt |-> <<b>>, rank |-> r]
Types == {T(1, 0), T(2, 0), T(3, 0), T(4, 0), T(2, 1), T(3, 1)}
Fewer == {T(1, 0), T(2, 0), T(4, 0), T(2, 1)}

ArgLists == {<<>>} \cup {<<t>> : t \in Types} \cup (Fewer \X Fewer)

(* A method returns void, or its class if its first argument is generic. *)
Method(a) ==
  [name |-> 7, args |-> a,
   ret |-> IF a # <<>> /\ ~IsNative(Head(a)) THEN T(2, 0) ELSE T(1, 0)]

Named(a, n) == [Method(a) EXCEPT !.name = n]

(* Up to three overloads of one name, in any one order, since the sort by   *)
(* arity may bring them in any other... *)
OneName ==
  {SetToSeq(S) : S \in UNION {kSubset(k, {Method(a) : a \in ArgLists})
                              : k \in 0..3}}

(* ...and four, of two names, with one parameter each or an array and two. *)
TwoNames ==
  {SetToSeq(S) : S \in
     kSubset(4, {Named(<<t>>, n) : t \in Fewer, n \in {6, 7}}
                \cup {Method(<<T(2, 0), T(4, 0)>>), Method(<<>>)})}

Classes == OneName \cup TwoNames

=============================================================================
