-------------------------------- MODULE Raii --------------------------------
(***************************************************************************)
(* What a RAII handle to a garbage collected object promises, with no      *)
(* reference table, no tag and no destructor in sight.  A C++ variable     *)
(* either names an object or names nothing.  An operation changes the      *)
(* variables it is applied to and no other: releasing one variable can     *)
(* never change what another one names.                                    *)
(***************************************************************************)
CONSTANTS Slots,     \* the C++ variables
          Objects,   \* the Java objects
          NoObject   \* what an empty variable names

VARIABLES val,       \* val[s]: the object variable s names, or NoObject
          strong     \* the variables that keep the object they name alive

vars == <<val, strong>>

Init == /\ val = [s \in Slots |-> NoObject]
        /\ strong = {}

-----------------------------------------------------------------------------
(* An empty variable comes to name an object. *)
Bind(s, o) == /\ val[s] = NoObject
              /\ val' = [val EXCEPT ![s] = o]
              /\ \/ strong' = strong \cup {s}
                 \/ strong' = strong

(* A copy drops what the destination named and makes it name what the      *)
(* source names, or nothing when the JVM has no reference left to give.    *)
Copy(d, s) == /\ d # s
              /\ \/ /\ val' = [val EXCEPT ![d] = val[s]]
                    /\ \/ strong' = strong \cup {d}
                       \/ strong' = strong \ {d}
                 \/ /\ val' = [val EXCEPT ![d] = NoObject]
                    /\ strong' = strong \ {d}

(* A move hands the object over and leaves the source empty. *)
Move(d, s) == /\ d # s
              /\ val' = [val EXCEPT ![d] = val[s], ![s] = NoObject]
              /\ strong' = IF s \in strong THEN (strong \ {s}) \cup {d}
                                           ELSE strong \ {d}

Clear(s) == /\ val' = [val EXCEPT ![s] = NoObject]
            /\ strong' = strong \ {s}

(* The collector takes an object that no variable keeps alive. *)
Fade(o) == /\ \A s \in strong : val[s] # o
           /\ val' = [s \in Slots |-> IF val[s] = o THEN NoObject ELSE val[s]]
           /\ UNCHANGED strong

(* The JVM is destroyed, and every object with it. *)
Shutdown == /\ val' = [s \in Slots |-> NoObject]
            /\ strong' = {}

Next == \/ \E s \in Slots, o \in Objects : Bind(s, o)
        \/ \E d, s \in Slots : Copy(d, s) \/ Move(d, s)
        \/ \E s \in Slots : Clear(s)
        \/ \E o \in Objects : Fade(o)
        \/ Shutdown

Spec == Init /\ [][Next]_vars
=============================================================================
