---------------------------- MODULE MemberCache ----------------------------
(***************************************************************************)
(* How no-jni.hpp finds the ID of a method or field.  Each wrapper class   *)
(* keeps, for each of the JNI getters, a static table of the IDs of the    *)
(* members it declares, filled on first use.  A lookup that the table of   *)
(* its own class does not answer walks up the superclasses; all the way up *)
(* it keeps the jclass of the class it started from.  The tables are       *)
(* static and shared by all threads, without a lock.                       *)
(*                                                                         *)
(* A lookup that fails leaves an exception pending, which nothing here     *)
(* clears.  What JNI answers to a lookup made then is not defined: here it *)
(* finds the member or does not.                                           *)
(*                                                                         *)
(* Ids stand for what an ID makes run: two IDs that virtual dispatch takes *)
(* to the same method of the receiver are one element of Ids.              *)
(***************************************************************************)
EXTENDS Naturals, Sequences

CONSTANTS
  Threads,
  Classes,   \* wrapper classes
  Super,     \* Super[K]: superclass_type of K; the root is its own
  Ancestors, \* Ancestors[K]: K and the superclasses above it
  Members,   \* member names with their signatures
  Table,     \* Table[K]: method_signatures (or field_signatures) of K
  Getters,   \* GetMethodID, GetStaticMethodID (or the field getters)
  Ids,       \* jmethodIDs (or jfieldIDs)
  NoId,      \* the null ID
  Lookup,    \* Lookup[g][C][s]: what getter g answers for member s of class C
  Sites      \* the calls in the program: <<class, getter, member>>

ASSUME SuperType == Super \in [Classes -> Classes]
ASSUME AncestorsClosed ==
  \A C \in Classes : /\ C \in Ancestors[C] /\ Ancestors[C] \subseteq Classes
                     /\ \A K \in Ancestors[C] : Super[K] \in Ancestors[C]
ASSUME TableType == \A K \in Classes : Table[K] \in Seq(Members) \ {<<>>}
ASSUME LookupType ==
  Lookup \in [Getters -> [Classes -> [Members -> Ids \cup {NoId}]]]
ASSUME NoIdNotId == NoId \notin Ids
ASSUME SitesType == Sites \subseteq Classes \X Getters \X Members
                    /\ Sites # {}

VARIABLES
  members,   \* members[g][K][s]: the static table of find_member, by member
  pc,        \* where each thread is
  site,      \* the call it is looking up a member for
  level,     \* the class whose get_member is on top of its stack
  next,      \* the table entry init_members fills next
  found,     \* m: the ID found so far
  pending,   \* the thread has a Java exception pending
  clean      \* it had none when it began the lookup

lookupVars == <<members, pc, site, level, next, found, pending, clean>>

Entry(K) == 1..Len(Table[K])
Start(t) == site[t][1]
Getter(t) == site[t][2]
Member(t) == site[t][3]

(* The members for which member_index finds a place in the table of K. *)
Declared(K) == {Table[K][i] : i \in Entry(K)}

LookupTypeOK ==
  /\ members \in [Getters -> [Classes -> [Members -> Ids \cup {NoId}]]]
  /\ pc \in [Threads -> {"idle", "check", "init", "read", "direct", "call"}]
  /\ site \in [Threads -> Classes \X Getters \X Members]
  /\ level \in [Threads -> Classes]
  /\ next \in [Threads -> Nat]
  /\ found \in [Threads -> Ids \cup {NoId}]
  /\ pending \in [Threads -> BOOLEAN]
  /\ clean \in [Threads -> BOOLEAN]

NoSite == CHOOSE x \in Sites : TRUE

LookupInit ==
  /\ members = [g \in Getters |-> [K \in Classes |-> [s \in Members |-> NoId]]]
  /\ pc = [t \in Threads |-> "idle"]
  /\ site = [t \in Threads |-> NoSite]
  /\ level = [t \in Threads |-> Start(t)]
  /\ next = [t \in Threads |-> 1]
  /\ found = [t \in Threads |-> NoId]
  /\ pending = [t \in Threads |-> FALSE]
  /\ clean = [t \in Threads |-> TRUE]

-----------------------------------------------------------------------------
(* JNI *)

(* The ID of member s that JNI gives to thread t for the class its lookup  *)
(* started from, or null, and what else it may answer in the circumstances.*)
IdOf(t, s) == Lookup[Getter(t)][Start(t)][s]
Answers(t, s) == {IdOf(t, s)} \cup {id \in {NoId} : pending[t]}

(* A null answer is given with an exception. *)
Answered(t, id) == pending' = [pending EXCEPT ![t] = pending[t] \/ id = NoId]

(* The entry after the one that was filled is next, or the table is full. *)
Filled(t) ==
  IF next[t] = Len(Table[level[t]])
  THEN pc' = [pc EXCEPT ![t] = "read"] /\ next' = [next EXCEPT ![t] = 1]
  ELSE next' = [next EXCEPT ![t] = next[t] + 1] /\ UNCHANGED pc

-----------------------------------------------------------------------------
(* Slips; each stands in for the operation it is named after.              *)

(* The walk has no test for the class that is its own superclass. *)
AscendForever(t) == /\ pc' = [pc EXCEPT ![t] = "check"]
                    /\ level' = [level EXCEPT ![t] = Super[level[t]]]

(* The walk ends at the root, with no last resort. *)
AscendToRoot(t) ==
  IF Super[level[t]] = level[t]
  THEN pc' = [pc EXCEPT ![t] = "call"] /\ UNCHANGED level
  ELSE /\ pc' = [pc EXCEPT ![t] = "check"]
       /\ level' = [level EXCEPT ![t] = Super[level[t]]]

(* The entry is filled with the ID of its neighbour. *)
ResolvedOffByOne(t, K, i) ==
  Answers(t, Table[K][IF i = 1 THEN Len(Table[K]) ELSE i - 1])

(* A table is cleared before it is filled. *)
InitMemberAfresh(t) ==
  LET g == Getter(t)
      K == level[t]
  IN  /\ pc[t] = "init"
      /\ \E id \in Answers(t, Table[K][next[t]]) :
           /\ members' = [members EXCEPT ![g][K] =
                            [s \in Members |-> IF s = Table[K][next[t]] THEN id
                                              ELSE IF next[t] = 1 THEN NoId
                                              ELSE members[g][K][s]]]
           /\ Answered(t, id)
      /\ Filled(t)
      /\ UNCHANGED <<site, level, found, clean>>

-----------------------------------------------------------------------------
(* The client is done with the exception, or has returned to Java. *)
Settle(t) ==
  /\ pc[t] = "idle" /\ pending[t]
  /\ pending' = [pending EXCEPT ![t] = FALSE]
  /\ UNCHANGED <<members, pc, site, level, next, found, clean>>

(* call_, at_ or a constructor asks for a member of its class. *)
Enter(t, x) ==
  /\ pc[t] = "idle"
  /\ site' = [site EXCEPT ![t] = x]
  /\ level' = [level EXCEPT ![t] = x[1]]
  /\ clean' = [clean EXCEPT ![t] = ~pending[t]]
  /\ pc' = [pc EXCEPT ![t] = "check"]
  /\ UNCHANGED <<members, next, found, pending>>

(* After a level that found nothing: the superclass's get_member, which    *)
(* gets the same jclass, or at the root the lookup without a table.        *)
Ascend(t) ==
  IF Super[level[t]] = level[t]
  THEN pc' = [pc EXCEPT ![t] = "direct"] /\ UNCHANGED level
  ELSE /\ pc' = [pc EXCEPT ![t] = "check"]
       /\ level' = [level EXCEPT ![t] = Super[level[t]]]

(* find_member: i >= N, or the test of members[i]. *)
Check(t) ==
  /\ pc[t] = "check"
  /\ IF Member(t) \notin Declared(level[t])
     THEN Ascend(t)
     ELSE /\ pc' = [pc EXCEPT ![t] =
                      IF members[Getter(t)][level[t]][Member(t)] = NoId
                      THEN "init" ELSE "read"]
          /\ UNCHANGED level
  /\ UNCHANGED <<members, site, next, found, pending, clean>>

(* init_members: fills every entry of the table, one JNI call each, from   *)
(* the class the lookup started from, also after one of the calls failed.  *)
Resolved(t, K, i) == Answers(t, Table[K][i])

InitMember(t) ==
  LET K == level[t]
  IN  /\ pc[t] = "init"
      /\ \E id \in Resolved(t, K, next[t]) :
           /\ members' = [members EXCEPT ![Getter(t)][K][Table[K][next[t]]] = id]
           /\ Answered(t, id)
      /\ Filled(t)
      /\ UNCHANGED <<site, level, found, clean>>

(* return members[i], which is not the read that was tested. *)
Read(t) ==
  LET id == members[Getter(t)][level[t]][Member(t)]
  IN  /\ pc[t] = "read"
      /\ found' = [found EXCEPT ![t] = id]
      /\ IF id = NoId
         THEN Ascend(t)
         ELSE pc' = [pc EXCEPT ![t] = "call"] /\ UNCHANGED level
      /\ UNCHANGED <<members, site, next, pending, clean>>

(* The last resort of get_member: a JNI lookup that is not cached.  When   *)
(* it fails every level on the stack repeats it, to the same effect.       *)
Direct(t) ==
  /\ pc[t] = "direct"
  /\ \E id \in Answers(t, Member(t)) :
       /\ found' = [found EXCEPT ![t] = id]
       /\ Answered(t, id)
  /\ pc' = [pc EXCEPT ![t] = "call"]
  /\ UNCHANGED <<members, site, level, next, clean>>

(* call_ invokes the method, which may throw, or returns {} when there is  *)
(* none.  The variables of the lookup are gone.                            *)
Call(t) ==
  /\ pc[t] = "call"
  /\ pc' = [pc EXCEPT ![t] = "idle"]
  /\ \E throws \in BOOLEAN :
       /\ throws => found[t] # NoId
       /\ pending' = [pending EXCEPT ![t] = pending[t] \/ throws]
  /\ site' = [site EXCEPT ![t] = NoSite]
  /\ level' = [level EXCEPT ![t] = NoSite[1]]
  /\ found' = [found EXCEPT ![t] = NoId]
  /\ clean' = [clean EXCEPT ![t] = TRUE]
  /\ UNCHANGED <<members, next>>

Find(t) == Check(t) \/ InitMember(t) \/ Read(t) \/ Direct(t) \/ Call(t)
LookupNext ==
  \E t \in Threads : Find(t) \/ Settle(t) \/ \E x \in Sites : Enter(t, x)

(* A thread in the middle of a lookup is not stopped by any other. *)
Fairness == \A t \in Threads : WF_lookupVars(Find(t))
LookupSpec == LookupInit /\ [][LookupNext]_lookupVars /\ Fairness

-----------------------------------------------------------------------------
(* JNI gives one ID of member s to all classes that fill the table of K.   *)
(* Of a constructor it does not: those of a class and its superclass differ.*)
OneAnswer(g, K, s) ==
  \A C, D \in Classes :
    K \in Ancestors[C] \cap Ancestors[D] => Lookup[g][C][s] = Lookup[g][D][s]

(* That holds of the tables that may answer what t asks for. *)
Inherited(t) ==
  \A K \in Ancestors[Start(t)] :
    Member(t) \in Declared(K) => OneAnswer(Getter(t), K, Member(t))

OwnId(t) == found[t] # NoId => found[t] = IdOf(t, Member(t))

(* An ID that a lookup gives is the one JNI gives for the class it was      *)
(* asked of, whatever other classes and other threads, with or without an    *)
(* exception pending, have put into the tables and taken out again.          *)
RightMember == \A t \in Threads : pc[t] = "call" /\ Inherited(t) => OwnId(t)

(* The same of members that a class hides or does not inherit. *)
OwnMember == \A t \in Threads : pc[t] = "call" => OwnId(t)

(* A table that t may fill has a member that t's getter does not find. *)
Mixed(t) ==
  \E K \in Ancestors[Start(t)] :
    /\ Member(t) \in Declared(K)
    /\ \E s \in Declared(K) : IdOf(t, s) = NoId

(* A lookup that gives none, so that its call is skipped, has an exception   *)
(* to show for it; and there is no such member, or an exception was pending  *)
(* from the start, or one is of another member of a table.  What other        *)
(* threads fail to find, or overwrite with null, makes no lookup fail.        *)
MissExplained ==
  \A t \in Threads :
    pc[t] = "call" /\ found[t] = NoId =>
      /\ pending[t]
      /\ IdOf(t, Member(t)) = NoId \/ ~clean[t] \/ Mixed(t)

(* An ID once in a table stays, also when another thread fills the table a *)
(* second time, unless that thread has an exception pending: then null may  *)
(* come in its place, also between the read that is tested and the read     *)
(* that is returned.                                                        *)
CacheStable ==
  [][\A g \in Getters, K \in Classes, s \in Members :
       members[g][K][s] # NoId /\ members'[g][K][s] # members[g][K][s] =>
         \/ ~OneAnswer(g, K, s)
         \/ /\ members'[g][K][s] = NoId
            /\ \E t \in Threads : pc[t] = "init" /\ level[t] = K /\ pending[t]]_lookupVars

(* Every lookup ends, the ones for members that no class has included. *)
LookupEnds == \A t \in Threads : pc[t] = "check" ~> pc[t] = "call"
=============================================================================
