------------------------------ MODULE Threads ------------------------------
(***************************************************************************)
(* jObject::getClass by several threads, added to Lifecycle: native        *)
(* methods of a library run on whatever thread Java calls them on, and the *)
(* static jClass of a class is one variable for all of them, written       *)
(* without a lock when its first construction found no class.              *)
(*                                                                         *)
(* One read or write of its member obj is one step.  The tag beside it is  *)
(* left out: it is that of a global reference whenever obj is not null.    *)
(* Assumed: no thread is in native code when the VM ends (a daemon thread  *)
(* may be), and JNI calls of every thread work through the one env.        *)
(***************************************************************************)
EXTENDS Lifecycle

CONSTANTS
  Workers,   \* threads that call native methods
  Main,      \* the thread that loads the library, or runs main
  Refs,      \* global references the JVM can hand out
  None       \* the null reference

ASSUME MainWorks == Main \in Workers
ASSUME NoneNotRef == None \notin Refs

VARIABLES
  pc,      \* pc[t]: where t is in getClass, or in the call that follows it
  asks,    \* asks[t]: the class it is for
  temp,    \* temp[t]: the reference of the temporary jClass
  seen,    \* seen[t]: what t has read of obj
  obj,     \* obj[c]: clazz.ref.obj of the static jClass of c
  live,    \* the global references that are not deleted
  stale,   \* a class reference was given to JNI after it was deleted
  raced    \* the classes two threads were assigning at a time

own == <<pc, asks, temp, seen>>
shared == <<obj, live, stale, raced>>
life == <<use, failed, phase, vm, env, local>>

Making == {"make", "destroy", "delete", "clear", "swap", "write", "drop"}
Places == {"idle", "check", "return", "call"} \cup Making

ThreadsTypeOK ==
  /\ pc \in [Workers -> Places]
  /\ asks \in [Workers -> Classes]
  /\ temp \in [Workers -> Refs \cup {None}]
  /\ seen \in [Workers -> Refs \cup {None}]
  /\ obj \in [Classes -> Refs \cup {None}]
  /\ live \subseteq Refs
  /\ stale \in BOOLEAN /\ raced \subseteq Classes

ThreadsInit ==
  /\ Init
  /\ pc = [t \in Workers |-> "idle"]
  /\ asks \in [Workers -> Classes]
  /\ temp = [t \in Workers |-> None]
  /\ seen = [t \in Workers |-> None]
  /\ obj = [c \in Classes |-> None]
  /\ live = {} /\ stale = FALSE /\ raced = {}

-----------------------------------------------------------------------------
(* The threads that run: the native methods of a library are called on all  *)
(* of them, main and VMInit run on one.                                      *)
Running(t) == phase = "running" /\ (use = "library" \/ t = Main)

At(t, place) == Running(t) /\ pc[t] = place
Goto(t, place) == pc' = [pc EXCEPT ![t] = place]

(* FindClass and NewGlobalRef: a reference that is not in use, or null.     *)
Found(r) == r = None \/ r \in Refs \ live
Added(r) == live' = live \cup ({r} \ {None})

(* The member obj of c's static jClass is written. *)
SetObj(c, r) ==
  /\ obj' = [obj EXCEPT ![c] = r]
  /\ clazz' = [clazz EXCEPT ![c] = IF r = None THEN "null" ELSE "held"]

(* The reference r, read from a jClass, is given to JNI. *)
Given(r) == stale' = (stale \/ r \notin live \cup {None})

(* The classes that t begins to assign while another thread does. *)
Races(t) == {asks[t]} \cap {asks[u] : u \in {w \in Workers : pc[w] \in Making}}

(* t calls getClass() for c.  The first call constructs the static object,  *)
(* while the C++ runtime keeps all others waiting.                          *)
AskClass(t, c) ==
  /\ At(t, "idle")
  /\ Goto(t, "check")
  /\ asks' = [asks EXCEPT ![t] = c]
  /\ IF clazz[c] = "absent"
     THEN /\ GetClass(c)
          /\ \E r \in Refs \cup {None} :
               /\ Found(r) /\ (r = None <=> clazz'[c] = "null")
               /\ obj' = [obj EXCEPT ![c] = r]
               /\ Added(r)
     ELSE UNCHANGED <<life, clazz, obj, live>> /\ NoCall
  /\ UNCHANGED <<temp, seen, stale, raced>>

(* A slip: the class is made again whether it was found or not. *)
CheckNothing(t) ==
  /\ At(t, "check")
  /\ Goto(t, "make")
  /\ raced' = raced \cup Races(t)
  /\ UNCHANGED <<life, clazz, asks, temp, seen, obj, live, stale>> /\ NoCall

(* if (!clazz.ref.obj) *)
Check(t) ==
  /\ At(t, "check")
  /\ IF obj[asks[t]] # None
     THEN Goto(t, "return") /\ raced' = raced
     ELSE Goto(t, "make") /\ raced' = raced \cup Races(t)
  /\ UNCHANGED <<life, clazz, asks, temp, seen, obj, live, stale>> /\ NoCall

(* jClass{} *)
MakeClass(t) ==
  /\ At(t, "make")
  /\ \E r \in Refs \cup {None} :
       /\ Found(r) /\ (env \/ r = None)
       /\ temp' = [temp EXCEPT ![t] = r]
       /\ Added(r)
  /\ Goto(t, "destroy")
  /\ IF env THEN JniCall ELSE NoCall
  /\ UNCHANGED <<life, clazz, asks, seen, obj, stale, raced>>

(* clazz = ...: the assignment destroys what clazz refers to; the           *)
(* destructor returns if that is null, or if there is no environment.       *)
DestroyOld(t) ==
  /\ At(t, "destroy")
  /\ Goto(t, IF obj[asks[t]] = None \/ ~env THEN "swap" ELSE "delete")
  /\ seen' = [seen EXCEPT ![t] = obj[asks[t]]]
  /\ UNCHANGED <<life, clazz, asks, temp, shared>> /\ NoCall

(* DeleteGlobalRef(obj), of what was read before or is read again.          *)
DeleteOld(t) ==
  /\ At(t, "delete")
  /\ \E r \in {seen[t], obj[asks[t]]} :
       Given(r) /\ live' = live \ {r}
  /\ Goto(t, "clear")
  /\ JniCall
  /\ UNCHANGED <<life, clazz, asks, temp, seen, obj, raced>>

(* obj = nullptr, the end of the destructor *)
ClearOld(t) ==
  /\ At(t, "clear")
  /\ SetObj(asks[t], None)
  /\ Goto(t, "swap")
  /\ UNCHANGED <<life, asks, temp, seen, live, stale, raced>> /\ NoCall

(* std::swap(obj, ref.obj): obj is read, ... *)
SwapRead(t) ==
  /\ At(t, "swap")
  /\ seen' = [seen EXCEPT ![t] = obj[asks[t]]]
  /\ Goto(t, "write")
  /\ UNCHANGED <<life, clazz, asks, temp, shared>> /\ NoCall

(* A slip: the temporary is written before it is read. *)
SwapWriteLate(t) ==
  /\ At(t, "write")
  /\ SetObj(asks[t], seen[t])
  /\ temp' = [temp EXCEPT ![t] = seen[t]]
  /\ Goto(t, "drop")
  /\ UNCHANGED <<life, asks, seen, live, stale, raced>> /\ NoCall

(* ... and written, and the temporary gets what was read. *)
SwapWrite(t) ==
  /\ At(t, "write")
  /\ SetObj(asks[t], temp[t])
  /\ temp' = [temp EXCEPT ![t] = seen[t]]
  /\ Goto(t, "drop")
  /\ UNCHANGED <<life, asks, seen, live, stale, raced>> /\ NoCall

(* The temporary is destroyed. *)
DropTemp(t) ==
  /\ At(t, "drop")
  /\ temp' = [temp EXCEPT ![t] = None]
  /\ IF temp[t] # None /\ env
     THEN Given(temp[t]) /\ live' = live \ {temp[t]} /\ JniCall
     ELSE UNCHANGED <<stale, live>> /\ NoCall
  /\ Goto(t, "return")
  /\ UNCHANGED <<life, clazz, asks, seen, obj, raced>>

(* The conversion of clazz to jclass reads obj for a call ... *)
ReadClass(t) ==
  /\ At(t, "return")
  /\ seen' = [seen EXCEPT ![t] = obj[asks[t]]]
  /\ Goto(t, "call")
  /\ UNCHANGED <<life, clazz, asks, temp, shared>> /\ NoCall

(* ... that is made with it: GetMethodID, NewObject, CallStatic...Method.   *)
CallWithClass(t) ==
  /\ At(t, "call")
  /\ Given(seen[t])
  /\ seen' = [seen EXCEPT ![t] = None]
  /\ UseClass(asks[t])
  /\ Goto(t, "idle")
  /\ UNCHANGED <<asks, temp, obj, live, raced>>

(* What Lifecycle says of the process, between the calls of the threads.    *)
Process ==
  /\ \A t \in Workers : pc[t] = "idle"
  /\ \/ CreateVm \/ OnLoad \/ VMInit \/ MakeLocal \/ DestroyLocal
     \/ DestroyVm \/ VmEnds \/ End
  /\ UNCHANGED <<own, shared>>

(* The static jClass of c is destroyed. *)
DestroyClass(c) ==
  /\ DestroyStatic(c)
  /\ IF env
     THEN Given(obj[c]) /\ live' = live \ {obj[c]}
     ELSE UNCHANGED <<stale, live>>
  /\ obj' = [obj EXCEPT ![c] = None]
  /\ UNCHANGED <<own, raced>>

ThreadsNext ==
  \/ Process
  \/ \E c \in Classes : DestroyClass(c)
  \/ \E t \in Workers :
       \/ \E c \in Classes : AskClass(t, c)
       \/ Check(t) \/ MakeClass(t)
       \/ DestroyOld(t) \/ DeleteOld(t) \/ ClearOld(t)
       \/ SwapRead(t) \/ SwapWrite(t) \/ DropTemp(t)
       \/ ReadClass(t) \/ CallWithClass(t)

ThreadsSpec == ThreadsInit /\ [][ThreadsNext]_<<vars, own, shared>>

-----------------------------------------------------------------------------
(* A class reference is never given to JNI after it was deleted, neither to *)
(* a call nor to another deletion, unless two threads were in the           *)
(* assignment of getClass for a class at one time, both of which had found  *)
(* its jClass null.  (A race for one class can take the reference of        *)
(* another, as the JVM hands out deleted references again.)                 *)
StaleOnlyByRace == stale => raced # {}

(* A class that was found is never written again while the process runs,    *)
(* but by threads that were in the assignment together: what every cached   *)
(* jmethodID and jfieldID rests on, which are looked up in it.              *)
FoundClassStays ==
  [][\A c \in Classes :
       phase = "running" /\ obj[c] # None /\ c \notin raced
         => obj'[c] = obj[c]]_<<vars, own, shared>>

(* While the process runs every global reference that getClass has made is  *)
(* with a static jClass or with the temporary of a thread, unless two       *)
(* threads were in the assignment at one time: none is leaked.              *)
ClassRefsKept ==
  phase = "running" /\ raced = {} =>
    \A r \in live : \/ \E c \in Classes : obj[c] = r
                    \/ \E t \in Workers : temp[t] = r

(* Until there is such a race the threads together do what Lifecycle says   *)
(* of one: its theorems hold for them.                                      *)
OneThreadLike == Init /\ [][Next \/ raced' # {}]_vars
=============================================================================
