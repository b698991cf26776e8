--------------------------- MODULE ThreadsProofs ---------------------------
(***************************************************************************)
(* Proofs about Lifecycle and Threads: what the order of construction and  *)
(* destruction guarantees, for any set of wrapper classes, and what the    *)
(* unlocked assignment in getClass leaves intact, for any number of        *)
(* threads, classes and references.                                        *)
(***************************************************************************)
EXTENDS Threads, TLAPS

(* While the process runs there is an environment, if the VM could be made; *)
(* nothing has failed before the VM is made.                                 *)
EnvWhileRunning ==
  /\ phase = "running" /\ ~failed => env
  /\ phase = "start" => ~failed

(* The VM that loads the library is alive. *)
VmAtStart == phase = "start" /\ use # "launcher" => vm

(* Where main or the agent ends the VM, env does not outlive it. *)
EnvDies ==
  use # "library" => (env => vm)

(* Type correctness, for any number of classes. *)
THEOREM TypeCorrect == Spec => []TypeOK
<1>1. Init => TypeOK
  BY UsesType DEF Init, TypeOK
<1>2. TypeOK /\ [Next]_vars => TypeOK'
  <2> SUFFICES ASSUME TypeOK, [Next]_vars PROVE TypeOK'
    OBVIOUS
  <2> USE DEF TypeOK, JniCall, NoCall
  <2>1. CASE CreateVm \/ OnLoad \/ VMInit
    BY <2>1 DEF CreateVm, OnLoad, VMInit
  <2>2. CASE MakeLocal \/ DestroyLocal \/ DestroyVm \/ VmEnds \/ End
    BY <2>2 DEF MakeLocal, DestroyLocal, DestroyVm, VmEnds, End
  <2>3. ASSUME NEW c \in Classes, GetClass(c)
        PROVE  TypeOK'
    BY <2>3 DEF GetClass
  <2>4. ASSUME NEW c \in Classes, UseClass(c) \/ DestroyStatic(c)
        PROVE  TypeOK'
    BY <2>4 DEF UseClass, DestroyStatic
  <2>5. CASE UNCHANGED vars
    BY <2>5 DEF vars
  <2> QED
    BY <2>1, <2>2, <2>3, <2>4, <2>5 DEF Next
<1> QED
  BY <1>1, <1>2, PTL DEF Spec

(* The environment exists while the process runs, ... *)
LEMMA EnvWhileRunningStep == EnvWhileRunning /\ [Next]_vars => EnvWhileRunning'
<1> SUFFICES ASSUME EnvWhileRunning, [Next]_vars PROVE EnvWhileRunning'
  OBVIOUS
<1> USE DEF EnvWhileRunning
<1>1. CASE CreateVm
  <2>1. PICK ok \in BOOLEAN : env' = ok /\ failed' = ~ok /\ phase' = "running"
    BY <1>1 DEF CreateVm
  <2> QED
    BY <2>1
<1>2. CASE OnLoad \/ VMInit
  BY <1>2 DEF OnLoad, VMInit
<1>3. CASE MakeLocal \/ DestroyLocal \/ DestroyVm \/ VmEnds \/ End
  BY <1>3 DEF MakeLocal, DestroyLocal, DestroyVm, VmEnds, End
<1>4. ASSUME NEW c \in Classes, GetClass(c) \/ UseClass(c) \/ DestroyStatic(c)
      PROVE  EnvWhileRunning'
  BY <1>4 DEF GetClass, UseClass, DestroyStatic
<1>5. CASE UNCHANGED vars
  BY <1>5 DEF vars
<1> QED
  BY <1>1, <1>2, <1>3, <1>4, <1>5 DEF Next

(* The environment exists while the process runs: what the absence of null    *)
(* calls rests on.                                                             *)
LEMMA EnvWhileRunningHolds == Spec => []EnvWhileRunning
<1>1. Init => EnvWhileRunning
  BY DEF Init, EnvWhileRunning
<1> QED
  BY <1>1, EnvWhileRunningStep, PTL DEF Spec

(* ... so that no call goes through a null environment. *)
LEMMA NoNullCallStep == NoNullCall /\ EnvWhileRunning /\ [Next]_vars => NoNullCall'
<1> SUFFICES ASSUME NoNullCall, EnvWhileRunning, [Next]_vars PROVE NoNullCall'
  OBVIOUS
<1> USE DEF NoNullCall, EnvWhileRunning, JniCall, NoCall
<1>1. CASE CreateVm \/ OnLoad \/ VMInit
  BY <1>1 DEF CreateVm, OnLoad, VMInit
<1>2. CASE MakeLocal \/ DestroyLocal \/ DestroyVm \/ VmEnds \/ End
  BY <1>2 DEF MakeLocal, DestroyLocal, DestroyVm, VmEnds, End
<1>3. ASSUME NEW c \in Classes, GetClass(c) \/ UseClass(c) \/ DestroyStatic(c)
      PROVE  NoNullCall'
  BY <1>3 DEF GetClass, UseClass, DestroyStatic
<1>4. CASE UNCHANGED vars
  BY <1>4 DEF vars
<1> QED
  BY <1>1, <1>2, <1>3, <1>4 DEF Next

(* When the VM could be made, no JNI function is called through a null env:   *)
(* the destructors of static classes and of wrappers ask for env first.       *)
THEOREM NeverWithoutEnv == Spec => []NoNullCall
<1>1. Init => NoNullCall
  BY DEF Init, NoNullCall
<1> QED
  BY <1>1, NoNullCallStep, EnvWhileRunningHolds, PTL DEF Spec

(* env is cleared with the VM, ... *)
LEMMA EnvDiesStep == TypeOK /\ VmAtStart /\ EnvDies /\ [Next]_vars => (VmAtStart /\ EnvDies)'
<1> SUFFICES ASSUME TypeOK, VmAtStart, EnvDies, [Next]_vars
             PROVE  (VmAtStart /\ EnvDies)'
  OBVIOUS
<1> USE DEF VmAtStart, EnvDies
<1>1. CASE CreateVm
  BY <1>1 DEF CreateVm
<1>2. CASE OnLoad \/ VMInit
  BY <1>2 DEF OnLoad, VMInit
<1>3. CASE MakeLocal \/ DestroyLocal \/ DestroyVm \/ End
  BY <1>3 DEF MakeLocal, DestroyLocal, DestroyVm, End
<1>4. CASE VmEnds
  BY <1>4, UsesType DEF VmEnds, TypeOK
<1>5. ASSUME NEW c \in Classes, GetClass(c) \/ UseClass(c) \/ DestroyStatic(c)
      PROVE  (VmAtStart /\ EnvDies)'
  BY <1>5 DEF GetClass, UseClass, DestroyStatic
<1>6. CASE UNCHANGED vars
  BY <1>6 DEF vars
<1> QED
  BY <1>1, <1>2, <1>3, <1>4, <1>5, <1>6 DEF Next

(* Where main or the agent ends the VM, env does not outlive it. *)
LEMMA EnvDiesHolds == Spec => [](VmAtStart /\ EnvDies)
<1>1. Init => VmAtStart /\ EnvDies
  BY DEF Init, VmAtStart, EnvDies
<1> QED
  BY <1>1, EnvDiesStep, TypeCorrect, PTL DEF Spec

(* ... so that no call goes into a VM that has ended. *)
LEMMA NoDeadCallStep == NoDeadCall /\ EnvDies /\ [Next]_vars => NoDeadCall'
  BY DEF NoDeadCall, EnvDies, Next, vars, CreateVm, OnLoad, VMInit, GetClass,
     UseClass, MakeLocal, DestroyLocal, DestroyVm, VmEnds, DestroyStatic, End,
     JniCall, NoCall

(* Where main or the agent ends the VM, no static class is released through   *)
(* the environment of a VM that has ended.                                     *)
THEOREM NeverAfterTheVm == Spec => []NoDeadCall
<1>1. Init => NoDeadCall
  BY DEF Init, NoDeadCall
<1> QED
  BY <1>1, NoDeadCallStep, EnvDiesHolds, PTL DEF Spec

-----------------------------------------------------------------------------

(* What every step needs to know of the state: types, ... *)
Typed == TypeOK /\ ThreadsTypeOK

(* ... that threads are in getClass only while the process runs, for a     *)
(* class whose static object was constructed, and have a temporary only    *)
(* between its construction and its destructor, ...                        *)
Placed ==
  /\ \A t \in Workers : pc[t] # "idle" =>
        phase = "running" /\ clazz[asks[t]] # "absent"
  /\ \A t \in Workers :
        pc[t] \in {"idle", "check", "make", "return", "call"} => temp[t] = None
  /\ \A c \in Classes : clazz[c] = "held" <=> obj[c] # None
  /\ phase = "start" => live = {} /\ (use # "launcher" => vm)
  /\ phase = "running" => (env => vm)

(* ... and that a thread alone in the assignment finds the jClass as null  *)
(* as it was when it checked, up to its own write.                         *)
Alone ==
  /\ \A t, u \in Workers :
        t # u /\ pc[t] \in Making /\ pc[u] \in Making /\ asks[t] = asks[u]
          => asks[t] \in raced
  /\ \A t \in Workers : pc[t] \in Making /\ asks[t] \notin raced =>
        /\ pc[t] \notin {"delete", "clear"}
        /\ pc[t] # "drop" => obj[asks[t]] = None
        /\ pc[t] = "write" => seen[t] = None
        /\ pc[t] = "drop" => temp[t] = None

Shape == Typed /\ Placed /\ Alone

LEMMA InitShape == ThreadsInit => Shape
  BY UsesType, MainWorks, ZenonT(60) DEF ThreadsInit, Init, Shape, Typed, TypeOK, ThreadsTypeOK,
     Placed, Alone, Places, Making

(* The steps of a thread keep their shape ... *)
LEMMA ThreadKeepsShape ==
  ASSUME Shape, NEW t \in Workers,
         \/ \E c \in Classes : AskClass(t, c)
         \/ Check(t) \/ MakeClass(t)
         \/ DestroyOld(t) \/ DeleteOld(t) \/ ClearOld(t)
         \/ SwapRead(t) \/ SwapWrite(t) \/ DropTemp(t)
         \/ ReadClass(t) \/ CallWithClass(t)
  PROVE  Shape'
<1> USE NoneNotRef DEF Shape, Typed, TypeOK, ThreadsTypeOK, Placed, Alone, Places,
        Making, At, Running, Goto, life, shared, NoCall, JniCall, Given
<1>1. ASSUME NEW c \in Classes, AskClass(t, c) PROVE Shape'
  BY <1>1 DEF AskClass, GetClass, Found, Added
<1>2. CASE Check(t)
  BY <1>2 DEF Check, Races
<1>3. CASE MakeClass(t)
  BY <1>3 DEF MakeClass, Found, Added
<1>4. CASE DestroyOld(t)
  BY <1>4 DEF DestroyOld
<1>5. CASE DeleteOld(t)
  BY <1>5 DEF DeleteOld
<1>6. CASE ClearOld(t)
  BY <1>6 DEF ClearOld, SetObj
<1>7. CASE SwapRead(t)
  BY <1>7 DEF SwapRead
<1>8. CASE SwapWrite(t)
  BY <1>8 DEF SwapWrite, SetObj
<1>9. CASE DropTemp(t)
  BY <1>9 DEF DropTemp
<1>10. CASE ReadClass(t)
  BY <1>10 DEF ReadClass
<1>11. CASE CallWithClass(t)
  BY <1>11 DEF CallWithClass, UseClass
<1> QED
  BY <1>1, <1>2, <1>3, <1>4, <1>5, <1>6, <1>7, <1>8, <1>9, <1>10, <1>11

(* ... and so do those of the process, which leave the threads alone. *)
LEMMA ProcessKeepsShape ==
  ASSUME Shape, Process \/ (\E c \in Classes : DestroyClass(c))
  PROVE  Shape'
<1> USE NoneNotRef DEF Shape, Typed, ThreadsTypeOK, Placed, Alone, Places, Making,
        own, shared, NoCall, JniCall
<1>1. CASE Process
  <2>1. UNCHANGED <<own, shared, clazz>> /\ \A t \in Workers : pc[t] = "idle"
    BY <1>1 DEF Process, CreateVm, OnLoad, VMInit, MakeLocal, DestroyLocal,
       DestroyVm, VmEnds, End
  <2>2. TypeOK'
    <3>1. CASE CreateVm \/ OnLoad \/ VMInit
      BY <3>1 DEF CreateVm, OnLoad, VMInit, TypeOK
    <3>2. CASE MakeLocal \/ DestroyLocal \/ DestroyVm \/ VmEnds \/ End
      BY <3>2 DEF MakeLocal, DestroyLocal, DestroyVm, VmEnds, End, TypeOK
    <3> QED
      BY <1>1, <3>1, <3>2 DEF Process
  <2>3. phase' # "start" /\ (phase' = "running" => (env' => vm'))
    <3>1. CASE CreateVm
      <4>1. PICK ok \in BOOLEAN : vm' = ok /\ env' = ok
        BY <3>1 DEF CreateVm
      <4> QED
        BY <3>1, <4>1 DEF CreateVm
    <3>2. CASE OnLoad \/ VMInit
      BY <3>2 DEF OnLoad, VMInit
    <3>3. CASE MakeLocal \/ DestroyLocal
      BY <3>3 DEF MakeLocal, DestroyLocal
    <3>4. CASE DestroyVm \/ VmEnds \/ End
      BY <3>4 DEF DestroyVm, VmEnds, End
    <3> QED
      BY <1>1, <3>1, <3>2, <3>3, <3>4 DEF Process
  <2> QED
    BY <2>1, <2>2, <2>3
<1>2. ASSUME NEW c \in Classes, DestroyClass(c) PROVE Shape'
  BY <1>2 DEF DestroyClass, DestroyStatic, TypeOK, Given
<1> QED
  BY <1>1, <1>2

LEMMA NextKeepsShape ==
  Shape /\ [ThreadsNext]_<<vars, own, shared>> => Shape'
<1> SUFFICES ASSUME Shape, [ThreadsNext]_<<vars, own, shared>> PROVE Shape'
  OBVIOUS
<1>1. CASE ThreadsNext
  BY <1>1, ThreadKeepsShape, ProcessKeepsShape DEF ThreadsNext
<1>2. CASE UNCHANGED <<vars, own, shared>>
  BY <1>2 DEF vars, own, shared, Shape, Typed, TypeOK, ThreadsTypeOK, Placed, Alone
<1> QED
  BY <1>1, <1>2

LEMMA ShapeHolds == ThreadsSpec => []Shape
  BY InitShape, NextKeepsShape, PTL DEF ThreadsSpec

(* The threads keep the types of their own state and of Lifecycle's.       *)
THEOREM TypesCorrect == ThreadsSpec => []ThreadsTypeOK
<1>1. Shape => ThreadsTypeOK
  BY DEF Shape, Typed
<1> QED
  BY <1>1, ShapeHolds, PTL

(* A class that was found stays, however many threads ask for it: a thread *)
(* that writes obj has found it null, and if it is alone it still is.      *)
THEOREM FoundStays == ThreadsSpec => FoundClassStays
<1> DEFINE Stays == \A c \in Classes :
             phase = "running" /\ obj[c] # None /\ c \notin raced
               => obj'[c] = obj[c]
<1>1. Shape /\ [ThreadsNext]_<<vars, own, shared>> => [Stays]_<<vars, own, shared>>
  <2> SUFFICES ASSUME Shape, ThreadsNext,
                      NEW c \in Classes,
                      phase = "running", obj[c] # None, c \notin raced
               PROVE  obj'[c] = obj[c]
    OBVIOUS
  <2> USE DEF Shape, Typed, ThreadsTypeOK, Placed, Alone, Making, At, shared
  <2>1. CASE Process \/ \E d \in Classes : DestroyClass(d)
    BY <2>1 DEF Process, DestroyClass, DestroyStatic
  <2>2. ASSUME NEW t \in Workers, NEW d \in Classes, AskClass(t, d)
        PROVE  obj'[c] = obj[c]
    BY <2>2 DEF AskClass, GetClass
  <2>3. ASSUME NEW t \in Workers, ClearOld(t) \/ SwapWrite(t)
        PROVE  obj'[c] = obj[c]
    BY <2>3 DEF ClearOld, SwapWrite, SetObj
  <2>4. ASSUME NEW t \in Workers,
               \/ Check(t) \/ MakeClass(t) \/ DestroyOld(t) \/ DeleteOld(t)
               \/ SwapRead(t) \/ DropTemp(t) \/ ReadClass(t) \/ CallWithClass(t)
        PROVE  obj'[c] = obj[c]
    BY <2>4 DEF Check, MakeClass, DestroyOld, DeleteOld, SwapRead, DropTemp,
       ReadClass, CallWithClass
  <2> QED
    BY <2>1, <2>2, <2>3, <2>4 DEF ThreadsNext
<1> QED
  BY <1>1, ShapeHolds, PTL DEF ThreadsSpec, FoundClassStays

-----------------------------------------------------------------------------
(* Until there is a race every reference that getClass made has one place: *)
(* in a static jClass or in a temporary, where it is not deleted.  What a   *)
(* thread has read for a call stays, as nothing is deleted meanwhile.       *)
OnePlace ==
  /\ \A c \in Classes : obj[c] # None => obj[c] \in live
  /\ \A c, d \in Classes : obj[c] # None /\ obj[c] = obj[d] => c = d
  /\ \A t \in Workers : temp[t] # None =>
        /\ temp[t] \in live /\ env
        /\ \A c \in Classes : obj[c] # temp[t]
        /\ \A u \in Workers : temp[u] = temp[t] => u = t

Sound ==
  raced = {} => /\ OnePlace
                /\ \A t \in Workers : pc[t] = "call" /\ seen[t] # None
                                        => seen[t] \in live
                /\ ~stale
                /\ ClassRefsKept

LEMMA InitSound == ThreadsInit => Sound
  BY DEF ThreadsInit, Init, Sound, OnePlace, ClassRefsKept

LEMMA ThreadKeepsSound ==
  ASSUME Shape, Sound, raced' = {}, NEW t \in Workers,
         \/ \E c \in Classes : AskClass(t, c)
         \/ Check(t) \/ MakeClass(t)
         \/ DestroyOld(t) \/ DeleteOld(t) \/ ClearOld(t)
         \/ SwapRead(t) \/ SwapWrite(t) \/ DropTemp(t)
         \/ ReadClass(t) \/ CallWithClass(t)
  PROVE  Sound'
<1> USE NoneNotRef DEF Shape, Typed, ThreadsTypeOK, Placed, Alone, Sound, OnePlace,
        ClassRefsKept, Places, Making, At, Running, Goto, life, shared, Given
<1>1. raced = {}
  BY DEF AskClass, Check, MakeClass, DestroyOld, DeleteOld, ClearOld, SwapRead,
     SwapWrite, DropTemp, ReadClass, CallWithClass
<1>2. ASSUME NEW c \in Classes, AskClass(t, c) PROVE Sound'
  BY <1>1, <1>2 DEF AskClass, GetClass, Found, Added
<1>3. CASE MakeClass(t)
  BY <1>1, <1>3 DEF MakeClass, Found, Added
<1>4. CASE Check(t) \/ DestroyOld(t) \/ SwapRead(t)
  BY <1>1, <1>4 DEF Check, DestroyOld, SwapRead
<1>5. CASE DeleteOld(t) \/ ClearOld(t)
  BY <1>1, <1>5 DEF DeleteOld, ClearOld
<1>6. CASE SwapWrite(t)
  BY <1>1, <1>6 DEF SwapWrite, SetObj
<1>7. CASE DropTemp(t)
  BY <1>1, <1>7 DEF DropTemp
<1>8. CASE ReadClass(t)
  BY <1>1, <1>8 DEF ReadClass
<1>9. CASE CallWithClass(t)
  BY <1>1, <1>9 DEF CallWithClass, UseClass
<1> QED
  BY <1>2, <1>3, <1>4, <1>5, <1>6, <1>7, <1>8, <1>9

LEMMA ProcessKeepsSound ==
  ASSUME Shape, Sound, Process \/ (\E c \in Classes : DestroyClass(c))
  PROVE  Sound'
<1> USE NoneNotRef DEF Shape, Typed, ThreadsTypeOK, Placed, Sound, OnePlace,
        ClassRefsKept, own, shared
<1>1. CASE Process
  <2>1. /\ UNCHANGED <<own, shared, clazz>>
        /\ \A t \in Workers : pc[t] = "idle" /\ temp[t] = None
        /\ phase' = "running" => phase = "running" \/ live = {}
    BY <1>1 DEF Process, CreateVm, OnLoad, VMInit, MakeLocal, DestroyLocal,
       DestroyVm, VmEnds, End
  <2> QED
    BY <2>1
<1>2. ASSUME NEW c \in Classes, DestroyClass(c) PROVE Sound'
  BY <1>2 DEF DestroyClass, DestroyStatic, Given
<1> QED
  BY <1>1, <1>2

LEMMA SoundHolds == ThreadsSpec => []Sound
<1>1. Shape /\ Sound /\ [ThreadsNext]_<<vars, own, shared>> => Sound'
  <2> SUFFICES ASSUME Shape, Sound, [ThreadsNext]_<<vars, own, shared>> PROVE Sound'
    OBVIOUS
  <2>1. CASE ThreadsNext
    <3>1. CASE raced' # {}
      BY <3>1 DEF Sound
    <3>2. CASE raced' = {}
      BY <2>1, <3>2, ThreadKeepsSound, ProcessKeepsSound DEF ThreadsNext
    <3> QED
      BY <3>1, <3>2
  <2>2. CASE UNCHANGED <<vars, own, shared>>
    BY <2>2 DEF vars, own, shared, Sound, OnePlace, ClassRefsKept
  <2> QED
    BY <2>1, <2>2
<1> QED
  BY <1>1, InitSound, ShapeHolds, PTL DEF ThreadsSpec

(* Without a race no deleted class reference is ever given to JNI, ...     *)
THEOREM NoStaleClass == ThreadsSpec => []StaleOnlyByRace
<1>1. Sound => StaleOnlyByRace
  BY DEF Sound, StaleOnlyByRace
<1> QED
  BY <1>1, SoundHolds, PTL

(* ... and none is leaked while the process runs. *)
THEOREM NoClassLeaked == ThreadsSpec => []ClassRefsKept
<1>1. Sound => ClassRefsKept
  BY DEF Sound, ClassRefsKept
<1> QED
  BY <1>1, SoundHolds, PTL

-----------------------------------------------------------------------------
(* A call while the process runs with an environment does not count as one *)
(* through a null environment, nor as one after the VM's end.               *)
LEMMA CallsAreGood ==
  ASSUME Shape, phase = "running", env, JniCall
  PROVE  UNCHANGED <<nullCall, deadCall>>
<1>1. env = TRUE /\ vm = TRUE /\ nullCall \in BOOLEAN /\ deadCall \in BOOLEAN
  BY DEF Shape, Typed, Placed, TypeOK
<1> QED
  BY <1>1 DEF JniCall

(* Until there is a race, each step of a thread is a step of Lifecycle or  *)
(* changes nothing there: the assignment of the temporary is getClass, and *)
(* the call is the use of the class.                                        *)
LEMMA ThreadIsOne ==
  ASSUME Shape, Sound, raced' = {}, NEW t \in Workers,
         \/ \E c \in Classes : AskClass(t, c)
         \/ Check(t) \/ MakeClass(t)
         \/ DestroyOld(t) \/ DeleteOld(t) \/ ClearOld(t)
         \/ SwapRead(t) \/ SwapWrite(t) \/ DropTemp(t)
         \/ ReadClass(t) \/ CallWithClass(t)
  PROVE  Next \/ UNCHANGED vars
<1> USE NoneNotRef DEF At, Running, life, shared, NoCall, vars
<1>1. raced = {}
  BY DEF AskClass, Check, MakeClass, DestroyOld, DeleteOld, ClearOld, SwapRead,
     SwapWrite, DropTemp, ReadClass, CallWithClass
<1>2. asks[t] \in Classes
  BY DEF Shape, Typed, ThreadsTypeOK
<1>3. ASSUME NEW c \in Classes, AskClass(t, c) PROVE Next \/ UNCHANGED vars
  BY <1>3 DEF AskClass, Next
<1>4. CASE MakeClass(t)
  BY <1>4, CallsAreGood DEF MakeClass
<1>5. CASE Check(t) \/ DestroyOld(t) \/ SwapRead(t) \/ ReadClass(t)
  BY <1>5 DEF Check, DestroyOld, SwapRead, ReadClass
<1>6. CASE DeleteOld(t) \/ ClearOld(t)
  BY <1>1, <1>2, <1>6 DEF DeleteOld, ClearOld, Shape, Alone, Making
<1>7. CASE SwapWrite(t)
  <2>1. phase = "running" /\ clazz[asks[t]] = "null"
        /\ clazz \in [Classes -> {"absent", "null", "held"}]
    BY <1>1, <1>2, <1>7 DEF SwapWrite, Shape, Typed, TypeOK, Placed, Alone, Making
  <2>2. CASE temp[t] = None
    BY <1>2, <1>7, <2>1, <2>2 DEF SwapWrite, SetObj
  <2>3. CASE temp[t] # None
    <3>1. env
      BY <1>1, <2>3 DEF Sound, OnePlace
    <3>2. clazz' = [clazz EXCEPT ![asks[t]] = "held"]
          /\ UNCHANGED <<use, failed, phase, vm, env, local, nullCall, deadCall>>
      BY <1>7, <2>3 DEF SwapWrite, SetObj
    <3>3. JniCall
      <4>1. env = TRUE /\ vm = TRUE /\ nullCall \in BOOLEAN /\ deadCall \in BOOLEAN
        BY <2>1, <3>1 DEF Shape, Typed, Placed, TypeOK
      <4> QED
        BY <3>2, <4>1 DEF JniCall
    <3>4. GetClass(asks[t])
      BY <2>1, <3>1, <3>2, <3>3 DEF GetClass
    <3> QED
      BY <1>2, <3>4 DEF Next
  <2> QED
    BY <2>2, <2>3
<1>8. CASE DropTemp(t)
  BY <1>1, <1>8 DEF DropTemp, Shape, Alone, Making
<1>9. CASE CallWithClass(t)
  BY <1>2, <1>9 DEF CallWithClass, Next
<1> QED
  BY <1>3, <1>4, <1>5, <1>6, <1>7, <1>8, <1>9

(* The threads together do what Lifecycle says of one thread until two of  *)
(* them assign a static jClass at one time.                                 *)
THEOREM ThreadsActAsOne == ThreadsSpec => OneThreadLike
<1>1. Shape /\ Sound /\ [ThreadsNext]_<<vars, own, shared>>
        => [Next \/ raced' # {}]_vars
  <2> SUFFICES ASSUME Shape, Sound, [ThreadsNext]_<<vars, own, shared>>, raced' = {}
               PROVE  Next \/ UNCHANGED vars
    OBVIOUS
  <2>1. CASE Process
    BY <2>1 DEF Process, Next
  <2>2. ASSUME NEW c \in Classes, DestroyClass(c) PROVE Next \/ UNCHANGED vars
    BY <2>2 DEF DestroyClass, Next
  <2>3. CASE UNCHANGED <<vars, own, shared>>
    BY <2>3
  <2> QED
    BY <2>1, <2>2, <2>3, ThreadIsOne DEF ThreadsNext
<1>2. ThreadsInit => Init
  BY DEF ThreadsInit
<1> QED
  BY <1>1, <1>2, ShapeHolds, SoundHolds, PTL DEF ThreadsSpec, OneThreadLike

-----------------------------------------------------------------------------
(* What the process guarantees does not depend on the races of its threads: *)
(* a step of a thread either asks for env or is the use of a class, which    *)
(* only a running process makes.                                              *)
EnvKept == EnvWhileRunning /\ VmAtStart /\ EnvDies /\ NoNullCall /\ NoDeadCall

(* Each step of Lifecycle keeps that, ... *)
LEMMA NextKeepsEnv == TypeOK /\ EnvKept /\ [Next]_vars => EnvKept'
  BY EnvWhileRunningStep, NoNullCallStep, EnvDiesStep, NoDeadCallStep DEF EnvKept

(* ... and a step of a thread that leaves the process as it was keeps it if  *)
(* it calls JNI only where there is an environment, or never was one.         *)
LEMMA CallKeepsEnv ==
  ASSUME EnvKept, UNCHANGED life, NoCall \/ ((env \/ failed) /\ JniCall)
  PROVE  EnvKept'
<1>1. (EnvWhileRunning /\ VmAtStart /\ EnvDies)'
  BY DEF EnvKept, EnvWhileRunning, VmAtStart, EnvDies, life
<1>2. NoNullCall'
  BY DEF EnvKept, NoNullCall, life, NoCall, JniCall
<1>3. NoDeadCall'
  BY DEF EnvKept, EnvDies, NoDeadCall, life, NoCall, JniCall
<1> QED
  BY <1>1, <1>2, <1>3 DEF EnvKept

(* A step of a thread is the first construction of a static jClass, the use  *)
(* of a class, or leaves the process as it was.                               *)
LEMMA ThreadKeepsEnv ==
  ASSUME Shape, EnvKept, NEW t \in Workers,
         \/ \E c \in Classes : AskClass(t, c)
         \/ Check(t) \/ MakeClass(t)
         \/ DestroyOld(t) \/ DeleteOld(t) \/ ClearOld(t)
         \/ SwapRead(t) \/ SwapWrite(t) \/ DropTemp(t)
         \/ ReadClass(t) \/ CallWithClass(t)
  PROVE  EnvKept'
<1>1. TypeOK /\ asks[t] \in Classes
  BY DEF Shape, Typed, ThreadsTypeOK
<1>2. ASSUME NEW c \in Classes, AskClass(t, c) PROVE EnvKept'
  <2>1. CASE clazz[c] = "absent"
    BY <1>1, <1>2, <2>1, NextKeepsEnv DEF AskClass, Next
  <2>2. CASE clazz[c] # "absent"
    BY <1>2, <2>2, CallKeepsEnv DEF AskClass
  <2> QED
    BY <2>1, <2>2
<1>3. CASE Check(t) \/ DestroyOld(t) \/ ClearOld(t) \/ SwapRead(t) \/ SwapWrite(t)
           \/ ReadClass(t)
  BY <1>3, CallKeepsEnv DEF Check, DestroyOld, ClearOld, SwapRead, SwapWrite, ReadClass
<1>4. CASE MakeClass(t) \/ DropTemp(t)
  BY <1>4, CallKeepsEnv DEF MakeClass, DropTemp
<1>5. CASE DeleteOld(t)
  <2>1. env \/ failed
    BY <1>5 DEF DeleteOld, EnvKept, EnvWhileRunning, At, Running
  <2> QED
    BY <1>5, <2>1, CallKeepsEnv DEF DeleteOld
<1>6. CASE CallWithClass(t)
  BY <1>1, <1>6, NextKeepsEnv DEF CallWithClass, Next
<1> QED
  BY <1>2, <1>3, <1>4, <1>5, <1>6

LEMMA EnvKeptHolds == ThreadsSpec => []EnvKept
<1>1. ThreadsInit => EnvKept
  BY DEF ThreadsInit, Init, EnvKept, EnvWhileRunning, VmAtStart, EnvDies, NoNullCall,
     NoDeadCall
<1>2. Shape /\ EnvKept /\ [ThreadsNext]_<<vars, own, shared>> => EnvKept'
  <2> SUFFICES ASSUME Shape, EnvKept, [ThreadsNext]_<<vars, own, shared>>
               PROVE  EnvKept'
    OBVIOUS
  <2>1. TypeOK
    BY DEF Shape, Typed
  <2>2. CASE Process \/ \E c \in Classes : DestroyClass(c)
    BY <2>1, <2>2, NextKeepsEnv DEF Process, DestroyClass, Next
  <2>3. CASE UNCHANGED <<vars, own, shared>>
    BY <2>1, <2>3, NextKeepsEnv
  <2> QED
    BY <2>2, <2>3, ThreadKeepsEnv DEF ThreadsNext
<1> QED
  BY <1>1, <1>2, ShapeHolds, PTL DEF ThreadsSpec

(* However its threads interleave, and whether they race or not, a process   *)
(* whose VM could be made calls no JNI function through a null env, ...       *)
THEOREM ThreadsNeverWithoutEnv == ThreadsSpec => []NoNullCall
<1>1. EnvKept => NoNullCall
  BY DEF EnvKept
<1> QED
  BY <1>1, EnvKeptHolds, PTL

(* ... and calls into no VM that main or the agent has ended. *)
THEOREM ThreadsNeverAfterTheVm == ThreadsSpec => []NoDeadCall
<1>1. EnvKept => NoDeadCall
  BY DEF EnvKept
<1> QED
  BY <1>1, EnvKeptHolds, PTL
=============================================================================
