----------------------------- MODULE Lifecycle -----------------------------
(***************************************************************************)
(* The life of JavaVirtualMachine::vm and env, and of the static jClass    *)
(* objects that jObject::getClass keeps for the rest of the process.       *)
(*                                                                         *)
(* A process uses the library in one of three ways: main of no-jni.cpp     *)
(* makes the VM and destroys it ("launcher"); the VM loads the library for *)
(* native methods ("library", JNI_OnLoad); or it loads it as the agent of  *)
(* no-jvmti.cpp ("agent", VMInit and VMDeath).  After the VM has ended the *)
(* C++ runtime destroys the static objects.                                *)
(***************************************************************************)
CONSTANTS
  Classes,   \* wrapper classes
  Uses       \* the ways the library is used

ASSUME UsesType == Uses \subseteq {"launcher", "library", "agent"}

VARIABLES
  use,     \* how the process uses the library
  phase,   \* of the process: "start", "running", "exiting", "over"
  vm,      \* the VM is alive
  env,     \* JavaVirtualMachine::env is not null
  failed,  \* JNI_CreateJavaVM has failed
  clazz,   \* clazz[c]: the static jClass of c: not yet constructed, with a
           \* null reference, or with a global reference
  local,   \* a wrapper on the stack of main, constructed after the VM
  nullCall,  \* a JNI function was called through a null env
  deadCall   \* a JNI function was called after the VM had ended

vars == <<use, phase, vm, env, failed, clazz, local, nullCall, deadCall>>

TypeOK ==
  /\ use \in Uses
  /\ phase \in {"start", "running", "exiting", "over"}
  /\ vm \in BOOLEAN /\ env \in BOOLEAN
  /\ failed \in BOOLEAN /\ local \in BOOLEAN
  /\ clazz \in [Classes -> {"absent", "null", "held"}]
  /\ nullCall \in BOOLEAN /\ deadCall \in BOOLEAN

Init ==
  /\ use \in Uses
  /\ phase = "start"
  /\ vm = (use # "launcher")
  /\ env = FALSE
  /\ failed = FALSE
  /\ clazz = [c \in Classes |-> "absent"]
  /\ local = FALSE
  /\ nullCall = FALSE /\ deadCall = FALSE

(* A call of a member function of JNIEnv: nothing checks env. *)
JniCall ==
  /\ nullCall' = (nullCall \/ ~env)
  /\ deadCall' = (deadCall \/ (env /\ ~vm))

NoCall == UNCHANGED <<nullCall, deadCall>>

-----------------------------------------------------------------------------
(* JavaVirtualMachine(c, v): vm and env are set by JNI_CreateJavaVM, whose   *)
(* result is not looked at.                                                   *)
CreateVm ==
  /\ phase = "start" /\ use = "launcher"
  /\ \E ok \in BOOLEAN : vm' = ok /\ env' = ok /\ failed' = ~ok
  /\ phase' = "running"
  /\ UNCHANGED <<use, clazz, local>> /\ NoCall

(* JNI_OnLoad *)
OnLoad ==
  /\ phase = "start" /\ use = "library"
  /\ env' = TRUE
  /\ phase' = "running"
  /\ UNCHANGED <<use, failed, vm, clazz, local>> /\ NoCall

(* VMInit of the agent *)
VMInit ==
  /\ phase = "start" /\ use = "agent"
  /\ env' = TRUE
  /\ phase' = "running"
  /\ UNCHANGED <<use, failed, vm, clazz, local>> /\ NoCall

(* getClass(): the static jClass is made on the first call and made again on *)
(* each call while its reference is null; jClass() calls FindClass, which     *)
(* may find nothing, unless there is no env.                                   *)
GetClass(c) ==
  /\ phase = "running" /\ clazz[c] # "held"
  /\ \E answer \in IF env THEN {"null", "held"} ELSE {"null"} :
       clazz' = [clazz EXCEPT ![c] = answer]
  /\ IF env THEN JniCall ELSE NoCall
  /\ UNCHANGED <<use, failed, phase, vm, env, local>>

(* get_member, call_ and NewObject of a class whose jClass exists. *)
UseClass(c) ==
  /\ phase = "running" /\ clazz[c] # "absent"
  /\ JniCall
  /\ UNCHANGED <<use, failed, phase, vm, env, clazz, local>>

(* main makes a wrapper of its own: Shell shell{..}. *)
MakeLocal ==
  /\ phase = "running" /\ use = "launcher" /\ ~local
  /\ \E c \in Classes : clazz[c] = "held"
  /\ local' = TRUE
  /\ JniCall
  /\ UNCHANGED <<use, failed, phase, vm, env, clazz>>

(* main returns: the wrapper goes first.  A reference is only deleted when   *)
(* there is an env.                                                            *)
DestroyLocal ==
  /\ phase = "running" /\ local
  /\ local' = FALSE
  /\ IF env THEN JniCall ELSE NoCall
  /\ UNCHANGED <<use, failed, phase, vm, env, clazz>>

(* A slip, to test the properties: the destructor leaves env as it was. *)
DestroyVmKeepingEnv ==
  /\ phase = "running" /\ use = "launcher" /\ ~local
  /\ vm' = FALSE
  /\ phase' = "exiting"
  /\ UNCHANGED <<use, failed, env, clazz, local>> /\ NoCall

(* ~JavaVirtualMachine *)
DestroyVm ==
  /\ phase = "running" /\ use = "launcher" /\ ~local
  /\ vm' = FALSE /\ env' = FALSE
  /\ phase' = "exiting"
  /\ UNCHANGED <<use, failed, clazz, local>> /\ NoCall

(* Java ends the VM.  The agent hears of it in VMDeath and clears vm and env. *)
(* The library does not: JNI looks for a function JNI_OnUnload, the library   *)
(* has a JNI_OnUnLoad.                                                          *)
VmEnds ==
  /\ phase = "running" /\ vm /\ use # "launcher"
  /\ vm' = FALSE
  /\ env' = (env /\ use # "agent")
  /\ phase' = "exiting"
  /\ UNCHANGED <<use, failed, clazz, local>> /\ NoCall

(* A slip: the destructor does not ask for env. *)
DestroyStaticUnchecked(c) ==
  /\ phase = "exiting" /\ clazz[c] # "absent"
  /\ clazz' = [clazz EXCEPT ![c] = "absent"]
  /\ IF clazz[c] = "held" THEN JniCall ELSE NoCall
  /\ UNCHANGED <<use, failed, phase, vm, env, local>>

(* The C++ runtime destroys the static jClass of c: ~jReference. *)
DestroyStatic(c) ==
  /\ phase = "exiting" /\ clazz[c] # "absent"
  /\ clazz' = [clazz EXCEPT ![c] = "absent"]
  /\ IF clazz[c] = "held" /\ env THEN JniCall ELSE NoCall
  /\ UNCHANGED <<use, failed, phase, vm, env, local>>

End ==
  /\ phase = "exiting" /\ \A c \in Classes : clazz[c] = "absent"
  /\ phase' = "over"
  /\ UNCHANGED <<use, failed, vm, env, clazz, local>> /\ NoCall

Next ==
  \/ CreateVm \/ OnLoad \/ VMInit
  \/ \E c \in Classes : GetClass(c) \/ UseClass(c) \/ DestroyStatic(c)
  \/ MakeLocal \/ DestroyLocal \/ DestroyVm \/ VmEnds \/ End

Spec == Init /\ [][Next]_vars

-----------------------------------------------------------------------------
(* Once there was a VM no JNI function is called through a null env: neither *)
(* by a wrapper that is used nor by the destructor of one that outlives the    *)
(* environment.  (When JNI_CreateJavaVM has failed the first use calls.)       *)
NoNullCall == ~failed => ~nullCall

(* Where main or the agent ends the VM, no destructor calls into a VM that    *)
(* has ended: the static classes live longer than the VM, so whoever ends it   *)
(* has to clear env.  (In a native library nobody does.)                       *)
NoDeadCall == use # "library" => ~deadCall

=============================================================================
