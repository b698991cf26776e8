----------------------------- MODULE Exceptions -----------------------------
(***************************************************************************)
(* jtry, jcatch and jfinally of jnixx.h, in one thread (::jni is           *)
(* thread_local).  A chain is one jtry(..).jcatch(..)...jfinally(..)       *)
(* expression; the callables of a chain may run further chains.  Java      *)
(* exceptions do not unwind native code: a JNI call that throws leaves the *)
(* exception pending and returns.  C++ exceptions do unwind, and the       *)
(* restorer of jscope pops the local frame on the way.                     *)
(***************************************************************************)
EXTENDS Naturals

CONSTANTS
  Throwables, \* Java exceptions; each is thrown once
  None,       \* no exception
  MaxChains    \* bound: chains inside one another

ASSUME NoneNotThrowable == None \notin Throwables
ASSUME MaxChainsPositive == MaxChains \in Nat \ {0}

VARIABLES
  pending,   \* the exception pending in the thread
  frames,    \* local frames pushed since the thread entered native code
  level,     \* chains that are running
  phase,     \* phase[d]: how far chain d has come
  caught,    \* caught[d]: the argument of the handler chain d runs
  raised,    \* exceptions thrown so far
  given,     \* exceptions some handler was called with
  accepted,  \* exceptions a handler returned true for
  dropped,   \* exceptions the client cleared itself, let go to Java, or
             \* returned true over when a handler was given another one
  own,       \* own[d]: exceptions thrown since chain d began
  carried,   \* carried[d]: what was pending when chain d began
  base       \* base[d]: frames when chain d began

chainVars == <<pending, frames, level, phase, caught,
          raised, given, accepted, dropped, own, carried, base>>
ghosts == <<given, accepted, dropped, own, carried, base>>

Chains == 1..MaxChains
Phases == {"try", "between", "handler", "finally"}

ChainsTypeOK ==
  /\ pending \in Throwables \cup {None}
  /\ frames \in Nat
  /\ level \in 0..MaxChains
  /\ phase \in [Chains -> Phases]
  /\ caught \in [Chains -> Throwables \cup {None}]
  /\ raised \subseteq Throwables /\ given \subseteq Throwables
  /\ accepted \subseteq Throwables /\ dropped \subseteq Throwables
  /\ own \in [Chains -> SUBSET Throwables]
  /\ carried \in [Chains -> Throwables \cup {None}]
  /\ base \in [Chains -> Nat]

ChainsInit ==
  /\ pending = None
  /\ frames = 0
  /\ level = 0
  /\ phase = [d \in Chains |-> "between"]
  /\ caught = [d \in Chains |-> None]
  /\ raised = {} /\ given = {} /\ accepted = {} /\ dropped = {}
  /\ own = [d \in Chains |-> {}]
  /\ carried = [d \in Chains |-> None]
  /\ base = [d \in Chains |-> 0]

(* Client code runs: outside of all chains, or in a callable of one. *)
InClient == level > 0 => phase[level] # "between"

-----------------------------------------------------------------------------
(* Client code *)

(* A JNI call that throws e. *)
Throw(e) ==
  /\ InClient /\ pending = None /\ e \notin raised
  /\ pending' = e
  /\ raised' = raised \cup {e}
  /\ own' = [d \in Chains |-> IF d <= level THEN own[d] \cup {e} ELSE own[d]]
  /\ UNCHANGED <<frames, level, phase, caught, given, accepted, dropped,
                 carried, base>>

(* The client calls exception_clear. *)
ClientClear ==
  /\ InClient /\ pending # None
  /\ dropped' = dropped \cup {pending}
  /\ pending' = None
  /\ UNCHANGED <<frames, level, phase, caught, raised, given, accepted, own,
                 carried, base>>

(* The native method returns, and with it the frame that JNI made. *)
ReturnToJava ==
  /\ level = 0 /\ pending # None
  /\ dropped' = dropped \cup {pending}
  /\ pending' = None
  /\ UNCHANGED <<frames, level, phase, caught, raised, given, accepted, own,
                 carried, base>>

-----------------------------------------------------------------------------
(* Chains *)

(* jtry(c): jscope pushes a frame, c starts. *)
Try ==
  /\ InClient /\ level < MaxChains
  /\ level' = level + 1
  /\ phase' = [phase EXCEPT ![level + 1] = "try"]
  /\ base' = [base EXCEPT ![level + 1] = frames]
  /\ carried' = [carried EXCEPT ![level + 1] = pending]
  /\ frames' = frames + 1
  /\ UNCHANGED <<pending, caught, raised, given, accepted, dropped, own>>

(* A slip: jtry clears what its callable left pending. *)
TryReturnsClearing ==
  /\ level > 0 /\ phase[level] = "try"
  /\ frames' = frames - 1
  /\ pending' = None
  /\ phase' = [phase EXCEPT ![level] = "between"]
  /\ UNCHANGED <<level, caught, raised>> /\ UNCHANGED ghosts

(* c of jtry(c) returns; the restorer of jscope pops the frame. *)
TryReturns ==
  /\ level > 0 /\ phase[level] = "try"
  /\ frames' = frames - 1
  /\ phase' = [phase EXCEPT ![level] = "between"]
  /\ UNCHANGED <<pending, level, caught, raised>> /\ UNCHANGED ghosts

(* A slip: the handler gets some exception of the past. *)
CatchAgain ==
  /\ level > 0 /\ phase[level] = "between"
  /\ pending # None
  /\ frames' = frames + 1
  /\ phase' = [phase EXCEPT ![level] = "handler"]
  /\ \E e \in raised : caught' = [caught EXCEPT ![level] = e]
  /\ given' = given \cup {pending}
  /\ UNCHANGED <<pending, level, raised, accepted, dropped, own,
                 carried, base>>

(* jcatch(c): c starts, with the exception still pending.  With nothing      *)
(* pending jcatch only pushes and pops a frame, which changes nothing.        *)
Catch ==
  /\ level > 0 /\ phase[level] = "between"
  /\ pending # None
  /\ frames' = frames + 1
  /\ phase' = [phase EXCEPT ![level] = "handler"]
  /\ caught' = [caught EXCEPT ![level] = pending]
  /\ given' = given \cup {pending}
  /\ UNCHANGED <<pending, level, raised, accepted, dropped, own,
                 carried, base>>

(* What both answers of a handler do. *)
HandlerReturns ==
  /\ level > 0 /\ phase[level] = "handler"
  /\ frames' = frames - 1
  /\ phase' = [phase EXCEPT ![level] = "between"]
  /\ caught' = [caught EXCEPT ![level] = None]
  /\ UNCHANGED <<level, raised, given, own, carried, base>>

(* c of jcatch(c) returns false. *)
HandlerDeclines ==
  /\ HandlerReturns
  /\ UNCHANGED <<pending, accepted, dropped>>

(* A slip: exception_clear forgotten. *)
HandlerAcceptsKeeping ==
  /\ HandlerReturns
  /\ accepted' = accepted \cup {caught[level]}
  /\ UNCHANGED <<pending, dropped>>

(* c of jcatch(c) returns true: whatever is pending is cleared. *)
HandlerAccepts ==
  /\ HandlerReturns
  /\ accepted' = accepted \cup {caught[level]}
  /\ dropped' = dropped \cup ({pending} \ {None, caught[level]})
  /\ pending' = None

(* jfinally(c): c starts, in no frame of its own. *)
Finally ==
  /\ level > 0 /\ phase[level] = "between"
  /\ phase' = [phase EXCEPT ![level] = "finally"]
  /\ UNCHANGED <<pending, frames, level, caught, raised>> /\ UNCHANGED ghosts

(* Chain number level and what is kept of it are gone. *)
Leave ==
  /\ level' = level - 1
  /\ phase' = [phase EXCEPT ![level] = "between"]
  /\ caught' = [caught EXCEPT ![level] = None]
  /\ own' = [own EXCEPT ![level] = {}]
  /\ carried' = [carried EXCEPT ![level] = None]
  /\ base' = [base EXCEPT ![level] = 0]
  /\ UNCHANGED <<pending, raised, given, accepted, dropped>>

(* The chain ends: after a jtry or jcatch, or when jfinally returns. *)
EndChain ==
  /\ level > 0 /\ phase[level] \in {"between", "finally"}
  /\ Leave
  /\ UNCHANGED frames

(* A slip: a scope that pops its frame only when its callable returns. *)
UnwindKeepsFrame ==
  /\ level > 0 /\ phase[level] # "between"
  /\ Leave
  /\ UNCHANGED frames

(* A C++ exception leaves the callable that runs, and the chain with it. *)
Unwind ==
  /\ level > 0 /\ phase[level] # "between"
  /\ Leave
  /\ frames' = IF phase[level] \in {"try", "handler"} THEN frames - 1
               ELSE frames

ChainsNext ==
  \/ \E e \in Throwables : Throw(e)
  \/ ClientClear \/ ReturnToJava
  \/ Try \/ TryReturns \/ Catch
  \/ HandlerDeclines \/ HandlerAccepts \/ Finally \/ EndChain \/ Unwind

ChainsSpec == ChainsInit /\ [][ChainsNext]_chainVars

-----------------------------------------------------------------------------
Running(d) == d \in 1..level

(* Between the callables of a chain the thread has exactly the local frames *)
(* it had when the chain began, and outside of all chains none: jscope pops *)
(* what it pushed whether its callable returns or throws.                     *)
FramesRestored ==
  /\ level = 0 => frames = 0
  /\ level > 0 /\ phase[level] = "between" => frames = base[level]

(* Every exception that was thrown is pending, or was given to a handler, or *)
(* was let go by the client: nothing in between makes one vanish.            *)
NoneLost == raised \subseteq given \cup dropped \cup {pending}

(* What a handler returned true for is over: the exception is not pending    *)
(* again when the next jcatch, or the code after the chain, looks.           *)
Settled == pending \notin accepted

(* A handler is called for an exception of its own chain, or for the one    *)
(* that was pending when its chain began, never for an older one.             *)
CaughtIsOwn == \A d \in Chains :
  Running(d) /\ phase[d] = "handler"
  => caught[d] \in own[d] \/ caught[d] = carried[d]

=============================================================================
