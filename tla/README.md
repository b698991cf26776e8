# A verification project for no-jni

no-jni wraps the JNI C API in C++ classes that own what JNI hands out, look up
methods and fields by name at compile time, and make Java arrays and exceptions look
like their C++ counterparts. Two programs generate the wrapper classes: one from the
text that `javap` prints, one as a JVMTI agent.

This directory holds TLA+ modules that model the hand-written code, TLC
configurations that check them on small instances, and TLAPS proofs about them.
`PROJECT.json` lists which lines each definition stands for, what each run checks,
and the hazards the properties were written for.

## 1. The system

About 5600 lines of the repository are hand-written. The other 15.6 thousand files
are generated `.jpp` wrappers and lists of includes, which instantiate `jObject` and
have no logic of their own.

| Component | Source | State it keeps | Operations |
|---|---|---|---|
| `jReference` | `no-jni.hpp` 37-135 | a raw handle and a tag with its kind | construct, steal, copy, move, assign, `to_local/global/weak`, destroy |
| member lookup | `no-jni.hpp` 645-707 | static tables of IDs, one per class and JNI getter | `get_member`, `find_member`, `init_members` |
| array iterators | `no-jni.hpp` 501-615 | a copied handle and an index | make, copy, move, assign, `+=`, read, store, compare |
| VM and static classes | `no-jvm.cpp`, `no-jni.hpp` 233-264, 753-758 | the static `vm` and `env`, a static `jClass` per class | create, `JNI_OnLoad`, `getClass`, destroy |
| calls and dispatch | `no-jni.hpp` 266-547, 645-716, 761-778; `jni_invokers.h`; `jnixx.h` 142-244, 332-400, 511-557 | none but the pending exception | look an ID up, choose a function of `JNIEnv`, apply it |
| `jhandle` | `jnixx.h` 126-160, 490-737 | a raw handle without a tag | steal, copy, move, assign, `release`, `globalize`, `localize`, destroy |
| proxies and iterators of `jnixx` | `jnixx.h` 248-486; `jnixx.cpp` 152-336 | in `jnixx.h` an owned array and an index, in `jnixx.cpp` a raw one | make, copy, move, assign, read, store, compare, destroy |
| old handles | `jnixx.cpp` 411-541 | a raw handle | the operations of `jhandle`, with implicit copies |
| frames and chains | `jnixx.h` 921-996 | frame stack and pending exception of the thread | `push/pop_local_frame`, `jscope`, `jtry`, `jcatch`, `jfinally` |
| overload collapsing | `wrapper_generator.cpp` 81-360 | the list of methods, the overloads, a count | six sorts, grouping, collapsing |
| generator pipeline | `wrapper_generator.cpp` 362-535 | class list and bodies, paired by position | run `javap`, split, match, write |
| package and class order | `no-jvmti.cpp` 558-735 | sorted packages, a map of classes | scan, prefix ranges, rotations, writing |
| member text | `no-jvmti.cpp` 501-542, 737-845 | none | filter, sort, write |
| JVMTI wrappers | `no-jvmti.cpp` 38-501 | arrays allocated by JVMTI | forward one call each, free |
| monitors, strings | `no-jni.hpp` 875-943 | a handle | enter, exit, convert |
| compile-time parts | `no-jni.hpp` 10-35, 139-231 | none | packages, signatures |
| test program | `no-jni.cpp` | the VM on `main`'s stack | SWT event loop |

How they interact. Every wrapper object (`jObject`) holds one `jReference`. A call
on it goes through `getClass` (a static `jClass`, which holds a `jReference` to the
class), then `get_member` (the static tables), then a JNI function through the
static `JavaVirtualMachine::env`. An array iterator copies the handle out of the
`jObject` and does not keep the object alive. In the header `jnixx.h`, a later
design, handles are `jhandle`s, `::jni` is thread-local and set on entry to each
native method, IDs are not cached, and `jscope` gives its callable a local frame.
`jnixx.cpp` is what `jnixx.h` was before, with its test. The JVM is shared by all: its reference table, its frames and its pending exception
are what the classes above manage, and it is modelled from how they use it.

What is hard about it, and what makes each part correct:

* **Ownership across reuse.** JNI hands out freed handle values again. A second
  owner, or an owner of a freed handle, deletes somebody else's reference, several
  operations later. Correct: one owner per reference, no freed handle in an owner,
  every reference that must be deleted has an owner.
* **Shared tables without locks.** Any thread, and any class, may fill the table of
  any class above it. Correct: whoever asks gets the ID of its own class,
  whatever was asked before and is being asked meanwhile.
* **Proxies.** Assigning an element proxy writes the array. Correct: an iterator
  keeps what `iterator_traits` promises of it.
* **Two kinds of exceptions.** Java exceptions stay pending, C++ exceptions unwind.
  Correct: frames balance on every path and no exception is lost, revived, or
  handed to the wrong handler.
* **Errors between two steps.** A lookup that fails leaves an exception pending for the
  next one, for the call, or for nobody. Correct: the function applied is one of the
  member that Java means, and the client can tell from the pending exception what
  happened.
* **Lifetimes that end in the wrong order.** Static objects outlive the VM, and any
  thread may assign them. Correct: their destructors do not call into it, and a class
  that was found stays.
* **Neighbours.** Overloads are collapsed by comparing neighbours only. Correct:
  the sorts put together all that must be collapsed, and nothing else is.

## 2. The modules

```
Raii <------- JReference <------ MCJReference, NoJniProofs
     <------- Jhandle <--------- MCJhandle, JnixxProofs
              Jhandle <--------- OldHandle <------ MCOldHandle
RandomAccess <- ArrayIterator <- ArrayProxy <----- MCArrayProxy, ArrayProxyProofs
              MemberCache <----- MCMemberCache, NoJniProofs
Invokers <--- Calls <----------- MCCalls, CallsProofs
              Exceptions <------ MCExceptions, JnixxProofs
              Lifecycle <------- Threads <-------- MCThreads, ThreadsProofs
Lists <------ OverloadCollapse <- Pipeline <------ MCPipeline, PipelineProofs
      <------ ClassMembers <- PackageOrder <------ MCPackageOrder, PackageOrderProofs
      <------ ListProofs <------ PipelineProofs, PackageOrderProofs
```

`Raii` and `RandomAccess` are abstract: they say what a component promises, and the
detailed modules are shown to implement them under a refinement mapping. Each MC
module gives the constants their values. Definitions introduced as a *slip* are in no
specification: each is an operation with a plausible mistake in it, which stands in
for that operation to see that a property notices. `NoJniProofs` and `JnixxProofs` each
have the proofs of the two modules about one header, which is why the names of
`MemberCache` and `Exceptions` that every module has begin with `Lookup` and `Chains`.

### Lists

What both generators use of the C++ library: comparing strings, sorting lists and sets,
choosing the elements at some places. The sorts are defined by rank (an element goes
behind all that are less), so that proofs can be made about them.

### Raii, JReference, Jhandle

`Raii` has variables that name an object or nothing. `Bind`, `Copy`, `Move` and
`Clear` change the variables they are applied to and no other; the collector may take
an object that no strong variable names; the VM's end empties all.

`JReference` adds the JNI reference table (`kind`, `target`), the tag and handle of
each C++ variable (`type`, `obj`), and the raw handles the client holds (`raw`).

| Action | Code in `no-jni.hpp` |
|---|---|
| `Construct`, `ConstructEmpty` | `jReference(jobject)`, which takes a global reference of its own; `jReference()` |
| `Steal` | `steal`: the raw variable is set to null |
| `CopyConstruct`, `CopyAssign` | copies are global references; assignment runs the destructor first |
| `MoveConstruct`, `MoveAssign` | a move swaps; assignment runs the destructor first |
| `Convert` | `to_local`, `to_global`, `to_weak`, with the tag of the source |
| `Destroy` | `~jReference`, which returns early without `env` or handle |
| `JniResult`, `FrameReturn`, `Collect`, `DestroyVm` | the JVM around them |

The destructor chooses the Delete function by the tag. What a Delete function does to a
reference of another kind is open in JNI, so `Deleted` has both outcomes. A
reference may also be refused (`New...Ref` answers null) when none is left. That is
why the tables in the runs are small on purpose.

`Jhandle` has the same table with the frame of each local reference, a bounded stack
of frames and the nesting of the scope each variable belongs to. No tag is kept:
each operation asks the JVM. There is no case for weak references, which are
therefore forgotten, as in the code. The constant `Liberties` names what a client may
do beyond a discipline: give an outer handle a local of an inner frame, move a
handle to itself, or pass `pop_local_frame` a handle of an outer frame.

### MemberCache

One action per step that another thread can observe: the test of the table entry
(`Check`), each single write of `init_members` (`InitMember`), the second read
(`Read`), the uncached lookup at the root (`Direct`) and the call itself. `level` is
the class whose `get_member` is on top of the stack; the `jclass` stays that of the
class the lookup started from. `Lookup` is what JNI answers to a lookup made with nothing
pending. A lookup that finds nothing leaves an exception pending (`Answered`), and nothing
in `get_member` clears it: the entries of a table after the one that failed, the tables of
the classes above, the last resort and the next requests are then looked up with it. JNI
leaves what they answer open, so `Answers` adds null to what there is, and a table that is
filled in such circumstances may have null written over an ID, by one thread between the
test and the second read of another. `Settle` is the client that clears the exception or
returns to Java; `clean` says that nothing was pending when a lookup began. A thread here
is also what runs nested inside another lookup when JNI runs a class initializer that
calls back into native code.

### ArrayIterator, RandomAccess

Arrays, references to them, the variables that own the references, and iterators with
a copied handle and an index. `Assign` and `PlusAssign` store an array element
because `Iterator`'s defaulted `operator=` assigns its `Element` proxy. An iterator
one past the end is compared and moved but not read or stored through, as with any C++
iterator, and the client keeps a `jObject` while it uses the iterators it got from
it (`Disown`): both are what the C++ library asks of users of iterators.
`RandomAccess` says what a random access iterator does: it denotes a place, and
only a store changes the array. It also says what is done instead where the code does
something else: `AssignElement` and `AdvanceElement` store the one element that the
iterator should have moved to, and leave it where it is, and `Unequal` finds iterators
different that are at one place. Where a library may take these steps is part of its
promise (`Divergent`, `ProxiesRandomAccess`).

### ArrayProxy

The same for `jnixx`, added to `ArrayIterator` so that the three libraries can be held to
one promise; the variable `lib` says which of them the client includes. In `jnixx.h` a
proxy copies the `jhandle` of its array (`OwnProxy`), that is, it takes a reference
of its own, which `DestroyOwning` deletes, and the array's handle may go first
(`DisownFreely`). In `jnixx.cpp` proxies are raw (`IndexRaw`, `PlusRaw`) and the client
has to keep the handle. `java_array_iterator` moves in place (`MoveInPlace`), so `+=` is
right here; its implicit assignment is that of the proxy in `jnixx.h`
(`AssignOwning`) and does not exist in `jnixx.cpp`.

### OldHandle

`jhandle` of `jnixx.cpp`. Its copy and move members are templates, which C++ never
takes for the copy constructor and copy assignment; so an lvalue is copied member by
member (`CopyImplicit`, `CopyAssignImplicit`) and the templates only see rvalues. The
move assignment forgets what the variable held (`MoveAssignOver`). The rest is that of
`Jhandle`.

### Invokers, Calls

`Invokers` has the functions of `JNIEnv` as records of what they do, what they are
applied to and the type in their name, and the tables that choose one: the
specialisations of `invoke_jni`, whose overloads take an object or a class, and the
chains of `is_same` in `no-jni.hpp`.

`Calls` has every request a client makes of the three libraries: to call a method, read
or write a field, make an object or an array, or reach an element, each of any type, on
an object or a class, where the class has any set of members of the name. Each lookup
(`PlainMethod`, `ClassMethod`, `MethodOfClass`, `NewNamed`, ...) finds what there is,
misses it, or has the class initializer throw; each application of a function may throw.
`request.clean` says that nothing was pending before. `stale` is the table of
`no-jni.hpp` that has members its getter cannot find. Where JNI says a call with an
exception pending is undefined, a lookup may find or miss; a null ID given to a call
ends the model (`undefined`).

### Exceptions

A stack of chains, each in its `try`, in a `handler`, in `finally` or `between` them;
the pending exception, and the frames. Callables may throw Java exceptions
(`Throw`, pending), run further chains (`Try`), clear the exception, or be left by a
C++ exception (`Unwind`, where the restorer of `jscope` pops the frame). What is kept
of the past (`given`, `accepted`, `dropped`, `own`, `carried`, `base`) is history and
restricts nothing.

### Lifecycle

The three uses of the library (a launcher with `main`, a native library, an agent),
the VM and the static `env`, the static `jClass` of each class, a wrapper on `main`'s
stack, and the destruction of the static objects after the VM. `nullCall` and
`deadCall` record a JNI function called through a null `env`, and one called after
the VM's end.

### Threads

`getClass` by several threads, added to `Lifecycle`. One read or one write of the
member `obj` of the static `jClass` is one step, as the assignment
`clazz = jClass{}` makes them without a lock: the test (`Check`), the new reference
(`MakeClass`), the destructor of the old value (`DestroyOld`, `DeleteOld`, which may
read `obj` again, `ClearOld`), the swap (`SwapRead`, `SwapWrite`), the temporary's
destructor (`DropTemp`) and the call that follows (`ReadClass`, `CallWithClass`). Such a
data race is undefined in C++; the model has the outcomes of single reads and writes.
The construction of the static variable itself is atomic, as C++ says. Deleted
references are handed out again, so one class's race may take the reference of another.
Left out: that a `JNIEnv` belongs to one thread (all use `env`), the tag beside `obj`,
and threads in native code when the VM ends.

### OverloadCollapse

`process_members` of the generator, one action per pass. The first sort is
`std::sort`, so methods of equal arity come out in any order; the others are stable.
`Group` is the accumulation over one group of equal name and arity. A type is a
sequence of class names (what `A__or__B` stands for) with an array rank. An
overload that is not collapsed takes the return type of the one before it, as in the
code.

### Pipeline

`main` around it: the jar is opened and listed, names are filtered, sorted and cut,
`javap` prints all classes at once, its text is cut at closing braces (`Split`), generic
arguments are erased by counting brackets in an unsigned number (`Erased`), each piece
goes through `OverloadCollapse` (`Parse`, `CollapseMethods`, `Wrap`) and pieces are
paired with names by position (`Output`). Every early return has its exit status
(`Return`), modulo 256. A name is a sequence of characters of which the separators are
told apart; the text of a class is a sequence of methods, fields, brackets, braces and
ends of lines. No constant of the run has an opening brace: the code looks for the first
one of a piece, which comes before any constant, unless a closing brace in a constant
has cut the class in two. The proofs are of texts with braces anywhere.

### ClassMembers

What `VMInit` writes for a class: the members collected from the class and its
interfaces (`Collected`: public, not deprecated, not internal, sorted, without
duplicates), a function for each field, and one for each name of a method, static as the
first overload is.

### PackageOrder

`VMInit` of the agent, up to the text it writes: `Scan` reads an entry of a jar,
`SortScanned` sorts the packages and escapes the word `namespace`, `OrderPackages`
searches and rotates, `Declare` declares the next package, `OrderClasses` does for
classes what was done for packages, `Write` writes the next class as `ClassMembers` says. Names are strings,
because the code compares prefixes of them and cuts them at underscores. `PkgVar`,
`PkgParent` and `PkgChild` are `pkg_var` and its two parts. `Variable` is the C++ variable that
is declared, with the underscore that a name without a child part gets, and
`ParentVariable` the one that the expression is over, with the underscore that a parent
gets that has none. The two
searches are the halving searches of the C++ library and are modelled as such: the
range searched for `java/lang` is not ordered for the comparison that is used
(`java` is equal to `java/lang`, what comes between is less), so what they find
depends on where they probe. A rotation whose middle is before its first place is
undefined; the model stops there.

## 3. The runs

| Run | Module | Expected | Properties | Distinct states |
|---|---|---|---|---|
| `jref_same_kind` | MCJReference | pass | `TypeOK OneOwner NoDangling GlobalsOwned Refinement` | 58,880 (symmetry) |
| `jref_convert_leak` | MCJReference | violation | `GlobalsOwned` | |
| `members_shared` | MCMemberCache | pass | `RightMember MissExplained CacheStable LookupEnds` | 270,488 |
| `members_hidden` | MCMemberCache | violation | `OwnMember` | |
| `jhandle_disciplined` | MCJhandle | pass | `NoDangling StrongOwned Refinement` | 226,691 (symmetry) |
| `old_copies` | MCOldHandle | violation | `RaiiManaged` | |
| `calls` | MCCalls | pass | `WellApplied ChosenAsJava AppliedClear ExceptionTold SkipIsTold` | 125,483 |
| `chains` | MCExceptions | pass | `FramesRestored NoneLost Settled CaughtIsOwn` | 173,492 |
| `overloads_collapse` | MCPipeline | pass | `Complete NoRedeclaration OwnMembers WellFormed Ends` | 72,322 |
| `iterators` | MCArrayProxy | pass | `HandlesLive OneKeeper ProxiesRandomAccess` | 76,448 (symmetry) |
| `vm_ends` | MCThreads | pass | `NoNullCall NoDeadCall StaleOnlyByRace ClassRefsKept FoundClassStays OneThreadLike` | 46,527 (symmetry) |
| `packages` | MCPackageOrder | pass | `RotationDefined ParentsDeclared InOrder EveryMethodCallable FunctionsDistinct` | 57,408 |

Type invariants are theorems (section 4), but for `PackageOrder`, where it is a conjunct of
`InOrder`; in `Calls` and `Pipeline` they are conjuncts of `WellApplied` and `WellFormed`,
of which there are both a run and a theorem.

What the runs show, and their bounds:

* `jref_same_kind`: three variables, four handles, two objects. Three variables are
  what a copy from one owner to another needs beside a bystander whose reference is
  freed by mistake; four handles let a freed one be handed out again while three
  are held, and five would be wanted at times, so that null answers occur too.
  Conversions keep the kind here. Exhaustion and collection happen.
* `jref_convert_leak`: with a conversion to another kind, a global or weak reference
  is left without an owner (`no-jni.hpp:126`).
* `members_shared`: a root, a base class whose table has a static method, a constructor and
  an instance method, as generated tables have, and two classes derived from it, one with a
  constructor and a method of its own and one with the filler of a table that would be
  empty; two threads in every interleaving of single table reads and writes, with every
  answer to lookups made with an exception pending. Whichever getter fills the table of the
  base fails at some of its entries, the static one already at the second and the instance one
  at the first, so that what comes after is looked up with that exception. The five call sites ask for an inherited member
  from both derived classes, a static one, a constructor and one that nobody has. Two threads
  are enough for a write between the test and the second read of another.

  `RightMember`: an ID that is found is that of the class that was asked, where all classes
  that may fill the table get one (`Inherited`: all members but constructors and what a
  class hides). `MissExplained`: a lookup that finds nothing has an exception to show for
  it, and a reason of its own: what another thread failed to find, and the nulls it wrote,
  make no lookup fail that would not have failed alone. `CacheStable` says who may replace an ID
  by null. `Mixed`, one of the reasons, is the case of tables with both kinds of members.
* `members_hidden`: a derived class asks for an inherited member first and so fills
  the base class's table, constructor included, from its own `jclass`
  (`no-jni.hpp:684`). The base class's next construction runs the derived
  constructor, so that `OwnMember`, which is `RightMember` without its condition, fails.
* `jhandle_disciplined`: three handles, three references, frames three deep. A
  client without liberties never has a dangling handle, or a forgotten local or global
  reference. Three frames are what a value needs that is handed down two scopes.
* `old_copies`: the same with the class of `jnixx.cpp`: a copy and its source own one
  reference (`jnixx.cpp:435`).
* `calls`: all three libraries, all requests, all sets of members of a name, all ten
  types; nothing is bounded but that one request is made at a time. `WellApplied` and
  `ChosenAsJava` say that the function applied is for a member of its type and kind,
  and the one Java means; `AppliedClear`, `ExceptionTold` and `SkipIsTold` what the
  pending exception is when Java code runs, when a request is done, and when a call was
  skipped. The exceptions each names are those that the code makes: the constructors
  of `jnixx` drop what Java throws, `jnixx.cpp` that of a class initializer.
* `chains`: three exceptions, three chains deep: one exception carried into a
  chain, one thrown in it, one thrown by a handler.
* `overloads_collapse`: jars of one class, for all classes of up to three overloads
  over six types with up to two parameters, and of four methods of one or two names,
  from every order the first sort may leave; and jars of up to three entries, with
  nested classes and generics, constants with a bracket or a brace, names that are
  escaped, filtered or excluded, a file that is no class, and jars that cannot be read
  or are empty. Two native types, with others between them in string order, are needed
  for methods that the plain sort would keep apart; three entries, for a shift that
  reaches beyond the next class.
* `iterators`: two iterators, two variables, three handles, two arrays of length two.
  Two variables may own one array through two handles, which is when `==` of
  `no-jni.hpp` differs from equality of places; a handle is reused for another array
  while an iterator of `jnixx.h` keeps its own. `ProxiesRandomAccess` does not except what
  `=` and `+=` do in `no-jni.hpp` and `=` in `jnixx.h`: it says which element they store,
  and that they change nothing else and move no iterator.
* `vm_ends`: two classes, two threads and all three uses, and four references, so that
  both classes and both temporaries can have one and a deleted one is handed out to
  another class. The three ways the process ends are those of `Lifecycle`.
* `packages`: class paths from eleven packages, with and without `java/lang`, and
  classes with members of their own and of interfaces. Where the class path is
  `Ordinary` (a package such as `java/io` comes between `java` and `java/lang`; no
  package is named by a beginning of `java/lang`; no name has an underscore; no package
  of the top level that is escaped has packages in it) the rotations are defined, the order
  is that of a sort by group and name, and each package is declared by a string or over a
  variable that was declared before, underscores included. One package on either side of
  each boundary is what decides the probes of a halving search at the ends of the range; up
  to eleven are there so that it halves four times. 96 of the class paths have one of
  three ends: a class named by a beginning of `java/lang` with a package whose name begins
  with `namespace`, a package `namespace`, and a package `namespace/b`; `namespace` is in a
  package and has one in it in others. TLC finds `ParentsDeclared` violated without
  `Ordinary`. One class has every choice of five methods, two fields and those of an
  interface.

`CHECK_DEADLOCK FALSE` is given where the system really stops: after the VM is
destroyed with no variable left (`JReference`, `Threads`), when a generator is done or
its behaviour undefined, and when a null ID was given to a call (`Calls`).

Fairness. `MemberCache` assumes weak fairness of each thread's steps within a lookup
(not of starting one): there is no lock, so nothing but the scheduler stops a thread
there. `Pipeline` assumes weak fairness of its single sequential program. No other
module assumes any, and none has a liveness property.

## 4. The proofs

Proved for every value of the constants, on the constants' named assumptions (null is
no handle, kinds are kinds, a bound is positive, and the like).

* **NoJniProofs**, of `JReference`: `TypeCorrect`; `SingleOwnership` (`OneOwner` and
  `NoDangling`, all conversions allowed); `SameKindManaged` (`HonestType` and
  `GlobalsOwned`, when conversions keep the kind, `SameKindOnly`); `ImplementsRaii`.
  Ownership is inductive together with `RawValid` (the client's raw handles are not
  freed, because `steal` turns them into owned ones) and `GoneIsGone` (an empty
  table once there is no `env`). Every operation has one of three shapes: it
  acquires a new reference, relocates one, or releases one; each invariant is
  proved once per shape.
* **NoJniProofs**, of `MemberCache`: `LookupIsRight`, `MissesHaveReasons` and `EntriesStay`,
  for any number of threads, any class hierarchy and any contents of the tables. The
  invariant `LookupInv` says that an ID in a table is what JNI answers for some class below
  the table's (`TableRight`), that a thread climbs only through ancestors of the class it
  started from (`WalkOf`), and that nothing is pending in a thread that began without an
  exception, as long as no table it may fill has a member that its getter does not find
  (`QuietOf`). The first two give `RightMember`: of an inherited member there is one ID.
  The third gives `MissExplained`: whatever nulls a lookup reads in the tables, it ends with an
  ID from one of them or with the last resort, which finds the member if there is one and
  nothing is pending. `members_hidden` shows that the condition
  `Inherited` is needed.
* **JnixxProofs**, of `Jhandle`: `TypeCorrect` for every client; `SafeOwnership` and
  `ImplementsRaii` for a client without liberties, at any depth of frames. The
  invariant adds `Framed` (an owned local belongs to a frame that lives at
  least as long as the scope of its owner) and `Quiet` (nothing is owned before the
  first native method runs).
* **JnixxProofs**, of `Exceptions`: `ChainsTypeCorrect`, `ScopesBalance`, `AcceptedIsOver`, `NothingVanishes` and
  `HandlersGetTheirOwn`, at any depth. `Levels` counts the frames of every running
  chain; `Accounted` says that handlers run for what was thrown and given;
  `PendingIsOwn` says whose the pending exception is.
* **ArrayProxyProofs.** Of the iterators of `no-jni.hpp` alone: `IteratorsNeverDangle`
  and `ImplementsRandomAccess`, for arrays of any length. `OwnersLive` is
  what keeps a reused handle from being mistaken for its predecessor. It rests on the
  client keeping the `jObject`. Of all three libraries: `ProxiesNeverDangle`, `KeptByOne`
  and `ImplementRandomAccess`, the divergent steps with what they store included. `ProxySound` adds to the types that
  each reference has a keeper (`NoneLeaked`) and, for `jnixx.h`, that an iterator's
  reference is nobody else's (`Kept`): then a variable may go at any time without an
  iterator noticing (`OwnersInvisible`). In `jnixx.cpp` and `no-jni.hpp` the client keeps
  the owner.
* **ThreadsProofs.** Of `Lifecycle`, with one thread, and of `Threads`, with any number:
  `NeverWithoutEnv`, `NeverAfterTheVm`, `ThreadsNeverWithoutEnv` and
  `ThreadsNeverAfterTheVm`, for any number of classes, from `EnvWhileRunning` (there is an
  `env` while the process runs) and `EnvDies` (with the VM, unless the library is a native
  one): no step of a thread in `getClass` touches `env`. Then `FoundStays`, `NoStaleClass`,
  `NoClassLeaked` and `ThreadsActAsOne`, for any number of references. The invariant is
  `Placed` (where threads may be, and what they hold there), `Alone` (a thread alone in
  the assignment finds the variable as it was when it checked) and `Sound` (each live
  reference has one holder while nothing raced). `ThreadsActAsOne` is the refinement: until
  there is a race all threads together take only steps of `Lifecycle`.
* **CallsProofs.** All five properties of the run, for every request of a program:
  `CallsWellApplied`, `MembersAsJava`, `ClearWhenApplied`, `ExceptionsTold` and
  `SkipsTold`. None of them is inductive: the invariant `Carried` says, for each place
  between two lookups, what the lookups so far have left in the ID and in the pending
  exception, in each of the three libraries.
* **PipelineProofs.** Of the generator, for every jar: `NoMethodLost` (`Complete`),
  `NoOverloadTwice` (`NoRedeclaration`), `WrittenWellFormed` (`WellFormed`) and
  `EachClassItsOwn` (`OwnMembers`); and the first two of the collapsing of one class by
  itself (`CollapseIsComplete`, `CollapseIsDistinct`).

  `Collapsing` is the invariant of `process_members`. Each sort puts the methods in an
  order that the following ones keep for methods that compare as equal, so that after
  the sixth the methods that are to be one function are neighbours (`Together`). That
  takes two facts about the comparisons: what lies between two methods that a sort finds
  alike is alike too (`MiddleAlike`), and being one function is an equivalence
  (`SameAgain`). `Grouped` then says what the overloads are of the groups
  walked so far: each method stands behind exactly one overload, two stand behind the same
  one just if they are the same to C++.

  `PipelineInv` adds `Reading` (the text is the printout of the classes in order, the
  pieces are its cut at braces) and `Writing` (each processed piece is wrapped from its own
  lines). No piece is of two classes (`PieceOfOne`), since every class ends with a brace,
  whatever its constants have; hence a piece has no function twice. When the classes up to
  the k-th are whole, the k-th closing brace is that of the k-th class (`EndsOfClosed`), so
  the piece is all of its members (`PieceOfWhole`), none of which is erased
  (`EveryMemberHasLine`).

  The assumptions on the input are what Java and `javap` guarantee. `InputsType` and
  `JarsType` say what a method and a token are. `NamesApart`: a class has one field of a
  name, and no member that is named as an escaped name (`int_` beside `int`), in which case
  the code does write one function for two. `MembersWritten`: in a class without such
  constants a member is outside of angle brackets, and its semicolon is the first thing
  after it that is outside of them. The classes of the run meet all four, which TLC checks.

  Induction is over the least counterexample (`LeastNumber`); what a fold or a recursive
  definition of the libraries computes is stated by a function of the place in the
  sequence, which satisfies the same equation.

* **PackageOrderProofs.** All five properties of the run, for every class path:
  `RotationIsDefined`, `ParentsAreDeclared`, `WrittenInOrder`, `EveryMethodIsCallable` and
  `FunctionsAreDistinct`.

  The invariant `IInv` says, of each stage, what each list has and in which order.
  `PackagesIn`: the packages are closed under the package they are in (`Closed`) and, after
  the scan, are the escaped ones of `pkgs`, sorted; once ordered they are in groups,
  each once (`GroupedOnce`), unless the class path is not `Ordinary`; and behaviour is
  undefined only then. `ClassesIn`: each class is in one of the packages, and in groups as
  well when it is to be written. `DeclaredIn` and `FilesIn`: what was declared and
  written is the beginning of what is to be, and a file has the text of its class. TLC
  finds `IInv` to hold in the run.

  What carries `OrderPackages` is `SearchSorted`. In a sorted range a halving search by
  prefixes finds the extensions of its key, if no beginning of the key is among what it
  searches (so for `java`, `JavaFound`). For `java/lang` there is one, `java` itself, which
  compares as equal though it is less than what is between them. The search is right
  nonetheless if `java` is the first and something else in the range is less than
  `java/lang`: then the ranges that it halves to never have their middle there
  (`LangFound`). A rotation and a partition are described by the place that
  each element had before (`Moves`, `Chosen`), so that what is in the list stays in it.
  `ParentBefore` takes a declared name apart at its last underscore (`PathParent`): the part
  before is the name of the package that this one is in, which is shorter, thus less, and of
  a group that is not greater (`GroupsNest`), thus before it. That the variable of that
  package is the one the declaration names is `VariableFound`: a package of the top level
  gets an underscore in both places, one in another package (`PathVariable`) in neither. An
  escaped name at the top level would get one in the first only, which `Ordinary` excludes.

  The text of a class needs no state: the members are sorted by rank without duplicates
  (`CollectedIs`), and the functions are those of the first member of each name
  (`MethodFunctionsAre`).

  The assumptions are that `java/lang` is a path of two parts, that jars have entries with
  a package and a class in it, that a class has finitely many members, and one field of a
  name. `RotationDefined` and `ParentsDeclared` would both be false without their
  condition `Ordinary`, on class paths of the run.

* **ListProofs** has what the proofs of the two generators share: `LeastNumber`; a sort by
  rank is a permutation in order, stable, and for a set ascending; what a string that is
  before another has to do with its prefixes.

Only model-checked: the liveness properties `LookupEnds` and `Ends`, since the prover does
not handle fairness; and that the slips are noticed.

## 5. What the code does beyond what is promised

Three runs end in a violation; `PROJECT.json` quotes what they contradict. The
following are in the models, as the code has them, without a run of their own.

In `no-jni`:

* each `jReference(jobject)` made from a call's result leaves the local reference to
  the frame (`no-jni.hpp:52`; `Construct`), so a loop that does not return to
  Java fills the table;
* `+=` of an iterator assigns an iterator, which stores an element: the array changes
  and the iterator stays, though it is tagged a random access iterator
  (`no-jni.hpp:604`, 610; `PlusAssign`, one of the steps of `Divergent`);
* a table of static and instance members is filled with one getter, so that a
  `NoSuchMethodError` is pending for the entries after it and at the call that follows
  (`no-jni.hpp:644-645`, 657; `Answers` and `Mixed`, `stale` in `Calls`): of such a table
  `MissExplained` allows a member not to be found though the class has it;
* two threads in the assignment of `getClass` can delete a class reference twice, use
  it afterwards, lose one, or take one of another class that was handed the same
  value (`no-jni.hpp:757`; what is excepted by `raced`);
* JNI looks for `JNI_OnUnload`, the library defines `JNI_OnUnLoad`
  (`no-jvm.cpp:33`, `no-jvm.hpp:18`; `VmEnds`);
* the result of `JNI_CreateJavaVM` is not looked at (`no-jvm.cpp:17`; `CreateVm`,
  and the condition `~failed` in `NoNullCall`).

In `jnixx`:

* `h = h` empties a `jhandle` (`jnixx.h:575`; `CopyAssign`), and `h = std::move(h)`
  leaves it with the reference it deleted (`jnixx.h:605`; `MoveAssign` with
  `"selfmove"`);
* an outer `jhandle` may be given a local of an inner frame by assignment or
  `localize` (`jnixx.h:581`, 713; `"escape"`);
* a weak reference in a `jhandle` is never deleted (`jnixx.h:724`; `Deleted`);
* handlers run with the exception pending, so JNI calls in them are made with it
  (`jnixx.h:973-976`, used so at line 1168; `Catch`), and `jfinally` does not run when a
  C++ exception passes (`jnixx.h:982`; `Unwind`);
* constructors describe exceptions, which clears them (`jnixx.h:511-530`; `Dropped`): the
  handlers of the test at 1152-1165 never see one that a constructor has thrown;
* the lookup of a method on a class leaves the error of the first lookup pending for
  the second and for the call (`jnixx.h:343-348`; the exceptions in `ChosenAsJava` and
  `AppliedClear`); `jnixx.cpp` clears it, and whatever else is pending (237);
* iterators of `jnixx.h` store when they are assigned (272-277; `AssignOwning`);
* what the comment at `jnixx.cpp:812` wonders about (a field that is not found after
  `to_vector`) is what `old_copies` shows: the loop variables are copies that delete
  the references of the vector's elements;
* the test at `jnixx.cpp:824-829` reads through an iterator whose array's handle died
  with a lambda, which a client of `jnixx.cpp` must not (`Disown`; `jnixx.h` allows it:
  `DisownFreely`).

In the generators:

* an overload that is not collapsed takes the return type of the one before it, so
  `abs(double)` is given that of `abs(int)` (`wrapper_generator.cpp:226`; `Collapse`);
* a brace or a lone bracket in a constant gives a class, or all after it, another's
  members (412, 501-507; `Whole` in `OwnMembers`), and a name that is a word of C++ is
  escaped for the lookup in Java as well (290-299, 339; `CppName`);
* a failing shell command gives exit status 0, since `std::system` returns 256 times the
  command's (385, 407-408; `Status`);
* without a package between `java` and `java/lang` the second rotation is undefined,
  with one whose name is a beginning of `java/lang` packages come before their
  parents, and a package whose name has an underscore, or begins with `namespace`, is
  declared by a parent that does not exist (`no-jvmti.cpp:633`, 641-644; the conditions in
  `Ordinary`); neither does the parent of a package in one named `namespace` at the top level,
  which is declared as `namespace__` and looked for as `namespace_` (648, 651); classes named by a beginning of `java/lang` are not where a sort would have
  them (668; the condition in `ClassesGrouped`);
* classes that are not public, and those with `namespace` in their name, are written
  from a null class, because the map has no such key (`no-jvmti.cpp:606`, 660, 715;
  `Write`, `EmptyText`);
* static and other overloads share one function, which is static as the first of them
  is (`no-jvmti.cpp:820-841`), and a class that hides a field of its interface has two
  functions for it (775; the exceptions in `EveryMethodCallable`, `FunctionsDistinct`).

## 6. What is not modelled

* The spelling of text: C++ types (`demangle`, `overloaded`), templates, regular
  expressions beyond what they do to the separators of names. So the signature of a class
  is not in the model: for a class in a package of the top level it is written over
  `::pkg`, while the variable is `pkg_` (`no-jvmti.cpp:648`, 689).
* A `PushLocalFrame` that fails: the code ignores the result (`jnixx.h:938-941`), and the
  pop that follows would end a frame of somebody else. In `Jhandle` and `Exceptions` it
  succeeds.
* The exception that a failing `FindClass` leaves pending in the agent's scan, which goes
  on with it (`no-jvmti.cpp:605`). In `PackageOrder` it is an input which
  entries are found.
* JVMTI wrappers: one forwarded call each; what they answer is an input.
* Strings and monitors: straight-line code without a state that lasts. A `jMonitor` keeps a
  reference to the `jReference` and not its handle (`no-jni.hpp:877`), so it exits the monitor
  of whatever that variable holds by then; no code of the repository makes one.
* Compile-time computation: packages and signatures. `MemberCache` takes the index of a
  member as a constant.
* The tests and the SWT event loop of `no-jni.cpp`, and the generated wrappers.
* `no-jvmti.cpp` at this commit lacks a brace in the loop at lines 679-695; what is
  said of it follows the evident intent. `find_loaded_class` of `jnixx.h` (514) is only
  declared in it; it is modelled as a lookup.
* The rule that a `JNIEnv` belongs to one thread: the static `env` of `no-jni.hpp`
  breaks it on any second thread. `MemberCache` and `Threads` show what the tables and
  the classes do when calls through `env` work on every thread.

## 7. Plan

Done, in this order: `Raii` and `JReference` (every wrapper rests on them),
`MemberCache` (shared by all threads), `Jhandle`, `Exceptions`, `OverloadCollapse`,
`ArrayIterator` with `RandomAccess`, `Lifecycle`, `PackageOrder`; then `Invokers` and
`Calls`, `ArrayProxy`, `ClassMembers`, `Pipeline`, `OldHandle` and `Threads`, each with
its run and its proofs, those of `PackageOrder` last.

Next:

1. `Threads` composed with `MemberCache`, whose lookups start from a class reference.
2. A client of `jMonitor` and of the strings, should the repository get one.
