# FFI::Platypus in TLA+

FFI::Platypus lets Perl programs call native functions: it is a Perl
distribution with an XS core over libffi. This directory models the parts of it
whose correctness depends on order, nesting, sharing and lifetimes; conversions
of values are left out unless a property is about them.

Run a model with `tlc -workers 2 -config X.cfg M`, check the proofs with
`tlapm M.tla` for the eight modules `*_proofs`.

## The system

| Component | State it keeps | Operations | What is hard | What makes it correct |
|---|---|---|---|---|
| Call dispatch: `include/ffi_platypus_call.h`, included by `ffi_pl_sub_call` and `ffi_pl_sub_call_rv` (`lib/FFI/Platypus.xs`) and `Function::call`; `xs/custom.c` | per interpreter: `current_argv`, `custom_keepers`; per call: argument buffer, heap list, slot and argument index | call, convert in, call C, convert out, return; croak | Perl code runs in the middle of it (handlers, closures) and makes calls of its own; exceptions cross the C frames | no call reaches another call's buffer; handlers get their own slots; memory handed to C lives as long as the call; nothing leaks |
| Custom type API: `xs/API.xs`, `API.pm` | reads and writes slots of `current_argv` | `arguments_get_*`, `arguments_set_*`, `arguments_count` | valid only in a handler, decided by a pointer that is shared by nested calls | valid in every handler and nowhere else |
| Closures: `Closure.pm`, `xs/closure.c`, `xs/Closure.xs`, `xs/ClosureData.xs` | object with `code`, `cbdata` (native closures by type address), `sticky`; native closures (`ffi_pl_closure`) | new, pass, call back, sticky, unstick, free | manual reference counts around a call that runs Perl code; C keeps pointers nobody counts | a pointer C was given is callable as long as promised; freed once, and not never |
| Thread check: `xs/closure_thread.c`, `ffi_pl_closure_call` | thread that made the native closure | compare, abort | ithreads clone objects, C threads call closures | Perl code runs only in the thread of its interpreter |
| Function objects: `xs/Function.xs`, `Function.pm` | `ffi_pl_function`: address, cif, raw type pointers, a reference on the instance | new, call, attach, sub_ref, DESTROY | raw pointers to types; attached functions are never freed | types outlive the functions that point at them |
| Custom type plugins: `Type/*.pm` | a `@stack` of buffers for each plugin or type | perl_to_native, perl_to_native_post | stack shared by nested and unwound calls | each post handler finds its own buffer |
| FFI::Platypus object: `Platypus.pm`, `xs/DL.xs`, `Bundle.pm` | libraries, handles, mangler, abi, language | lib, find_symbol, function, attach, bundle, DESTROY | caches that depend on settings changed later | an address in use is of an open library; no handle leaks or is closed twice |
| Type parser: `TypeParser*.pm`, `xs/TypeParser.xs`, `xs/Type.xs` | types by name, shared basic types | parse, set_alias, create_*, DESTROY | functions point at types they do not hold | a type a function uses is not freed |
| Records: `Record.pm`, `Record/*.pm`, `xs/record_*.c` | layout computed once, bytes | record_layout, accessors | alignment and bounds | C's layout; no access outside the record |
| Buffers, memory: `Buffer.pm`, `xs/Buffer.xs`, `Memory.pm` | none | windows and copies | lifetimes are the program's | - |
| FFI::Temp, FFI::Build, FFI::Probe | `.tmp` directory shared by processes; files and their times; a data file | newdir; build, clean; check_* | races of processes, coarse clocks, caches | nobody dies or removes what others use; nothing stale is linked |
| Others: cast, Constant, Legacy, ShareConfig, Lang, complex, installation | none of their own | - | - | - |

How they interact: `attach` and `function` (Platypus object) parse types (type
parser), find an address (libraries) and make a function object; an xsub runs
the call dispatch; the dispatch copies what references refer to into memory for
C and back, calls handlers of custom types (plugins), which use the API on the
dispatch's buffer, makes native closures for closure objects and files them
there, and passes records as the address of their bytes or by value; native code
calls the closures back, which run Perl code, which calls other xsubs. In one
interpreter all of it happens on one C stack: there is no concurrency but that
of nesting. With threads, native closures travel between interpreters. The build
tools are programs of their own that share files: several processes one
directory (`FFI::Temp`), a build and those who edit its sources the times of
files (`FFI::Build`).

## The modules

| Module | What it is |
|---|---|
| `Call` | the call dispatch, with nested calls |
| `Plugin` | the shared stack of the shipped custom types, composed with `Call` (extends it, one step of `Call` with one of the stack) |
| `MCCall` | signatures made of the shapes of the shipped plugins, for TLC |
| `Arguments` | memory of pointer and array arguments over one call, and the Perl variables they refer to |
| `Closure` | closure objects, native closures, types and instances, in one interpreter |
| `Thread` | closures over native threads and cloned interpreters |
| `Library` | the libraries, handles, mangler and bundles of an FFI::Platypus object |
| `TypeParser` | the types of an FFI::Platypus object, filed by name, and the functions that point at them |
| `Struct` | abstract: what a record class promises, objects whose members are variables |
| `Record` | record classes, the bytes of their objects, strings; refines `Struct` |
| `Temp` | processes that share the temporary directory |
| `Build` | builds over files with modification times |
| `MCArguments`, `MCClosure`, `MCThread`, `MCLibrary`, `MCTypeParser`, `MCRecord`, `MCTemp`, `MCBuild` | instances for TLC |
| `Call_proofs`, `Closure_proofs`, `Thread_proofs`, `Library_proofs`, `TypeParser_proofs`, `Record_proofs`, `Temp_proofs`, `Build_proofs` | theorems about these modules |

Composed are `Call` with `Plugin` (they share the calls) and `Record` with
`Struct` (a refinement). The others do not share variables: `Closure` takes from
`TypeParser` that a closure type lives as long as its instance, and from
`Library` that an instance is held by its functions; `Thread` takes from
`Closure` that a closure in a call stays alive; `Arguments` is what `Call` has as the
`pc` of one frame, `in`, `native` and `out`, with the data: its `phase`. Its
names differ from those of `Call` throughout, so that `Call_proofs` extends both.

### Call

One `frame` for each call in progress, outermost first; `depth` counts them, and
frame 0 is the main program. A frame records where in
`ffi_platypus_call.h` the call is (`pc`), the C variables `i` (slot, from 0)
and `perl_arg_index` (`p`, from 1), the function and the number of the call.
`argv` is `MY_CXT.current_argv`, as the number of the call whose buffer it is:
comparing buffers by their calls keeps apart a pointer to a freed buffer and a
pointer to a new one at the same address. `heap` is the set of calls whose heap
list has not been freed, `keepers` is `MY_CXT.custom_keepers`. `aborted` is a
history variable: the calls that an exception unwound.

| Actions | Code |
|---|---|
| `Enter` | allocation of the buffer, `current_argv` set (lines 24-59) |
| `PlainIn`, `CopyIn`, `ConvertIn`, `ConvertedIn`, `ConvertedInEmpty` | one argument of the loop of lines 65-649: not custom; custom with no handler; the handler is called; it returns a value; it returns the empty list |
| `CallNative`, `NativeReturn` | lines 692-700 |
| `Callback`, `CallbackReturn` | `ffi_pl_closure_call`, during which Perl runs |
| `PlainOut`, `PostOut`, `PostReturn` | one argument of the loop of lines 702-965 |
| `Return`, `ConvertReturn`, `ConvertedReturn` | return value without and with `native_to_perl` |
| `Refuse` (in `Store`) | `ffi_pl_croak` for a record value or an object of another class |
| `Die` | an exception in a handler unwinds the C frame of its call |

The steps are as large as the code allows: between two of them Perl code runs
(`PerlRuns`), or the call goes on. An exception is caught by the Perl code that
made the call or thrown on: in the model the caller is in a handler, in the main
program or in a closure (which `ffi_pl_closure_call` calls with `G_EVAL`), and
dies with its own step. A type is reduced to what the control looks at
(`ArgType`). `argument_count` in C is the number of slots after the first one
(`extra`). A custom type with no `native_to_perl` handler, or of a type that
cannot be returned, ends like `Return`.

### Plugin

`stack` is the `@stack` of a plugin package, `popped` what the last post handler
got and what it should have got, `emptied` says that some handler has returned
the empty list since the outermost call in progress began (`Begins` is `Enter` with
its reset). `PluginNext` is a step of `Call` with what the handler does to the
stack: `ConvertedByPlugin` pushes, `PostByPlugin` pops, all other steps leave it
(`Elsewhere`). Every custom type of the
instance that has a post handler is taken to be of one plugin: that is the case
in which they can get in each other's way.

### Arguments

Scalars and arrays of Perl; for each argument of the call the variable it refers
to and the block that was made for it, with the place it is at (`heap` or the C
stack, as the kind of argument and `Alloca` decide) and whether it is alive; what the function returns: the
memory of an argument (`returned`) or memory of C's own (`given`). `at`, the `i` of
the code counted from 1, goes up on the way in and down on the way out.

| Actions | Code of `ffi_platypus_call.h` |
|---|---|
| `Begin` | the call of a function, with the arguments |
| `PointerIn`, `ArrayIn`, `NullIn`, `ZerosIn` | lines 273-624: a reference to a scalar; to an array; not a reference, or one that is refused; an array type given something else |
| `WildIn`, `Killed` | line 383 at api 2: any other reference, to a hash or to code, where a pointer is declared, is read as an array |
| `CStore`, `PerlChanges` | the native function writes to a block; it calls a closure that pushes, shifts or replaces an array |
| `CReturn` | line 694, with a result that may be NULL, the address of an argument, or of memory of C's own |
| `ScalarOut`, `ArrayOut`, `ArrayOutDies`, `NothingOut` | lines 724-936 |
| `Free`, `ReadResult` | lines 974-976; the pointer results (1263-1369) and the array results (1377-1525) |

A value is 0 or 1; an element of an array of addresses may be `Frozen`,
`&PL_sv_undef` itself. What is shown of a block in an array (`Shown`) follows the
switch of lines 808-828, which gives an address other than NULL back only to
an array type: an array that was passed for `opaque *` or `string *` keeps its
element (`Withheld`). An array result of a type without length is read up to the
first NULL (`Looked`), also one of 64-bit numbers (`wide`), whose type code has
the bits that line 1392 tests; one of smaller numbers has no elements.

### Closure

Perl variables with reference counts (`vrc`) and the object they refer to
(`var`); closure objects with theirs (`rc`), `sticky` and `cbdata`; native
closures; closure types, named by their address, with what keeps their
FFI::Platypus instance alive (`holders`); and a stack of calls that pass one
closure each. One closure type stands for one instance. Addresses are reused:
when an instance goes, its address may get another type of another signature.
Perl code runs in the main program and in closures called back, and does
anything with the variables.

`Reassign` says whether closures may assign to a variable that is being passed
at that moment. With `FALSE` the counts are right, and that is what the run
shows; with `TRUE` they are not (below), while `FiledOnce` and
`TypeOutlivesNative` still hold, and are proved for both. `Loose` are the
instances whose functions are also used as objects; of the others they are only
attached.

| Actions | Code |
|---|---|
| `New`, `Sticky`, `Unstick` | `Closure.pm` |
| `Assign`, `LeaveScope` | what a program does to its variables |
| `NewType`, `Function`, `Attach`, `Release` | `create_type_closure`, `Function::new`, `_attach`, the `DESTROY`s |
| `PassUndef`, `PassCached`, `PassNew`, `PassFailed` | argument in, closure type (lines 198-271) |
| `Callback`, `CallbackReturn` | `ffi_pl_closure_call` |
| `Return` | argument out, closure type (lines 713-722) |

### Library

The settings (`lang`, `lib`, `mangler`, `mymangler`), the paths with a filed
handle (`handles`), how often each library is open (`opened`, the count that
`dlopen` and `dlclose` keep), and who refers to the object: the program (`held`),
function objects (`functions`), attached functions for ever (`attached`).
`bundled`, `inited` and `again` are history variables; `again` counts the bundles
that opened a library whose handle was filed already. An address is a library and a symbol. A mangler
is named by who made it, and for which list of libraries. A search is one step:
no Perl code of the program runs in the middle of it. Which libraries load is
chosen anew for every search (`loads`).

| Actions | Code |
|---|---|
| `Lib`, `SetMangler`, `SetLang` | `lib`, `mangler`, `lang` of `Platypus.pm` |
| `Function`, `Attach` (with `FindSymbol`, `Search`) | `function`, `attach`, `find_symbol` |
| `Bundle`, `BundleRaises` | `bundle` of `Bundle.pm`, whose third search raises an exception when the plugin does not load |
| `DropFunction`, `Drop` | the program lets go of a function object, of the instance |
| `CallFini`, `CloseHandles` | `DESTROY` |

`MayFail` are the libraries that may fail to load; a path that fails is not in
`loads`. `bundle` looks only at the paths that load.

### TypeParser

`types` is the table of a parser: the type filed under each name. A name is a
form (`plain`, `pointer`, `array`, ...) and a unit, a basic type or a word; the
names that the regular expression tells apart and that matter here are those.
`spaced` is what the parser itself spells, `int [10]`. A type has its kind, the
unit, the abi it was made with, the type it points at (`inner`) and an `id` that
tells allocations apart, 0 for the types every process has. What is not filed is
freed: `Allocated` are the ids of the filed types. `functions` are the types
that the argument of a function points at.

| Actions | Code |
|---|---|
| `Mention` | `type`, `parse` |
| `RecordMember` (with `ParseMember`) | `record_layout` of a class: `parse` with the option `member`, which accepts fixed strings in both versions |
| `SetAlias`, `CustomType` (with `CheckAlias`) | `type` with an alias, `custom_type`; the alias is checked before the type is parsed |
| `SetLang`, `SetAbi` | `lang` with the type map and the abi of the plugin; `abi` |
| `Function`, `DropFunction` | `function`; `DESTROY` of a function object |

`Parse` and the operators under it follow `parse` of `Version1.pm` branch by
branch, with the state of the table after each recursive call, also when the
call raises an exception. `load_custom_types` of a plugin is as many steps
`CustomType`.

### Thread

Native threads `T` with identities `Id` that the system gives to later threads
again; `perl` are the threads with an interpreter. Every interpreter has its own
copy of each closure object (`held`, `rc`, `sticky`, `cbdata`), and C knows all
native closures. `stack` is, for each thread, the calls in progress: an object
that is passed to native code, a native closure whose Perl code runs. `build`
says how the build tells threads apart: by identity, by whether there is an
interpreter, not at all.

| Actions | Code |
|---|---|
| `StartNative`, `Create`, `Exit` | a C thread; `threads->create` with `CLONE_SKIP` of `ClosureData`; the end, with the destruction of an interpreter |
| `New`, `Drop`, `Stick`, `Unstick` | `Closure.pm`, `xs/Closure.xs` |
| `PassNew`, `PassCached` | `ffi_pl_closure_get_data`, `_add_data`, the making of a native closure |
| `Call`, `WrongThread`, `Return` | the head of `ffi_pl_closure_call`, `xs/closure_thread.c` |

With `build = "none"` (a Perl without threads) a closure called from another
thread is undefined; nothing is said of what follows (`Defined`).

### Record and Struct

`Record` has the layout while it is being made (`phase`, `rest`, `members`,
`offset`, `align`, `methods`), what the C compiler computes for the same
declaration (`compiled`), what libffi is told (`elements`), objects as bytes
(`object`), heap strings (`strings`) and the last call and its answer (`event`).
`strayed` says where the last step reached memory outside of members, `shared`
that C returned a copy of a record with rw strings, `corrupt` that memory
was freed twice.

| Actions | Code |
|---|---|
| `RecordLayout`, `AddMember`, `MemberRefused`, `Finish` | `record_layout` of `Record.pm`, one member after another; the end, with `Record::Meta` |
| `New`, `Destroy` | `new`, `DESTROY` |
| `SetScalar`, `SetElement`, `SetList`, `SetFixed`, `SetString`, `UnsetString` | the accessors with a value: `xs/record_simple.c`, `record_string.c`, `record_opaque.c` |
| `Get`, `GetElement`, `GetAddress`, `NullRecord`, `Refused`, `Nothing` | without one, with an illegal index, on undef, on a read-only object |
| `CStore` | C assigns to a member at the place its compiler gave it |
| `PassByValue`, `ReturnCopy`, `ClosureCopy` | records by value: argument, result, argument of a closure |

`Struct` has no bytes: `shape` is the list of members, `value` what each element
of each member of each object holds, `event` the last call and its answer. Its
actions are `Declare`, `Create`, `Assign`, `Read`, `Copy`, `Destroy` and
`Refuse`. `IsStruct` says that `Record` implements it, with the elements read
from the bytes as `value`: an assignment changes one member, a read
answers what was assigned last, cut to the width and sign of the member, by
whichever accessor or C function. What `Struct` leaves open is the answer
of an array of addresses (`loose`), because the code does (`record_index`).

### Temp

`pc` says where each process is in `_root`, `newdir` or its end: `exists`,
`mkdir`, `open`, `use`, `end`, `exit`. Each system call is a step, as processes
interleave there. `lock` and `temp` are the files in the directory,
`owns` the processes that have the directory in `%root` and try to remove it at
their end (a forked process inherits `%root`, and its lock file has its own id),
`left` the history variable that something was left behind: by a kill, or a
temporary file that the program did not drop before it ended. `stale` says that
the temporary file of a killed process is in the directory: unlike its lock file,
which the next process with its id takes over, nobody removes it. An exception of
`newdir` ends the program, or the program catches it and goes on (`Caught`).

### Build

The clock has the resolution of `stat`; `version` and `mtime` of the sources and
headers, `object` and `library` with what they were made of (`of`), their times
and whether they were written to the end (`whole`). `mm` says that the compiler
tells the headers. `settled` are the edits that a build must have: those later,
by the clock, than the files there were, and not during a build; `torn` that a
killed build left part of a file.

| Actions | Code |
|---|---|
| `Begin`, `NextItem`, `Reuse`, `Compile`, `Compiled`, `Kept`, `Link`, `Linked`, `Done` | `build` of `Build.pm`, `build_item` of `File/C.pm`, object by object; `item` is the index of the loop |
| `Error` | a compiler or linker that fails: the exceptions of `File/C.pm:64-68` and `Build.pm:514-518` |
| `Killed`, `Torn` | a build is killed between two steps, or while a file is written |
| `Clean` | `clean` |
| `Edit`, `Tick` | others |

## The runs

| Run | Configuration | Shows |
|---|---|---|
| `call` | `MCCall.cfg` | `current_argv` is the handler's own call's when no call was made since, then none or that of a nested call that was unwound, never an outer or a returned call's (`ArgvOwn`); handlers get the slot of their argument (`HandlerSlot`); argument memory lives as long as its call (`HeapOfCalls`), what is kept of converted arguments too (`KeepersOfCalls`), and what the plugins keep (`StackOfCalls`) |
| `arguments` | `MCArguments.cfg` | `CopiedBack`, `ReadsInside`, `BlocksLive` with two calls, aliased arguments, callbacks that change what is passed, things that are no arrays, and pointer and array results |
| `closure` | `MCClosure.cfg` | counts are what refers (`CountExact`); a pointer passed can be called and has the right signature (`PassedStaysCallable`); `FiledOnce`, `StickyKeepsNative`, `TypeOutlivesNative` |
| `thread` | `MCThread.cfg` | `RunsOnOwner`, `FiledByOwner`, `IdentityCurrent` under all three builds |
| `library` | `MCLibrary.cfg` | `OpenAsNeeded`, `ManglerCurrent`, `Unloads`, with a language that mangles, one that does not and one whose plugin does not load |
| `type_parser` | `MCTypeParser.cfg` | `TypesOutlive`, `UnitsAgree`, `NamesStable` under three languages and two abis |
| `record` | `MCRecord.cfg` | members are where the C compiler puts them (`LayoutOfC`) and libffi looks for them (`LibffiAgrees`); `StringsOwned`, `StoresConfined`; and that `Record` implements `Struct` (`IsStruct`) |
| `temp` | `MCTemp.cfg` | `DirStays`, `NothingLeft`, `Answers` |
| `build` | `MCBuild.cfg` | `UpToDate`, `NothingTwice` |
| `record_index`, `library_bundle_init`, `type_fixed_string` | `RecordIndex.cfg`, `LibraryBundleInit.cfg`, `TypeFixedString.cfg` | violated: see the findings |

Each passing run but `arguments` also checks the `TypeOK` of its module.

Bounds. `call`: `MaxDepth` 3 nests a call in a call in a call: a pair is enough for
every shared variable (`current_argv`, `custom_keepers`, the stack), the third
one lets a nested call be itself the outer one. `MaxCalls` 4 gives each
behaviour one call after another at one of these depths, which is how a dangling
`current_argv` or a leftover entry meets a later call. The signatures put wide,
plain, custom and checked arguments next to each other, so every order of a
push, a skip and an unwinding occurs.

`arguments`: one scalar and two arrays, which any argument may refer to, so that
two arguments may have one variable; two calls, so that the second one meets
what the first one left in the variables (`Frozen`); one store or callback in
each call, which is enough to change a length between the two looks at it; of a
type with a length and one without, each comes first in one of the signatures. The
results are a pointer, nothing, an array of two and one that is read up to a NULL,
each in the memory of an argument or in C's own, where one block has a NULL and one
has none; what is no array is read as an array of none or one element. The two
arrays are symmetric.

`closure`: two variables and two objects (one object reachable through two
variables, two objects in one variable after another), two instances, one of
which is loose, two signatures for an address that is used again, three native
closures (one more than an object needs for both types, so a second one for the
same type is possible), and two nested calls.

`thread`: four threads under three identities, so that an identity is used again
while another thread runs; one object, of which each interpreter has a copy;
three native closures; three calls in progress on a thread.

`library`: `MaxLib` 3 is one path more than there are libraries, so a path is in
the list twice, once bundled and once not; two functions at a time are enough
for one to be found in a library that a later search opens again.
`type_parser`: `MaxType` 4 is one type of each allocated kind (array, closure,
record, custom); `MaxFunction` bounds the functions that point at them. The word `foo_t` is of two languages with different types and not of C, `a` is of
none, and both may be made aliases: each conflict between a word, an alias and what
was filed for them before occurs.

`record`: bytes have two values instead of 256 and pointers four bytes, so that
cutting and extending the sign happen with the numbers -1 and 5; the seven
declarations have padding inside and at the end, each kind of member, arrays at
the end and inside, and each way to be refused, and follow one another in every
order until a class is defined. Two objects and two stores: one to each, or a
second one to the neighbour of the first. `temp`: three processes, one to begin,
one to end and one to fork; two attempts stand for ten; an id is used again
after a process ended. `build`: two sources, of which one has the header, four
seconds and two edits: one edit may fall into the second of a build, the other
one later, and builds follow.

The runs but `closure` and `type_parser` do not check for deadlock: the program
may end, or a bound on the calls, stores or time is reached.

Fairness. `Unloads` says that an object nothing refers to calls its exit
functions and closes its libraries, under weak fairness of `CallFini` and
`CloseHandles`: Perl destroys an object as soon as its count drops to zero, and
`DESTROY` runs to its end. Dropping references is up to the program and is not
fair. `Answers` says that a call of `newdir` comes to an end whatever the other
processes do; the fairness is that of a scheduler that runs every process that
can run (`Step`). It rests on the bound of the attempts, which its mutant takes
away: without it two processes can keep a third one from ever opening its lock
file. Starting, forking, dropping and killing are not fair. In the other parts
nothing has to happen eventually: a call ends when the native function does, and
Platypus schedules nothing.

## What is proved

`Call_proofs` proves, for every set of functions and signatures and every bound,
under `CallAssumption` (an argument that is not custom has one slot, `NoFun` is
not a function, the bounds are numbers) and, for the last two, which are about
`PluginSpec`, `PluginAssumption` (what has a post handler is custom and has the
handler that pushes):

| Theorem | States |
|---|---|
| `Invariance` | `IInv` holds in every reachable state |
| `TypeCorrect` | `TypeOK` |
| `ArgvIsOwn` | `ArgvOwn` |
| `CallsPlaced` | `FramesPlaced` |
| `HeapLifetime` | `HeapOfCalls` |
| `HandlersGetTheirSlot` | `HandlerSlot` |
| `KeepersKept` | `KeepersOfCalls` |
| `StackKept` | `StackOfCalls` |

`IInv` is `TypeOK`, `FramesPlaced` and the properties themselves. Alone, none of
the properties is inductive: that the ending call is not also another one in
progress needs the calls to have different numbers, that the top frame is a call
at all needs the unused frames to be the main program, that an unwound call whose
buffer shows through was nested in the handler's own call needs the calls in
progress to be in the order they began, and that the slot of a
post handler is the argument's first one needs the two indices of every frame to
belong together in every phase; `FramesPlaced` says these four. The argument goes over the
actions: `Enter` (`EnterInv`), the actions that keep the call (`ResumeInv`), and
those that end it (`LeaveInv`), with lemmas on the slots: `FirstSlot` is the
cardinality of the set of slots before an argument, so its step by
`1 + extra` (`FirstSlotNext`) and `TypeAt` at a first slot (`TypeAtArg`) follow
from the library's theorems on finite sets.

`custom_keepers` and the `@stack` of a plugin are lists that every call pushes
to and pops from, without a mark of where its own part begins. `PluginInv` says
of both (`Rules`): nothing that was pushed later lies below an entry of a call in
progress (`InOrder`), and each entry is still to be popped, or its call or one that began
later was unwound (`Accounted`). With `Complete`, that what is to be popped
is there, a pop takes the entry of its own argument unless a later call was
unwound (`PopsOwn`). For `@stack`, which is popped only after a push, `Complete`
always holds; for `custom_keepers`, from which an entry is popped for an
argument whose handler returned the empty list too, only while no handler has done so
since the outermost call in progress began (`~ emptied`): the next outermost call
begins with nothing of its own in the list, and is right again. The lemmas on the lists (what a push, a pop, the end of a call do
to an ordered list) are stated once, about any list, and serve both.

Of `Arguments`, which is a system beside these two, `Call_proofs` proves, for all
variables, signatures, results and bounds, under `ArgumentsAssumption` (scalars,
arrays and the constants are apart from each other, and memory of C's own has a
first cell):

| Theorem | States |
|---|---|
| `ArgumentsInvariance` | `MemoryInv` holds in every reachable state |
| `ArgumentsComeBack` | `CopiedBack` |
| `ArgumentsReadInside` | `ReadsInside` |
| `ArgumentsStayAlive` | `BlocksLive` |

`MemoryInv` has five parts: the types, with a block for each argument converted so
far (`Typed`); blocks live until they are freed, those on the heap are freed before
the result is read, and a result read outside is one of the cases (`Living`); while
nothing was changed by a callback, each block is as long as its type says, or as its
array is, unless a later argument made the array longer (`Fitting`); what was read
outside on the way in or in the copy back is one of the cases (`Straying`); and the
arguments after `at` were copied back, but those whose variable an argument before
them, also copied back by then, has overwritten (`Back`). `CopiedBack` is `Back`
at the end, but inductive is only `Back` with `Fitting`: that the copy back
changes no length, which would change what the next one reads, follows
from the block being no longer than the array. Without `Outgrown` it is
`ArrayIn` that does not keep `Fitting`, and `ReadsInside` is false of the code for an
array without length before one with a length, which is why the run has such a
signature. What C returned decides the rest: a result is read inside what is
pointed to unless the block was freed or is too short for what `Looked` looks at.

`Library_proofs` proves, for every set of libraries, symbols, languages and
every choice of what fails to load, under `LibraryAssumption`:

| Theorem | States |
|---|---|
| `LibraryInvariance` | `IInv` holds in every reachable state |
| `LibraryTypes` | `TypeOK` |
| `LibrariesOpenAsNeeded` | `OpenAsNeeded` |
| `ManglerStaysCurrent` | `ManglerCurrent` |

Here `IInv` adds to `TypeOK` and `ManglerCurrent` an account of every library:
each is open exactly as often as it is filed or was bundled when it was filed
already, nothing is filed any more when the object is gone, and the addresses in
use are of filed libraries. The argument
rests on one lemma, `SearchEffect`: a search leaves every library open as often
as it was, but for the one it found and files. `Bundle` is three searches.

`TypeParser_proofs` proves, for every set of types, names, languages and abis,
under `TypeParserAssumption` and the assumption `NoFixed`, that no member of a record
class is a fixed string, and the parser has version 1 or no fixed string is
mentioned elsewhere:

| Theorem | States |
|---|---|
| `TypeParserInvariance` | `IInv` holds in every reachable state |
| `TypeParserTypes` | `TypeOK` |
| `FunctionsHaveTheirTypes` | `TypesOutlive` |
| `NamesKeepTheirMeaning` | `NamesStable` |
| `UnitsOfAliases` | `UnitsAgree` |

`NoFixed` is necessary: without it `TypesOutlive` fails (`type_fixed_string`).
Here `IInv` adds that a type of kind `basic` is of a basic type: otherwise
the name a pointer is filed under could be the name the parser spells for
it, and filing it would free what was just made. `ParseGood` says that a
call of `parse`, also one that raises an exception, keeps what was filed and
returns something held; `ParseFrame`, that it files nothing under the name of an
alias about to be set.

For the units it is `Agreeing` that is inductive, which speaks of the filed types alone: a
pointer or an array of a basic type has it for unit, and one of a word has the unit
of a language in use that has the word, or else is filed only after the word, which
is of a basic type, and has its unit. A call of `parse` keeps this (`ParseAgree`), and so does an alias, because
what it is filed under meant nothing until then (`ParseFrame` again), so that no
pointer or array of it was filed.

`Closure_proofs` proves, for any numbers of variables, objects, types and nested
calls, also when closures reassign what is passed, under `ClosureAssumption` and
`NativeAssumption` (`None` is none of the things it is used beside):

| Theorem | States |
|---|---|
| `TypeCorrect` | `TypeOK` |
| `NativesFiledOnce` | `FiledOnce` |
| `TypesOutliveNatives` | `TypeOutlivesNative` |
| `CountsExact` | `CountExact` |
| `PassedCallable` | `PassedStaysCallable` |
| `StickyKeeps` | `StickyKeepsNative` |

The last three assume `~ Reassign`, as the run does: no closure assigns to a
variable that is being passed. Without it they are false, see the findings. The
invariant adds that calls in progress were passed variables (`CallsPlaced`), that a type is there exactly as long as something holds its instance
(`TypesHeld`), and that a native closure of a type whose functions are only
attached was made by an attached one (`NativesHeld`): that one is never given
up, which is why the type stays. One lemma, `CountsSet`, says for all the steps
that change counts that what they leave of the native closures is filed as before.
For the counts it is `Undisturbed`: besides, what a call was passed is
what its variable still refers to, so that the references that the call drops are the two
it took (`CountInv`), and the pointer it was given is filed for that object and
type (`PointersFiled`). A pointer stays callable because the call's own reference
keeps the count of the object above zero, which is `CountInv` again. A step adds
one element to a set that is counted, or removes one; the lemmas say what that
does to its cardinality.

`Thread_proofs` proves, for any number of threads, identities, objects and
nested calls, under `ThreadAssumption`:

| Theorem | States |
|---|---|
| `TypeCorrect` | `TypeOK` |
| `ClosuresRunOnOwner` | `RunsOnOwner` |
| `ClosuresFiledByOwner` | `FiledByOwner` |
| `IdentitiesCurrent` | `IdentityCurrent` |

The three properties need one another, and two facts more: running threads have
different identities, and an interpreter belongs to a thread that runs. A
closure is on the stack of its owner because its identity was compared when it
was called; the comparison is right because a native closure goes with its
interpreter, before the identity can be given away; it goes because it is filed
nowhere else.

`Record_proofs` proves, for every list of members with any widths, alignments and
array lengths, any number of objects, strings and stores, under
`RecordAssumption`: a byte has an even number of values, the size of a type is a
multiple of its alignment, as the elements of C arrays need, and the address of
a string is a number of pointer width, not 0:

| Theorem | States |
|---|---|
| `LayoutIsOfC` | `LayoutOfC` |
| `LibffiComputesLayout` | `LibffiAgrees` |
| `TypesKept` | `TypeOK` |
| `StoresStayInside` | `StoresConfined` |
| `StringsHaveOwners` | `StringsOwned` |
| `RecordsAreStructs` | `IsStruct`, that `Record` implements `Struct` |

The layout. The invariant adds that the offset of Perl is where the struct of C
ends so far (`Agreed`). The code aligns by adding one until the remainder is 0, C
by a division: `AlignedAgree` is the lemma that they come to the same. libffi
places one element after another, of which an array has many: `Told` says that the
element that begins a member ends where that member's first one does, and
`ToldAdded` that a member more keeps it so.

The bytes. `NumberStored` says that what is put together from bytes by powers of
the base is what was taken apart by divisions, `PeekStored` that with the sign it is
what a C variable of the width and signedness holds (`Keep`). `PlacedApart` says
that the elements of members have no byte in common, and `PokeElements` what
follows: after a store each element of the record reads as before, but the one
stored to.

The strings. `StringsOwned` is not inductive: what is needed is `OneOwner`, that
no two members of objects point to one string, and each string has a member that
does; the next `realloc`, `free` or `DESTROY` then frees what nothing else has.
It holds as long as C returns no copy of a record (`shared`).

The refinement. `Shape` and `Fielded` are the mapping: the value of an element is what is
read from its bytes. `StoreRefines` maps the accessors with a value to `Assign`,
`ReadingRefines` those without to `Read`, `WholeRefines` what makes, copies and
frees objects, `LayoutRefines` the layout to `Declare` or a stutter.

The definitions these theorems are about are recursive functions (`Pow`,
`Number`, `FirstOf`, `LibffiEnd`). The library's induction theorems take an
operator, which the provers cannot give; here induction is over a set of numbers
(`SetInduction`, from the library's theorem that the order of the naturals is
well founded), and `Recursion` is the lemma that a function with given first
value and step exists, so that the recursive function, chosen among such, is one.

`Temp_proofs` proves, for any number of processes and attempts, under
`TempAssumption`:

| Theorem | States |
|---|---|
| `TypeCorrect` | `TypeOK` |
| `DirectoryStays` | `DirStays` |
| `NothingIsLeft` | `NothingLeft` |

`NothingLeft` speaks of the end only. What makes it inductive is `Cared`: as
long as nothing was left behind, each file has a process that will remove it,
and the directory one that will try to (`Responsible`) or will leave its own
file in it, and so somebody responsible for that.

`Build_proofs` proves, for any list of sources and headers, any edits, failures
and kills, under `BuildAssumption`:

| Theorem | States |
|---|---|
| `TypeCorrect` | `TypeOK` |
| `ReturnedUpToDate` | `UpToDate` |
| `MadeForAReason` | `NothingTwice` |

The invariant says of every object and of the library that it has each settled
edit or is older than it (`ObjectsCurrent`, `LibraryCurrent`), of what the build
in progress has passed that it has them (`BuiltCurrent`, `ReadCurrent`,
`Returned`), and that only a kill leaves part of a file (`LibraryWhole`). That
nothing is made without need rests on the order of versions, not of seconds: what
was made of the last version of a file is not older than the file
(`MadeBefore`), and what is newer than the library, or was removed when it could
not be compiled, has or had a version that the library has not (`NewerDiffers`).
`NothingTwice` lets files of the same second be made again, which the comment at
`Build.pm:432-433` asks for and the code does not do.

Model-checked only:

- liveness (`Unloads`, `Answers`), which the prover cannot do;
- `Struct` has no theorems of its own: what it promises is what its actions say.

The properties of the three runs that expect a violation are false of the code,
so there is nothing to prove of them.

## Findings

What a document or a message of the distribution says and the code does not do;
PROJECT.json quotes the lines. Three are runs:

- `IndexRefused`: the accessor of an array of addresses means to refuse an
  illegal index, and reads at any one (`xs/record_opaque.c:123`, `&&` for `||`).
- `BundleInitialised`: two bundles of one object load, and the init function of
  the first one is called for both, as it is found first; that of the second is
  never called.
- `TypesOutlive` with fixed strings: each mention frees the type of the one
  before.

The others were met while modelling. In the models they are the cases that the
properties leave out, or steps with no property that forbids them:

- A handler that makes a native call loses `current_argv`
  (`ffi_platypus_call.h:978`), and the `arguments_*` functions then croak inside
  it, where `API.pm:54` says that they are valid. `ArgvOwn` allows `NULL`.
- A nested call that is refused (`ffi_pl_croak`, `ffi_platypus.h:390`), or that
  a handler unwinds, leaves `current_argv` at its own buffer. An outer handler that
  catches the exception and goes on gets that buffer from the `arguments_*`
  functions, after it was freed, instead of its own (`API.pm:54`) or the exception of
  `xs/API.xs:9-10`. `ArgvOwn` says that it can be the buffer of no other call than
  one that nested in the handler's own and was unwound.
- A bundle of a library whose handle is filed already files a second handle over
  the first (`Bundle.pm:474-478`), which is never closed: `again` counts them, and
  they are all that stays open (`NoHandleLeak`).
- `opaque *` or `string *` that is given an array at api 2 gets the `NULL`s back and
  no other address: the switch of `ffi_platypus_call.h:808-828` has only the array
  types. The test `t/type_opaque.t:83-88` means to check the pointer and calls the
  function with the array type. `CopiedBack` excepts these addresses.
- At api 2 a reference to a hash or to code is read as an array where a pointer is
  declared, as `&&` binds tighter than `||` (`ffi_platypus_call.h:383`): the
  program is killed, or what was found there is passed (`WildIn`, `Killed`).
- An array result of a type without length is read up to a NULL when its type code
  shares a bit with that of `opaque` (`ffi_platypus_call.h:1392`), which on a 64-bit
  machine every number of 64 or 128 bits does by its size: an array of such numbers without a 0
  is read beyond its end (`Unbounded`), one of smaller numbers is empty.
- A pointer or array of a word that a language has is of that language's type, also
  when the plain word was made an alias before the language was set
  (`TypeParser/Version1.pm:221` and `119`): `foo_t` and `foo_t *` are then of
  different types. `UnitsAgree` names this case.
- In version 1 members of record classes that are fixed strings of one size free
  each other's types as well (`Version1.pm:145-147`, `member`): `NoFixed` covers
  both.
- A handler that returns the empty list has nothing pushed to `custom_keepers`,
  and an entry is popped all the same (`ffi_platypus_call.h:954`): another
  argument loses what was kept for it, which `Changes:255-258` says is kept for
  the lifetime of the call. `KeepersOfCalls` is about the behaviours before that.
- A closure argument is read again after the call, and the references that it
  has then are dropped, not those taken (`ffi_platypus_call.h:715`): a closure
  that assigned to the variable meanwhile makes counts too low. `MCClosure.cfg`
  has `Reassign = FALSE`.
- A sticky closure stays, the type that its native closure reads goes with the
  instance (`ffi_platypus_call.h:229`), if its functions are objects that go away
  too. `TypeOutlivesNative` is about the others.
- The flag `sticky` is cloned to a thread, its two references are not
  (`xs/Closure.xs:9`, `Closure.pm:112-113`).
- A `NULL` in an array of addresses is stored as `&PL_sv_undef` itself
  (`ffi_platypus_call.h:814`): the next call that copies a value back to that
  element dies (`ArrayOutDies`), where `Type.pm:845-847` says that changes are
  reflected.
- A record that C returns by value shares its rw strings with the original, and
  both free them (`StringsOwned` is about programs without such copies).
- Two processes that find no directory both make it, and the second one's
  `mkdir` dies at once, where the comment at `Temp.pm:40-43` says that it tries
  again.
- An object of the same second as its source, or a library of the same second
  as an object, is taken for newer (`Build.pm:487`, `File/Base.pm:274`; the
  comment at `Build.pm:432-433` says "newer"): an edit in the second of the last
  build is not seen. `UpToDate` is about settled edits, and `NothingTwice` would
  allow the documented behaviour.

The models also fix some behaviour that is no promise broken, but that a user
may not expect. The mangler in use
is not that of a language set after the first search (`ManglerCurrent` is about
the libraries only). A name keeps the type that it had when it was first
mentioned, under the language and, for closure types, the abi of then
(`NamesStable`): both are to be set before any type is mentioned. After an unwound
call a plugin's post handler may get the entry of that call (`StackOfCalls`). An
array argument of a type with a length is made that long in Perl (`ArrayIn`); when an
earlier argument without length has the same array, its length is asked for again after
the call, and the copy back reads past its block (`Outgrown`, one of the cases of
`ReadsInside`). The memory of an array argument is freed before a pointer result is
read (`ReadsInside`).

## What is not modelled

PROJECT.json lists every component with its status. Left out of the modules:

- conversions of numbers and of complex values, encodings of strings, warnings;
- interpreters cloned by threads, but for closures: types and functions have no
  `CLONE_SKIP`, so each interpreter frees them; and `current_argv` in a clone;
- the reuse of a freed scalar between lines 718 and 719 of the dispatch;
- a function object that is freed during its own call;
- a closure that is passed as one of several arguments when a later one is
  refused: `Closure` has one argument for each call, and `Call` no closures;
- in `Arguments`, handlers, strings by reference, records, long doubles and numbers
  of 128 bits: each element is a number or an address, and the type decides which;
  results of type `string *`, where the address of the address is read as text
  (`ffi_platypus_call.h:1357-1363`);
- `ignore_not_found`, `attach` with another package, the search for libraries by
  name (`FFI::CheckLib`), the prototypes and wrappers of functions;
- types with sizes, functions with several arguments in `TypeParser`, a pointer to
  an alias of a record class (`Version1.pm:247-255`, a new record type), and the
  parser of version 0;
- a reading of `lang` and `abi` in `Library` and `TypeParser` together: each has
  its own view of the language;
- in `Record`, accessors that remain of a refused layout and are called, members
  named like a method of the class, arrays of addresses without length;
- in `Build`, object files given as sources, sources with the same object,
  `build_all`, a run with `-MM` that fails, headers that are removed, the
  platform and the plugins;
- `FFI::Probe`, one build after another in one process with its results in a
  file; the installation scripts, run once; `Buffer`, `Memory`, `cast`,
  `Constant`, `Legacy`, `ShareConfig`, the tables of languages, and numbers of
  64 bits: they keep no state, or nothing runs beside them.

## Plan

1. `Closure` with several arguments to a call and refusals after a closure
   argument; functions freed during their calls.
2. Clones of types and functions in `Thread`.
3. Abstract specifications of `Call`, a stack of calls each with its own
   buffer, and of `Closure`, a pointer that may be called while held.
4. `Probe`, with headers that one check finds and another one forgets.
