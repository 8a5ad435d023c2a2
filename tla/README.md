# A TLA+ model of Parser-2.0

Parser-2.0 is a script language in C++: a lexer and a parser, a tree-walking
interpreter with plugins, modules, classes and exceptions, a concurrency
library for it (thread pool, promises, async runtime, coroutines), and a second
back end, a small stack machine with memory-mapped devices.  This directory
holds TLA+ modules translated from that code, the TLC configurations that check
them on small instances, and theorems about them that TLAPS checks for every
value of the constants.

Paths below are relative to `src/src/` unless they name another directory.  Run
`tlc -config X.cfg M` and `tlapm M.tla` in this directory.

The code does not build as it is at this commit: const member functions of
`concurrency.cpp` and `memory_manager.h` lock a non-mutable mutex, some members
are defined twice (`Interpreter::visit(ImportStatement*)`, `Parser::parseTypeCheck`,
all of `VMExecutor`), and several sources include headers that are absent.  The
modules model each part as it is written, with the least repair that gives it a
meaning; where a repair was needed, section 2 says so.

## 1. Inventory

| Component | State | Operations | Interacts with |
| --- | --- | --- | --- |
| **ThreadPool** `interpreter/core/concurrency.cpp:286-543` | task queue, active and completed sets, threads, `initialized`, `shutdownRequested`; per task a flag, an outcome and a mutex | submitTask, initialize, shutdown, resize, worker loop, `execute`, waitForCompletion | clients and the owner call it from their own threads |
| **Promise** `interpreter/core/async_runtime.cpp:58-193` | pending / resolved / rejected, three callback lists, a mutex and a condition | resolve, reject, then, catch_, finally, await | settled by a worker of AsyncRuntime; callbacks run with the mutex held |
| **AsyncRuntime, AsyncTask, AsyncFunction** `async_runtime.cpp:10-56, 195-318` | task queue, worker threads, `running`, two counters; a state and a result per task | start, stop, submitTask, worker loop, execute, wait, call | creates a Promise per call and settles it from a worker |
| **CoroutineScheduler, Coroutine** `concurrency.cpp:14-284` | ready, running, suspended, completed lists; a state per coroutine, without a lock | schedule, cancel, suspend, start, stop, pause, resume, limit and policy, scheduler loop | clients and the owner |
| **Interpreter: statements** `interpreter/core/statement.cpp`, `interpreter.cpp` | the C++ stack of visits; the exception in flight | visits of block, if, while, for, do-while, switch, try, jumps, return, expression, program | Scope, function calls |
| **Function calls** `function_call.cpp`, `function.cpp`, `expression.cpp:533` | arguments of the running calls | bindParameters, execute, executeFunction, clean-up of arguments | Scope, Interpreter, Plugins |
| **Expressions, calculator** `expression.cpp`, `calculate.cpp` | none of their own | evaluation, conversion, operators; they delete operands | values and the scopes that hold them |
| **Scope, ObjectRegistry, definitions** `interpreter/scope/`, `definition_visits.cpp` | a stack of scopes: variables, functions, types, markers of a class | look-ups, definitions, updates | values are shared by pointer; no scope owns one |
| **Plugins** `plugins/plugin_manager.cpp`, `core/plugin.cpp` | loaded plugins, library handles | loadPlugin, unloadPlugin, registerAllPlugins | defines functions in the current scope |
| **ModuleSystem** `modules/module_system.cpp` | module cache, namespaces, imports, search paths | load, unload, import, namespaces and their symbols | Scope |
| **MemoryManager** `memory_manager.cpp/.h` | tracked values, counters, a pool | track, untrack, cleanup, ValuePtr, ScopeValueManager | none in this tree |
| **Values** `interpreter/values/`, `types/string.cpp`, `array.cpp`, `dict.cpp` | heap objects | operators, text methods, format, containers | all of the interpreter |
| **Types** `interpreter/types/`, `common/function_signature_parser.cpp` | types of a scope, tables of methods, registry | prototypes, definition of classes, structs, interfaces and methods, overload search | Scope, calls |
| **Inference, patterns, generics** `types/type_inference.cpp`, `core/pattern_matching.cpp`, `types/generics.cpp` | registries | inference, unification, matching, instances | written, but called by nothing |
| **Lexer, Parser, AST optimizer** `lexer/`, `parser/`, `optimizer/` | text and position, one token of look-ahead, AST | scan, parse, rebuild | Interpreter, compiler |
| **Stack machine** `emulator/emulator.cpp`, `vm_loader.cpp`, `vm_machine.cpp` | stacks, program counter, memory, labels, the program | load, run, every instruction, nested calls, reset | a host |
| **MMIO** `emulator/mmio.cpp` | memory, five devices and their registers | register, initialize, remove, read, write | a client of reads and writes |
| **Compiler, reflection, ErrorHandler, Logger, ThreadExecutor, AsyncIterator, peripherals, plugin bodies, tools, tests** | - | - | see section 8 |

What makes each of them correct, and what is hard:

* *ThreadPool.*  A task that is accepted runs once, its outcome is there before
  anyone is told it is complete, no waiter sleeps through it, and shutdown
  leaves nothing behind.  Hard: three mutexes and two condition variables, flags
  read outside the mutex, one shutdown flag for two purposes.
* *Promise, AsyncRuntime.*  A promise settles once, each callback runs once if
  it is for the outcome, nobody waits for ever on a settled promise, and a task
  and its promise tell one story.  Hard: callbacks registered while another
  thread settles, callbacks that throw, notifications without the mutex.
* *CoroutineScheduler.*  A scheduled call is never lost and a function runs once,
  unless a late suspend overwrites that it has ended.
  Hard: `Coroutine::state` is tested and set without a lock by two threads.
* *Interpreter.*  Whichever way a statement ends, the scopes it entered are left,
  and a jump ends at the statement it was for.  Hard: all of it is C++
  exceptions, through any nesting.
* *Scopes, values, expressions.*  A name means one thing, an inner scope does not
  change an outer one, and a value is deleted once and not before its last use.
  Hard: values are shared pointers without counts, and some operations delete
  them.
* *Types.*  A search finds the method that was defined for the call.  Hard: keys
  that compare equal though they differ, and markers in a scope that are never
  removed.
* *Front end.*  A text is split at the longest tokens, and what a program
  was written from is what the parser reads.  Hard: one character and one token
  of look-ahead, both given back by position or not at all.
* *Stack machine, MMIO.*  A halt stops every nested loop; a reset machine repeats
  its runs; widths of access agree; a late reader misses no interrupt.
* *Modules, memory.*  A cycle of imports is reported; what a namespace is given
  stays in it; counters tell what is alive, whichever threads release values.

Every place where the code is exposed is listed, at its line, under `hazards` in
PROJECT.json, with the properties that cover it.

## 2. Modules

Concurrency:

| Module | Models | State and actions in the code |
| --- | --- | --- |
| `TaskLifecycle` | what a task runner promises its callers | abstract: a task is new, accepted or refused, started, done |
| `ThreadPool` | ThreadPool and its AsyncTask | one program counter per worker (`pc`), client (`cpc`) and the owner (`ctl`); each action is one critical section or one unlocked access. A mutex is a variable only where a thread holds it across two steps |
| `Promise` | Promise | `busy` is the thread that settles and holds `promiseMutex` while callbacks run, one action per callback; `ran`, `asked`, `threw` are history. Operators and properties; it has no specification of its own |
| `AsyncRuntime` | extends `Promise` with workers, tasks, owner and clients | a worker settles the promise of a call with the actions of `Promise` |
| `CoroutineScheduler` | CoroutineScheduler and Coroutine | test and set of `Coroutine::state` are separate actions of separate threads; `disturbed` and `revived` are history: who suspended or cancelled whom, and whose end a suspend overwrote |

Interpreter and environment:

| Module | Models | State and actions in the code |
| --- | --- | --- |
| `Interpreter` | statements, control flow, the scope around calls | `frames` is the stack of C++ activations with the place each has reached, `thrown` the exception in flight, `depth` the height of the scope stack. A program is any sequence of choices |
| `Scope` | ScopeManager, ObjectRegistry, definitions, and which values an expression shares and deletes | `scopes` is the scope stack, `freed` the deleted values that something still holds; undefined behaviour is a `fault`, after which nothing is claimed |
| `PluginManager` | extends `Scope` with the host that loads and unloads plugins | `loaded` maps a plugin to the load its library is from; a native function names that load. A script's function stands for one of its `Bodies`, and defining it again replaces the body of the one a call finds |
| `ModuleSystem` | ModuleLoader, NamespaceManager, ModuleSystem | cache, namespaces, the imports so far, the search paths and a disk that changes; `verdict` is the answer of the last call |
| `MemoryManager` | MemoryManager, ValuePtr, ScopeValueManager, ValuePool | every ValuePtr is in a thread of its own; untrack and delete are two steps |

Values and types.  These are functions of the code, written as operators and
compared with reference definitions that say what the operation is for, or with each
other; `Values`
and `Types` ask for them one at a time and then go on to the parts with state.

| Module | Models | Reference or state |
| --- | --- | --- |
| `Calculator` | operators of int, char, double, string, bool, objects; the choice of a common type; which operands are deleted | one total order; quotient, remainder and bits that make up the operand again |
| `Strings`, `Formats` | methods of String; `format` | search, split and replace about the same places of a text; a layout with marks for the arguments |
| `Conversions` | ObjectFactory and the conversions of String | reading back what was written |
| `Containers` | Array and Dict with two pointers of a client | which containers and clients hold each live value |
| `Values` | the composition of the four | `asked` and `answer`, then containers |
| `Signatures` | parameters, prototypes, the signatures of a script's function (names and types) and of a native one (defaults in front), keys, the order of keys, the score of an overload | the parameters a prototype was written from; the overload a linear search finds |
| `ClassTypes` | classes, structs, interfaces, methods, tables, references | scopes of types with the markers of the code, tables as sequences of keys |
| `Inference`, `Generics`, `Patterns` | `type_inference.cpp`, `generics.cpp`, `pattern_matching.cpp` | the value an expression evaluates to; a substitution that solves; bindings that rebuild the value |
| `Expressions` | evaluation of expressions with the operands each deletes | every variable still has its value |
| `Types` | the composition of the six | |

Front end and stack machine:

| Module | Models | State and actions in the code |
| --- | --- | --- |
| `Lexer` | `Lexer::scan` and its matchers | the stream with its position and its flags, and whether the process has made the token factory, which some matchers take from a global pointer that is null until then; a reference, `Lexemes`, for what the tokens of a text are |
| `Parser` | the recursive descent that `parseProgram` reaches | functions from the state of the parser to a node and the state behind it |
| `FrontEnd` | lexer, parser, optimizer | one token or one declaration a step; programs are written out as text first |
| `VirtualMachine` | loader, executor, host | one instruction a step; `activations` is the C++ stack of `executeFunction` |
| `Mmio` | the manager, its memory, five devices | one access of the client a step, and time |

The theorems of section 6 are in `ThreadPoolProofs`, `AsyncRuntimeProofs`,
`InterpreterProofs` (of `Interpreter` and `ClassTypes`), `ValuesProofs` (of `Values` and
what it is composed of), `PluginManagerProofs`, `ServicesProofs` (of
`CoroutineScheduler`, `ModuleSystem` and `MemoryManager`, which share no state) and
`EmulatorProofs` (of `VirtualMachine` and `Mmio`), and `SequenceLemmas` holds what
several of them need.
The `MC...` modules are instances for TLC: values of constants, symmetry, and for
`MCModules` (modules, memory and the scheduler), `MCMmio` and `MCVirtualMachine` which of several independent parts
moves in a behaviour (the parts share no state, so their interleavings add
nothing to what either can do).  `Interpreter` is checked as it is.

Names of actions and variables are those of the code where TLA+ allows; `map` in
PROJECT.json gives the lines behind each definition.  Operators described as a
"faulty variant" are not part of the model: they are plausible mistakes in the
code next to the definition they would replace, kept to show that each property
notices one.

Abstractions.  Task bodies, callbacks and native functions are opaque: they may
succeed, fail or, where the code lets them, throw.  A script is not a text but
every sequence of steps the visits allow; conditions go either way.  In `Scope`,
`Containers` and `MemoryManager` a value is its identity; a value that nothing
holds is a leak and its identity is used again.  An undeclared data race (a flag
without a lock) is a separate step for each access, so that all interleavings
occur.  Integers keep their width (`IntBits`, `CharBits`, `ByteBase`); a double
is one of a few numbers, and a result that none of them equals may be any.
A character is a letter or the stem of a keyword; what is out of the alphabet is
named in section 8.  `Tokens` scans a text to its end at once: the scanner keeps one
token ahead of the parser, and nothing the parser does changes what comes next.  A process that reads a deleted value or does not return is
in a state of its own (`fault`, `Hang`, `Undefined`), after which nothing is
claimed.

Repairs.  `Parser` needs none of the functions that keep `parser.cpp` from
compiling: no path from `parseProgram` reaches them.  `MemoryManager` takes the mutex as mutable and the constructors
as reachable.  `Inference`, `Generics` and `Patterns` call methods of Type that do
not exist: equality of types is that of their names, and `Subtypes`, `Instances` and
`Guard` are constants.  `VirtualMachine` takes `emulator.cpp`, which `vm_executor.cpp`
repeats.

Bounds, all constants or named in a guard: `MaxThreads`, `MaxQueueSize` (the
code's own), `MaxCalls`, `MaxFrames`, `MaxLoads`, `MaxDependencies`, `MaxHistory`,
`PoolSize` and `Wrap` (the code's counters, smaller), `MaxHostCalls`, `MaxDepth`,
`MaxOperands`, `MaxElapsed`, `MaxIds`, `MaxWrites`, `MaxCells`, `MaxLength`,
`MaxTypes`, `MaxMethods`, `MaxScopes`.

## 3. Runs

| Run | Question | Bounds | Distinct states |
| --- | --- | --- | --- |
| `tp_safety` | Is a task lost, run twice or published early; does a waiter miss its completion; does shutdown leave something behind; is the pool a TaskLifecycle | 2 tasks, 2 clients, up to 2 workers, queue of 1; the owner initialises, resizes and shuts down | 658,817 |
| `tp_live` | Does an accepted task complete while the owner leaves the pool up | as above with 1 client | 60,924 |
| `async` | Do a task and its promise agree; do callbacks run once, also with one that throws; is an awaiting thread forgotten; do tasks finish and awaits return | 1 call, 1 job, 2 workers, 1 client, the owner | 114,425 |
| `interpreter` | Do scopes follow activations; do jumps and errors land; is finally skipped only by its catch block | visits nest 5 deep | 362,256 |
| `environment` | Do functions stay bound through unloading, reloading and new definitions, and inner scopes leave outer ones alone; can a deleted value be reached that was not handed over | 1 variable that is also the parameter, 1 function with 2 bodies that 2 plugins provide too, 1 class, 2 values, 2 frames, 2 loads | 429,656 |
| `machine` | Does a reset machine repeat its runs; does a halt stop every nested loop; do programs without calls end | 1,000 binaries, truncated ones and functions that call each other included; 4 host calls, 3 nested calls | 103,030 |
| `mmio` | Do widths of access agree; are connection ids unique through a second initialize; is a late reader told of a due interrupt | 2 values of a byte, 5 bytes of memory, 5 devices, 3 ids, 3 ms | 88,951 |
| `frontend` | Are tokens the longest; is a program read back as it was written; does a chain of operators keep its order | texts of up to 3 of 16 characters and 4 of 8, small programs of every statement, each with and without a token factory; chains of up to 3 of 12 operators | 93,751 |
| `chains` | Is `a * b + c` accepted, as a test program of the repository says; it is not, and the run shows how | chains of 2 operators | a violation |
| `values` | Has every value one owner; do the six comparisons go by one total order; do the operators of an int and a char agree with each other, and the methods of a text; is what `format` puts in ever read again | ints of 4 bits, chars of 3, texts of up to 4 letters, 2 pointers, 4 values at a time, containers of 2 | 127,378 |
| `modules` | Are cycles reported as they are; do namespaces keep their symbols; do counters account for the live values; is a call of a coroutine lost, or its function run twice | 2 modules, one of which may be a file that does not open, 2 dependencies, 2 paths, 2 scopes; 2 addresses, 2 pointers in 2 threads, a pool of 1; 2 coroutines of different priority, scheduled up to twice, 1 client, the owner, limit 0 or 1 | 618,016 |
| `types` | Does a search find the method; is a prototype read back; which calls that fit a signature are valid; is the inferred type the type of the value; does a plain expression only read; do bindings solve the pattern; do methods go to their class | 3 types, 2 methods, 2 scopes; lists of 3 parameters; expressions of 2 operators; patterns of 2 levels | 377,233 |

Why the bounds suffice for the questions.  In the pool a queue of one with two
clients gives every full, empty and contended case, and two workers every lost
or stolen notification; a third task or worker only repeats one of them.  A
promise needs a thread that settles and one that registers or awaits.  A
coroutine scheduled twice meets its own former run.  In the interpreter five
activations hold a call in a loop in a try in a block of a program, so each kind
of catcher can be passed by each kind of exception in each order of nesting up
to three.  In the environment one name in two scopes gives shadowing, aliasing
between scopes and arguments, and the same value twice in one call; values differ
in identity only, so they are symmetric, and so are the two bodies of a function.
Two loads are a load and the one after an unload.  Two modules with two dependencies make
every cycle through the one that is asked about and one that avoids it.  A token
is decided by at most two characters and the one behind it, so three reach every
decision of the scanner and four the next token after one that was put back.
Three operators are a chain that nests both ways.  A program of the machine with
three functions on the stack has a halt two loops deep.  Signed arithmetic has its
boundary cases (the least number, -1, overflow, truncation) in three bits.

`CHECK_DEADLOCK FALSE` is set where the system may really stop: the pool, the
runtimes and the scheduler when nobody has anything more to do, the environment,
the values and the memory after undefined behaviour or when a bound is reached, the
machine when its host is done, and the front end and the answers of `values` and
`types` when the text or the question is finished.  `interpreter` checks
deadlock: a program always ends or goes on.

## 4. What the code does that a reader may not expect

Met while modelling, and kept in the models as it is.  Line numbers are in
`hazards` and in the comments of the definitions.

*Concurrency.*  `shutdown` sets its flag and notifies without `queueMutex`: a
worker between its test and its block sleeps on, and the join never returns
(why `tp_live` is about an owner that leaves the pool up).  A resize to fewer
threads makes the kept threads leave as well while they still count.  A task that
waits for a task of its own pool can block the last worker.  `waitForAllTasks`
polls active tasks and not the queue; `stop` leaves queued tasks behind.
`AsyncTask::execute` and the coroutine `resume` notify without the mutex.  A
callback that throws out of `resolve` cuts off the other callbacks and the
notification; the properties name it as the exception.

*Interpreter.*  Whatever leaves a catch block skips finally, against the comment
at `statement.cpp:407`; a try statement takes break, continue and return for
errors; continue in a do-while starts the next round without the condition; a
default before the matching case runs as well.  A call deletes its arguments,
also those that are the values of variables.  A cast between built-in types other
than from String ends the function by ReturnException, where
`tests/interpreter/test_cast_operations.cpp` expects a value; a ternary evaluates
both branches; a member access finds no member; `x + -x` reads a deleted operand.

*Values.*  `<=` and `>=` never answer: the parser's tags are not the ones the
calculator compares with.  An operation on two types deletes the operand that
already has the common type.  `Array::setElement` and `operator=` delete before
they copy; a Dict keeps the pointer it is given, also where its caller deletes it.
`replace` of the empty text never ends; in `format`, {0} counts from the arguments
that {} has not taken, and a width that is no number throws.

*Types.*  Keys that differ in types only are equivalent, so an overload replaces
the other; with three keys the equivalence need not be transitive, `std::map` is then
undefined, and nothing more is claimed of any table (the two methods of the run
always have an order).  A `let` in a class never ends; a class
leaves its marker in the scope, so later lets and functions go to it, and so do
the methods of a later struct; a base class is never one.  Inference takes the
first type where it finds no common one; a name bound twice in a pattern keeps
the later value; struct patterns match nothing and range patterns every number.
The parameters of a script's function have no defaults and no "...", whatever their
prototype; the signature of a native one has its defaults moved to the first
parameters, so that f(a, b = 1) fits one argument, which is then not filled in.

*Front end.*  `a - b - c` is read as `a - (b - c)`, though `lexer/token.cpp:22-26`
calls these operators left-associative, and an operator that binds less than its
left neighbour inside an operand is taken (`parser.cpp:441`) before the precedence
is compared (`:446`), and lost, so that `a * b + c;` is refused:
`unit-tests/test_continuous_plus.txt:12-15` says of `a + b * c` and `a * b + c`
that there should be no problem.  The run `chains` is that disagreement; what
`frontend` shows (`ChainsKeepOrder`) is that a chain that is read is whole, in order,
and has no operator below a tighter one.  A text whose first token is
punctuation such as `(`, or an octal number, is read only if the process has scanned
a name or a number before, for the token factory is null (`lexer.cpp:282, 440`); sets other than the empty one are refused; the target of
an assignment to a member is deleted; cases of a switch are read and dropped.

*Modules and memory.*  Importing parses a module and runs nothing; selective and
wildcard imports find no symbol; a second import gives the module a scope its
namespace does not take; a cycle that avoids the module asked about is searched
without end.  A copied ValuePtr deletes twice, `cleanupAll` deletes values in use,
and `resetStatistics` lets the counter wrap below zero.

*Stack machine.*  The map of functions points into the vector they are added to: when
it grows those added before have moved, and a call of one is undefined (`moved
function`).  A division by zero leaves the operand stack one short.
Peripheral instructions are in no opcode table.

## 5. Fairness

`ThreadPool!Fairness`: weak fairness of each worker's and client's steps and of
the owner inside an operation, because a C++ thread that can run runs; strong
fairness of the steps that take a mutex, because the mutex is free again and again
and the lock is acquired in the end.  None for submitting, waiting or calling
an operation, and none for spurious wake-ups.  `tp_live` uses `SteadySpec`, in
which the owner calls neither shutdown nor resize to fewer: with them the liveness
does not hold, for the reasons in section 4.

`AsyncRuntime!Fairness` is the same for workers and for clients inside a call, and
the liveness properties are conditional on the runtime staying up; that the
loser of promiseMutex gets it is the strong part.  `VirtualMachine!Fairness` is
weak fairness of executing the next instruction and of leaving a finished
function: the loop of `executeFunction` does nothing else.  The other
specifications state no fairness, and no liveness is claimed of them: a script,
a client or an owner may stop at any time.

## 6. Proofs

Every theorem holds for all values of the constants that the assumption of its
module admits: any number of threads, tasks, clients, calls, coroutines, names,
values, plugins, modules, addresses, binaries, and any bound on the counters.  The
assumptions are `PoolAssumption`, `PromiseAssumption`, `RuntimeAssumption`,
`SchedulerAssumption`, `InterpreterAssumption`, `ScopeAssumption`,
`PluginAssumption`, `ModuleAssumption`, `MemoryAssumption`, `MachineAssumption`,
`MmioAssumption`, `ClassAssumption`, `ContainersAssumption`, `WidthsAssumption`,
`FormatsAssumption` and `ValuesAssumption`.  They
say what is a number and what a sequence, that the braces and the colon of a layout are
different characters and a blank is one of the characters `trim` takes away, that a power of two is twice the power before
(the provers know nothing of powers), which sets are disjoint, that the modules' names and the addresses
are finitely many, that the counters of `MemoryManager` (32 or 64 bits wide) can count
every address, that the parameter "..." has the type "any" and that the null pointer is no
address; TLC evaluates them in the runs of their modules.  No proof uses the bounds that keep the runs small
except as numbers.

Each argument is an inductive invariant that is stronger than the property, with a
lemma that it holds at first, one lemma per action or group of actions that keep
it, and the property as a consequence.  What the invariant adds, and why:

`ThreadPoolProofs`

* `TypeCorrect`: `TypeOK`, from `StructureOK`.
* `OutcomeCorrect` (`OutcomeBeforeCompletion`): `OutcomeInv` says that a worker past
  the body of its task has stored the outcome and that no other holds that task.
* `NoLostCompletionCorrect`: `BlockedInv` says that between its test and its block a
  client holds `resultMutex`, so the worker that completes the task notifies after
  the block; that is why `execute` takes the mutex between store and `notify_all`.
* `ShutdownCorrect` (`ShutdownQuiesces`): no slot is left when the pool is not up
  (`SlotsInv`), and an active task is in some worker's hand (`HandsInv`).
* `RefinementCorrect` (`ImplementsLifecycle`): every step is a step of
  `TaskLifecycle` or a stutter.  It needs to know where a task is: `PlacesInv` has a
  client's hand, the queue (which holds a task once), a worker's hand and the
  completed set apart, and `StagesInv` says which of the flags go with each.  At
  most as many tasks execute as there are slots, so the limit of the lifecycle
  holds through a resize.

`AsyncRuntimeProofs`

* `CallbacksCorrect` (`CallbacksRunOnce`) and `SettlementCorrect`
  (`NoLostSettlement`): `PromiseInv`, proved of `Promise` alone for any threads and
  then of the composition, where each step is a step of one promise or none.  While a
  promise is pending nothing has run (`PendingInv`); once it is settled the callbacks
  for the outcome are split between those that ran and those the settling thread has
  still to run (`SettledInv`), a callback that threw apart; a thread between its
  test and its block holds the mutex (`AwaitInv`).
* `AgreementCorrect` (`TaskAgreesWithPromise`): `RuntimeInv` says which task each
  worker holds and how far it has settled the promise of it.
* `RefinementCorrect`: the runtime implements `TaskLifecycle` as well; `RunningInv`
  bounds what executes by the number of workers, also when stop has let go of
  threads that have not left.

`InterpreterProofs`

* `TypesCorrect`, `ScopesFollow` (`ScopesFollowFrames`): `StackOK` is inductive.
  `base` of each activation is the base of the one below plus the scope it entered.
* `ScopesAreRestored` (`ScopesRestored`): the lemma `Shape` says what a step can do to
  the activations: it takes the last one off and leaves its scopes, or takes none off.
* `JumpsLand` (`JumpLandsOnTarget`): among the frames that could take an exception
  there is a last one (`LastOne`), and unwinding takes off only frames that do not.
* `FinallyRunsOtherwise` (`FinallySkippedOnlyByCatch`): the only step past a finally
  block is an exception in the catch block.
* `TypesInvariant`, `SearchesCorrect` (`SearchesFind`): of `ClassTypes`, whose `TypesSpec`
  is the part of `Types` that has state.  A table is good (`TableOK`) if every signature
  that was listed has an entry under an equivalent key, of a function with an equivalent
  signature; replacing an entry keeps that only where equivalence is transitive, which is
  why nothing is claimed once the keys given have no order (`undefined`).  Equivalent keys
  have parameters of the same names up to the first of another type; the score of a
  signature is at most 100 for each argument, and that much only where each type is just
  the one given, so the best score is one of a method that was meant.  A verdict about an
  interface stays true because methods are only ever added.
* `MethodsCorrect` (`MethodsGoToTheirClass`): the last marker of the scope is the class
  whose body is visited, and its name stands in that scope for its type.

`ValuesProofs`

* `OneOwnerCorrect` (`OneOwner`): of `Containers`, for any client.  The invariant is that
  the heap is a forest (`Sound`): each cell that lives is owned from outside or by one
  place of one cell, a deleted one by none, and no set of cells is closed under having a
  container in it (`Ordered`), without which a ring of containers would own itself and
  the destructor of a part could reach the whole.  It holds after forgetting what nothing
  leads to (`CollectOK`), destroying a tree (`DestroyOK`), giving a container other cells
  that are outside (`RewriteOK`), and putting new cells beside it (`WithOK`); a clone is a
  forest beside the heap (`CopiesOK`), and every method is made of these.  `setElement` and
  `operator=` clone out of a heap that has lost a part, which is sound again where
  the copy meets no deleted value; where it does, `fault` says so and the claim ends.
* `OperatorsCorrect` (`OperatorsAgree`), of `ComparisonsOrder`: `StrictOrder` says of a set of pairs that it
  orders strictly and totally.  Numbers are so ordered; if the elements of two sequences
  are, so are the sequences, by the first place at which they differ or one ends
  (`LexicographicOrder`, where transitivity looks at the nearer of the two places).  Taken
  once this is the order of texts, taken twice that of arrays; entries of a dict go by key and text,
  dicts by size and entries.  What the loops of the code answer is then membership
  in such a set (`CompareSays`, `ContainerSays`), and the operators derived from < and == agree with
  it.  `Answered`, the invariant, says that an answer is the operator's.
  Of `ArithmeticAgrees`: a number is what it is truncated to and a number of wholes of its
  width (`SignedRest`), and nothing else of the width is (`SignedOnly`), so it makes no
  difference where a sum is truncated (`SignedAdds`).  Quotient and remainder stay in the
  range of the dividend, but for the least number divided by -1 (`QuotientFits`): there
  an int may be anything, and a char is truncated to the least one, whose product is
  truncated to it once more.  The bits of `|` are those of `&` and of `^`, added up bit by
  bit (`BitsAdd`).
* `PartsCorrect` (`PartsAgree`, the half of `TextsAgree` about searching): `split`, `replace` and the joining of parts are
  functions of a position whose value there depends on later positions;
  `RecursionDown` says that they exist and satisfy their equation, and a claim about all
  positions is proved from the end of the text backwards (`InductionDown`).  So the parts joined by the
  text searched for are the text, and joined by another they are what `replace` makes; `find`
  and `rfind` give the least and the greatest position of an occurrence.
* `TextsCorrect` (`TextsAgree`, with `FormatsAgree`, the half about `format`): a turn of the
  loop finds a placeholder (`Hole`), writes what goes there (`Filling`) and goes on behind it,
  with less of the text left; so the loop is a function (`RecursionBelow`), and what is already
  written makes no difference to the turns that follow (`FormatBehind`).  With marks
  in the place of the arguments it therefore takes the same turns, and the marks end up where
  the texts of the arguments do (`MarksFollow`).  A lone placeholder takes one turn
  (`AloneIs`), and what padding adds to a number or a text `trim` takes away
  (`TrimPadded`, `LayoutAgrees`).

`PluginManagerProofs` (of `Scope` with plugins)

* `TypesCorrect`, `DanglingCorrect` (`DanglingOnlyIfHandedOver`), `FunctionsCorrect`
  (`FunctionsStay`), `OuterScopesCorrect` (`OuterScopesUntouched`).  A step that gives a
  function of the script a body gives it to the binding a call would find, and no other.
  `EnvironmentInv` has, beside the types, the `Layout` (each activation owns the
  scopes it entered, a class the topmost only) and `Sound`: two places that hold one
  value, be they variables, arguments or the bindings of a call, are places that the
  history says were made to share it.  Every step is a good one in the sense of
  `StepOK`, from which the two action properties follow.

`ServicesProofs`

* `RunsOnceCorrect` (`RunsOnce`): `StateInv` relates the state of a coroutine, where
  the scheduler is with it, and how often it ran, whoever suspends or cancels it,
  until a suspend that tested the state before the coroutine ended sets it after; `ThreadInv` says that a stopped scheduler has no thread left,
  so that a later start makes the only one.
* `CallsCorrect` (`NoCallLost`): counting.  Each loop of the selection (by priority,
  by limit) is a function from the iterations done to the queue, and of the
  smallest iteration after which the number of entries of a coroutine differs one
  shows that it does not.
* `VerdictsCorrect` (`VerdictsAgree`): the search of `hasCircularDependency` remembers
  nothing.  Its answer is taken apart along paths: a yes is the end of a path, a
  no is a closed set of modules, and where it does not return, a path longer than the
  number of modules passes one twice (the pigeonhole is `Cardinality` of a range).
  The theorem says what the answer is worth for any graph, not for two modules.
* `NamespacesCorrect` (`NamespacesKeepSymbols`), an action property: each step creates
  a namespace where there was none, or leaves the table alone, or removes one.
* `AccountedCorrect` (`ValuesAccountedFor`): `OwnerInv` is ownership, that is, what is
  held raw, by a scope manager, by the pool and by each pointer is disjoint and alive,
  where a pointer in the middle of an assignment holds both what it will
  delete and what it will take; `CallInv` says which pointers calls in other threads
  may refer to.  It is promised until a pointer is copied, the manager cleaned up or a
  tracked value pooled.  `CountersMatch` is then kept by each atomic update.

`EmulatorProofs`

* `HaltCorrect` (`HaltStopsAllLoops`): once the flag is set the only step is the end of
  a loop.
* `RepeatableCorrect` (`Repeatable`): what a reset clears is a record (`Context`), a
  step of a run that touches nothing else is a function of that record
  (`Stepping`), and a run is a sequence of such records from the clear one.  The
  invariant says that the context of a clean run is one such sequence leads to
  (`Leaves`), and two of them cannot differ first anywhere.  That the machine reads
  nothing but its context there is one lemma per kind of instruction.
* `ConnectionsCorrect` (`ConnectionsNotReused`): every id given out is below the next.
* `WritesCorrect` (`WritesReadBack`): memory holds bytes (`MemoryInv`), and taking a
  number apart into digits and putting it together in one order is the identity
  (`TwoDigits`, `FourDigits`).

`SequenceLemmas`: ranges and injectivity of queues that lose their first or last
element or gain one; how often an element stands in an injective sequence; and
`SmallestOf`, `MaxIsLargest`, `LoopRuns`, `InductionUp`, `InductionDown`, `InductionBelow`,
`RecursionDown` and `RecursionBelow`, which stand in for the induction theorems of the library, whose parameters are operators.  A set of
naturals that is not empty has a smallest element, so a loop, a path or a run is reasoned
about at the smallest index where the claim fails; `LoopRuns`, `RecursionDown` and
`RecursionBelow` give from the same fact that a function defined by recursion up or down a
range, or along a measure that gets smaller, exists.

`TypeOK` of the pool and of the interpreter and the type parts of the other
invariants are theorems and not checked by a run again.

Model-checked only:

* Liveness, which the prover cannot take: `QueuedTaskCompletes`, `SubmittedFinishes`,
  `AwaitedSettles`, `RunsEnd`, `DueInterruptRaised`.
* `Parser` and its front end (`TokensAreLongest`, `ProgramsReadBack`,
  `ChainsKeepOrder`): recursion over texts and trees.
* `Types` (`ReadsBack`, `InferredIsEvaluated`, `PlainOnlyReads`, `BindingsSolve`): pure
  functions of trees and texts, most with RECURSIVE operators in the modules they are
  composed of.

## 7. Plan

1. Done: all modules above; every safety property of the pool, the runtime, the
   scheduler, the interpreter, scopes, plugins, types with their methods, containers,
   modules, memory, the machine and the devices is proved, as are both refinements of
   `TaskLifecycle`, the operators of values, the search in texts and
   `format`.
2. *More proofs.*  `ReadsBack` of prototypes, and the tokens of the scanner, once their
   recursion is over positions.
3. *Larger instances* of the scheduler (three coroutines, limit 2) and `async` (two
   calls), where the time allows.

## 8. Not modelled

* `AsyncIterator`: used by nothing; its callbacks refer to locals of calls that have
  returned, so a run with a pending `next` is undefined, and one without is a plain
  recursion.
* `ThreadExecutor`: in no build target, and sequential.
* `ErrorHandler`, `Logger`: nothing reads what they record.
* The compiler (SSA, expression and statement converters): it does not compile,
  `currentFunction` is never set, so every visit ends at its first test, and
  break and continue jump to labels that nothing defines.
* Reflection and advanced expressions: stubs that answer fixed values, and a
  visitor of nodes that the parser never builds.
* Peripherals of the machine: reached by no opcode; console output only.
* Plugin bodies and dynamic libraries: any new value or none.
* Tools, tests, fuzzers, examples.

Of components that are modelled partly: the scanner's hexadecimal numbers, values
of floating-point literals and line counts; instances, members, traits and
inheritance of classes, none of which takes effect in this code; `splitWithDefault`
and `processString` of String; instances of classes in ObjectFactory;
look-ups of ScopeManager that nothing calls; `timeSlice`, `taskTimeout` and
`threadPriority`, which are set and never read.  Components and their notes are in
PROJECT.json.
