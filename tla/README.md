# A TLA+ verification of MicroJIT

MicroJIT is a C++17 library that builds functions at run time, compiles them with asmjit and
calls them through trampolines. This directory models its moving parts in TLA+, checks them
with TLC and proves the main invariants and the refinements with TLAPS. File names below are relative to
`src/src/microjit/`; line numbers are those of the commit the modules were written from.
`PROJECT.json` maps each definition to the lines it models.

## 1. The system

| Component | Code | State | Operations |
|---|---|---|---|
| Orchestrator and FunctionInstance | `orchestrator.h`, `trampoline.h` | `instance_map`; per instance `parent`, `real_compiled_function`, the function | `create_instance`, call, `recompile`, `detach`, the native and the JIT trampoline |
| CompilationHandler, three kinds | `runtime_agent.h/.cpp` | `function_map` from a function's address to its code; the asmjit runtime | `get_or_create`, `recompile`, `remove_function`, `function_compiled`, `register_heat` |
| CommandQueue | `command_queue.h` | `task_queue`, `is_terminated`, one server thread | `dispatch`, `sync`, destructor |
| ThreadPool, its manager | `thread_pool.h` | `task_queue`, `threads_map`, `termination_flag`, `is_cleaning_up`; the manager's `disposal_targets` | `queue_task`, `queue_group_task`, `allocate_worker`, `terminate_worker`, `terminate_all_workers`, destructor |
| PriorityQueue | `priority_queue.h` | a binary heap in a vector | `push`, `pop` |
| ManagedThread, RWLock | `managed_thread.h/.cpp`, `lock.h` | a thread and its id; a shared mutex | `start`, `join`; read and write locks |
| Function builder | `instructions.h/.cpp` | a tree of scopes of instructions | declarations, constructions, branches, `return`, `break`, sub-scopes, assignments, invocations |
| Stack frame report | `jit.cpp`, `def.h` | offsets of variables and arguments | `create_frame_report` |
| x86-64 compiler | `jit_x86_64.h/.cpp` | a stack of scopes, a stack of loops, labels | `create_branches_report`, `compile_internal`, evaluation, invocation |
| Reference counts | `helper.h`, `safe_refcount.h` | atomic and plain counters | copy, move, release |
| Types and conversion tables | `type.h`, `*.gen.h` | none | sizes, equality, classes of types; generated routines |

**How they interact.** A call of an instance goes through its trampoline to `compile_internal`
of the instance, which asks the orchestrator's handler for code unless
`real_compiled_function` is set. The default handler answers on the calling thread, the queued
one runs every operation as a task of a CommandQueue and waits for it, the pooled one queues
`get_or_create` and `recompile` on a ThreadPool and erases on the calling thread. The handler
asks the compiler, which walks the tree the builder made, with the offsets of the frame report.
The trampoline then reads `real_compiled_function` again and jumps. Compiled code may call
trampolines of other instances.

**What is hard, and what makes each component correct.**
- *Handlers.* Workers compile with the lock released, behind a nullptr placeholder; entries are
  erased while that goes on; compilations fail. Correct: a client is told what the map holds or
  what was compiled for it, a function is compiled once at a time, nobody waits on a
  placeholder that nobody will replace, code in the map is live and of the right function.
- *CommandQueue.* Notifications are sent after the mutex is released, and by the destructor
  without it. Correct: tasks run in order, a `sync` returns, the destructor waits for the server.
- *ThreadPool.* Group notifications, workers that leave and are joined by a third thread, polls
  without a mutex, an 8-bit counter. Correct: nothing queued while all sleep, priorities
  respected, cleanup ends, no more terminations than workers.
- *Orchestrator.* The pointer in the instance is a second copy of the map's, read twice per call
  and cleared by `recompile`. Correct: the two agree, a jump lands on live code, code that runs
  is not released.
- *Reference counts.* Threads copy and drop Refs to one object. Correct: the count is the number
  of Refs, the last release and no other deletes, objects outside cycles are deleted in the end.
- *Builder, layout, compiler.* One pass emits labels and jumps for any legal order of builder
  calls. Correct: live variables do not overlap, each label that is used is bound once, and the
  code constructs, tests and destroys what the function says, on every path.
- *Values.* Caller and callee compute the addresses of arguments each for itself; instructions
  are chosen by the size, the sign and the class of a type. Correct: a value that the program
  determines is in the variable, the branch, the argument or the return value where it should
  be, and for each object a call makes in its space the destructor is called once and at its
  address, while the object is still there.

## 2. The modules

| Module | Models | Composes / implements |
|---|---|---|
| `CompileCache` | what a handler promises: an atomic cache | abstract |
| `PooledHandler` | `ThreadPoolCompilationHandler` | implements `CompileCache` |
| `CommandQueue` | `CommandQueue` with an abstract `Run(v)` | |
| `QueuedHandler` | `CommandQueueCompilationHandler` | extends `CommandQueue`, implements `CompileCache` |
| `PriorityQueue` | the heap's operations | |
| `ThreadPool` | the pool, the manager thread, the destructor | extends `PriorityQueue` |
| `Orchestrator` | instances, trampolines, the handler's map under each of the three kinds | |
| `ScopeBuilder` | `Scope`/`RectifiedScope` | |
| `FrameLayout` | `create_frame_report` | extends `ScopeBuilder` |
| `Compiler` | `compile_internal` and the branches report | extends `FrameLayout` |
| `CompiledCode` | the processor running the code, and the meaning of a function | extends `Compiler` |
| `Arithmetic` | the expression parser's checks, the code of arithmetic and comparison, the meaning of both | |
| `Invocation` | one call through an argument space, from native or compiled code to native or compiled code | extends `Arithmetic` |
| `DataPath` | a called function: its variables, expressions, conditions, its calls, its return | extends `Invocation` |
| `RefCount` | `Ref` over the atomic and the plain counter | |

The `MC*` modules give model values; the `*Proofs` modules hold the theorems. `PriorityQueue` writes the loops of the heap as recursive functions of a pair, not as RECURSIVE
operators, so that theorems about them can be stated.

**Correspondence.** Variables and actions carry the names of the source where they can.

- *Atomicity.* A critical section is one action, unless something that does not take the lock
  can look into it. That happens in three places, which are split: the server of the command
  queue between its test of the predicate and its sleep (`falling`), the same in the manager
  thread of the pool, and a worker that has left `threads_map` and not yet handed itself over
  (`leaving`, `queued`). Condition variables wake up spuriously.
- *PooledHandler.* A client that calls is blocked on its future (`request`); a worker runs
  `lookup`, `compile`, `install`, one action per critical section of the RWLock. The pool is a
  set from which any task may be taken, since all tasks have priority MEDIUM and the heap is
  not stable. `gen` counts the functions that lived at one address; `late` is a history variable.
- *QueuedHandler.* Each operation is a `Run` of the queue with a value for the caller's future,
  exceptions included (`Raised`).
- *Orchestrator.* A thread is a stack of frames (`check`, `fetch`, `store`, `jump`, `run`, and
  `clear` for `recompile`). `type` is chosen in Init. A failing compilation may return
  nullptr or raise (`Outcome`). With the pooled handler nothing is ever released, because the
  handler's member `runtime` shadows the one that compiles. Creating, editing and detaching
  happen on one thread, since `instance_map` has no lock.
- *Compiler.* A state of the compiler is the stack of scopes with the index of the instruction
  each is at, the stack of loops, and the code so far. Code is a list of constructor and
  destructor calls, evaluations of conditions, jumps, and labels that are bound. Which value a
  condition has is left open; registers, moves and arithmetic are not kept. The compiler has the
  C++ loop's habits: a label `begin_of_scope` is bound by the first instruction, so an empty
  scope has none; a return drops the rest of its scope and binds its end.
- *RefCount.* An operation on a Ref is a list of micro-steps that its thread works off: release,
  delete, set, reference. The atomic release is one step, the atomic increment a load and a weak
  compare-exchange that may fail, the plain ones a load and a store. A deletion puts the release
  of the object's member in front of what is left. Copies change threads as the queues hand
  tasks over (`Give`). Each object has one member that is a Ref, and addresses are not reused. A
  store of a stale count is undefined behaviour and ends the model (`lost`).
- *Builder.* A program is written from top to bottom. Variables are objects with a destructor,
  which is when order matters; each is declared and at some later point, or never, constructed.
- *CompiledCode.* `meaning` is a reference semantics that shares with the compiler only the tree
  of scopes: it destroys what was constructed, in the order of declaration, scope by scope.

- *Arithmetic.* A value is the content of a register of its size; `half[s]` stands for
  2^(8s-1). The flags of `cmp` and `comisd`, the conditions of `setcc` and the quotient of
  `div`/`idiv` with its trap are the processor's, modelled from the instructions the compiler
  emits; `integer_arithmetic`, `integer_comparison`, `compare`, `branches` follow the compiler's
  choice among them. Of floating point only the order and the unordered value are kept. The
  meaning (`MeantNumber`, `MeantComparison`) is that of C++, as `ObjectTools` has it.
- *Invocation.* A call is a record: the walking register, `r11`, what lies at which address of
  the argument space, which objects live there. Passing and dropping an argument is a step
  each; addresses come from the three computations of the source (`args_map`, the trampoline's
  for gcc and for clang, the loops of `invoke_function` and `call_internal`). A constructor or
  destructor that compiled code calls may change `r10` and `r11`, which the calling convention
  allows. Compiled code adds the size of the space to `rsp` before it cleans up
  (`jit_x86_64.cpp:1190`), so that every call it makes from then on writes over it
  (`Overrun`): the return address takes the top eight bytes, and the frame of what is called
  any of the cells below, as deep as the callee likes. A destructor that is called where no
  object was made is `astray`; one that is called on an object something was written over has
  `spoiled` it.
- *DataPath.* Beside each value that the code computes (`locals`, `condition.taken`,
  `result.given`) stands what the program means (`meant`, `condition.meant`, `result.meant`),
  or `Unset` when it does not say: a variable not written, an operation for which the code is
  known to go wrong (not `Regular`), a double immediate in an expression (pushed as 32 bits), a
  forwarded argument. Which instructions are executed is left open, as `CompiledCode` decides that.

## 3. The runs

All runs take less than two minutes with two workers. `CHECK_DEADLOCK FALSE` is set everywhere because each of
these systems may stop: clients need not call, bounds are used up, the destructor has returned,
a function has returned.

| Run | Bounds | States | What it shows |
|---|---|---|---|
| `PooledHandler` | 3 clients, 2 workers, 2 hosts (one does not compile), 4 requests, an address reused once | 388 k | placeholders are owned, single flight, no stale entry, `Answered`, refinement |
| `PooledHandlerAbandoned` | 2 requests | violation | a failed compilation leaves its placeholder |
| `QueuedHandler` | 2 clients, 4 tasks, all five operations, a function that fails | 34 k | no lost wakeup, order, live entries, `SyncReturns`, refinement |
| `QueuedHandlerLazy` | 2 tasks | violation | the first call of a function raises |
| `QueuedHandlerShutdown` | 2 tasks, fair | violation | the destructor can hang |
| `ThreadPool` | 2 workers, 4 tasks of 3 priorities, a group of 2, 1 cleanup, flag up to 3 | 99 k | heap, wakeups, termination count, `TasksRun`, `CleanupEnds` |
| `Orchestrator` | 2 threads, 2 instances (one fails) that call each other, 2 levels, 1 edit | 79 k | the two copies agree, running code lives, jumps land, no leak |
| `OrchestratorRecompile` | 1 thread | violation | `recompile()` ignores edits |
| `CompiledCode` | all programs of up to 4 calls (and constructions), 3 conditions, objects of 24 and 8 bytes | 500 k | layout, labels, loops, and `FaithfulWhenRegular` |
| `DataPath` | 6 functions, 7 callees, all programs of 2 instructions; integers of 2 and 4 bits, 0 to 4 immediates per type | 1401 k | values, branches, arguments and results are what the program means; destructors are called once per object and at its address |
| `RefCount` | 2 threads, 3 Refs, 2 atomic objects and 1 plain, counters wrap at 8 | 598 k | exact counts, nothing dangles or is deleted twice, only cycles survive |
| `CompiledCodeLoopReturn` | while and return, 2 calls | violation | a while that returns is skipped |

**Why the bounds are enough to see the interesting cases.** Two workers and a third client let
two workers race on one host while a third request waits in the pool; two workers are also the
fewest that failed placeholders can capture entirely. Four tasks of the queue include a second push before the first
is popped and one after the server has gone to sleep. Four tasks in a heap give a node with two
children. Two levels of calls contain a nested call that is detached or recompiled from above or
from another thread. Four calls of the builder hold a loop around a condition around a break
with a variable, an if with an else and one more instruction, and a loop in a loop with something after or in it. Three objects with a member each make a chain
that one release deletes as a whole, and cycles of any length up to three; two threads that can
hold the same object are enough for a failed exchange and for a lost update. `MaxFlag` is 255 in the code and 3
in the run, one more than the workers: the case of more workers than the flag can count is not
checked. Two instructions of `DataPath` are one that computes a value and one that uses it: a
sum in a condition, a result passed on, a return value in an expression. Its sizes of types and
of argument spaces are the real ones, so that all alignments occur; its integers are shorter (a
"byte" has 2 bits, a "word" 4) so that every carry, sign and overflow is met among few values.
Passed to other functions are variables and one immediate of each type (`Sample`).

What the bounds do not show: with finitely many requests `Answered` cannot tell that a task is
overtaken for ever by later ones of its priority, which a heap that is not stable permits; and
`FrameLayout` gives all variables of one scope the same size (`type_size`), so sizes are mixed
between scopes and not within one.

**Regular functions.** `FaithfulWhenRegular` and `JumpsBound` speak of functions in which (1) no
loop's own body returns, (2) a break leaves no variables in the scopes it leaves besides its own, (3) no
while or else is empty, (4) an else follows an if, (5) no branch stands inside a `create_scope`
scope, and (6) a variable is constructed before anything leaves or enters a scope. Every one of these is accepted by the builder, and each
clause is needed: without any one of (1)-(4) and (6) the run fails, and without (5) compilation throws. They are
the defects of the compiler as it is, listed as hazards at their lines; (1) has a run of its own.

**Regular operations and calls.** In the same way `MeansWhatItSays` expects nothing of the
operations that `Regular` leaves out: quotients of negative dividends and of bytes, products of
bytes, orders and quotients of the signed types `is_signed_integer` does not know, sums of
truth values, `<` and `<=` of an unordered value. `Test` expects nothing of the truth of a number
of several bytes, `Pushed` nothing of a double immediate. `ArgumentsArrive` and
`ObjectsBalanced` leave out calls of compiled code that pass anything after an object
(`PassesRight`), and `ObjectsBalanced` those that destroy an object argument before an object that is
returned, and native calls whose arguments do not fill the space or differ (`CleansUpRight`).
A return value is expected to arrive only if no object argument was destroyed before it
(`TakeInner`). Each clause
was dropped by itself and the run then fails; each is a hazard at its line. Of compiled code
`ObjectsBalanced` says that destructors get the right addresses, not that the objects
are still there, which is asked of native code only. A call that
races with `recompile()` on another thread may find nullptr to jump to: `JumpsLand` allows that
and nothing else.

**Fairness.** Weak fairness for each thread that has something to do and is not blocked: a
worker of the pools, the server, the manager, a client inside a call, a destructor that was entered. This is what an operating system's
scheduler gives a thread, and nothing more: clients are never obliged to call, nobody is obliged to destroy, and
spurious wakeups are not fair. A mutex that is only held for finite sections is assumed to be
acquired in the end (the sections are single actions). In `ThreadPool` every task
ends once it runs, which is true of the pool's tasks in general and not of those that spin on an
abandoned placeholder (finding 1): `TasksRun` and `CleanupEnds` hold for a pool without these. `CompiledCode` and `Orchestrator` state
no liveness: whether a loop of the compiled program ends is the user's business.

## 4. Findings

The five violation runs are disagreements between the code and its README or comments; each is
quoted in `PROJECT.json`.
1. A failed compilation leaves a placeholder that captures workers for ever (`runtime_agent.cpp:207`).
2. `get_or_create` of the queued handler syncs from the server thread and raises (`runtime_agent.cpp:83`).
3. `~CommandQueue` notifies without the mutex; the server can sleep through it (`command_queue.h:56`).
4. `recompile()` gets the old code back from the handler's map (`orchestrator.h:231`).
5. A `while` whose body contains `return` is never entered (`jit_x86_64.cpp:222`).

One more has no run of its own. Compiled code gives the argument space back
(`jit_x86_64.cpp:1190`) before it calls the destructors of the arguments (1217), the copy constructor of the
return value (1233) and its destructor (1238). Each call writes its return address over the first
argument and its frame over the rest, so that objects are destroyed, and return values copied, after
they have been overwritten; the comment at 1220-1222 ("There's no stack push in-between so there
should be no problem") overlooks the calls of the loop above it. The model has this (`Overrun`):
asking `~ spoiled` of compiled calls in `ObjectsBalanced`, or the return value of a call with an
object argument in `TakeInner`, makes the run fail. The other known defects are the
exceptions named in section 3.

## 5. The proofs

All theorems hold for every value of the constants that satisfies the named assumptions of the
modules (what the sets may contain, that `None` and `Null` are not values); they do not use the
bounds. Each is the usual argument: an invariant that the initial states satisfy and every
action preserves, one step per action.

- *PooledHandlerProofs.* `IInv` strengthens the types with `TaskInv` (a busy worker has a client
  that waits for it and is not in the queue; no two workers share one), `FillInv` (a live host
  without an entry has no compiler, a detached one at most one: this is what makes single flight
  inductive, because `Detach` erases a placeholder whose compiler still runs) and `LateInv`.
  Theorems: `TypeCorrect`, `PlaceholdersOwned`, `FlightsSingle`, `StaleLate`, and `Implements`,
  the refinement to `CompileCache`.
- *QueuedHandlerProofs*, the queue alone. `QInv` adds that tickets of the running and the queued tasks are
  consecutive (`TicketInv`) and that a server that is about to sleep has an empty queue
  (`FallInv`). Theorems: `NoLostWakeup`, `RunsInOrder`.
- *QueuedHandlerProofs*, the handler. Every step of the handler is a step of the queue (`UsesQueue`), which
  carries `NoLostWakeup` over; `NoReleasedEntry` needs that serial numbers do not repeat. The
  refinement to `CompileCache` (`Implements`) rests on `SyncInv`: a synchronous task, queued or
  running, stands for exactly one call that waits with an empty future, so that each run of a job
  answers one pending request of the cache. `HandlerTypeCorrect` are its types.
- *Induction and recursion.* The library's theorems on these take operators, which the provers cannot
  instantiate, so three of the modules begin with lemmas in terms of sets and functions. `Induction`, over a
  set of numbers, follows from the pigeonhole principle. A function given by recursion has to be
  shown to exist when something gets smaller at each application, since only then does the CHOOSE
  behind its definition say anything about its values: `Unfolding` when it is applied once to
  something smaller, `Recursion` when that is all it does, and `NestedRecursion` (in `CompilerProofs`)
  when its value depends in any way on its values at all that is smaller. The lemmas stand in each
  module that needs them, as these have nothing else in common.
- *ThreadPoolProofs*, the heap. With these lemmas `heapify_up`, `heapify_down` and `push_all` are unfolded for arrays of any length: sifting
  permutes (`UpRearranges`, `DownRearranges`) and repairs a heap with one node out of order
  (`UpRestoresHeap` from `Rising`, `DownRestoresHeap` from `Sinking`), whence `PushIs`, `PopIs`,
  `PushAllIs` and `RootFirst`.
- *ThreadPoolProofs*, the pool. `QueueInv` joins the heap, the states of tasks and the jobs of workers (no task is
  in two places): `QueueIsHeap`, `UrgentFirst`. `FlagInv` says that during a cleanup the pool
  empties and stays empty and that the flag is 0 before it opens again: `FlagIsCovered`.
  `WakeInv` makes the wakeup inductive by counting: while somebody sleeps, the tasks and
  terminations that wait are no more than the notifications on their way and the workers awake together:
  `SomebodyIsWoken`. `HandOver` says that one worker at a time is on its way out, that whoever is
  out and not joined is known to the manager, and that after the owner's poll only the one on its
  way can follow: `OneOvertakes`. It assumes that `Workers` is finite.
- *OrchestratorProofs.* `IInv` joins the types of frames (`FrameInv`), what the map and the
  instance hold of one host (`HostInv`), and `JumpInv`: who is about to jump has code, or somebody is
  in `recompile`. Theorems: `TypeCorrect`, `PointersAgree`, `ExecutedCodeLives`,
  `TrampolinesLand`, `NothingLeaks`.
- *RefCountProofs.* `Safe` says which places a thread alone can reach (its registers, the
  members of what it is deleting), that the source of a copy stays where it is until it has been
  counted, and that a count of zero means that nobody can come upon the object again. It holds as
  long as no plain counter lost an update (`lost`), which the code does not prevent; the invariant is
  `Typed /\ (~lost => Safe)`. The count is a cardinality, so each micro-step comes with a lemma
  that it adds or removes one place. Theorems: `TypeCorrect`, `CountsExact`, `NothingDangles`
  and `CleansUp`: walking from a surviving object to its holder never ends, and among finitely many
  objects that closes a cycle (by the pigeonhole principle). The
  places are assumed finite, and fewer than a counter can count.
- *CompilerProofs*, the stacks. `TypeInv` has the shape of the tree of scopes, and that each scope on the
  stack was opened by the instruction the scope below has reached, the loop stack being the
  loops among them: `TypeCorrect`, `LoopsAreNested`.
- *CompilerProofs*, the jumps. `JumpsInv` carries the set of scopes already left, and says which
  labels have been bound by now and which are owed: a label jumped to and not yet bound
  belongs to a scope on the stack or to the one that comes next. `JumpsAreBound` follows, and
  `RegularFunctionsCompile`: such functions neither raise nor lose a scope. The argument for the labels uses
  of `Regular` only clauses (1) and (3).
- *CompilerProofs*, the frame. Offsets grow along a scope and up the stack of scopes; `current_size`
  is unfolded with `Unfolding`. `FlowInv` gives each instruction of the code
  a set of variables that holds what is alive there, whichever way the run came: a constructor
  stands only where its variable is not alive, a jump leads only to a label around which all that is
  alive may be. No two members of a set overlap (`SlotsAreDisjoint`), and the set at a return is empty
  (`NothingIsLeft`). Of `Regular` it uses only clause (2), `Calm`. TLC found the
  facts `FlowInv` states to hold on a small instance before they were proved.
- *DataPathProofs*, arithmetic. `ComparisonsMean` and `ArithmeticMeans`: for integers of any width and all
  values, the emitted code of a `Regular` operation has the result the operation means. The
  comparisons rest on what the flags of `cmp` say of the unsigned order (`CF`, `ZF`) and of the
  signed one (`SF # OF`), the sums on the uniqueness of remainders, and the
  quotients on the dividend being its own extension to twice its size. `ExpressionsMean` and
  `ConditionsMean` carry this to the assignment of an expression and the test of a condition.
- *DataPathProofs*, calls. `calculate_args_space` is a fold; a sum of sizes is unfolded from the last argument,
  which gives each argument its place, no two of which overlap, and shows that caller, compiled callee and
  both trampolines compute the same places. `CallInv` says what a call in progress has put where, what of it is still there
  (`Untouched`: nothing has been written over unless compiled code destroys an object) and which objects
  live; `DataInv` joins the calls outside and inside the function with its variables. Theorems: `TypeCorrect`,
  `ValuesMean`, `ArgumentsAreFound`, `ObjectsAreBalanced`, from the assumptions that types have a
  size, that immediates are values of their types and that there are primitive variables only.

- *FaithProofs*: `FaithfulCode`, the compiler's correctness, is `FaithfulWhenRegular` for functions of
  any length and nesting and all outcomes of their conditions. The property speaks of a run that has
  returned or has come to a condition, and is far from inductive: it does not say what the code in
  between has to do. The invariant is `FaithInv`, and the proof has three parts.
  1. *The function.* `meaning` recurses over places of the tree and outcomes still to come at once. It
     exists (`MeaningIs`, by `NestedRecursion`): what it needs at a place has fewer outcomes left, or lies further on
     or deeper in the tree (`PointsShrink`). It gives the events of one scope and says how that
     ended; `go` continues in the scopes around it, and `Plan(s, k, d)` is all that happens from
     instruction `k` of scope `s` to the end of the function. A lemma per kind of instruction says
     what its plan is by the plan of the next one (`PlanSteps`, `PlanBranches`, `PlanEnds`).
  2. *The code.* A `Trail` gives each place of the code a plan, as a function of the outcomes to
     come and of the last one. `Does` says what an instruction may stand between: a call is the
     first event of the plan before it, an `eval` divides the plan by the next outcome, a label has the plan of the
     place it stands for (`Landing`), and so has every jump to it. `FaithInv` says of a function
     being compiled that its code is a trail from `Plan(main, 1, _)` to the place where the compiler
     is (`Here`); a lemma per action extends it (`TrailContinues`, `TrailOpens`, `TrailReturns`,
     `TrailEnds`, `TrailFinishes`). They use the
     clauses (1), (2), (4) and (6) of `Regular`; (3) and (5) come in with `RegularFunctionsCompile`, by which
     such a function compiles and its jumps have somewhere to go.
  3. *The run.* Of running code `FaithInv` says that some trail `f` foretells the rest: whatever
     outcomes `d` may follow the `decisions` so far, the plan of the function with all of them is
     `trace` and then `f[pc]` with `d`. At a condition and after the return no outcome is left, which is the property.

  Before it was proved TLC checked what `FaithInv` says, for sequences of outcomes of bounded length, as an
  invariant of a small instance (4 calls, 2 outcomes).

**Only model-checked.** Liveness under fairness (`Answered`, `SyncReturns`, `TasksRun`,
`CleanupEnds`) and everything that needs ENABLED is out of the prover's reach. The violation runs are
counterexamples, which TLC finds and nobody has to prove. All safety invariants and action properties
of the passing runs are theorems.

## 6. Not modelled, and why

- *Conversions.* A `convert` or `coerce` instruction calls a C++ function with the addresses of
  the two variables and does what that does. For `primitive_convert` the compiler raises: the member with
  its generated table, one routine per pair of primitive types, is commented out (`jit_x86_64.h:66`).
- *Objects in variables.* `Compiler` has their constructors and destructors as calls, `DataPath`
  leaves them out. Below both is the destructor that gets the object's first word as its
  address (`jit_x86_64.cpp:421`), a hazard without a property, as is `rbx`, which compiled code
  uses and does not save: it shows only in what a native caller keeps there.
- *Floating point results* are any value: rounding is the processor's.
- `LambdaWrapper`, the umbrella headers and the build have no state. `register_heat` queues an
  empty task. The destructor of the orchestrator releases its members.
- *The instance map* has no lock, so creating or detaching instances on two threads is
  undefined; `Orchestrator` does both on one thread. It is a hazard without a property.
- asmjit and the processor are external and modelled from their use. `std::future` is a cell
  that is filled once. RWLock is the atomicity of the actions under it.
- A call that ends in an exception: no unwinding passes compiled code that has no tables for it.

## 7. Order of the work

Done, in this order: `CompileCache`, `PooledHandler`; `CommandQueue`, `QueuedHandler`;
`PriorityQueue`, `ThreadPool`; `Orchestrator`; `ScopeBuilder`, `FrameLayout`, `Compiler`,
`CompiledCode`; `RefCount`; `Arithmetic`, `Invocation`, `DataPath`; the proofs of all groups, last
that of `FaithfulWhenRegular`. Every safety invariant and action property of the passing runs has a
theorem.

What would come next are objects with their constructors and destructors in `DataPath`, so that
the two halves of the compiler meet in one model, and conversions when the compiler has them.
