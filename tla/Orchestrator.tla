---------------------------- MODULE Orchestrator ----------------------------
(***************************************************************************)
(* FunctionInstances and the Orchestrator that owns them (orchestrator.h): *)
(* an instance keeps real_compiled_function, the pointer its trampolines   *)
(* jump through, beside the function_map of the compilation handler.       *)
(*                                                                         *)
(* A thread is a stack of frames, one per call or recompile() it is in;    *)
(* compiled code may invoke other instances through their trampolines.     *)
(* The frame's steps are those between which another thread can run:       *)
(* nothing in an instance is synchronised.  The handler is taken as the    *)
(* atomic cache of CompileCache, in each of its three types.               *)
(***************************************************************************)
EXTENDS Naturals, SequencesExt

CONSTANTS Instances, Threads,
          Main,        \* the thread that creates, edits and detaches instances
          Callees,     \* instance -> the instances its function invokes
          Outcome,     \* instance -> "code", "error" or "raises": its compilation
          None,        \* nullptr: not compiled, no entry
          Null,        \* the placeholder a failed compilation leaves when pooled
          MaxBody,     \* bound: edits of a function
          MaxDepth     \* bound: nested calls

ASSUME OrchestratorAssumption ==
  /\ Main \in Threads
  /\ Callees \in [Instances -> SUBSET Instances]
  /\ Outcome \in [Instances -> {"code", "error", "raises"}]
  /\ MaxBody \in Nat /\ MaxDepth \in Nat \ {0}

Code == [host : Instances, body : Nat, nth : Nat]
ASSUME NilAssumption == None \notin Code /\ Null \notin Code /\ None # Null

Frame == [inst : Instances, op : {"call", "recompile"},
          pc : {"clear", "check", "fetch", "store", "jump", "run", "crashed"},
          cb : Code \cup {None}]

VARIABLES
  type,           \* of the handler, from the CompilationAgentSettings
  fresh,          \* the instances not created yet
  instance_map,   \* the instances the orchestrator holds
  parent,         \* the instances whose parent pointer is set
  detaching,      \* the instances inside detach()
  body,           \* instance -> how often its function was edited
  compiled,       \* instance -> how often it was compiled
  function_map,   \* instance -> Code, None or Null
  runtime,        \* the code the asmjit runtime holds
  real_compiled_function,
  stack           \* thread -> its frames, the innermost first

instanceVars == <<fresh, instance_map, parent, detaching, body>>
handlerVars  == <<compiled, function_map, runtime>>
vars == <<type, instanceVars, handlerVars, real_compiled_function, stack>>

TypeOK ==
  /\ type \in {"SINGLE_UNSAFE", "MULTI_QUEUED", "MULTI_POOLED"}
  /\ fresh \subseteq Instances /\ instance_map \subseteq Instances /\ parent \subseteq Instances
  /\ detaching \subseteq Instances
  /\ body \in [Instances -> Nat] /\ compiled \in [Instances -> Nat]
  /\ function_map \in [Instances -> Code \cup {None, Null}]
  /\ runtime \subseteq Code
  /\ real_compiled_function \in [Instances -> Code \cup {None}]
  /\ stack \in [Threads -> Seq(Frame)]

Init ==
  /\ type \in {"SINGLE_UNSAFE", "MULTI_QUEUED", "MULTI_POOLED"}
  /\ fresh = Instances /\ instance_map = {} /\ parent = {} /\ detaching = {}
  /\ body = [i \in Instances |-> 0] /\ compiled = [i \in Instances |-> 0]
  /\ function_map = [i \in Instances |-> None]
  /\ runtime = {}
  /\ real_compiled_function = [i \in Instances |-> None]
  /\ stack = [t \in Threads |-> <<>>]

Top(t) == Head(stack[t])
At(t, pc) == stack[t] # <<>> /\ Top(t).pc = pc
Ret(t) == stack' = [stack EXCEPT ![t] = Tail(@)]
Replace(t, f) == stack' = [stack EXCEPT ![t] = <<f>> \o Tail(@)]
Goto(t, pc) == Replace(t, [Top(t) EXCEPT !.pc = pc])

\* Where user code runs: outside every call, or in a native function that
\* compiled code calls.
InUserCode(t) ==
  /\ stack[t] = <<>> \/ At(t, "run")
  /\ t = Main => detaching = {}

-----------------------------------------------------------------------------
(* What the user does with instances.                                      *)

Create(i) ==
  /\ InUserCode(Main) /\ i \in fresh
  /\ fresh' = fresh \ {i}
  /\ instance_map' = instance_map \cup {i}
  /\ parent' = parent \cup {i}
  /\ UNCHANGED <<type, detaching, body, handlerVars, real_compiled_function, stack>>

Edit(i) ==
  /\ InUserCode(Main) /\ i \in parent
  /\ body[i] < MaxBody
  /\ body' = [body EXCEPT ![i] = @ + 1]
  /\ UNCHANGED <<type, fresh, instance_map, parent, detaching, handlerVars,
                 real_compiled_function, stack>>

MutReleasedNone(i) == {}             \* as remove_function(const Ref&) does
MutReleasedAll(i) == runtime         \* resets the runtime
Released(i) == IF type = "MULTI_POOLED" THEN {} ELSE {function_map[i]}

\* detach: leave instance_map, remove_function (which releases nothing when
\* pooled: it asks the wrong runtime), ...
Detach(i) ==
  /\ InUserCode(Main) /\ i \in parent
  /\ instance_map' = instance_map \ {i}
  /\ function_map' = [function_map EXCEPT ![i] = None]
  /\ runtime' = runtime \ Released(i)
  /\ detaching' = detaching \cup {i}
  /\ UNCHANGED <<type, fresh, parent, body, compiled, real_compiled_function, stack>>

\* ... and forget the parent.
ForgetParent(i) ==
  /\ i \in detaching
  /\ parent' = parent \ {i}
  /\ detaching' = detaching \ {i}
  /\ UNCHANGED <<type, fresh, instance_map, body, handlerVars, real_compiled_function, stack>>

Start(i, op) == [inst |-> i, op |-> op, cb |-> None,
                 pc |-> IF op = "recompile" THEN "clear" ELSE "check"]

\* The user calls or recompiles an instance it has not detached; only the
\* handlers of the MULTI types may be used from several threads.
Begin(t, i, op) ==
  /\ InUserCode(t)
  /\ i \in instance_map
  /\ type = "SINGLE_UNSAFE" => t = Main
  /\ Len(stack[t]) < MaxDepth
  /\ stack' = [stack EXCEPT ![t] = <<Start(i, op)>> \o @]
  /\ UNCHANGED <<type, instanceVars, handlerVars, real_compiled_function>>

\* Compiled code invokes the trampoline of another instance, detached or not.
Invoke(t) ==
  /\ At(t, "run") /\ InUserCode(t)
  /\ Len(stack[t]) < MaxDepth
  /\ \E i \in Callees[Top(t).inst] \ fresh :
       stack' = [stack EXCEPT ![t] = <<Start(i, "call")>> \o @]
  /\ UNCHANGED <<type, instanceVars, handlerVars, real_compiled_function>>

-----------------------------------------------------------------------------
(* The steps of a call and of recompile().                                 *)

Clear(t) ==
  /\ At(t, "clear")
  /\ real_compiled_function' = [real_compiled_function EXCEPT ![Top(t).inst] = None]
  /\ Goto(t, "check")
  /\ UNCHANGED <<type, instanceVars, handlerVars>>

\* compile_internal: nothing to do when compiled; without a parent it reads
\* through a null pointer.
Check(t) ==
  /\ At(t, "check")
  /\ IF real_compiled_function[Top(t).inst] # None
     THEN IF Top(t).op = "call" THEN Goto(t, "jump") ELSE Ret(t)
     ELSE Goto(t, IF Top(t).inst \in parent THEN "fetch" ELSE "crashed")
  /\ UNCHANGED <<type, instanceVars, handlerVars, real_compiled_function>>

MutCodeOf(i) == [host |-> i, body |-> body[i] - 1, nth |-> compiled[i]]
CodeOf(i) == [host |-> i, body |-> body[i], nth |-> compiled[i]]

MutCached(i) == FALSE                \* compiles every time
Cached(i) == function_map[i] \in Code

FetchHit(t) ==
  /\ At(t, "fetch") /\ Cached(Top(t).inst)
  /\ Replace(t, [Top(t) EXCEPT !.pc = "store", !.cb = function_map[Top(t).inst]])
  /\ UNCHANGED <<type, instanceVars, handlerVars, real_compiled_function>>

Missing(t) == At(t, "fetch") /\ ~ Cached(Top(t).inst) /\ function_map[Top(t).inst] # Null

FetchMiss(t) ==
  /\ Missing(t) /\ type # "MULTI_QUEUED" /\ Outcome[Top(t).inst] = "code"
  /\ LET i == Top(t).inst
     IN  /\ function_map' = [function_map EXCEPT ![i] = CodeOf(i)]
         /\ runtime' = runtime \cup {CodeOf(i)}
         /\ compiled' = [compiled EXCEPT ![i] = @ + 1]
         /\ Replace(t, [Top(t) EXCEPT !.pc = "store", !.cb = CodeOf(i)])
  /\ UNCHANGED <<type, instanceVars, real_compiled_function>>

Placeholder(i) == IF type = "MULTI_POOLED" THEN [function_map EXCEPT ![i] = Null]
                                           ELSE function_map

\* The handler returns nullptr.
FetchError(t) ==
  /\ Missing(t) /\ type # "MULTI_QUEUED" /\ Outcome[Top(t).inst] = "error"
  /\ function_map' = Placeholder(Top(t).inst)
  /\ Goto(t, "store")
  /\ UNCHANGED <<type, instanceVars, compiled, runtime, real_compiled_function>>

\* The compiler raises, or the queued handler does.  The exception ends the
\* call; it cannot unwind through compiled code.
FetchRaises(t) ==
  /\ Missing(t) /\ (type = "MULTI_QUEUED" \/ Outcome[Top(t).inst] = "raises")
  /\ function_map' = Placeholder(Top(t).inst)
  /\ IF Len(stack[t]) = 1 THEN Ret(t) ELSE Goto(t, "crashed")
  /\ UNCHANGED <<type, instanceVars, compiled, runtime, real_compiled_function>>

MutStored(i, cb) == real_compiled_function       \* forgets the assignment
Stored(i, cb) == [real_compiled_function EXCEPT ![i] = cb]

Store(t) ==
  /\ At(t, "store")
  /\ real_compiled_function' = Stored(Top(t).inst, Top(t).cb)
  /\ IF Top(t).op = "call" THEN Goto(t, "jump") ELSE Ret(t)
  /\ UNCHANGED <<type, instanceVars, handlerVars>>

\* The trampoline reads real_compiled_function again, and jumps.
Jump(t) ==
  /\ At(t, "jump")
  /\ LET cb == real_compiled_function[Top(t).inst]
     IN  Replace(t, [Top(t) EXCEPT !.pc = IF cb \in runtime THEN "run" ELSE "crashed",
                                   !.cb = cb])
  /\ UNCHANGED <<type, instanceVars, handlerVars, real_compiled_function>>

Return(t) ==
  /\ At(t, "run") /\ InUserCode(t)
  /\ Ret(t)
  /\ UNCHANGED <<type, instanceVars, handlerVars, real_compiled_function>>

Fetch(t) == FetchHit(t) \/ FetchMiss(t) \/ FetchError(t) \/ FetchRaises(t)

Next ==
  \/ \E i \in Instances : Create(i) \/ Edit(i) \/ Detach(i) \/ ForgetParent(i)
  \/ \E t \in Threads : \/ \E i \in Instances, op \in {"call", "recompile"} : Begin(t, i, op)
                        \/ Invoke(t) \/ Clear(t) \/ Check(t) \/ Fetch(t) \/ Store(t)
                        \/ Jump(t) \/ Return(t)

Spec == Init /\ [][Next]_vars

-----------------------------------------------------------------------------
Attached(i) == i \in instance_map
Recompiles(t, i) == \E f \in ToSet(stack[t]) : f.op = "recompile" /\ f.inst = i

\* The two places that keep the callback of an attached instance agree: the
\* instance has the code of the handler's map, or none.
EntriesAgree ==
  \A i \in Instances : Attached(i) => real_compiled_function[i] \in {None, function_map[i]}

\* The code a thread is executing, at any depth of its stack, has not been
\* released, as long as its instance is attached.
FramesLive ==
  \A t \in Threads : \A f \in ToSet(stack[t]) :
     f.pc = "run" /\ Attached(f.inst) => f.cb \in runtime

\* The jump of a trampoline lands on live code, unless another thread is in the
\* middle of recompile() on the same instance.
JumpsLand ==
  \A t \in Threads : At(t, "jump") =>
    LET i == Top(t).inst
    IN  Attached(i) /\ Outcome[i] = "code" =>
          real_compiled_function[i] \in runtime \/ \E u \in Threads : Recompiles(u, i)

\* The runtime holds what the map holds: with the default handler no code is
\* leaked and none is released early.
NoLeak ==
  type = "SINGLE_UNSAFE" => runtime = { function_map[i] : i \in Instances } \ {None}

\* "To recompile: instance->recompile();" (README.md:163): the callback that
\* recompile() installs is of the function as it was edited.
RecompileTakesEdits ==
  \A t \in Threads : At(t, "store") /\ Top(t).op = "recompile" /\ Top(t).cb # None
     => Top(t).cb.body = body[Top(t).inst]
=============================================================================
