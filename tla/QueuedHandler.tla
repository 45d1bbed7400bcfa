--------------------------- MODULE QueuedHandler ---------------------------
(***************************************************************************)
(* CommandQueueCompilationHandler (runtime_agent.cpp): every operation of  *)
(* the handler is a task that its caller syncs with through the            *)
(* CommandQueue, so that only the server thread touches function_map.      *)
(* register_heat is the one that is dispatched without waiting; it does    *)
(* nothing.                                                                *)
(***************************************************************************)
EXTENDS CommandQueue

CONSTANTS Hosts,
          FailingHosts,  \* functions whose compilation fails or raises
          Null,          \* nullptr: a compilation that failed
          Raised,        \* the exception of a sync from the server's own thread
          Yes, No        \* the bool results

Op == {"function_compiled", "get_or_create", "recompile", "remove_function",
       "register_heat"}
Job == [op : Op, host : Hosts]
Code == [host : Hosts, serial : 0 .. MaxTasks]
Value == Code \cup {Null, Raised, Yes, No}
ASSUME HandlerAssumption ==
  Jobs \subseteq Job /\ Values = Value /\ None \notin Hosts /\ Raised \notin Code

VARIABLES
  function_map,     \* host -> Code, or None
  runtime,          \* the code the asmjit runtime holds
  serial            \* compilations so far

vars == <<qvars, function_map, runtime, serial>>

TypeOK ==
  /\ QTypeOK
  /\ function_map \in [Hosts -> Code \cup {None}]
  /\ runtime \subseteq Code
  /\ serial \in Nat

Init ==
  /\ QInit
  /\ function_map = [h \in Hosts |-> None]
  /\ runtime = {}
  /\ serial = 0

job == Head(current).job
Compiled(h) == function_map[h] # None
Found(h) == IF Compiled(h) THEN Yes ELSE No

IsCompiled ==
  /\ job.op = "function_compiled"
  /\ Run(Found(job.host))
  /\ UNCHANGED <<function_map, runtime, serial>>

\* get_or_create_internal finds the entry ...
GetHit ==
  /\ job.op = "get_or_create" /\ Compiled(job.host)
  /\ Run(function_map[job.host])
  /\ UNCHANGED <<function_map, runtime, serial>>

\* ... or calls the public recompile(), which syncs, and CommandQueue::sync_method
\* raises on its own server thread: the exception ends up in the future.
GetMiss ==
  /\ job.op = "get_or_create" /\ ~ Compiled(job.host)
  /\ Run(Raised)
  /\ UNCHANGED <<function_map, runtime, serial>>

MutKept(h, k) == IF Compiled(h) THEN function_map ELSE [function_map EXCEPT ![h] = k]
Kept(h, k) == [function_map EXCEPT ![h] = k]

\* recompile_internal: new code replaces the entry; the old code is not released.
Recompile ==
  /\ job.op = "recompile" /\ job.host \notin FailingHosts
  /\ LET k == [host |-> job.host, serial |-> serial]
     IN  /\ Run(k)
         /\ function_map' = Kept(job.host, k)
         /\ runtime' = runtime \cup {k}
  /\ serial' = serial + 1

RecompileFails ==
  /\ job.op = "recompile" /\ job.host \in FailingHosts
  /\ Run(Null)
  /\ UNCHANGED <<function_map, runtime, serial>>

MutForgotten(h) == function_map       \* releases the code and keeps the entry
MutForgottenRaw(h) == [g \in Hosts \ {h} |-> function_map[g]]
Forgotten(h) == [function_map EXCEPT ![h] = None]

\* remove_function_internal: release the code, erase the entry.
Remove ==
  /\ job.op = "remove_function"
  /\ Run(Found(job.host))
  /\ runtime' = runtime \ {function_map[job.host]}
  /\ function_map' = Forgotten(job.host)
  /\ UNCHANGED serial

RegisterHeat ==
  /\ job.op = "register_heat"
  /\ Run(Null)
  /\ UNCHANGED <<function_map, runtime, serial>>

RunJob == /\ server = "running"
          /\ \/ IsCompiled \/ GetHit \/ GetMiss \/ Recompile \/ RecompileFails
             \/ Remove \/ RegisterHeat

\* The steps of the queue itself leave the handler alone.
Quiet(A) == A /\ UNCHANGED <<function_map, runtime, serial>>

\* The public methods: all sync() but register_heat.
Call(c) == \E j \in Jobs : Quiet(Push(c, j, j.op # "register_heat"))

Next ==
  \/ RunJob
  \/ Quiet(ServerWait) \/ Quiet(WakeSpuriously) \/ Quiet(Destroy)
  \/ \E c \in Clients : Call(c) \/ Quiet(ClientStep(c))

\* Threads that can run do run; nobody has to call, or to destroy the handler,
\* but a destructor that was entered goes on.
Fairness ==
  /\ WF_vars(RunJob) /\ WF_vars(Quiet(ServerWait))
  /\ WF_vars(Quiet(NotifyAll)) /\ WF_vars(Quiet(Join))
  /\ \A c \in Clients : WF_vars(Quiet(ClientStep(c)))

Spec == Init /\ [][Next]_vars
FairSpec == Spec /\ Fairness

-----------------------------------------------------------------------------
\* An entry of the map always points to code that was not released.
EntriesLive == \A h \in Hosts : Compiled(h) =>
                 function_map[h] \in runtime /\ function_map[h].host = h

\* A sync() always comes back: no wakeup of the server is lost, and a task that
\* syncs from the server's thread raises instead of waiting for itself.
SyncReturns == \A c \in Clients : client[c] = "waiting" ~> client[c] = "idle"

\* What a client is answered is what the map holds when its task runs, or the
\* code that task compiles: the handler implements the abstract cache.
Asks(c) == frame[c] # None /\ frame[c].op \in {"get_or_create", "recompile"}

Abstract == INSTANCE CompileCache WITH
  Failed <- Null,
  cached <- function_map,
  asked  <- [c \in Clients |-> IF Asks(c) THEN frame[c].host ELSE None],
  answer <- [c \in Clients |->
               IF ~ Asks(c) THEN None
               ELSE IF future[c] = Raised THEN Null ELSE future[c]]

ImplementsCompileCache == Abstract!CSpec

\* "FunctionInstance support lazy compilation, the first time it is invoked, it
\* will forward the compilation request to the Orchestrator, which will in turn
\* return the compiled callback" (README.md): no get_or_create is refused.
LazyCompilation == \A c \in Clients : future[c] # Raised

\* "can be cleaned-up automatically" (README.md): a destructor that was entered
\* returns.
DestructorReturns == owner # "alive" ~> owner = "gone"
=============================================================================
