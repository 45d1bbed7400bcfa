--------------------------- MODULE PooledHandler ---------------------------
(***************************************************************************)
(* ThreadPoolCompilationHandler (runtime_agent.cpp): clients hand requests *)
(* to the workers of a thread pool and block on a future.  A worker that   *)
(* finds no entry for the host writes a nullptr placeholder under the      *)
(* write lock, compiles without the lock, and takes the lock again to      *)
(* store the code; a worker that finds a placeholder spins until it is     *)
(* replaced.  remove_function erases the entry on the caller's thread.     *)
(*                                                                         *)
(* Every critical section of the RWLock is one action: nothing is called   *)
(* under it that waits (remove_function_internal takes the mutex of the    *)
(* handler's own, shadowing runtime, which no compiler uses).  The pool is *)
(* the set of waiting tasks, from which a worker takes any one: all are    *)
(* queued MEDIUM and the heap keeps no order within a priority.            *)
(***************************************************************************)
EXTENDS Naturals

CONSTANTS Clients, Workers, Hosts,
          FailingHosts,   \* functions whose compilation fails or raises
          Requests,       \* bound: the requests clients make
          None,           \* no request, no task, no answer, no map entry
          Null,           \* nullptr: the placeholder, or a failed compilation
          MaxRequests,    \* bound: how many they make
          MaxGen          \* bound: times the address of a Function is reused

ASSUME BoundsAssumption == MaxRequests \in Nat /\ MaxGen \in Nat

Op == {"get_or_create", "recompile"}
Request == [op : Op, host : Hosts]
ASSUME RequestsAssumption == Requests \subseteq Request
Code == [host : Hosts, gen : Nat]

ASSUME NoneAssumption ==
  None \notin Clients /\ None \notin Hosts /\ None \notin Request /\ None \notin Code
ASSUME NullAssumption == Null # None /\ Null \notin Code

VARIABLES
  function_map,  \* host -> Code, Null (placeholder) or None (no entry)
  request,       \* client -> the request it is blocked on
  answer,        \* client -> the value of its future; Null: nullptr or an exception
  queue,         \* clients whose task no worker has taken
  task,          \* worker -> the client it works for
  pc,            \* worker -> "idle", "lookup", "compile" or "install"
  gen,           \* host -> which Function lives at this address
  detached,      \* hosts whose instance has called detach()
  late,          \* hosts whose entry was stored after their detach (history)
  issued         \* requests made

vars == <<function_map, request, answer, queue, task, pc, gen, detached, late, issued>>

clientVars == <<request, issued>>
hostVars   == <<gen, detached>>
workerVars == <<queue, task, pc>>

TypeOK ==
  /\ function_map \in [Hosts -> Code \cup {Null, None}]
  /\ request \in [Clients -> Request \cup {None}]
  /\ answer \in [Clients -> Code \cup {Null, None}]
  /\ queue \subseteq Clients
  /\ task \in [Workers -> Clients \cup {None}]
  /\ pc \in [Workers -> {"idle", "lookup", "compile", "install"}]
  /\ gen \in [Hosts -> Nat]
  /\ detached \subseteq Hosts
  /\ late \subseteq Hosts
  /\ issued \in Nat

Init ==
  /\ function_map = [h \in Hosts |-> None]
  /\ request = [c \in Clients |-> None]
  /\ answer = [c \in Clients |-> None]
  /\ queue = {}
  /\ task = [w \in Workers |-> None]
  /\ pc = [w \in Workers |-> "idle"]
  /\ gen = [h \in Hosts |-> 0]
  /\ detached = {}
  /\ late = {}
  /\ issued = 0

Host(w) == request[task[w]].host

-----------------------------------------------------------------------------
(* The threads that call the handler.                                      *)

\* get_or_create and recompile: queue the task, then wait for the future.
Call(c, r) ==
  /\ request[c] = None
  /\ r.host \notin detached
  /\ issued < MaxRequests
  /\ request' = [request EXCEPT ![c] = r]
  /\ queue' = queue \cup {c}
  /\ issued' = issued + 1
  /\ UNCHANGED <<function_map, answer, task, pc, gen, detached, late>>

\* The future is ready: the call returns (or rethrows).
Return(c) ==
  /\ answer[c] # None
  /\ request' = [request EXCEPT ![c] = None]
  /\ answer' = [answer EXCEPT ![c] = None]
  /\ UNCHANGED <<function_map, workerVars, hostVars, late, issued>>

\* The entry remove_function leaves: the code itself is released on the wrong
\* runtime, which has no effect, so nothing else changes.
MutErasedLeft(h) == function_map                  \* forgets to erase
MutErasedNull(h) == [function_map EXCEPT ![h] = Null]  \* clears, keeps the key
Erased(h) == [function_map EXCEPT ![h] = None]

\* detach() of the instance calls remove_function, placeholder or not.
Detach(h) ==
  /\ h \notin detached
  /\ detached' = detached \cup {h}
  /\ function_map' = Erased(h)
  /\ late' = late \ {h}
  /\ UNCHANGED <<clientVars, answer, workerVars, gen>>

\* With the last call on it over, the detached Function is freed and a new
\* instance gets a Function at the same address.
Reuse(h) ==
  /\ h \in detached
  /\ gen[h] < MaxGen
  /\ \A c \in Clients : request[c] # None => request[c].host # h
  /\ gen' = [gen EXCEPT ![h] = @ + 1]
  /\ detached' = detached \ {h}
  /\ UNCHANGED <<function_map, clientVars, answer, workerVars, late>>

-----------------------------------------------------------------------------
(* The workers.                                                            *)

\* A worker pops a task of the pool.
Take(w) ==
  /\ pc[w] = "idle"
  /\ \E c \in queue :
       /\ queue' = queue \ {c}
       /\ task' = [task EXCEPT ![w] = c]
       /\ pc' = [pc EXCEPT ![w] =
                  IF request[c].op = "recompile" THEN "compile" ELSE "lookup"]
  /\ UNCHANGED <<function_map, clientVars, answer, hostVars, late>>

\* The packaged task ends with value k and the worker goes back to the pool.
Finish(w, k) ==
  /\ answer' = [answer EXCEPT ![task[w]] = k]
  /\ task' = [task EXCEPT ![w] = None]
  /\ pc' = [pc EXCEPT ![w] = "idle"]

\* The lookup loop of get_or_create_internal: code ends it, a placeholder
\* keeps it spinning (no step), and no entry makes this worker the compiler.
Hit(w) ==
  /\ pc[w] = "lookup"
  /\ function_map[Host(w)] \in Code
  /\ Finish(w, function_map[Host(w)])
  /\ UNCHANGED <<function_map, clientVars, queue, hostVars, late>>

MutUnclaimed(h) == function_map[h] \notin Code     \* does not wait on a placeholder
Unclaimed(h) == function_map[h] = None

Claim(w) ==
  /\ pc[w] = "lookup"
  /\ Unclaimed(Host(w))
  /\ function_map' = [function_map EXCEPT ![Host(w)] = Null]
  /\ pc' = [pc EXCEPT ![w] = "compile"]
  /\ UNCHANGED <<clientVars, answer, queue, task, hostVars, late>>

\* The compilation reads the RectifiedFunction, which its client keeps alive:
\* it is that of the Function now at h.
MutCodeOf(h) == [host |-> h, gen |-> gen[h] - 1]
CodeOf(h) == [host |-> h, gen |-> gen[h]]

Compile(w) ==
  /\ pc[w] = "compile"
  /\ Host(w) \notin FailingHosts
  /\ pc' = [pc EXCEPT ![w] = "install"]
  /\ UNCHANGED <<function_map, clientVars, answer, queue, task, hostVars, late>>

\* recompile_internal returns nullptr on an error, or the compiler raises: in
\* both cases the map is not touched again.
CompileFails(w) ==
  /\ pc[w] = "compile"
  /\ Host(w) \in FailingHosts
  /\ Finish(w, Null)
  /\ UNCHANGED <<function_map, clientVars, queue, hostVars, late>>

MutStoredNot(h, k) == function_map                \* forgets to store
MutStoredOnce(h, k) ==                            \* only replaces a placeholder
  IF function_map[h] \in Code THEN function_map ELSE [function_map EXCEPT ![h] = k]
Stored(h, k) == [function_map EXCEPT ![h] = k]

Install(w) ==
  /\ pc[w] = "install"
  /\ function_map' = Stored(Host(w), CodeOf(Host(w)))
  /\ late' = IF Host(w) \in detached THEN late \cup {Host(w)} ELSE late \ {Host(w)}
  /\ Finish(w, CodeOf(Host(w)))
  /\ UNCHANGED <<clientVars, queue, hostVars>>

Work(w) == Hit(w) \/ Claim(w) \/ Compile(w) \/ CompileFails(w) \/ Install(w)

Next ==
  \/ \E c \in Clients, r \in Requests : Call(c, r)
  \/ \E c \in Clients : Return(c)
  \/ \E h \in Hosts : Detach(h) \/ Reuse(h)
  \/ \E w \in Workers : Take(w) \/ Work(w)

\* A worker thread that can run does run.
Fairness == \A w \in Workers : WF_vars(Take(w)) /\ WF_vars(Work(w))

Spec == Init /\ [][Next]_vars
FairSpec == Spec /\ Fairness

-----------------------------------------------------------------------------
Compiling(w, h) == pc[w] \in {"compile", "install"} /\ Host(w) = h

\* w compiles h because it found no entry, not because of recompile().
Filling(w, h) == Compiling(w, h) /\ request[task[w]].op = "get_or_create"

\* A placeholder is always somebody's work: "If available but is null, another
\* thread is compiling this function, wait for it" (runtime_agent.cpp:184).
PlaceholderMeansCompiling ==
  \A h \in Hosts : function_map[h] = Null => \E w \in Workers : Compiling(w, h)

\* The same where the code keeps it: a placeholder is abandoned only by a
\* compilation that fails.
PlaceholderOwned ==
  \A h \in Hosts : function_map[h] = Null =>
     h \in FailingHosts \/ \E w \in Workers : Compiling(w, h)

\* get_or_create compiles a live function at most once at a time, however many
\* clients ask; once it is detached at most one more compilation can start
\* (remove_function erases a placeholder whose compiler still runs).
SingleFlight ==
  \A h \in Hosts : \A v, w \in Workers :
     Filling(v, h) /\ Filling(w, h) /\ v # w =>
       /\ h \in detached
       /\ \A u \in Workers : Filling(u, h) => u \in {v, w}

\* The map never holds code of another function, and code of an earlier
\* function at the same address only if a compilation that overlapped its
\* detach() stored it afterwards.
StaleOnlyIfLate ==
  \A h \in Hosts : function_map[h] \in Code =>
     /\ function_map[h].host = h
     /\ function_map[h].gen = gen[h] \/ h \in late

\* All workers spin on placeholders that failed compilations left behind.
Wedged ==
  \A w \in Workers : /\ pc[w] = "lookup"
                     /\ Host(w) \in FailingHosts
                     /\ function_map[Host(w)] = Null

\* Who asks for a function that compiles is answered, unless abandoned
\* placeholders have captured every worker.
Answered ==
  \A c \in Clients :
    (request[c] # None /\ request[c].host \notin FailingHosts)
      ~> (request[c] = None \/ answer[c] # None \/ Wedged)

\* Handing out placeholders to nobody, the handler is a cache with atomic
\* answers: a client gets what the map holds, or what its own step stores.
Abstract == INSTANCE CompileCache WITH
  Failed <- Null,
  cached <- [h \in Hosts |->
               IF function_map[h] = Null THEN None ELSE function_map[h]],
  asked  <- [c \in Clients |->
               IF request[c] = None THEN None ELSE request[c].host]

ImplementsCompileCache == Abstract!CSpec
=============================================================================
