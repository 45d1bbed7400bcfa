----------------------------- MODULE ThreadPool -----------------------------
(***************************************************************************)
(* ThreadPool (thread_pool.h): workers wait on a condition variable for    *)
(* tasks or for termination_flag; workers that terminate hand themselves   *)
(* to a manager thread that joins them; the destructor terminates all of   *)
(* them and then stops the manager.                                        *)
(*                                                                         *)
(* A critical section is one action, except where something that does not  *)
(* take the mutex can see into it: a worker leaves in steps ("leaving":    *)
(* erased from threads_map, "queued": handed to the manager, both with     *)
(* pool_conditional_mutex held) because terminate_all_workers polls        *)
(* threads_map without the mutex; the manager goes to sleep in two steps   *)
(* ("falling" holds its mutex) because ManagerThread::join sets            *)
(* is_terminated without it.                                               *)
(***************************************************************************)
EXTENDS PriorityQueue, FiniteSets, SequencesExt

CONSTANTS Workers,     \* bound: worker threads ever allocated (Tasks: ever queued)
          Group,       \* the tasks queued together as a group task, in order
          MaxFlag,     \* the largest termination_flag: 255
          MaxReuse     \* bound: calls of terminate_all_workers that return

\* The tasks of a group are distinct closures of one priority.
ASSUME PoolAssumption ==
  /\ IsFiniteSet(Workers)
  /\ Group \in Seq(Tasks)
  /\ \A i, j \in DOMAIN Group : Group[i] = Group[j] => i = j
  /\ \A i, j \in DOMAIN Group : Priority[Group[i]] = Priority[Group[j]]
  /\ MaxFlag \in Nat \ {0} /\ MaxReuse \in Nat

VARIABLES
  task_queue,        \* the heap of the tasks that wait
  task,              \* task -> "new", "queued", "running", "done"
  worker,            \* worker -> its state (see TypeOK)
  job,               \* worker -> the task it runs, as a set of at most one
  notifying,         \* queue_task calls that have pushed and not yet notified
  termination_flag, is_cleaning_up,
  manager,           \* "testing", "falling", "asleep", "joining" or "returned"
  targets,           \* disposal_targets
  target,            \* the worker the manager joins, a set of at most one
  is_terminated,     \* of the manager
  owner,             \* where terminate_all_workers or the destructor is
  destroying,        \* the destructor runs
  cleanups           \* calls of terminate_all_workers that have returned

poolVars    == <<task_queue, task, worker, job, notifying, termination_flag>>
managerVars == <<manager, targets, target>>
ownerVars   == <<is_cleaning_up, is_terminated, owner, destroying, cleanups>>
vars == <<poolVars, managerVars, ownerVars>>

TypeOK ==
  /\ task_queue \in Seq(Tasks)
  /\ task \in [Tasks -> {"new", "queued", "running", "done"}]
  /\ worker \in [Workers -> {"unused", "testing", "waiting", "busy", "leaving",
                             "queued", "ended", "joined"}]
  /\ job \in [Workers -> SUBSET Tasks]
  /\ notifying \in Nat
  /\ termination_flag \in 0 .. MaxFlag
  /\ is_cleaning_up \in BOOLEAN /\ is_terminated \in BOOLEAN
  /\ manager \in {"testing", "falling", "asleep", "joining", "returned"}
  /\ targets \in Seq(Workers)
  /\ target \subseteq Workers
  /\ owner \in {"alive", "polling", "reset", "clean", "flush", "terminate",
                "notify", "join", "gone"}
  /\ destroying \in BOOLEAN
  /\ cleanups \in Nat

\* The workers init() allocates are those the pool starts with.
Init ==
  /\ task_queue = <<>>
  /\ task = [t \in Tasks |-> "new"]
  /\ worker = [w \in Workers |-> "unused"]
  /\ job = [w \in Workers |-> {}]
  /\ notifying = 0
  /\ termination_flag = 0
  /\ is_cleaning_up = FALSE /\ is_terminated = FALSE
  /\ manager = "testing"
  /\ targets = <<>> /\ target = {}
  /\ owner = "alive" /\ destroying = FALSE /\ cleanups = 0

In(states) == { w \in Workers : worker[w] \in states }
threads_map == In({"testing", "waiting", "busy"})
MutexFree == In({"leaving", "queued"}) = {}
Grouped == ToSet(Group)

\* Whom n notify_one wake: that many waiting workers, or all there are.
Woken(n) == { S \in SUBSET In({"waiting"}) :
                \/ Cardinality(S) = n
                \/ Cardinality(S) < n /\ S = In({"waiting"}) }
Wake(S) == worker' = [w \in Workers |-> IF w \in S THEN "testing" ELSE worker[w]]

-----------------------------------------------------------------------------
(* The calls, from any thread, of a pool that is not being destroyed.      *)

\* queue_task: push under the mutex, notify after it.
QueueTask(t) ==
  /\ ~ destroying /\ MutexFree
  /\ task[t] = "new" /\ t \notin Grouped
  /\ task_queue' = Pushed(task_queue, t)
  /\ task' = [task EXCEPT ![t] = "queued"]
  /\ notifying' = notifying + 1
  /\ UNCHANGED <<worker, job, termination_flag, managerVars, ownerVars>>

Notify ==
  /\ notifying > 0
  /\ notifying' = notifying - 1
  /\ \E S \in Woken(1) : Wake(S)
  /\ UNCHANGED <<task_queue, task, job, termination_flag, managerVars, ownerVars>>

\* queue_group_task: one push and one notify_one per thread, under the mutex.
MutGroupWoken == Woken(0)           \* pushes the group without notifying
GroupWoken == Woken(Len(Group))

QueueGroup ==
  /\ ~ destroying /\ MutexFree
  /\ Group # <<>> /\ \A t \in Grouped : task[t] = "new"
  /\ task_queue' = push_all[<<task_queue, Group>>]
  /\ task' = [t \in Tasks |-> IF t \in Grouped THEN "queued" ELSE task[t]]
  /\ \E S \in GroupWoken : Wake(S)
  /\ UNCHANGED <<job, notifying, termination_flag, managerVars, ownerVars>>

\* allocate_worker: refused while terminate_all_workers is cleaning up.
Allocate(w) ==
  /\ ~ destroying /\ MutexFree /\ ~ is_cleaning_up
  /\ worker[w] = "unused"
  /\ worker' = [worker EXCEPT ![w] = "testing"]
  /\ UNCHANGED <<task_queue, task, job, notifying, termination_flag, managerVars, ownerVars>>

\* terminate_worker: never more than there are.
MutMayTerminate == TRUE             \* does not compare with the workers left
MayTerminate == Cardinality(threads_map) > termination_flag

TerminateWorker ==
  /\ ~ destroying /\ MutexFree /\ MayTerminate
  /\ termination_flag' = (termination_flag + 1) % (MaxFlag + 1)
  /\ \E S \in Woken(1) : Wake(S)
  /\ UNCHANGED <<task_queue, task, job, notifying, managerVars, ownerVars>>

-----------------------------------------------------------------------------
(* The workers.                                                            *)

MutTold == TRUE                      \* takes every wake-up for a termination
Told == termination_flag > 0

Wait(w) ==
  /\ worker[w] = "testing" /\ MutexFree
  /\ task_queue = <<>> /\ ~ Told
  /\ worker' = [worker EXCEPT ![w] = "waiting"]
  /\ UNCHANGED <<task_queue, task, job, notifying, termination_flag, managerVars, ownerVars>>

\* try_pop.
Pop(w) ==
  /\ worker[w] = "testing" /\ MutexFree /\ ~ Told
  /\ task_queue # <<>>
  /\ task_queue' = Popped(task_queue)
  /\ task' = [task EXCEPT ![Head(task_queue)] = "running"]
  /\ job' = [job EXCEPT ![w] = {Head(task_queue)}]
  /\ worker' = [worker EXCEPT ![w] = "busy"]
  /\ UNCHANGED <<notifying, termination_flag, managerVars, ownerVars>>

Finish(w) ==
  /\ worker[w] = "busy"
  /\ task' = [t \in Tasks |-> IF t \in job[w] THEN "done" ELSE task[t]]
  /\ job' = [job EXCEPT ![w] = {}]
  /\ worker' = [worker EXCEPT ![w] = "testing"]
  /\ UNCHANGED <<task_queue, notifying, termination_flag, managerVars, ownerVars>>

\* Termination comes before the tasks that are queued.
Leave(w) ==
  /\ worker[w] = "testing" /\ MutexFree /\ Told
  /\ termination_flag' = termination_flag - 1
  /\ worker' = [worker EXCEPT ![w] = "leaving"]
  /\ UNCHANGED <<task_queue, task, job, notifying, managerVars, ownerVars>>

WokenManager == IF manager = "asleep" THEN "testing" ELSE manager

QueueForDisposal(w) ==
  /\ worker[w] = "leaving"
  /\ manager # "falling"
  /\ worker' = [worker EXCEPT ![w] = "queued"]
  /\ targets' = Append(targets, w)
  /\ manager' = WokenManager
  /\ UNCHANGED <<task_queue, task, job, notifying, termination_flag, target, ownerVars>>

End(w) ==
  /\ worker[w] = "queued"
  /\ worker' = [worker EXCEPT ![w] = "ended"]
  /\ UNCHANGED <<task_queue, task, job, notifying, termination_flag, managerVars, ownerVars>>

Work(w) == Wait(w) \/ Pop(w) \/ Finish(w) \/ Leave(w) \/ QueueForDisposal(w) \/ End(w)

\* A condition variable may wake up without a notification.
WakeSpuriously(w) ==
  /\ worker[w] = "waiting"
  /\ Wake({w})
  /\ UNCHANGED <<task_queue, task, job, notifying, termination_flag, managerVars, ownerVars>>

-----------------------------------------------------------------------------
(* The manager thread.                                                     *)

ManagerTest ==
  /\ manager = "testing"
  /\ IF is_terminated THEN manager' = "returned" /\ UNCHANGED <<targets, target>>
     ELSE IF targets = <<>> THEN manager' = "falling" /\ UNCHANGED <<targets, target>>
     ELSE /\ manager' = "joining"
          /\ target' = {Head(targets)}
          /\ targets' = Tail(targets)
  /\ UNCHANGED <<poolVars, ownerVars>>

ManagerSleep ==
  /\ manager = "falling"
  /\ manager' = "asleep"
  /\ UNCHANGED <<poolVars, targets, target, ownerVars>>

\* join() of the target, and its deletion.
ManagerJoins ==
  /\ manager = "joining"
  /\ \A w \in target : worker[w] = "ended"
  /\ worker' = [w \in Workers |-> IF w \in target THEN "joined" ELSE worker[w]]
  /\ target' = {}
  /\ manager' = "testing"
  /\ UNCHANGED <<task_queue, task, job, notifying, termination_flag, targets, ownerVars>>

Manage == ManagerTest \/ ManagerSleep \/ ManagerJoins

-----------------------------------------------------------------------------
(* terminate_all_workers and the destructor.                               *)

MutAllWoken == Woken(1)              \* notify_one for notify_all
AllWoken == Woken(Cardinality(Workers))

\* destroy: the call is the destructor's.  With no workers it returns at once.
TerminateAll(destroy) ==
  /\ owner = "alive" /\ MutexFree
  /\ destroy \/ cleanups < MaxReuse
  /\ destroy => notifying = 0
  /\ destroying' = destroy
  /\ IF threads_map = {}
     THEN /\ owner' = IF destroy THEN "flush" ELSE "alive"
          /\ UNCHANGED <<worker, termination_flag, is_cleaning_up>>
     ELSE /\ is_cleaning_up' = TRUE
          /\ termination_flag' = MaxFlag
          /\ \E S \in AllWoken : Wake(S)
          /\ owner' = "polling"
  /\ UNCHANGED <<task_queue, task, job, notifying, managerVars, is_terminated, cleanups>>

\* The poll of threads_map, without the mutex.
PolledEmpty ==
  /\ owner = "polling" /\ threads_map = {}
  /\ owner' = "reset"
  /\ UNCHANGED <<poolVars, managerVars, is_cleaning_up, is_terminated, destroying, cleanups>>

MutFlagAfter == termination_flag     \* leaves what is left of the 255
FlagAfter == 0

ResetFlag ==
  /\ owner = "reset"
  /\ termination_flag' = FlagAfter
  /\ owner' = "clean"
  /\ UNCHANGED <<task_queue, task, worker, job, notifying, managerVars, is_cleaning_up,
                 is_terminated, destroying, cleanups>>

EndCleanup ==
  /\ owner = "clean"
  /\ is_cleaning_up' = FALSE
  /\ owner' = IF destroying THEN "flush" ELSE "alive"
  /\ cleanups' = cleanups + 1
  /\ UNCHANGED <<poolVars, managerVars, is_terminated, destroying>>

\* ManagerThread::join, all of it without the manager's mutex: notify, and poll
\* disposal_targets until there are none ...
MutNoneLeft == TRUE                  \* does not poll
NoneLeft == targets = <<>>

Flushed ==
  /\ owner = "flush" /\ NoneLeft
  /\ owner' = "terminate"
  /\ UNCHANGED <<poolVars, managerVars, is_cleaning_up, is_terminated, destroying, cleanups>>

\* ... then set is_terminated ...
TerminateManager ==
  /\ owner = "terminate"
  /\ is_terminated' = TRUE
  /\ owner' = "notify"
  /\ UNCHANGED <<poolVars, managerVars, is_cleaning_up, destroying, cleanups>>

\* ... and notify and join the thread.
NotifyManager ==
  /\ owner = "notify"
  /\ manager' = WokenManager
  /\ owner' = "join"
  /\ UNCHANGED <<poolVars, targets, target, is_cleaning_up, is_terminated, destroying, cleanups>>

JoinManager ==
  /\ owner = "join" /\ manager = "returned"
  /\ owner' = "gone"
  /\ UNCHANGED <<poolVars, managerVars, is_cleaning_up, is_terminated, destroying, cleanups>>

OwnerStep == \/ PolledEmpty \/ ResetFlag \/ EndCleanup
             \/ Flushed \/ TerminateManager \/ NotifyManager \/ JoinManager

Next ==
  \/ \E t \in Tasks : QueueTask(t)
  \/ Notify \/ QueueGroup \/ TerminateWorker
  \/ \E w \in Workers : Allocate(w) \/ Work(w) \/ WakeSpuriously(w)
  \/ Manage
  \/ \E destroy \in BOOLEAN : TerminateAll(destroy)
  \/ OwnerStep

\* Threads that can run do run; nobody has to call the pool.
Fairness ==
  /\ \A w \in Workers : WF_vars(Work(w))
  /\ WF_vars(Manage) /\ WF_vars(OwnerStep) /\ WF_vars(Notify)

Spec == Init /\ [][Next]_vars
FairSpec == Spec /\ Fairness

-----------------------------------------------------------------------------
\* Outside a cleanup no more workers are told to terminate than there are, so
\* that a worker allocated later is not killed by an old request.
FlagCovered ==
  ~ is_cleaning_up => termination_flag <= Cardinality(threads_map)

\* The vector is a heap of the tasks that wait, each once, and a worker takes one that no
\* waiting task comes before.
HeapHoldsQueue ==
  /\ IsHeap(task_queue)
  /\ Len(task_queue) = Cardinality(ToSet(task_queue))
  /\ ToSet(task_queue) = { t \in Tasks : task[t] = "queued" }

MostUrgentFirst ==
  [][ \A t, u \in Tasks : task[t] = "queued" /\ task'[t] = "running"
        => ~ (task[u] = "queued" /\ Before(u, t)) ]_vars

\* While work or a termination waits and every worker sleeps, a notification is
\* on its way.
SomebodyWakes ==
  /\ threads_map # {} /\ In({"testing", "busy", "leaving", "queued"}) = {}
  /\ task_queue # <<>> \/ termination_flag > 0
  => notifying > 0

\* When the pool is gone at most one of its workers is left that nobody joins:
\* the last to leave, erased from threads_map, overtakes the poll for
\* disposal_targets before it has handed itself to the manager.
AtMostOneOvertakes ==
  owner = "gone" =>
    \A v, w \in Workers \ In({"unused", "joined"}) : v = w

\* A queued task is run, unless the workers are told to go.
TasksRun == \A t \in Tasks :
  task[t] = "queued" ~> (task[t] = "done" \/ threads_map = {} \/ is_cleaning_up)

\* terminate_all_workers returns, whatever the workers were doing.
CleanupEnds == owner = "polling" ~> owner # "polling"
=============================================================================
