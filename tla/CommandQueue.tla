---------------------------- MODULE CommandQueue ----------------------------
(***************************************************************************)
(* CommandQueue (command_queue.h): client threads push tasks on a queue;   *)
(* one server thread pops them in order and runs them, waiting on a        *)
(* condition variable when there are none.  conditional_mutex is held      *)
(* across two steps in one place only, between the server's test of the    *)
(* wait predicate and its going to sleep (server = "falling"); every other *)
(* critical section is one action.  What does not take the mutex is not    *)
(* held up by it: the notification of a push, and all of the destructor.   *)
(***************************************************************************)
EXTENDS Naturals, Sequences

CONSTANTS Clients,
          Jobs,       \* what a task does
          Values,     \* what a task's future can hold, an exception included
          None,       \* no value
          MaxTasks    \* bound: tasks pushed

ASSUME QueueAssumption == None \notin Values /\ None \notin Jobs /\ MaxTasks \in Nat

Task == [client : Clients, job : Jobs, sync : BOOLEAN, ticket : Nat]

VARIABLES
  task_queue,     \* tasks pushed and not popped
  server,         \* "testing", "falling" asleep, "asleep", "running" or "returned"
  current,        \* the tasks popped and not yet run: none or one
  is_terminated,
  owner,          \* destructor: "alive", "notify", "join" or "gone"
  client,         \* client -> "idle", "notify" (has pushed) or "waiting"
  frame,          \* client -> the job of the sync() it is inside, or None
  future,         \* client -> the value of the sync() it waits for, or None
  pushed, run     \* number of tasks pushed and of tasks run

qvars == <<task_queue, server, current, is_terminated, owner, client, frame,
           future, pushed, run>>

QTypeOK ==
  /\ task_queue \in Seq(Task)
  /\ server \in {"testing", "falling", "asleep", "running", "returned"}
  /\ current \in Seq(Task)
  /\ is_terminated \in BOOLEAN
  /\ owner \in {"alive", "notify", "join", "gone"}
  /\ client \in [Clients -> {"idle", "notify", "waiting"}]
  /\ frame \in [Clients -> Jobs \cup {None}]
  /\ future \in [Clients -> Values \cup {None}]
  /\ pushed \in Nat /\ run \in Nat

QInit ==
  /\ task_queue = <<>>
  /\ server = "testing"
  /\ current = <<>>
  /\ is_terminated = FALSE
  /\ owner = "alive"
  /\ client = [c \in Clients |-> "idle"]
  /\ frame = [c \in Clients |-> None]
  /\ future = [c \in Clients |-> None]
  /\ pushed = 0 /\ run = 0

-----------------------------------------------------------------------------
(* The clients.                                                            *)

MutEnqueue(q, t) == <<t>> \o q       \* pushes at the wrong end
Enqueue(q, t) == Append(q, t)

\* dispatch_internal, under the mutex.  s: the caller is sync() and will wait.
Push(c, j, s) ==
  /\ client[c] = "idle"
  /\ owner = "alive"
  /\ server # "falling"
  /\ pushed < MaxTasks
  /\ task_queue' = Enqueue(task_queue,
                     [client |-> c, job |-> j, sync |-> s, ticket |-> pushed + 1])
  /\ pushed' = pushed + 1
  /\ client' = [client EXCEPT ![c] = "notify"]
  /\ frame' = [frame EXCEPT ![c] = IF s THEN j ELSE None]
  /\ UNCHANGED <<server, current, is_terminated, owner, future, run>>

MutWoken(s) == s                     \* a notification that is not sent
Woken(s) == IF s = "asleep" THEN "testing" ELSE s

\* notify_one, the mutex released.
Notify(c) ==
  /\ client[c] = "notify"
  /\ server' = Woken(server)
  /\ client' = [client EXCEPT ![c] = IF frame[c] = None THEN "idle" ELSE "waiting"]
  /\ UNCHANGED <<task_queue, current, is_terminated, owner, frame, future, pushed, run>>

\* The future of sync() is ready: its value is returned, its exception rethrown.
Resume(c) ==
  /\ client[c] = "waiting"
  /\ future[c] # None
  /\ client' = [client EXCEPT ![c] = "idle"]
  /\ future' = [future EXCEPT ![c] = None]
  /\ frame' = [frame EXCEPT ![c] = None]
  /\ UNCHANGED <<task_queue, server, current, is_terminated, owner, pushed, run>>

-----------------------------------------------------------------------------
(* The server thread.                                                      *)

MayProceed == task_queue # <<>> \/ is_terminated

\* The predicate of the wait is false: the mutex stays held until Sleep.
Fall ==
  /\ server = "testing" /\ ~ MayProceed
  /\ server' = "falling"
  /\ UNCHANGED <<task_queue, current, is_terminated, owner, client, frame, future, pushed, run>>

Sleep ==
  /\ server = "falling"
  /\ server' = "asleep"
  /\ UNCHANGED <<task_queue, current, is_terminated, owner, client, frame, future, pushed, run>>

\* A condition variable may wake up without a notification.
WakeSpuriously ==
  /\ server = "asleep"
  /\ server' = "testing"
  /\ UNCHANGED <<task_queue, current, is_terminated, owner, client, frame, future, pushed, run>>

MutRest == task_queue                \* front() without pop()
Rest == Tail(task_queue)

Pop ==
  /\ server = "testing" /\ MayProceed /\ ~ is_terminated
  /\ server' = "running"
  /\ current' = <<Head(task_queue)>>
  /\ task_queue' = Rest
  /\ UNCHANGED <<is_terminated, owner, client, frame, future, pushed, run>>

\* func(): a packaged task never throws, its value or exception v goes to the
\* future, which only a sync() has kept.
Run(v) ==
  /\ server = "running"
  /\ future' = IF Head(current).sync THEN [future EXCEPT ![Head(current).client] = v]
                                     ELSE future
  /\ current' = <<>>
  /\ run' = run + 1
  /\ server' = "testing"
  /\ UNCHANGED <<task_queue, is_terminated, owner, client, frame, pushed>>

\* The tasks still queued are never run.
ReturnOnTermination ==
  /\ server = "testing" /\ is_terminated
  /\ server' = "returned"
  /\ UNCHANGED <<task_queue, current, is_terminated, owner, client, frame, future, pushed, run>>

-----------------------------------------------------------------------------
(* The destructor, when no client is inside a call.                        *)

Terminate ==
  /\ owner = "alive"
  /\ \A c \in Clients : client[c] = "idle"
  /\ is_terminated' = TRUE
  /\ owner' = "notify"
  /\ UNCHANGED <<task_queue, server, current, client, frame, future, pushed, run>>

NotifyAll ==
  /\ owner = "notify"
  /\ server' = Woken(server)
  /\ owner' = "join"
  /\ UNCHANGED <<task_queue, current, is_terminated, client, frame, future, pushed, run>>

\* ManagedThread::join, of a thread that was started and not joined yet: a thread that
\* joins itself returns at once, any other waits.
JoinReturns(caller) == caller = "server" \/ server = "returned"

\* No task of the handler keeps the queue alive: the destructor never runs on the
\* server, always on a thread of the queue's owner.
Join ==
  /\ owner = "join" /\ JoinReturns("owner")
  /\ owner' = "gone"
  /\ UNCHANGED <<task_queue, server, current, is_terminated, client, frame, future, pushed, run>>

-----------------------------------------------------------------------------
ClientStep(c) == Notify(c) \/ Resume(c)
ServerWait == Fall \/ Sleep \/ Pop \/ ReturnOnTermination
Destroy == Terminate \/ NotifyAll \/ Join

QNext ==
  \/ \E c \in Clients : ClientStep(c) \/ \E j \in Jobs, s \in BOOLEAN : Push(c, j, s)
  \/ ServerWait \/ WakeSpuriously \/ \E v \in Values : Run(v)
  \/ Destroy

QSpec == QInit /\ [][QNext]_qvars

-----------------------------------------------------------------------------
\* A server that sleeps while there is work will be notified: the client that
\* pushed it has not reached its notify_one yet.
WakeupPending ==
  server = "asleep" /\ task_queue # <<>> => \E c \in Clients : client[c] = "notify"

\* Tasks run one at a time, each once, in the order they were pushed.
InOrder ==
  server = "running" => Len(current) = 1 /\ Head(current).ticket = run + 1
=============================================================================
