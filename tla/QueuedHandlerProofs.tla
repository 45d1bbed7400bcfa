------------------------ MODULE QueuedHandlerProofs ------------------------
(***************************************************************************)
(* QueuedHandler for any number of clients and hosts.  First the command   *)
(* queue alone: its types, that no wakeup of a push is lost, and that      *)
(* tasks run in order, each once.  Then the handler: it is a use of the    *)
(* queue, so that what is proved of the queue holds of it, its map never   *)
(* points to released code, and it implements CompileCache.                *)
(***************************************************************************)
EXTENDS QueuedHandler, SequenceTheorems, TLAPS

(* The command queue, whose specification is QSpec.                        *)

(* Between the pop and the end of a task the server runs it, and only then.*)
CurrentInv ==
  /\ server = "running" => Len(current) = 1
  /\ server # "running" => current = <<>>

(* The task that runs, and those queued behind it, carry the next tickets. *)
TicketInv ==
  /\ pushed = run + Len(current) + Len(task_queue)
  /\ server = "running" => Head(current).ticket = run + 1
  /\ \A i \in 1 .. Len(task_queue) : task_queue[i].ticket = run + Len(current) + i

(* The server is past the wait only with the wait's predicate as it was:   *)
(* while it holds the mutex nobody can push.                               *)
FallInv == server = "falling" => task_queue = <<>>

QInv == QTypeOK /\ CurrentInv /\ TicketInv /\ FallInv /\ WakeupPending

LEMMA InitQInv == QInit => QInv
<1> SUFFICES ASSUME QInit PROVE QInv
  OBVIOUS
<1>1. QTypeOK /\ CurrentInv /\ FallInv /\ WakeupPending
  BY EmptySeq DEF QInit, QTypeOK, CurrentInv, FallInv, WakeupPending
<1>2. TicketInv
  <2>1. Len(task_queue) = 0 /\ Len(current) = 0 /\ run = 0 /\ pushed = 0
    BY DEF QInit
  <2>2. server # "running"
    BY DEF QInit
  <2> QED
    BY <2>1, <2>2 DEF TicketInv
<1> QED
  BY <1>1, <1>2 DEF QInv

LEMMA PushInv ==
  ASSUME QInv, NEW c \in Clients, NEW j \in Jobs, NEW s \in BOOLEAN, Push(c, j, s)
  PROVE  QInv'
<1> DEFINE t == [client |-> c, job |-> j, sync |-> s, ticket |-> pushed + 1]
<1> USE DEF QInv
<1>1. t \in Task
  BY DEF Task, QTypeOK
<1>2. task_queue' = Append(task_queue, t)
  BY DEF Push, Enqueue
<1>3. /\ task_queue' \in Seq(Task) /\ Len(task_queue') = Len(task_queue) + 1
      /\ \A i \in 1 .. Len(task_queue) : task_queue'[i] = task_queue[i]
      /\ task_queue'[Len(task_queue) + 1] = t
  BY <1>1, <1>2 DEF QTypeOK
<1>4. QTypeOK'
  BY <1>3 DEF Push, QTypeOK
<1>5. CurrentInv'
  BY DEF Push, CurrentInv
<1>6. TicketInv'
  <2>1. t.ticket = run + Len(current) + (Len(task_queue) + 1)
    BY DEF TicketInv, QTypeOK
  <2>2. \A i \in 1 .. Len(task_queue') : task_queue'[i].ticket = run + Len(current) + i
    <3> SUFFICES ASSUME NEW i \in 1 .. Len(task_queue')
                 PROVE  task_queue'[i].ticket = run + Len(current) + i
      OBVIOUS
    <3>1. Len(task_queue) \in Nat
      BY DEF QTypeOK
    <3>2. i \in 1 .. Len(task_queue) \/ i = Len(task_queue) + 1
      BY <1>3, <3>1
    <3>3. CASE i \in 1 .. Len(task_queue)
      BY <1>3, <3>3 DEF TicketInv
    <3>4. CASE i = Len(task_queue) + 1
      BY <1>3, <2>1, <3>4
    <3> QED
      BY <3>2, <3>3, <3>4
  <2>3. pushed' = run + Len(current) + Len(task_queue')
    BY <1>3 DEF Push, TicketInv, QTypeOK
  <2> QED
    BY <2>2, <2>3 DEF Push, TicketInv
<1>7. FallInv' /\ WakeupPending'
  BY DEF Push, FallInv, WakeupPending, QTypeOK
<1> QED
  BY <1>4, <1>5, <1>6, <1>7

LEMMA PopInv == ASSUME QInv, Pop PROVE QInv'
<1> USE DEF QInv
<1>1. task_queue \in Seq(Task) /\ task_queue # <<>> /\ current = <<>>
  BY DEF Pop, MayProceed, QTypeOK, CurrentInv
<1>2. /\ Head(task_queue) \in Task /\ Head(task_queue) = task_queue[1]
      /\ task_queue' \in Seq(Task) /\ Len(task_queue') = Len(task_queue) - 1
      /\ \A i \in 1 .. Len(task_queue') : task_queue'[i] = task_queue[i + 1]
  BY <1>1 DEF Pop, Rest
<1>3. current' \in Seq(Task) /\ Len(current') = 1 /\ Head(current') = task_queue[1]
  BY <1>2 DEF Pop
<1>4. QTypeOK'
  BY <1>2, <1>3 DEF Pop, QTypeOK
<1>5. CurrentInv' /\ FallInv' /\ WakeupPending'
  BY <1>3 DEF Pop, CurrentInv, FallInv, WakeupPending
<1>6. TicketInv'
  <2>1. Len(current) = 0 /\ 1 \in 1 .. Len(task_queue) /\ Len(task_queue) \in Nat /\ run \in Nat
    BY <1>1 DEF QTypeOK
  <2>2. \A i \in 1 .. Len(task_queue') : i + 1 \in 1 .. Len(task_queue)
    BY <1>2, <2>1
  <2>3. UNCHANGED <<run, pushed>>
    BY DEF Pop
  <2>4. pushed' = run' + Len(current') + Len(task_queue')
    BY <1>2, <1>3, <2>1, <2>3 DEF TicketInv
  <2>5. Head(current').ticket = run' + 1
    BY <1>3, <2>1, <2>3 DEF TicketInv
  <2>6. ASSUME NEW i \in 1 .. Len(task_queue')
        PROVE  task_queue'[i].ticket = run' + Len(current') + i
    <3>1. task_queue[i + 1].ticket = run + 0 + (i + 1)
      BY <2>1, <2>2 DEF TicketInv
    <3> QED
      BY <1>2, <1>3, <2>1, <2>3, <3>1
  <2> QED
    BY <2>4, <2>5, <2>6 DEF TicketInv
<1> QED
  BY <1>4, <1>5, <1>6

LEMMA RunInv == ASSUME QInv, NEW v \in Values, Run(v) PROVE QInv'
<1> USE DEF QInv
<1>1. Head(current) \in Task
  <2>1. current \in Seq(Task) /\ Len(current) = 1
    BY DEF Run, QTypeOK, CurrentInv
  <2>2. current # <<>>
    BY <2>1, EmptySeq
  <2> QED
    BY <2>1, <2>2
<1>2. QTypeOK'
  BY <1>1 DEF Run, QTypeOK, Task
<1>3. CurrentInv' /\ FallInv' /\ WakeupPending'
  BY DEF Run, CurrentInv, FallInv, WakeupPending
<1>4. TicketInv'
  <2>1. Len(current) = 1 /\ Len(current') = 0 /\ run' = run + 1
        /\ UNCHANGED <<task_queue, pushed>> /\ server' # "running"
    BY DEF Run, CurrentInv
  <2>2. run \in Nat /\ Len(task_queue) \in Nat
    BY DEF QTypeOK
  <2>3. ASSUME NEW i \in 1 .. Len(task_queue)
        PROVE  task_queue[i].ticket = (run + 1) + 0 + i
    <3>1. task_queue[i].ticket = run + 1 + i
      BY <2>1 DEF TicketInv
    <3> QED
      BY <2>2, <3>1
  <2>4. pushed = (run + 1) + 0 + Len(task_queue)
    BY <2>1, <2>2 DEF TicketInv
  <2> QED
    BY <2>1, <2>3, <2>4 DEF TicketInv
<1> QED
  BY <1>2, <1>3, <1>4

LEMMA Inductive == QInv /\ [QNext]_qvars => QInv'
<1> SUFFICES ASSUME QInv, [QNext]_qvars PROVE QInv'
  OBVIOUS
<1>1. ASSUME NEW c \in Clients, Notify(c) \/ Resume(c) PROVE QInv'
  BY <1>1 DEF Notify, Resume, Woken, QInv, QTypeOK, CurrentInv, TicketInv, FallInv,
              WakeupPending
<1>2. CASE Fall \/ Sleep \/ WakeSpuriously \/ ReturnOnTermination
  BY <1>2 DEF Fall, Sleep, WakeSpuriously, ReturnOnTermination, MayProceed, QInv, QTypeOK,
              CurrentInv, TicketInv, FallInv, WakeupPending
<1>3. CASE Terminate \/ NotifyAll \/ Join
  BY <1>3 DEF Terminate, NotifyAll, Join, JoinReturns, Woken, QInv, QTypeOK, CurrentInv,
              TicketInv, FallInv, WakeupPending
<1>4. CASE UNCHANGED qvars
  BY <1>4 DEF qvars, QInv, QTypeOK, CurrentInv, TicketInv, FallInv, WakeupPending
<1> QED
  BY <1>1, <1>2, <1>3, <1>4, PushInv, PopInv, RunInv
     DEF QNext, ClientStep, ServerWait, Destroy

THEOREM Invariant == QSpec => []QInv
  BY InitQInv, Inductive, PTL DEF QSpec

\* The notification of dispatch_internal, sent after the mutex is released,
\* never misses the server: it sleeps on a non-empty queue only while the
\* client that pushed is still about to notify it.
THEOREM NoLostWakeup == QSpec => []WakeupPending
<1>1. QInv => WakeupPending
  BY DEF QInv
<1> QED
  BY <1>1, Invariant, PTL

\* Every task is run once, in the order of the pushes, one at a time.
THEOREM RunsInOrder == QSpec => []InOrder
<1>1. QInv => InOrder
  BY DEF QInv, CurrentInv, TicketInv, InOrder
<1> QED
  BY <1>1, Invariant, PTL
-----------------------------------------------------------------------------
(* The handler.                                                            *)

(* There are no more compilations than tasks run, and no more than pushed. *)
SerialInv == serial \in Nat /\ serial <= run /\ pushed <= MaxTasks

HTypeOK == function_map \in [Hosts -> Code \cup {None}] /\ runtime \subseteq Code

HInv == QInv /\ HTypeOK /\ SerialInv /\ EntriesLive

hvars == <<function_map, runtime, serial>>

LEMMA InitHInv == Init => HInv
  BY InitQInv, QueueAssumption
     DEF Init, HInv, HTypeOK, SerialInv, EntriesLive, Compiled, QInit

\* What runs is a task, and its job one of Jobs.
LEMMA RunningTask ==
  ASSUME QInv, server = "running"
  PROVE  Head(current) \in Task /\ Head(current).client \in Clients
<1>1. current \in Seq(Task) /\ Len(current) = 1
  BY DEF QInv, QTypeOK, CurrentInv
<1>2. current # <<>>
  BY <1>1, EmptySeq
<1>3. Head(current) \in Task
  BY <1>1, <1>2
<1> QED
  BY <1>3 DEF Task

LEMMA RunningJob ==
  ASSUME QInv, server = "running"
  PROVE  job \in Job /\ job.host \in Hosts
  BY RunningTask, HandlerAssumption DEF Task, job, Job

\* A task that is yet to run leaves a serial number for what it compiles.
LEMMA RunningSerial ==
  ASSUME HInv, server = "running"
  PROVE  serial \in Nat /\ serial <= MaxTasks
<1>1. Len(current) = 1 /\ Len(task_queue) \in Nat
  BY DEF HInv, QInv, CurrentInv, QTypeOK
<1>2. pushed = run + Len(current) + Len(task_queue) /\ run \in Nat /\ pushed \in Nat
  BY DEF HInv, QInv, QTypeOK, TicketInv
<1> QED
  BY <1>1, <1>2, QueueAssumption DEF HInv, SerialInv

\* Every job gives its future a value: the step of the queue is Run.
LEMMA JobRuns ==
  ASSUME HInv, RunJob
  PROVE  /\ \E v \in Values : Run(v)
         /\ HTypeOK' /\ SerialInv' /\ EntriesLive'
<1>1. server = "running" /\ job \in Job /\ job.host \in Hosts
  BY RunningJob DEF RunJob, HInv
<1>2. run \in Nat /\ pushed \in Nat /\ serial \in Nat /\ MaxTasks \in Nat
  BY QueueAssumption DEF HInv, QInv, QTypeOK, SerialInv
<1>3. serial \in 0 .. MaxTasks /\ serial + 1 <= run + 1
  BY <1>1, <1>2, RunningSerial DEF HInv, SerialInv
<1> DEFINE k == [host |-> job.host, serial |-> serial]
<1>4. k \in Code /\ k.host = job.host
  BY <1>1, <1>3 DEF Code
<1>5. None \notin Code
  BY QueueAssumption, HandlerAssumption DEF Value
<1>6. CASE IsCompiled \/ GetHit \/ GetMiss \/ RecompileFails \/ RegisterHeat
  <2>1. UNCHANGED hvars /\ \E v \in Value : Run(v)
    BY <1>1, <1>6 DEF IsCompiled, GetHit, GetMiss, RecompileFails, RegisterHeat, hvars,
                      Value, Found, Compiled, HInv, HTypeOK
  <2>2. run' = run + 1 /\ pushed' = pushed
    BY <2>1 DEF Run
  <2> QED
    BY <1>2, <2>1, <2>2, HandlerAssumption
       DEF hvars, HInv, HTypeOK, SerialInv, EntriesLive, Compiled
<1>7. CASE Recompile
  <2>1. /\ Run(k) /\ serial' = serial + 1
        /\ function_map' = [function_map EXCEPT ![job.host] = k]
        /\ runtime' = runtime \cup {k}
    BY <1>7 DEF Recompile, Kept
  <2>2. run' = run + 1 /\ pushed' = pushed /\ k \in Values
    BY <1>4, <2>1, HandlerAssumption DEF Run, Value
  <2>3. SerialInv'
    BY <1>2, <1>3, <2>1, <2>2 DEF SerialInv, HInv
  <2> HIDE DEF k
  <2>4. HTypeOK' /\ EntriesLive'
    BY <1>1, <1>4, <1>5, <2>1 DEF HInv, HTypeOK, EntriesLive, Compiled
  <2> QED
    BY <2>1, <2>2, <2>3, <2>4
<1>8. CASE Remove
  <2>1. /\ \E v \in Value : Run(v)
        /\ serial' = serial
        /\ function_map' = [function_map EXCEPT ![job.host] = None]
        /\ runtime' = runtime \ {function_map[job.host]}
    BY <1>8 DEF Remove, Forgotten, Found, Value
  <2>2. run' = run + 1 /\ pushed' = pushed
    BY <2>1 DEF Run
  <2>3. SerialInv' /\ HTypeOK'
    BY <1>1, <1>2, <2>1, <2>2 DEF SerialInv, HInv, HTypeOK
  <2>4. ASSUME NEW h \in Hosts, function_map'[h] # None
        PROVE  function_map'[h] \in runtime' /\ function_map'[h].host = h
    <3>1. h # job.host /\ function_map'[h] = function_map[h]
      BY <1>1, <2>1, <2>4 DEF HInv, HTypeOK
    <3>2. function_map[h] \in runtime /\ function_map[h].host = h
      BY <2>4, <3>1 DEF HInv, EntriesLive, Compiled
    <3>3. function_map[job.host] # None => function_map[job.host].host = job.host
      BY <1>1 DEF HInv, EntriesLive, Compiled
    <3> QED
      BY <2>1, <2>4, <3>1, <3>2, <3>3
  <2> QED
    BY <2>1, <2>3, <2>4, HandlerAssumption DEF EntriesLive, Compiled
<1> QED
  BY <1>6, <1>7, <1>8 DEF RunJob

LEMMA HStep == HInv /\ [Next]_vars => HInv' /\ [QNext]_qvars
<1> SUFFICES ASSUME HInv, [Next]_vars PROVE HInv' /\ [QNext]_qvars
  OBVIOUS
<1>1. CASE RunJob
  <2>1. PICK v \in Values : Run(v)
    BY <1>1, JobRuns
  <2> QED
    BY <1>1, <2>1, JobRuns, RunInv DEF HInv, QNext
<1>2. CASE UNCHANGED hvars /\ [QNext]_qvars /\ (run' = run) /\ (pushed' <= MaxTasks)
  BY <1>2, Inductive DEF HInv, hvars, HTypeOK, SerialInv, EntriesLive, Compiled
<1>3. ASSUME NEW c \in Clients, Call(c) PROVE HInv' /\ [QNext]_qvars
  <2>1. PICK j \in Jobs : Quiet(Push(c, j, j.op # "register_heat"))
    BY <1>3 DEF Call
  <2>2. PICK s \in BOOLEAN : Push(c, j, s)
    BY <2>1 DEF Quiet
  <2>3. pushed' <= MaxTasks /\ run' = run
    BY <2>2, QueueAssumption DEF Push, HInv, QInv, QTypeOK
  <2> QED
    BY <1>2, <2>1, <2>2, <2>3 DEF Quiet, hvars, QNext
<1>4. CASE \/ Quiet(ServerWait) \/ Quiet(WakeSpuriously) \/ Quiet(Destroy)
           \/ \E c \in Clients : Quiet(ClientStep(c))
  <2>1. UNCHANGED hvars /\ QNext
    BY <1>4 DEF Quiet, hvars, QNext
  <2>2. run' = run /\ pushed' = pushed
    BY <1>4 DEF Quiet, ServerWait, Fall, Sleep, Pop, ReturnOnTermination, WakeSpuriously,
                Destroy, Terminate, NotifyAll, Join, ClientStep, Notify, Resume
  <2> QED
    BY <1>2, <2>1, <2>2 DEF HInv, SerialInv
<1>5. CASE UNCHANGED vars
  BY <1>2, <1>5 DEF vars, hvars, qvars, HInv, SerialInv
<1> QED
  BY <1>1, <1>3, <1>4, <1>5 DEF Next

THEOREM HandlerInvariant == Spec => []HInv
  BY InitHInv, HStep, PTL DEF Spec

\* The handler uses the queue as the queue is specified, so that the theorems
\* above about the queue are theorems about the handler.
THEOREM UsesQueue == Spec => QSpec
<1>1. Init => QInit
  BY DEF Init
<1> QED
  BY <1>1, InitHInv, HStep, PTL DEF Spec, QSpec

\* No wakeup of the server is lost under the handler's calls.
THEOREM HandlerNoLostWakeup == Spec => []WakeupPending
  BY UsesQueue, NoLostWakeup, PTL

\* The map of the queued handler never holds released code, because removal
\* releases and erases in one task of the only thread that touches either.
THEOREM NoReleasedEntry == Spec => []EntriesLive
<1>1. HInv => EntriesLive
  BY DEF HInv
<1> QED
  BY <1>1, HandlerInvariant, PTL

\* The variables keep their types: the map holds code or nothing, whatever the clients call.
THEOREM HandlerTypeCorrect == Spec => []TypeOK
<1>1. HInv => TypeOK
  BY DEF HInv, QInv, HTypeOK, SerialInv, TypeOK
<1> QED
  BY <1>1, HandlerInvariant, PTL

-----------------------------------------------------------------------------
(* The refinement. A sync() task stands for one call that is waiting, and  *)
(* no other task does for the same call.                                   *)

Pending(t) ==
  /\ t.sync <=> t.job.op # "register_heat"
  /\ t.sync => client[t.client] # "idle" /\ frame[t.client] = t.job /\ future[t.client] = None

Apart(t, u) == ~ (t.sync /\ u.sync /\ t.client = u.client)

SyncInv ==
  /\ \A c \in Clients : /\ client[c] = "idle" => frame[c] = None
                        /\ frame[c] = None => future[c] = None
  /\ \A i \in 1 .. Len(task_queue) : Pending(task_queue[i])
  /\ \A i, j \in 1 .. Len(task_queue) : i # j => Apart(task_queue[i], task_queue[j])
  /\ server = "running" =>
       /\ Pending(Head(current))
       /\ \A i \in 1 .. Len(task_queue) : Apart(Head(current), task_queue[i])

LEMMA InitSyncInv == Init => SyncInv
<1> SUFFICES ASSUME Init PROVE SyncInv
  OBVIOUS
<1>1. Len(task_queue) = 0 /\ server # "running"
  BY DEF Init, QInit
<1>2. \A c \in Clients : frame[c] = None /\ future[c] = None
  BY DEF Init, QInit
<1> QED
  BY <1>1, <1>2 DEF SyncInv

\* What is pending after a step.
PendingNext(t) ==
  /\ t.sync <=> t.job.op # "register_heat"
  /\ t.sync => client'[t.client] # "idle" /\ frame'[t.client] = t.job /\ future'[t.client] = None

LEMMA SyncCall ==
  ASSUME HInv, SyncInv, NEW c \in Clients, NEW j \in Jobs, Push(c, j, j.op # "register_heat")
  PROVE  SyncInv'
<1> DEFINE t == [client |-> c, job |-> j, sync |-> j.op # "register_heat", ticket |-> pushed + 1]
           n == Len(task_queue)
<1>1. task_queue \in Seq(Task) /\ n \in Nat
  BY DEF HInv, QInv, QTypeOK
<1>2. t \in Task
  BY DEF Task, HInv, QInv, QTypeOK
<1>3. /\ Len(task_queue') = n + 1 /\ task_queue'[n + 1] = t
      /\ \A i \in 1 .. n : task_queue'[i] = task_queue[i]
  BY <1>1, <1>2 DEF Push, Enqueue
<1>4. \A i \in 1 .. n : task_queue[i].client \in Clients
  <2>1. \A i \in 1 .. n : task_queue[i] \in Task
    BY <1>1, ElementOfSeq
  <2> QED
    BY <2>1 DEF Task
<1>5. /\ client[c] = "idle" /\ UNCHANGED <<server, current, future>>
      /\ client' = [client EXCEPT ![c] = "notify"]
      /\ frame' = [frame EXCEPT ![c] = IF j.op # "register_heat" THEN j ELSE None]
  BY DEF Push
<1>6. /\ client \in [Clients -> {"idle", "notify", "waiting"}]
      /\ frame \in [Clients -> Jobs \cup {None}]
      /\ future[c] = None
  BY <1>5 DEF HInv, QInv, QTypeOK, SyncInv
<1>7. t.client = c /\ t.job = j /\ (t.sync <=> j.op # "register_heat")
  OBVIOUS
<1>8. PendingNext(t)
  BY <1>5, <1>6, <1>7 DEF PendingNext
<1>9. \A i \in 1 .. n : PendingNext(task_queue[i]) /\ ~ (task_queue[i].sync /\ task_queue[i].client = c)
  <2> SUFFICES ASSUME NEW i \in 1 .. n
               PROVE  PendingNext(task_queue[i]) /\ ~ (task_queue[i].sync /\ task_queue[i].client = c)
    OBVIOUS
  <2>1. Pending(task_queue[i]) /\ task_queue[i].client \in Clients
    BY <1>4 DEF SyncInv
  <2> QED
    BY <1>5, <1>6, <2>1 DEF Pending, PendingNext
<1>10. server = "running" => /\ PendingNext(Head(current))
                             /\ ~ (Head(current).sync /\ Head(current).client = c)
  <2> SUFFICES ASSUME server = "running"
               PROVE  PendingNext(Head(current)) /\ ~ (Head(current).sync /\ Head(current).client = c)
    OBVIOUS
  <2>1. Head(current).client \in Clients /\ Pending(Head(current))
    BY RunningTask DEF HInv, SyncInv
  <2> QED
    BY <1>5, <1>6, <2>1 DEF Pending, PendingNext
<1> HIDE DEF t
<1>11. \A i \in 1 .. Len(task_queue') : i \in 1 .. n \/ i = n + 1
  BY <1>1, <1>3
<1>12. \A i \in 1 .. Len(task_queue') : PendingNext(task_queue'[i])
  BY <1>3, <1>8, <1>9, <1>11
<1>13. \A i, k \in 1 .. Len(task_queue') : i # k => Apart(task_queue'[i], task_queue'[k])
  <2> SUFFICES ASSUME NEW i \in 1 .. Len(task_queue'), NEW k \in 1 .. Len(task_queue'), i # k
               PROVE  Apart(task_queue'[i], task_queue'[k])
    OBVIOUS
  <2>1. CASE i \in 1 .. n /\ k \in 1 .. n
    <3>1. Apart(task_queue[i], task_queue[k])
      BY <2>1 DEF SyncInv
    <3>2. task_queue'[i] = task_queue[i] /\ task_queue'[k] = task_queue[k]
      BY <1>3, <2>1
    <3> QED
      BY <3>1, <3>2 DEF Apart
  <2>2. CASE i = n + 1 /\ k \in 1 .. n
    BY <1>3, <1>7, <1>9, <2>2 DEF Apart
  <2>3. CASE i \in 1 .. n /\ k = n + 1
    BY <1>3, <1>7, <1>9, <2>3 DEF Apart
  <2> QED
    BY <1>11, <2>1, <2>2, <2>3
<1>14. server' = "running" =>
         /\ PendingNext(Head(current'))
         /\ \A i \in 1 .. Len(task_queue') : Apart(Head(current'), task_queue'[i])
  BY <1>3, <1>5, <1>7, <1>10, <1>11 DEF SyncInv, Apart
<1>15. \A d \in Clients : /\ client'[d] = "idle" => frame'[d] = None
                          /\ frame'[d] = None => future'[d] = None
  BY <1>5, <1>6 DEF SyncInv
<1> QED
  BY <1>12, <1>13, <1>14, <1>15 DEF SyncInv, Apart, Pending, PendingNext

LEMMA SyncNotify == ASSUME HInv, SyncInv, NEW c \in Clients, Notify(c) PROVE SyncInv'
<1>1. /\ client' = [client EXCEPT ![c] = IF frame[c] = None THEN "idle" ELSE "waiting"]
      /\ client[c] = "notify" /\ UNCHANGED <<task_queue, current, frame, future>>
      /\ server' = "running" => server = "running"
  BY DEF Notify, Woken
<1>2. /\ client \in [Clients -> {"idle", "notify", "waiting"}]
      /\ task_queue \in Seq(Task) /\ None \notin Jobs
  BY QueueAssumption DEF HInv, QInv, QTypeOK
<1>3. ASSUME NEW t \in Task, Pending(t) PROVE PendingNext(t)
  <2>1. t.client \in Clients /\ t.job \in Jobs
    BY DEF Task
  <2> QED
    BY <1>1, <1>2, <1>3, <2>1 DEF Pending, PendingNext
<1>4. server = "running" => PendingNext(Head(current))
  BY <1>3, RunningTask DEF SyncInv, HInv
<1>5. \A i \in 1 .. Len(task_queue) : PendingNext(task_queue[i])
  BY <1>2, <1>3, ElementOfSeq DEF SyncInv
<1>6. \A d \in Clients : /\ client'[d] = "idle" => frame'[d] = None
                         /\ frame'[d] = None => future'[d] = None
  BY <1>1, <1>2 DEF SyncInv
<1> QED
  BY <1>1, <1>4, <1>5, <1>6 DEF SyncInv, Pending, PendingNext, Apart

LEMMA SyncResume == ASSUME HInv, SyncInv, NEW c \in Clients, Resume(c) PROVE SyncInv'
<1>1. /\ client' = [client EXCEPT ![c] = "idle"] /\ future[c] # None
      /\ future' = [future EXCEPT ![c] = None] /\ frame' = [frame EXCEPT ![c] = None]
      /\ UNCHANGED <<task_queue, current, server>>
  BY DEF Resume
<1>2. /\ client \in [Clients -> {"idle", "notify", "waiting"}]
      /\ frame \in [Clients -> Jobs \cup {None}]
      /\ future \in [Clients -> Values \cup {None}]
      /\ task_queue \in Seq(Task)
  BY DEF HInv, QInv, QTypeOK
\* The call that returns is not the one of a task that is still to run.
<1>3. ASSUME NEW t \in Task, Pending(t) PROVE PendingNext(t)
  <2>1. t.client \in Clients
    BY DEF Task
  <2> QED
    BY <1>1, <1>2, <1>3, <2>1 DEF Pending, PendingNext
<1>4. server = "running" => PendingNext(Head(current))
  BY <1>3, RunningTask DEF SyncInv, HInv
<1>5. \A i \in 1 .. Len(task_queue) : PendingNext(task_queue[i])
  BY <1>2, <1>3, ElementOfSeq DEF SyncInv
<1>6. \A d \in Clients : /\ client'[d] = "idle" => frame'[d] = None
                         /\ frame'[d] = None => future'[d] = None
  BY <1>1, <1>2 DEF SyncInv
<1> QED
  BY <1>1, <1>4, <1>5, <1>6 DEF SyncInv, Pending, PendingNext, Apart

LEMMA SyncPop == ASSUME HInv, SyncInv, Pop PROVE SyncInv'
<1>1. task_queue \in Seq(Task) /\ task_queue # <<>>
  BY DEF Pop, MayProceed, HInv, QInv, QTypeOK
<1>2. /\ Head(task_queue) = task_queue[1] /\ Len(task_queue) \in Nat \ {0}
      /\ Len(task_queue') = Len(task_queue) - 1
      /\ \A i \in 1 .. Len(task_queue') : task_queue'[i] = task_queue[i + 1]
  BY <1>1 DEF Pop, Rest
<1>3. Head(current') = task_queue[1] /\ UNCHANGED <<client, frame, future>>
  BY <1>2 DEF Pop
<1>4. 1 \in 1 .. Len(task_queue)
      /\ \A i \in 1 .. Len(task_queue') : i + 1 \in 1 .. Len(task_queue) /\ i + 1 # 1
  BY <1>2
<1>5. \A i \in 1 .. Len(task_queue') : PendingNext(task_queue'[i])
  BY <1>2, <1>3, <1>4 DEF SyncInv, Pending, PendingNext
<1>6. \A i, k \in 1 .. Len(task_queue') : i # k => Apart(task_queue'[i], task_queue'[k])
  <2> SUFFICES ASSUME NEW i \in 1 .. Len(task_queue'), NEW k \in 1 .. Len(task_queue'), i # k
               PROVE  Apart(task_queue'[i], task_queue'[k])
    OBVIOUS
  <2>1. i + 1 # k + 1
    OBVIOUS
  <2>2. Apart(task_queue[i + 1], task_queue[k + 1])
    BY <1>4, <2>1 DEF SyncInv
  <2> QED
    BY <1>2, <2>2
<1>7. PendingNext(Head(current'))
  BY <1>3, <1>4 DEF SyncInv, Pending, PendingNext
<1>8. \A i \in 1 .. Len(task_queue') : Apart(Head(current'), task_queue'[i])
  BY <1>2, <1>3, <1>4 DEF SyncInv
<1> QED
  BY <1>3, <1>5, <1>6, <1>7, <1>8 DEF SyncInv, Pending, PendingNext, Apart

LEMMA SyncRun == ASSUME HInv, SyncInv, NEW v \in Values, Run(v) PROVE SyncInv'
<1> DEFINE t == Head(current)
<1>1. /\ server' = "testing" /\ server = "running" /\ UNCHANGED <<task_queue, client, frame>>
      /\ future' = IF t.sync THEN [future EXCEPT ![t.client] = v] ELSE future
  BY DEF Run
<1>2. /\ future \in [Clients -> Values \cup {None}]
      /\ task_queue \in Seq(Task) /\ None \notin Jobs
  BY QueueAssumption DEF HInv, QInv, QTypeOK
<1>3. t \in Task /\ t.client \in Clients /\ t.job \in Jobs /\ Pending(t)
  BY <1>1, RunningTask DEF Task, HInv, SyncInv
<1>4. ASSUME NEW i \in 1 .. Len(task_queue) PROVE PendingNext(task_queue[i])
  <2>1. task_queue[i] \in Task
    BY <1>2, ElementOfSeq
  <2>2. task_queue[i].client \in Clients
    BY <2>1 DEF Task
  <2>3. Pending(task_queue[i]) /\ Apart(t, task_queue[i])
    BY <1>1 DEF SyncInv
  <2> QED
    BY <1>1, <1>2, <2>2, <2>3 DEF Pending, PendingNext, Apart
<1>5. \A d \in Clients : /\ client'[d] = "idle" => frame'[d] = None
                         /\ frame'[d] = None => future'[d] = None
  BY <1>1, <1>2, <1>3 DEF SyncInv, Pending
<1> QED
  BY <1>1, <1>4, <1>5 DEF SyncInv, Pending, PendingNext, Apart

LEMMA SyncStep == HInv /\ SyncInv /\ [Next]_vars => SyncInv'
<1> SUFFICES ASSUME HInv, SyncInv, [Next]_vars PROVE SyncInv'
  OBVIOUS
<1>1. CASE RunJob
  BY <1>1, JobRuns, SyncRun
<1>2. ASSUME NEW c \in Clients, Call(c) PROVE SyncInv'
  BY <1>2, SyncCall DEF Call, Quiet
<1>3. ASSUME NEW c \in Clients, Quiet(ClientStep(c)) PROVE SyncInv'
  BY <1>3, SyncNotify, SyncResume DEF Quiet, ClientStep
<1>4. CASE Quiet(Pop)
  BY <1>4, SyncPop DEF Quiet
<1>5. CASE \/ Quiet(Fall) \/ Quiet(Sleep) \/ Quiet(ReturnOnTermination)
           \/ Quiet(WakeSpuriously) \/ Quiet(Destroy) \/ UNCHANGED vars
  <2>1. /\ UNCHANGED <<task_queue, current, client, frame, future>>
        /\ server' = "running" => server = "running"
    BY <1>5 DEF Quiet, Fall, Sleep, ReturnOnTermination, WakeSpuriously, Destroy, Terminate,
                NotifyAll, Join, Woken, vars, qvars
  <2> QED
    BY <2>1 DEF SyncInv, Pending, Apart
<1> QED
  BY <1>1, <1>2, <1>3, <1>4, <1>5 DEF Next, ServerWait, Quiet

Asked == [c \in Clients |-> IF Asks(c) THEN frame[c].host ELSE None]
Answer == [c \in Clients |->
             IF ~ Asks(c) THEN None ELSE IF future[c] = Raised THEN Null ELSE future[c]]

LEMMA AbstractInit == Init => Abstract!CInit
  BY DEF Init, QInit, Abstract!CInit, Asks

\* A call that asks for code is a question; any other is nobody's business.
LEMMA AbstractCall ==
  ASSUME HInv, SyncInv, NEW c \in Clients, Call(c)
  PROVE  (\E h \in Hosts : Abstract!Ask(c, h)) \/ UNCHANGED Abstract!cvars
<1>1. PICK j \in Jobs : Quiet(Push(c, j, j.op # "register_heat"))
  BY DEF Call
<1>2. j \in Job /\ j.host \in Hosts /\ j # None
  BY HandlerAssumption, QueueAssumption DEF Job
<1>3. /\ frame[c] = None /\ UNCHANGED <<future, function_map>>
      /\ frame' = [frame EXCEPT ![c] = IF j.op # "register_heat" THEN j ELSE None]
  BY <1>1 DEF Quiet, Push, SyncInv
<1>4. future[c] = None /\ frame \in [Clients -> Jobs \cup {None}]
  BY <1>3 DEF SyncInv, HInv, QInv, QTypeOK
<1>5. None # Raised
  BY QueueAssumption, HandlerAssumption DEF Value
<1>6. UNCHANGED Answer
  BY <1>3, <1>4, <1>5 DEF Answer, Asks
<1>7. CASE j.op \in {"get_or_create", "recompile"}
  <2>1. Asked[c] = None /\ Asked' = [Asked EXCEPT ![c] = j.host]
    BY <1>2, <1>3, <1>4, <1>7 DEF Asked, Asks
  <2> QED
    BY <1>2, <1>3, <1>6, <2>1 DEF Abstract!Ask, Asked, Answer
<1>8. CASE j.op \notin {"get_or_create", "recompile"}
  <2>1. UNCHANGED Asked
    BY <1>2, <1>3, <1>4, <1>8 DEF Asked, Asks
  <2> QED
    BY <1>3, <1>6, <2>1 DEF Abstract!cvars, Asked, Answer
<1> QED
  BY <1>7, <1>8

LEMMA AbstractReturn ==
  ASSUME HInv, SyncInv, NEW c \in Clients, Resume(c), UNCHANGED function_map
  PROVE  Abstract!Leave(c) \/ UNCHANGED Abstract!cvars
<1>1. /\ future[c] # None /\ future' = [future EXCEPT ![c] = None]
      /\ frame' = [frame EXCEPT ![c] = None]
  BY DEF Resume
<1>2. future \in [Clients -> Values \cup {None}] /\ frame \in [Clients -> Jobs \cup {None}]
  BY DEF HInv, QInv, QTypeOK
<1>3. None # Null
  BY QueueAssumption, HandlerAssumption DEF Value
<1>4. Asked' = [Asked EXCEPT ![c] = None] /\ Answer' = [Answer EXCEPT ![c] = None]
  BY <1>1, <1>2 DEF Asked, Answer, Asks
<1>5. CASE Asks(c)
  <2>1. Answer[c] # None
    BY <1>1, <1>3, <1>5 DEF Answer
  <2> QED
    BY <1>4, <2>1 DEF Abstract!Leave, Asked, Answer
<1>6. CASE ~ Asks(c)
  <2>1. Asked[c] = None /\ Answer[c] = None
    BY <1>6 DEF Asked, Answer
  <2>2. UNCHANGED <<Asked, Answer>>
    BY <1>4, <2>1 DEF Asked, Answer
  <2> QED
    BY <2>2 DEF Abstract!cvars, Asked, Answer
<1> QED
  BY <1>5, <1>6

\* A task of get_or_create or recompile answers the client that waits for it.
LEMMA TaskAnswers ==
  ASSUME HInv, SyncInv, NEW v \in Values, Run(v), NEW c, c = Head(current).client,
         job.op \in {"get_or_create", "recompile"}
  PROVE  /\ c \in Clients /\ Asked[c] = job.host /\ Asked[c] # None /\ Answer[c] = None
         /\ UNCHANGED Asked
         /\ Answer' = [Answer EXCEPT ![c] = IF v = Raised THEN Null ELSE v]
<1> DEFINE t == Head(current)
<1>1. server = "running" /\ t \in Task /\ Pending(t) /\ c \in Clients /\ t.job = job
  BY RunningTask DEF Run, HInv, SyncInv, job
<1>2. job # None /\ job.host \in Hosts /\ job.host # None /\ None # Raised
  BY <1>1, RunningJob, QueueAssumption, HandlerAssumption DEF HInv, Value, Task
<1>3. frame[c] = job /\ future[c] = None /\ future' = [future EXCEPT ![c] = v]
  BY <1>1 DEF Pending, Run
<1>4. future \in [Clients -> Values \cup {None}] /\ UNCHANGED frame
  BY DEF HInv, QInv, QTypeOK, Run
<1>5. Asks(c)
  BY <1>2, <1>3 DEF Asks
<1>6. Asked[c] = job.host /\ UNCHANGED Asked
  BY <1>1, <1>3, <1>4, <1>5 DEF Asked, Asks
<1>7. Answer[c] = None
  BY <1>1, <1>2, <1>3, <1>5 DEF Answer
<1>8. Answer' = [Answer EXCEPT ![c] = IF v = Raised THEN Null ELSE v]
  BY <1>1, <1>3, <1>4, <1>5 DEF Answer, Asks
<1> QED
  BY <1>1, <1>2, <1>6, <1>7, <1>8

\* The other tasks answer nobody who asks.
LEMMA TaskIsSilent ==
  ASSUME HInv, SyncInv, NEW v \in Values, Run(v),
         job.op \notin {"get_or_create", "recompile"}
  PROVE  UNCHANGED <<Asked, Answer>>
<1> DEFINE t == Head(current)
<1>1. server = "running" /\ t \in Task /\ Pending(t) /\ t.client \in Clients /\ t.job = job
  BY RunningTask DEF Run, HInv, SyncInv, job
<1>2. /\ UNCHANGED frame
      /\ future' = IF t.sync THEN [future EXCEPT ![t.client] = v] ELSE future
  BY DEF Run
<1>3. t.sync => ~ Asks(t.client)
  BY <1>1 DEF Pending, Asks
<1>4. future \in [Clients -> Values \cup {None}]
  BY DEF HInv, QInv, QTypeOK
<1> QED
  BY <1>1, <1>2, <1>3, <1>4 DEF Asked, Answer, Asks

LEMMA AbstractRun ==
  ASSUME HInv, SyncInv, RunJob
  PROVE  Abstract!CNext \/ UNCHANGED Abstract!cvars
<1>1. server = "running" /\ job.host \in Hosts
  BY RunningJob DEF RunJob, HInv
<1>7. PICK c : c = Head(current).client
  OBVIOUS
<1>2. CASE IsCompiled \/ RegisterHeat
  <2>1. /\ UNCHANGED function_map /\ job.op \notin {"get_or_create", "recompile"}
        /\ \E v \in Values : Run(v)
    BY <1>2, HandlerAssumption DEF IsCompiled, RegisterHeat, Found, Value
  <2>2. UNCHANGED <<Asked, Answer>>
    BY <2>1, TaskIsSilent
  <2> QED
    BY <2>1, <2>2 DEF Abstract!cvars, Asked, Answer
<1>3. CASE Remove
  <2>1. /\ job.op \notin {"get_or_create", "recompile"}
        /\ \E v \in Values : Run(v)
        /\ function_map' = [function_map EXCEPT ![job.host] = None]
    BY <1>3, HandlerAssumption DEF Remove, Forgotten, Found, Value
  <2>2. UNCHANGED <<Asked, Answer>>
    BY <2>1, TaskIsSilent
  <2>3. Abstract!Evict(job.host)
    BY <2>1, <2>2 DEF Abstract!Evict, Asked, Answer
  <2> QED
    BY <1>1, <2>3 DEF Abstract!CNext
<1>4. CASE GetHit
  <2> DEFINE k == function_map[job.host]
  <2>1. /\ job.op \in {"get_or_create", "recompile"} /\ Run(k) /\ UNCHANGED function_map
        /\ k \in Code /\ k # None
    BY <1>1, <1>4 DEF GetHit, Compiled, HInv, HTypeOK
  <2>2. k \in Values /\ k # Raised
    BY <2>1, HandlerAssumption DEF Value
  <2>3. /\ c \in Clients /\ Asked[c] = job.host /\ Asked[c] # None /\ Answer[c] = None
        /\ UNCHANGED Asked /\ Answer' = [Answer EXCEPT ![c] = k]
    BY <1>7, <2>1, <2>2, TaskAnswers
  <2>4. Abstract!Hit(c)
    BY <2>1, <2>3 DEF Abstract!Hit, Abstract!Waits, Asked, Answer
  <2> QED
    BY <2>3, <2>4 DEF Abstract!CNext
<1>5. CASE GetMiss \/ RecompileFails
  <2>1. PICK v \in {Raised, Null} : Run(v)
    BY <1>5 DEF GetMiss, RecompileFails
  <2>2. job.op \in {"get_or_create", "recompile"} /\ v \in Values /\ UNCHANGED function_map
    BY <1>5, HandlerAssumption DEF GetMiss, RecompileFails, Value
  <2>3. /\ c \in Clients /\ Asked[c] # None /\ Answer[c] = None
        /\ UNCHANGED Asked /\ Answer' = [Answer EXCEPT ![c] = Null]
    BY <1>7, <2>1, <2>2, TaskAnswers
  <2>4. Abstract!Fail(c)
    BY <2>2, <2>3 DEF Abstract!Fail, Abstract!Waits, Asked, Answer
  <2> QED
    BY <2>3, <2>4 DEF Abstract!CNext
<1>6. CASE Recompile
  <2> DEFINE k == [host |-> job.host, serial |-> serial]
  <2>1. /\ job.op \in {"get_or_create", "recompile"} /\ Run(k) /\ k.host = job.host
        /\ function_map' = [function_map EXCEPT ![job.host] = k]
    BY <1>6 DEF Recompile, Kept
  <2>2. serial \in 0 .. MaxTasks
    BY <1>1, RunningSerial, QueueAssumption
  <2>3. k \in Code
    BY <1>1, <2>2 DEF Code
  <2>4. k \in Values /\ k # Raised
    BY <2>3, HandlerAssumption DEF Value
  <2> HIDE DEF k
  <2>5. /\ c \in Clients /\ Asked[c] = job.host /\ Asked[c] # None /\ Answer[c] = None
        /\ UNCHANGED Asked /\ Answer' = [Answer EXCEPT ![c] = k]
    BY <1>7, <2>1, <2>4, TaskAnswers
  <2>6. Answer'[c] = k
    BY <2>5 DEF Answer
  <2>7. Abstract!Fill(c)
    BY <2>1, <2>3, <2>5, <2>6 DEF Abstract!Fill, Abstract!Waits, Asked, Answer
  <2> QED
    BY <2>5, <2>7 DEF Abstract!CNext
<1> QED
  BY <1>2, <1>3, <1>4, <1>5, <1>6 DEF RunJob

LEMMA AbstractStep ==
  HInv /\ SyncInv /\ [Next]_vars => [Abstract!CNext]_(Abstract!cvars)
<1> SUFFICES ASSUME HInv, SyncInv, [Next]_vars
             PROVE  Abstract!CNext \/ UNCHANGED Abstract!cvars
  OBVIOUS
<1>1. CASE RunJob
  BY <1>1, AbstractRun
<1>2. ASSUME NEW c \in Clients, Call(c) PROVE Abstract!CNext \/ UNCHANGED Abstract!cvars
  BY <1>2, AbstractCall DEF Abstract!CNext
<1>3. ASSUME NEW c \in Clients, Quiet(Resume(c))
      PROVE  Abstract!CNext \/ UNCHANGED Abstract!cvars
  BY <1>3, AbstractReturn DEF Quiet, Abstract!CNext
<1>4. CASE \/ Quiet(ServerWait) \/ Quiet(WakeSpuriously) \/ Quiet(Destroy)
           \/ (\E c \in Clients : Quiet(Notify(c))) \/ UNCHANGED vars
  <2>1. UNCHANGED <<function_map, frame, future>>
    BY <1>4 DEF Quiet, ServerWait, Fall, Sleep, Pop, ReturnOnTermination, WakeSpuriously,
                Destroy, Terminate, NotifyAll, Join, Notify, vars, qvars
  <2> QED
    BY <2>1 DEF Abstract!cvars, Asks
<1> QED
  BY <1>1, <1>2, <1>3, <1>4 DEF Next, ClientStep, Quiet

\* Every behaviour of the queued handler, seen through its map and what the futures of its
\* callers hold, is one of the abstract cache.
THEOREM Implements == Spec => ImplementsCompileCache
<1>1. Init => HInv /\ SyncInv
  BY InitHInv, InitSyncInv
<1>2. HInv /\ SyncInv /\ [Next]_vars => (HInv /\ SyncInv)'
  BY HStep, SyncStep
<1> QED
  BY <1>1, <1>2, AbstractInit, AbstractStep, PTL DEF Spec, ImplementsCompileCache, Abstract!CSpec
=============================================================================
