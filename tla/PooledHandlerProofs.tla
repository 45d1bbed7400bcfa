------------------------ MODULE PooledHandlerProofs ------------------------
(***************************************************************************)
(* PooledHandler for any number of clients, workers and hosts: its types,  *)
(* and three of its safety properties from one inductive invariant.        *)
(***************************************************************************)
EXTENDS PooledHandler, TLAPS

(* A worker that is not idle works for one blocked client, whose task has  *)
(* left the queue and whose future is not ready.                           *)
TaskInv ==
  /\ \A w \in Workers : (pc[w] = "idle") <=> (task[w] = None)
  /\ \A w \in Workers : task[w] # None =>
       request[task[w]] # None /\ answer[task[w]] = None /\ task[w] \notin queue
  /\ \A v, w \in Workers : task[v] = task[w] /\ task[v] # None => v = w
  /\ \A c \in queue : request[c] # None /\ answer[c] = None
  /\ \A c \in Clients : request[c] = None => answer[c] = None

(* Why one more compilation can start after a detach, and only one: a live *)
(* host without an entry has no compiler, a detached one at most one.      *)
FillInv ==
  \A h \in Hosts : function_map[h] = None =>
     \A v, w \in Workers : Filling(v, h) /\ Filling(w, h) => h \in detached /\ v = w

(* Code of a detached host was stored after the detach.                    *)
LateInv == \A h \in detached : function_map[h] \in Code => h \in late

IInv == /\ TypeOK /\ TaskInv
        /\ PlaceholderOwned
        /\ FillInv /\ SingleFlight
        /\ LateInv /\ StaleOnlyIfLate

USE DEF workerVars, clientVars, hostVars

-----------------------------------------------------------------------------
(* The variables keep their types: TypeOK is inductive once a busy worker  *)
(* is known to work for a client that has made a request.                  *)
LEMMA InitIInv == Init => IInv
  BY RequestsAssumption, BoundsAssumption, NoneAssumption, NullAssumption
     DEF Init, IInv, TypeOK, TaskInv, PlaceholderOwned, FillInv, SingleFlight,
         LateInv, StaleOnlyIfLate, Filling, Compiling

\* A busy worker's task, request and host are what their names say.
LEMMA Busy ==
  ASSUME TypeOK, TaskInv, NEW w \in Workers, pc[w] # "idle"
  PROVE  /\ task[w] \in Clients
         /\ request[task[w]] \in Request
         /\ answer[task[w]] = None
         /\ task[w] \notin queue
         /\ Host(w) \in Hosts
<1>1. task[w] \in Clients
  BY DEF TypeOK, TaskInv
<1>2. request[task[w]] \in Request
  BY <1>1 DEF TypeOK, TaskInv
<1> QED
  BY <1>1, <1>2 DEF TaskInv, Host, Request

LEMMA TypeStep == TypeOK /\ TaskInv /\ [Next]_vars => TypeOK'
<1> SUFFICES ASSUME TypeOK, TaskInv, [Next]_vars PROVE TypeOK'
  OBVIOUS
<1> USE DEF TypeOK
<1>1. ASSUME NEW c \in Clients, NEW r \in Requests, Call(c, r) PROVE TypeOK'
  BY <1>1, RequestsAssumption DEF Call
<1>2. ASSUME NEW c \in Clients, Return(c) PROVE TypeOK'
  BY <1>2 DEF Return
<1>3. ASSUME NEW h \in Hosts, Detach(h) PROVE TypeOK'
  BY <1>3 DEF Detach, Erased
<1>4. ASSUME NEW h \in Hosts, Reuse(h) PROVE TypeOK'
  BY <1>4 DEF Reuse
<1>5. ASSUME NEW w \in Workers, Take(w) PROVE TypeOK'
  BY <1>5 DEF Take
<1>6. ASSUME NEW w \in Workers, Hit(w) PROVE TypeOK'
  <2>1. Host(w) \in Hosts /\ task[w] \in Clients
    BY <1>6, Busy DEF Hit
  <2> QED
    BY <1>6, <2>1 DEF Hit, Finish
<1>7. ASSUME NEW w \in Workers, Claim(w) PROVE TypeOK'
  BY <1>7 DEF Claim
<1>8. ASSUME NEW w \in Workers, Compile(w) PROVE TypeOK'
  BY <1>8 DEF Compile
<1>9. ASSUME NEW w \in Workers, CompileFails(w) PROVE TypeOK'
  BY <1>9 DEF CompileFails, Finish
<1>10. ASSUME NEW w \in Workers, Install(w) PROVE TypeOK'
  <2>1. Host(w) \in Hosts /\ task[w] \in Clients
    BY <1>10, Busy DEF Install
  <2>2. CodeOf(Host(w)) \in Code
    BY <2>1 DEF CodeOf, Code
  <2> QED
    BY <1>10, <2>1, <2>2 DEF Install, Finish, Stored
<1>11. CASE UNCHANGED vars
  BY <1>11 DEF vars
<1> QED
  BY <1>1, <1>2, <1>3, <1>4, <1>5, <1>6, <1>7, <1>8, <1>9, <1>10, <1>11 DEF Next, Work

LEMMA TaskStep == TypeOK /\ TaskInv /\ [Next]_vars => TaskInv'
<1> SUFFICES ASSUME TypeOK, TaskInv, [Next]_vars PROVE TaskInv'
  OBVIOUS
<1> USE NoneAssumption DEF TypeOK, TaskInv
<1>1. ASSUME NEW c \in Clients, NEW r \in Requests, Call(c, r) PROVE TaskInv'
  BY <1>1, RequestsAssumption DEF Call
<1>2. ASSUME NEW c \in Clients, Return(c) PROVE TaskInv'
  BY <1>2 DEF Return
<1>3. ASSUME NEW h \in Hosts, Detach(h) PROVE TaskInv'
  BY <1>3 DEF Detach
<1>4. ASSUME NEW h \in Hosts, Reuse(h) PROVE TaskInv'
  BY <1>4 DEF Reuse
<1>5. ASSUME NEW w \in Workers, Take(w) PROVE TaskInv'
  BY <1>5 DEF Take
<1>6. ASSUME NEW w \in Workers, NEW k, Finish(w, k), pc[w] # "idle",
             UNCHANGED <<request, queue>>
      PROVE  TaskInv'
  BY <1>6, Busy DEF Finish
<1>7. ASSUME NEW w \in Workers, pc[w] # "idle", UNCHANGED <<request, answer, queue, task>>,
             \E s \in {"compile", "install"} : pc' = [pc EXCEPT ![w] = s]
      PROVE  TaskInv'
  BY <1>7
<1>8. CASE UNCHANGED vars
  BY <1>8 DEF vars
<1> QED
  BY <1>1, <1>2, <1>3, <1>4, <1>5, <1>6, <1>7, <1>8
     DEF Next, Work, Hit, Claim, Compile, CompileFails, Install

\* The types of the variables, for every instance (run pooled_handler).
THEOREM TypeCorrect == Spec => []TypeOK
<1>1. Init => TypeOK /\ TaskInv
  BY InitIInv DEF IInv
<1>2. TypeOK /\ TaskInv /\ [Next]_vars => (TypeOK /\ TaskInv)'
  BY TypeStep, TaskStep
<1> QED
  BY <1>1, <1>2, PTL DEF Spec

-----------------------------------------------------------------------------
(* The safety properties.  A step changes what a worker compiles only for  *)
(* the worker that takes it: nobody else's request is the one of a blocked *)
(* client.                                                                 *)
LEMMA OthersKeep ==
  ASSUME TypeOK, TaskInv, [Next]_vars,
         NEW w \in Workers, pc'[w] = pc[w], pc[w] # "idle"
  PROVE  task'[w] = task[w] /\ request'[task[w]] = request[task[w]]
<1> USE DEF TypeOK, TaskInv
<1>1. request[task[w]] # None /\ answer[task[w]] = None /\ task[w] \in Clients
  OBVIOUS
<1>2. ASSUME NEW c \in Clients, NEW r \in Requests, Call(c, r)
      PROVE  task'[w] = task[w] /\ request'[task[w]] = request[task[w]]
  BY <1>1, <1>2 DEF Call
<1>3. ASSUME NEW c \in Clients, Return(c)
      PROVE  task'[w] = task[w] /\ request'[task[w]] = request[task[w]]
  BY <1>1, <1>3 DEF Return
<1>4. CASE \E h \in Hosts : Detach(h) \/ Reuse(h)
  BY <1>4 DEF Detach, Reuse
<1>5. ASSUME NEW v \in Workers, Take(v) \/ Work(v)
      PROVE  task'[w] = task[w] /\ request'[task[w]] = request[task[w]]
  BY <1>5 DEF Take, Work, Hit, Claim, Compile, CompileFails, Install, Finish
<1>6. CASE UNCHANGED vars
  BY <1>6 DEF vars
<1> QED
  BY <1>2, <1>3, <1>4, <1>5, <1>6 DEF Next

LEMMA PlaceholderStep ==
  TypeOK /\ TaskInv /\ PlaceholderOwned /\ [Next]_vars => PlaceholderOwned'
<1> SUFFICES ASSUME TypeOK, TaskInv, PlaceholderOwned, [Next]_vars,
                    NEW h \in Hosts, function_map'[h] = Null, h \notin FailingHosts
             PROVE  \E w \in Workers : Compiling(w, h)'
  BY DEF PlaceholderOwned
<1> USE NullAssumption DEF TypeOK
<1>1. ASSUME NEW v \in Workers, Claim(v), Host(v) = h
      PROVE  \E w \in Workers : Compiling(w, h)'
  BY <1>1 DEF Claim, Compiling, Host
<1>2. CASE function_map[h] = Null
  <2>1. PICK w \in Workers : Compiling(w, h)
    BY <1>2 DEF PlaceholderOwned
  <2>2. Host(w) = h /\ Host(w) \in Hosts /\ pc[w] \in {"compile", "install"}
    BY <2>1, Busy DEF Compiling
  <2>3. CASE Compile(w)
    BY <2>2, <2>3 DEF Compile, Compiling, Host
  <2>4. CASE Install(w)
    <3>1. function_map'[h] = CodeOf(h)
      BY <2>2, <2>4 DEF Install, Stored
    <3> QED
      BY <3>1 DEF CodeOf, Code
  <2>5. CASE pc'[w] = pc[w]
    BY <2>2, <2>5, OthersKeep DEF Compiling, Host
  <2>6. Compile(w) \/ Install(w) \/ pc'[w] = pc[w]
    BY <2>2 DEF Next, vars, Call, Return, Detach, Reuse, Take, Work, Hit, Claim,
                Compile, CompileFails, Install, Finish
  <2> QED
    BY <2>3, <2>4, <2>5, <2>6
<1>3. CASE function_map[h] # Null
  <2>1. ASSUME NEW v \in Workers, Install(v) PROVE FALSE
    <3>1. Host(v) \in Hosts /\ function_map' = Stored(Host(v), CodeOf(Host(v)))
      BY <2>1, Busy DEF Install
    <3> QED
      BY <1>3, <3>1 DEF Stored, CodeOf, Code
  <2>2. \A g \in Hosts : ~ Detach(g)
    BY <1>3 DEF Detach, Erased
  <2>3. \E v \in Workers : Claim(v) /\ Host(v) = h
    BY <1>3, <2>1, <2>2 DEF Next, vars, Call, Return, Reuse, Take, Work, Hit, Claim,
                            Compile, CompileFails
  <2> QED
    BY <1>1, <2>3
<1> QED
  BY <1>2, <1>3

\* A step other than claiming the entry starts no compilation for it.
LEMMA NoNewFiller ==
  ASSUME TypeOK, TaskInv, [Next]_vars, NEW h \in Hosts, NEW w \in Workers, Filling(w, h)'
  PROVE  Filling(w, h) \/ (Claim(w) /\ Host(w) = h)
<1> USE NoneAssumption DEF TypeOK
<1>1. pc'[w] \in {"compile", "install"} /\ request'[task'[w]].host = h
        /\ request'[task'[w]].op = "get_or_create"
  BY DEF Filling, Compiling, Host
<1>2. CASE pc'[w] = pc[w]
  BY <1>1, <1>2, OthersKeep DEF Filling, Compiling, Host
<1>3. CASE pc'[w] # pc[w]
  <2>1. Take(w) \/ Claim(w) \/ Compile(w)
    BY <1>1, <1>3 DEF Next, vars, Call, Return, Detach, Reuse, Take, Work, Hit, Claim,
                      Compile, CompileFails, Install, Finish
  <2>2. ~ Take(w)
    BY <1>1 DEF Take, TaskInv, Request
  <2>3. CASE Claim(w)
    BY <1>1, <2>3 DEF Claim, Host
  <2>4. CASE Compile(w)
    BY <1>1, <2>4 DEF Compile, Filling, Compiling, Host
  <2> QED
    BY <2>1, <2>2, <2>3, <2>4
<1> QED
  BY <1>2, <1>3

LEMMA FillStep ==
  TypeOK /\ TaskInv /\ FillInv /\ SingleFlight /\ [Next]_vars
    => FillInv' /\ SingleFlight'
<1> SUFFICES ASSUME TypeOK, TaskInv, FillInv, SingleFlight, [Next]_vars, NEW h \in Hosts
             PROVE  /\ function_map'[h] = None =>
                         \A v, w \in Workers : Filling(v, h)' /\ Filling(w, h)' =>
                            h \in detached' /\ v = w
                    /\ \A v, w \in Workers : Filling(v, h)' /\ Filling(w, h)' /\ v # w =>
                         /\ h \in detached'
                         /\ \A u \in Workers : Filling(u, h)' => u \in {v, w}
  BY DEF FillInv, SingleFlight
<1> DEFINE None1 == \A w \in Workers : ~ Filling(w, h)
           AtMost1 == \A v, w \in Workers : Filling(v, h) /\ Filling(w, h) => v = w
           AtMost2 == \A u, v, w \in Workers :
                        Filling(u, h) /\ Filling(v, h) /\ Filling(w, h) /\ v # w => u \in {v, w}
<1>0. /\ function_map[h] = None => AtMost1
      /\ function_map[h] = None /\ h \notin detached => None1
      /\ h \notin detached => AtMost1
      /\ AtMost2
  BY DEF FillInv, SingleFlight
<1> USE NoneAssumption, NullAssumption DEF TypeOK
<1>1. ASSUME NEW w \in Workers, Claim(w), Host(w) = h
      PROVE  /\ function_map'[h] # None
             /\ \A v \in Workers : Filling(v, h)' => v = w \/ Filling(v, h)
             /\ AtMost1 /\ (h \notin detached => None1)
             /\ detached' = detached
  <2>1. function_map[h] = None /\ function_map'[h] = Null /\ detached' = detached
    BY <1>1 DEF Claim, Unclaimed
  <2>2. \A v \in Workers : Filling(v, h)' => v = w \/ Filling(v, h)
    <3> SUFFICES ASSUME NEW v \in Workers, Filling(v, h)', v # w PROVE Filling(v, h)
      OBVIOUS
    <3>1. ~ Claim(v)
      BY <1>1 DEF Claim
    <3> QED
      BY <3>1, NoNewFiller
  <2> QED
    BY <1>0, <2>1, <2>2
<1>2. CASE \E w \in Workers : Claim(w) /\ Host(w) = h
  BY <1>0, <1>1, <1>2
<1>3. CASE \A w \in Workers : ~ (Claim(w) /\ Host(w) = h)
  <2>1. \A w \in Workers : Filling(w, h)' => Filling(w, h)
    BY <1>3, NoNewFiller
  <2>2. CASE Reuse(h)
    <3>1. None1
      BY <2>2, Busy DEF Reuse, Filling, Compiling, Host, TaskInv
    <3> QED
      BY <2>1, <3>1
  <2>3. CASE Detach(h)
    <3>1. AtMost1 /\ h \in detached'
      BY <1>0, <2>3 DEF Detach
    <3> QED
      BY <2>1, <3>1
  <2>4. CASE ~ Reuse(h) /\ ~ Detach(h)
    <3>1. (h \in detached) <=> (h \in detached')
      BY <2>4 DEF Next, vars, Call, Return, Detach, Reuse, Take, Work, Hit, Claim,
                  Compile, CompileFails, Install
    <3>2. function_map'[h] = None => function_map[h] = None
      <4>1. ASSUME NEW w \in Workers, Install(w)
            PROVE  function_map'[h] = None => function_map[h] = None
        BY <4>1 DEF Install, Stored, CodeOf, Code
      <4> QED
        BY <2>4, <4>1 DEF Next, vars, Call, Return, Detach, Erased, Reuse, Take, Work,
                          Hit, Claim, Compile, CompileFails
    <3> QED
      BY <1>0, <2>1, <3>1, <3>2
  <2> QED
    BY <2>2, <2>3, <2>4
<1> QED
  BY <1>2, <1>3

LEMMA StaleStep ==
  TypeOK /\ TaskInv /\ LateInv /\ StaleOnlyIfLate /\ [Next]_vars
    => LateInv' /\ StaleOnlyIfLate'
<1> SUFFICES ASSUME TypeOK, TaskInv, LateInv, StaleOnlyIfLate, [Next]_vars
             PROVE  LateInv' /\ StaleOnlyIfLate'
  OBVIOUS
<1> USE NoneAssumption, NullAssumption DEF TypeOK, LateInv, StaleOnlyIfLate
<1>1. ASSUME NEW h \in Hosts, Detach(h) PROVE LateInv' /\ StaleOnlyIfLate'
  BY <1>1 DEF Detach, Erased
<1>2. ASSUME NEW h \in Hosts, Reuse(h) PROVE LateInv' /\ StaleOnlyIfLate'
  BY <1>2 DEF Reuse
<1>3. ASSUME NEW w \in Workers, Claim(w) PROVE LateInv' /\ StaleOnlyIfLate'
  BY <1>3 DEF Claim
<1>4. ASSUME NEW w \in Workers, Install(w) PROVE LateInv' /\ StaleOnlyIfLate'
  <2>1. Host(w) \in Hosts
    BY <1>4, Busy DEF Install
  <2> QED
    BY <1>4, <2>1 DEF Install, Stored, CodeOf
<1>5. CASE UNCHANGED <<function_map, gen, detached, late>>
  BY <1>5
<1> QED
  BY <1>1, <1>2, <1>3, <1>4, <1>5
     DEF Next, vars, Call, Return, Take, Work, Hit, Compile, CompileFails

-----------------------------------------------------------------------------
LEMMA Inductive == IInv /\ [Next]_vars => IInv'
  BY TypeStep, TaskStep, PlaceholderStep, FillStep, StaleStep DEF IInv

THEOREM Invariant == Spec => []IInv
  BY InitIInv, Inductive, PTL DEF Spec

\* A placeholder that no failed compilation abandoned has a worker compiling
\* for it (get_or_create_internal), for every number of clients and workers.
THEOREM PlaceholdersOwned == Spec => []PlaceholderOwned
<1>1. IInv => PlaceholderOwned
  BY DEF IInv
<1> QED
  BY <1>1, Invariant, PTL

\* get_or_create is single-flight on a live function, and at most two
\* compilations overlap on a detached one.
THEOREM FlightsSingle == Spec => []SingleFlight
<1>1. IInv => SingleFlight
  BY DEF IInv
<1> QED
  BY <1>1, Invariant, PTL

\* Only a compilation that was overtaken by a detach can leave code of an
\* earlier function in the map.
THEOREM StaleLate == Spec => []StaleOnlyIfLate
<1>1. IInv => StaleOnlyIfLate
  BY DEF IInv
<1> QED
  BY <1>1, Invariant, PTL

-----------------------------------------------------------------------------
(* The handler implements CompileCache.                                    *)
Cached == [h \in Hosts |-> IF function_map[h] = Null THEN None ELSE function_map[h]]
Asked  == [c \in Clients |-> IF request[c] = None THEN None ELSE request[c].host]

LEMMA BusyAsks ==
  ASSUME TypeOK, TaskInv, NEW w \in Workers, pc[w] # "idle"
  PROVE  Asked[task[w]] = Host(w) /\ Host(w) # None
  BY Busy, NoneAssumption DEF Asked, Host

LEMMA AbstractInit == Init => Abstract!CInit
  BY NullAssumption DEF Init, Abstract!CInit

LEMMA AbstractStep == TypeOK /\ TaskInv /\ [Next]_vars => [Abstract!CNext]_(Abstract!cvars)
<1> SUFFICES ASSUME TypeOK, TaskInv, [Next]_vars
             PROVE  Abstract!CNext \/ UNCHANGED Abstract!cvars
  OBVIOUS
<1> USE NoneAssumption, NullAssumption DEF TypeOK
<1>1. ASSUME NEW c \in Clients, NEW r \in Requests, Call(c, r) PROVE Abstract!Ask(c, r.host)
  <2>1. r \in Request
    BY RequestsAssumption
  <2>2. Asked[c] = None /\ Asked' = [Asked EXCEPT ![c] = r.host]
    BY <1>1, <2>1 DEF Call, Asked
  <2> QED
    BY <1>1, <2>2 DEF Call, Abstract!Ask, Asked
<1>2. ASSUME NEW c \in Clients, Return(c) PROVE Abstract!Leave(c)
  BY <1>2 DEF Return, Abstract!Leave
<1>3. ASSUME NEW h \in Hosts, Detach(h) PROVE Abstract!Evict(h)
  BY <1>3 DEF Detach, Erased, Abstract!Evict
<1>4. ASSUME NEW w \in Workers, NEW c \in Clients, c = task[w], Hit(w)
      PROVE  Abstract!Hit(c)
  <2>1. /\ task[w] \in Clients /\ request[task[w]] \in Request
        /\ answer[task[w]] = None /\ Host(w) \in Hosts
    BY <1>4, Busy DEF Hit
  <2>2. Asked[task[w]] = Host(w) /\ Host(w) # None
    BY <1>4, BusyAsks DEF Hit
  <2>3. Cached[Host(w)] = function_map[Host(w)] /\ function_map[Host(w)] # None
    BY <1>4, <2>1 DEF Cached, Hit
  <2>4. UNCHANGED <<Cached, Asked>>
    BY <1>4 DEF Hit, Cached, Asked
  <2> QED
    BY <1>4, <2>1, <2>2, <2>3, <2>4
       DEF Hit, Finish, Abstract!Hit, Abstract!Waits, Cached, Asked
<1>5. ASSUME NEW w \in Workers, NEW c \in Clients, c = task[w], CompileFails(w)
      PROVE  Abstract!Fail(c)
  <2>1. /\ task[w] \in Clients /\ request[task[w]] \in Request
        /\ answer[task[w]] = None /\ Host(w) \in Hosts
    BY <1>5, Busy DEF CompileFails
  <2>2. Asked[task[w]] # None
    BY <1>5, BusyAsks DEF CompileFails
  <2>3. UNCHANGED <<Cached, Asked>>
    BY <1>5 DEF CompileFails, Cached, Asked
  <2> QED
    BY <1>5, <2>1, <2>2, <2>3
       DEF CompileFails, Finish, Abstract!Fail, Abstract!Waits, Cached, Asked
<1>6. ASSUME NEW w \in Workers, NEW c \in Clients, c = task[w], Install(w)
      PROVE  Abstract!Fill(c)
  <2>1. /\ task[w] \in Clients /\ request[task[w]] \in Request
        /\ answer[task[w]] = None /\ Host(w) \in Hosts
    BY <1>6, Busy DEF Install
  <2>2. Asked[task[w]] = Host(w) /\ Host(w) # None
    BY <1>6, BusyAsks DEF Install
  <2> DEFINE k == CodeOf(Host(w))
  <2>3. k \in Code /\ k.host = Host(w) /\ answer'[task[w]] = k
    BY <1>6, <2>1 DEF CodeOf, Code, Install, Finish
  <2>4. Cached' = [Cached EXCEPT ![Host(w)] = k]
    BY <1>6, <2>1, <2>3 DEF Install, Stored, Cached
  <2>5. UNCHANGED Asked
    BY <1>6 DEF Install, Asked
  <2>6. answer' = [answer EXCEPT ![task[w]] = k]
    BY <1>6 DEF Install, Finish
  <2>7. c = task[w]
    BY <1>6
  <2> HIDE DEF k
  <2> QED
    BY <2>1, <2>2, <2>3, <2>4, <2>5, <2>6, <2>7 DEF Abstract!Fill, Abstract!Waits, Cached, Asked
<1>7. ASSUME NEW w \in Workers, Claim(w) PROVE UNCHANGED Abstract!cvars
  <2>1. UNCHANGED Cached
    BY <1>7, Busy DEF Claim, Unclaimed, Cached
  <2> QED
    BY <1>7, <2>1 DEF Claim, Abstract!cvars, Cached
<1>8. CASE UNCHANGED <<function_map, request, answer>>
  BY <1>8 DEF Abstract!cvars
<1>9. ASSUME NEW c \in Clients, NEW r \in Requests, Call(c, r) PROVE Abstract!CNext
  BY <1>1, <1>9, RequestsAssumption DEF Abstract!CNext, Request
<1>10. ASSUME NEW w \in Workers, Hit(w) \/ CompileFails(w) \/ Install(w)
       PROVE  Abstract!CNext
  <2>1. PICK c \in Clients : c = task[w]
    BY <1>10, Busy DEF Hit, CompileFails, Install
  <2>2. Abstract!Hit(c) \/ Abstract!Fail(c) \/ Abstract!Fill(c)
    BY <1>4, <1>5, <1>6, <1>10, <2>1
  <2> QED
    BY <2>1, <2>2 DEF Abstract!CNext
<1>11. CASE \/ \E c \in Clients : Return(c)
            \/ \E h \in Hosts : Detach(h)
  BY <1>2, <1>3, <1>11 DEF Abstract!CNext
<1> QED
  BY <1>7, <1>8, <1>9, <1>10, <1>11 DEF Next, vars, Reuse, Take, Work, Compile

\* Every behaviour of the pooled handler, seen through its map (placeholders
\* hidden), requests and answers, is one of the abstract cache.
THEOREM Implements == Spec => ImplementsCompileCache
<1>1. Init => TypeOK /\ TaskInv
  BY InitIInv DEF IInv
<1>2. TypeOK /\ TaskInv /\ [Next]_vars => (TypeOK /\ TaskInv)'
  BY TypeStep, TaskStep
<1> QED
  BY <1>1, <1>2, AbstractInit, AbstractStep, PTL DEF Spec, ImplementsCompileCache, Abstract!CSpec
=============================================================================
