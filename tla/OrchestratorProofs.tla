------------------------- MODULE OrchestratorProofs -------------------------
(***************************************************************************)
(* Orchestrator for any instances, threads, call graph and depth of calls, *)
(* in the three types of handler.  What holds of a thread is said of every *)
(* frame on its stack, so that a step has to be examined only where it     *)
(* changes a frame or what a frame relies on.                              *)
(***************************************************************************)
EXTENDS Orchestrator, TLAPS

Frames(t) == ToSet(stack[t])

(* A frame never belongs to an instance that does not exist yet; what it   *)
(* is about to store, or executes, is what the map holds for its instance; *)
(* only calls get as far as compiled code, and none does when queued.      *)
FrameOK(f) ==
  /\ f.inst \notin fresh
  /\ f.pc \in {"clear", "check", "fetch"} => f.cb = None
  /\ f.pc = "clear" => f.op = "recompile"
  /\ f.op = "recompile" => f.pc \notin {"jump", "run"}
  /\ f.pc \in {"store", "jump", "run"} => type # "MULTI_QUEUED"
  /\ f.pc = "store" /\ f.cb = None => Outcome[f.inst] = "error"
  /\ f.pc = "store" /\ Attached(f.inst) => f.cb \in {None, function_map[f.inst]}
  /\ f.pc = "run" => f.cb \in Code /\ (Attached(f.inst) => f.cb = function_map[f.inst])

FrameInv == \A t \in Threads : \A f \in Frames(t) : FrameOK(f)

(* An entry of the map is live code of its instance, and the instance has  *)
(* that code or none.                                                      *)
HostOK(i) ==
  /\ function_map[i] \in Code => function_map[i].host = i /\ function_map[i] \in runtime
  /\ function_map[i] = Null => type = "MULTI_POOLED"
  /\ type = "MULTI_QUEUED" => function_map[i] = None /\ real_compiled_function[i] = None
  /\ Attached(i) => i \notin fresh /\ real_compiled_function[i] \in {None, function_map[i]}
  /\ i \in fresh => function_map[i] = None /\ real_compiled_function[i] = None

HostInv == \A i \in Instances : HostOK(i)

(* Who is about to jump has code to jump to, or somebody is in recompile().*)
HasCode(i) == real_compiled_function[i] # None \/ \E u \in Threads : Recompiles(u, i)
JumpInv == \A t \in Threads : \A f \in Frames(t) :
  f.pc = "jump" /\ Attached(f.inst) /\ Outcome[f.inst] = "code" => HasCode(f.inst)

IInv == TypeOK /\ FrameInv /\ HostInv /\ NoLeak /\ JumpInv

USE DEF instanceVars, handlerVars

-----------------------------------------------------------------------------
(* The frames of a stack that is pushed to, popped, or has its top         *)
(* replaced.                                                               *)
LEMMA PushFrames ==
  ASSUME NEW s \in Seq(Frame), NEW f \in Frame
  PROVE  /\ <<f>> \o s \in Seq(Frame)
         /\ ToSet(<<f>> \o s) = {f} \cup ToSet(s)
<1> DEFINE g == <<f>> \o s
<1>1. /\ g \in Seq(Frame) /\ DOMAIN g = 1 .. Len(s) + 1 /\ DOMAIN s = 1 .. Len(s)
      /\ Len(s) \in Nat
  OBVIOUS
<1>2. \A k \in 1 .. Len(s) + 1 : g[k] = IF k = 1 THEN f ELSE s[k - 1]
  OBVIOUS
<1> HIDE DEF g
<1>3. \A k \in 1 .. Len(s) : k + 1 \in 1 .. Len(s) + 1 /\ g[k + 1] = s[k]
  BY <1>1, <1>2
<1>4. ToSet(g) \subseteq {f} \cup ToSet(s)
  BY <1>1, <1>2 DEF ToSet
<1>5. f \in ToSet(g)
  BY <1>1, <1>2 DEF ToSet
<1>6. ToSet(s) \subseteq ToSet(g)
  BY <1>1, <1>3 DEF ToSet
<1> QED
  BY <1>1, <1>4, <1>5, <1>6 DEF g

LEMMA PopFrames ==
  ASSUME NEW s \in Seq(Frame), s # <<>>
  PROVE  /\ Tail(s) \in Seq(Frame) /\ Head(s) \in Frame
         /\ ToSet(s) = {Head(s)} \cup ToSet(Tail(s))
<1>1. s = <<Head(s)>> \o Tail(s) /\ Tail(s) \in Seq(Frame) /\ Head(s) \in Frame
  OBVIOUS
<1> QED
  BY <1>1, PushFrames

LEMMA ReplaceFrames ==
  ASSUME TypeOK, NEW t \in Threads, stack[t] # <<>>, NEW f \in Frame, Replace(t, f)
  PROVE  /\ stack' \in [Threads -> Seq(Frame)]
         /\ \A u \in Threads \ {t} : stack'[u] = stack[u]
         /\ Top(t) \in Frame /\ Top(t) \in Frames(t)
         /\ Frames(t)' \subseteq {f} \cup Frames(t)
         /\ Frames(t) \subseteq {Top(t)} \cup Frames(t)'
         /\ f \in Frames(t)'
<1>1. /\ Tail(stack[t]) \in Seq(Frame) /\ Top(t) \in Frame
      /\ Frames(t) = {Top(t)} \cup ToSet(Tail(stack[t]))
  BY PopFrames DEF TypeOK, Frames, Top
<1>2. stack' = [stack EXCEPT ![t] = <<f>> \o Tail(stack[t])]
  BY DEF Replace
<1>3. <<f>> \o Tail(stack[t]) \in Seq(Frame)
      /\ Frames(t)' = {f} \cup ToSet(Tail(stack[t]))
  BY <1>1, <1>2, PushFrames DEF TypeOK, Frames
<1> QED
  BY <1>1, <1>2, <1>3 DEF TypeOK

LEMMA ReturnFrames ==
  ASSUME TypeOK, NEW t \in Threads, stack[t] # <<>>, Ret(t)
  PROVE  /\ stack' \in [Threads -> Seq(Frame)]
         /\ \A u \in Threads \ {t} : stack'[u] = stack[u]
         /\ Top(t) \in Frame /\ Top(t) \in Frames(t)
         /\ Frames(t)' \subseteq Frames(t)
         /\ Frames(t) \subseteq {Top(t)} \cup Frames(t)'
<1>1. /\ Tail(stack[t]) \in Seq(Frame) /\ Top(t) \in Frame
      /\ Frames(t) = {Top(t)} \cup ToSet(Tail(stack[t]))
  BY PopFrames DEF TypeOK, Frames, Top
<1> QED
  BY <1>1 DEF TypeOK, Ret, Frames

LEMMA CallFrames ==
  ASSUME TypeOK, NEW t \in Threads, NEW f \in Frame,
         stack' = [stack EXCEPT ![t] = <<f>> \o @]
  PROVE  /\ stack' \in [Threads -> Seq(Frame)]
         /\ \A u \in Threads \ {t} : stack'[u] = stack[u]
         /\ Frames(t)' = {f} \cup Frames(t)
<1>1. <<f>> \o stack[t] \in Seq(Frame) /\ ToSet(<<f>> \o stack[t]) = {f} \cup Frames(t)
  BY PushFrames DEF TypeOK, Frames
<1> QED
  BY <1>1 DEF TypeOK, Frames

LEMMA StartFrame ==
  ASSUME NEW i \in Instances, NEW op \in {"call", "recompile"}
  PROVE  Start(i, op) \in Frame
BY DEF Start, Frame

-----------------------------------------------------------------------------
LEMMA InitIInv == Init => IInv
<1> SUFFICES ASSUME Init PROVE IInv
  OBVIOUS
<1>1. TypeOK
  BY DEF Init, TypeOK
<1>2. \A t \in Threads : Frames(t) = {}
  BY DEF Init, Frames, ToSet
<1>3. HostInv
  BY NilAssumption DEF Init, HostInv, HostOK, Attached
<1>4. NoLeak
  BY DEF Init, NoLeak
<1> QED
  BY <1>1, <1>2, <1>3, <1>4 DEF IInv, FrameInv, JumpInv

LEMMA TopFrame ==
  ASSUME TypeOK, NEW t \in Threads, stack[t] # <<>>
  PROVE  /\ Top(t) \in Frame /\ Top(t) \in Frames(t)
         /\ Top(t).inst \in Instances
         /\ Top(t).cb \in Code \cup {None}
BY PopFrames DEF TypeOK, Frames, Top, Frame

LEMMA FrameTyped ==
  ASSUME TypeOK, NEW t \in Threads, NEW f \in Frames(t)
  PROVE  f \in Frame /\ f.inst \in Instances
<1>1. stack[t] \in Seq(Frame)
  BY DEF TypeOK
<1>2. PICK k \in DOMAIN stack[t] : f = stack[t][k]
  BY DEF Frames, ToSet
<1>3. f \in Frame
  BY <1>1, <1>2
<1> QED
  BY <1>3 DEF Frame

LEMMA TypeStep == TypeOK /\ [Next]_vars => TypeOK'
<1> SUFFICES ASSUME TypeOK, [Next]_vars PROVE TypeOK'
  OBVIOUS
<1>1. ASSUME NEW i \in Instances, Create(i) \/ Edit(i) \/ Detach(i) \/ ForgetParent(i)
      PROVE  TypeOK'
  <2>1. CASE Create(i)
    BY <2>1 DEF TypeOK, Create
  <2>2. CASE Edit(i)
    BY <2>2 DEF TypeOK, Edit
  <2>3. CASE Detach(i)
    BY <2>3 DEF TypeOK, Detach
  <2>4. CASE ForgetParent(i)
    BY <2>4 DEF TypeOK, ForgetParent
  <2> QED
    BY <1>1, <2>1, <2>2, <2>3, <2>4
<1>2. ASSUME NEW t \in Threads, NEW i \in Instances, NEW op \in {"call", "recompile"},
             Begin(t, i, op)
      PROVE  TypeOK'
  BY <1>2, StartFrame, CallFrames DEF TypeOK, Begin
<1>3. ASSUME NEW t \in Threads, Invoke(t) PROVE TypeOK'
  <2>1. PICK i \in Callees[Top(t).inst] \ fresh :
          stack' = [stack EXCEPT ![t] = <<Start(i, "call")>> \o @]
    BY <1>3 DEF Invoke
  <2>2. i \in Instances
    BY <1>3, TopFrame, OrchestratorAssumption DEF Invoke, At
  <2> QED
    BY <1>3, <2>1, <2>2, StartFrame, CallFrames DEF TypeOK, Invoke
<1>4. ASSUME NEW t \in Threads, Clear(t) PROVE TypeOK'
  <2>1. stack[t] # <<>> /\ Top(t) \in Frame
    BY <1>4, TopFrame DEF Clear, At
  <2>2. [Top(t) EXCEPT !.pc = "check"] \in Frame
    BY <2>1 DEF Frame
  <2> QED
    BY <1>4, <2>1, <2>2, ReplaceFrames DEF TypeOK, Clear, Goto
<1>5. ASSUME NEW t \in Threads, Check(t) PROVE TypeOK'
  <2>1. stack[t] # <<>> /\ Top(t) \in Frame
    BY <1>5, TopFrame DEF Check, At
  <2>2. \A pc \in {"jump", "fetch", "crashed"} : [Top(t) EXCEPT !.pc = pc] \in Frame
    BY <2>1 DEF Frame
  <2>3. stack' \in [Threads -> Seq(Frame)]
    BY <1>5, <2>1, <2>2, ReplaceFrames, ReturnFrames DEF Check, Goto
  <2> QED
    BY <1>5, <2>3 DEF TypeOK, Check
<1>6. ASSUME NEW t \in Threads, FetchHit(t) PROVE TypeOK'
  <2>1. stack[t] # <<>> /\ Top(t) \in Frame /\ function_map[Top(t).inst] \in Code
    BY <1>6, TopFrame DEF FetchHit, At, Cached
  <2>2. [Top(t) EXCEPT !.pc = "store", !.cb = function_map[Top(t).inst]] \in Frame
    BY <2>1 DEF Frame
  <2>3. stack' \in [Threads -> Seq(Frame)]
    BY <1>6, <2>1, <2>2, ReplaceFrames DEF FetchHit
  <2> QED
    BY <1>6, <2>3 DEF TypeOK, FetchHit
<1>7. ASSUME NEW t \in Threads, FetchMiss(t) PROVE TypeOK'
  <2>1. stack[t] # <<>> /\ Top(t) \in Frame /\ Top(t).inst \in Instances
    BY <1>7, TopFrame DEF FetchMiss, Missing, At
  <2>2. CodeOf(Top(t).inst) \in Code
    BY <2>1 DEF CodeOf, Code, TypeOK
  <2>3. [Top(t) EXCEPT !.pc = "store", !.cb = CodeOf(Top(t).inst)] \in Frame
    BY <2>1, <2>2 DEF Frame
  <2>4. stack' \in [Threads -> Seq(Frame)]
    BY <1>7, <2>1, <2>3, ReplaceFrames DEF FetchMiss
  <2> QED
    BY <1>7, <2>1, <2>2, <2>4 DEF TypeOK, FetchMiss
<1>8. ASSUME NEW t \in Threads, FetchError(t) \/ FetchRaises(t) PROVE TypeOK'
  <2>1. stack[t] # <<>> /\ Top(t) \in Frame /\ Top(t).inst \in Instances
    BY <1>8, TopFrame DEF FetchError, FetchRaises, Missing, At
  <2>2. \A pc \in {"store", "crashed"} : [Top(t) EXCEPT !.pc = pc] \in Frame
    BY <2>1 DEF Frame
  <2>3. stack' \in [Threads -> Seq(Frame)]
    BY <1>8, <2>1, <2>2, ReplaceFrames, ReturnFrames DEF FetchError, FetchRaises, Goto
  <2> QED
    BY <1>8, <2>1, <2>3 DEF TypeOK, FetchError, FetchRaises, Placeholder
<1>9. ASSUME NEW t \in Threads, Store(t) PROVE TypeOK'
  <2>1. stack[t] # <<>> /\ Top(t) \in Frame
        /\ Top(t).inst \in Instances /\ Top(t).cb \in Code \cup {None}
    BY <1>9, TopFrame DEF Store, At
  <2>2. [Top(t) EXCEPT !.pc = "jump"] \in Frame
    BY <2>1 DEF Frame
  <2>3. stack' \in [Threads -> Seq(Frame)]
    BY <1>9, <2>1, <2>2, ReplaceFrames, ReturnFrames DEF Store, Goto
  <2> QED
    BY <1>9, <2>1, <2>3 DEF TypeOK, Store, Stored
<1>10. ASSUME NEW t \in Threads, Jump(t) PROVE TypeOK'
  <2>1. stack[t] # <<>> /\ Top(t) \in Frame
        /\ real_compiled_function[Top(t).inst] \in Code \cup {None}
    BY <1>10, TopFrame DEF Jump, At, TypeOK
  <2>2. \A pc \in {"run", "crashed"} :
          [Top(t) EXCEPT !.pc = pc, !.cb = real_compiled_function[Top(t).inst]] \in Frame
    BY <2>1 DEF Frame
  <2>3. stack' \in [Threads -> Seq(Frame)]
    BY <1>10, <2>1, <2>2, ReplaceFrames DEF Jump
  <2> QED
    BY <1>10, <2>3 DEF TypeOK, Jump
<1>11. ASSUME NEW t \in Threads, Return(t) PROVE TypeOK'
  BY <1>11, ReturnFrames DEF TypeOK, Return, At
<1>12. CASE UNCHANGED vars
  BY <1>12 DEF TypeOK, vars
<1> QED
  BY <1>1, <1>2, <1>3, <1>4, <1>5, <1>6, <1>7, <1>8, <1>9, <1>10, <1>11, <1>12
     DEF Next, Fetch

-----------------------------------------------------------------------------
(* The map, the runtime and the pointers of the instances.                 *)
LEMMA TopOK ==
  ASSUME TypeOK, FrameInv, NEW t \in Threads, stack[t] # <<>>
  PROVE  FrameOK(Top(t)) /\ Top(t) \in Frame /\ Top(t).inst \in Instances
BY TopFrame DEF FrameInv

LEMMA HostStep == IInv /\ [Next]_vars => HostInv' /\ NoLeak'
<1> SUFFICES ASSUME IInv, [Next]_vars PROVE HostInv' /\ NoLeak'
  OBVIOUS
<1>0. /\ TypeOK /\ FrameInv /\ HostInv /\ NoLeak
      /\ \A i \in Instances : HostOK(i)
      /\ \A i \in Instances : function_map[i] \in Code \cup {None, Null}
  BY DEF IInv, HostInv, TypeOK
<1> DEFINE Same == UNCHANGED <<type, fresh, instance_map, function_map, runtime,
                               real_compiled_function>>
<1>1. ASSUME Same PROVE HostInv' /\ NoLeak'
  BY <1>0, <1>1 DEF HostInv, HostOK, Attached, NoLeak
<1>2. ASSUME NEW i \in Instances, Create(i) PROVE HostInv' /\ NoLeak'
  <2>1. HostInv'
    BY <1>0, <1>2 DEF HostInv, HostOK, Attached, Create
  <2> QED
    BY <1>0, <1>2, <2>1 DEF NoLeak, Create
<1>3. ASSUME NEW i \in Instances, Detach(i) PROVE HostInv' /\ NoLeak'
  <2>1. \A j \in Instances : function_map'[j] = IF j = i THEN None ELSE function_map[j]
    BY <1>0, <1>3 DEF Detach, TypeOK
  <2>2. \A j \in Instances \ {i} : function_map[j] \in Code => function_map[j] # function_map[i]
    BY <1>0 DEF HostOK
  <2>3. runtime' = runtime \ {function_map[i]} \/ (runtime' = runtime /\ type = "MULTI_POOLED")
    BY <1>3 DEF Detach, Released
  <2>4. HostInv'
    <3> SUFFICES ASSUME NEW j \in Instances PROVE HostOK(j)'
      BY DEF HostInv
    <3>1. /\ type' = type /\ fresh' = fresh /\ instance_map' = instance_map \ {i}
          /\ real_compiled_function' = real_compiled_function
      BY <1>3 DEF Detach
    <3>2. CASE j = i
      BY <1>0, <2>1, <3>1, <3>2, NilAssumption DEF HostOK, Attached
    <3>3. CASE j # i
      <4>1. function_map'[j] = function_map[j]
        BY <2>1, <3>3
      <4>2. function_map[j] \in Code => function_map[j] \in runtime'
        BY <1>0, <2>2, <2>3, <3>3 DEF HostOK
      <4> QED
        BY <1>0, <3>1, <4>1, <4>2 DEF HostOK, Attached
    <3> QED
      BY <3>2, <3>3
  <2>5. NoLeak'
    <3> SUFFICES ASSUME type = "SINGLE_UNSAFE"
                 PROVE  runtime' = { function_map'[j] : j \in Instances } \ {None}
      BY <1>3 DEF NoLeak, Detach
    <3>1. runtime = { function_map[j] : j \in Instances } \ {None}
      BY <1>0 DEF NoLeak
    <3>2. \A j \in Instances : function_map[j] \in Code \cup {None}
      BY <1>0 DEF HostOK
    <3>3. runtime' = runtime \ {function_map[i]}
      BY <2>3
    <3> QED
      BY <2>1, <2>2, <3>1, <3>2, <3>3
  <2> QED
    BY <2>4, <2>5
<1>4. ASSUME NEW t \in Threads, Clear(t) PROVE HostInv' /\ NoLeak'
  <2>1. \A j \in Instances : real_compiled_function'[j] \in {None, real_compiled_function[j]}
    BY <1>0, <1>4 DEF Clear, TypeOK
  <2>2. UNCHANGED <<type, fresh, instance_map, function_map, runtime>>
    BY <1>4 DEF Clear
  <2> QED
    BY <1>0, <2>1, <2>2 DEF HostInv, HostOK, Attached, NoLeak
<1>5. ASSUME NEW t \in Threads, FetchMiss(t) PROVE HostInv' /\ NoLeak'
  <2> DEFINE i == Top(t).inst
             k == CodeOf(i)
  <2>1. /\ FrameOK(Top(t)) /\ i \in Instances
        /\ function_map[i] = None /\ type # "MULTI_QUEUED" /\ k.host = i /\ k \in Code
    BY <1>0, <1>5, TopOK DEF FetchMiss, Missing, At, Cached, CodeOf, Code, TypeOK
  <2>2. /\ \A j \in Instances : function_map'[j] = IF j = i THEN k ELSE function_map[j]
        /\ runtime' = runtime \cup {k}
        /\ UNCHANGED <<type, fresh, instance_map, real_compiled_function>>
    BY <1>0, <1>5, <2>1 DEF FetchMiss, TypeOK
  <2>3. i \notin fresh
    BY <2>1 DEF FrameOK
  <2> HIDE DEF k, i
  <2>4. HostInv'
    <3> SUFFICES ASSUME NEW j \in Instances PROVE HostOK(j)'
      BY DEF HostInv
    <3> QED
      BY <1>0, <2>1, <2>2, <2>3, NilAssumption DEF HostOK, Attached
  <2>5. NoLeak'
    <3> SUFFICES ASSUME type = "SINGLE_UNSAFE"
                 PROVE  runtime' = { function_map'[j] : j \in Instances } \ {None}
      BY <2>2 DEF NoLeak
    <3>1. runtime = { function_map[j] : j \in Instances } \ {None}
      BY <1>0 DEF NoLeak
    <3> QED
      BY <2>1, <2>2, <3>1, NilAssumption
  <2> QED
    BY <2>4, <2>5
<1>6. ASSUME NEW t \in Threads, FetchError(t) \/ FetchRaises(t) PROVE HostInv' /\ NoLeak'
  <2> DEFINE i == Top(t).inst
  <2>1. /\ FrameOK(Top(t)) /\ i \in Instances /\ function_map[i] = None
    BY <1>0, <1>6, TopOK DEF FetchError, FetchRaises, Missing, At, Cached
  <2>2. UNCHANGED <<type, fresh, instance_map, runtime, real_compiled_function>>
    BY <1>6 DEF FetchError, FetchRaises
  <2>3. \/ function_map' = function_map
        \/ /\ type = "MULTI_POOLED"
           /\ \A j \in Instances : function_map'[j] = IF j = i THEN Null ELSE function_map[j]
    BY <1>0, <1>6 DEF FetchError, FetchRaises, Placeholder, TypeOK
  <2>4. i \notin fresh
    BY <2>1 DEF FrameOK
  <2> HIDE DEF i
  <2>5. CASE function_map' = function_map
    BY <1>1, <2>2, <2>5
  <2>6. CASE function_map' # function_map
    <3> SUFFICES ASSUME NEW j \in Instances PROVE HostOK(j)'
      BY <2>2, <2>3, <2>6 DEF HostInv, NoLeak
    <3> QED
      BY <1>0, <2>1, <2>2, <2>3, <2>4, <2>6, NilAssumption DEF HostOK, Attached
  <2> QED
    BY <2>5, <2>6
<1>7. ASSUME NEW t \in Threads, Store(t) PROVE HostInv' /\ NoLeak'
  <2> DEFINE i == Top(t).inst
  <2>1. FrameOK(Top(t)) /\ i \in Instances /\ Top(t).pc = "store"
    BY <1>0, <1>7, TopOK DEF Store, At
  <2>2. UNCHANGED <<type, fresh, instance_map, function_map, runtime>>
    BY <1>7 DEF Store
  <2>3. \A j \in Instances :
          real_compiled_function'[j] = IF j = i THEN Top(t).cb ELSE real_compiled_function[j]
    BY <1>0, <1>7 DEF Store, Stored, TypeOK
  <2>4. /\ i \notin fresh /\ type # "MULTI_QUEUED"
        /\ Attached(i) => Top(t).cb \in {None, function_map[i]}
    BY <2>1 DEF FrameOK
  <2> HIDE DEF i
  <2>5. HostInv'
    <3> SUFFICES ASSUME NEW j \in Instances PROVE HostOK(j)'
      BY DEF HostInv
    <3> QED
      BY <1>0, <2>1, <2>2, <2>3, <2>4 DEF HostOK, Attached
  <2> QED
    BY <1>0, <2>2, <2>5 DEF NoLeak
<1>8. ASSUME NEW i \in Instances, Edit(i) \/ ForgetParent(i) PROVE Same
  BY <1>8 DEF Edit, ForgetParent
<1>9. ASSUME NEW t \in Threads,
             \/ \E i \in Instances, op \in {"call", "recompile"} : Begin(t, i, op)
             \/ Invoke(t) \/ Check(t) \/ FetchHit(t) \/ Jump(t) \/ Return(t)
      PROVE  Same
  BY <1>9 DEF Begin, Invoke, Check, FetchHit, Jump, Return
<1>10. CASE UNCHANGED vars
  BY <1>1, <1>10 DEF vars
<1> QED
  BY <1>1, <1>2, <1>3, <1>4, <1>5, <1>6, <1>7, <1>8, <1>9, <1>10 DEF Next, Fetch

-----------------------------------------------------------------------------
(* The frames: first, those a step leaves on the stacks.                   *)
LEMMA OldFrames ==
  ASSUME FrameInv, UNCHANGED <<type, fresh, function_map>>, instance_map' \subseteq instance_map
  PROVE  \A t \in Threads : \A f \in Frames(t) : FrameOK(f)'
BY DEF FrameInv, FrameOK, Attached

LEMMA Called ==
  ASSUME TypeOK, NEW t \in Threads, NEW f \in Frame, FrameOK(f)',
         stack' = [stack EXCEPT ![t] = <<f>> \o @],
         \A u \in Threads : \A g \in Frames(u) : FrameOK(g)'
  PROVE  FrameInv'
BY CallFrames DEF FrameInv, Frames

LEMMA Replaced ==
  ASSUME TypeOK, NEW t \in Threads, stack[t] # <<>>, NEW f \in Frame, FrameOK(f)',
         Replace(t, f), \A u \in Threads : \A g \in Frames(u) : FrameOK(g)'
  PROVE  FrameInv'
BY ReplaceFrames DEF FrameInv, Frames

LEMMA Returned ==
  ASSUME TypeOK, NEW t \in Threads, stack[t] # <<>>, Ret(t),
         \A u \in Threads : \A g \in Frames(u) : FrameOK(g)'
  PROVE  FrameInv'
BY ReturnFrames DEF FrameInv, Frames

\* The frames that Fetch leaves alone are still right when the map gets its
\* first entry for i, since none of them executes code of i.
LEMMA FilledFrames ==
  ASSUME FrameInv, NEW i \in Instances, NEW k, function_map[i] = None,
         UNCHANGED <<type, fresh, instance_map>>, TypeOK,
         function_map' = [function_map EXCEPT ![i] = k]
  PROVE  \A t \in Threads : \A f \in Frames(t) : FrameOK(f)'
<1> SUFFICES ASSUME NEW t \in Threads, NEW f \in Frames(t) PROVE FrameOK(f)'
  OBVIOUS
<1>1. FrameOK(f) /\ f.inst \in Instances
  BY FrameTyped DEF FrameInv
<1>2. \A j \in Instances : function_map'[j] = IF j = i THEN k ELSE function_map[j]
  BY DEF TypeOK
<1> QED
  BY <1>1, <1>2, NilAssumption DEF FrameOK, Attached

LEMMA FrameStep == IInv /\ [Next]_vars => FrameInv'
<1> SUFFICES ASSUME IInv, [Next]_vars PROVE FrameInv'
  OBVIOUS
<1>0. TypeOK /\ FrameInv /\ HostInv
  BY DEF IInv
<1>1. ASSUME NEW i \in Instances, Create(i) PROVE FrameInv'
  <2>1. /\ UNCHANGED <<type, function_map, stack>> /\ i \in fresh
        /\ fresh' = fresh \ {i} /\ instance_map' = instance_map \cup {i}
    BY <1>1 DEF Create
  <2>2. \A t \in Threads : Frames(t)' = Frames(t)
    BY <2>1 DEF Frames
  <2> QED
    BY <1>0, <2>1, <2>2 DEF FrameInv, FrameOK, Attached
<1>2. ASSUME NEW i \in Instances, Edit(i) \/ ForgetParent(i) PROVE FrameInv'
  <2>1. UNCHANGED <<type, fresh, instance_map, function_map, stack>>
    BY <1>2 DEF Edit, ForgetParent
  <2> QED
    BY <1>0, <2>1 DEF FrameInv, FrameOK, Attached, Frames
<1>3. ASSUME NEW i \in Instances, Detach(i) PROVE FrameInv'
  <2>1. /\ UNCHANGED <<type, fresh, stack>> /\ instance_map' = instance_map \ {i}
        /\ \A j \in Instances \ {i} : function_map'[j] = function_map[j]
    BY <1>0, <1>3 DEF Detach, TypeOK
  <2> SUFFICES ASSUME NEW t \in Threads, NEW f \in Frames(t) PROVE FrameOK(f)'
    BY <2>1 DEF FrameInv, Frames
  <2>2. FrameOK(f) /\ f.inst \in Instances
    BY <1>0, FrameTyped DEF FrameInv
  <2> QED
    BY <2>1, <2>2 DEF FrameOK, Attached
<1>4. ASSUME NEW t \in Threads, NEW i \in Instances, NEW op \in {"call", "recompile"},
             Begin(t, i, op) \/ (Invoke(t) /\ op = "call" /\ i \notin fresh
                                  /\ stack' = [stack EXCEPT ![t] = <<Start(i, op)>> \o @])
      PROVE  FrameInv'
  <2>1. /\ UNCHANGED <<type, fresh, instance_map, function_map>>
        /\ stack' = [stack EXCEPT ![t] = <<Start(i, op)>> \o @]
    BY <1>4 DEF Begin, Invoke
  <2>2. i \notin fresh
    BY <1>0, <1>4 DEF Begin, HostInv, HostOK, Attached
  <2>3. FrameOK(Start(i, op))'
    BY <2>1, <2>2 DEF FrameOK, Start
  <2> QED
    BY <1>0, <2>1, <2>3, StartFrame, OldFrames, Called
<1>5. ASSUME NEW t \in Threads, Clear(t) \/ Check(t) PROVE FrameInv'
  <2>1. stack[t] # <<>> /\ FrameOK(Top(t)) /\ Top(t) \in Frame
        /\ Top(t).pc \in {"clear", "check"}
    BY <1>0, <1>5, TopOK DEF Clear, Check, At
  <2>2. UNCHANGED <<type, fresh, instance_map, function_map>>
    BY <1>5 DEF Clear, Check
  <2>3. \A u \in Threads : \A g \in Frames(u) : FrameOK(g)'
    BY <1>0, <2>2, OldFrames
  <2>4. ASSUME NEW pc \in {"check", "jump", "fetch", "crashed"}, Goto(t, pc),
               pc = "jump" => Top(t).op = "call" /\ type # "MULTI_QUEUED"
        PROVE  FrameInv'
    <3>1. PICK f \in Frame : f = [Top(t) EXCEPT !.pc = pc]
      BY <2>1 DEF Frame
    <3>2. f.inst = Top(t).inst /\ f.pc = pc /\ f.op = Top(t).op /\ f.cb = Top(t).cb
      BY <2>1, <3>1 DEF Frame
    <3>3. FrameOK(f)'
      BY <2>1, <2>2, <2>4, <3>2 DEF FrameOK
    <3> QED
      BY <1>0, <2>1, <2>3, <2>4, <3>1, <3>3, Replaced DEF Goto
  <2>5. ASSUME Ret(t) PROVE FrameInv'
    BY <1>0, <2>1, <2>3, <2>5, Returned
  <2>6. real_compiled_function[Top(t).inst] # None => type # "MULTI_QUEUED"
    BY <1>0, <2>1, TopOK DEF HostInv, HostOK
  <2> QED
    BY <1>5, <2>1, <2>4, <2>5, <2>6 DEF Clear, Check, Frame
<1>6. ASSUME NEW t \in Threads, FetchHit(t) PROVE FrameInv'
  <2>1. /\ stack[t] # <<>> /\ FrameOK(Top(t)) /\ Top(t) \in Frame /\ Top(t).inst \in Instances
        /\ function_map[Top(t).inst] \in Code
        /\ UNCHANGED <<type, fresh, instance_map, function_map>>
    BY <1>0, <1>6, TopOK DEF FetchHit, At, Cached
  <2>2. PICK f \in Frame : f = [Top(t) EXCEPT !.pc = "store",
                                             !.cb = function_map[Top(t).inst]]
    BY <2>1 DEF Frame
  <2>5. /\ f.inst = Top(t).inst /\ f.pc = "store" /\ f.op = Top(t).op
        /\ f.cb = function_map[Top(t).inst] /\ Replace(t, f)
    BY <1>6, <2>1, <2>2 DEF Frame, FetchHit
  <2>3. type # "MULTI_QUEUED"
    BY <1>0, <2>1, NilAssumption DEF HostInv, HostOK
  <2>4. FrameOK(f)'
    BY <2>1, <2>3, <2>5, NilAssumption DEF FrameOK, Attached
  <2> QED
    BY <1>0, <2>1, <2>4, <2>5, OldFrames, Replaced
<1>7. ASSUME NEW t \in Threads, FetchMiss(t) PROVE FrameInv'
  <2>1. PICK i \in Instances, k \in Code : i = Top(t).inst /\ k = CodeOf(i)
    BY <1>0, <1>7, TopFrame DEF FetchMiss, Missing, At, CodeOf, Code, TypeOK
  <2>2. /\ stack[t] # <<>> /\ FrameOK(Top(t)) /\ Top(t) \in Frame /\ Top(t).pc = "fetch"
        /\ function_map[i] = None /\ type # "MULTI_QUEUED"
    BY <1>0, <1>7, <2>1, TopOK DEF FetchMiss, Missing, At, Cached, TypeOK
  <2>3. PICK f \in Frame : f = [Top(t) EXCEPT !.pc = "store", !.cb = k]
    BY <2>2 DEF Frame
  <2>4. /\ UNCHANGED <<type, fresh, instance_map>> /\ Replace(t, f)
        /\ function_map' = [function_map EXCEPT ![i] = k]
    BY <1>7, <2>1, <2>3 DEF FetchMiss
  <2>5. f.inst = i /\ f.pc = "store" /\ f.cb = k /\ f.op = Top(t).op
    BY <2>1, <2>2, <2>3 DEF Frame
  <2>6. function_map'[i] = k
    BY <1>0, <2>4 DEF TypeOK
  <2>7. FrameOK(f)'
    BY <2>1, <2>2, <2>4, <2>5, <2>6, NilAssumption DEF FrameOK, Attached
  <2>8. \A u \in Threads : \A g \in Frames(u) : FrameOK(g)'
    BY <1>0, <2>2, <2>4, FilledFrames
  <2> QED
    BY <1>0, <2>2, <2>4, <2>7, <2>8, Replaced
<1>8. ASSUME NEW t \in Threads, FetchError(t) \/ FetchRaises(t) PROVE FrameInv'
  <2>1. PICK i \in Instances : i = Top(t).inst
    BY <1>0, <1>8, TopFrame DEF FetchError, FetchRaises, Missing, At
  <2>2. /\ stack[t] # <<>> /\ FrameOK(Top(t)) /\ Top(t) \in Frame /\ Top(t).pc = "fetch"
        /\ function_map[i] = None
    BY <1>0, <1>8, <2>1, TopOK DEF FetchError, FetchRaises, Missing, At, Cached, TypeOK
  <2>3. /\ UNCHANGED <<type, fresh, instance_map>>
        /\ \/ function_map' = function_map
           \/ function_map' = [function_map EXCEPT ![i] = Null]
    BY <1>8, <2>1 DEF FetchError, FetchRaises, Placeholder
  <2>4. \A u \in Threads : \A g \in Frames(u) : FrameOK(g)'
    BY <1>0, <2>2, <2>3, FilledFrames, OldFrames
  <2>5. CASE FetchError(t)
    <3>1. PICK f \in Frame : f = [Top(t) EXCEPT !.pc = "store"]
      BY <2>2 DEF Frame
    <3>2. /\ f.inst = i /\ f.pc = "store" /\ f.cb = Top(t).cb /\ f.op = Top(t).op
      BY <2>1, <2>2, <3>1 DEF Frame
    <3>3. Replace(t, f) /\ Outcome[i] = "error" /\ type # "MULTI_QUEUED" /\ f.cb = None
      BY <2>1, <2>2, <2>5, <3>1, <3>2 DEF FetchError, Goto, FrameOK
    <3>4. FrameOK(f)'
      BY <2>1, <2>2, <2>3, <3>2, <3>3 DEF FrameOK, Attached
    <3> QED
      BY <1>0, <2>2, <2>4, <3>3, <3>4, Replaced
  <2>6. CASE FetchRaises(t) /\ Ret(t)
    BY <1>0, <2>2, <2>4, <2>6, Returned
  <2>7. CASE FetchRaises(t) /\ Goto(t, "crashed")
    <3>1. PICK f \in Frame : f = [Top(t) EXCEPT !.pc = "crashed"]
      BY <2>2 DEF Frame
    <3>2. f.inst = i /\ f.pc = "crashed" /\ f.op = Top(t).op /\ Replace(t, f)
      BY <2>1, <2>2, <2>7, <3>1 DEF Frame, Goto
    <3>3. FrameOK(f)'
      BY <2>1, <2>2, <2>3, <3>2 DEF FrameOK
    <3> QED
      BY <1>0, <2>2, <2>4, <3>2, <3>3, Replaced
  <2> QED
    BY <1>8, <2>5, <2>6, <2>7 DEF FetchRaises
<1>9. ASSUME NEW t \in Threads, Store(t) PROVE FrameInv'
  <2>1. /\ stack[t] # <<>> /\ FrameOK(Top(t)) /\ Top(t) \in Frame /\ Top(t).pc = "store"
        /\ UNCHANGED <<type, fresh, instance_map, function_map>>
    BY <1>0, <1>9, TopOK DEF Store, At
  <2>2. \A u \in Threads : \A g \in Frames(u) : FrameOK(g)'
    BY <1>0, <2>1, OldFrames
  <2>3. CASE Goto(t, "jump") /\ Top(t).op = "call"
    <3>1. PICK f \in Frame : f = [Top(t) EXCEPT !.pc = "jump"]
      BY <2>1 DEF Frame
    <3>2. f.inst = Top(t).inst /\ f.pc = "jump" /\ f.op = "call" /\ Replace(t, f)
      BY <2>1, <2>3, <3>1 DEF Frame, Goto
    <3>3. FrameOK(f)'
      BY <2>1, <3>2 DEF FrameOK
    <3> QED
      BY <1>0, <2>1, <2>2, <3>2, <3>3, Replaced
  <2>4. CASE Ret(t)
    BY <1>0, <2>1, <2>2, <2>4, Returned
  <2> QED
    BY <1>9, <2>3, <2>4 DEF Store
<1>10. ASSUME NEW t \in Threads, Jump(t) PROVE FrameInv'
  <2>1. /\ stack[t] # <<>> /\ FrameOK(Top(t)) /\ Top(t) \in Frame /\ Top(t).pc = "jump"
        /\ Top(t).inst \in Instances
        /\ UNCHANGED <<type, fresh, instance_map, function_map>>
    BY <1>0, <1>10, TopOK DEF Jump, At
  <2>2. PICK cb \in Code \cup {None} : cb = real_compiled_function[Top(t).inst]
    BY <1>0, <2>1 DEF TypeOK
  <2>3. PICK f \in Frame :
          f = [Top(t) EXCEPT !.pc = IF cb \in runtime THEN "run" ELSE "crashed", !.cb = cb]
    BY <2>1 DEF Frame
  <2>4. /\ f.inst = Top(t).inst /\ f.cb = cb /\ f.op = Top(t).op
        /\ f.pc = IF cb \in runtime THEN "run" ELSE "crashed"
    BY <2>1, <2>3 DEF Frame
  <2>5. Replace(t, f)
    BY <1>10, <2>2, <2>3 DEF Jump
  <2>6. cb \in runtime => cb \in Code
    BY <1>0 DEF TypeOK
  <2>7. Attached(Top(t).inst) => cb \in {None, function_map[Top(t).inst]}
    BY <1>0, <2>1, <2>2 DEF HostInv, HostOK
  <2>8. FrameOK(f)'
    BY <2>1, <2>4, <2>6, <2>7, NilAssumption DEF FrameOK, Attached
  <2> QED
    BY <1>0, <2>1, <2>5, <2>8, OldFrames, Replaced
<1>11. ASSUME NEW t \in Threads, Return(t) PROVE FrameInv'
  <2>1. stack[t] # <<>> /\ Ret(t) /\ UNCHANGED <<type, fresh, instance_map, function_map>>
    BY <1>11 DEF Return, At
  <2> QED
    BY <1>0, <2>1, OldFrames, Returned
<1>12. CASE UNCHANGED vars
  BY <1>0, <1>12 DEF FrameInv, FrameOK, Attached, Frames, vars
<1>13. ASSUME NEW t \in Threads, Invoke(t) PROVE FrameInv'
  <2>1. PICK i \in Callees[Top(t).inst] \ fresh :
          stack' = [stack EXCEPT ![t] = <<Start(i, "call")>> \o @]
    BY <1>13 DEF Invoke
  <2>2. i \in Instances
    BY <1>0, <1>13, TopFrame, OrchestratorAssumption DEF Invoke, At
  <2> QED
    BY <1>4, <1>13, <2>1, <2>2
<1> QED
  BY <1>1, <1>2, <1>3, <1>4, <1>5, <1>6, <1>7, <1>8, <1>9, <1>10, <1>11, <1>12, <1>13
     DEF Next, Fetch

-----------------------------------------------------------------------------
(* Who is about to jump has code.  A step can only spoil that by taking a  *)
(* frame of recompile() off a stack or by clearing a pointer.              *)
LEMMA KeepsRecompiles ==
  ASSUME NEW t \in Threads, NEW i,
         \A u \in Threads \ {t} : stack'[u] = stack[u],
         Frames(t) \subseteq {Top(t)} \cup Frames(t)',
         Top(t).op = "recompile" /\ Top(t).inst = i => Recompiles(t, i)',
         NEW u \in Threads, Recompiles(u, i)
  PROVE  Recompiles(u, i)'
BY DEF Recompiles, Frames

LEMMA JumpStep == IInv /\ [Next]_vars => JumpInv'
<1> SUFFICES ASSUME IInv, [Next]_vars PROVE JumpInv'
  OBVIOUS
<1>0. TypeOK /\ FrameInv /\ HostInv /\ JumpInv
  BY DEF IInv
<1> DEFINE Kept == \A i \in Instances : Outcome[i] = "code" /\ real_compiled_function[i] # None
                                       => real_compiled_function'[i] # None
<1> DEFINE Waits(f) == f.pc = "jump" /\ Attached(f.inst) /\ Outcome[f.inst] = "code"
<1>1. ASSUME NEW i \in Instances, Create(i) PROVE JumpInv'
  <2>1. /\ UNCHANGED <<real_compiled_function, stack>> /\ i \in fresh
        /\ instance_map' = instance_map \cup {i}
    BY <1>1 DEF Create
  <2> SUFFICES ASSUME NEW t \in Threads, NEW f \in Frames(t), Waits(f)' PROVE HasCode(f.inst)'
    BY <2>1 DEF JumpInv, Frames
  <2>2. Waits(f)
    BY <1>0, <2>1 DEF FrameInv, FrameOK, Attached
  <2> QED
    BY <1>0, <2>1, <2>2 DEF JumpInv, HasCode, Recompiles
<1>2. ASSUME NEW i \in Instances, Edit(i) \/ ForgetParent(i) \/ Detach(i) PROVE JumpInv'
  <2>1. /\ UNCHANGED <<real_compiled_function, stack>>
        /\ instance_map' \subseteq instance_map
    BY <1>2 DEF Edit, ForgetParent, Detach
  <2> QED
    BY <1>0, <2>1 DEF JumpInv, HasCode, Recompiles, Attached, Frames
<1>3. CASE UNCHANGED vars
  BY <1>0, <1>3 DEF JumpInv, HasCode, Recompiles, Attached, Frames, vars
\* A step of t puts f on its stack or changes its top into f.
<1>4. ASSUME NEW t \in Threads, NEW f \in Frame, UNCHANGED instance_map, Kept,
             \/ stack' = [stack EXCEPT ![t] = <<f>> \o @]
             \/ /\ stack[t] # <<>> /\ Replace(t, f)
                /\ f.op = Top(t).op /\ f.inst = Top(t).inst,
             f.pc = "jump" /\ Outcome[f.inst] = "code" => real_compiled_function'[f.inst] # None
      PROVE  JumpInv'
  <2>1. /\ \A u \in Threads \ {t} : stack'[u] = stack[u]
        /\ Frames(t)' \subseteq {f} \cup Frames(t)
        /\ Frames(t) \subseteq {Top(t)} \cup Frames(t)'
        /\ f \in Frames(t)'
    BY <1>0, <1>4, ReplaceFrames, CallFrames
  <2>2. \A u \in Threads : \A i : Recompiles(u, i) => Recompiles(u, i)'
    <3>1. CASE stack' = [stack EXCEPT ![t] = <<f>> \o @]
      BY <1>0, <2>1, <3>1, CallFrames DEF Recompiles, Frames
    <3>2. CASE f.op = Top(t).op /\ f.inst = Top(t).inst
      BY <2>1, <3>2 DEF Recompiles, Frames
    <3> QED
      BY <1>4, <3>1, <3>2
  <2>3. \A u \in Threads : \A g \in Frames(u)' : g = f \/ g \in Frames(u)
    BY <2>1 DEF Frames
  <2> SUFFICES ASSUME NEW u \in Threads, NEW g \in Frames(u)', Waits(g)' PROVE HasCode(g.inst)'
    BY DEF JumpInv
  <2>4. CASE g = f
    BY <1>4, <2>4 DEF HasCode
  <2>5. CASE g \in Frames(u)
    <3>1. HasCode(g.inst) /\ g.inst \in Instances /\ Outcome[g.inst] = "code"
      BY <1>0, <1>4, <2>5, FrameTyped DEF JumpInv, Attached
    <3> QED
      BY <1>4, <2>2, <3>1 DEF HasCode
  <2> QED
    BY <2>3, <2>4, <2>5
\* A frame of t ends; if it was recompile(), its instance has code, or nobody
\* waits for its code.
<1>5. ASSUME NEW t \in Threads, stack[t] # <<>>, Ret(t), UNCHANGED instance_map, Kept,
             \/ Top(t).op = "call"
             \/ real_compiled_function'[Top(t).inst] # None
             \/ Outcome[Top(t).inst] # "code" \/ type = "MULTI_QUEUED"
      PROVE  JumpInv'
  <2>1. /\ \A u \in Threads \ {t} : stack'[u] = stack[u]
        /\ Frames(t)' \subseteq Frames(t)
        /\ Frames(t) \subseteq {Top(t)} \cup Frames(t)'
    BY <1>0, <1>5, ReturnFrames
  <2>2. \A u \in Threads : Frames(u)' \subseteq Frames(u)
    BY <2>1 DEF Frames
  <2> SUFFICES ASSUME NEW u \in Threads, NEW g \in Frames(u)', Waits(g)' PROVE HasCode(g.inst)'
    BY DEF JumpInv
  <2>3. /\ g \in Frames(u) /\ g.inst \in Instances /\ FrameOK(g) /\ HasCode(g.inst)
        /\ g.pc = "jump" /\ Outcome[g.inst] = "code"
    BY <1>0, <1>5, <2>2, FrameTyped DEF FrameInv, JumpInv, Attached
  <2>4. type # "MULTI_QUEUED"
    BY <2>3 DEF FrameOK
  <2>5. CASE real_compiled_function[g.inst] # None
    BY <1>5, <2>3, <2>5 DEF HasCode
  <2>6. CASE \E v \in Threads : Recompiles(v, g.inst)
    <3>1. PICK v \in Threads : Recompiles(v, g.inst)
      BY <2>6
    <3>2. CASE Recompiles(v, g.inst)'
      BY <3>2 DEF HasCode
    <3>3. CASE ~ Recompiles(v, g.inst)'
      <4>1. Top(t).op = "recompile" /\ Top(t).inst = g.inst
        BY <2>1, <3>1, <3>3 DEF Recompiles, Frames
      <4> QED
        BY <1>5, <2>3, <2>4, <4>1 DEF HasCode
    <3> QED
      BY <3>2, <3>3
  <2> QED
    BY <2>3, <2>5, <2>6 DEF HasCode
<1>6. ASSUME NEW t \in Threads, NEW i \in Instances, NEW op \in {"call", "recompile"},
             Begin(t, i, op)
      PROVE  JumpInv'
  BY <1>4, <1>6, StartFrame DEF Begin, Start
<1>7. ASSUME NEW t \in Threads, Invoke(t) PROVE JumpInv'
  <2>1. PICK i \in Callees[Top(t).inst] \ fresh :
          stack' = [stack EXCEPT ![t] = <<Start(i, "call")>> \o @]
    BY <1>7 DEF Invoke
  <2>2. i \in Instances
    BY <1>0, <1>7, TopFrame, OrchestratorAssumption DEF Invoke, At
  <2> QED
    BY <1>4, <1>7, <2>1, <2>2, StartFrame DEF Invoke, Start
<1>8. ASSUME NEW t \in Threads, Clear(t) PROVE JumpInv'
  <2>1. /\ stack[t] # <<>> /\ FrameOK(Top(t)) /\ Top(t) \in Frame /\ Top(t).op = "recompile"
        /\ UNCHANGED instance_map
    BY <1>0, <1>8, TopOK DEF Clear, At, FrameOK
  <2>2. PICK f \in Frame : f = [Top(t) EXCEPT !.pc = "check"]
    BY <2>1 DEF Frame
  <2>3. f.inst = Top(t).inst /\ f.pc = "check" /\ f.op = "recompile" /\ Replace(t, f)
    BY <1>8, <2>1, <2>2 DEF Frame, Clear, Goto
  <2>4. /\ \A u \in Threads \ {t} : stack'[u] = stack[u]
        /\ Frames(t)' \subseteq {f} \cup Frames(t)
        /\ Frames(t) \subseteq {Top(t)} \cup Frames(t)'
        /\ f \in Frames(t)'
    BY <1>0, <2>1, <2>3, ReplaceFrames
  <2>5. Recompiles(t, f.inst)'
    BY <2>3, <2>4 DEF Recompiles, Frames
  <2>6. \A u \in Threads : \A i : Recompiles(u, i) => Recompiles(u, i)'
    BY <2>3, <2>4, <2>5 DEF Recompiles, Frames
  <2>7. \A i \in Instances \ {f.inst} : real_compiled_function'[i] = real_compiled_function[i]
    BY <1>0, <1>8, <2>3 DEF Clear, TypeOK
  <2> SUFFICES ASSUME NEW u \in Threads, NEW g \in Frames(u)', Waits(g)' PROVE HasCode(g.inst)'
    BY DEF JumpInv
  <2>8. g # f /\ g \in Frames(u)
    BY <2>3, <2>4 DEF Frames
  <2>9. HasCode(g.inst) /\ g.inst \in Instances
    BY <1>0, <2>1, <2>8, FrameTyped DEF JumpInv, Attached
  <2> QED
    BY <2>5, <2>6, <2>7, <2>9 DEF HasCode
\* The steps that leave the pointers alone and only move the top of t.
<1>9. ASSUME NEW t \in Threads, stack[t] # <<>>, UNCHANGED <<instance_map, real_compiled_function>>,
             NEW pc \in {"fetch", "store", "jump", "run", "crashed"}, NEW cb \in Code \cup {None},
             Replace(t, [Top(t) EXCEPT !.pc = pc, !.cb = cb]),
             pc = "jump" => real_compiled_function[Top(t).inst] # None
      PROVE  JumpInv'
  <2>1. Top(t) \in Frame
    BY <1>0, <1>9, TopOK
  <2>2. PICK f \in Frame : f = [Top(t) EXCEPT !.pc = pc, !.cb = cb]
    BY <2>1 DEF Frame
  <2>3. f.inst = Top(t).inst /\ f.pc = pc /\ f.op = Top(t).op
    BY <2>1, <2>2 DEF Frame
  <2> QED
    BY <1>4, <1>9, <2>2, <2>3
<1>10. ASSUME NEW t \in Threads, stack[t] # <<>>,
              NEW pc \in {"fetch", "store", "jump", "run", "crashed"}, Goto(t, pc)
       PROVE  Replace(t, [Top(t) EXCEPT !.pc = pc, !.cb = Top(t).cb]) /\ Top(t).cb \in Code \cup {None}
  <2>1. Top(t) \in Frame /\ Top(t).cb \in Code \cup {None}
    BY <1>0, <1>10, TopFrame
  <2>2. [Top(t) EXCEPT !.pc = pc] = [Top(t) EXCEPT !.pc = pc, !.cb = Top(t).cb]
    BY <2>1 DEF Frame
  <2> QED
    BY <1>10, <2>1, <2>2 DEF Goto
<1>11. ASSUME NEW t \in Threads, Check(t) PROVE JumpInv'
  <2>1. stack[t] # <<>> /\ UNCHANGED <<instance_map, real_compiled_function>>
    BY <1>11 DEF Check, At
  <2>2. CASE real_compiled_function[Top(t).inst] # None /\ Goto(t, "jump")
    BY <1>9, <1>10, <2>1, <2>2
  <2>3. CASE real_compiled_function[Top(t).inst] # None /\ Ret(t)
    BY <1>5, <2>1, <2>3
  <2>4. CASE Goto(t, "fetch")
    BY <1>9, <1>10, <2>1, <2>4
  <2>5. CASE Goto(t, "crashed")
    BY <1>9, <1>10, <2>1, <2>5
  <2> QED
    BY <1>11, <2>2, <2>3, <2>4, <2>5 DEF Check
<1>12. ASSUME NEW t \in Threads, FetchHit(t) \/ FetchMiss(t) PROVE JumpInv'
  <2>1. stack[t] # <<>> /\ UNCHANGED <<instance_map, real_compiled_function>>
    BY <1>12 DEF FetchHit, FetchMiss, Missing, At
  <2>2. PICK cb \in Code : Replace(t, [Top(t) EXCEPT !.pc = "store", !.cb = cb])
    <3>1. CASE FetchHit(t)
      BY <3>1 DEF FetchHit, Cached
    <3>2. CASE FetchMiss(t)
      <4>1. CodeOf(Top(t).inst) \in Code
        BY <1>0, <2>1, TopFrame DEF CodeOf, Code, TypeOK
      <4> QED
        BY <3>2, <4>1 DEF FetchMiss
    <3> QED
      BY <1>12, <3>1, <3>2
  <2> QED
    BY <1>9, <2>1, <2>2
<1>13. ASSUME NEW t \in Threads, FetchError(t) \/ FetchRaises(t) PROVE JumpInv'
  <2>1. stack[t] # <<>> /\ UNCHANGED <<instance_map, real_compiled_function>>
    BY <1>13 DEF FetchError, FetchRaises, Missing, At
  <2>2. CASE Goto(t, "store")
    BY <1>9, <1>10, <2>1, <2>2
  <2>3. CASE Goto(t, "crashed")
    BY <1>9, <1>10, <2>1, <2>3
  <2>4. CASE FetchRaises(t) /\ Ret(t)
    BY <1>5, <2>1, <2>4 DEF FetchRaises
  <2> QED
    BY <1>13, <2>2, <2>3, <2>4 DEF FetchError, FetchRaises
<1>14. ASSUME NEW t \in Threads, Store(t) PROVE JumpInv'
  <2>1. /\ stack[t] # <<>> /\ UNCHANGED instance_map /\ FrameOK(Top(t)) /\ Top(t).pc = "store"
        /\ Top(t) \in Frame /\ Top(t).inst \in Instances
    BY <1>0, <1>14, TopOK DEF Store, At
  <2>2. \A i \in Instances : real_compiled_function'[i] =
          IF i = Top(t).inst THEN Top(t).cb ELSE real_compiled_function[i]
    BY <1>0, <1>14 DEF Store, Stored, TypeOK
  <2>3. Outcome[Top(t).inst] = "code" => Top(t).cb # None
    BY <2>1 DEF FrameOK
  <2>4. Kept
    BY <2>2, <2>3
  <2>5. CASE Goto(t, "jump")
    <3>1. PICK f \in Frame : f = [Top(t) EXCEPT !.pc = "jump"]
      BY <2>1 DEF Frame
    <3>2. f.inst = Top(t).inst /\ f.op = Top(t).op /\ Replace(t, f)
      BY <2>1, <2>5, <3>1 DEF Frame, Goto
    <3> QED
      BY <1>4, <2>1, <2>2, <2>3, <2>4, <3>2
  <2>6. CASE Ret(t)
    BY <1>5, <2>1, <2>2, <2>3, <2>4, <2>6
  <2> QED
    BY <1>14, <2>5, <2>6 DEF Store
<1>15. ASSUME NEW t \in Threads, Jump(t) PROVE JumpInv'
  <2>1. stack[t] # <<>> /\ UNCHANGED <<instance_map, real_compiled_function>>
        /\ real_compiled_function[Top(t).inst] \in Code \cup {None}
    BY <1>0, <1>15, TopFrame DEF Jump, At, TypeOK
  <2> QED
    BY <1>9, <1>15, <2>1 DEF Jump
<1>16. ASSUME NEW t \in Threads, Return(t) PROVE JumpInv'
  <2>1. /\ stack[t] # <<>> /\ UNCHANGED <<instance_map, real_compiled_function>> /\ Ret(t)
        /\ Top(t).op = "call"
    BY <1>0, <1>16, TopOK DEF Return, At, FrameOK, Frame
  <2> QED
    BY <1>5, <2>1
<1> QED
  BY <1>1, <1>2, <1>3, <1>6, <1>7, <1>8, <1>11, <1>12, <1>13, <1>14, <1>15, <1>16
     DEF Next, Fetch

-----------------------------------------------------------------------------
\* The variables keep their types in every behaviour of the specification.
THEOREM TypeCorrect == Spec => []TypeOK
BY InitIInv, TypeStep, PTL DEF Spec, IInv

\* What is said above of frames, hosts and jumps holds in every reachable state.
THEOREM Invariant == Spec => []IInv
<1>1. IInv /\ [Next]_vars => IInv'
  BY TypeStep, HostStep, FrameStep, JumpStep DEF IInv
<1> QED
  BY InitIInv, <1>1, PTL DEF Spec

\* An attached instance keeps no pointer but the one the handler's map has
\* (compile_internal, recompile, detach of orchestrator.h).
THEOREM PointersAgree == Spec => []EntriesAgree
<1>1. IInv => EntriesAgree
  BY DEF IInv, HostInv, HostOK, EntriesAgree
<1> QED
  BY Invariant, <1>1, PTL

\* Code that a thread executes for an attached instance is never released
\* under it (remove_function), at any depth of calls.
THEOREM ExecutedCodeLives == Spec => []FramesLive
<1>1. ASSUME IInv PROVE FramesLive
  <2> SUFFICES ASSUME NEW t \in Threads, NEW f \in Frames(t), f.pc = "run", Attached(f.inst)
               PROVE  f.cb \in runtime
    BY DEF FramesLive, Frames
  <2>1. FrameOK(f) /\ f.inst \in Instances /\ HostOK(f.inst)
    BY <1>1, FrameTyped DEF IInv, FrameInv, HostInv
  <2> QED
    BY <2>1 DEF FrameOK, HostOK
<1> QED
  BY Invariant, <1>1, PTL

\* The trampoline of an attached instance jumps into live code unless another
\* thread is inside recompile() of the same instance.
THEOREM TrampolinesLand == Spec => []JumpsLand
<1>1. ASSUME IInv PROVE JumpsLand
  <2> SUFFICES ASSUME NEW t \in Threads, At(t, "jump"), Attached(Top(t).inst),
                      Outcome[Top(t).inst] = "code"
               PROVE  \/ real_compiled_function[Top(t).inst] \in runtime
                      \/ \E u \in Threads : Recompiles(u, Top(t).inst)
    BY DEF JumpsLand
  <2>1. /\ Top(t) \in Frames(t) /\ Top(t).inst \in Instances /\ HostOK(Top(t).inst)
        /\ HasCode(Top(t).inst)
    BY <1>1, TopFrame DEF IInv, HostInv, JumpInv, At
  <2>2. real_compiled_function[Top(t).inst] \in Code \cup {None}
    BY <1>1, <2>1 DEF IInv, TypeOK
  <2> QED
    BY <2>1, <2>2 DEF HostOK, HasCode
<1> QED
  BY Invariant, <1>1, PTL

\* With the default handler the runtime holds exactly the code of the map.
THEOREM NothingLeaks == Spec => []NoLeak
BY Invariant, PTL DEF IInv
=============================================================================
