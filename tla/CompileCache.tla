---------------------------- MODULE CompileCache ----------------------------
(***************************************************************************)
(* What a CompilationHandler promises to the FunctionInstances that share  *)
(* it, with no threads, locks or queues: a client asks for the code of a   *)
(* host (the address of a Function), and is answered, in one step, with    *)
(* the code the cache holds for that host, or with code compiled for that  *)
(* host which the same step puts in the cache, or with a failure that      *)
(* leaves the cache as it was.  An entry disappears only when it is        *)
(* evicted.  The handlers of runtime_agent.cpp are checked to implement    *)
(* this module.                                                            *)
(***************************************************************************)
CONSTANTS Clients, Hosts,
          Code,      \* what a compilation yields: records with a field "host"
          None,      \* no entry, no question, no answer
          Failed     \* the answer of a compilation that failed

VARIABLES cached,    \* host   -> the code the handler would hand out, or None
          asked,     \* client -> the host it waits for, or None
          answer     \* client -> what it was answered, or None

cvars == <<cached, asked, answer>>

CInit ==
  /\ cached = [h \in Hosts |-> None]
  /\ asked  = [c \in Clients |-> None]
  /\ answer = [c \in Clients |-> None]

Waits(c) == asked[c] # None /\ answer[c] = None

Ask(c, h) ==
  /\ asked[c] = None
  /\ asked' = [asked EXCEPT ![c] = h]
  /\ UNCHANGED <<cached, answer>>

Hit(c) ==
  /\ Waits(c)
  /\ cached[asked[c]] # None
  /\ answer' = [answer EXCEPT ![c] = cached[asked[c]]]
  /\ UNCHANGED <<cached, asked>>

Fill(c) ==
  /\ Waits(c)
  /\ LET k == answer'[c]   \* any code compiled for the host
     IN  /\ k \in Code
         /\ k.host = asked[c]
         /\ cached' = [cached EXCEPT ![asked[c]] = k]
         /\ answer' = [answer EXCEPT ![c] = k]
  /\ UNCHANGED asked

Fail(c) ==
  /\ Waits(c)
  /\ answer' = [answer EXCEPT ![c] = Failed]
  /\ UNCHANGED <<cached, asked>>

Leave(c) ==
  /\ answer[c] # None
  /\ asked'  = [asked EXCEPT ![c] = None]
  /\ answer' = [answer EXCEPT ![c] = None]
  /\ UNCHANGED cached

Evict(h) ==
  /\ cached' = [cached EXCEPT ![h] = None]
  /\ UNCHANGED <<asked, answer>>

CNext ==
  \/ \E c \in Clients : Hit(c) \/ Fill(c) \/ Fail(c) \/ Leave(c)
  \/ \E c \in Clients, h \in Hosts : Ask(c, h)
  \/ \E h \in Hosts : Evict(h)

CSpec == CInit /\ [][CNext]_cvars
=============================================================================
