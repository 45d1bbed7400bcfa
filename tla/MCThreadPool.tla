---------------------------- MODULE MCThreadPool ----------------------------
(* Model values for ThreadPool.                                            *)
EXTENDS ThreadPool

CONSTANTS w1, w2, t1, t2, t3, t4
MCWorkers == {w1, w2}
MCTasks == {t1, t2, t3, t4}
MCPriority == t1 :> 0 @@ t2 :> 0 @@ t3 :> 1 @@ t4 :> 2
MCGroup == <<t1, t2>>
=============================================================================
