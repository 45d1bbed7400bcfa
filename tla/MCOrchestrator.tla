--------------------------- MODULE MCOrchestrator ---------------------------
(* Model values for Orchestrator.                                          *)
EXTENDS Orchestrator

CONSTANTS t1, t2, i1, i2
MCThreads == {t1, t2}
MCInstances == {i1, i2}
MCCallees == i1 :> {i1, i2} @@ i2 :> {i1}
MCOutcome == i1 :> "code" @@ i2 :> "error"
MCCode == i1 :> "code" @@ i2 :> "code"
MCOneThread == {t1}
=============================================================================
