-------------------------- MODULE MCQueuedHandler --------------------------
(* Model values for QueuedHandler.                                         *)
EXTENDS QueuedHandler

CONSTANTS c1, c2, h1, h2
MCClients == {c1, c2}
MCHosts == {h1, h2}
MCFailing == {h2}
MCJobs == [op : Op, host : {h1}] \cup [op : {"recompile"}, host : {h2}]
=============================================================================
