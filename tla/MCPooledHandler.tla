-------------------------- MODULE MCPooledHandler --------------------------
(* Model values for PooledHandler.                                         *)
EXTENDS PooledHandler

CONSTANTS c1, c2, c3, w1, w2, h1, h2
MCClients == {c1, c2, c3}
MCWorkers == {w1, w2}
MCHosts == {h1, h2}
MCFailing == {h2}
MCRequests == [op : {"get_or_create"}, host : MCHosts]
                \cup [op : {"recompile"}, host : {h1}]
=============================================================================
