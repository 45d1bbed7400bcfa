----------------------------- MODULE MCRefCount -----------------------------
(* Model values for RefCount.                                              *)
EXTENDS RefCount, TLC

CONSTANTS client, worker, s1, s2, s3, atomic1, atomic2, plain
MCThreads == {client, worker}
MCSlots == {s1, s2, s3}
MCFirstOwner == s1 :> client @@ s2 :> client @@ s3 :> worker
MCObjects == {atomic1, atomic2, plain}
MCPlain == {plain}
MCSymmetry == Permutations({s1, s2}) \cup Permutations({atomic1, atomic2})
=============================================================================
