------------------------------ MODULE MCStore ------------------------------
(* An instance of Store for TLC: two processes, of which one has two        *)
(* workers, a host they all find, and a registry reference with and one     *)
(* without a referral parent.                                              *)
EXTENDS Store

CONSTANTS p1, p2, w1, w2, w3, i1, host, top, nested

TheProcesses == {p1, p2}
TheWorkers == {w1, w2, w3}
PoolOf == [g \in TheWorkers |-> IF g = w3 THEN p2 ELSE p1]
TheItems == {i1}
TheHosts == {host}
TheReferences == {top, nested}
=============================================================================
