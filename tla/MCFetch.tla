------------------------------ MODULE MCFetch ------------------------------
(* Instances of Fetch for TLC: a process and two hosts that redirect to each *)
(* other; a fleet of two and one host written in three ways.                *)
EXTENDS Fetch

CONSTANTS w1, w2, a, b, aPort, aCaps

Same == [x \in {a, b} |-> x]
OneOwner == [x \in {a, b} |-> w1]
SomeTargets == {[scheme |-> "http", host |-> a], [scheme |-> "https", host |-> b]}

\* a:8443 is the host name a at another port, A the same host in capitals.
Written == {a, aPort, aCaps}
FleetHostname == [x \in Written |-> IF x = aPort THEN a ELSE x]
FleetLower == [x \in Written |-> IF x = aCaps THEN a ELSE x]
FleetMachine == [x \in Written |-> a]
\* fnv32a mod HostShardCount mod the number of workers.
FleetOwner == [x \in Written |-> IF x = a THEN w1 ELSE w2]
=============================================================================
