------------------------------ MODULE MCEngine -------------------------------
(* Instances of Engine for TLC. *)
EXTENDS Engine

CONSTANTS p1, p2, root, child, leaf

\* The pages of two sites that follow up on each other: the middle one is in
\* the shard of p2, the others in the shard of p1.
Chain == [k \in Keys |-> CASE k = root  -> {child}
                           [] k = child -> {leaf} \intersect Keys
                           [] OTHER     -> {}]
TwoShards == [p \in Procs |-> IF p = p1 THEN {root, leaf} \intersect Keys ELSE {child}]
=============================================================================
