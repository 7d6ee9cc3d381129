----------------------------- MODULE MCFrontier -----------------------------
(* Instances of Frontier for TLC. *)
EXTENDS Frontier, TLC

CONSTANTS p1, p2, k1, k2, k3, k4, k5, w1, w2, g1, g2

\* The host_shard filter is off: every process sees every key.
Unsharded == [p \in Procs |-> Keys]

\* The default worker ids (hostname:pid) of processes, all different.
DistinctIds == [p \in Procs |-> IF p = p1 THEN w1 ELSE w2]

\* worker.count = 2 on the site of pages k3, k4 and k5: p1 owns the rest.
NotThePages == [p \in Procs |-> Keys \ {k3, k4, k5}]

\* k1 is a host probe, re-activated by every enqueue; k2 is a fan-out child,
\* only ever ensured or resumed; k3, k4 and k5 are pages of one host.
AllModesInUse ==
  [k \in Keys |-> CASE k = k1 -> {"enqueue"}
                    [] k = k2 -> {"ensure", "resume"}
                    [] OTHER  -> {"budgeted"}]
PagesShareAHost == [k \in Keys |-> IF k \in {k3, k4, k5} THEN "pages" ELSE k]

\* Goroutines inside enqueue are alike, and so are the pages k3, k4 and k5.
AlikeCallers == Permutations(Callers)
AlikeCallersAndPages == Permutations(Callers) \union Permutations({k3, k4, k5})
=============================================================================
