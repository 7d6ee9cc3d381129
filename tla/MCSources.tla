----------------------------- MODULE MCSources -----------------------------
(* An instance of Sources for TLC: three host names, answers of up to two  *)
(* items, logs of up to five leaves read in chunks of two.                 *)
EXTENDS Sources

CONSTANTS a, b, infra

Raw(n, f) == [name |-> n, form |-> f]
\* A leaf, row or record without a name, with one name written in two ways,
\* with a name that is none, with two names.
MCItems == {<<>>, <<Raw(a, "plain")>>, <<Raw(b, "plain"), Raw(a, "styled")>>,
            <<Raw(b, "invalid")>>, <<Raw(infra, "plain")>>}

Shard(s, e) == [usable |-> TRUE, matches |-> TRUE, interval |-> TRUE, start |-> s, end |-> e]
Retired(shard) == [shard EXCEPT !.usable = FALSE]
OfOthers(shard) == [shard EXCEPT !.matches = FALSE]
Always == [Shard(0, 0) EXCEPT !.interval = FALSE]
\* A log list with one shard that covers now and one to come, one with two
\* operators and a log without an interval, one without a log to read.
MCLogLists == {<< <<Shard(-1, 1), Shard(1, 3), Retired(Shard(-1, 1))>>, <<OfOthers(Always)>> >>,
               << <<Shard(3, 5)>>, <<Always, Shard(2, 4), Shard(1, 2)>> >>,
               << <<Shard(-3, -1), Shard(3, 5)>> >>}
=============================================================================
