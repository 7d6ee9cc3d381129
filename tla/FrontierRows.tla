---------------------------- MODULE FrontierRows ----------------------------
(***************************************************************************)
(* One frontier_items row and the column updates the frontier package      *)
(* writes to it (src/internal/frontier/frontier.go).  The modules that     *)
(* move rows extend this one, so that each SQL UPDATE has one definition.  *)
(*                                                                         *)
(* Only the columns the queue itself reads are kept: status, attempts,     *)
(* leased_until and worker_id.  The clock is reduced to what ReclaimExpired*)
(* asks of it: whether leased_until has passed.  `gen' is a history        *)
(* component, the number of times the row has been leased; it tells one    *)
(* claim of a row from the next and no action's guard reads it.            *)
(***************************************************************************)
EXTENDS Integers, FiniteSets

CONSTANTS
  Keys,        \* the dedup keys (one row at most for each)
  WorkerIds,   \* the values of frontier_items.worker_id
  NoWorker,    \* the empty worker_id
  MaxAttempts  \* the retry cap for transient failures

ASSUME WorkerIdAssumption == NoWorker \notin WorkerIds
ASSUME MaxAttemptsAssumption == MaxAttempts \in Nat \ {0}

\* "absent" is a dedup key with no row; the others are the status column.
Status == {"absent", "pending", "in_flight", "done", "failed"}
Finished == {"done", "failed"}

Row == [status   : Status,
        attempts : Nat,
        lease    : {"none", "live", "expired"},
        worker   : WorkerIds \union {NoWorker},
        gen      : Nat]

NoRow == [status |-> "absent", attempts |-> 0, lease |-> "none",
          worker |-> NoWorker, gen |-> 0]

\* The row Create inserts.
NewRow == [NoRow EXCEPT !.status = "pending"]

\* Faulty variant: the update changes the status but keeps the lease columns.
Released_LeaseKept(r, s) == [r EXCEPT !.status = s]

\* leaseReleaseUpdates: every update that leaves in_flight clears the lease.
Released(r, s) ==
  [r EXCEPT !.status = s, !.lease = "none", !.worker = NoWorker]

\* The UPDATE that turns a done or failed row into fresh pending work.
Reactivated(r) == [Released(r, "pending") EXCEPT !.attempts = 0]

\* Faulty variant: the update leaves worker_id as it was.
Leased_WorkerKept(r, w) ==
  [r EXCEPT !.status = "in_flight", !.lease = "live", !.gen = @ + 1]

\* Dequeue's UPDATE.
Leased(r, w) ==
  [r EXCEPT !.status = "in_flight", !.lease = "live", !.worker = w,
            !.gen = @ + 1]

\* Faulty variant: any in_flight row passes, whoever holds it.
Owned_AnyWorker(r, w) == r.status = "in_flight"

\* The WHERE clause of Complete, Requeue and Fail, less the id.
Owned(r, w) == r.status = "in_flight" /\ r.worker = w

\* Faulty variant: one retry too many.
Charged_OffByOne(r, seen, limit) ==
  [Released(r, IF seen >= limit THEN "failed" ELSE "pending")
     EXCEPT !.attempts = seen + 1]

\* Fail's UPDATE, computed from the attempts column read before it.
Charged(r, seen, limit) ==
  [Released(r, IF seen + 1 >= limit THEN "failed" ELSE "pending")
     EXCEPT !.attempts = seen + 1]

\* Faulty variant: the sweep forgets to compare leased_until with the clock.
SweptExpired_AllLeases(r) ==
  IF r.status = "in_flight" THEN Released(r, "pending") ELSE r

\* ReclaimExpired, on one row.
SweptExpired(r) ==
  IF r.status = "in_flight" /\ r.lease = "expired"
  THEN Released(r, "pending") ELSE r

\* ReclaimInFlight, on one row.
SweptAll(r) == IF r.status = "in_flight" THEN Released(r, "pending") ELSE r

\* What a row is to the engine: where its item is in WorkQueue.
AbstractState(r) ==
  CASE r.status = "absent"    -> "unknown"
    [] r.status = "pending"   -> "queued"
    [] r.status = "in_flight" -> "claimed"
    [] OTHER                  -> "finished"
=============================================================================
