------------------------------ MODULE Frontier ------------------------------
(***************************************************************************)
(* The persistent work queue of src/internal/frontier/frontier.go, one     *)
(* action per SQL statement or transaction, as its callers drive it:       *)
(* worker processes that start, dequeue batches, answer for the items they *)
(* hold and die, and goroutines that are somewhere inside enqueue.         *)
(*                                                                         *)
(* Dequeue orders by priority and id.  Nothing here depends on the order   *)
(* (and SKIP LOCKED does not keep it), so a batch is any pending rows of   *)
(* the process's shard.  A row's depth and provenance columns are not      *)
(* modelled in this module.                                                *)
(***************************************************************************)
EXTENDS FrontierRows

CONSTANTS
  Procs,      \* the worker processes (each has one engine and one Frontier)
  WorkerID,   \* WorkerID[p]: what p writes to worker_id
  Partition,  \* Partition[p]: the keys that pass p's host_shard filter
  Shared,     \* TRUE: mysql or postgres.  FALSE: sqlite
  Callers,    \* the goroutines that may be inside enqueue at the same time
  Modes,      \* Modes[k]: the enqueue variants the engine uses for key k
  Pair,       \* Pair[k]: the (host, kind) pair of key k
  Budget,     \* maxRowsForHostKind of the budgeted variant
  BatchSize,  \* the n of Dequeue(n)
  Seeds,      \* the keys with a pending row at the start
  MaxClaims   \* bound: a row is leased at most this many times

AllModes == {"enqueue", "ensure", "resume", "budgeted"}

ASSUME ProcsAssumption ==
  /\ WorkerID \in [Procs -> WorkerIds]
  /\ Partition \in [Procs -> SUBSET Keys]
  /\ Shared \in BOOLEAN
ASSUME EnqueueAssumption ==
  /\ Modes \in [Keys -> SUBSET AllModes]
  /\ Seeds \subseteq Keys
ASSUME BoundsAssumption ==
  /\ Budget \in Nat
  /\ BatchSize \in Nat \ {0}
  /\ MaxClaims \in Nat

VARIABLES
  rows,    \* rows[k]: the frontier_items row with dedup key k
  up,      \* the processes inside Engine.Run
  claims,  \* the dequeued items the processes have not answered for yet
  call     \* call[g]: the enqueue call goroutine g is inside

vars == <<rows, up, claims, call>>

\* A claim is the in-memory item of one Dequeue.  While Fail sits between its
\* read and its update the claim is "failing" and remembers what it read.
Claim ==
  [proc : Procs, key : Keys, gen : Nat, phase : {"held", "failing"},
   seen : Nat, limit : {0, 1, MaxAttempts}]

Idle == [pc |-> "idle"]
Call ==
  {Idle} \union [pc   : {"count", "exists", "create", "lookup", "cas"},
                 key  : Keys,
                 mode : AllModes,
                 seen : Status]

TypeOK ==
  /\ rows \in [Keys -> Row]
  /\ up \in SUBSET Procs
  /\ claims \in SUBSET Claim
  /\ call \in [Callers -> Call]

Init ==
  /\ rows = [k \in Keys |-> IF k \in Seeds THEN NewRow ELSE NoRow]
  /\ up = {}
  /\ claims = {}
  /\ call = [g \in Callers |-> Idle]

-----------------------------------------------------------------------------
(* enqueue: a budget count, an existence probe, Create, a read of the      *)
(* conflicting row, and a compare-and-set UPDATE, each its own statement.  *)

BeginEnqueue(g, k, m) ==
  /\ call[g] = Idle
  /\ m \in Modes[k]
  /\ call' = [call EXCEPT ![g] =
       [pc |-> IF m = "budgeted" THEN "count" ELSE "create",
        key |-> k, mode |-> m, seen |-> "absent"]]
  /\ UNCHANGED <<rows, up, claims>>

\* The rows of a (host, kind) pair, in every status.
RowsOfPair(hk) == {k \in Keys : Pair[k] = hk /\ rows[k].status # "absent"}

UnderBudget(k) == Cardinality(RowsOfPair(Pair[k])) < Budget

BudgetCount(g) ==
  /\ call[g].pc = "count"
  /\ call' = [call EXCEPT ![g].pc =
                IF UnderBudget(call[g].key) THEN "create" ELSE "exists"]
  /\ UNCHANGED <<rows, up, claims>>

\* Faulty variant: an over-budget call goes on to Create whatever it found.
ExistsProbe_Unchecked(g) ==
  /\ call[g].pc = "exists"
  /\ call' = [call EXCEPT ![g].pc = "create"]
  /\ UNCHANGED <<rows, up, claims>>

\* Over budget: only a key that already has a row may go on.
ExistsProbe(g) ==
  /\ call[g].pc = "exists"
  /\ call' = [call EXCEPT ![g] =
                IF rows[call[g].key].status = "absent"
                THEN Idle ELSE [call[g] EXCEPT !.pc = "create"]]
  /\ UNCHANGED <<rows, up, claims>>

Create(g) ==
  /\ call[g].pc = "create"
  /\ LET k == call[g].key
     IN  IF rows[k].status = "absent"
         THEN /\ rows' = [rows EXCEPT ![k] = NewRow]
              /\ call' = [call EXCEPT ![g] = Idle]
         ELSE /\ call' = [call EXCEPT ![g].pc = "lookup"]
              /\ UNCHANGED rows
  /\ UNCHANGED <<up, claims>>

\* Faulty variant: Resume re-activates completed work as well.
Reactivates_DoneToo(m, s) ==
  \/ s = "done" /\ m # "ensure"
  \/ s = "failed" /\ m # "ensure"

\* reactivateDone and reactivateFailed, for each of enqueue's callers.
Reactivates(m, s) ==
  \/ s = "done" /\ m \in {"enqueue", "budgeted"}
  \/ s = "failed" /\ m \in {"enqueue", "budgeted", "resume"}

Lookup(g) ==
  /\ call[g].pc = "lookup"
  /\ LET s == rows[call[g].key].status
     IN  call' = [call EXCEPT ![g] =
                    IF Reactivates(call[g].mode, s)
                    THEN [call[g] EXCEPT !.pc = "cas", !.seen = s] ELSE Idle]
  /\ UNCHANGED <<rows, up, claims>>

\* UPDATE ... WHERE id = ? AND status = <the status read before>.
CompareAndSet(g) ==
  /\ call[g].pc = "cas"
  /\ rows' = IF rows[call[g].key].status = call[g].seen
             THEN [rows EXCEPT ![call[g].key] = Reactivated(@)] ELSE rows
  /\ call' = [call EXCEPT ![g] = Idle]
  /\ UNCHANGED <<up, claims>>

\* A database error, or the death of the process, ends the call where it is.
AbortEnqueue(g) ==
  /\ call[g] # Idle
  /\ call' = [call EXCEPT ![g] = Idle]
  /\ UNCHANGED <<rows, up, claims>>

Enqueue(g) ==
  \/ \E k \in Keys, m \in AllModes : BeginEnqueue(g, k, m)
  \/ BudgetCount(g) \/ ExistsProbe(g) \/ Create(g)
  \/ Lookup(g) \/ CompareAndSet(g) \/ AbortEnqueue(g)

-----------------------------------------------------------------------------
(* The processes.                                                          *)

\* Run's first statement: the blanket sweep on sqlite, else the expired ones.
StartupSweep ==
  [k \in Keys |-> IF Shared THEN SweptExpired(rows[k]) ELSE SweptAll(rows[k])]

Start(p) ==
  /\ p \notin up
  /\ rows' = StartupSweep
  /\ up' = up \union {p}
  /\ UNCHANGED <<claims, call>>

\* The dispatcher's periodic sweep (never on sqlite).
PeriodicReclaim(p) ==
  /\ Shared
  /\ p \in up
  /\ rows' = [k \in Keys |-> SweptExpired(rows[k])]
  /\ UNCHANGED <<up, claims, call>>

NewClaim(p, k) ==
  [proc |-> p, key |-> k, gen |-> rows[k].gen + 1, phase |-> "held",
   seen |-> 0, limit |-> 0]

\* Faulty variant: the SELECT does not filter on status.
Dequeuable_AnyUnfinished(p) ==
  {k \in Partition[p] : rows[k].status \in {"pending", "in_flight"}}

Dequeuable(p) == {k \in Partition[p] : rows[k].status = "pending"}

Dequeue(p, batch) ==
  /\ p \in up
  /\ batch \subseteq Dequeuable(p)
  /\ batch # {}
  /\ Cardinality(batch) <= BatchSize
  /\ \A k \in batch : rows[k].gen < MaxClaims
  /\ rows' = [k \in Keys |-> IF k \in batch
                             THEN Leased(rows[k], WorkerID[p]) ELSE rows[k]]
  /\ claims' = claims \union {NewClaim(p, k) : k \in batch}
  /\ UNCHANGED <<up, call>>

LeaseExpires(k) ==
  /\ rows[k].lease = "live"
  /\ rows' = [rows EXCEPT ![k].lease = "expired"]
  /\ UNCHANGED <<up, claims, call>>

\* Complete and Requeue: one guarded UPDATE.  When it matches no row the
\* caller gets ErrLeaseLost and drops its result all the same.
Release(c, s) ==
  /\ c.phase = "held"
  /\ rows' = IF Owned(rows[c.key], WorkerID[c.proc])
             THEN [rows EXCEPT ![c.key] = Released(@, s)] ELSE rows
  /\ claims' = claims \ {c}
  /\ UNCHANGED <<up, call>>

Complete(c) == Release(c, "done")
Requeue(c) == Release(c, "pending")

\* Faulty variant: the cap handed to Fail is one more than MaxAttempts.
FailRead_OneMoreRetry(c, limit) ==
  /\ c.phase = "held"
  /\ claims' = (claims \ {c}) \union
       {[c EXCEPT !.phase = "failing", !.seen = rows[c.key].attempts,
                  !.limit = limit + 1]}
  /\ UNCHANGED <<rows, up, call>>

\* Faulty variant: the first attempt is read as already counted.
FailRead_CountsTwice(c, limit) ==
  /\ c.phase = "held"
  /\ claims' = (claims \ {c}) \union
       {[c EXCEPT !.phase = "failing", !.seen = rows[c.key].attempts + 1,
                  !.limit = limit]}
  /\ UNCHANGED <<rows, up, call>>

\* Fail reads the row, whoever holds it; `limit' is 1 for a permanent error.
FailRead(c, limit) ==
  /\ c.phase = "held"
  /\ claims' = (claims \ {c}) \union
       {[c EXCEPT !.phase = "failing", !.seen = rows[c.key].attempts,
                  !.limit = limit]}
  /\ UNCHANGED <<rows, up, call>>

FailUpdate(c) ==
  /\ c.phase = "failing"
  /\ rows' = IF Owned(rows[c.key], WorkerID[c.proc])
             THEN [rows EXCEPT ![c.key] = Charged(@, c.seen, c.limit)]
             ELSE rows
  /\ claims' = claims \ {c}
  /\ UNCHANGED <<up, call>>

\* The statement returns a database error: process logs it and moves on.
AnswerError(c) ==
  /\ claims' = claims \ {c}
  /\ UNCHANGED <<rows, up, call>>

\* The process is killed, or Run has returned (it then holds no claim).
Stop(p) ==
  /\ p \in up
  /\ up' = up \ {p}
  /\ claims' = {c \in claims : c.proc # p}
  /\ UNCHANGED <<rows, call>>

Answer(c) ==
  \/ Complete(c) \/ Requeue(c)
  \/ \E limit \in {1, MaxAttempts} : FailRead(c, limit)
  \/ FailUpdate(c)
  \/ AnswerError(c)

Next ==
  \/ \E g \in Callers : Enqueue(g)
  \/ \E p \in Procs : Start(p) \/ PeriodicReclaim(p) \/ Stop(p)
  \/ \E p \in Procs, batch \in SUBSET Keys : Dequeue(p, batch)
  \/ \E k \in Keys : LeaseExpires(k)
  \/ \E c \in claims : Answer(c)

Spec == Init /\ [][Next]_vars

-----------------------------------------------------------------------------
(* Properties.                                                             *)

\* A row looks leased exactly while it is in_flight: no statement that takes
\* a row out of in_flight leaves a lease behind that a sweep or an ownership
\* guard could still match (leaseReleaseUpdates).
LeaseDiscipline ==
  \A k \in Keys :
    /\ rows[k].status = "in_flight" <=> rows[k].lease # "none"
    /\ rows[k].status = "in_flight" <=> rows[k].worker # NoWorker

\* A row that can still be dispatched has attempts left, and no row is failed
\* without a counted attempt, however Fail's read and update interleave with
\* sweeps, other workers' answers and re-activations.
RetryBudget ==
  \A k \in Keys :
    /\ rows[k].status \in {"pending", "in_flight"}
         => rows[k].attempts < MaxAttempts
    /\ rows[k].status = "failed" => rows[k].attempts > 0

\* The claim is the one the row was last leased to.
Current(c) ==
  rows[c.key].status = "in_flight" /\ rows[c.key].gen = c.gen

\* No two goroutines hold the same lease of a row; the row carries the worker
\* id of the current holder, and while that holder is inside Fail the counter
\* it read is still the row's.
ClaimDiscipline ==
  /\ \A c \in claims :
       /\ c.gen <= rows[c.key].gen
       /\ Current(c) => rows[c.key].worker = WorkerID[c.proc]
       /\ Current(c) /\ c.phase = "failing" => c.seen = rows[c.key].attempts
  /\ \A c, d \in claims : c.key = d.key /\ c.gen = d.gen => c = d

\* While a lease is live, the claim it stands for ends only by an answer of a
\* goroutine of the process that holds it: no peer's stale answer, sweep,
\* start-up, dequeue or enqueue takes the item away.
LiveClaimStands ==
  [][\A d \in claims :
       (/\ Current(d)
        /\ rows[d.key].lease = "live"
        /\ \A c \in claims : c.key = d.key /\ c.proc = d.proc => c \in claims')
       => Current(d)']_vars

\* When the holder of the current claim fails, exactly one attempt is added
\* to the counter: what Fail read is what its update finds.
FailCountsOnce ==
  [][\A c \in claims \ claims' :
       c.phase = "failing" /\ Current(c) /\ rows'[c.key] # rows[c.key]
         => rows'[c.key].attempts = rows[c.key].attempts + 1]_vars

\* Work that is only ever ensured or resumed stays done once it is done, so
\* rebuilding a fan-out after a crash never redoes completed children.
CompletedStaysDone ==
  [][\A k \in Keys :
       Modes[k] \subseteq {"ensure", "resume"} /\ rows[k].status = "done"
         => rows'[k].status = "done"]_vars

\* The page budget is a soft cap: it is overshot by less than the number of
\* goroutines enqueueing at once, and not at all by a single one.
BudgetedPairs ==
  {hk \in {Pair[k] : k \in Keys} :
     \A k \in Keys : Pair[k] = hk => Modes[k] = {"budgeted"}}
SeedsOfPair(hk) == {k \in Seeds : Pair[k] = hk}
BudgetOvershoot ==
  \A hk \in BudgetedPairs :
    LET start == Cardinality(SeedsOfPair(hk))
        cap   == IF start > Budget THEN start ELSE Budget
    IN  Cardinality(RowsOfPair(hk)) < cap + Cardinality(Callers)

-----------------------------------------------------------------------------
(* The refinement: what the frontier promises, under worker ids.           *)

Ticket(c) == [item |-> c.key, holder |-> WorkerID[c.proc], nr |-> c.gen]

Queue == INSTANCE WorkQueue WITH
  Items <- Keys, Holders <- WorkerIds, NoHolder <- NoWorker,
  state <- [k \in Keys |-> AbstractState(rows[k])],
  holder <- [k \in Keys |-> rows[k].worker],
  served <- [k \in Keys |-> rows[k].gen],
  lapsed <- {k \in Keys : rows[k].lease = "expired"},
  tickets <- {Ticket(c) : c \in claims}

\* The frontier behaves like the abstract queue: an item changes hands only by
\* going through the queue, goes back there only by an answer of a goroutine of
\* the worker that holds it or by a sweep after its lease ran out or its holder
\* went away, and an answer of anybody else changes nothing.
ImplementsWorkQueue == Queue!Spec
=============================================================================
