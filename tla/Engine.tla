------------------------------- MODULE Engine -------------------------------
(***************************************************************************)
(* Engine.Run (src/internal/crawler/engine.go): in every process of a      *)
(* crawl fleet a dispatcher dequeues batches and hands them to a pool of   *)
(* workers, whose handlers enqueue follow-up work before they answer, and  *)
(* decides when the crawl is over.  Frontier has the statements of the     *)
(* queue one by one; here each of its operations is one step, and the      *)
(* question is who stops when.                                             *)
(***************************************************************************)
EXTENDS FrontierRows

CONSTANTS
  Procs,      \* the processes; each writes its own name to worker_id
  Partition,  \* Partition[p]: the keys that pass p's host_shard filter
  Shared,     \* TRUE: mysql or postgres.  FALSE: sqlite, one process
  Workers,    \* the size of the worker pool, and of a batch
  FollowUps,  \* FollowUps[k]: what the handler of k ensures
  Seeds,      \* the keys with a pending row at the start
  MaxLapses,  \* bound: leases that run out under a live handler
  MaxUpsets   \* bound: crashes, cancellations and database errors together

ASSUME FleetAssumption ==
  /\ Procs \subseteq WorkerIds
  /\ Partition \in [Procs -> SUBSET Keys]
  /\ Shared \in BOOLEAN
  /\ Workers \in Nat \ {0}
ASSUME WorkAssumption ==
  /\ FollowUps \in [Keys -> SUBSET Keys]
  /\ Seeds \subseteq Keys
ASSUME BoundsAssumption == MaxLapses \in Nat /\ MaxUpsets \in Nat

VARIABLES
  rows,       \* rows[k]: the frontier_items row with dedup key k
  pc,         \* pc[p]: where the dispatcher of p is
  idle,       \* idle[p]: inFlight was 0 before the last Dequeue
  cancelled,  \* cancelled[p]: the context of p's Run has been cancelled
  why,        \* why[p]: what made p leave the loop
  waiting,    \* waiting[p]: the rest of the batch, not handed to a worker yet
  running,    \* running[p]: the items p's workers are handling
  lapses, upsets  \* how much of each bound is used up

control == <<pc, idle, cancelled, why>>
vars == <<rows, pc, idle, cancelled, why, waiting, running, lapses, upsets>>

\* An item in memory is [key, gen, todo, limit]: its key, the claim it stands
\* for, the follow-ups its handler has yet to enqueue, and, once the handler
\* has failed, the number of attempts Fail is going to allow (0 until then).

Init ==
  /\ rows = [k \in Keys |-> IF k \in Seeds THEN NewRow ELSE NoRow]
  /\ pc = [p \in Procs |-> "down"]
  /\ idle = [p \in Procs |-> FALSE]
  /\ cancelled = [p \in Procs |-> FALSE]
  /\ why = [p \in Procs |-> "none"]
  /\ waiting = [p \in Procs |-> {}]
  /\ running = [p \in Procs |-> {}]
  /\ lapses = 0 /\ upsets = 0

-----------------------------------------------------------------------------
(* The dispatcher.                                                         *)

\* Faulty variant: a run begins with the blanket sweep whatever the database.
StartupSweep_Blanket == [k \in Keys |-> SweptAll(rows[k])]

\* The sweep Run begins with: it spares the live leases of a shared frontier.
StartupSweep ==
  [k \in Keys |-> IF Shared THEN SweptExpired(rows[k]) ELSE SweptAll(rows[k])]

\* Run begins with a sweep.  A run that was interrupted is started again.
Start(p) ==
  /\ \/ pc[p] = "down"
     \/ pc[p] = "returned" /\ why[p] # "empty"
  /\ rows' = StartupSweep
  /\ pc' = [pc EXCEPT ![p] = "loop"]
  /\ cancelled' = [cancelled EXCEPT ![p] = FALSE]
  /\ why' = [why EXCEPT ![p] = "none"]
  /\ UNCHANGED <<idle, waiting, running, lapses, upsets>>

\* inFlight: what was dequeued and is not answered for.
InFlight(p) == waiting[p] \union running[p]

\* Faulty variant: expired leases are only looked for when a process starts.
PeriodicSweep_Never == rows

\* The periodic sweep of a shared frontier; sqlite has none.
PeriodicSweep ==
  IF Shared THEN [k \in Keys |-> SweptExpired(rows[k])] ELSE rows

\* The head of the loop.  The sweep's interval is shorter than a turn of the
\* loop here: a turn without a sweep is one that came before the expiry.
Loop(p) ==
  /\ pc[p] = "loop"
  /\ ~cancelled[p]
  /\ rows' = PeriodicSweep
  /\ idle' = [idle EXCEPT ![p] = InFlight(p) = {}]
  /\ pc' = [pc EXCEPT ![p] = "dequeue"]
  /\ UNCHANGED <<cancelled, why, waiting, running, lapses, upsets>>

LeaveCancelled(p) ==
  /\ pc[p] = "loop"
  /\ cancelled[p]
  /\ pc' = [pc EXCEPT ![p] = "drain"]
  /\ why' = [why EXCEPT ![p] = "cancelled"]
  /\ UNCHANGED <<rows, idle, cancelled, waiting, running, lapses, upsets>>

Pending(p) == {k \in Partition[p] : rows[k].status = "pending"}

NewItem(k) == [key |-> k, gen |-> rows[k].gen + 1, todo |-> FollowUps[k],
              limit |-> 0]

\* As many pending rows of the shard as the batch takes.
DequeueBatch(p, batch) ==
  /\ pc[p] = "dequeue"
  /\ batch # {}
  /\ batch \subseteq Pending(p)
  /\ \/ Cardinality(batch) = Workers
     \/ batch = Pending(p) /\ Cardinality(batch) < Workers
  /\ rows' = [k \in Keys |-> IF k \in batch THEN Leased(rows[k], p) ELSE rows[k]]
  /\ waiting' = [waiting EXCEPT ![p] = {NewItem(k) : k \in batch}]
  /\ pc' = [pc EXCEPT ![p] = "send"]
  /\ UNCHANGED <<idle, cancelled, why, running, lapses, upsets>>

\* Only an idle process asks whether the crawl is over.  (Passes in between,
\* which the code skips the query on, change nothing.)
DequeueNothing(p) ==
  /\ pc[p] = "dequeue"
  /\ Pending(p) = {}
  /\ pc' = [pc EXCEPT ![p] = IF idle[p] THEN "counts" ELSE "loop"]
  /\ UNCHANGED <<rows, idle, cancelled, why, waiting, running, lapses, upsets>>

\* Faulty variant: an idle process whose own shard is empty may return.
Drained_Locally(p) ==
  \A k \in Partition[p] : rows[k].status \notin {"pending", "in_flight"}

\* Counts: one statement over the whole frontier, whatever the shard.
Drained(p) == \A k \in Keys : rows[k].status \notin {"pending", "in_flight"}

CheckCounts(p) ==
  /\ pc[p] = "counts"
  /\ pc' = [pc EXCEPT ![p] = IF Drained(p) THEN "drain" ELSE "loop"]
  /\ why' = [why EXCEPT ![p] = IF Drained(p) THEN "empty" ELSE @]
  /\ UNCHANGED <<rows, idle, cancelled, waiting, running, lapses, upsets>>

WorkerFree(p) == Cardinality(running[p]) < Workers

\* The channel is unbuffered: an item leaves the dispatcher when a worker is free.
Send(p, c) ==
  /\ pc[p] = "send"
  /\ c \in waiting[p]
  /\ WorkerFree(p)
  /\ running' = [running EXCEPT ![p] = @ \union {c}]
  /\ waiting' = [waiting EXCEPT ![p] = @ \ {c}]
  /\ pc' = [pc EXCEPT ![p] = IF waiting[p] = {c} THEN "loop" ELSE "send"]
  /\ UNCHANGED <<rows, idle, cancelled, why, lapses, upsets>>

HandlersDone(p) == running[p] = {}

Return(p) ==
  /\ pc[p] = "drain"
  /\ HandlersDone(p)
  /\ pc' = [pc EXCEPT ![p] = "returned"]
  /\ UNCHANGED <<rows, idle, cancelled, why, waiting, running, lapses, upsets>>

-----------------------------------------------------------------------------
(* The workers: process and the handlers.                                  *)

\* The handler ensures one follow-up.
EnqueueFollowUp(p, c, k) ==
  /\ c.limit = 0
  /\ k \in c.todo
  /\ rows' = [rows EXCEPT ![k] = IF @.status = "absent" THEN NewRow ELSE @]
  /\ running' = [running EXCEPT ![p] = (@ \ {c}) \union {[c EXCEPT !.todo = @ \ {k}]}]
  /\ UNCHANGED <<control, waiting, lapses, upsets>>

\* The answer: an ownership-guarded UPDATE.
Answered(p, c, row) ==
  /\ rows' = IF Owned(rows[c.key], p) THEN [rows EXCEPT ![c.key] = row] ELSE rows
  /\ running' = [running EXCEPT ![p] = @ \ {c}]
  /\ UNCHANGED <<control, waiting, lapses, upsets>>

Succeed(p, c) ==
  /\ c.limit = 0
  /\ c.todo = {}
  /\ Answered(p, c, Released(rows[c.key], "done"))

\* Shutdown is no failure: the item of a handler that returns an error after it
\* goes back in the queue.
Interrupted(p, c) ==
  /\ c.limit = 0
  /\ cancelled[p]
  /\ Answered(p, c, Released(rows[c.key], "pending"))

\* Faulty variant: an interrupted handler has failed like any other.
CountsAsFailure_Always(p) == TRUE

CountsAsFailure(p) == ~cancelled[p]

\* The error is classified, and for a transient one the backoff begins.
HandlerFails(p, c, limit) ==
  /\ c.limit = 0
  /\ CountsAsFailure(p)
  /\ running' = [running EXCEPT ![p] = (@ \ {c}) \union {[c EXCEPT !.limit = limit]}]
  /\ UNCHANGED <<rows, control, waiting, lapses, upsets>>

Fail(p, c) ==
  /\ c.limit # 0
  /\ Answered(p, c, Charged(rows[c.key], rows[c.key].attempts, c.limit))

Handle(p) ==
  \E c \in running[p] :
    \/ \E k \in c.todo : EnqueueFollowUp(p, c, k)
    \/ \E limit \in {1, MaxAttempts} : HandlerFails(p, c, limit)
    \/ Succeed(p, c) \/ Interrupted(p, c) \/ Fail(p, c)

-----------------------------------------------------------------------------
(* What goes wrong.                                                        *)

\* SIGINT or SIGTERM.
Cancel(p) ==
  /\ upsets < MaxUpsets
  /\ pc[p] \notin {"down", "returned"}
  /\ ~cancelled[p]
  /\ cancelled' = [cancelled EXCEPT ![p] = TRUE]
  /\ upsets' = upsets + 1
  /\ UNCHANGED <<rows, pc, idle, why, waiting, running, lapses>>

\* Dequeue or Counts returns a database error, and so will Run.
QueryError(p) ==
  /\ upsets < MaxUpsets
  /\ pc[p] \in {"dequeue", "counts"}
  /\ pc' = [pc EXCEPT ![p] = "drain"]
  /\ why' = [why EXCEPT ![p] = "error"]
  /\ upsets' = upsets + 1
  /\ UNCHANGED <<rows, idle, cancelled, waiting, running, lapses>>

\* An answer fails on the database: it is logged and the row stays as it is.
AnswerError(p, c) ==
  /\ upsets < MaxUpsets
  /\ c \in running[p]
  /\ running' = [running EXCEPT ![p] = @ \ {c}]
  /\ upsets' = upsets + 1
  /\ UNCHANGED <<rows, control, waiting, lapses>>

Crash(p) ==
  /\ upsets < MaxUpsets
  /\ pc[p] \notin {"down", "returned"}
  /\ pc' = [pc EXCEPT ![p] = "down"]
  /\ waiting' = [waiting EXCEPT ![p] = {}]
  /\ running' = [running EXCEPT ![p] = {}]
  /\ upsets' = upsets + 1
  /\ UNCHANGED <<rows, idle, cancelled, why, lapses>>

\* Somebody in memory still answers for the row's current lease.
Attended(k) ==
  \E p \in Procs : \E c \in InFlight(p) : c.key = k /\ c.gen = rows[k].gen

\* leased_until passes: for a row that nobody answers for, or, within the bound,
\* for one whose handler takes too long or has not begun.
LeaseExpires(k) ==
  /\ rows[k].lease = "live"
  /\ Attended(k) => lapses < MaxLapses
  /\ rows' = [rows EXCEPT ![k].lease = "expired"]
  /\ lapses' = IF Attended(k) THEN lapses + 1 ELSE lapses
  /\ UNCHANGED <<control, waiting, running, upsets>>

Dispatch(p) ==
  \/ Start(p) \/ Loop(p) \/ LeaveCancelled(p)
  \/ \E batch \in SUBSET Keys : DequeueBatch(p, batch)
  \/ DequeueNothing(p) \/ CheckCounts(p)
  \/ \E c \in waiting[p] : Send(p, c)
  \/ Return(p)

Next ==
  \/ \E p \in Procs : Dispatch(p) \/ Handle(p)
  \/ \E p \in Procs : Cancel(p) \/ QueryError(p) \/ Crash(p)
  \/ \E p \in Procs : \E c \in running[p] : AnswerError(p, c)
  \/ \E k \in Keys : LeaseExpires(k)

\* Dispatchers and workers are goroutines of a live process, the lease of a row
\* that nobody answers for runs out, and an interrupted process is started again.
Fairness ==
  /\ \A p \in Procs : WF_vars(Dispatch(p)) /\ WF_vars(Handle(p))
  /\ \A k \in Keys : WF_vars(~Attended(k) /\ LeaseExpires(k))
Spec == Init /\ [][Next]_vars /\ Fairness

-----------------------------------------------------------------------------
(* Properties.                                                             *)

Unfinished(k) == rows[k].status \in {"pending", "in_flight"}

\* Once a process has concluded that the crawl is over, it is over: no row is
\* pending or in_flight any more, in its own shard or in anybody's, and no
\* handler anywhere is still about to enqueue one.
EmptyMeansOver ==
  (\E p \in Procs : why[p] = "empty") =>
    /\ \A k \in Keys : ~Unfinished(k)
    /\ \A p \in Procs : \A c \in InFlight(p) : c.todo = {} \/ c.limit # 0

\* Interrupting a process costs its items nothing: an item whose handler had
\* not failed before the cancellation keeps its attempts and does not fail.
ShutdownChargesNobody ==
  [][\A p \in Procs : \A c \in InFlight(p) :
       /\ cancelled[p] /\ c.limit = 0
       /\ Owned(rows[c.key], p) /\ rows[c.key].gen = c.gen
       => /\ rows'[c.key].attempts = rows[c.key].attempts
          /\ rows'[c.key].status # "failed"
          /\ \A d \in running'[p] : d.key = c.key /\ d.gen = c.gen => d.limit = 0]_vars

\* The fleet stops: every process that is started returns for good in the end,
\* however often some are interrupted, as long as they are started again.
EveryRunEnds == \A p \in Procs : <>[](pc[p] = "returned" /\ why[p] = "empty")

-----------------------------------------------------------------------------
(* The refinement: what the fleet makes of the queue it is promised.       *)

\* A process holds a ticket for each item it has in memory.
Ticket(p, c) == [item |-> c.key, holder |-> p, nr |-> c.gen]
Tickets(p) == {Ticket(p, c) : c \in InFlight(p)}

Queue == INSTANCE WorkQueue WITH
  Items <- Keys, Holders <- WorkerIds, NoHolder <- NoWorker,
  state <- [k \in Keys |-> AbstractState(rows[k])],
  holder <- [k \in Keys |-> rows[k].worker],
  served <- [k \in Keys |-> rows[k].gen],
  lapsed <- {k \in Keys : rows[k].lease = "expired"},
  tickets <- UNION {Tickets(p) : p \in Procs}

\* Engines use the queue as it is meant to be used: what they have in memory was
\* handed out to them, they answer for nothing else and for nothing twice, and
\* whatever is lost in a crash, answered too late or not answered at all goes
\* back through a sweep, which takes nothing that somebody may still answer for
\* in time.
ImplementsWorkQueue == Queue!Spec
=============================================================================
