--------------------------- MODULE FrontierProofs ---------------------------
(***************************************************************************)
(* Proofs about Frontier, for any keys, processes, goroutines, budget,     *)
(* retry cap and number of leases.                                         *)
(*                                                                         *)
(* The inductive invariant IInv adds two facts to the checked invariants:  *)
(* the lease a claim stands for is identified by its generation, and a     *)
(* goroutine about to compare-and-set has read a finished status that its  *)
(* enqueue variant may re-activate.  For the page budget, a goroutine past *)
(* the count stands for the row it may insert; on sqlite with one engine,  *)
(* every claim is current.                                                 *)
(***************************************************************************)
EXTENDS Frontier, FiniteSetTheorems, TLAPS

\* The per-row half of the invariant: a row is leased exactly while it is
\* in_flight, has attempts left while it can be dispatched, and a key without
\* a row has never been leased.
RowInv(r) ==
  /\ r.status = "in_flight" <=> r.lease # "none"
  /\ r.status = "in_flight" <=> r.worker # NoWorker
  /\ r.status \in {"pending", "in_flight"} => r.attempts < MaxAttempts
  /\ r.status = "failed" => r.attempts > 0
  /\ r.status = "absent" => r.gen = 0

RowsInv == \A k \in Keys : RowInv(rows[k])

\* A claim that went through Fail's read carries the limit process chose.
LimitInv == \A c \in claims : c.phase = "failing" => c.limit \in {1, MaxAttempts}

CallInv ==
  \A g \in Callers :
    /\ call[g] # Idle => call[g].mode \in Modes[call[g].key]
    /\ call[g].pc = "cas" => Reactivates(call[g].mode, call[g].seen)

IInv == TypeOK /\ RowsInv /\ ClaimDiscipline /\ LimitInv /\ CallInv

-----------------------------------------------------------------------------
(* The row updates.                                                        *)

\* Every update the package writes yields a well-formed row.
LEMMA RowTypes ==
  /\ NoRow \in Row /\ NewRow \in Row
  /\ \A r \in Row :
       /\ \A s \in Status : Released(r, s) \in Row
       /\ \A w \in WorkerIds : Leased(r, w) \in Row
       /\ \A n \in Nat, l \in {1, MaxAttempts} : Charged(r, n, l) \in Row
       /\ Reactivated(r) \in Row
       /\ SweptExpired(r) \in Row
       /\ SweptAll(r) \in Row
<1>1. NoRow \in Row /\ NewRow \in Row
  BY DEF NoRow, NewRow, Row, Status
<1>2. ASSUME NEW r \in Row, NEW s \in Status
      PROVE  Released(r, s) \in Row
  BY DEF Row, Released
<1>3. ASSUME NEW r \in Row, NEW w \in WorkerIds
      PROVE  Leased(r, w) \in Row
  <2>1. [r EXCEPT !.status = "in_flight", !.lease = "live", !.worker = w] \in Row
    BY DEF Row, Status
  <2>2. r.gen + 1 \in Nat
    BY DEF Row
  <2>3. \A q \in Row, n \in Nat : [q EXCEPT !.gen = n] \in Row
    BY DEF Row
  <2>4. Leased(r, w) =
          [[r EXCEPT !.status = "in_flight", !.lease = "live", !.worker = w]
             EXCEPT !.gen = r.gen + 1]
    BY DEF Leased, Row
  <2> QED BY <2>1, <2>2, <2>3, <2>4
<1>4. ASSUME NEW r \in Row, NEW n \in Nat, NEW l \in {1, MaxAttempts}
      PROVE  Charged(r, n, l) \in Row
  <2> DEFINE s == IF n + 1 >= l THEN "failed" ELSE "pending"
  <2>1. Released(r, s) \in Row
    BY <1>2 DEF Status
  <2>2. \A q \in Row : [q EXCEPT !.attempts = n + 1] \in Row
    BY DEF Row
  <2>3. Charged(r, n, l) = [Released(r, s) EXCEPT !.attempts = n + 1]
    BY DEF Charged
  <2> QED BY <2>1, <2>2, <2>3
<1>5. ASSUME NEW r \in Row
      PROVE  /\ Reactivated(r) \in Row
             /\ SweptExpired(r) \in Row
             /\ SweptAll(r) \in Row
  <2>1. Released(r, "pending") \in Row
    BY <1>2 DEF Status
  <2>2. \A q \in Row : [q EXCEPT !.attempts = 0] \in Row
    BY DEF Row
  <2> QED BY <2>1, <2>2 DEF Reactivated, SweptExpired, SweptAll
<1> QED BY <1>1, <1>2, <1>3, <1>4, <1>5

\* Every update keeps the lease columns and the retry budget in order; Fail's
\* does so whatever attempts value it read.
LEMMA RowUpdates ==
  /\ RowInv(NoRow) /\ RowInv(NewRow)
  /\ \A r \in Row : RowInv(r) =>
       /\ \A w \in WorkerIds : r.status = "pending" => RowInv(Leased(r, w))
       /\ \A s \in {"pending", "done"} :
            r.status = "in_flight" => RowInv(Released(r, s))
       /\ \A n \in Nat, l \in {1, MaxAttempts} : RowInv(Charged(r, n, l))
       /\ RowInv(Reactivated(r))
       /\ RowInv(SweptExpired(r))
       /\ RowInv(SweptAll(r))
       /\ r.lease = "live" => RowInv([r EXCEPT !.lease = "expired"])
<1> USE MaxAttemptsAssumption, WorkerIdAssumption DEF RowInv
<1>1. RowInv(NoRow) /\ RowInv(NewRow)
  BY DEF NoRow, NewRow
<1>2. ASSUME NEW r \in Row, RowInv(r)
      PROVE  /\ \A w \in WorkerIds : r.status = "pending" => RowInv(Leased(r, w))
             /\ \A s \in {"pending", "done"} :
                  r.status = "in_flight" => RowInv(Released(r, s))
             /\ \A n \in Nat, l \in {1, MaxAttempts} : RowInv(Charged(r, n, l))
             /\ RowInv(Reactivated(r))
             /\ RowInv(SweptExpired(r))
             /\ RowInv(SweptAll(r))
             /\ r.lease = "live" => RowInv([r EXCEPT !.lease = "expired"])
  <2>1. \A w \in WorkerIds : r.status = "pending" => RowInv(Leased(r, w))
    BY <1>2 DEF Row, Leased
  <2>2. \A s \in {"pending", "done"} :
          r.status = "in_flight" => RowInv(Released(r, s))
    BY <1>2 DEF Row, Released
  <2>3. ASSUME NEW n \in Nat, NEW l \in {1, MaxAttempts}
        PROVE  RowInv(Charged(r, n, l))
    BY DEF Row, Released, Charged
  <2>4. RowInv(Reactivated(r))
    BY DEF Row, Released, Reactivated
  <2>5. RowInv(SweptExpired(r)) /\ RowInv(SweptAll(r))
    BY <1>2, <2>2 DEF SweptExpired, SweptAll
  <2>6. r.lease = "live" => RowInv([r EXCEPT !.lease = "expired"])
    BY <1>2 DEF Row
  <2> QED BY <2>1, <2>2, <2>3, <2>4, <2>5, <2>6
<1> QED BY <1>1, <1>2

-----------------------------------------------------------------------------
(* Type correctness.                                                       *)

\* The records the queue moves around stay well-formed, whatever interleaving
\* of enqueues, answers, sweeps and process deaths produced them.
THEOREM TypeCorrect == Spec => [](TypeOK /\ LimitInv)
<1>1. Init => TypeOK /\ LimitInv
  BY RowTypes, EnqueueAssumption DEF Init, TypeOK, LimitInv, Call
<1>2. TypeOK /\ LimitInv /\ [Next]_vars => TypeOK' /\ LimitInv'
  <2> SUFFICES ASSUME TypeOK, LimitInv, [Next]_vars
               PROVE  TypeOK' /\ LimitInv'
    OBVIOUS
  <2> USE DEF TypeOK, LimitInv
  <2>1. ASSUME NEW g \in Callers, Enqueue(g)
        PROVE  TypeOK' /\ LimitInv'
    <3>1. call' \in [Callers -> Call]
      <4>1. ASSUME NEW k \in Keys, NEW m \in AllModes, BeginEnqueue(g, k, m)
            PROVE  call' \in [Callers -> Call]
        BY <4>1 DEF BeginEnqueue, Call, Status
      <4>2. CASE BudgetCount(g) \/ ExistsProbe(g) \/ Create(g)
        BY <4>2 DEF BudgetCount, ExistsProbe, Create, Call, Idle
      <4>3. CASE Lookup(g)
        <5>1. call[g] \in Call \ {Idle} /\ rows[call[g].key].status \in Status
          BY <4>3 DEF Lookup, Call, Idle, Row
        <5> QED BY <4>3, <5>1 DEF Lookup, Call, Idle
      <4>4. CASE CompareAndSet(g) \/ AbortEnqueue(g)
        BY <4>4 DEF CompareAndSet, AbortEnqueue, Call
      <4> QED BY <2>1, <4>1, <4>2, <4>3, <4>4 DEF Enqueue
    <3>2. rows' \in [Keys -> Row]
      <4>1. CASE Create(g) \/ CompareAndSet(g)
        BY <4>1, RowTypes DEF Create, CompareAndSet, Call, Idle
      <4>2. CASE ~(Create(g) \/ CompareAndSet(g))
        BY <2>1, <4>2 DEF Enqueue, BeginEnqueue, BudgetCount, ExistsProbe,
                          Lookup, AbortEnqueue
      <4> QED BY <4>1, <4>2
    <3>3. UNCHANGED <<up, claims>>
      BY <2>1 DEF Enqueue, BeginEnqueue, BudgetCount, ExistsProbe, Create,
                  Lookup, CompareAndSet, AbortEnqueue
    <3> QED BY <3>1, <3>2, <3>3
  <2>2. ASSUME NEW p \in Procs, Start(p) \/ PeriodicReclaim(p) \/ Stop(p)
        PROVE  TypeOK' /\ LimitInv'
    BY <2>2, RowTypes DEF Start, StartupSweep, PeriodicReclaim, Stop
  <2>3. ASSUME NEW p \in Procs, NEW batch \in SUBSET Keys, Dequeue(p, batch)
        PROVE  TypeOK' /\ LimitInv'
    <3>1. WorkerID[p] \in WorkerIds
      BY ProcsAssumption
    <3>2. rows' \in [Keys -> Row]
      BY <2>3, <3>1, RowTypes DEF Dequeue
    <3>3. \A k \in Keys : NewClaim(p, k) \in Claim /\ NewClaim(p, k).phase = "held"
      BY DEF NewClaim, Claim, Row
    <3> QED BY <2>3, <3>2, <3>3 DEF Dequeue
  <2>4. ASSUME NEW k \in Keys, LeaseExpires(k)
        PROVE  TypeOK' /\ LimitInv'
    <3>1. [rows[k] EXCEPT !.lease = "expired"] \in Row
      BY DEF Row
    <3> QED BY <2>4, <3>1 DEF LeaseExpires
  <2>5. ASSUME NEW c \in claims, Answer(c)
        PROVE  TypeOK' /\ LimitInv'
    <3>1. CASE Complete(c) \/ Requeue(c) \/ AnswerError(c)
      BY <3>1, RowTypes
         DEF Complete, Requeue, Release, AnswerError, Claim, Status
    <3>2. ASSUME NEW limit \in {1, MaxAttempts}, FailRead(c, limit)
          PROVE  TypeOK' /\ LimitInv'
      <4> DEFINE d == [c EXCEPT !.phase = "failing",
                                !.seen = rows[c.key].attempts, !.limit = limit]
      <4>1. c.key \in Keys /\ rows[c.key].attempts \in Nat
        BY DEF Claim, Row
      <4>2. d \in Claim /\ d.limit = limit
        BY <4>1 DEF Claim
      <4>3. claims' = (claims \ {c}) \union {d} /\ UNCHANGED <<rows, up, call>>
        BY <3>2 DEF FailRead
      <4> QED BY <4>2, <4>3
    <3>3. CASE FailUpdate(c)
      <4>1. c.key \in Keys /\ c.seen \in Nat /\ c.limit \in {1, MaxAttempts}
        BY <3>3 DEF FailUpdate, Claim
      <4>2. Charged(rows[c.key], c.seen, c.limit) \in Row
        BY <4>1, RowTypes
      <4> QED BY <3>3, <4>1, <4>2 DEF FailUpdate
    <3> QED BY <2>5, <3>1, <3>2, <3>3 DEF Answer
  <2>6. CASE UNCHANGED vars
    BY <2>6 DEF vars
  <2> QED BY <2>1, <2>2, <2>3, <2>4, <2>5, <2>6 DEF Next
<1> QED BY <1>1, <1>2, PTL DEF Spec

-----------------------------------------------------------------------------
(* The inductive invariant.                                                *)

\* The per-row invariant is preserved by every step that types correctly.
LEMMA RowsStep ==
  ASSUME TypeOK, LimitInv, RowsInv, [Next]_vars
  PROVE  RowsInv'
<1> USE DEF RowsInv, TypeOK
<1>1. ASSUME NEW g \in Callers, Enqueue(g)
      PROVE  RowsInv'
  <2>1. CASE Create(g)
    BY <2>1, RowUpdates, RowTypes DEF Create
  <2>2. CASE CompareAndSet(g)
    BY <2>2, RowUpdates, RowTypes DEF CompareAndSet
  <2>3. CASE ~(Create(g) \/ CompareAndSet(g))
    BY <1>1, <2>3 DEF Enqueue, BeginEnqueue, BudgetCount, ExistsProbe,
                      Lookup, AbortEnqueue
  <2> QED BY <2>1, <2>2, <2>3
<1>2. ASSUME NEW p \in Procs, Start(p) \/ PeriodicReclaim(p) \/ Stop(p)
      PROVE  RowsInv'
  BY <1>2, RowUpdates DEF Start, StartupSweep, PeriodicReclaim, Stop
<1>3. ASSUME NEW p \in Procs, NEW batch \in SUBSET Keys, Dequeue(p, batch)
      PROVE  RowsInv'
  <2>1. WorkerID[p] \in WorkerIds
    BY ProcsAssumption
  <2>2. \A k \in batch : RowInv(Leased(rows[k], WorkerID[p]))
    BY <1>3, <2>1, RowUpdates DEF Dequeue, Dequeuable
  <2> QED BY <1>3, <2>2 DEF Dequeue
<1>4. ASSUME NEW k \in Keys, LeaseExpires(k)
      PROVE  RowsInv'
  BY <1>4, RowUpdates DEF LeaseExpires
<1>5. ASSUME NEW c \in claims, Answer(c)
      PROVE  RowsInv'
  <2>1. c.key \in Keys /\ c.seen \in Nat
    BY DEF Claim
  <2>2. CASE Complete(c) \/ Requeue(c)
    BY <2>1, <2>2, RowUpdates, ZenonT(30) DEF Complete, Requeue, Release, Owned
  <2>3. CASE FailUpdate(c)
    BY <2>1, <2>3, RowUpdates DEF FailUpdate, LimitInv
  <2>4. CASE rows' = rows
    BY <2>4
  <2> QED BY <1>5, <2>2, <2>3, <2>4 DEF Answer, FailRead, AnswerError
<1>6. CASE UNCHANGED vars
  BY <1>6 DEF vars
<1> QED BY <1>1, <1>2, <1>3, <1>4, <1>5, <1>6 DEF Next

\* What a step may do to a row that a claim stands for: the generation never
\* goes back, and while it stays the same and the row stays in_flight neither
\* the worker id nor the attempts change.
GenStep(k) ==
  /\ rows'[k].gen >= rows[k].gen
  /\ rows'[k].gen = rows[k].gen /\ rows'[k].status = "in_flight"
       => /\ rows[k].status = "in_flight"
          /\ rows'[k].worker = rows[k].worker
          /\ rows'[k].attempts = rows[k].attempts

LEMMA GenSteps ==
  ASSUME TypeOK, RowsInv, LimitInv, [Next]_vars, NEW k \in Keys
  PROVE  GenStep(k)
<1> USE DEF TypeOK, GenStep
<1>0. rows[k] \in Row /\ rows[k].gen \in Nat
  BY DEF Row
<1>1. ASSUME NEW g \in Callers, Enqueue(g)
      PROVE  GenStep(k)
  <2>1. CASE Create(g)
    <3>1. NewRow.gen = 0 /\ NewRow.status # "in_flight"
      BY DEF NewRow, NoRow
    <3>2. rows[k].status = "absent" => rows[k].gen = 0
      BY DEF RowsInv, RowInv
    <3> QED BY <1>0, <2>1, <3>1, <3>2 DEF Create
  <2>2. CASE CompareAndSet(g)
    BY <1>0, <2>2 DEF CompareAndSet, Reactivated, Released, Row
  <2>3. CASE ~(Create(g) \/ CompareAndSet(g))
    BY <1>0, <1>1, <2>3 DEF Enqueue, BeginEnqueue, BudgetCount, ExistsProbe,
                      Lookup, AbortEnqueue
  <2> QED BY <2>1, <2>2, <2>3
<1>2. ASSUME NEW p \in Procs, Start(p) \/ PeriodicReclaim(p) \/ Stop(p)
      PROVE  GenStep(k)
  <2>1. \A r \in Row : LET q == SweptExpired(r) IN q.gen = r.gen /\ (q.status = "in_flight" => q = r)
    BY DEF SweptExpired, Released, Row
  <2>2. \A r \in Row : LET q == SweptAll(r) IN q.gen = r.gen /\ (q.status = "in_flight" => q = r)
    BY DEF SweptAll, Released, Row
  <2>3. rows'[k] \in {rows[k], SweptExpired(rows[k]), SweptAll(rows[k])}
    BY <1>2 DEF Start, StartupSweep, PeriodicReclaim, Stop
  <2> QED BY <1>0, <2>1, <2>2, <2>3
<1>3. ASSUME NEW p \in Procs, NEW batch \in SUBSET Keys, Dequeue(p, batch)
      PROVE  GenStep(k)
  <2>1. rows'[k] = IF k \in batch THEN Leased(rows[k], WorkerID[p]) ELSE rows[k]
    BY <1>3 DEF Dequeue
  <2>2. Leased(rows[k], WorkerID[p]).gen = rows[k].gen + 1
    BY <1>0 DEF Leased, Row
  <2> QED BY <1>0, <2>1, <2>2
<1>4. ASSUME NEW j \in Keys, LeaseExpires(j)
      PROVE  GenStep(k)
  BY <1>0, <1>4 DEF LeaseExpires, Row
<1>5. ASSUME NEW c \in claims, Answer(c)
      PROVE  GenStep(k)
  <2>1. CASE Complete(c) \/ Requeue(c)
    <3>1. \A q \in Row, s \in {"pending", "done"} :
            Released(q, s).gen = q.gen /\ Released(q, s).status # "in_flight"
      BY DEF Released, Row
    <3> QED BY <1>0, <2>1, <3>1 DEF Complete, Requeue, Release
  <2>2. CASE FailUpdate(c)
    <3>1. Charged(rows[c.key], c.seen, c.limit).gen = rows[c.key].gen
      BY DEF Charged, Released, Row, Claim
    <3>2. Charged(rows[c.key], c.seen, c.limit).status # "in_flight"
      BY DEF Charged, Released, Row, Claim
    <3> QED BY <1>0, <2>2, <3>1, <3>2 DEF FailUpdate
  <2>3. CASE rows' = rows
    BY <1>0, <2>3
  <2> QED BY <1>5, <2>1, <2>2, <2>3 DEF Answer, FailRead, AnswerError
<1>6. CASE UNCHANGED vars
  BY <1>0, <1>6 DEF vars
<1> QED BY <1>1, <1>2, <1>3, <1>4, <1>5, <1>6 DEF Next

\* A step adds no claim but fresh leases and the marked copy that Fail's read
\* leaves behind.
LEMMA ClaimsStep ==
  ASSUME TypeOK, [Next]_vars, NEW c \in claims'
  PROVE  \/ c \in claims
         \/ \E p \in Procs, k \in Keys :
              /\ c = NewClaim(p, k)
              /\ rows'[k] = Leased(rows[k], WorkerID[p])
              /\ \A e \in claims' \ claims : e.proc = p
         \/ \E d \in claims :
              /\ claims' = (claims \ {d}) \union {c}
              /\ rows' = rows
              /\ c.proc = d.proc /\ c.key = d.key /\ c.gen = d.gen
              /\ c.phase = "failing" /\ c.seen = rows[d.key].attempts
<1> USE DEF TypeOK
<1>1. ASSUME NEW g \in Callers, Enqueue(g)
      PROVE  c \in claims
  BY <1>1 DEF Enqueue, BeginEnqueue, BudgetCount, ExistsProbe, Create, Lookup,
              CompareAndSet, AbortEnqueue
<1>2. ASSUME NEW p \in Procs, Start(p) \/ PeriodicReclaim(p) \/ Stop(p)
      PROVE  c \in claims
  BY <1>2 DEF Start, PeriodicReclaim, Stop
<1>3. ASSUME NEW p \in Procs, NEW batch \in SUBSET Keys, Dequeue(p, batch),
             c \notin claims
      PROVE  \E k \in Keys :
               /\ c = NewClaim(p, k)
               /\ rows'[k] = Leased(rows[k], WorkerID[p])
               /\ \A e \in claims' \ claims : e.proc = p
  <2>1. claims' = claims \union {NewClaim(p, k) : k \in batch}
    BY <1>3 DEF Dequeue
  <2>2. \A e \in claims' \ claims : e.proc = p
    BY <2>1 DEF NewClaim
  <2>3. PICK k \in batch : c = NewClaim(p, k)
    BY <1>3, <2>1
  <2>4. rows'[k] = Leased(rows[k], WorkerID[p])
    BY <1>3 DEF Dequeue
  <2> QED BY <2>2, <2>3, <2>4
<1>4. ASSUME NEW k \in Keys, LeaseExpires(k)
      PROVE  c \in claims
  BY <1>4 DEF LeaseExpires
<1>5. ASSUME NEW d \in claims, Answer(d), c \notin claims
      PROVE  \E e \in claims :
               /\ claims' = (claims \ {e}) \union {c}
               /\ rows' = rows
               /\ c.proc = e.proc /\ c.key = e.key /\ c.gen = e.gen
               /\ c.phase = "failing" /\ c.seen = rows[e.key].attempts
  <2>1. PICK limit \in {1, MaxAttempts} : FailRead(d, limit)
    BY <1>5 DEF Answer, Complete, Requeue, Release, FailUpdate, AnswerError
  <2>2. c = [d EXCEPT !.phase = "failing", !.seen = rows[d.key].attempts,
                      !.limit = limit]
    BY <1>5, <2>1 DEF FailRead
  <2>3. /\ c.proc = d.proc /\ c.key = d.key /\ c.gen = d.gen
        /\ c.phase = "failing" /\ c.seen = rows[d.key].attempts
    BY <2>2 DEF Claim
  <2>4. claims' = (claims \ {d}) \union {c} /\ rows' = rows
    BY <2>1, <2>2 DEF FailRead
  <2> QED BY <2>3, <2>4
<1>6. CASE UNCHANGED vars
  BY <1>6 DEF vars
<1> QED BY <1>1, <1>2, <1>3, <1>4, <1>5, <1>6 DEF Next

\* No two goroutines come to hold one lease, and the holder's worker id and
\* attempts stay in step with the row.
LEMMA ClaimDisciplineStep ==
  ASSUME TypeOK, TypeOK', LimitInv, RowsInv, ClaimDiscipline, [Next]_vars
  PROVE  ClaimDiscipline'
<1> USE DEF TypeOK
<1>0. \A k \in Keys : GenStep(k)
  BY GenSteps
<1>1. ASSUME NEW c \in claims'
      PROVE  /\ c.gen <= rows'[c.key].gen
             /\ Current(c)' => rows'[c.key].worker = WorkerID[c.proc]
             /\ Current(c)' /\ c.phase = "failing"
                  => c.seen = rows'[c.key].attempts
  <2> USE DEF Current, ClaimDiscipline
  <2>1. CASE c \in claims
    <3>1. c.key \in Keys /\ c.gen \in Nat
      BY <2>1 DEF Claim
    <3>2. rows[c.key].gen \in Nat /\ rows'[c.key].gen \in Nat
      BY <3>1 DEF Row
    <3>3. /\ c.gen <= rows[c.key].gen
          /\ Current(c) => rows[c.key].worker = WorkerID[c.proc]
          /\ Current(c) /\ c.phase = "failing" => c.seen = rows[c.key].attempts
      BY <2>1
    <3>4. rows'[c.key].gen >= rows[c.key].gen
      BY <1>0, <3>1 DEF GenStep
    <3>5. Current(c)' => /\ Current(c)
                         /\ rows'[c.key].worker = rows[c.key].worker
                         /\ rows'[c.key].attempts = rows[c.key].attempts
      <4>1. /\ rows'[c.key].gen = rows[c.key].gen /\ rows'[c.key].status = "in_flight"
              => /\ rows[c.key].status = "in_flight"
                 /\ rows'[c.key].worker = rows[c.key].worker
                 /\ rows'[c.key].attempts = rows[c.key].attempts
        BY <1>0, <3>1 DEF GenStep
      <4> QED BY <3>2, <3>3, <3>4, <4>1
    <3> QED BY <3>1, <3>2, <3>3, <3>4, <3>5
  <2>2. ASSUME NEW p \in Procs, NEW k \in Keys, c = NewClaim(p, k),
               rows'[k] = Leased(rows[k], WorkerID[p])
        PROVE  /\ c.gen <= rows'[c.key].gen
               /\ rows'[c.key].worker = WorkerID[c.proc]
               /\ c.phase # "failing"
    <3>1. c.key = k /\ c.proc = p /\ c.gen = rows[k].gen + 1 /\ c.phase = "held"
      BY <2>2 DEF NewClaim
    <3>2. /\ Leased(rows[k], WorkerID[p]).worker = WorkerID[p]
          /\ Leased(rows[k], WorkerID[p]).gen = rows[k].gen + 1
      BY DEF Leased, Row
    <3>3. rows[k].gen \in Nat
      BY DEF Row
    <3> QED BY <2>2, <3>1, <3>2, <3>3
  <2>3. ASSUME NEW d \in claims, rows' = rows,
               c.proc = d.proc, c.key = d.key, c.gen = d.gen,
               c.seen = rows[d.key].attempts
        PROVE  /\ c.gen <= rows'[c.key].gen
               /\ Current(c)' => rows'[c.key].worker = WorkerID[c.proc]
               /\ Current(c)' => c.seen = rows'[c.key].attempts
    BY <2>3
  <2> QED BY <2>1, <2>2, <2>3, ClaimsStep
<1>2. ASSUME NEW c \in claims', NEW d \in claims', c.key = d.key, c.gen = d.gen
      PROVE  c = d
  <2> USE DEF ClaimDiscipline
  <2>0. \A e \in claims : e.key \in Keys /\ e.gen \in Nat /\ e.gen <= rows[e.key].gen
    BY DEF Claim
  <2>1. ASSUME NEW p \in Procs, NEW k \in Keys, NEW e \in claims
        PROVE  NewClaim(p, k).key # e.key \/ NewClaim(p, k).gen # e.gen
    <3>1. rows[k].gen \in Nat
      BY DEF Row
    <3> QED BY <2>0, <3>1 DEF NewClaim
  <2>2. ASSUME NEW x \in claims', NEW y \in claims', NEW e \in claims,
               claims' = (claims \ {e}) \union {x},
               x.key = e.key, x.gen = e.gen, x.key = y.key, x.gen = y.gen
        PROVE  x = y
    BY <2>2
  <2>3. ASSUME NEW p \in Procs, NEW q \in Procs, NEW k \in Keys, NEW j \in Keys,
               c = NewClaim(p, k), d = NewClaim(q, j), p = q
        PROVE  c = d
    BY <1>2, <2>3 DEF NewClaim
  <2>4. CASE c \in claims /\ d \in claims
    BY <1>2, <2>4
  <2>5. CASE c \notin claims /\ d \notin claims
    <3>1. CASE \E e \in claims : claims' = (claims \ {e}) \union {c}
      BY <2>5, <3>1
    <3>2. CASE \E e \in claims : claims' = (claims \ {e}) \union {d}
      BY <2>5, <3>2
    <3>3. CASE \E p, q \in Procs, k, j \in Keys :
                 /\ c = NewClaim(p, k) /\ d = NewClaim(q, j)
                 /\ \A e \in claims' \ claims : e.proc = p
      BY <2>3, <2>5, <3>3 DEF NewClaim
    <3> QED BY <2>5, <3>1, <3>2, <3>3, ClaimsStep
  <2>6. CASE c \notin claims /\ d \in claims
    BY <1>2, <2>1, <2>2, <2>6, ClaimsStep
  <2>7. CASE c \in claims /\ d \notin claims
    BY <1>2, <2>1, <2>2, <2>7, ClaimsStep
  <2> QED BY <2>4, <2>5, <2>6, <2>7
<1> QED BY <1>1, <1>2 DEF ClaimDiscipline

\* A call keeps its variant, and reaches the compare-and-set only after
\* reading a status that variant may re-activate.
LEMMA CallStep ==
  ASSUME TypeOK, CallInv, [Next]_vars
  PROVE  CallInv'
<1> USE DEF TypeOK, CallInv
<1>1. ASSUME NEW g \in Callers, Enqueue(g)
      PROVE  CallInv'
  <2>1. CASE \E k \in Keys, m \in AllModes : BeginEnqueue(g, k, m)
    BY <2>1 DEF BeginEnqueue, Idle
  <2>2. CASE BudgetCount(g) \/ ExistsProbe(g) \/ Create(g)
    BY <2>2 DEF BudgetCount, ExistsProbe, Create, Call, Idle
  <2>3. CASE Lookup(g)
    BY <2>3 DEF Lookup, Call, Idle
  <2>4. CASE CompareAndSet(g) \/ AbortEnqueue(g)
    BY <2>4 DEF CompareAndSet, AbortEnqueue, Idle
  <2> QED BY <1>1, <2>1, <2>2, <2>3, <2>4 DEF Enqueue
<1>2. CASE call' = call
  BY <1>2
<1> QED BY <1>1, <1>2 DEF Next, Start, PeriodicReclaim, Stop, Dequeue,
        LeaseExpires, Answer, Complete, Requeue, Release, FailRead, FailUpdate,
        AnswerError, vars

\* IInv is an invariant: it holds at the start and every step keeps it.
THEOREM Invariance == Spec => []IInv
<1>1. Init => IInv
  <2> SUFFICES ASSUME Init PROVE IInv
    OBVIOUS
  <2>1. RowsInv
    BY RowUpdates DEF Init, RowsInv
  <2>2. TypeOK
    BY RowTypes, EnqueueAssumption DEF Init, TypeOK, Call
  <2>3. ClaimDiscipline /\ LimitInv /\ CallInv
    BY DEF Init, ClaimDiscipline, LimitInv, CallInv, Idle
  <2> QED BY <2>1, <2>2, <2>3 DEF IInv
<1>2. (TypeOK /\ LimitInv)' /\ IInv /\ [Next]_vars => IInv'
  BY RowsStep, ClaimDisciplineStep, CallStep DEF IInv
<1> QED BY <1>1, <1>2, TypeCorrect, PTL DEF Spec

\* The lease columns and the status column of a row always agree.
THEOREM LeaseDisciplineHolds == Spec => []LeaseDiscipline
<1>1. IInv => LeaseDiscipline
  BY DEF IInv, RowsInv, RowInv, LeaseDiscipline
<1> QED BY <1>1, Invariance, PTL

\* A row that can still be dispatched has attempts left, for any retry cap.
THEOREM RetryBudgetHolds == Spec => []RetryBudget
<1>1. IInv => RetryBudget
  BY DEF IInv, RowsInv, RowInv, RetryBudget
<1> QED BY <1>1, Invariance, PTL

\* No two goroutines of any processes hold the same lease.
THEOREM ClaimDisciplineHolds == Spec => []ClaimDiscipline
<1>1. IInv => ClaimDiscipline
  BY DEF IInv
<1> QED BY <1>1, Invariance, PTL

-----------------------------------------------------------------------------
(* What a step may never do.                                               *)

DistinctWorkerIds ==
  \A p, q \in Procs : WorkerID[p] = WorkerID[q] => p = q

\* On a database shared by processes with distinct worker ids, a live claim
\* ends only by an answer from its own process, however many peers start,
\* sweep, dequeue, enqueue or answer late.
THEOREM LiveClaimsStand ==
  ASSUME Shared, DistinctWorkerIds
  PROVE  Spec => LiveClaimStands
<1>1. ASSUME IInv, [Next]_vars,
             NEW d \in claims, Current(d), rows[d.key].lease = "live",
             \A c \in claims : c.key = d.key /\ c.proc = d.proc => c \in claims'
      PROVE  Current(d)'
  <2> USE DEF IInv, TypeOK, Current
  <2>0. d.key \in Keys /\ d.proc \in Procs /\ rows[d.key] \in Row
    BY <1>1 DEF Claim
  <2>1. ASSUME NEW g \in Callers, Enqueue(g)
        PROVE  Current(d)'
    <3>1. CASE Create(g)
      BY <1>1, <2>0, <3>1 DEF Create
    <3>2. CASE CompareAndSet(g)
      BY <1>1, <2>0, <3>2 DEF CompareAndSet, CallInv, Reactivates
    <3>3. CASE rows' = rows
      BY <1>1, <3>3
    <3> QED BY <2>1, <3>1, <3>2, <3>3 DEF Enqueue, BeginEnqueue, BudgetCount,
                                         ExistsProbe, Lookup, AbortEnqueue
  <2>2. ASSUME NEW p \in Procs, Start(p) \/ PeriodicReclaim(p) \/ Stop(p)
        PROVE  Current(d)'
    <3>1. SweptExpired(rows[d.key]) = rows[d.key]
      BY <1>1 DEF SweptExpired
    <3>2. rows'[d.key] = rows[d.key]
      BY <1>1, <2>0, <2>2, <3>1 DEF Start, StartupSweep, PeriodicReclaim, Stop
    <3> QED BY <1>1, <3>2
  <2>3. ASSUME NEW p \in Procs, NEW batch \in SUBSET Keys, Dequeue(p, batch)
        PROVE  Current(d)'
    BY <1>1, <2>0, <2>3 DEF Dequeue, Dequeuable
  <2>4. ASSUME NEW k \in Keys, LeaseExpires(k)
        PROVE  Current(d)'
    BY <1>1, <2>0, <2>4 DEF LeaseExpires, Row
  <2>5. ASSUME NEW c \in claims, Answer(c)
        PROVE  Current(d)'
    <3>1. CASE rows' = rows
      BY <1>1, <3>1
    <3>2. CASE c.key # d.key
      BY <1>1, <2>0, <2>5, <3>2
         DEF Answer, Complete, Requeue, Release, FailRead, FailUpdate, AnswerError
    <3>3. CASE c.key = d.key /\ ~(rows' = rows)
      <4>1. Owned(rows[c.key], WorkerID[c.proc]) /\ c \notin claims'
        BY <2>5, <3>3
           DEF Answer, Complete, Requeue, Release, FailRead, FailUpdate, AnswerError
      <4>2. WorkerID[c.proc] = WorkerID[d.proc]
        BY <1>1, <3>3, <4>1 DEF Owned, ClaimDiscipline
      <4>3. c.proc = d.proc
        BY <1>1, <2>0, <4>2 DEF DistinctWorkerIds, Claim
      <4> QED BY <1>1, <3>3, <4>1, <4>3
    <3> QED BY <3>1, <3>2, <3>3
  <2>6. CASE UNCHANGED vars
    BY <1>1, <2>6 DEF vars
  <2> QED BY <1>1, <2>1, <2>2, <2>3, <2>4, <2>5, <2>6 DEF Next
<1>2. IInv /\ [Next]_vars =>
        [\A d \in claims :
           (/\ Current(d)
            /\ rows[d.key].lease = "live"
            /\ \A c \in claims : c.key = d.key /\ c.proc = d.proc => c \in claims')
           => Current(d)']_vars
  <2> SUFFICES ASSUME IInv, [Next]_vars,
                      NEW d \in claims, Current(d), rows[d.key].lease = "live",
                      \A c \in claims :
                        c.key = d.key /\ c.proc = d.proc => c \in claims'
               PROVE  Current(d)'
    OBVIOUS
  <2> QED BY <1>1
<1> QED BY <1>2, Invariance, PTL DEF Spec, LiveClaimStands

\* The holder's failure is counted exactly once.
THEOREM FailuresCountOnce == Spec => FailCountsOnce
<1>1. ASSUME IInv, [Next]_vars, NEW c \in claims \ claims',
             c.phase = "failing", Current(c), rows'[c.key] # rows[c.key]
      PROVE  rows'[c.key].attempts = rows[c.key].attempts + 1
  <2> USE DEF IInv, TypeOK
  <2>0. c.key \in Keys /\ rows[c.key] \in Row /\ c.seen = rows[c.key].attempts
    BY <1>1 DEF Claim, ClaimDiscipline
  <2>1. FailUpdate(c)
    <3>1. PICK d \in claims : Answer(d)
      <4>1. ~ \E g \in Callers : Enqueue(g)
        BY <1>1 DEF Enqueue, BeginEnqueue, BudgetCount, ExistsProbe, Create,
                    Lookup, CompareAndSet, AbortEnqueue
      <4>2. ~ \E p \in Procs : Start(p) \/ PeriodicReclaim(p) \/ Stop(p)
        BY <1>1, <2>0 DEF Start, PeriodicReclaim, Stop
      <4>3. ~ \E p \in Procs, batch \in SUBSET Keys : Dequeue(p, batch)
        BY <1>1 DEF Dequeue
      <4>4. ~ \E k \in Keys : LeaseExpires(k)
        BY <1>1 DEF LeaseExpires
      <4> QED BY <1>1, <4>1, <4>2, <4>3, <4>4 DEF Next, vars
    <3>2. c = d
      BY <1>1, <3>1 DEF Answer, Complete, Requeue, Release, FailRead,
                        FailUpdate, AnswerError
    <3> QED BY <1>1, <3>1, <3>2 DEF Answer, Complete, Requeue, Release,
                                    FailRead, AnswerError
  <2>2. rows'[c.key] = Charged(rows[c.key], c.seen, c.limit)
    BY <1>1, <2>0, <2>1 DEF FailUpdate
  <2>3. Charged(rows[c.key], c.seen, c.limit).attempts = c.seen + 1
    BY <2>0 DEF Charged, Released, Row
  <2> QED BY <2>0, <2>2, <2>3
<1>2. IInv /\ [Next]_vars =>
        [\A c \in claims \ claims' :
           c.phase = "failing" /\ Current(c) /\ rows'[c.key] # rows[c.key]
             => rows'[c.key].attempts = rows[c.key].attempts + 1]_vars
  BY <1>1
<1> QED BY <1>2, Invariance, PTL DEF Spec, FailCountsOnce

\* Completed work that is only ever ensured or resumed is never redone.
THEOREM CompletedWorkStaysDone == Spec => CompletedStaysDone
<1>1. ASSUME IInv, [Next]_vars, NEW k \in Keys,
             Modes[k] \subseteq {"ensure", "resume"}, rows[k].status = "done"
      PROVE  rows'[k].status = "done"
  <2> USE DEF IInv, TypeOK
  <2>0. rows[k] \in Row
    BY <1>1
  <2>1. ASSUME NEW g \in Callers, Enqueue(g)
        PROVE  rows'[k].status = "done"
    <3>1. CASE Create(g)
      BY <1>1, <2>0, <3>1 DEF Create
    <3>2. CASE CompareAndSet(g)
      <4>1. CASE call[g].key = k /\ call[g].seen = "done"
        <5>1. call[g].mode \in {"ensure", "resume"}
          BY <1>1, <3>2, <4>1 DEF CompareAndSet, CallInv, Idle
        <5> QED BY <1>1, <3>2, <4>1, <5>1 DEF CompareAndSet, CallInv, Reactivates
      <4> QED BY <1>1, <2>0, <3>2, <4>1 DEF CompareAndSet
    <3>3. CASE rows' = rows
      BY <1>1, <3>3
    <3> QED BY <2>1, <3>1, <3>2, <3>3 DEF Enqueue, BeginEnqueue, BudgetCount,
                                         ExistsProbe, Lookup, AbortEnqueue
  <2>2. ASSUME NEW p \in Procs, Start(p) \/ PeriodicReclaim(p) \/ Stop(p)
        PROVE  rows'[k].status = "done"
    <3>1. SweptExpired(rows[k]) = rows[k] /\ SweptAll(rows[k]) = rows[k]
      BY <1>1 DEF SweptExpired, SweptAll
    <3>2. rows'[k] = rows[k]
      BY <1>1, <2>2, <3>1 DEF Start, StartupSweep, PeriodicReclaim, Stop
    <3> QED BY <1>1, <3>2
  <2>3. ASSUME NEW p \in Procs, NEW batch \in SUBSET Keys, Dequeue(p, batch)
        PROVE  rows'[k].status = "done"
    BY <1>1, <2>3 DEF Dequeue, Dequeuable
  <2>4. ASSUME NEW j \in Keys, LeaseExpires(j)
        PROVE  rows'[k].status = "done"
    BY <1>1, <2>0, <2>4 DEF LeaseExpires, Row
  <2>5. ASSUME NEW c \in claims, Answer(c)
        PROVE  rows'[k].status = "done"
    BY <1>1, <2>0, <2>5 DEF Answer, Complete, Requeue, Release, FailRead,
                            FailUpdate, AnswerError, Owned
  <2>6. CASE UNCHANGED vars
    BY <1>1, <2>6 DEF vars
  <2> QED BY <1>1, <2>1, <2>2, <2>3, <2>4, <2>5, <2>6 DEF Next
<1>2. IInv /\ [Next]_vars =>
        [\A k \in Keys :
           Modes[k] \subseteq {"ensure", "resume"} /\ rows[k].status = "done"
             => rows'[k].status = "done"]_vars
  BY <1>1
<1> QED BY <1>2, Invariance, PTL DEF Spec, CompletedStaysDone

\* Faced with one engine on its own file, no claim is ever superseded.
SoleInv == \A c \in claims : c.proc \in up /\ Current(c)

LEMMA SoleStep ==
  ASSUME ~Shared, \A p, q \in Procs : p = q, IInv, SoleInv, [Next]_vars
  PROVE  SoleInv'
<1> USE DEF IInv, TypeOK, SoleInv, Current
<1>0. \A c \in claims : /\ c.key \in Keys /\ c.proc \in Procs /\ rows[c.key] \in Row
                        /\ rows[c.key].status = "in_flight" /\ rows[c.key].gen = c.gen
  BY DEF Claim
<1>1. ASSUME NEW g \in Callers, Enqueue(g)
      PROVE  SoleInv'
  <2>1. CASE Create(g)
    BY <1>0, <2>1 DEF Create
  <2>2. CASE CompareAndSet(g)
    BY <1>0, <2>2 DEF CompareAndSet, CallInv, Reactivates
  <2>3. CASE UNCHANGED <<rows, up, claims>>
    BY <2>3
  <2> QED BY <1>1, <2>1, <2>2, <2>3 DEF Enqueue, BeginEnqueue, BudgetCount,
                                       ExistsProbe, Lookup, AbortEnqueue
<1>2. ASSUME NEW p \in Procs, Start(p) \/ PeriodicReclaim(p) \/ Stop(p)
      PROVE  SoleInv'
  <2>1. claims' = {}
    BY <1>0, <1>2 DEF Start, PeriodicReclaim, Stop
  <2> QED BY <2>1
<1>3. ASSUME NEW p \in Procs, NEW batch \in SUBSET Keys, Dequeue(p, batch)
      PROVE  SoleInv'
  <2>1. ASSUME NEW k \in batch
        PROVE  rows'[k].status = "in_flight" /\ rows'[k].gen = rows[k].gen + 1
    <3>1. rows'[k] = Leased(rows[k], WorkerID[p]) /\ rows[k] \in Row
      BY <1>3 DEF Dequeue
    <3> QED BY <3>1 DEF Leased, Row
  <2>2. ASSUME NEW c \in claims PROVE c.proc \in up' /\ Current(c)'
    BY <1>0, <1>3 DEF Dequeue, Dequeuable
  <2>3. ASSUME NEW k \in batch, NEW c, c = NewClaim(p, k)
        PROVE  c.proc \in up' /\ Current(c)'
    BY <1>3, <2>1, <2>3 DEF Dequeue, NewClaim
  <2> QED BY <1>3, <2>2, <2>3 DEF Dequeue
<1>4. ASSUME NEW k \in Keys, LeaseExpires(k)
      PROVE  SoleInv'
  BY <1>0, <1>4 DEF LeaseExpires, Row
<1>5. ASSUME NEW c \in claims, Answer(c)
      PROVE  SoleInv'
  <2>1. ASSUME NEW limit \in {1, MaxAttempts}, FailRead(c, limit)
        PROVE  SoleInv'
    <3> DEFINE d == [c EXCEPT !.phase = "failing", !.seen = rows[c.key].attempts,
                              !.limit = limit]
    <3>1. d.key = c.key /\ d.gen = c.gen /\ d.proc = c.proc
      BY DEF Claim
    <3>2. claims' = (claims \ {c}) \union {d} /\ rows' = rows /\ up' = up
      BY <2>1 DEF FailRead
    <3> HIDE DEF d
    <3> QED BY <1>0, <3>1, <3>2
  <2>2. CASE Complete(c) \/ Requeue(c) \/ FailUpdate(c) \/ AnswerError(c)
    <3>1. claims' = claims \ {c} /\ up' = up
      BY <2>2 DEF Complete, Requeue, Release, FailUpdate, AnswerError
    <3>2. \A k \in Keys : k # c.key => rows'[k] = rows[k]
      BY <1>0, <2>2 DEF Complete, Requeue, Release, FailUpdate, AnswerError
    <3>3. \A d \in claims : d # c => d.key # c.key
      BY <1>0 DEF ClaimDiscipline
    <3> QED BY <1>0, <3>1, <3>2, <3>3
  <2> QED BY <1>5, <2>1, <2>2 DEF Answer
<1>6. CASE UNCHANGED vars
  BY <1>6 DEF vars
<1> QED BY <1>1, <1>2, <1>3, <1>4, <1>5, <1>6 DEF Next

-----------------------------------------------------------------------------
(* The page budget.                                                        *)

\* The goroutines that counted, and will insert a row of the pair.
Inserting(hk) ==
  {g \in Callers : /\ call[g].pc = "create" /\ Pair[call[g].key] = hk
                   /\ rows[call[g].key].status = "absent"}
Cap(hk) == LET start == Cardinality(SeedsOfPair(hk))
           IN  IF start > Budget THEN start ELSE Budget

\* Each of them counts as a row; only the count itself makes another.
BudgetInv ==
  \A hk \in BudgetedPairs :
    Cardinality(RowsOfPair(hk)) + Cardinality(Inserting(hk)) < Cap(hk) + Cardinality(Callers)

LEMMA PairSizes ==
  ASSUME IsFiniteSet(Keys), IsFiniteSet(Callers), NEW hk
  PROVE  /\ IsFiniteSet(RowsOfPair(hk)) /\ Cardinality(RowsOfPair(hk)) \in Nat
         /\ IsFiniteSet(Inserting(hk)) /\ Cardinality(Inserting(hk)) \in Nat
         /\ Cardinality(Inserting(hk)) <= Cardinality(Callers)
         /\ Cardinality(Callers) \in Nat
         /\ Cap(hk) \in Nat /\ Cap(hk) >= Budget /\ Cap(hk) >= Cardinality(SeedsOfPair(hk))
<1>1. RowsOfPair(hk) \in SUBSET Keys /\ Inserting(hk) \in SUBSET Callers
      /\ SeedsOfPair(hk) \in SUBSET Keys
  BY EnqueueAssumption DEF RowsOfPair, Inserting, SeedsOfPair
<1>2. IsFiniteSet(RowsOfPair(hk)) /\ IsFiniteSet(Inserting(hk)) /\ IsFiniteSet(SeedsOfPair(hk))
      /\ Cardinality(Inserting(hk)) <= Cardinality(Callers)
  BY <1>1, FS_Subset
<1>3. /\ Cardinality(RowsOfPair(hk)) \in Nat /\ Cardinality(Inserting(hk)) \in Nat
      /\ Cardinality(SeedsOfPair(hk)) \in Nat /\ Cardinality(Callers) \in Nat
  BY <1>2, FS_CardinalityType
<1> QED BY <1>2, <1>3, BoundsAssumption DEF Cap

\* No row is ever deleted, so a step that neither inserts a row of the pair nor
\* lets a goroutine past the count changes nothing.
LEMMA BudgetKept ==
  ASSUME IsFiniteSet(Keys), IsFiniteSet(Callers), BudgetInv, NEW hk \in BudgetedPairs,
         RowsOfPair(hk)' = RowsOfPair(hk), Inserting(hk)' \subseteq Inserting(hk)
  PROVE  Cardinality(RowsOfPair(hk))' + Cardinality(Inserting(hk))'
           < Cap(hk) + Cardinality(Callers)
<1> DEFINE S == Inserting(hk)
<1>1. IsFiniteSet(S) /\ S' \in SUBSET S
  BY PairSizes
<1> HIDE DEF S
<1>2. Cardinality(S') <= Cardinality(S) /\ IsFiniteSet(S')
  BY <1>1, FS_Subset
<1>3. Cardinality(S') \in Nat
  BY <1>2, FS_CardinalityType
<1>4. Cardinality(RowsOfPair(hk)) + Cardinality(S) < Cap(hk) + Cardinality(Callers)
  BY DEF BudgetInv, S
<1>5. Cardinality(RowsOfPair(hk))' = Cardinality(RowsOfPair(hk))
  OBVIOUS
<1>6. Cardinality(S) \in Nat /\ Cardinality(RowsOfPair(hk)) \in Nat
      /\ Cap(hk) \in Nat /\ Cardinality(Callers) \in Nat
  BY PairSizes DEF S
<1>7. Cardinality(Inserting(hk))' = Cardinality(S')
  BY DEF S
<1> QED BY <1>2, <1>3, <1>4, <1>5, <1>6, <1>7

LEMMA BudgetStep ==
  ASSUME IsFiniteSet(Keys), IsFiniteSet(Callers), Callers # {},
         IInv, IInv', BudgetInv, [Next]_vars
  PROVE  BudgetInv'
<1> SUFFICES ASSUME NEW hk \in BudgetedPairs
             PROVE  Cardinality(RowsOfPair(hk))' + Cardinality(Inserting(hk))'
                      < Cap(hk) + Cardinality(Callers)
  BY DEF BudgetInv, Cap, BudgetedPairs, SeedsOfPair
<1> DEFINE Present(k) == rows[k].status # "absent"
<1>0. /\ \A k \in Keys : rows[k] \in Row
      /\ \A g \in Callers : call[g] # Idle => call[g].key \in Keys /\ call[g].mode \in Modes[call[g].key]
      /\ \A g \in Callers : call[g].pc # "idle" => call[g] # Idle
  BY DEF IInv, TypeOK, Call, CallInv, Idle
<1>1. ASSUME \A k \in Keys : Present(k)' <=> Present(k),
             \A g \in Callers : g \in Inserting(hk)' => g \in Inserting(hk)
      PROVE  Cardinality(RowsOfPair(hk))' + Cardinality(Inserting(hk))'
               < Cap(hk) + Cardinality(Callers)
  <2>1. RowsOfPair(hk)' = RowsOfPair(hk)
    BY <1>1 DEF RowsOfPair
  <2>2. Inserting(hk)' \subseteq Inserting(hk)
    BY <1>1 DEF Inserting
  <2> QED BY <2>1, <2>2, BudgetKept
<1>2. ASSUME call' = call, \A k \in Keys : Present(k)' <=> Present(k)
      PROVE  Cardinality(RowsOfPair(hk))' + Cardinality(Inserting(hk))'
               < Cap(hk) + Cardinality(Callers)
  BY <1>0, <1>1, <1>2 DEF Inserting
<1>3. ASSUME NEW g \in Callers, Enqueue(g)
      PROVE  Cardinality(RowsOfPair(hk))' + Cardinality(Inserting(hk))'
               < Cap(hk) + Cardinality(Callers)
  <2>0. \A f \in Callers : f # g => call'[f] = call[f]
    BY <1>3 DEF Enqueue, BeginEnqueue, BudgetCount, ExistsProbe, Create, Lookup,
                CompareAndSet, AbortEnqueue, IInv, TypeOK
  <2>1. ASSUME \A k \in Keys : Present(k)' <=> Present(k),
               call'[g].pc = "create" => Pair[call'[g].key] # hk \/ Present(call'[g].key)
        PROVE  Cardinality(RowsOfPair(hk))' + Cardinality(Inserting(hk))'
                 < Cap(hk) + Cardinality(Callers)
    <3>1. ASSUME NEW f \in Callers, f \in Inserting(hk)' PROVE f \in Inserting(hk)
      <4>1. call'[f].key \in Keys
        BY <1>0, <3>1 DEF Inserting, IInv, TypeOK, Call, Idle
      <4> QED BY <2>0, <2>1, <3>1, <4>1 DEF Inserting
    <3> QED BY <1>1, <2>1, <3>1
  <2>2. ASSUME NEW k \in Keys, NEW m \in AllModes, BeginEnqueue(g, k, m)
        PROVE  call'[g].pc = "create" => Pair[call'[g].key] # hk \/ Present(call'[g].key)
    BY <2>2 DEF BeginEnqueue, BudgetedPairs, IInv, TypeOK
  <2>3. CASE \E k \in Keys, m \in AllModes : BeginEnqueue(g, k, m)
    BY <2>1, <2>2, <2>3 DEF BeginEnqueue
  <2>4. CASE ExistsProbe(g) \/ Lookup(g) \/ AbortEnqueue(g)
    <3>1. rows' = rows /\ call' \in [Callers -> Call]
      BY <2>4 DEF ExistsProbe, Lookup, AbortEnqueue, IInv, TypeOK
    <3>2. CASE ExistsProbe(g) /\ Present(call[g].key)
      <4>1. call'[g] = [call[g] EXCEPT !.pc = "create"] /\ call[g] \in Call
        BY <3>2 DEF ExistsProbe, IInv, TypeOK
      <4>2. call'[g].key = call[g].key
        BY <3>2, <4>1 DEF Call, Idle, ExistsProbe
      <4> QED BY <2>1, <3>1, <3>2, <4>2
    <3>3. CASE ~(ExistsProbe(g) /\ Present(call[g].key))
      <4> DEFINE d == [call[g] EXCEPT !.pc = "cas", !.seen = rows[call[g].key].status]
      <4>1. call'[g] = Idle \/ call'[g] = d
        BY <2>4, <3>3 DEF ExistsProbe, Lookup, AbortEnqueue, IInv, TypeOK
      <4>2. d.pc = "cas"
        BY DEF Call, Idle, IInv, TypeOK
      <4> HIDE DEF d
      <4>3. call'[g].pc # "create"
        BY <4>1, <4>2 DEF Idle
      <4> QED BY <2>1, <3>1, <4>3
    <3> QED BY <3>2, <3>3
  <2>5. CASE CompareAndSet(g)
    <3>1. \A k \in Keys : Present(k)' <=> Present(k)
      BY <1>0, <2>5 DEF CompareAndSet, Reactivated, Released, Row, IInv, TypeOK, CallInv,
                        Reactivates
    <3>2. call'[g].pc # "create"
      BY <2>5 DEF CompareAndSet, Idle, IInv, TypeOK
    <3> QED BY <2>1, <3>1, <3>2
  <2>6. CASE BudgetCount(g)
    <3>1. call[g].key \in Keys /\ rows' = rows
      BY <1>0, <2>6 DEF BudgetCount
    <3>2. CASE Pair[call[g].key] # hk \/ ~UnderBudget(call[g].key)
      BY <2>1, <2>6, <3>1, <3>2 DEF BudgetCount, IInv, TypeOK, Call, Idle
    <3>3. CASE Pair[call[g].key] = hk /\ UnderBudget(call[g].key)
      <4>1. Cardinality(RowsOfPair(hk)) < Budget /\ RowsOfPair(hk)' = RowsOfPair(hk)
        BY <3>1, <3>3 DEF UnderBudget, RowsOfPair
      <4>2. Inserting(hk)' \in SUBSET Callers
        BY DEF Inserting
      <4>3. /\ Cardinality(Inserting(hk)') <= Cardinality(Callers)
            /\ Cardinality(Inserting(hk)') \in Nat
        BY <4>2, FS_Subset, FS_CardinalityType
      <4>4. Cardinality(RowsOfPair(hk)') < Budget
        BY <4>1
      <4> HIDE DEF Inserting
      <4> QED BY <4>1, <4>3, <4>4, PairSizes, BoundsAssumption
    <3> QED BY <3>2, <3>3
  <2>7. CASE Create(g)
    <3> DEFINE k == call[g].key
    <3>1. k \in Keys
      BY <1>0, <2>7 DEF Create
    <3>2. CASE Present(k)
      BY <2>1, <2>7, <3>2 DEF Create, IInv, TypeOK, Call, Idle
    <3>3. CASE ~Present(k)
      <4>1. rows' = [rows EXCEPT ![k] = NewRow] /\ call' = [call EXCEPT ![g] = Idle]
        BY <2>7, <3>3 DEF Create
      <4>2. /\ \A j \in Keys : Present(j)' <=> Present(j) \/ j = k
            /\ call'[g].pc = "idle"
        BY <3>1, <4>1 DEF IInv, TypeOK, NewRow, NoRow, Idle
      <4>3. ASSUME NEW f \in Callers, f \in Inserting(hk)'
            PROVE  f \in Inserting(hk) /\ f # g
        <5>1. call'[f].key \in Keys /\ f # g
          BY <4>2, <4>3 DEF Inserting, IInv, TypeOK, Call, Idle
        <5> QED BY <2>0, <4>2, <4>3, <5>1 DEF Inserting
      <4>4. CASE Pair[k] # hk
        <5>1. RowsOfPair(hk)' = RowsOfPair(hk)
          BY <4>2, <4>4 DEF RowsOfPair
        <5>2. Inserting(hk)' \subseteq Inserting(hk)
          BY <4>3 DEF Inserting
        <5> QED BY <5>1, <5>2, BudgetKept
      <4>5. CASE Pair[k] = hk
        <5> DEFINE S == Inserting(hk)
                   R == RowsOfPair(hk)
        <5>1. g \in S /\ S' \in SUBSET (S \ {g})
          BY <2>7, <3>3, <4>3, <4>5 DEF Create, Inserting
        <5>2. R' = R \union {k} /\ k \notin R
          BY <3>1, <3>3, <4>2, <4>5 DEF RowsOfPair
        <5>3. IsFiniteSet(S) /\ IsFiniteSet(R) /\ Cardinality(S) \in Nat
              /\ Cardinality(R) \in Nat
              /\ Cap(hk) \in Nat /\ Cardinality(Callers) \in Nat
          BY PairSizes
        <5>4. Cardinality(R) + Cardinality(S) < Cap(hk) + Cardinality(Callers)
          BY DEF BudgetInv
        <5> HIDE DEF S, R, k
        <5>5. Cardinality(R') = Cardinality(R) + 1
          BY <5>2, <5>3, FS_AddElement
        <5>6. IsFiniteSet(S \ {g}) /\ Cardinality(S \ {g}) = Cardinality(S) - 1
          BY <5>1, <5>3, FS_RemoveElement
        <5>7. IsFiniteSet(S') /\ Cardinality(S') <= Cardinality(S \ {g})
          BY <5>1, <5>6, FS_Subset
        <5>8. Cardinality(S') \in Nat
          BY <5>7, FS_CardinalityType
        <5>9. Cardinality(R') + Cardinality(S') < Cap(hk) + Cardinality(Callers)
          BY <5>3, <5>4, <5>5, <5>6, <5>7, <5>8
        <5> QED BY <5>9 DEF S, R
      <4> QED BY <4>4, <4>5
    <3> QED BY <3>2, <3>3
  <2> QED BY <1>3, <2>3, <2>4, <2>5, <2>6, <2>7 DEF Enqueue
<1>4. ASSUME NEW p \in Procs, Start(p) \/ PeriodicReclaim(p) \/ Stop(p)
      PROVE  Cardinality(RowsOfPair(hk))' + Cardinality(Inserting(hk))'
               < Cap(hk) + Cardinality(Callers)
  <2>1. \A k \in Keys : Present(k)' <=> Present(k)
    BY <1>0, <1>4, ZenonT(30) DEF Start, StartupSweep, PeriodicReclaim, Stop, SweptExpired, SweptAll,
                      Released, Row
  <2> QED BY <1>2, <1>4, <2>1 DEF Start, PeriodicReclaim, Stop
<1>5. ASSUME NEW p \in Procs, NEW batch \in SUBSET Keys, Dequeue(p, batch)
      PROVE  Cardinality(RowsOfPair(hk))' + Cardinality(Inserting(hk))'
               < Cap(hk) + Cardinality(Callers)
  <2>1. \A k \in Keys : Present(k)' <=> Present(k)
    BY <1>0, <1>5 DEF Dequeue, Dequeuable, Leased, Row
  <2> QED BY <1>2, <1>5, <2>1 DEF Dequeue
<1>6. ASSUME NEW j \in Keys, LeaseExpires(j)
      PROVE  Cardinality(RowsOfPair(hk))' + Cardinality(Inserting(hk))'
               < Cap(hk) + Cardinality(Callers)
  <2>1. \A k \in Keys : Present(k)' <=> Present(k)
    BY <1>0, <1>6 DEF LeaseExpires, Row, IInv, TypeOK
  <2> QED BY <1>2, <1>6, <2>1 DEF LeaseExpires
<1>7. ASSUME NEW c \in claims, Answer(c)
      PROVE  Cardinality(RowsOfPair(hk))' + Cardinality(Inserting(hk))'
               < Cap(hk) + Cardinality(Callers)
  <2>1. c.key \in Keys /\ rows[c.key] \in Row
    BY <1>0 DEF IInv, TypeOK, Claim
  <2>2. /\ \A s \in {"pending", "done"} : Released(rows[c.key], s).status # "absent"
        /\ Charged(rows[c.key], c.seen, c.limit).status # "absent"
    BY <2>1 DEF Released, Charged, Row
  <2>3. \A k \in Keys : Present(k)' <=> Present(k)
    BY <1>0, <1>7, <2>1, <2>2 DEF Answer, Complete, Requeue, Release, FailRead, FailUpdate,
                                  AnswerError, Owned, IInv, TypeOK
  <2>4. call' = call
    BY <1>7 DEF Answer, Complete, Requeue, Release, FailRead, FailUpdate, AnswerError
  <2> QED BY <1>2, <2>3, <2>4
<1>8. CASE UNCHANGED vars
  BY <1>2, <1>8 DEF vars
<1> QED BY <1>3, <1>4, <1>5, <1>6, <1>7, <1>8 DEF Next

\* The page budget is a soft cap: however many goroutines count, probe, insert,
\* die and start again, a host gets fewer than Callers rows too many; one that
\* enqueues alone never overshoots.
THEOREM BudgetOvershootIsBounded ==
  ASSUME IsFiniteSet(Keys), IsFiniteSet(Callers), Callers # {}
  PROVE  Spec => []BudgetOvershoot
<1>1. Init => BudgetInv
  <2> SUFFICES ASSUME Init, NEW hk \in BudgetedPairs
               PROVE  Cardinality(RowsOfPair(hk)) + Cardinality(Inserting(hk))
                        < Cap(hk) + Cardinality(Callers)
    BY DEF BudgetInv
  <2>1. RowsOfPair(hk) = SeedsOfPair(hk)
    BY EnqueueAssumption DEF Init, RowsOfPair, SeedsOfPair, NewRow, NoRow
  <2>2. Inserting(hk) = {}
    BY DEF Init, Inserting, Idle
  <2>3. Cardinality(Inserting(hk)) = 0 /\ Cardinality(Callers) # 0
    BY <2>2, FS_EmptySet
  <2> QED BY <2>1, <2>3, PairSizes
<1>2. IInv /\ IInv' /\ BudgetInv /\ [Next]_vars => BudgetInv'
  BY BudgetStep
<1>3. BudgetInv => BudgetOvershoot
  <2> SUFFICES ASSUME BudgetInv, NEW hk \in BudgetedPairs
               PROVE  Cardinality(RowsOfPair(hk)) < Cap(hk) + Cardinality(Callers)
    BY DEF BudgetOvershoot, Cap
  <2>1. Cardinality(RowsOfPair(hk)) + Cardinality(Inserting(hk))
          < Cap(hk) + Cardinality(Callers)
    BY DEF BudgetInv
  <2> QED BY <2>1, PairSizes
<1> QED BY <1>1, <1>2, <1>3, Invariance, PTL DEF Spec

-----------------------------------------------------------------------------
(* The refinement.                                                         *)

\* A key without a row, or a finished row, that becomes pending is a submission.
LEMMA SubmitRefines ==
  ASSUME TypeOK, RowsInv, NEW k \in Keys, NEW q \in Row,
         rows' = [rows EXCEPT ![k] = q], claims' = claims,
         rows[k].status \in {"absent", "done", "failed"},
         q.status = "pending", q.lease = "none", q.worker = NoWorker,
         q.gen = rows[k].gen
  PROVE  Queue!Next
<1> USE DEF TypeOK
<1>1. rows[k].lease = "none" /\ rows[k].worker = NoWorker
  BY DEF RowsInv, RowInv
<1>2. \A j \in Keys : j # k => rows'[j] = rows[j]
  OBVIOUS
<1>3. rows'[k] = q
  OBVIOUS
<1>4. Queue!Submit(k)
  BY <1>1, <1>2, <1>3 DEF Queue!Submit, AbstractState
<1> QED BY <1>4 DEF Queue!Next

\* No two claims have the same ticket, so dropping one drops its ticket.
LEMMA OneTicketPerClaim ==
  ASSUME ClaimDiscipline, NEW c \in claims
  PROVE  {Ticket(d) : d \in claims \ {c}}
           = {Ticket(d) : d \in claims} \ {Ticket(c)}
<1>1. ASSUME NEW d \in claims, Ticket(d) = Ticket(c)
      PROVE  d = c
  <2>1. d.key = c.key /\ d.gen = c.gen
    BY <1>1 DEF Ticket
  <2> QED BY <2>1 DEF ClaimDiscipline
<1> QED BY <1>1

\* A claimed row that its holder takes out of in_flight is an answer.
LEMMA AnswerRefines ==
  ASSUME TypeOK, RowsInv, ClaimDiscipline, NEW c \in claims, NEW q \in Row,
         rows' = [rows EXCEPT ![c.key] = q], claims' = claims \ {c},
         Owned(rows[c.key], WorkerID[c.proc]),
         q.status \in {"pending", "done", "failed"},
         q.lease = "none", q.worker = NoWorker, q.gen = rows[c.key].gen
  PROVE  Queue!Next
<1> USE DEF TypeOK
<1> DEFINE outcome == IF q.status = "pending" THEN "queued" ELSE "finished"
           t       == Ticket(c)
<1>0. c.key \in Keys /\ t.item = c.key /\ t.holder = WorkerID[c.proc]
  BY DEF Ticket, Claim
<1>1. \A j \in Keys : j # c.key => rows'[j] = rows[j]
  OBVIOUS
<1>2. rows'[c.key] = q
  BY <1>0
<1>3. {Ticket(d) : d \in claims}' = {Ticket(d) : d \in claims} \ {t}
  BY OneTicketPerClaim DEF Ticket
<1>4. t \in {Ticket(d) : d \in claims}
  OBVIOUS
<1> HIDE DEF t
<1>5. [k \in Keys |-> AbstractState(rows[k])]' =
        [[k \in Keys |-> AbstractState(rows[k])] EXCEPT ![c.key] = outcome]
  BY <1>0, <1>1, <1>2 DEF AbstractState
<1>6. [k \in Keys |-> rows[k].worker]' =
        [[k \in Keys |-> rows[k].worker] EXCEPT ![c.key] = NoWorker]
  BY <1>0, <1>1, <1>2
<1>7. {k \in Keys : rows[k].lease = "expired"}' =
        {k \in Keys : rows[k].lease = "expired"} \ {c.key}
  BY <1>0, <1>1, <1>2
<1>8. [k \in Keys |-> rows[k].gen]' = [k \in Keys |-> rows[k].gen]
  BY <1>0, <1>1, <1>2
<1>9. rows[c.key].status = "in_flight" /\ rows[c.key].worker = WorkerID[c.proc]
  BY DEF Owned
<1>10. Queue!Answer(t, outcome)
  BY <1>0, <1>3, <1>5, <1>6, <1>7, <1>8, <1>9 DEF Queue!Answer, AbstractState
<1> QED BY <1>4, <1>10 DEF Queue!Next

\* A step that leaves the rows alone and adds no ticket drops tickets.
LEMMA DropRefines ==
  ASSUME rows' = rows,
         {Ticket(c) : c \in claims'} \subseteq {Ticket(c) : c \in claims}
  PROVE  Queue!Next
<1> DEFINE old == {Ticket(c) : c \in claims}
           new == {Ticket(c) : c \in claims'}
<1>1. old' = new
  BY DEF Ticket
<1>2. new = old \ (old \ new) /\ old \ new \in SUBSET old
  OBVIOUS
<1> HIDE DEF new
<1>3. Queue!Drop(old \ new)
  BY <1>1, <1>2 DEF Queue!Drop, AbstractState
<1> QED BY <1>2, <1>3 DEF Queue!Next

\* Sweeping the expired rows is the abstract sweep; so is sweeping all rows
\* when nobody is left with a claim.
LEMMA SweepRefines ==
  ASSUME TypeOK, RowsInv, claims' = claims,
         \/ rows' = [k \in Keys |-> SweptExpired(rows[k])]
         \/ rows' = [k \in Keys |-> SweptAll(rows[k])] /\ claims = {}
  PROVE  Queue!Next
<1> USE DEF TypeOK
<1> DEFINE Expired  == {k \in Keys : rows[k].lease = "expired"}
           InFlight == {k \in Keys : rows[k].status = "in_flight"}
           Takes(S) == /\ S = Expired \/ (S = InFlight /\ claims = {})
                       /\ \A k \in S : rows'[k] = Released(rows[k], "pending")
                       /\ \A k \in Keys \ S : rows'[k] = rows[k]
<1>1. \E S \in SUBSET Keys : Takes(S)
  <2>1. CASE rows' = [k \in Keys |-> SweptExpired(rows[k])]
    <3>1. \A k \in Keys : rows[k].lease = "expired" => rows[k].status = "in_flight"
      BY DEF RowsInv, RowInv
    <3>2. \A k \in Expired : rows'[k] = Released(rows[k], "pending")
      BY <2>1, <3>1 DEF SweptExpired
    <3>3. \A k \in Keys \ Expired : rows'[k] = rows[k]
      BY <2>1 DEF SweptExpired
    <3>4. Takes(Expired) /\ Expired \in SUBSET Keys
      BY <3>2, <3>3
    <3> HIDE DEF Takes, Expired
    <3> QED BY <3>4
  <2>2. CASE rows' = [k \in Keys |-> SweptAll(rows[k])] /\ claims = {}
    <3>1. Takes(InFlight) /\ InFlight \in SUBSET Keys
      BY <2>2 DEF SweptAll
    <3> HIDE DEF Takes, InFlight
    <3> QED BY <3>1
  <2> QED BY <2>1, <2>2
<1>2. PICK S \in SUBSET Keys : Takes(S)
  BY <1>1
<1>3. ASSUME NEW k \in S
      PROVE  /\ rows[k].status = "in_flight"
             /\ rows'[k].status = "pending" /\ rows'[k].lease = "none"
             /\ rows'[k].worker = NoWorker /\ rows'[k].gen = rows[k].gen
  <2>1. k \in Keys /\ rows[k] \in Row /\ rows'[k] = Released(rows[k], "pending")
    BY <1>2
  <2>2. rows[k].status = "in_flight"
    BY <1>2, <2>1 DEF RowsInv, RowInv
  <2> QED BY <2>1, <2>2 DEF Released, Row
<1>4. ASSUME NEW k \in Keys, k \notin S
      PROVE  rows'[k] = rows[k] /\ rows[k].lease # "expired"
  BY <1>2, <1>4 DEF RowsInv, RowInv
<1>5. \A k \in S : rows[k].lease = "expired" \/ claims = {}
  BY <1>2
<1>6. {Ticket(c) : c \in claims}' = {Ticket(c) : c \in claims}
  BY DEF Ticket
<1>7. Queue!Sweep(S)
  BY <1>3, <1>4, <1>5, <1>6 DEF Queue!Sweep, Queue!Abandoned, AbstractState
<1> QED BY <1>7 DEF Queue!Next

\* A batch leased to a process is an abstract claim by its worker id.
LEMMA ClaimRefines ==
  ASSUME TypeOK, RowsInv, NEW p \in Procs, NEW batch \in SUBSET Keys,
         Dequeue(p, batch)
  PROVE  Queue!Next
<1> USE DEF TypeOK
<1> DEFINE w       == WorkerID[p]
           tickets == {Ticket(c) : c \in claims}
<1>1. w \in WorkerIds
  BY ProcsAssumption
<1>2. ASSUME NEW k \in batch
      PROVE  /\ rows[k].status = "pending" /\ rows[k].lease = "none"
             /\ rows'[k].status = "in_flight" /\ rows'[k].worker = w
             /\ rows'[k].lease = "live" /\ rows'[k].gen = rows[k].gen + 1
  <2>1. k \in Keys /\ rows[k] \in Row /\ rows[k].status = "pending" /\ rows'[k] = Leased(rows[k], w)
    BY DEF Dequeue, Dequeuable
  <2>2. rows[k].lease = "none"
    BY <2>1 DEF RowsInv, RowInv
  <2> QED BY <2>1, <2>2 DEF Leased, Row
<1>3. ASSUME NEW k \in Keys, k \notin batch
      PROVE  rows'[k] = rows[k]
  BY <1>3 DEF Dequeue
<1>4. tickets' = tickets \union
        {Queue!NewTicket(k, w) : k \in batch}
  <2>1. claims' = claims \union {NewClaim(p, k) : k \in batch}
    BY DEF Dequeue
  <2>2. \A k \in batch : Ticket(NewClaim(p, k)) = Queue!NewTicket(k, w)
    BY DEF Ticket, NewClaim, Queue!NewTicket
  <2>3. tickets' = {Ticket(c) : c \in claims'}
    BY DEF Ticket
  <2> QED BY <2>1, <2>2, <2>3
<1> HIDE DEF tickets
<1>5. Queue!Claim(batch, w)
  BY <1>2, <1>3, <1>4 DEF Queue!Claim, AbstractState, tickets
<1> QED BY <1>1, <1>5 DEF Queue!Next

\* sqlite has one engine on the file.
SoleUnlessShared == Shared \/ \A p, q \in Procs : p = q

\* Every statement is one step of the abstract queue, or none, on a shared
\* frontier and on one that a single process uses: the interleaved enqueues,
\* sweeps, answers and deaths add up to a queue whose items change hands only
\* through it.
THEOREM FrontierImplementsWorkQueue ==
  ASSUME SoleUnlessShared
  PROVE  Spec => ImplementsWorkQueue
<1>1. Init => Queue!Init
  BY DEF Init, Queue!Init, AbstractState, NewRow, NoRow
<1>2. IInv /\ (Shared \/ SoleInv) /\ [Next]_vars => [Queue!Next]_(Queue!vars)
  <2> SUFFICES ASSUME IInv, Shared \/ SoleInv, [Next]_vars
               PROVE  Queue!Next \/ UNCHANGED Queue!vars
    OBVIOUS
  <2> USE DEF IInv, TypeOK
  <2>0. rows' = rows /\ claims' = claims => UNCHANGED Queue!vars
    BY DEF Queue!vars, Ticket
  <2>1. ASSUME NEW g \in Callers, Enqueue(g)
        PROVE  Queue!Next \/ (rows' = rows /\ claims' = claims)
    <3>1. CASE Create(g) /\ rows' # rows
      <4> DEFINE k == call[g].key
      <4>1. k \in Keys
        BY <3>1 DEF Create, Call, Idle
      <4>2. rows[k].status = "absent" /\ rows' = [rows EXCEPT ![k] = NewRow]
        BY <3>1 DEF Create
      <4>3. rows[k].gen = 0
        BY <4>1, <4>2 DEF RowsInv, RowInv
      <4>4. claims' = claims
        BY <3>1 DEF Create
      <4>5. /\ NewRow.status = "pending" /\ NewRow.lease = "none"
            /\ NewRow.worker = NoWorker /\ NewRow.gen = rows[k].gen
        BY <4>3 DEF NewRow, NoRow
      <4>6. NewRow \in Row
        BY RowTypes
      <4> HIDE DEF k
      <4> QED BY <4>1, <4>2, <4>4, <4>5, <4>6, SubmitRefines
    <3>2. CASE CompareAndSet(g)
      <4> DEFINE k == call[g].key
      <4>1. k \in Keys /\ call[g].seen \in Finished
        BY <3>2 DEF CompareAndSet, CallInv, Reactivates, Call, Idle, Finished
      <4>2. /\ Reactivated(rows[k]) \in Row
            /\ Reactivated(rows[k]).status = "pending"
            /\ Reactivated(rows[k]).lease = "none"
            /\ Reactivated(rows[k]).worker = NoWorker
            /\ Reactivated(rows[k]).gen = rows[k].gen
        BY <4>1, RowTypes, ZenonT(30) DEF Reactivated, Released, Row
      <4>3. claims' = claims
        BY <3>2 DEF CompareAndSet
      <4>4. CASE rows' = rows
        BY <4>3, <4>4
      <4>5. CASE rows' # rows
        <5>1. /\ rows[k].status \in {"done", "failed"}
              /\ rows' = [rows EXCEPT ![k] = Reactivated(rows[k])]
          BY <3>2, <4>1, <4>5 DEF CompareAndSet, Finished
        <5> HIDE DEF k
        <5> QED BY <4>1, <4>2, <4>3, <5>1, SubmitRefines
      <4> QED BY <4>4, <4>5
    <3> QED BY <2>1, <3>1, <3>2 DEF Enqueue, BeginEnqueue, BudgetCount,
                                    ExistsProbe, Create, Lookup, AbortEnqueue
  <2>2. ASSUME NEW p \in Procs, Start(p) \/ PeriodicReclaim(p) \/ Stop(p)
        PROVE  Queue!Next
    <3>1. CASE Start(p) \/ PeriodicReclaim(p)
      <4>1. \/ rows' = [k \in Keys |-> SweptExpired(rows[k])]
            \/ rows' = [k \in Keys |-> SweptAll(rows[k])] /\ claims = {}
        <5>1. CASE Shared
          BY <3>1, <5>1 DEF Start, StartupSweep, PeriodicReclaim
        <5>2. CASE ~Shared
          <6>1. Start(p) /\ p \notin up /\ \A c \in claims : c.proc \in up /\ c.proc = p
            BY <3>1, <5>2 DEF Start, PeriodicReclaim, SoleInv, SoleUnlessShared, Claim
          <6> QED BY <5>2, <6>1 DEF Start, StartupSweep
        <5> QED BY <5>1, <5>2
      <4>2. claims' = claims
        BY <3>1 DEF Start, PeriodicReclaim
      <4> QED BY <4>1, <4>2, SweepRefines
    <3>2. CASE Stop(p)
      BY <3>2, DropRefines DEF Stop
    <3> QED BY <2>2, <3>1, <3>2
  <2>3. ASSUME NEW p \in Procs, NEW batch \in SUBSET Keys, Dequeue(p, batch)
        PROVE  Queue!Next
    BY <2>3, ClaimRefines
  <2>4. ASSUME NEW k \in Keys, LeaseExpires(k)
        PROVE  Queue!Next
    <3>1. \A j \in Keys : j # k => rows'[j] = rows[j]
      BY <2>4 DEF LeaseExpires
    <3>2. /\ rows[k].status = "in_flight" /\ rows'[k].status = "in_flight"
          /\ rows[k].lease = "live" /\ rows'[k].lease = "expired"
          /\ rows'[k].worker = rows[k].worker /\ rows'[k].gen = rows[k].gen
      BY <2>4 DEF LeaseExpires, RowsInv, RowInv, Row
    <3>3. {Ticket(c) : c \in claims}' = {Ticket(c) : c \in claims}
      BY <2>4 DEF LeaseExpires, Ticket
    <3>4. Queue!Lapse(k)
      BY <3>1, <3>2, <3>3 DEF Queue!Lapse, AbstractState
    <3> QED BY <3>4 DEF Queue!Next
  <2>5. ASSUME NEW c \in claims, Answer(c)
        PROVE  Queue!Next
    <3>1. c.key \in Keys /\ c.seen \in Nat /\ rows[c.key] \in Row
      BY DEF Claim
    <3>2. CASE rows' = rows /\ claims' = claims \ {c}
      BY <3>2, DropRefines
    <3>3. CASE (Complete(c) \/ Requeue(c)) /\ rows' # rows
      <4>1. PICK s \in {"pending", "done"} : Release(c, s)
        BY <3>3 DEF Complete, Requeue
      <4>2. /\ Released(rows[c.key], s).status = s
            /\ Released(rows[c.key], s).lease = "none"
            /\ Released(rows[c.key], s).worker = NoWorker
            /\ Released(rows[c.key], s).gen = rows[c.key].gen
        BY <3>1 DEF Released, Row
      <4>3. Released(rows[c.key], s) \in Row
        BY <3>1, RowTypes DEF Status
      <4>4. /\ Owned(rows[c.key], WorkerID[c.proc])
            /\ rows' = [rows EXCEPT ![c.key] = Released(rows[c.key], s)]
            /\ claims' = claims \ {c}
        BY <3>3, <4>1 DEF Release
      <4> QED BY <4>2, <4>3, <4>4, AnswerRefines
    <3>4. CASE FailUpdate(c) /\ rows' # rows
      <4> DEFINE q == Charged(rows[c.key], c.seen, c.limit)
      <4>1. c.limit \in {1, MaxAttempts}
        BY <3>4 DEF FailUpdate, LimitInv
      <4>2. q \in Row
        BY <3>1, <4>1, RowTypes
      <4>3. /\ q.status \in {"pending", "failed"} /\ q.gen = rows[c.key].gen
            /\ q.lease = "none" /\ q.worker = NoWorker
        BY <3>1 DEF Charged, Released, Row
      <4>4. /\ Owned(rows[c.key], WorkerID[c.proc])
            /\ rows' = [rows EXCEPT ![c.key] = q]
            /\ claims' = claims \ {c}
        BY <3>4 DEF FailUpdate
      <4> HIDE DEF q
      <4> QED BY <4>2, <4>3, <4>4, AnswerRefines
    <3>5. ASSUME NEW limit \in {1, MaxAttempts}, FailRead(c, limit)
          PROVE  Queue!Next
      <4> DEFINE d == [c EXCEPT !.phase = "failing",
                                !.seen = rows[c.key].attempts, !.limit = limit]
      <4>1. Ticket(d) = Ticket(c)
        BY DEF Ticket, Claim
      <4>2. claims' = (claims \ {c}) \union {d} /\ rows' = rows
        BY <3>5 DEF FailRead
      <4> HIDE DEF d
      <4> QED BY <4>1, <4>2, DropRefines
    <3>6. CASE Complete(c) \/ Requeue(c) \/ FailUpdate(c) \/ AnswerError(c)
      BY <3>2, <3>3, <3>4, <3>6
         DEF Complete, Requeue, Release, FailUpdate, AnswerError
    <3> QED BY <2>5, <3>5, <3>6 DEF Answer
  <2>6. CASE UNCHANGED vars
    BY <2>0, <2>6 DEF vars
  <2> QED BY <2>0, <2>1, <2>2, <2>3, <2>4, <2>5, <2>6 DEF Next
<1>3. Init => Shared \/ SoleInv
  BY DEF Init, SoleInv
<1>4. IInv /\ (Shared \/ SoleInv) /\ [Next]_vars => (Shared \/ SoleInv)'
  BY SoleStep DEF SoleUnlessShared
<1> QED BY <1>1, <1>2, <1>3, <1>4, Invariance, PTL DEF Spec, Queue!Spec, ImplementsWorkQueue
=============================================================================
