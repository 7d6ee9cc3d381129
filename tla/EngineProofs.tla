---------------------------- MODULE EngineProofs ----------------------------
(***************************************************************************)
(* Proofs about Engine, for any fleet, pool, work and number of upsets.    *)
(*                                                                         *)
(* What holds the argument together is HoldInv: every item in the memory   *)
(* of a process has its row in_flight under that process and that claim,   *)
(* and no process has two items of one row.  It needs that no lease runs   *)
(* out under a live handler, and that a frontier that is not shared has    *)
(* one engine.                                                             *)
(***************************************************************************)
EXTENDS Engine, TLAPS

Item == [key : Keys, gen : Nat, todo : SUBSET Keys, limit : {0, 1, MaxAttempts}]

TypeOK ==
  /\ rows \in [Keys -> Row]
  /\ pc \in [Procs -> {"down", "loop", "dequeue", "counts", "send", "drain", "returned"}]
  /\ idle \in [Procs -> BOOLEAN] /\ cancelled \in [Procs -> BOOLEAN]
  /\ why \in [Procs -> {"none", "cancelled", "error", "empty"}]
  /\ waiting \in [Procs -> SUBSET Item]
  /\ running \in [Procs -> SUBSET Item]
  /\ lapses \in Nat /\ upsets \in Nat

\* A batch exists only while it is being sent, and a process that is down or
\* whose Run has returned handles nothing.
PhaseInv ==
  \A p \in Procs : /\ pc[p] # "send" => waiting[p] = {}
                   /\ pc[p] \in {"down", "returned"} => running[p] = {}

Held(p, c) ==
  /\ rows[c.key].status = "in_flight" /\ rows[c.key].worker = p
  /\ rows[c.key].gen = c.gen /\ rows[c.key].lease = "live"

HoldInv ==
  \A p \in Procs : /\ \A c \in InFlight(p) : Held(p, c)
                   /\ \A c, d \in InFlight(p) : c.key = d.key => c = d
                   /\ waiting[p] \cap running[p] = {}

\* The crawl stays over.
OverInv == (\E p \in Procs : why[p] = "empty") => \A k \in Keys : ~Unfinished(k)

\* The two things the engine relies on (src/internal/crawler/engine.go:268-293):
\* a lease is longer than any handler takes, and sqlite has one process.
NoLeaseLapses == MaxLapses = 0
SoleUnlessShared == Shared \/ \A p, q \in Procs : p = q

-----------------------------------------------------------------------------
(* The rows.                                                               *)

\* Every update of a row yields a row; the ones that end a claim say how.
LEMMA RowTypes ==
  /\ NoRow \in Row /\ NewRow \in Row
  /\ NewRow.status = "pending"
  /\ \A r \in Row :
       /\ \A s \in {"pending", "done", "failed"} : Released(r, s) \in Row
       /\ \A l \in {1, MaxAttempts} : Charged(r, r.attempts, l) \in Row
       /\ \A p \in Procs : Leased(r, p) \in Row
<1>1. NoRow \in Row /\ NewRow \in Row /\ NewRow.status = "pending"
  BY DEF NoRow, NewRow, Row, Status
<1>2. ASSUME NEW r \in Row, NEW s \in {"pending", "done", "failed"}
      PROVE  Released(r, s) \in Row
  BY DEF Row, Status, Released
<1>3. ASSUME NEW r \in Row, NEW l \in {1, MaxAttempts}
      PROVE  Charged(r, r.attempts, l) \in Row
  <2>1. r.attempts + 1 \in Nat
    BY DEF Row
  <2>2. \A q \in Row, n \in Nat : [q EXCEPT !.attempts = n] \in Row
    BY DEF Row
  <2> QED BY <1>2, <2>1, <2>2 DEF Charged
<1>4. ASSUME NEW r \in Row, NEW p \in Procs
      PROVE  Leased(r, p) \in Row
  <2>1. r.gen + 1 \in Nat /\ p \in WorkerIds
    BY FleetAssumption DEF Row
  <2> QED BY <2>1 DEF Row, Status, Leased
<1> QED BY <1>1, <1>2, <1>3, <1>4

\* A row in the hands of p, and one that is given back.
LEMMA LeasedRow ==
  ASSUME NEW r \in Row, NEW p \in Procs
  PROVE  /\ Leased(r, p).status = "in_flight" /\ Leased(r, p).worker = p
         /\ Leased(r, p).lease = "live" /\ Leased(r, p).gen = r.gen + 1
BY DEF Row, Leased

LEMMA ReleasedRow ==
  ASSUME NEW r \in Row, NEW s
  PROVE  Released(r, s).status = s /\ Released(r, s).attempts = r.attempts
BY DEF Row, Released

LEMMA Sweeps ==
  ASSUME NEW r \in Row
  PROVE  /\ SweptExpired(r) \in Row /\ SweptAll(r) \in Row
         /\ SweptExpired(r).attempts = r.attempts /\ SweptAll(r).attempts = r.attempts
         /\ r.lease = "live" => SweptExpired(r) = r
         /\ r.status # "in_flight" => SweptExpired(r) = r /\ SweptAll(r) = r
         /\ r.status # "failed" => SweptExpired(r).status # "failed" /\ SweptAll(r).status # "failed"
BY RowTypes, ReleasedRow DEF SweptExpired, SweptAll

-----------------------------------------------------------------------------
(* Types and phases.                                                       *)

LEMMA TypeStep == TypeOK /\ [Next]_vars => TypeOK'
<1> SUFFICES ASSUME TypeOK, [Next]_vars PROVE TypeOK'
  OBVIOUS
<1> USE DEF TypeOK, control
<1>1. ASSUME NEW p \in Procs, Dispatch(p) PROVE TypeOK'
  <2>1. CASE Start(p)
    BY <2>1, Sweeps DEF Start, StartupSweep
  <2>2. CASE Loop(p)
    BY <2>2, Sweeps DEF Loop, PeriodicSweep
  <2>3. ASSUME NEW batch \in SUBSET Keys, DequeueBatch(p, batch) PROVE TypeOK'
    <3>1. \A k \in Keys : NewItem(k) \in Item
      BY WorkAssumption DEF NewItem, Item, Row
    <3>2. rows' \in [Keys -> Row]
      BY <2>3, RowTypes DEF DequeueBatch
    <3>3. waiting' \in [Procs -> SUBSET Item]
      BY <2>3, <3>1 DEF DequeueBatch
    <3> QED BY <2>3, <3>2, <3>3 DEF DequeueBatch
  <2>4. ASSUME NEW c \in waiting[p], Send(p, c) PROVE TypeOK'
    BY <2>4 DEF Send
  <2>5. CASE LeaveCancelled(p) \/ DequeueNothing(p) \/ CheckCounts(p) \/ Return(p)
    BY <2>5 DEF LeaveCancelled, DequeueNothing, CheckCounts, Return
  <2> QED BY <1>1, <2>1, <2>2, <2>3, <2>4, <2>5 DEF Dispatch
<1>2. ASSUME NEW p \in Procs, NEW c \in running[p], NEW row \in Row, Answered(p, c, row)
      PROVE  TypeOK'
  BY <1>2 DEF Answered, Item
<1>3. ASSUME NEW p \in Procs, NEW c \in running[p],
             \/ \E k \in c.todo : EnqueueFollowUp(p, c, k)
             \/ \E limit \in {1, MaxAttempts} : HandlerFails(p, c, limit)
             \/ Succeed(p, c) \/ Interrupted(p, c) \/ Fail(p, c)
      PROVE  TypeOK'
  <2>0. c \in Item /\ c.key \in Keys /\ rows[c.key] \in Row
    BY DEF Item
  <2>1. ASSUME NEW k \in c.todo, EnqueueFollowUp(p, c, k) PROVE TypeOK'
    <3>1. [c EXCEPT !.todo = c.todo \ {k}] \in Item /\ k \in Keys
      BY <2>0 DEF Item
    <3> DEFINE d == [c EXCEPT !.todo = c.todo \ {k}]
    <3>2. running' = [running EXCEPT ![p] = (running[p] \ {c}) \union {d}]
      BY <2>1 DEF EnqueueFollowUp
    <3> HIDE DEF d
    <3>3. running' \in [Procs -> SUBSET Item]
      BY <3>1, <3>2 DEF d
    <3>4. rows' \in [Keys -> Row]
      BY <2>1, <3>1, RowTypes DEF EnqueueFollowUp
    <3> QED BY <2>1, <3>3, <3>4 DEF EnqueueFollowUp
  <2>2. ASSUME NEW limit \in {1, MaxAttempts}, HandlerFails(p, c, limit) PROVE TypeOK'
    <3>1. [c EXCEPT !.limit = limit] \in Item
      BY <2>0 DEF Item
    <3> QED BY <2>2, <3>1 DEF HandlerFails
  <2>3. CASE Succeed(p, c) \/ Interrupted(p, c)
    BY <1>2, <2>0, <2>3, RowTypes DEF Succeed, Interrupted
  <2>4. CASE Fail(p, c)
    <3>1. c.limit \in {1, MaxAttempts}
      BY <2>0, <2>4 DEF Fail, Item
    <3> QED BY <1>2, <2>0, <2>4, <3>1, RowTypes DEF Fail
  <2> QED BY <1>3, <2>1, <2>2, <2>3, <2>4
<1>4. ASSUME NEW p \in Procs,
             Cancel(p) \/ QueryError(p) \/ Crash(p) \/ \E c \in running[p] : AnswerError(p, c)
      PROVE  TypeOK'
  <2>1. upsets + 1 \in Nat
    OBVIOUS
  <2>2. CASE Cancel(p)
    BY <2>1, <2>2 DEF Cancel
  <2>3. CASE QueryError(p)
    BY <2>1, <2>3 DEF QueryError
  <2>4. CASE Crash(p)
    BY <2>1, <2>4 DEF Crash
  <2>5. ASSUME NEW c \in running[p], AnswerError(p, c) PROVE TypeOK'
    BY <2>1, <2>5 DEF AnswerError
  <2> QED BY <1>4, <2>2, <2>3, <2>4, <2>5
<1>5. ASSUME NEW k \in Keys, LeaseExpires(k) PROVE TypeOK'
  <2>1. [rows[k] EXCEPT !.lease = "expired"] \in Row
    BY DEF Row
  <2> QED BY <1>5, <2>1 DEF LeaseExpires
<1>6. CASE UNCHANGED vars
  BY <1>6 DEF vars
<1> QED BY <1>1, <1>3, <1>4, <1>5, <1>6 DEF Next, Handle

LEMMA PhaseStep == TypeOK /\ PhaseInv /\ [Next]_vars => PhaseInv'
<1> SUFFICES ASSUME TypeOK, PhaseInv, [Next]_vars PROVE PhaseInv'
  OBVIOUS
<1> USE DEF TypeOK, PhaseInv, control
<1>1. ASSUME NEW p \in Procs, Dispatch(p) PROVE PhaseInv'
  <2>1. ASSUME NEW c \in waiting[p], Send(p, c) PROVE PhaseInv'
    BY <2>1 DEF Send
  <2>2. ASSUME NEW batch \in SUBSET Keys, DequeueBatch(p, batch) PROVE PhaseInv'
    BY <2>2 DEF DequeueBatch
  <2> QED BY <1>1, <2>1, <2>2
          DEF Dispatch, Start, Loop, LeaveCancelled, DequeueNothing, CheckCounts, Return,
              HandlersDone
<1>2. ASSUME NEW p \in Procs, NEW c \in running[p],
             \/ \E k \in c.todo : EnqueueFollowUp(p, c, k)
             \/ \E limit \in {1, MaxAttempts} : HandlerFails(p, c, limit)
             \/ Succeed(p, c) \/ Interrupted(p, c) \/ Fail(p, c) \/ AnswerError(p, c)
      PROVE  PhaseInv'
  <2>1. pc' = pc /\ waiting' = waiting /\ \A q \in Procs : q # p => running'[q] = running[q]
    BY <1>2 DEF EnqueueFollowUp, HandlerFails, Succeed, Interrupted, Fail, AnswerError, Answered
  <2>2. pc[p] \notin {"down", "returned"}
    OBVIOUS
  <2> QED BY <2>1, <2>2
<1>3. ASSUME NEW p \in Procs, Cancel(p) \/ QueryError(p) \/ Crash(p) PROVE PhaseInv'
  BY <1>3 DEF Cancel, QueryError, Crash
<1>4. ASSUME NEW k \in Keys, LeaseExpires(k) PROVE PhaseInv'
  BY <1>4 DEF LeaseExpires
<1>5. CASE UNCHANGED vars
  BY <1>5 DEF vars
<1> QED BY <1>1, <1>2, <1>3, <1>4, <1>5 DEF Next, Handle

-----------------------------------------------------------------------------
(* Who holds what.                                                         *)

\* A step that changes neither the items of a process nor their rows leaves it
\* in order; so does one that only drops items.
LEMMA HoldKept ==
  ASSUME HoldInv, NEW p \in Procs,
         InFlight(p)' \subseteq InFlight(p), waiting'[p] \cap running'[p] = {},
         \A c \in InFlight(p)' : rows'[c.key] = rows[c.key]
  PROVE  /\ \A c \in InFlight(p)' : Held(p, c)'
         /\ \A c, d \in InFlight(p)' : c.key = d.key => c = d
         /\ waiting'[p] \cap running'[p] = {}
BY DEF HoldInv, Held

\* One item is replaced by another state of itself.
LEMMA HoldReplaced ==
  ASSUME HoldInv, NEW p \in Procs, NEW c \in running[p], NEW d,
         d.key = c.key, d.gen = c.gen,
         running' = [running EXCEPT ![p] = (running[p] \ {c}) \union {d}], TypeOK,
         waiting' = waiting,
         \A q \in Procs : \A x \in InFlight(q) : rows'[x.key] = rows[x.key]
  PROVE  HoldInv'
<1>1. \A q \in Procs : q # p => InFlight(q)' = InFlight(q)
                                /\ waiting'[q] = waiting[q] /\ running'[q] = running[q]
  BY DEF InFlight, TypeOK
<1>2. InFlight(p)' = (InFlight(p) \ {c}) \union {d}
  <2>1. running'[p] = (running[p] \ {c}) \union {d} /\ c \notin waiting[p]
    BY DEF TypeOK, HoldInv
  <2> QED BY <2>1 DEF InFlight
<1>3. c \in InFlight(p) /\ \A x \in InFlight(p) : x.key = c.key => x = c
  BY DEF HoldInv, InFlight
<1>4. ASSUME NEW q \in Procs, q # p
      PROVE  /\ \A x \in InFlight(q)' : Held(q, x)'
             /\ \A x, y \in InFlight(q)' : x.key = y.key => x = y
             /\ waiting'[q] \cap running'[q] = {}
  BY <1>1, <1>4 DEF HoldInv, Held
<1>5. \A x \in InFlight(p)' : Held(p, x)'
  BY <1>2, <1>3 DEF HoldInv, Held
<1>6. \A x, y \in InFlight(p)' : x.key = y.key => x = y
  BY <1>2, <1>3 DEF HoldInv
<1>7. waiting'[p] \cap running'[p] = {}
  <2>1. d \in waiting[p] => d = c
    BY <1>3 DEF InFlight
  <2> QED BY <2>1 DEF HoldInv, TypeOK
<1> QED BY <1>4, <1>5, <1>6, <1>7 DEF HoldInv

\* The items of two processes, and two items of one, have different rows.
LEMMA OthersRow ==
  ASSUME HoldInv, NEW p \in Procs, NEW c \in InFlight(p),
         NEW q \in Procs, NEW d \in InFlight(q), d.key = c.key
  PROVE  q = p /\ d = c
BY DEF HoldInv, Held

LEMMA HoldStep ==
  ASSUME NoLeaseLapses, SoleUnlessShared,
         TypeOK, TypeOK', PhaseInv, PhaseInv', HoldInv, [Next]_vars
  PROVE  HoldInv'
<1> USE DEF TypeOK, control
<1>0. \A p \in Procs : \A c \in InFlight(p) : c \in Item /\ c.key \in Keys
  BY DEF InFlight, Item
<1>1. ASSUME UNCHANGED <<waiting, running>>,
             \A p \in Procs : \A c \in InFlight(p) : rows'[c.key] = rows[c.key]
      PROVE  HoldInv'
  BY <1>1 DEF HoldInv, InFlight, Held
<1>2. ASSUME NEW p \in Procs, Dispatch(p) PROVE HoldInv'
  <2>1. CASE Start(p)
    <3>1. CASE Shared
      <4>1. \A k \in Keys : rows'[k] = SweptExpired(rows[k])
        BY <2>1, <3>1 DEF Start, StartupSweep
      <4>2. ASSUME NEW q \in Procs, NEW c \in InFlight(q) PROVE rows'[c.key] = rows[c.key]
        <5>1. rows[c.key] \in Row /\ rows[c.key].lease = "live" /\ c.key \in Keys
          BY <1>0 DEF HoldInv, Held
        <5> QED BY <4>1, <5>1, Sweeps
      <4> QED BY <1>1, <2>1, <4>2 DEF Start, StartupSweep
    <3>2. CASE ~Shared
      <4>1. \A q \in Procs : InFlight(q) = {}
        BY <2>1, <3>2 DEF SoleUnlessShared, Start, StartupSweep, PhaseInv, InFlight
      <4> QED BY <1>1, <2>1, <4>1 DEF Start, StartupSweep
    <3> QED BY <3>1, <3>2
  <2>2. CASE Loop(p)
    <3>1. \A k \in Keys : rows'[k] = SweptExpired(rows[k]) \/ rows'[k] = rows[k]
      BY <2>2 DEF Loop, PeriodicSweep
    <3> QED BY <1>0, <1>1, <2>2, <3>1, Sweeps DEF Loop, HoldInv, Held
  <2>3. ASSUME NEW batch \in SUBSET Keys, DequeueBatch(p, batch) PROVE HoldInv'
    <3>1. /\ waiting[p] = {} /\ running' = running
          /\ waiting' = [waiting EXCEPT ![p] = {NewItem(k) : k \in batch}]
          /\ \A k \in batch : rows[k].status = "pending" /\ rows'[k] = Leased(rows[k], p)
          /\ \A k \in Keys \ batch : rows'[k] = rows[k]
      BY <2>3 DEF DequeueBatch, PhaseInv, Pending
    <3>2. \A q \in Procs : \A c \in InFlight(q) : c.key \notin batch
      BY <3>1 DEF HoldInv, Held
    <3>3. ASSUME NEW q \in Procs, q # p
          PROVE  /\ \A c \in InFlight(q)' : Held(q, c)'
                 /\ \A c, d \in InFlight(q)' : c.key = d.key => c = d
                 /\ waiting'[q] \cap running'[q] = {}
      <4>1. InFlight(q)' = InFlight(q) /\ waiting'[q] = waiting[q] /\ running'[q] = running[q]
        BY <3>1, <3>3 DEF InFlight
      <4> QED BY <1>0, <3>1, <3>2, <4>1 DEF HoldInv, Held
    <3> DEFINE New == {NewItem(k) : k \in batch}
    <3>4. waiting'[p] = New /\ running'[p] = running[p] /\ InFlight(p) = running[p]
      BY <3>1 DEF InFlight
    <3>5. \A c \in New : c.key \in batch /\ c.gen = rows[c.key].gen + 1
      BY DEF NewItem
    <3>6. \A c, d \in New : c.key = d.key => c = d
      BY DEF NewItem
    <3> HIDE DEF New
    <3>7. ASSUME NEW c \in New PROVE Held(p, c)'
      <4>1. rows'[c.key] = Leased(rows[c.key], p) /\ rows[c.key] \in Row
        BY <3>1, <3>5
      <4>2. /\ rows'[c.key].status = "in_flight" /\ rows'[c.key].worker = p
            /\ rows'[c.key].lease = "live" /\ rows'[c.key].gen = rows[c.key].gen + 1
        BY <4>1, LeasedRow
      <4> QED BY <3>5, <4>2 DEF Held
    <3>8. \A c \in running[p] : Held(p, c)' /\ c.key \notin batch
      BY <1>0, <3>1, <3>2, <3>4 DEF HoldInv, Held
    <3>9. InFlight(p)' = New \union running[p]
      BY <3>4 DEF InFlight
    <3>10. \A c, d \in InFlight(p)' : c.key = d.key => c = d
      BY <3>4, <3>5, <3>6, <3>8, <3>9 DEF HoldInv
    <3>11. waiting'[p] \cap running'[p] = {}
      BY <3>4, <3>5, <3>8
    <3> QED BY <3>3, <3>7, <3>8, <3>9, <3>10, <3>11 DEF HoldInv
  <2>4. ASSUME NEW c \in waiting[p], Send(p, c) PROVE HoldInv'
    <3>1. \A q \in Procs : InFlight(q)' = InFlight(q) /\ waiting'[q] \cap running'[q] = {}
      BY <2>4 DEF Send, InFlight, HoldInv
    <3> QED BY <2>4, <3>1 DEF HoldInv, Held, Send
  <2>5. CASE LeaveCancelled(p) \/ DequeueNothing(p) \/ CheckCounts(p) \/ Return(p)
    BY <1>1, <2>5 DEF LeaveCancelled, DequeueNothing, CheckCounts, Return
  <2> QED BY <1>2, <2>1, <2>2, <2>3, <2>4, <2>5 DEF Dispatch
<1>3. ASSUME NEW p \in Procs, NEW c \in running[p], waiting' = waiting,
             running' = [running EXCEPT ![p] = running[p] \ {c}],
             \A k \in Keys : k # c.key => rows'[k] = rows[k]
      PROVE  HoldInv'
  <2>1. c \in InFlight(p) /\ c.key \in Keys /\ c \notin waiting[p]
    BY <1>0 DEF InFlight, HoldInv
  <2>2. ASSUME NEW q \in Procs
        PROVE  /\ InFlight(q)' \subseteq InFlight(q) /\ waiting'[q] \cap running'[q] = {}
               /\ c \notin InFlight(q)' \/ q # p
    BY <1>3, <2>1 DEF InFlight, HoldInv
  <2>3. ASSUME NEW q \in Procs, NEW d \in InFlight(q)'
        PROVE  rows'[d.key] = rows[d.key]
    <3>1. d.key # c.key
      BY <2>1, <2>2, <2>3, OthersRow
    <3> QED BY <1>0, <1>3, <2>2, <2>3, <3>1
  <2> QED BY <2>2, <2>3, HoldKept DEF HoldInv
<1>4. ASSUME NEW p \in Procs, NEW c \in running[p], Handle(p) \/ AnswerError(p, c)
      PROVE  HoldInv'
  <2>1. CASE AnswerError(p, c)
    BY <1>3, <2>1 DEF AnswerError
  <2>2. ASSUME NEW x \in running[p], NEW k \in x.todo, EnqueueFollowUp(p, x, k) PROVE HoldInv'
    <3> DEFINE d == [x EXCEPT !.todo = x.todo \ {k}]
    <3>1. d.key = x.key /\ d.gen = x.gen /\ k \in Keys
      BY DEF Item
    <3>2. /\ running' = [running EXCEPT ![p] = (running[p] \ {x}) \union {d}]
          /\ waiting' = waiting
      BY <2>2 DEF EnqueueFollowUp
    <3>3. \A q \in Procs : \A y \in InFlight(q) : rows'[y.key] = rows[y.key]
      BY <1>0, <2>2, <3>1 DEF EnqueueFollowUp, HoldInv, Held
    <3> HIDE DEF d
    <3> QED BY <3>1, <3>2, <3>3, HoldReplaced
  <2>3. ASSUME NEW x \in running[p], NEW limit \in {1, MaxAttempts}, HandlerFails(p, x, limit)
        PROVE  HoldInv'
    <3> DEFINE d == [x EXCEPT !.limit = limit]
    <3>1. d.key = x.key /\ d.gen = x.gen
      BY DEF Item
    <3>2. /\ running' = [running EXCEPT ![p] = (running[p] \ {x}) \union {d}]
          /\ waiting' = waiting /\ rows' = rows
      BY <2>3 DEF HandlerFails
    <3> HIDE DEF d
    <3> QED BY <3>1, <3>2, HoldReplaced
  <2>4. ASSUME NEW x \in running[p], Succeed(p, x) \/ Interrupted(p, x) \/ Fail(p, x)
        PROVE  HoldInv'
    <3>1. /\ waiting' = waiting /\ running' = [running EXCEPT ![p] = running[p] \ {x}]
          /\ \A k \in Keys : k # x.key => rows'[k] = rows[k]
      BY <2>4 DEF Succeed, Interrupted, Fail, Answered
    <3> QED BY <1>3, <3>1
  <2> QED BY <1>4, <2>1, <2>2, <2>3, <2>4 DEF Handle
<1>5. ASSUME NEW p \in Procs, Cancel(p) \/ QueryError(p) PROVE HoldInv'
  BY <1>1, <1>5 DEF Cancel, QueryError
<1>6. ASSUME NEW p \in Procs, Crash(p) PROVE HoldInv'
  <2>1. \A q \in Procs : /\ InFlight(q)' \subseteq InFlight(q)
                         /\ waiting'[q] \cap running'[q] = {}
    BY <1>6 DEF Crash, InFlight, HoldInv
  <2>2. rows' = rows
    BY <1>6 DEF Crash
  <2> QED BY <2>1, <2>2, HoldKept DEF HoldInv
<1>7. ASSUME NEW k \in Keys, LeaseExpires(k) PROVE HoldInv'
  <2>1. ~Attended(k)
    BY <1>7 DEF LeaseExpires, NoLeaseLapses
  <2>2. \A q \in Procs : \A c \in InFlight(q) : c.key # k
    BY <2>1 DEF Attended, HoldInv, Held
  <2> QED BY <1>0, <1>1, <1>7, <2>2 DEF LeaseExpires
<1>8. CASE UNCHANGED vars
  BY <1>1, <1>8 DEF vars
<1> QED BY <1>2, <1>4, <1>5, <1>6, <1>7, <1>8 DEF Next, Handle

-----------------------------------------------------------------------------
(* The end of the crawl, and of a run.                                     *)

\* A row is made or given back only by somebody who holds another.
LEMMA OverStep ==
  ASSUME SoleUnlessShared, TypeOK, HoldInv, OverInv, [Next]_vars
  PROVE  OverInv'
<1> USE DEF TypeOK, control
<1>0. \A p \in Procs : \A c \in InFlight(p) : c.key \in Keys /\ Unfinished(c.key)
  BY DEF InFlight, Item, HoldInv, Held, Unfinished
<1>1. ASSUME \A p \in Procs : why'[p] = "empty" => why[p] = "empty",
             (\A k \in Keys : ~Unfinished(k)) => \A k \in Keys : ~Unfinished(k)'
      PROVE  OverInv'
  BY <1>1 DEF OverInv
<1>2. ASSUME NEW p \in Procs, Dispatch(p) PROVE OverInv'
  <2>1. CASE Start(p) \/ Loop(p)
    <3>1. \A k \in Keys : \/ rows'[k] = SweptExpired(rows[k]) \/ rows'[k] = rows[k]
                          \/ rows'[k] = SweptAll(rows[k])
      BY <2>1 DEF Start, StartupSweep, Loop, PeriodicSweep
    <3>2. \A k \in Keys : ~Unfinished(k) => rows'[k] = rows[k]
      BY <3>1, Sweeps DEF Unfinished
    <3>3. \A q \in Procs : why'[q] = "empty" => why[q] = "empty"
      BY <2>1 DEF Start, Loop
    <3> QED BY <1>1, <3>2, <3>3 DEF Unfinished
  <2>2. ASSUME NEW batch \in SUBSET Keys, DequeueBatch(p, batch) PROVE OverInv'
    <3>1. PICK k \in batch : Unfinished(k)
      BY <2>2 DEF DequeueBatch, Pending, Unfinished
    <3>2. why' = why
      BY <2>2 DEF DequeueBatch
    <3> QED BY <1>1, <3>1, <3>2
  <2>3. CASE CheckCounts(p)
    <3>1. CASE Drained(p)
      BY <2>3, <3>1 DEF CheckCounts, Drained, OverInv, Unfinished
    <3>2. CASE ~Drained(p)
      BY <1>1, <2>3, <3>2 DEF CheckCounts, Unfinished
    <3> QED BY <3>1, <3>2
  <2>4. CASE LeaveCancelled(p) \/ DequeueNothing(p) \/ Return(p)
             \/ \E c \in waiting[p] : Send(p, c)
    BY <1>1, <2>4 DEF LeaveCancelled, DequeueNothing, Return, Send, Unfinished
  <2> QED BY <1>2, <2>1, <2>2, <2>3, <2>4 DEF Dispatch
<1>3. ASSUME NEW p \in Procs, Handle(p) \/ \E c \in running[p] : AnswerError(p, c)
      PROVE  OverInv'
  <2>1. why' = why
    BY <1>3 DEF Handle, EnqueueFollowUp, HandlerFails, Succeed, Interrupted, Fail, Answered,
                AnswerError
  <2>2. PICK c \in running[p] : TRUE
    BY <1>3 DEF Handle
  <2>3. Unfinished(c.key) /\ c.key \in Keys
    BY <1>0 DEF InFlight
  <2> QED BY <1>1, <2>1, <2>3
<1>4. ASSUME NEW p \in Procs, Cancel(p) \/ QueryError(p) \/ Crash(p) PROVE OverInv'
  BY <1>1, <1>4 DEF Cancel, QueryError, Crash, Unfinished
<1>5. ASSUME NEW k \in Keys, LeaseExpires(k) PROVE OverInv'
  <2>1. \A j \in Keys : rows'[j].status = rows[j].status
    BY <1>5 DEF LeaseExpires, Row
  <2>2. why' = why
    BY <1>5 DEF LeaseExpires
  <2> QED BY <1>1, <2>1, <2>2 DEF Unfinished
<1>6. CASE UNCHANGED vars
  BY <1>1, <1>6 DEF vars, Unfinished
<1> QED BY <1>2, <1>3, <1>4, <1>5, <1>6 DEF Next

LEMMA Start0 == Init => TypeOK /\ PhaseInv /\ HoldInv /\ OverInv
<1> SUFFICES ASSUME Init PROVE TypeOK /\ PhaseInv /\ HoldInv /\ OverInv
  OBVIOUS
<1>1. TypeOK
  BY RowTypes DEF Init, TypeOK
<1> QED BY <1>1 DEF Init, PhaseInv, HoldInv, OverInv, InFlight

LEMMA PhasesHold == Spec => [](TypeOK /\ PhaseInv)
<1>1. Init => TypeOK /\ PhaseInv
  BY Start0
<1>2. TypeOK /\ PhaseInv /\ [Next]_vars => TypeOK' /\ PhaseInv'
  BY TypeStep, PhaseStep
<1> QED BY <1>1, <1>2, PTL DEF Spec

LEMMA ClaimsHold ==
  ASSUME NoLeaseLapses, SoleUnlessShared
  PROVE  Spec => [](TypeOK /\ PhaseInv /\ HoldInv /\ OverInv)
<1>1. Init => HoldInv /\ OverInv
  BY Start0
<1>2. /\ TypeOK /\ TypeOK' /\ PhaseInv /\ PhaseInv' /\ HoldInv /\ OverInv /\ [Next]_vars
      => HoldInv' /\ OverInv'
  BY HoldStep, OverStep
<1> QED BY <1>1, <1>2, PhasesHold, PTL DEF Spec

-----------------------------------------------------------------------------
(* The theorems.                                                           *)

\* When one process of a fleet, of any size and sharding, finds the frontier
\* empty, the crawl is over everywhere, in spite of crashes, cancellations and
\* errors before and after, as long as no lease lapses under its handler.
THEOREM EmptyIsOver ==
  ASSUME NoLeaseLapses, SoleUnlessShared
  PROVE  Spec => []EmptyMeansOver
<1>1. TypeOK /\ HoldInv /\ OverInv => EmptyMeansOver
  <2> SUFFICES ASSUME TypeOK, HoldInv, OverInv, \E p \in Procs : why[p] = "empty"
               PROVE  /\ \A k \in Keys : ~Unfinished(k)
                      /\ \A p \in Procs : \A c \in InFlight(p) : c.todo = {} \/ c.limit # 0
    BY DEF EmptyMeansOver
  <2>1. \A k \in Keys : ~Unfinished(k)
    BY DEF OverInv
  <2>2. \A p \in Procs : \A c \in InFlight(p) : c.key \in Keys /\ Unfinished(c.key)
    BY DEF TypeOK, InFlight, Item, HoldInv, Held, Unfinished
  <2> QED BY <2>1, <2>2
<1> QED BY <1>1, ClaimsHold, PTL

\* Interrupting a process charges none of its items an attempt and fails none.
THEOREM ShutdownIsFree ==
  ASSUME NoLeaseLapses, SoleUnlessShared
  PROVE  Spec => ShutdownChargesNobody
<1>1. ASSUME TypeOK, HoldInv, [Next]_vars,
             NEW p \in Procs, NEW c \in InFlight(p), cancelled[p], c.limit = 0
      PROVE  /\ rows'[c.key].attempts = rows[c.key].attempts
             /\ rows'[c.key].status # "failed"
             /\ \A d \in running'[p] : d.key = c.key /\ d.gen = c.gen => d.limit = 0
  <2> USE DEF TypeOK, control
  <2>0. /\ c \in Item /\ c.key \in Keys /\ rows[c.key] \in Row
        /\ rows[c.key].status = "in_flight" /\ rows[c.key].lease = "live"
        /\ \A d \in InFlight(p) : d.key = c.key => d = c
    BY <1>1 DEF HoldInv, Held, InFlight, Item
  <2>1. ASSUME rows'[c.key].attempts = rows[c.key].attempts, rows'[c.key].status # "failed",
               \A d \in running'[p] :
                 d.limit # 0 => \E x \in InFlight(p) : x.key = d.key /\ x.limit # 0
        PROVE  /\ rows'[c.key].attempts = rows[c.key].attempts
               /\ rows'[c.key].status # "failed"
               /\ \A d \in running'[p] : d.key = c.key /\ d.gen = c.gen => d.limit = 0
    BY <1>1, <2>0, <2>1
  <2>2. ASSUME rows'[c.key] = rows[c.key], running'[p] \subseteq InFlight(p)
        PROVE  /\ rows'[c.key].attempts = rows[c.key].attempts
               /\ rows'[c.key].status # "failed"
               /\ \A d \in running'[p] : d.key = c.key /\ d.gen = c.gen => d.limit = 0
    BY <2>0, <2>1, <2>2
  <2> DEFINE Goal == /\ rows'[c.key].attempts = rows[c.key].attempts
                     /\ rows'[c.key].status # "failed"
                     /\ \A d \in running'[p] : d.key = c.key /\ d.gen = c.gen => d.limit = 0
  <2>3. ASSUME NEW q \in Procs, Dispatch(q) PROVE Goal
    <3>1. CASE Start(q) \/ Loop(q)
      <4>1. \/ rows'[c.key] = SweptExpired(rows[c.key]) \/ rows'[c.key] = SweptAll(rows[c.key])
            \/ rows'[c.key] = rows[c.key]
        BY <2>0, <3>1 DEF Start, StartupSweep, Loop, PeriodicSweep
      <4>2. /\ rows'[c.key].attempts = rows[c.key].attempts /\ rows'[c.key].status # "failed"
        BY <2>0, <4>1, Sweeps
      <4>3. running' = running
        BY <3>1 DEF Start, Loop
      <4> QED BY <2>1, <4>2, <4>3 DEF InFlight
    <3>2. ASSUME NEW batch \in SUBSET Keys, DequeueBatch(q, batch) PROVE Goal
      BY <2>0, <2>2, <3>2 DEF DequeueBatch, Pending, InFlight
    <3>3. ASSUME NEW x \in waiting[q], Send(q, x) PROVE Goal
      BY <2>2, <3>3 DEF Send, InFlight
    <3>4. CASE LeaveCancelled(q) \/ DequeueNothing(q) \/ CheckCounts(q) \/ Return(q)
      BY <2>2, <3>4 DEF LeaveCancelled, DequeueNothing, CheckCounts, Return, InFlight
    <3> HIDE DEF Goal
    <3> QED BY <2>3, <3>1, <3>2, <3>3, <3>4 DEF Dispatch
  <2>4. ASSUME NEW q \in Procs, Handle(q) \/ \E x \in running[q] : AnswerError(q, x)
        PROVE  Goal
    <3>1. ASSUME NEW x \in running[q], AnswerError(q, x) PROVE Goal
      <4>1. rows' = rows /\ running'[p] \subseteq running[p]
        BY <3>1 DEF AnswerError
      <4> QED BY <2>2, <4>1 DEF InFlight
    <3>2. ASSUME NEW y \in running[q], NEW k \in y.todo, EnqueueFollowUp(q, y, k) PROVE Goal
      <4>1. rows'[c.key] = rows[c.key]
        BY <2>0, <3>2 DEF EnqueueFollowUp, Item
      <4> DEFINE d == [y EXCEPT !.todo = y.todo \ {k}]
      <4>2. d.limit = 0
        BY <3>2 DEF Item, EnqueueFollowUp
      <4>3. running' = [running EXCEPT ![q] = (running[q] \ {y}) \union {d}]
        BY <3>2 DEF EnqueueFollowUp
      <4> HIDE DEF d
      <4>4. \A x \in running'[p] : x \in running[p] \/ x = d
        BY <4>3
      <4> QED BY <2>0, <2>1, <4>1, <4>2, <4>4 DEF InFlight
    <3>3. ASSUME NEW y \in running[q], NEW limit \in {1, MaxAttempts}, HandlerFails(q, y, limit)
          PROVE  Goal
      <4>1. q # p
        BY <1>1, <3>3 DEF HandlerFails, CountsAsFailure
      <4> QED BY <2>2, <3>3, <4>1 DEF HandlerFails, InFlight
    <3>4. ASSUME NEW y \in running[q], Succeed(q, y) \/ Interrupted(q, y) PROVE Goal
      <4>1. PICK s \in {"done", "pending"} : Answered(q, y, Released(rows[y.key], s))
        BY <3>4 DEF Succeed, Interrupted
      <4>2. \/ rows'[c.key] = rows[c.key]
            \/ rows'[c.key] = Released(rows[c.key], s)
        BY <2>0, <4>1 DEF Answered
      <4>3. rows'[c.key].attempts = rows[c.key].attempts /\ rows'[c.key].status # "failed"
        BY <2>0, <4>2, ReleasedRow
      <4>4. running'[p] \subseteq running[p]
        BY <4>1 DEF Answered
      <4> QED BY <2>1, <4>3, <4>4 DEF InFlight
    <3>5. ASSUME NEW y \in running[q], Fail(q, y) PROVE Goal
      <4>1. y.key # c.key
        BY <1>1, <3>5, OthersRow DEF Fail, InFlight
      <4>2. rows'[c.key] = rows[c.key] /\ running'[p] \subseteq running[p]
        BY <2>0, <3>5, <4>1 DEF Fail, Answered
      <4> QED BY <2>2, <4>2 DEF InFlight
    <3> HIDE DEF Goal
    <3> QED BY <2>4, <3>1, <3>2, <3>3, <3>4, <3>5 DEF Handle
  <2>5. ASSUME NEW q \in Procs, Cancel(q) \/ QueryError(q) \/ Crash(q) PROVE Goal
    <3>1. rows' = rows
      BY <2>5 DEF Cancel, QueryError, Crash
    <3>2. running' = running \/ running' = [running EXCEPT ![q] = {}]
      BY <2>5 DEF Cancel, QueryError, Crash
    <3>3. rows'[c.key] = rows[c.key] /\ running'[p] \subseteq InFlight(p)
      BY <1>1, <3>1, <3>2 DEF InFlight
    <3> QED BY <2>2, <3>3
  <2>6. ASSUME NEW k \in Keys, LeaseExpires(k) PROVE Goal
    <3>1. rows'[c.key].attempts = rows[c.key].attempts
          /\ rows'[c.key].status = rows[c.key].status
      BY <2>0, <2>6 DEF LeaseExpires, Row
    <3>2. running' = running
      BY <2>6 DEF LeaseExpires
    <3> QED BY <2>0, <2>1, <3>1, <3>2 DEF InFlight
  <2>7. CASE UNCHANGED vars
    BY <2>2, <2>7 DEF vars, InFlight
  <2>8. CASE Next
    <3>1. CASE \E q \in Procs : Dispatch(q) \/ Handle(q)
      BY <2>3, <2>4, <3>1
    <3>2. CASE \E q \in Procs : Cancel(q) \/ QueryError(q) \/ Crash(q)
      BY <2>5, <3>2
    <3>3. CASE \E q \in Procs : \E x \in running[q] : AnswerError(q, x)
      BY <2>4, <3>3
    <3>4. CASE \E k \in Keys : LeaseExpires(k)
      BY <2>6, <3>4
    <3> QED BY <2>8, <3>1, <3>2, <3>3, <3>4 DEF Next
  <2> QED BY <1>1, <2>7, <2>8
<1>2. TypeOK /\ HoldInv /\ [Next]_vars =>
        [\A p \in Procs : \A c \in InFlight(p) :
           /\ cancelled[p] /\ c.limit = 0
           /\ Owned(rows[c.key], p) /\ rows[c.key].gen = c.gen
           => /\ rows'[c.key].attempts = rows[c.key].attempts
              /\ rows'[c.key].status # "failed"
              /\ \A d \in running'[p] : d.key = c.key /\ d.gen = c.gen => d.limit = 0]_vars
  BY <1>1
<1> QED BY <1>2, ClaimsHold, PTL DEF Spec, ShutdownChargesNobody

-----------------------------------------------------------------------------
(* The refinement.                                                         *)

\* A claimed row has a lease and a holder, any other row has neither.
RowLease(r) ==
  /\ r.status = "in_flight" <=> r.lease # "none"
  /\ r.status = "in_flight" <=> r.worker # NoWorker
  /\ r.status = "absent" => r.gen = 0

\* No process has two items of one claim, and none of a claim to come.  This
\* needs neither assumption about leases nor about who shares the frontier.
OneItemPerClaim(p) ==
  /\ \A c \in InFlight(p) : c.gen <= rows[c.key].gen
  /\ \A c, d \in InFlight(p) : c.key = d.key /\ c.gen = d.gen => c = d
  /\ waiting[p] \cap running[p] = {}

TicketInv ==
  /\ \A k \in Keys : RowLease(rows[k])
  /\ \A p \in Procs : OneItemPerClaim(p)

\* What an update of a row makes of its claim.
Freed(r, q) ==
  /\ q \in Row /\ q.lease = "none" /\ q.worker = NoWorker /\ q.gen = r.gen
  /\ q.status \in {"pending", "done", "failed"}

LEMMA FreedRows ==
  ASSUME NEW r \in Row
  PROVE  /\ \A s \in {"pending", "done", "failed"} : Freed(r, Released(r, s))
         /\ \A l \in {1, MaxAttempts} : Freed(r, Charged(r, r.attempts, l))
<1>1. ASSUME NEW q \in Row, NEW s \in {"pending", "done", "failed"}
      PROVE  /\ Released(q, s) \in Row /\ Released(q, s).lease = "none" /\ Released(q, s).status = s
             /\ Released(q, s).worker = NoWorker /\ Released(q, s).gen = q.gen
  BY DEF Row, Status, Released
<1>2. ASSUME NEW l \in {1, MaxAttempts} PROVE Freed(r, Charged(r, r.attempts, l))
  <2>1. PICK s \in {"pending", "done", "failed"} :
          Charged(r, r.attempts, l) = [Released(r, s) EXCEPT !.attempts = r.attempts + 1]
    BY DEF Charged
  <2>2. r.attempts + 1 \in Nat
    BY DEF Row
  <2>3. ASSUME NEW q \in Row, NEW n \in Nat
        PROVE  /\ [q EXCEPT !.attempts = n] \in Row
               /\ [q EXCEPT !.attempts = n].lease = q.lease /\ [q EXCEPT !.attempts = n].gen = q.gen
               /\ [q EXCEPT !.attempts = n].worker = q.worker
               /\ [q EXCEPT !.attempts = n].status = q.status
    BY DEF Row
  <2> QED BY <1>1, <2>1, <2>2, <2>3 DEF Freed
<1> QED BY <1>1, <1>2 DEF Freed

\* A row that is freed, claimed, made, left to lapse or swept is well-formed,
\* and its claims are counted upwards.
LEMMA LeaseOfRow ==
  ASSUME NEW r \in Row, RowLease(r)
  PROVE  /\ RowLease(NoRow) /\ RowLease(NewRow)
         /\ \A q : Freed(r, q) => RowLease(q) /\ q.gen = r.gen
         /\ \A p \in Procs : RowLease(Leased(r, p)) /\ Leased(r, p).gen >= r.gen
         /\ r.status = "absent" => NewRow.gen = r.gen
         /\ RowLease(SweptExpired(r)) /\ SweptExpired(r).gen = r.gen
         /\ RowLease(SweptAll(r)) /\ SweptAll(r).gen = r.gen
         /\ r.lease = "live" => RowLease([r EXCEPT !.lease = "expired"])
                                /\ [r EXCEPT !.lease = "expired"].gen = r.gen
<1>1. RowLease(NoRow) /\ RowLease(NewRow) /\ NewRow.gen = 0
  BY DEF RowLease, NoRow, NewRow
<1>2. ASSUME NEW q, Freed(r, q) PROVE RowLease(q) /\ q.gen = r.gen
  BY <1>2 DEF RowLease, Freed
<1>3. ASSUME NEW p \in Procs PROVE RowLease(Leased(r, p)) /\ Leased(r, p).gen >= r.gen
  <2>1. p # NoWorker /\ r.gen \in Nat
    BY FleetAssumption, WorkerIdAssumption DEF Row
  <2> QED BY <2>1 DEF RowLease, Leased, Row
<1>4. RowLease(SweptExpired(r)) /\ SweptExpired(r).gen = r.gen
  BY <1>2, FreedRows DEF SweptExpired
<1>5. RowLease(SweptAll(r)) /\ SweptAll(r).gen = r.gen
  BY <1>2, FreedRows DEF SweptAll
<1>6. r.lease = "live" => RowLease([r EXCEPT !.lease = "expired"])
                          /\ [r EXCEPT !.lease = "expired"].gen = r.gen
  BY DEF RowLease, Row
<1>7. r.status = "absent" => NewRow.gen = r.gen
  BY <1>1 DEF RowLease
<1> QED BY <1>1, <1>2, <1>3, <1>4, <1>5, <1>6, <1>7

\* The steps that touch rows.
LEMMA RowsMove ==
  ASSUME [Next]_vars
  PROVE  \/ rows' = rows
         \/ \E p \in Procs : \/ Start(p) \/ Loop(p)
                             \/ \E batch \in SUBSET Keys : DequeueBatch(p, batch)
         \/ \E p \in Procs : \E c \in running[p] :
              \/ Succeed(p, c) \/ Interrupted(p, c) \/ Fail(p, c)
              \/ \E k \in c.todo : EnqueueFollowUp(p, c, k)
         \/ \E k \in Keys : LeaseExpires(k)
<1>1. ASSUME NEW p \in Procs, Dispatch(p)
      PROVE  \/ rows' = rows \/ Start(p) \/ Loop(p)
             \/ \E batch \in SUBSET Keys : DequeueBatch(p, batch)
  BY <1>1 DEF Dispatch, LeaveCancelled, DequeueNothing, CheckCounts, Send, Return
<1>2. ASSUME NEW p \in Procs, Handle(p)
      PROVE  \/ rows' = rows
             \/ \E c \in running[p] :
                  \/ Succeed(p, c) \/ Interrupted(p, c) \/ Fail(p, c)
                  \/ \E k \in c.todo : EnqueueFollowUp(p, c, k)
  BY <1>2 DEF Handle, HandlerFails
<1>3. ASSUME NEW p \in Procs,
             Cancel(p) \/ QueryError(p) \/ Crash(p) \/ \E c \in running[p] : AnswerError(p, c)
      PROVE  rows' = rows
  BY <1>3 DEF Cancel, QueryError, Crash, AnswerError
<1>4. CASE UNCHANGED vars
  BY <1>4 DEF vars
<1> QED BY <1>1, <1>2, <1>3, <1>4 DEF Next

\* No step takes a row out of shape or counts its claims down.
LEMMA RowLeaseStep ==
  ASSUME TypeOK, TicketInv, [Next]_vars, NEW k \in Keys
  PROVE  RowLease(rows'[k]) /\ rows'[k].gen >= rows[k].gen /\ rows[k].gen \in Nat
<1> USE DEF TypeOK, control
<1>1. rows[k] \in Row /\ RowLease(rows[k]) /\ rows[k].gen \in Nat
  BY DEF TicketInv, Row
<1> DEFINE Good == RowLease(rows'[k]) /\ rows'[k].gen >= rows[k].gen
           Fresh(q) == RowLease(q) /\ q.gen = rows[k].gen
<1>2. /\ \A q : Fresh(q) /\ rows'[k] = q => Good
      /\ Fresh(rows[k])
  BY <1>1
<1>0. /\ \A q : Freed(rows[k], q) => Fresh(q)
      /\ \A p \in Procs : rows'[k] = Leased(rows[k], p) => Good
      /\ rows[k].status = "absent" => Fresh(NewRow)
      /\ Fresh(SweptExpired(rows[k])) /\ Fresh(SweptAll(rows[k]))
      /\ rows[k].lease = "live" => Fresh([rows[k] EXCEPT !.lease = "expired"])
  BY <1>1, LeaseOfRow
<1> HIDE DEF Good, Fresh
<1>3. ASSUME NEW p \in Procs,
             \/ Start(p) \/ Loop(p)
             \/ \E batch \in SUBSET Keys : DequeueBatch(p, batch)
      PROVE  Good
  <2>1. CASE Start(p) \/ Loop(p)
    <3>1. rows'[k] = SweptExpired(rows[k]) \/ rows'[k] = SweptAll(rows[k]) \/ rows'[k] = rows[k]
      BY <2>1 DEF Start, StartupSweep, Loop, PeriodicSweep
    <3> QED BY <1>0, <1>2, <3>1
  <2>2. ASSUME NEW batch \in SUBSET Keys, DequeueBatch(p, batch) PROVE Good
    <3>1. rows'[k] = Leased(rows[k], p) \/ rows'[k] = rows[k]
      BY <2>2 DEF DequeueBatch
    <3> QED BY <1>0, <1>2, <3>1
  <2> QED BY <1>3, <2>1, <2>2
<1>4. ASSUME NEW p \in Procs, NEW c \in running[p],
             Succeed(p, c) \/ Interrupted(p, c) \/ Fail(p, c)
      PROVE  Good
  <2>1. c \in Item /\ c.key \in Keys /\ rows[c.key] \in Row
    BY DEF Item
  <2>2. PICK q : Freed(rows[c.key], q) /\ Answered(p, c, q)
    <3>1. c.limit # 0 => c.limit \in {1, MaxAttempts}
      BY <2>1 DEF Item
    <3> QED BY <1>4, <2>1, <3>1, FreedRows DEF Succeed, Interrupted, Fail
  <2>3. rows'[k] = rows[k] \/ (k = c.key /\ rows'[k] = q)
    BY <2>2 DEF Answered
  <2> QED BY <1>0, <1>2, <2>2, <2>3
<1>5. ASSUME NEW p \in Procs, NEW c \in running[p], NEW j \in c.todo, EnqueueFollowUp(p, c, j)
      PROVE  Good
  <2>1. rows'[k] = rows[k] \/ (rows[k].status = "absent" /\ rows'[k] = NewRow)
    BY <1>5 DEF EnqueueFollowUp
  <2> QED BY <1>0, <1>2, <2>1
<1>6. ASSUME NEW j \in Keys, LeaseExpires(j) PROVE Good
  <2>1. rows'[k] = rows[k] \/ (rows[k].lease = "live" /\ rows'[k] = [rows[k] EXCEPT !.lease = "expired"])
    BY <1>6 DEF LeaseExpires
  <2> QED BY <1>0, <1>2, <2>1
<1>7. ASSUME rows' = rows PROVE Good
  <2>1. rows'[k] = rows[k]
    BY <1>7
  <2> QED BY <1>2, <2>1
<1>8. Good
  BY <1>3, <1>4, <1>5, <1>6, <1>7, RowsMove
<1> QED BY <1>1, <1>8 DEF Good

\* A step may take items out of memory or hand them to a worker,
NoneNew ==
  \A p \in Procs : InFlight(p)' \subseteq InFlight(p) /\ waiting'[p] \cap running'[p] = {}

\* or put another state of an item in its place.
Replaces(p, c, d) ==
  /\ d.key = c.key /\ d.gen = c.gen
  /\ running' = [running EXCEPT ![p] = (running[p] \ {c}) \union {d}]
  /\ waiting' = waiting

LEMMA FollowUpReplaces ==
  ASSUME TypeOK, NEW p \in Procs, NEW c \in running[p], NEW k, EnqueueFollowUp(p, c, k)
  PROVE  \E d : Replaces(p, c, d)
<1>1. c \in Item
  BY DEF TypeOK
<1> DEFINE d == [c EXCEPT !.todo = c.todo \ {k}]
<1>2. d.key = c.key /\ d.gen = c.gen
  BY <1>1 DEF Item
<1>3. /\ running' = [running EXCEPT ![p] = (running[p] \ {c}) \union {d}]
      /\ waiting' = waiting
  BY DEF EnqueueFollowUp
<1> HIDE DEF d
<1> QED BY <1>2, <1>3 DEF Replaces

LEMMA FailureReplaces ==
  ASSUME TypeOK, NEW p \in Procs, NEW c \in running[p], NEW limit, HandlerFails(p, c, limit)
  PROVE  \E d : Replaces(p, c, d)
<1>1. c \in Item
  BY DEF TypeOK
<1> DEFINE d == [c EXCEPT !.limit = limit]
<1>2. d.key = c.key /\ d.gen = c.gen
  BY <1>1 DEF Item
<1>3. /\ running' = [running EXCEPT ![p] = (running[p] \ {c}) \union {d}]
      /\ waiting' = waiting
  BY DEF HandlerFails
<1> HIDE DEF d
<1> QED BY <1>2, <1>3 DEF Replaces

\* Removing one item of a process is no new item.
LEMMA RemovalIsNotNew ==
  ASSUME TypeOK, TicketInv, NEW p \in Procs, NEW c,
         running' = [running EXCEPT ![p] = running[p] \ {c}], waiting' = waiting
  PROVE  NoneNew
BY DEF NoneNew, InFlight, TypeOK, TicketInv, OneItemPerClaim

LEMMA ItemsMove ==
  ASSUME TypeOK, TicketInv, [Next]_vars
  PROVE  \/ NoneNew
         \/ \E p \in Procs, batch \in SUBSET Keys : DequeueBatch(p, batch)
         \/ \E p \in Procs : \E c \in running[p] : \E d : Replaces(p, c, d)
<1>1. waiting' = waiting /\ running' = running => NoneNew
  BY DEF NoneNew, InFlight, TicketInv, OneItemPerClaim
<1>2. ASSUME NEW p \in Procs, NEW c \in waiting[p], Send(p, c) PROVE NoneNew
  <2>1. \A q \in Procs : q # p => waiting'[q] = waiting[q] /\ running'[q] = running[q]
    BY <1>2 DEF Send, TypeOK
  <2>2. waiting'[p] = waiting[p] \ {c} /\ running'[p] = running[p] \union {c}
    BY <1>2 DEF Send, TypeOK
  <2> QED BY <2>1, <2>2 DEF NoneNew, InFlight, TicketInv, OneItemPerClaim
<1>3. ASSUME NEW p \in Procs, NEW c \in running[p],
             Succeed(p, c) \/ Interrupted(p, c) \/ Fail(p, c) \/ AnswerError(p, c)
      PROVE  NoneNew
  BY <1>3, RemovalIsNotNew DEF Succeed, Interrupted, Fail, AnswerError, Answered
<1>4. ASSUME NEW p \in Procs, Crash(p) PROVE NoneNew
  BY <1>4 DEF Crash, NoneNew, InFlight, TypeOK, TicketInv, OneItemPerClaim
<1>5. ASSUME NEW p \in Procs, Dispatch(p)
      PROVE  NoneNew \/ \E batch \in SUBSET Keys : DequeueBatch(p, batch)
  <2>1. \/ waiting' = waiting /\ running' = running
        \/ \E batch \in SUBSET Keys : DequeueBatch(p, batch)
        \/ \E c \in waiting[p] : Send(p, c)
    BY <1>5 DEF Dispatch, Start, Loop, LeaveCancelled, DequeueNothing, CheckCounts, Return
  <2> QED BY <1>1, <1>2, <2>1
<1>6. ASSUME NEW p \in Procs, Handle(p)
      PROVE  NoneNew \/ \E c \in running[p] : \E d : Replaces(p, c, d)
  BY <1>3, <1>6, FollowUpReplaces, FailureReplaces DEF Handle
<1>7. ASSUME NEW p \in Procs, Cancel(p) \/ QueryError(p) PROVE NoneNew
  BY <1>1, <1>7 DEF Cancel, QueryError
<1>8. ASSUME NEW k \in Keys, LeaseExpires(k) PROVE NoneNew
  BY <1>1, <1>8 DEF LeaseExpires
<1>9. CASE UNCHANGED vars
  BY <1>1, <1>9 DEF vars
<1> QED BY <1>3, <1>4, <1>5, <1>6, <1>7, <1>8, <1>9 DEF Next

\* Memory without new items is in order as long as claims are counted upwards.
LEMMA OrderKept ==
  ASSUME TypeOK, NEW p \in Procs, OneItemPerClaim(p),
         \A k \in Keys : rows'[k].gen >= rows[k].gen /\ rows[k].gen \in Nat /\ rows'[k].gen \in Nat,
         InFlight(p)' \subseteq InFlight(p), waiting'[p] \cap running'[p] = {}
  PROVE  OneItemPerClaim(p)'
<1>1. ASSUME NEW c \in InFlight(p)' PROVE c.gen <= rows'[c.key].gen
  <2>1. c \in InFlight(p) /\ c.key \in Keys /\ c.gen \in Nat
    BY DEF InFlight, TypeOK, Item
  <2>2. c.gen <= rows[c.key].gen
    BY <2>1 DEF OneItemPerClaim
  <2> DEFINE old == rows[c.key].gen
             new == rows'[c.key].gen
  <2>3. new >= old /\ old \in Nat /\ new \in Nat /\ c.gen <= old
    BY <2>1, <2>2
  <2> HIDE DEF old, new
  <2>4. c.gen <= new
    BY <2>1, <2>3
  <2> QED BY <2>4 DEF new
<1>2. \A c, d \in InFlight(p)' : c.key = d.key /\ c.gen = d.gen => c = d
  BY DEF OneItemPerClaim
<1> QED BY <1>1, <1>2 DEF OneItemPerClaim

\* So is memory in which one item is replaced by another state of itself.
LEMMA OrderReplaced ==
  ASSUME TypeOK, NEW p \in Procs, OneItemPerClaim(p),
         \A k \in Keys : rows'[k].gen >= rows[k].gen /\ rows[k].gen \in Nat /\ rows'[k].gen \in Nat,
         NEW c \in running[p], NEW d, Replaces(p, c, d)
  PROVE  /\ OneItemPerClaim(p)'
         /\ InFlight(p)' = (InFlight(p) \ {c}) \union {d}
<1>1. /\ running'[p] = (running[p] \ {c}) \union {d} /\ waiting'[p] = waiting[p]
      /\ d.key = c.key /\ d.gen = c.gen
  BY DEF Replaces, TypeOK
<1>2. c \notin waiting[p] /\ c \in InFlight(p)
  BY DEF OneItemPerClaim, InFlight
<1>3. InFlight(p)' = (InFlight(p) \ {c}) \union {d}
  BY <1>1, <1>2 DEF InFlight
<1>4. d \notin waiting[p]
  BY <1>1, <1>2 DEF OneItemPerClaim, InFlight
<1>5. \A x, y \in InFlight(p)' : x.key = y.key /\ x.gen = y.gen => x = y
  BY <1>1, <1>2, <1>3 DEF OneItemPerClaim
<1>6. waiting'[p] \cap running'[p] = {}
  BY <1>1, <1>4 DEF OneItemPerClaim
<1>7. ASSUME NEW x \in InFlight(p)' PROVE x.gen <= rows'[x.key].gen
  <2>1. PICK y \in InFlight(p) : x.key = y.key /\ x.gen = y.gen
    BY <1>1, <1>2, <1>3
  <2>2. y.key \in Keys /\ y.gen \in Nat
    BY <2>1 DEF InFlight, TypeOK, Item
  <2> DEFINE old == rows[y.key].gen
             new == rows'[y.key].gen
  <2>3. new >= old /\ old \in Nat /\ new \in Nat /\ y.gen <= old
    BY <2>1, <2>2 DEF OneItemPerClaim
  <2> HIDE DEF old, new
  <2>4. y.gen <= new
    BY <2>2, <2>3
  <2> QED BY <2>1, <2>4 DEF new
<1> QED BY <1>3, <1>5, <1>6, <1>7 DEF OneItemPerClaim

\* And memory that a batch is added to: its claims are new ones.
LEMMA OrderClaimed ==
  ASSUME TypeOK, PhaseInv, NEW p \in Procs, OneItemPerClaim(p),
         NEW batch \in SUBSET Keys, DequeueBatch(p, batch)
  PROVE  /\ OneItemPerClaim(p)'
         /\ InFlight(p)' = InFlight(p) \union {NewItem(k) : k \in batch}
<1>1. waiting[p] = {} /\ InFlight(p) = running[p]
  BY DEF DequeueBatch, PhaseInv, InFlight
<1>2. waiting'[p] = {NewItem(k) : k \in batch} /\ running'[p] = running[p]
  BY DEF DequeueBatch, TypeOK
<1>3. InFlight(p)' = InFlight(p) \union {NewItem(k) : k \in batch}
  BY <1>1, <1>2 DEF InFlight
<1>4. ASSUME NEW k \in batch
      PROVE  /\ NewItem(k).key = k /\ NewItem(k).gen = rows[k].gen + 1
             /\ rows'[k].gen = rows[k].gen + 1 /\ rows[k].gen \in Nat
  <2>1. rows[k] \in Row /\ rows'[k] = Leased(rows[k], p)
    BY DEF DequeueBatch, TypeOK
  <2> QED BY <2>1, LeasedRow DEF NewItem, Row
<1>5. ASSUME NEW c \in running[p]
      PROVE  /\ c.gen \in Nat /\ c.key \in Keys /\ c.gen <= rows[c.key].gen
             /\ rows[c.key].gen \in Nat
             /\ rows'[c.key].gen = rows[c.key].gen \/ rows'[c.key].gen = rows[c.key].gen + 1
  <2>1. c.gen \in Nat /\ c.key \in Keys /\ c.gen <= rows[c.key].gen
    BY <1>1 DEF TypeOK, Item, OneItemPerClaim
  <2>2. rows[c.key].gen \in Nat
    BY <2>1 DEF TypeOK, Row
  <2>3. c.key \in batch \/ rows'[c.key] = rows[c.key]
    BY <2>1 DEF DequeueBatch
  <2> QED BY <1>4, <2>1, <2>2, <2>3
<1>6. ASSUME NEW c \in running[p] PROVE c.gen <= rows'[c.key].gen
  <2> DEFINE old == rows[c.key].gen
             new == rows'[c.key].gen
  <2>1. c.gen \in Nat /\ c.gen <= old /\ old \in Nat /\ (new = old \/ new = old + 1)
    BY <1>5
  <2> HIDE DEF old, new
  <2>2. c.gen <= new
    BY <2>1
  <2> QED BY <2>2 DEF new
<1>7. ASSUME NEW k \in batch PROVE NewItem(k).gen <= rows'[NewItem(k).key].gen
  <2> DEFINE n == rows[k].gen
  <2>1. n \in Nat /\ NewItem(k).gen = n + 1 /\ rows'[NewItem(k).key].gen = n + 1
    BY <1>4
  <2> HIDE DEF n
  <2> QED BY <2>1
<1>8. ASSUME NEW c \in running[p], NEW k \in batch, c.key = k PROVE c.gen # NewItem(k).gen
  <2> DEFINE n == rows[k].gen
  <2>1. n \in Nat /\ NewItem(k).gen = n + 1 /\ c.gen <= n /\ c.gen \in Nat
    BY <1>4, <1>5, <1>8
  <2> HIDE DEF n
  <2> QED BY <2>1
<1>9. \A c, d \in InFlight(p)' : c.key = d.key /\ c.gen = d.gen => c = d
  <2> SUFFICES ASSUME NEW c \in InFlight(p)', NEW d \in InFlight(p)', c.key = d.key, c.gen = d.gen
               PROVE  c = d
    OBVIOUS
  <2>1. CASE c \in running[p] /\ d \in running[p]
    BY <1>1, <2>1 DEF OneItemPerClaim
  <2>2. ASSUME NEW k \in batch, NEW j \in batch, c = NewItem(k), d = NewItem(j) PROVE c = d
    BY <1>4, <2>2
  <2>3. ASSUME NEW k \in batch, c \in running[p], d = NewItem(k) PROVE FALSE
    BY <1>4, <1>8, <2>3
  <2>4. ASSUME NEW k \in batch, d \in running[p], c = NewItem(k) PROVE FALSE
    BY <1>4, <1>8, <2>4
  <2> QED BY <1>1, <1>3, <2>1, <2>2, <2>3, <2>4
<1>10. waiting'[p] \cap running'[p] = {}
  BY <1>2, <1>4, <1>8
<1> QED BY <1>1, <1>3, <1>6, <1>7, <1>9, <1>10 DEF OneItemPerClaim

LEMMA TicketStep ==
  ASSUME TypeOK, TypeOK', PhaseInv, TicketInv, [Next]_vars
  PROVE  TicketInv'
<1>1. /\ \A k \in Keys : RowLease(rows'[k])
      /\ \A k \in Keys : rows'[k].gen >= rows[k].gen /\ rows[k].gen \in Nat /\ rows'[k].gen \in Nat
  <2>1. \A k \in Keys : rows'[k].gen \in Nat
    BY DEF TypeOK, Row
  <2> QED BY <2>1, RowLeaseStep
<1>2. \A k \in Keys : RowLease(rows[k])'
  BY <1>1 DEF RowLease
<1>3. CASE NoneNew
  BY <1>1, <1>2, <1>3, OrderKept DEF NoneNew, TicketInv
<1>4. ASSUME NEW p \in Procs, NEW batch \in SUBSET Keys, DequeueBatch(p, batch) PROVE TicketInv'
  <2>1. \A q \in Procs : q # p => waiting'[q] = waiting[q] /\ running'[q] = running[q]
    BY <1>4 DEF DequeueBatch, TypeOK
  <2>2. \A q \in Procs : q # p => OneItemPerClaim(q)'
    BY <1>1, <2>1, OrderKept DEF InFlight, TicketInv, OneItemPerClaim
  <2>3. OneItemPerClaim(p)'
    BY <1>4, OrderClaimed DEF TicketInv
  <2> QED BY <1>2, <2>2, <2>3 DEF TicketInv
<1>5. ASSUME NEW p \in Procs, NEW c \in running[p], NEW d, Replaces(p, c, d) PROVE TicketInv'
  <2>1. \A q \in Procs : q # p => waiting'[q] = waiting[q] /\ running'[q] = running[q]
    BY <1>5 DEF Replaces, TypeOK
  <2>2. \A q \in Procs : q # p => OneItemPerClaim(q)'
    BY <1>1, <2>1, OrderKept DEF InFlight, TicketInv, OneItemPerClaim
  <2>3. OneItemPerClaim(p)'
    BY <1>1, <1>5, OrderReplaced DEF TicketInv
  <2> QED BY <1>2, <2>2, <2>3 DEF TicketInv
<1> QED BY <1>3, <1>4, <1>5, ItemsMove

LEMMA TicketsHold == Spec => [](TypeOK /\ PhaseInv /\ TicketInv)
<1>1. Init => TicketInv
  <2> SUFFICES ASSUME Init PROVE TicketInv
    OBVIOUS
  <2>1. \A k \in Keys : RowLease(rows[k])
    BY DEF Init, NewRow, NoRow, RowLease
  <2>2. \A p \in Procs : OneItemPerClaim(p)
    BY DEF Init, OneItemPerClaim, InFlight
  <2> QED BY <2>1, <2>2 DEF TicketInv
<1>2. TypeOK /\ TypeOK' /\ PhaseInv /\ TicketInv /\ [Next]_vars => TicketInv'
  BY TicketStep
<1> QED BY <1>1, <1>2, PhasesHold, PTL DEF Spec

\* The tickets of the fleet change as the items of one process do.
AllTickets == UNION {Tickets(p) : p \in Procs}

LEMMA TicketsShrink ==
  ASSUME NoneNew
  PROVE  AllTickets' \subseteq AllTickets
BY DEF NoneNew, AllTickets, Tickets, Ticket

LEMMA SameTickets ==
  ASSUME NEW p \in Procs, NEW c \in InFlight(p), NEW d, d.key = c.key, d.gen = c.gen,
         InFlight(p)' = (InFlight(p) \ {c}) \union {d},
         \A q \in Procs : q # p => InFlight(q)' = InFlight(q)
  PROVE  AllTickets' = AllTickets
<1>1. \A q \in Procs : q # p => Tickets(q)' = Tickets(q)
  BY DEF Tickets, Ticket
<1>2. Ticket(p, d) = Ticket(p, c)
  BY DEF Ticket
<1>3. Tickets(p)' = {Ticket(p, x) : x \in (InFlight(p) \ {c}) \union {d}}
  BY DEF Tickets, Ticket
<1>4. Tickets(p)' = Tickets(p)
  BY <1>2, <1>3 DEF Tickets
<1>5. \A q \in Procs : Tickets(q)' = Tickets(q)
  BY <1>1, <1>4
<1> QED BY <1>5 DEF AllTickets

LEMMA BatchTickets ==
  ASSUME NEW p \in Procs, NEW new,
         InFlight(p)' = InFlight(p) \union new,
         \A q \in Procs : q # p => InFlight(q)' = InFlight(q)
  PROVE  AllTickets' = AllTickets \union {Ticket(p, c) : c \in new}
<1>1. \A q \in Procs : q # p => Tickets(q)' = Tickets(q)
  BY DEF Tickets, Ticket
<1>2. Tickets(p)' = {Ticket(p, x) : x \in InFlight(p) \union new}
  BY DEF Tickets, Ticket
<1>3. Tickets(p)' = Tickets(p) \union {Ticket(p, c) : c \in new}
  BY <1>2 DEF Tickets
<1> QED BY <1>1, <1>3 DEF AllTickets

\* No two items in memory have one ticket.
LEMMA OneTicketLess ==
  ASSUME TicketInv, NEW p \in Procs, NEW c \in InFlight(p),
         InFlight(p)' = InFlight(p) \ {c},
         \A q \in Procs : q # p => InFlight(q)' = InFlight(q)
  PROVE  AllTickets' = AllTickets \ {Ticket(p, c)}
<1>1. \A q \in Procs : q # p => Tickets(q)' = Tickets(q) /\ Ticket(p, c) \notin Tickets(q)
  BY DEF Tickets, Ticket
<1>2. ASSUME NEW d \in InFlight(p), Ticket(p, d) = Ticket(p, c) PROVE d = c
  <2>1. d.key = c.key /\ d.gen = c.gen
    BY <1>2 DEF Ticket
  <2> QED BY <2>1 DEF TicketInv, OneItemPerClaim
<1>3. Tickets(p)' = {Ticket(p, x) : x \in InFlight(p) \ {c}}
  BY DEF Tickets, Ticket
<1>4. Tickets(p)' = Tickets(p) \ {Ticket(p, c)}
  BY <1>2, <1>3 DEF Tickets
<1> QED BY <1>1, <1>4 DEF AllTickets

\* A key without a row that gets one is a submission.
LEMMA SubmitRefines ==
  ASSUME TypeOK, TicketInv, NEW k \in Keys, rows' = [rows EXCEPT ![k] = NewRow],
         rows[k].status = "absent", AllTickets' = AllTickets
  PROVE  Queue!Next
<1>1. rows[k].lease = "none" /\ rows[k].worker = NoWorker /\ rows[k].gen = 0
  BY DEF TypeOK, TicketInv, RowLease
<1>2. \A j \in Keys : j # k => rows'[j] = rows[j]
  BY DEF TypeOK
<1>3. /\ rows'[k].status = "pending" /\ rows'[k].lease = "none"
      /\ rows'[k].worker = NoWorker /\ rows'[k].gen = 0
  BY DEF TypeOK, NewRow, NoRow
<1>4. [j \in Keys |-> AbstractState(rows[j])]' =
        [[j \in Keys |-> AbstractState(rows[j])] EXCEPT ![k] = "queued"]
  BY <1>2, <1>3 DEF AbstractState
<1>5. /\ [j \in Keys |-> rows[j].worker]' = [j \in Keys |-> rows[j].worker]
      /\ [j \in Keys |-> rows[j].gen]' = [j \in Keys |-> rows[j].gen]
      /\ {j \in Keys : rows[j].lease = "expired"}' = {j \in Keys : rows[j].lease = "expired"}
  BY <1>1, <1>2, <1>3
<1>6. Queue!Submit(k)
  BY <1>4, <1>5 DEF Queue!Submit, AbstractState, AllTickets
<1> QED BY <1>6 DEF Queue!Next

\* A step that leaves the rows alone and adds no ticket drops tickets.
LEMMA DropRefines ==
  ASSUME rows' = rows, AllTickets' \subseteq AllTickets
  PROVE  Queue!Next
<1> DEFINE gone == AllTickets \ AllTickets'
<1>1. AllTickets' = AllTickets \ gone /\ gone \in SUBSET AllTickets
  OBVIOUS
<1> HIDE DEF gone
<1>2. Queue!Drop(gone)
  BY <1>1 DEF Queue!Drop, AbstractState, AllTickets
<1> QED BY <1>1, <1>2 DEF Queue!Next, AllTickets

\* A claimed row that its holder frees is an answer.
LEMMA AnswerRefines ==
  ASSUME TypeOK, TicketInv, NEW p \in Procs, NEW c \in InFlight(p), NEW q,
         Freed(rows[c.key], q), rows' = [rows EXCEPT ![c.key] = q], Owned(rows[c.key], p),
         AllTickets' = AllTickets \ {Ticket(p, c)}
  PROVE  Queue!Next
<1> DEFINE outcome == IF q.status = "pending" THEN "queued" ELSE "finished"
           t       == Ticket(p, c)
<1>0. c.key \in Keys /\ t.item = c.key /\ t.holder = p
  BY DEF Ticket, TypeOK, InFlight, Item
<1>1. \A j \in Keys : j # c.key => rows'[j] = rows[j]
  BY DEF TypeOK
<1>2. /\ rows'[c.key] = q /\ q.status \in {"pending", "done", "failed"} /\ q.lease = "none"
      /\ q.worker = NoWorker /\ q.gen = rows[c.key].gen
  BY <1>0 DEF TypeOK, Freed
<1>3. AllTickets' = AllTickets \ {t} /\ t \in AllTickets
  BY DEF AllTickets, Tickets
<1> HIDE DEF t
<1>4. [k \in Keys |-> AbstractState(rows[k])]' =
        [[k \in Keys |-> AbstractState(rows[k])] EXCEPT ![c.key] = outcome]
  BY <1>0, <1>1, <1>2 DEF AbstractState
<1>5. [k \in Keys |-> rows[k].worker]' =
        [[k \in Keys |-> rows[k].worker] EXCEPT ![c.key] = NoWorker]
  <2>1. \A k \in Keys : rows'[k].worker = IF k = c.key THEN NoWorker ELSE rows[k].worker
    BY <1>1, <1>2
  <2> QED BY <2>1, Zenon
<1>6. {k \in Keys : rows[k].lease = "expired"}' =
        {k \in Keys : rows[k].lease = "expired"} \ {c.key}
  BY <1>0, <1>1, <1>2
<1>7. [k \in Keys |-> rows[k].gen]' = [k \in Keys |-> rows[k].gen]
  BY <1>0, <1>1, <1>2
<1>8. rows[c.key].status = "in_flight" /\ rows[c.key].worker = p
  BY DEF Owned
<1>9. Queue!Answer(t, outcome)
  BY <1>0, <1>3, <1>4, <1>5, <1>6, <1>7, <1>8 DEF Queue!Answer, AbstractState, AllTickets
<1> QED BY <1>3, <1>9 DEF Queue!Next, AllTickets

\* Sweeping the expired rows is the abstract sweep; so is sweeping all rows
\* when nobody has anything in memory.
LEMMA SweepRefines ==
  ASSUME TypeOK, TicketInv, AllTickets' = AllTickets,
         \/ rows' = [k \in Keys |-> SweptExpired(rows[k])]
         \/ rows' = [k \in Keys |-> SweptAll(rows[k])] /\ AllTickets = {}
  PROVE  Queue!Next
<1> USE DEF TypeOK
<1> DEFINE Expired  == {k \in Keys : rows[k].lease = "expired"}
           Claimed == {k \in Keys : rows[k].status = "in_flight"}
           Takes(S) == /\ S = Expired \/ (S = Claimed /\ AllTickets = {})
                       /\ \A k \in S : rows'[k] = Released(rows[k], "pending")
                       /\ \A k \in Keys \ S : rows'[k] = rows[k]
<1>1. \E S \in SUBSET Keys : Takes(S)
  <2>1. CASE rows' = [k \in Keys |-> SweptExpired(rows[k])]
    <3>1. \A k \in Keys : rows[k].lease = "expired" => rows[k].status = "in_flight"
      BY DEF TicketInv, RowLease
    <3>2. \A k \in Expired : rows'[k] = Released(rows[k], "pending")
      BY <2>1, <3>1 DEF SweptExpired
    <3>3. \A k \in Keys \ Expired : rows'[k] = rows[k]
      BY <2>1 DEF SweptExpired
    <3>4. Takes(Expired) /\ Expired \in SUBSET Keys
      BY <3>2, <3>3
    <3> HIDE DEF Takes, Expired
    <3> QED BY <3>4
  <2>2. CASE rows' = [k \in Keys |-> SweptAll(rows[k])] /\ AllTickets = {}
    <3>1. Takes(Claimed) /\ Claimed \in SUBSET Keys
      BY <2>2 DEF SweptAll
    <3> HIDE DEF Takes, Claimed
    <3> QED BY <3>1
  <2> QED BY <2>1, <2>2
<1>2. PICK S \in SUBSET Keys : Takes(S)
  BY <1>1
<1>3. ASSUME NEW k \in S
      PROVE  /\ rows[k].status = "in_flight"
             /\ rows'[k].status = "pending" /\ rows'[k].lease = "none"
             /\ rows'[k].worker = NoWorker /\ rows'[k].gen = rows[k].gen
  <2>1. k \in Keys /\ rows[k] \in Row /\ rows'[k] = Released(rows[k], "pending")
    BY <1>2
  <2>2. rows[k].status = "in_flight"
    BY <1>2, <2>1 DEF TicketInv, RowLease
  <2> QED BY <2>1, <2>2 DEF Released, Row
<1>4. ASSUME NEW k \in Keys, k \notin S
      PROVE  rows'[k] = rows[k] /\ rows[k].lease # "expired"
  BY <1>2, <1>4 DEF TicketInv, RowLease
<1>5. \A k \in S : rows[k].lease = "expired" \/ AllTickets = {}
  BY <1>2
<1>6. Queue!Sweep(S)
  BY <1>3, <1>4, <1>5 DEF Queue!Sweep, Queue!Abandoned, AbstractState, AllTickets
<1> QED BY <1>6 DEF Queue!Next

\* A batch leased to a process is an abstract claim by it.
LEMMA ClaimRefines ==
  ASSUME TypeOK, TicketInv, NEW p \in Procs, NEW batch \in SUBSET Keys, DequeueBatch(p, batch),
         AllTickets' = AllTickets \union {Ticket(p, c) : c \in {NewItem(k) : k \in batch}}
  PROVE  Queue!Next
<1>1. p \in WorkerIds
  BY FleetAssumption
<1>2. ASSUME NEW k \in batch
      PROVE  /\ rows[k].status = "pending" /\ rows[k].lease = "none"
             /\ rows'[k].status = "in_flight" /\ rows'[k].worker = p
             /\ rows'[k].lease = "live" /\ rows'[k].gen = rows[k].gen + 1
  <2>1. rows[k] \in Row /\ rows[k].status = "pending" /\ rows'[k] = Leased(rows[k], p)
    BY DEF DequeueBatch, Pending, TypeOK
  <2>2. rows[k].lease = "none"
    BY <2>1 DEF TicketInv, RowLease, Row
  <2> QED BY <2>1, <2>2, LeasedRow
<1>3. ASSUME NEW k \in Keys, k \notin batch
      PROVE  rows'[k] = rows[k]
  BY <1>3 DEF DequeueBatch
<1>4. AllTickets' = AllTickets \union {Queue!NewTicket(k, p) : k \in batch}
  <2>1. \A k \in batch : Ticket(p, NewItem(k)) = Queue!NewTicket(k, p)
    BY DEF Ticket, NewItem, Queue!NewTicket
  <2> QED BY <2>1
<1>5. Queue!Claim(batch, p)
  BY <1>2, <1>3, <1>4 DEF Queue!Claim, AbstractState, AllTickets
<1> QED BY <1>1, <1>5 DEF Queue!Next

\* The engines of a shared frontier, of any number, sharding and pool, and the
\* one engine of a sqlite database take, hold and hand back items as the
\* abstract queue provides, whatever crashes, is cancelled, expires or fails on
\* the database.  It is here that the blanket sweep needs an engine that has
\* nothing in memory when it starts.
THEOREM EngineImplementsWorkQueue ==
  ASSUME SoleUnlessShared
  PROVE  Spec => ImplementsWorkQueue
<1>1. Init => Queue!Init
  <2> SUFFICES ASSUME Init PROVE Queue!Init
    OBVIOUS
  <2>1. \A k \in Keys : rows[k] = NewRow \/ rows[k] = NoRow
    BY DEF Init
  <2>2. UNION {Tickets(p) : p \in Procs} = {}
    BY DEF Init, Tickets, InFlight
  <2> QED BY <2>1, <2>2 DEF Queue!Init, AbstractState, NewRow, NoRow
<1>2. TypeOK /\ PhaseInv /\ TicketInv /\ [Next]_vars => [Queue!Next]_(Queue!vars)
  <2> SUFFICES ASSUME TypeOK, PhaseInv, TicketInv, [Next]_vars
               PROVE  Queue!Next \/ UNCHANGED Queue!vars
    OBVIOUS
  <2>0. rows' = rows /\ NoneNew => Queue!Next
    BY TicketsShrink, DropRefines
  <2>1. waiting' = waiting /\ running' = running => NoneNew /\ AllTickets' = AllTickets
    BY DEF NoneNew, AllTickets, Tickets, Ticket, InFlight, TicketInv, OneItemPerClaim
  <2>2. ASSUME NEW p \in Procs, NEW batch \in SUBSET Keys, DequeueBatch(p, batch)
        PROVE  Queue!Next
    <3>1. InFlight(p)' = InFlight(p) \union {NewItem(k) : k \in batch}
      BY <2>2, OrderClaimed DEF TicketInv
    <3>2. \A q \in Procs : q # p => InFlight(q)' = InFlight(q)
      BY <2>2 DEF DequeueBatch, InFlight, TypeOK
    <3> QED BY <2>2, <3>1, <3>2, BatchTickets, ClaimRefines
  <2>3. ASSUME NEW p \in Procs, Start(p) \/ Loop(p) PROVE Queue!Next
    <3>1. NoneNew /\ AllTickets' = AllTickets
      BY <2>1, <2>3 DEF Start, Loop
    <3>2. CASE Shared
      <4>1. rows' = [k \in Keys |-> SweptExpired(rows[k])]
        BY <2>3, <3>2 DEF Start, Loop, StartupSweep, PeriodicSweep
      <4> QED BY <3>1, <4>1, SweepRefines
    <3>3. CASE ~Shared /\ Start(p)
      <4>1. rows' = [k \in Keys |-> SweptAll(rows[k])]
        BY <3>3 DEF Start, StartupSweep
      <4>2. \A q \in Procs : InFlight(q) = {}
        BY <3>3 DEF SoleUnlessShared, Start, PhaseInv, InFlight
      <4>3. AllTickets = {}
        BY <4>2 DEF AllTickets, Tickets
      <4> QED BY <3>1, <4>1, <4>3, SweepRefines
    <3>4. CASE ~Shared /\ Loop(p)
      BY <2>0, <3>1, <3>4 DEF Loop, PeriodicSweep
    <3> QED BY <2>3, <3>2, <3>3, <3>4
  <2>4. ASSUME NEW p \in Procs, NEW c \in running[p], NEW d, Replaces(p, c, d)
        PROVE  AllTickets' = AllTickets
    <3>1. InFlight(p)' = (InFlight(p) \ {c}) \union {d}
      <4>1. running'[p] = (running[p] \ {c}) \union {d} /\ waiting'[p] = waiting[p]
        BY <2>4 DEF Replaces, TypeOK
      <4>2. c \notin waiting[p]
        BY DEF TicketInv, OneItemPerClaim
      <4> QED BY <4>1, <4>2 DEF InFlight
    <3>2. \A q \in Procs : q # p => InFlight(q)' = InFlight(q)
      BY <2>4 DEF Replaces, InFlight, TypeOK
    <3>3. c \in InFlight(p) /\ d.key = c.key /\ d.gen = c.gen
      BY <2>4 DEF Replaces, InFlight
    <3> QED BY <3>1, <3>2, <3>3, SameTickets
  <2>5. ASSUME NEW p \in Procs, NEW c \in running[p], NEW k \in c.todo, EnqueueFollowUp(p, c, k)
        PROVE  Queue!Next
    <3>1. AllTickets' = AllTickets
      BY <2>4, <2>5, FollowUpReplaces
    <3>2. k \in Keys
      BY DEF TypeOK, Item
    <3>3. CASE rows[k].status = "absent"
      <4>1. rows' = [rows EXCEPT ![k] = NewRow]
        BY <2>5, <3>3 DEF EnqueueFollowUp
      <4> QED BY <3>1, <3>2, <3>3, <4>1, SubmitRefines
    <3>4. CASE rows[k].status # "absent"
      <4>1. rows' = rows
        BY <2>5, <3>2, <3>4 DEF EnqueueFollowUp, TypeOK
      <4> QED BY <3>1, <4>1, DropRefines
    <3> QED BY <3>3, <3>4
  <2>6. ASSUME NEW p \in Procs, NEW c \in running[p],
               Succeed(p, c) \/ Interrupted(p, c) \/ Fail(p, c)
        PROVE  Queue!Next
    <3>1. c \in Item /\ c.key \in Keys /\ rows[c.key] \in Row /\ c \in InFlight(p)
      BY DEF TypeOK, Item, InFlight
    <3>2. PICK q : Freed(rows[c.key], q) /\ Answered(p, c, q)
      <4>1. c.limit # 0 => c.limit \in {1, MaxAttempts}
        BY <3>1 DEF Item
      <4> QED BY <2>6, <3>1, <4>1, FreedRows DEF Succeed, Interrupted, Fail
    <3>3. running' = [running EXCEPT ![p] = running[p] \ {c}] /\ waiting' = waiting
      BY <3>2 DEF Answered
    <3>4. CASE Owned(rows[c.key], p)
      <4>1. rows' = [rows EXCEPT ![c.key] = q]
        BY <3>2, <3>4 DEF Answered
      <4>2. /\ InFlight(p)' = InFlight(p) \ {c}
            /\ \A o \in Procs : o # p => InFlight(o)' = InFlight(o)
        BY <3>3 DEF InFlight, TypeOK, TicketInv, OneItemPerClaim
      <4> QED BY <3>1, <3>2, <3>4, <4>1, <4>2, OneTicketLess, AnswerRefines
    <3>5. CASE ~Owned(rows[c.key], p)
      <4>1. rows' = rows
        BY <3>2, <3>5 DEF Answered
      <4> QED BY <2>0, <3>3, <4>1, RemovalIsNotNew
    <3> QED BY <3>4, <3>5
  <2>7. ASSUME NEW k \in Keys, LeaseExpires(k) PROVE Queue!Next
    <3>1. \A j \in Keys : j # k => rows'[j] = rows[j]
      BY <2>7 DEF LeaseExpires, TypeOK
    <3>2. /\ rows[k].status = "in_flight" /\ rows'[k].status = "in_flight"
          /\ rows[k].lease = "live" /\ rows'[k].lease = "expired"
          /\ rows'[k].worker = rows[k].worker /\ rows'[k].gen = rows[k].gen
      BY <2>7 DEF LeaseExpires, TypeOK, TicketInv, RowLease, Row
    <3>3. AllTickets' = AllTickets
      BY <2>1, <2>7 DEF LeaseExpires
    <3>4. Queue!Lapse(k)
      BY <3>1, <3>2, <3>3 DEF Queue!Lapse, AbstractState, AllTickets
    <3> QED BY <3>4 DEF Queue!Next
  <2>8. CASE rows' = rows
    <3>1. CASE NoneNew
      BY <2>0, <2>8, <3>1
    <3>2. ASSUME NEW p \in Procs, NEW c \in running[p], NEW d, Replaces(p, c, d)
          PROVE  Queue!Next
      BY <2>4, <2>8, <3>2, DropRefines
    <3> QED BY <2>2, <3>1, <3>2, ItemsMove
  <2> QED BY <2>2, <2>3, <2>5, <2>6, <2>7, <2>8, RowsMove
<1> QED BY <1>1, <1>2, TicketsHold, PTL DEF Spec, Queue!Spec, ImplementsWorkQueue
=============================================================================
