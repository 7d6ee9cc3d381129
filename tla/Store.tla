------------------------------- MODULE Store -------------------------------
(***************************************************************************)
(* The database under the processes of a fleet (src/internal/store): Open  *)
(* migrates the schema under an advisory lock, on every start of every     *)
(* process; the goroutines of the open processes (the pool of workers that *)
(* Engine.Run starts, src/internal/crawler/engine.go:295-308) then look     *)
(* domains and registry references up and create what is missing, in       *)
(* statements of their own.                                                *)
(*                                                                         *)
(* A step is a statement.  Processes are killed between any two of them,   *)
(* and any of them may fail.  Of the nine tables frontier_items is         *)
(* followed, which an older version may have left in another shape.  The   *)
(* database engine is external: it keeps unique indexes, refuses to create *)
(* a table that exists and ends a session's locks with the session.        *)
(***************************************************************************)
EXTENDS Integers, Sequences, FiniteSets

CONSTANTS
  Processes,  \* the processes of the fleet
  Goroutines, \* their worker goroutines
  ProcessOf,  \* ProcessOf[g]: the process g is a goroutine of
  Engine,     \* "server" (mysql, postgres) or "sqlite"
  Items,      \* the frontier items considered, by dedup key
  Hosts,      \* the hosts with a domain
  References, \* registry references: declaring entry, base URL, referral parent
  NoParent,   \* those of them without a referral parent
  MaxStarts,  \* bound: how often the processes are started
  MaxSaves    \* bound: how many rows are looked up and created

Nobody == "nobody"
ASSUME StoreAssumption ==
  /\ Engine \in {"server", "sqlite"} /\ NoParent \subseteq References
  /\ \A g \in Goroutines : ProcessOf[g] \in Processes
  /\ MaxStarts \in Nat /\ MaxSaves \in Nat
ASSUME NamesAssumption ==
  /\ Nobody \notin Processes \union Goroutines \union Hosts \union References
  /\ Hosts \intersect References = {}

VARIABLES
  pc,          \* what each process is at
  found,       \* per goroutine, what it has looked up in vain and will create
  lock,        \* the holder of the migration lock
  table,       \* frontier_items: no table, dedup_key of the old width, or of 64
  items,       \* item -> no row, a row keyed the old way, a row keyed the new way
  domains,     \* host -> the goroutine whose discovery source it has
  registries,  \* reference -> the number of registries rows for it
  starts, saves
vars == <<pc, found, lock, table, items, domains, registries, starts, saves>>

Opening == {"lock", "inspect", "look", "create", "clean"}

\* The database as it is found: new, of a version before 0.4.1, of one before
\* the keys knew of relationships, or up to date.
Init ==
  /\ pc = [p \in Processes |-> "down"] /\ found = [g \in Goroutines |-> Nobody]
  /\ lock = Nobody
  /\ \/ table = "none" /\ items = [i \in Items |-> "none"]
     \/ table = "wide" /\ Engine = "server" /\ items \in [Items -> {"none", "old"}]
     \/ table = "narrow" /\ items \in [Items -> {"none", "old", "new"}]
  /\ domains = [h \in Hosts |-> Nobody] /\ registries = [r \in References |-> 0]
  /\ starts = 0 /\ saves = 0

----------------------------------------------------------------------------
\* Open.

Goes(p, step) == pc' = [pc EXCEPT ![p] = step]
\* The deferred unlock runs on every way out; a lock dies with its session.
Unlocked_OnSuccess(p) == IF lock = p /\ pc'[p] = "open" THEN Nobody ELSE lock  \* slip
Unlocked(p) == IF lock = p THEN Nobody ELSE lock

\* sqlite takes no lock.
NeedsLock_Never == FALSE  \* slip
NeedsLock == Engine = "server"

Start(p) ==
  /\ pc[p] \in {"down", "failed"} /\ starts < MaxStarts /\ starts' = starts + 1
  /\ Goes(p, IF NeedsLock THEN "lock" ELSE "inspect")
  /\ UNCHANGED <<found, lock, table, items, domains, registries, saves>>

\* withMigrationLock: the lock, or an error after migrationLockTimeout.
Lock(p) ==
  /\ pc[p] = "lock" /\ lock = Nobody /\ lock' = p /\ Goes(p, "inspect")
  /\ UNCHANGED <<found, table, items, domains, registries, starts, saves>>

\* migrateFrontierDedupKey: a column wider than 64 is dropped with its table;
\* sqlite does not enforce the width.
TooWide_AnyTable == table # "none"  \* slip: >= 64
TooWide_Ignored == FALSE  \* slip: AutoMigrate is trusted to narrow the column
TooWide == table = "wide"
Inspect(p) ==
  /\ pc[p] = "inspect" /\ Goes(p, "look")
  /\ IF Engine = "server" /\ TooWide
     THEN table' = "none" /\ items' = [i \in Items |-> "none"]
     ELSE UNCHANGED <<table, items>>
  /\ UNCHANGED <<found, lock, domains, registries, starts, saves>>

\* AutoMigrate looks whether a table is there, then creates it, or adds the
\* columns it lacks.  The second of two creates is an error.
Look(p) ==
  /\ pc[p] = "look" /\ Goes(p, IF table = "none" THEN "create" ELSE "clean")
  /\ UNCHANGED <<found, lock, table, items, domains, registries, starts, saves>>
Create(p) ==
  /\ pc[p] = "create"
  /\ IF table = "none" THEN table' = "narrow" /\ Goes(p, "clean") /\ UNCHANGED lock
     ELSE UNCHANGED table /\ Goes(p, "collided") /\ lock' = Unlocked(p)
  /\ UNCHANGED <<found, items, domains, registries, starts, saves>>

\* migrateFrontierDedupVersion.
Clean(p) ==
  /\ pc[p] = "clean" /\ Goes(p, "open") /\ lock' = Unlocked(p)
  /\ items' = [i \in Items |-> IF items[i] = "old" THEN "none" ELSE items[i]]
  /\ UNCHANGED <<found, table, domains, registries, starts, saves>>

\* A statement fails, or the lock is not given in time: Open returns an error,
\* and the process ends.
OpenFails(p) ==
  /\ pc[p] \in Opening
  /\ Goes(p, "failed") /\ lock' = Unlocked(p)
  /\ UNCHANGED <<found, table, items, domains, registries, starts, saves>>

Crash(p) ==
  /\ pc[p] \notin {"down", "failed", "collided"} /\ Goes(p, "down")
  /\ lock' = (IF lock = p THEN Nobody ELSE lock)
  /\ found' = [g \in Goroutines |-> IF ProcessOf[g] = p THEN Nobody ELSE found[g]]
  /\ UNCHANGED <<table, items, domains, registries, starts, saves>>

----------------------------------------------------------------------------
\* What the goroutines of open processes write.

Enqueue(g, i) ==
  /\ pc[ProcessOf[g]] = "open" /\ items[i] = "none" /\ items' = [items EXCEPT ![i] = "new"]
  /\ UNCHANGED <<pc, found, lock, table, domains, registries, starts, saves>>

\* A goroutine between its lookup and its create has nothing else to do, and
\* the other goroutines of its process go on.
Free(g) == pc[ProcessOf[g]] = "open" /\ found[g] = Nobody
LooksUp(g, x, known) ==
  /\ Free(g) /\ saves < MaxSaves /\ saves' = saves + 1
  /\ found' = [found EXCEPT ![g] = IF known THEN Nobody ELSE x]
  /\ UNCHANGED <<pc, lock, table, items, domains, registries, starts>>

\* UpsertDomain: the row that is there, or a new one; who loses the race of two
\* creates reads the winner's row.
UpsertDomain(g, h) == LooksUp(g, h, domains[h] # Nobody)
CreateDomain(g) ==
  /\ found[g] \in Hosts
  /\ domains' = [domains EXCEPT ![found[g]] = IF @ = Nobody THEN g ELSE @]
  /\ found' = [found EXCEPT ![g] = Nobody]
  /\ UNCHANGED <<pc, lock, table, items, registries, starts, saves>>

\* SaveRegistry: the lookup tells a reference without a parent (IS NULL) from
\* one with it; no unique index stands behind it.
Known_NullParent(r) == registries[r] > 0 /\ r \notin NoParent  \* slip: referral_source_id = NULL
Known(r) == registries[r] > 0
SaveRegistry(g, r) == LooksUp(g, r, Known(r))
CreateRegistry(g) ==
  /\ found[g] \in References
  /\ registries' = [registries EXCEPT ![found[g]] = @ + 1]
  /\ found' = [found EXCEPT ![g] = Nobody]
  /\ UNCHANGED <<pc, lock, table, items, domains, starts, saves>>

StatementFails(g) ==
  /\ found[g] # Nobody /\ found' = [found EXCEPT ![g] = Nobody]
  /\ UNCHANGED <<pc, lock, table, items, domains, registries, starts, saves>>

Opens(p) == Lock(p) \/ Inspect(p) \/ Look(p) \/ Create(p) \/ Clean(p) \/ OpenFails(p)
Writes(g) ==
  \/ \E i \in Items : Enqueue(g, i)
  \/ \E h \in Hosts : UpsertDomain(g, h)
  \/ \E r \in References : SaveRegistry(g, r)
  \/ CreateDomain(g) \/ CreateRegistry(g) \/ StatementFails(g)
Next ==
  \/ \E p \in Processes : Start(p) \/ Opens(p) \/ Crash(p)
  \/ \E g \in Goroutines : Writes(g)
\* A process that is opening the store goes on, fails or is killed.
Spec == Init /\ [][Next]_vars /\ \A p \in Processes : WF_vars(Opens(p))

----------------------------------------------------------------------------
\* Properties.

\* withMigrationLock: processes that start at once "apply schema changes one at
\* a time": none of them dies of the "hard error" a create gets that another
\* process has just made.
NoCollision == \A p \in Processes : pc[p] # "collided"

\* Whatever the database was and wherever earlier opens were killed, a process
\* that is open finds the table in its present shape and no row keyed the old
\* way, which could swallow an enqueue of the new kind.
OpenMeansReconciled ==
  (\E p \in Processes : pc[p] = "open") => /\ table = "narrow"
                                           /\ \A i \in Items : items[i] # "old"

\* migrateFrontierDedupKey "runs on every Open and must be a no-op once
\* reconciled": no start of a process takes away an item keyed the present way.
NoItemLost == [][\A i \in Items : items[i] = "new" => items'[i] = "new"]_vars

\* SaveRegistry: "A Registry row models a relationship, not a harvest attempt;
\* repeat fan-out must therefore reuse it".  Without a unique index two creates
\* can meet, of two processes or of two workers of one, but only as many as
\* there are workers that looked before the first of them.
RegistryReused == \A r \in References : registries[r] <= Cardinality(Goroutines)

\* A lock that is held comes free again, whether the migration under it is
\* done, fails or is killed: a peer never waits for a process that is past it.
LockComesFree == lock # Nobody ~> lock = Nobody
=============================================================================
