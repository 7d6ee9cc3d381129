--------------------------- MODULE StartupProofs ---------------------------
(***************************************************************************)
(* Proofs about what comes before the first item is dequeued: opening the  *)
(* store, and reading the sources that seed the queue.                     *)
(*                                                                         *)
(* Store: for any processes, items, hosts and references, any database     *)
(* found at the start and any number of starts and failures.  The schema   *)
(* part rests on who may migrate: between taking the lock and leaving it a *)
(* process is the only one that does, so what it saw of the table still    *)
(* holds when it acts on it.  The registry part counts the workers that    *)
(* have looked and not yet created.                                        *)
(*                                                                         *)
(* Sources: for any answers, page sizes, limits and logs.  The collector's *)
(* names keep to the first mentions of everything answered, one value      *)
(* after the other, so that the cuts into pages do not matter.  The leaves *)
(* read of a log lie behind the window and before its cursor, so that they *)
(* are counted once, and each request takes at least one away.             *)
(***************************************************************************)
EXTENDS Store, Sources, FiniteSetTheorems, WellFoundedInduction, TLAPS

Steps == Opening \union {"down", "failed", "collided", "open"}
Migrating == Opening \ {"lock"}

\* What migration and enqueues leave of each table shape.
TypeOK ==
  /\ pc \in [Processes -> Steps]
  /\ found \in [Goroutines -> {Nobody} \union Hosts \union References]
  /\ lock \in {Nobody} \union Processes
  /\ table \in {"none", "wide", "narrow"}
  /\ items \in [Items -> {"none", "old", "new"}]
  /\ registries \in [References -> Nat]

\* sqlite takes no lock, which is right for one process at a time.
MigratesAlone == Engine = "server" \/ \A p, q \in Processes : p = q

\* A process inside a migration holds the lock and is the only one inside.
OneMigration ==
  /\ \A p \in Processes : Engine = "server" /\ pc[p] \in Migrating => lock = p
  /\ \A p, q \in Processes : pc[p] \in Migrating /\ pc[q] \in Migrating => p = q

\* What a process has seen of the table is still so; rows keyed the present
\* way are only in a table of the present shape.
SeenIsSo ==
  /\ \A p \in Processes :
       /\ pc[p] = "look" => table # "wide"
       /\ pc[p] = "create" => table = "none"
       /\ pc[p] = "clean" => table = "narrow"
       /\ pc[p] # "collided"
  /\ table = "wide" => Engine = "server"
  /\ \A i \in Items : items[i] = "new" => table = "narrow"
  /\ \A i \in Items : items[i] = "old" => table # "none"

SchemaInv == TypeOK /\ OneMigration /\ SeenIsSo /\ OpenMeansReconciled

-----------------------------------------------------------------------------
(* The schema.                                                             *)

\* No step leaves the types.
LEMMA TypeStep == TypeOK /\ [Next]_vars => TypeOK'
<1> SUFFICES ASSUME TypeOK, [Next]_vars PROVE TypeOK'
  OBVIOUS
<1> USE DEF TypeOK, Steps, Opening, Goes, Unlocked
<1>1. ASSUME NEW p \in Processes, Start(p) PROVE TypeOK'
  BY <1>1 DEF Start
<1>2. ASSUME NEW p \in Processes, Lock(p) \/ Look(p) PROVE TypeOK'
  BY <1>2 DEF Lock, Look
<1>3. ASSUME NEW p \in Processes, Inspect(p) PROVE TypeOK'
  BY <1>3 DEF Inspect
<1>4. ASSUME NEW p \in Processes, Create(p) PROVE TypeOK'
  BY <1>4 DEF Create
<1>5. ASSUME NEW p \in Processes, Clean(p) PROVE TypeOK'
  BY <1>5 DEF Clean
<1>6. ASSUME NEW p \in Processes, OpenFails(p) \/ Crash(p) PROVE TypeOK'
  BY <1>6 DEF OpenFails, Crash
<1>7. ASSUME NEW g \in Goroutines, NEW i \in Items, Enqueue(g, i) PROVE TypeOK'
  BY <1>7 DEF Enqueue
<1>8. ASSUME NEW g \in Goroutines, NEW h \in Hosts, UpsertDomain(g, h) PROVE TypeOK'
  BY <1>8 DEF UpsertDomain, LooksUp
<1>9. ASSUME NEW g \in Goroutines, NEW r \in References, SaveRegistry(g, r) PROVE TypeOK'
  BY <1>9 DEF SaveRegistry, LooksUp
<1>10. ASSUME NEW g \in Goroutines, CreateDomain(g) \/ CreateRegistry(g) \/ StatementFails(g)
       PROVE  TypeOK'
  BY <1>10 DEF CreateDomain, CreateRegistry, StatementFails
<1>11. CASE UNCHANGED vars
  BY <1>11 DEF vars
<1> QED BY <1>1, <1>2, <1>3, <1>4, <1>5, <1>6, <1>7, <1>8, <1>9, <1>10, <1>11
        DEF Next, Opens, Writes

\* One migration at a time: the lock passes from one migration to the next.
LEMMA OneMigrationStep ==
  MigratesAlone /\ TypeOK /\ OneMigration /\ [Next]_vars => OneMigration'
<1> SUFFICES ASSUME MigratesAlone, TypeOK, OneMigration, [Next]_vars
             PROVE  OneMigration'
  OBVIOUS
<1> USE NamesAssumption DEF TypeOK, OneMigration, MigratesAlone, Steps, Migrating,
                            Opening, Goes, Unlocked
<1>1. ASSUME NEW p \in Processes, Start(p) PROVE OneMigration'
  BY <1>1 DEF Start, NeedsLock
<1>2. ASSUME NEW p \in Processes, Lock(p) PROVE OneMigration'
  BY <1>2 DEF Lock
<1>3. ASSUME NEW p \in Processes, Inspect(p) \/ Look(p) PROVE OneMigration'
  BY <1>3 DEF Inspect, Look
<1>4. ASSUME NEW p \in Processes, Create(p) PROVE OneMigration'
  BY <1>4 DEF Create
<1>5. ASSUME NEW p \in Processes, Clean(p) \/ OpenFails(p) \/ Crash(p) PROVE OneMigration'
  BY <1>5 DEF Clean, OpenFails, Crash
<1>6. ASSUME NEW g \in Goroutines, Writes(g) PROVE OneMigration'
  BY <1>6 DEF Writes, Enqueue, UpsertDomain, SaveRegistry, LooksUp, CreateDomain,
              CreateRegistry, StatementFails
<1>7. CASE UNCHANGED vars
  BY <1>7 DEF vars
<1> QED BY <1>1, <1>2, <1>3, <1>4, <1>5, <1>6, <1>7 DEF Next, Opens

\* What was seen stays so, and an open process finds what it should.
LEMMA SeenStep ==
  SchemaInv /\ [Next]_vars => SeenIsSo' /\ OpenMeansReconciled'
<1> SUFFICES ASSUME SchemaInv, [Next]_vars
             PROVE  SeenIsSo' /\ OpenMeansReconciled'
  OBVIOUS
<1> USE DEF SchemaInv, TypeOK, OneMigration, SeenIsSo, OpenMeansReconciled,
            Steps, Migrating, Opening, Goes, Unlocked
<1> DEFINE Goal == SeenIsSo' /\ OpenMeansReconciled'
<1>1. ASSUME NEW p \in Processes, Start(p) PROVE Goal
  BY <1>1 DEF Start
<1>2. ASSUME NEW p \in Processes, Lock(p) PROVE Goal
  BY <1>2 DEF Lock
<1>3. ASSUME NEW p \in Processes, Inspect(p) PROVE Goal
  BY <1>3 DEF Inspect, TooWide
<1>4. ASSUME NEW p \in Processes, Look(p) PROVE Goal
  BY <1>4 DEF Look
<1>5. ASSUME NEW p \in Processes, Create(p) PROVE Goal
  BY <1>5 DEF Create
<1>6. ASSUME NEW p \in Processes, Clean(p) PROVE Goal
  BY <1>6 DEF Clean
<1>7. ASSUME NEW p \in Processes, OpenFails(p) \/ Crash(p) PROVE Goal
  BY <1>7 DEF OpenFails, Crash
<1>8. ASSUME NEW g \in Goroutines, NEW i \in Items, Enqueue(g, i) PROVE Goal
  BY <1>8, StoreAssumption DEF Enqueue
<1>9. ASSUME NEW g \in Goroutines, Writes(g), items' = items PROVE Goal
  BY <1>9 DEF Writes, Enqueue, UpsertDomain, SaveRegistry, LooksUp, CreateDomain,
              CreateRegistry, StatementFails
<1>10. CASE UNCHANGED vars
  BY <1>10 DEF vars
<1>11. ASSUME NEW g \in Goroutines, Writes(g)
       PROVE  (\E i \in Items : Enqueue(g, i)) \/ items' = items
  BY <1>11 DEF Writes, UpsertDomain, SaveRegistry, LooksUp, CreateDomain,
               CreateRegistry, StatementFails
<1> QED BY <1>1, <1>2, <1>3, <1>4, <1>5, <1>6, <1>7, <1>8, <1>9, <1>10, <1>11
        DEF Next, Opens

LEMMA SchemaInvariance ==
  ASSUME MigratesAlone
  PROVE  Spec => []SchemaInv
<1>1. Init => SchemaInv
  <2> SUFFICES ASSUME Init PROVE SchemaInv
    OBVIOUS
  <2>1. \A p \in Processes : pc[p] = "down"
    BY DEF Init
  <2>2. TypeOK
    BY DEF Init, TypeOK, Steps
  <2>3. OneMigration /\ OpenMeansReconciled
    BY <2>1 DEF OneMigration, OpenMeansReconciled, Migrating, Opening
  <2>4. SeenIsSo
    BY <2>1 DEF Init, SeenIsSo
  <2> QED BY <2>2, <2>3, <2>4 DEF SchemaInv
<1>2. SchemaInv /\ [Next]_vars => SchemaInv'
  BY MigratesAlone, TypeStep, OneMigrationStep, SeenStep DEF SchemaInv
<1> QED BY <1>1, <1>2, PTL DEF Spec

\* However many processes start at once, on mysql and postgres none of them
\* creates a table that another has just created (withMigrationLock).
THEOREM NoCollisionEver ==
  ASSUME MigratesAlone
  PROVE  Spec => []NoCollision
<1>1. SchemaInv => NoCollision
  BY DEF SchemaInv, SeenIsSo, NoCollision
<1> QED BY <1>1, SchemaInvariance, PTL

\* A process that is open works on the present schema, whatever database it
\* found and wherever earlier migrations were cut off (store.Open).
THEOREM OpenIsReconciled ==
  ASSUME MigratesAlone
  PROVE  Spec => []OpenMeansReconciled
<1>1. SchemaInv => OpenMeansReconciled
  BY DEF SchemaInv
<1> QED BY <1>1, SchemaInvariance, PTL

\* No start of any process drops an item keyed the present way: both
\* reconciliations are no-ops once they have been made.
THEOREM NoItemIsLost ==
  ASSUME MigratesAlone
  PROVE  Spec => NoItemLost
<1>1. ASSUME SchemaInv, [Next]_vars, NEW i \in Items, items[i] = "new"
      PROVE  items'[i] = "new"
  <2> USE DEF SchemaInv, SeenIsSo
  <2>1. ASSUME NEW p \in Processes, Inspect(p) PROVE items'[i] = "new"
    BY <1>1, <2>1 DEF Inspect, TooWide
  <2>2. ASSUME NEW p \in Processes, Clean(p) PROVE items'[i] = "new"
    BY <1>1, <2>2 DEF Clean
  <2>3. ASSUME NEW g \in Goroutines, NEW j \in Items, Enqueue(g, j) PROVE items'[i] = "new"
    BY <1>1, <2>3 DEF Enqueue, TypeOK
  <2>4. CASE items' = items
    BY <1>1, <2>4
  <2> QED BY <1>1, <2>1, <2>2, <2>3, <2>4
          DEF Next, Opens, Writes, Start, Lock, Look, Create, OpenFails, Crash, UpsertDomain,
              SaveRegistry, LooksUp, CreateDomain, CreateRegistry, StatementFails, vars
<1>2. SchemaInv /\ [Next]_vars =>
        [\A i \in Items : items[i] = "new" => items'[i] = "new"]_vars
  BY <1>1
<1> QED BY <1>2, SchemaInvariance, PTL DEF Spec, NoItemLost

-----------------------------------------------------------------------------
(* The registry references.                                                *)

\* The workers that have looked for r in vain and not created it yet.
Writers(r) == {g \in Goroutines : found[g] = r}

\* Whoever may still add a row has not added one before.
WritersCounted ==
  \A r \in References :
    registries[r] + Cardinality(Writers(r)) <= Cardinality(Goroutines)

\* Fewer writers are a smaller number.
LEMMA WritersFinite ==
  ASSUME IsFiniteSet(Goroutines), NEW r
  PROVE  /\ IsFiniteSet(Writers(r)) /\ IsFiniteSet(Writers(r)')
         /\ Cardinality(Goroutines) \in Nat
         /\ Cardinality(Writers(r)) \in Nat /\ Cardinality(Writers(r)') \in Nat
         /\ Cardinality(Writers(r)') <= Cardinality(Goroutines)
         /\ Writers(r)' \subseteq Writers(r)
              => Cardinality(Writers(r)') <= Cardinality(Writers(r))
<1>1. Writers(r) \in SUBSET Goroutines /\ Writers(r)' \in SUBSET Goroutines
  BY DEF Writers
<1>2. IsFiniteSet(Writers(r)) /\ IsFiniteSet(Writers(r)')
  BY <1>1, FS_Subset
<1>3. Writers(r)' \subseteq Writers(r)
        => Cardinality(Writers(r)') <= Cardinality(Writers(r))
  BY <1>2, FS_Subset
<1> QED BY <1>1, <1>2, <1>3, FS_Subset, FS_CardinalityType

LEMMA WritersStep ==
  ASSUME IsFiniteSet(Goroutines), TypeOK, WritersCounted, [Next]_vars
  PROVE  WritersCounted'
<1> SUFFICES ASSUME NEW r \in References
             PROVE  registries'[r] + Cardinality(Writers(r)') <= Cardinality(Goroutines)
  BY DEF WritersCounted
<1> USE DEF TypeOK
<1>0. /\ registries[r] \in Nat
      /\ registries[r] + Cardinality(Writers(r)) <= Cardinality(Goroutines)
  BY DEF WritersCounted
<1>1. ASSUME Writers(r)' \subseteq Writers(r), registries'[r] = registries[r]
      PROVE  registries'[r] + Cardinality(Writers(r)') <= Cardinality(Goroutines)
  BY <1>0, <1>1, WritersFinite
<1>2. ASSUME NEW g \in Goroutines, NEW q \in References, SaveRegistry(g, q)
      PROVE  registries'[r] + Cardinality(Writers(r)') <= Cardinality(Goroutines)
  <2>1. CASE r = q /\ ~Known(q)
    <3>1. registries'[r] = 0
      BY <1>0, <1>2, <2>1 DEF SaveRegistry, LooksUp, Known
    <3> QED BY <3>1, WritersFinite
  <2>2. CASE ~(r = q /\ ~Known(q))
    <3>1. Writers(r)' \subseteq Writers(r) /\ registries'[r] = registries[r]
      BY <1>2, <2>2, NamesAssumption DEF SaveRegistry, LooksUp, Writers
    <3> QED BY <1>1, <3>1
  <2> QED BY <2>1, <2>2
<1>3. ASSUME NEW g \in Goroutines, CreateRegistry(g)
      PROVE  registries'[r] + Cardinality(Writers(r)') <= Cardinality(Goroutines)
  <2>1. CASE found[g] = r
    <3>1. g \in Writers(r) /\ Writers(r)' = Writers(r) \ {g}
      BY <1>3, <2>1, NamesAssumption DEF CreateRegistry, Writers
    <3>2. Cardinality(Writers(r)') = Cardinality(Writers(r)) - 1
      BY <3>1, WritersFinite, FS_RemoveElement
    <3>3. registries'[r] = registries[r] + 1
      BY <1>3, <2>1 DEF CreateRegistry
    <3> QED BY <1>0, <3>2, <3>3, WritersFinite
  <2>2. CASE found[g] # r
    <3>1. Writers(r)' \subseteq Writers(r) /\ registries'[r] = registries[r]
      BY <1>3, <2>2, NamesAssumption DEF CreateRegistry, Writers
    <3> QED BY <1>1, <3>1
  <2> QED BY <2>1, <2>2
<1>4. ASSUME NEW g \in Goroutines, NEW h \in Hosts, UpsertDomain(g, h)
      PROVE  Writers(r)' \subseteq Writers(r) /\ registries'[r] = registries[r]
  BY <1>4, NamesAssumption DEF UpsertDomain, LooksUp, Writers
<1>5. ASSUME NEW g \in Goroutines, CreateDomain(g) \/ StatementFails(g)
      PROVE  Writers(r)' \subseteq Writers(r) /\ registries'[r] = registries[r]
  BY <1>5, NamesAssumption DEF CreateDomain, StatementFails, Writers
<1>6. ASSUME NEW p \in Processes, Crash(p)
      PROVE  Writers(r)' \subseteq Writers(r) /\ registries'[r] = registries[r]
  BY <1>6, NamesAssumption DEF Crash, Writers
<1>7. CASE UNCHANGED <<found, registries>>
  BY <1>1, <1>7 DEF Writers
<1> QED BY <1>1, <1>2, <1>3, <1>4, <1>5, <1>6, <1>7
        DEF Next, Opens, Writes, Start, Lock, Inspect, Look, Create, Clean, OpenFails,
            Enqueue, vars

\* Rows for one registry reference are at most as many as there are workers in
\* all processes together, however often each of them saves it (SaveRegistry).
THEOREM RegistryIsReused ==
  ASSUME IsFiniteSet(Goroutines)
  PROVE  Spec => []RegistryReused
<1>1. Init => TypeOK /\ WritersCounted
  <2> SUFFICES ASSUME Init PROVE TypeOK /\ WritersCounted
    OBVIOUS
  <2>1. TypeOK
    BY DEF Init, TypeOK, Steps
  <2>2. ASSUME NEW r \in References
        PROVE  registries[r] + Cardinality(Writers(r)) <= Cardinality(Goroutines)
    <3>1. Writers(r) \in SUBSET Goroutines /\ registries[r] = 0
      BY DEF Writers, Init
    <3> QED BY <3>1, WritersFinite, FS_Subset
  <2> QED BY <2>1, <2>2 DEF WritersCounted
<1>2. TypeOK /\ WritersCounted /\ [Next]_vars => (TypeOK /\ WritersCounted)'
  BY TypeStep, WritersStep
<1>3. TypeOK /\ WritersCounted => RegistryReused
  BY WritersFinite DEF TypeOK, WritersCounted, RegistryReused
<1> QED BY <1>1, <1>2, <1>3, PTL DEF Spec

-----------------------------------------------------------------------------
(* What the sources have collected and read.                               *)

\* names are the first names among raws: as many as there are, up to Wanted,
\* each at the place its first mention has among the first mentions.
Firsts(names, raws) ==
  LET first == FirstMentions(raws)
  IN /\ names \in Seq(Hostnames) /\ raws \in Seq(Raws)
     /\ Len(names) = IF Cardinality(first) < Wanted THEN Cardinality(first) ELSE Wanted
     /\ \A i \in first : Rank(raws, i) < Len(names) => names[Rank(raws, i) + 1] = raws[i].name
     /\ \A n \in 1..Len(names) : \E i \in first : Rank(raws, i) = n - 1

\* The names so far, and what the paged sources may still ask for.
StreamInv ==
  source \notin {"ct", "registry"} =>
    /\ Firsts(got, heard)
    /\ phase = "returned" /\ Len(got) < Wanted => ~more \/ pages = MaxPages
    /\ pages \in Nat
    /\ source \in {"github", "mcp"} /\ phase = "running" => pages < MaxPages

LogRecord == [window : Nat \ {0}, size : Nat, most : Nat, fetched : Nat, names : Seq(Hostnames),
              read : SUBSET Int, start : Nat, end : Int, cursor : Nat]

\* The window of leaves being read, what was read of the log and what may yet be.
Reading(l, sent) ==
  /\ l.start <= l.cursor /\ l.cursor <= l.end + 1 /\ l.end - l.start < l.window
  /\ l.cursor = l.end + 1 => l.end = -1
  /\ IsFiniteSet(l.read) /\ l.fetched = Cardinality(l.read)
  /\ \A x \in l.read : x >= l.start /\ x \notin l.cursor..l.end
  /\ l.fetched < l.most + l.window
  /\ l.cursor > l.start => l.fetched - (l.cursor - l.start) < l.most
  /\ sent + l.start + (l.end - l.cursor + 1) <= l.size

LogInv ==
  /\ got \in Seq(Hostnames) /\ requests \in Nat
  /\ source # "ct" => log = NoLog
  /\ log # NoLog => log \in LogRecord /\ Reading(log, requests)

RegistryInv ==
  source = "registry" =>
    /\ pages \in Nat
    /\ phase = "running" => pages < PageLimit /\ requests <= pages + (IF federate THEN 0 ELSE 1)
    /\ requests <= PageLimit + 1

SourcesInv == StreamInv /\ LogInv /\ RegistryInv

-----------------------------------------------------------------------------
(* Induction.                                                              *)

\* A set of naturals has a least element.
LEMMA LeastOf ==
  ASSUME NEW T \in SUBSET Nat, T # {}
  PROVE  \E x \in T : \A y \in T : ~(y < x)
<1> DEFINE R == OpToRel(<, Nat)
<1>1. \A x, y \in Nat : x < y => <<x, y>> \in R
  BY DEF OpToRel
<1>2. IsWellFoundedOn(R, Nat)
  BY NatLessThanWellFounded
<1> HIDE DEF R
<1>3. PICK x \in T : \A y \in T : ~ (<<y, x>> \in R)
  BY <1>2, WFMin, Zenon
<1> QED BY <1>1, <1>3

\* Induction over the naturals.
LEMMA Naturals ==
  ASSUME NEW S, 0 \in S, \A n \in Nat : n \in S => n + 1 \in S
  PROVE  Nat \subseteq S
<1> DEFINE T == Nat \ S
<1>1. SUFFICES ASSUME T # {} PROVE FALSE
  OBVIOUS
<1>2. PICK x \in T : \A y \in T : ~ (y < x)
  BY <1>1, LeastOf
<1>3. x # 0 /\ x \in Nat
  OBVIOUS
<1>4. x - 1 \in T
  BY <1>3
<1> QED BY <1>2, <1>3, <1>4

-----------------------------------------------------------------------------
(* The collector.                                                          *)

\* after[i] is what the collector has of names after the first i values.
Collecting(after, names, raws, limit) ==
  /\ after[0] = names
  /\ \A i \in 1..Len(raws) : after[i] = Adds(after[i - 1], raws[i], limit)
  /\ Collect(names, raws, limit) = after[Len(raws)]

\* The recursion in Collect adds one raw value after the other.
LEMMA CollectIs ==
  ASSUME NEW names, NEW raws \in Seq(Raws), NEW limit
  PROVE  \E after : Collecting(after, names, raws, limit)
<1> DEFINE Is(a, m) == a = [i \in 0..m |-> IF i = 0 THEN names ELSE Adds(a[i - 1], raws[i], limit)]
           S == {m \in Nat : \E a : Is(a, m)}
<1>1. 0 \in S
  <2> DEFINE a == [i \in 0..0 |-> names]
  <2>1. Is(a, 0)
    OBVIOUS
  <2> QED BY <2>1
<1>2. ASSUME NEW m \in Nat, m \in S
      PROVE  m + 1 \in S
  <2>1. PICK a : Is(a, m)
    BY <1>2
  <2> DEFINE b == [i \in 0..(m + 1) |-> IF i = m + 1 THEN Adds(a[m], raws[m + 1], limit) ELSE a[i]]
  <2>2. \A i \in 0..m : a[i] = IF i = 0 THEN names ELSE Adds(a[i - 1], raws[i], limit)
    BY <2>1
  <2>3. \A i \in 0..(m + 1) : b[i] = IF i = 0 THEN names ELSE Adds(b[i - 1], raws[i], limit)
    <3>1. b[m + 1] = Adds(a[m], raws[m + 1], limit) /\ \A i \in 0..m : b[i] = a[i]
      OBVIOUS
    <3>2. \A i \in 0..(m + 1) : i = m + 1 \/ (i \in 0..m /\ (i # 0 => i - 1 \in 0..m))
      OBVIOUS
    <3>3. m + 1 # 0 /\ (m + 1) - 1 = m /\ m \in 0..m
      OBVIOUS
    <3> HIDE DEF b
    <3> QED BY <2>2, <3>1, <3>2, <3>3
  <2>4. Is(b, m + 1)
    BY <2>3
  <2>5. m + 1 \in Nat
    OBVIOUS
  <2> HIDE DEF Is, b
  <2> QED BY <2>4, <2>5
<1>3. Len(raws) \in S
  <2>1. Nat \subseteq S
    BY <1>1, <1>2, Naturals
  <2> QED BY <2>1
<1> DEFINE c == CHOOSE a : Is(a, Len(raws))
<1>4. Is(c, Len(raws))
  BY <1>3
<1>5. Collect(names, raws, limit) = c[Len(raws)]
  BY DEF Collect
<1>6. \A i \in 0..Len(raws) : c[i] = IF i = 0 THEN names ELSE Adds(c[i - 1], raws[i], limit)
  BY <1>4
<1> HIDE DEF c
<1>7. Collecting(c, names, raws, limit)
  BY <1>5, <1>6 DEF Collecting
<1> QED BY <1>7

\* What is collected is host names.
LEMMA CollectType ==
  ASSUME NEW names \in Seq(Hostnames), NEW raws \in Seq(Raws), NEW limit
  PROVE  Collect(names, raws, limit) \in Seq(Hostnames)
<1>1. PICK after : Collecting(after, names, raws, limit)
  BY CollectIs
<1> USE DEF Collecting
<1> DEFINE S == {i \in Nat : i <= Len(raws) => after[i] \in Seq(Hostnames)}
<1>2. 0 \in S
  BY <1>1
<1>3. ASSUME NEW n \in Nat, n \in S
      PROVE  n + 1 \in S
  <2> SUFFICES ASSUME n + 1 <= Len(raws) PROVE after[n + 1] \in Seq(Hostnames)
    OBVIOUS
  <2>1. after[n + 1] = Adds(after[n], raws[n + 1], limit)
    BY <1>1
  <2>2. raws[n + 1].name \in Hostnames
    <3>1. raws[n + 1] \in Raws
      OBVIOUS
    <3> QED BY <3>1 DEF Raws
  <2>4. after[n] \in Seq(Hostnames)
    BY <1>3
  <2> HIDE DEF S
  <2>3. Append(after[n], raws[n + 1].name) \in Seq(Hostnames)
    BY <2>2, <2>4
  <2> QED BY <2>1, <2>3, <2>4, Zenon DEF Adds, Sanitized
<1>4. Nat \subseteq S
  <2> HIDE DEF S
  <2> QED BY <1>2, <1>3, Naturals
<1> QED BY <1>1, <1>4

\* An answer's items hold raw values.
LEMMA FlatType ==
  ASSUME NEW n \in Nat, NEW parts \in [1..n -> Seq(Raws)]
  PROVE  Flat(parts) \in Seq(Raws)
<1> DEFINE Is(f, m) == f = [i \in 1..m |-> IF i = 1 THEN parts[i] ELSE f[i - 1] \o parts[i]]
           S == {m \in Nat : \E f : Is(f, m)}
<1>0. Len(parts) = n
  OBVIOUS
<1>1. 0 \in S
  <2> DEFINE f == [i \in 1..0 |-> parts[i]]
  <2>1. Is(f, 0)
    OBVIOUS
  <2> QED BY <2>1
<1>2. ASSUME NEW m \in Nat, m \in S
      PROVE  m + 1 \in S
  <2>1. PICK f : Is(f, m)
    BY <1>2
  <2> DEFINE g == [i \in 1..(m + 1) |-> IF i = m + 1 THEN (IF m = 0 THEN parts[1] ELSE f[m] \o parts[m + 1])
                                         ELSE f[i]]
  <2>2. \A i \in 1..m : f[i] = IF i = 1 THEN parts[i] ELSE f[i - 1] \o parts[i]
    BY <2>1
  <2>3. \A i \in 1..(m + 1) : g[i] = IF i = 1 THEN parts[i] ELSE g[i - 1] \o parts[i]
    BY <2>2
  <2>4. Is(g, m + 1)
    BY <2>3
  <2>5. m + 1 \in Nat
    OBVIOUS
  <2> HIDE DEF Is, g
  <2> QED BY <2>4, <2>5
<1>3. n \in S
  BY <1>1, <1>2, Naturals
<1> DEFINE c == CHOOSE f : Is(f, Len(parts))
<1>4. Is(c, n)
  BY <1>0, <1>3
<1>5. \A i \in 1..n : c[i] = IF i = 1 THEN parts[i] ELSE c[i - 1] \o parts[i]
  BY <1>4
<1>6. Flat(parts) = IF n = 0 THEN parts ELSE c[n]
  BY <1>0 DEF Flat, FlattenSeq
<1> HIDE DEF c
<1> DEFINE T == {m \in Nat : m \in 1..n => c[m] \in Seq(Raws)}
<1>7. 0 \in T
  OBVIOUS
<1>8. ASSUME NEW m \in Nat, m \in T
      PROVE  m + 1 \in T
  <2> SUFFICES ASSUME m + 1 \in 1..n PROVE c[m + 1] \in Seq(Raws)
    OBVIOUS
  <2>1. c[m + 1] = IF m + 1 = 1 THEN parts[m + 1] ELSE c[m] \o parts[m + 1]
    BY <1>5
  <2> QED BY <1>8, <2>1
<1>9. Nat \subseteq T
  <2> HIDE DEF T
  <2> QED BY <1>7, <1>8, Naturals
<1>10. n = 0 => parts \in Seq(Raws)
  OBVIOUS
<1> QED BY <1>6, <1>9, <1>10

-----------------------------------------------------------------------------
(* The first mentions.                                                     *)

\* r is usable and names what none of raws does.
New(raws, r) == Usable(r) /\ \A j \in 1..Len(raws) : Usable(raws[j]) => raws[j].name # r.name

LEMMA MentionsFinite ==
  ASSUME NEW raws \in Seq(Raws)
  PROVE  /\ FirstMentions(raws) \subseteq 1..Len(raws)
         /\ IsFiniteSet(FirstMentions(raws)) /\ Cardinality(FirstMentions(raws)) \in Nat
<1>1. FirstMentions(raws) \subseteq 1..Len(raws)
  BY DEF FirstMentions
<1>2. IsFiniteSet(1..Len(raws))
  BY FS_Interval
<1> QED BY <1>1, <1>2, FS_Subset, FS_CardinalityType

\* Whatever is usable has a first mention.
LEMMA FirstMentionOf ==
  ASSUME NEW raws \in Seq(Raws), NEW k \in 1..Len(raws), Usable(raws[k])
  PROVE  \E i \in FirstMentions(raws) : raws[i].name = raws[k].name
<1> DEFINE T == {j \in 1..Len(raws) : Usable(raws[j]) /\ raws[j].name = raws[k].name}
<1>1. T \in SUBSET Nat /\ k \in T
  <2>1. T \subseteq 1..Len(raws) /\ 1..Len(raws) \subseteq Nat
    OBVIOUS
  <2> QED BY <2>1
<1>2. PICK i \in T : \A j \in T : ~(j < i)
  BY <1>1, LeastOf
<1>3. i \in 1..Len(raws) /\ Usable(raws[i]) /\ raws[i].name = raws[k].name
  OBVIOUS
<1>4. ASSUME NEW j \in 1..(i - 1), Usable(raws[j]) PROVE raws[j].name # raws[i].name
  <2>1. j \in 1..Len(raws) /\ j < i
    BY <1>3
  <2> QED BY <1>2, <1>3, <1>4, <2>1
<1> QED BY <1>3, <1>4 DEF FirstMentions

\* A rank counts earlier first mentions, of which there is at least one less.
LEMMA RankBelow ==
  ASSUME NEW raws \in Seq(Raws), NEW i \in FirstMentions(raws)
  PROVE  Rank(raws, i) \in Nat /\ Rank(raws, i) < Cardinality(FirstMentions(raws))
<1> DEFINE before == {j \in FirstMentions(raws) : j < i}
<1>1. /\ FirstMentions(raws) \subseteq 1..Len(raws)
      /\ IsFiniteSet(FirstMentions(raws)) /\ Cardinality(FirstMentions(raws)) \in Nat
  BY MentionsFinite
<1>2. before \in SUBSET FirstMentions(raws) /\ before # FirstMentions(raws)
  BY <1>1
<1>3. Rank(raws, i) = Cardinality(before)
  BY DEF Rank
<1> HIDE DEF before
<1>4. /\ IsFiniteSet(before) /\ Cardinality(before) <= Cardinality(FirstMentions(raws))
      /\ Cardinality(before) # Cardinality(FirstMentions(raws))
  BY <1>1, <1>2, FS_Subset
<1>5. Cardinality(before) \in Nat
  BY <1>4, FS_CardinalityType
<1> QED BY <1>1, <1>3, <1>4, <1>5

\* One more value adds a first mention when it is new, and keeps the ranks.
LEMMA OneMore ==
  ASSUME NEW raws \in Seq(Raws), NEW r \in Raws
  PROVE  LET all == Append(raws, r)
             last == Len(raws) + 1
         IN /\ all \in Seq(Raws) /\ last \notin FirstMentions(raws)
            /\ FirstMentions(all) = FirstMentions(raws) \union (IF New(raws, r) THEN {last} ELSE {})
            /\ \A i \in FirstMentions(raws) : Rank(all, i) = Rank(raws, i) /\ all[i] = raws[i]
            /\ New(raws, r) => Rank(all, last) = Cardinality(FirstMentions(raws)) /\ all[last] = r
<1> DEFINE all == Append(raws, r)
           last == Len(raws) + 1
           first == FirstMentions(raws)
<1>1. /\ all \in Seq(Raws) /\ Len(all) = last /\ all[last] = r /\ last \in Nat
      /\ \A i \in 1..Len(raws) : all[i] = raws[i]
  OBVIOUS
<1>2. DOMAIN all = 1..last /\ DOMAIN raws = 1..Len(raws) /\ Len(raws) \in Nat
  BY <1>1
<1> HIDE DEF all
<1>3. first \subseteq 1..Len(raws) /\ last \notin first
  BY <1>2, MentionsFinite
<1>4. ASSUME NEW i \in 1..Len(raws) PROVE i \in FirstMentions(all) <=> i \in first
  <2>1. i \in 1..last /\ \A j \in 1..(i - 1) : j \in 1..Len(raws)
    BY <1>2
  <2> QED BY <1>1, <1>2, <2>1 DEF FirstMentions
<1>5. last \in FirstMentions(all) <=> New(raws, r)
  <2>1. last \in 1..last /\ last - 1 = Len(raws)
    BY <1>2
  <2>2. last \in FirstMentions(all)
          <=> Usable(all[last]) /\ \A j \in 1..(last - 1) : Usable(all[j]) => all[j].name # all[last].name
    BY <1>2, <2>1 DEF FirstMentions
  <2>3. last \in FirstMentions(all)
          <=> Usable(r) /\ \A j \in 1..Len(raws) : Usable(raws[j]) => raws[j].name # r.name
    BY <1>1, <2>1, <2>2
  <2> QED BY <2>3 DEF New
<1>6. FirstMentions(all) = first \union (IF New(raws, r) THEN {last} ELSE {})
  <2>1. FirstMentions(all) \subseteq 1..last
    BY <1>2 DEF FirstMentions
  <2>2. \A i \in 1..last : i \in 1..Len(raws) \/ i = last
    BY <1>2
  <2> QED BY <1>3, <1>4, <1>5, <2>1, <2>2
<1>7. ASSUME NEW i \in first PROVE Rank(all, i) = Rank(raws, i) /\ all[i] = raws[i]
  <2>1. {j \in FirstMentions(all) : j < i} = {j \in first : j < i}
    BY <1>2, <1>3, <1>6
  <2>2. Rank(all, i) = Rank(raws, i)
    BY <2>1 DEF Rank
  <2> QED BY <1>1, <1>3, <2>2
<1>8. Rank(all, last) = Cardinality(first)
  <2>1. {j \in FirstMentions(all) : j < last} = first
    BY <1>2, <1>3, <1>6
  <2> QED BY <2>1 DEF Rank
<1> HIDE DEF first
<1>9. /\ all \in Seq(Raws) /\ last \notin first
      /\ FirstMentions(all) = first \union (IF New(raws, r) THEN {last} ELSE {})
      /\ \A i \in first : Rank(all, i) = Rank(raws, i) /\ all[i] = raws[i]
      /\ New(raws, r) => Rank(all, last) = Cardinality(first) /\ all[last] = r
  BY <1>1, <1>3, <1>6, <1>7, <1>8
<1> QED BY <1>9 DEF first, all

\* The collector keeps to the first names, one value at a time.
LEMMA AddsFirsts ==
  ASSUME NEW names, NEW raws, Firsts(names, raws), NEW r \in Raws
  PROVE  Firsts(Adds(names, r, Wanted), Append(raws, r))
<1> DEFINE all == Append(raws, r)
           last == Len(raws) + 1
           first == FirstMentions(raws)
           card == Cardinality(first)
           rank(i) == Rank(raws, i)
<1>1. /\ names \in Seq(Hostnames) /\ raws \in Seq(Raws)
      /\ Len(names) = IF card < Wanted THEN card ELSE Wanted
      /\ \A i \in first : rank(i) < Len(names) => names[rank(i) + 1] = raws[i].name
      /\ \A n \in 1..Len(names) : \E i \in first : rank(i) = n - 1
  BY DEF Firsts
<1>2. /\ first \subseteq 1..Len(raws) /\ IsFiniteSet(first) /\ card \in Nat /\ Wanted \in Nat
      /\ \A i \in first : rank(i) \in Nat /\ rank(i) < card
  BY <1>1, MentionsFinite, RankBelow, SourcesAssumption
<1>3. /\ all \in Seq(Raws) /\ last \notin first
      /\ FirstMentions(all) = first \union (IF New(raws, r) THEN {last} ELSE {})
      /\ \A i \in first : Rank(all, i) = rank(i) /\ all[i] = raws[i]
      /\ New(raws, r) => Rank(all, last) = card /\ all[last] = r
  BY <1>1, OneMore
<1>4. r.name \in Hostnames
  BY DEF Raws
<1>5. CASE ~New(raws, r)
  <2>1. Adds(names, r, Wanted) = names
    <3>1. CASE ~Usable(r)
      BY <3>1 DEF Adds
    <3>2. CASE Full(names, Wanted)
      BY <3>2 DEF Adds
    <3>3. CASE Usable(r) /\ ~Full(names, Wanted)
      <4>1. Len(names) = card
        BY <1>1, <1>2, <3>3 DEF Full
      <4>2. PICK j \in 1..Len(raws) : Usable(raws[j]) /\ raws[j].name = r.name
        BY <1>5, <3>3 DEF New
      <4>3. PICK i \in first : raws[i].name = raws[j].name
        BY <1>1, <4>2, FirstMentionOf
      <4>4. rank(i) + 1 \in 1..Len(names) /\ names[rank(i) + 1] = r.name
        BY <1>1, <1>2, <4>1, <4>2, <4>3
      <4>5. Contains(names, Sanitized(r))
        BY <4>4 DEF Contains, Sanitized
      <4> QED BY <4>5 DEF Adds
    <3> QED BY <3>1, <3>2, <3>3
  <2>2. FirstMentions(all) = first
    BY <1>3, <1>5
  <2> HIDE DEF first, all
  <2>3. Firsts(names, all)
    BY <1>1, <1>3, <2>2 DEF Firsts
  <2> QED BY <2>1, <2>3 DEF all
<1>6. CASE New(raws, r)
  <2>1. Rank(all, last) = card /\ all[last] = r /\ FirstMentions(all) = first \union {last}
    BY <1>3, <1>6
  <2>2. Cardinality(FirstMentions(all)) = card + 1
    BY <1>2, <1>3, <2>1, FS_AddElement
  <2> HIDE DEF first, all, last, rank, card
  <2>3. CASE Full(names, Wanted)
    <3>1. Adds(names, r, Wanted) = names
      BY <2>3 DEF Adds
    <3>2. Len(names) = Wanted /\ ~(card < Wanted)
      BY <1>1, <1>2, <2>3 DEF Full
    <3>3. ASSUME NEW i \in FirstMentions(all), Rank(all, i) < Len(names)
          PROVE  names[Rank(all, i) + 1] = all[i].name
      <4>1. i \in first
        BY <1>2, <2>1, <3>2, <3>3
      <4> QED BY <1>1, <1>3, <3>3, <4>1
    <3>4. \A n \in 1..Len(names) : \E i \in FirstMentions(all) : Rank(all, i) = n - 1
      BY <1>1, <1>3, <2>1
    <3>5. Len(names) = IF card + 1 < Wanted THEN card + 1 ELSE Wanted
      BY <1>2, <3>2
    <3>6. Firsts(names, all)
      BY <1>1, <1>3, <2>2, <3>3, <3>4, <3>5 DEF Firsts
    <3> QED BY <3>1, <3>6 DEF all
  <2>4. CASE ~Full(names, Wanted)
    <3> DEFINE longer == Append(names, r.name)
    <3>1. Len(names) = card /\ card < Wanted
      BY <1>1, <1>2, <2>4 DEF Full
    <3>2. ~Contains(names, Sanitized(r))
      <4>1. SUFFICES ASSUME NEW n \in 1..Len(names), names[n] = r.name PROVE FALSE
        BY DEF Contains, Sanitized
      <4>2. PICK i \in first : rank(i) = n - 1
        BY <1>1
      <4>3. names[n] = raws[i].name
        BY <1>1, <1>2, <3>1, <4>2
      <4>4. i \in 1..Len(raws) /\ Usable(raws[i])
        BY <1>2 DEF FirstMentions, first
      <4> QED BY <1>6, <4>1, <4>3, <4>4 DEF New
    <3>3. Adds(names, r, Wanted) = longer
      BY <1>6, <2>4, <3>2 DEF Adds, New, Sanitized
    <3>4. /\ longer \in Seq(Hostnames) /\ Len(longer) = card + 1 /\ longer[card + 1] = r.name
          /\ \A n \in 1..card : longer[n] = names[n]
      BY <1>1, <1>4, <3>1
    <3> HIDE DEF longer
    <3>5. ASSUME NEW i \in FirstMentions(all), Rank(all, i) < Len(longer)
          PROVE  longer[Rank(all, i) + 1] = all[i].name
      <4>1. CASE i = last
        BY <2>1, <3>4, <4>1
      <4>2. CASE i \in first
        <5>1. rank(i) + 1 \in 1..card /\ names[rank(i) + 1] = raws[i].name
          BY <1>1, <1>2, <3>1, <4>2
        <5> QED BY <1>3, <3>4, <4>2, <5>1
      <4> QED BY <2>1, <4>1, <4>2
    <3>6. ASSUME NEW n \in 1..Len(longer)
          PROVE  \E i \in FirstMentions(all) : Rank(all, i) = n - 1
      <4>1. CASE n = card + 1
        BY <1>2, <2>1, <4>1
      <4>2. CASE n \in 1..Len(names)
        BY <1>1, <1>3, <2>1, <4>2
      <4> QED BY <1>2, <3>1, <3>4, <4>1, <4>2
    <3>7. Len(longer) = IF card + 1 < Wanted THEN card + 1 ELSE Wanted
      BY <1>2, <3>1, <3>4
    <3>8. Firsts(longer, all)
      BY <1>3, <2>2, <3>4, <3>5, <3>6, <3>7 DEF Firsts
    <3> QED BY <3>3, <3>8 DEF all
  <2> QED BY <2>3, <2>4
<1> QED BY <1>5, <1>6

\* So it does with a whole answer.
LEMMA CollectFirsts ==
  ASSUME NEW names, NEW raws, Firsts(names, raws), NEW answer \in Seq(Raws)
  PROVE  Firsts(Collect(names, answer, Wanted), raws \o answer)
<1>1. names \in Seq(Hostnames) /\ raws \in Seq(Raws)
  BY DEF Firsts
<1>2. PICK after : Collecting(after, names, answer, Wanted)
  BY <1>1, CollectIs
<1>3. /\ after[0] = names
      /\ \A i \in 1..Len(answer) : after[i] = Adds(after[i - 1], answer[i], Wanted)
      /\ Collect(names, answer, Wanted) = after[Len(answer)]
  BY <1>2 DEF Collecting
<1> DEFINE upto(n) == raws \o SubSeq(answer, 1, n)
           S == {n \in Nat : n <= Len(answer) => Firsts(after[n], upto(n))}
<1>4. 0 \in S
  <2>1. upto(0) = raws
    BY <1>1
  <2> QED BY <1>3, <2>1
<1>5. ASSUME NEW n \in Nat, n \in S
      PROVE  n + 1 \in S
  <2> SUFFICES ASSUME n + 1 <= Len(answer) PROVE Firsts(after[n + 1], upto(n + 1))
    OBVIOUS
  <2>1. after[n + 1] = Adds(after[n], answer[n + 1], Wanted)
    BY <1>3
  <2>2. answer[n + 1] \in Raws /\ Len(answer) \in Nat
    OBVIOUS
  <2>3. Firsts(after[n], upto(n))
    BY <1>5, <2>2
  <2>4. upto(n + 1) = Append(upto(n), answer[n + 1])
    BY <1>1
  <2> HIDE DEF upto
  <2> QED BY <2>1, <2>2, <2>3, <2>4, AddsFirsts
<1>6. Nat \subseteq S
  <2> HIDE DEF S
  <2> QED BY <1>4, <1>5, Naturals
<1>7. Firsts(after[Len(answer)], upto(Len(answer)))
  BY <1>6
<1>8. upto(Len(answer)) = raws \o answer
  BY <1>1
<1> QED BY <1>3, <1>7, <1>8

\* The lesser of two, and the greater.
LEMMA MinTwo ==
  ASSUME NEW a \in Int, NEW b \in Int
  PROVE  Min({a, b}) = IF a <= b THEN a ELSE b
BY DEF Min

LEMMA MaxTwo ==
  ASSUME NEW a \in Int, NEW b \in Int
  PROVE  Max({a, b}) = IF a <= b THEN b ELSE a
BY DEF Max

\* What the collector keeps to is what the property asks for.
LEMMA FirstsAre ==
  ASSUME NEW names, NEW raws, Firsts(names, raws)
  PROVE  names = FirstNames(raws)
<1> DEFINE first == FirstMentions(raws)
           card == Cardinality(first)
           chosen(n) == CHOOSE i \in first : Rank(raws, i) = n - 1
<1>1. /\ names \in Seq(Hostnames) /\ raws \in Seq(Raws)
      /\ Len(names) = IF card < Wanted THEN card ELSE Wanted
      /\ \A i \in first : Rank(raws, i) < Len(names) => names[Rank(raws, i) + 1] = raws[i].name
      /\ \A n \in 1..Len(names) : \E i \in first : Rank(raws, i) = n - 1
  BY DEF Firsts
<1>2. card \in Nat /\ Wanted \in Nat
  BY <1>1, MentionsFinite, SourcesAssumption
<1>3. Min({Wanted, card}) = Len(names)
  BY <1>1, <1>2, MinTwo
<1>4. ASSUME NEW n \in 1..Len(names) PROVE names[n] = raws[chosen(n)].name
  <2>1. chosen(n) \in first /\ Rank(raws, chosen(n)) = n - 1
    BY <1>1
  <2> HIDE DEF chosen
  <2>2. n - 1 < Len(names) /\ (n - 1) + 1 = n
    BY <1>1
  <2> QED BY <1>1, <2>1, <2>2
<1>5. FirstNames(raws) = [n \in 1..Len(names) |-> raws[chosen(n)].name]
  BY <1>3 DEF FirstNames
<1> HIDE DEF chosen
<1>6. names = [n \in 1..Len(names) |-> names[n]]
  BY <1>1
<1> QED BY <1>4, <1>5, <1>6

LEMMA NoNames == Firsts(<<>>, <<>>)
<1> SUFFICES ASSUME NEW none, none = <<>> PROVE Firsts(none, none)
  OBVIOUS
<1>1. none \in Seq(Hostnames) /\ none \in Seq(Raws) /\ Len(none) = 0
  OBVIOUS
<1>2. FirstMentions(none) = {}
  BY <1>1 DEF FirstMentions
<1>3. Cardinality(FirstMentions(none)) = 0 /\ Wanted \in Nat \ {0}
  BY <1>2, FS_EmptySet, SourcesAssumption
<1>4. Len(none) = IF Cardinality(FirstMentions(none)) < Wanted
                  THEN Cardinality(FirstMentions(none)) ELSE Wanted
  BY <1>1, <1>3
<1>5. \A n : n \notin 1..Len(none)
  BY <1>1
<1> QED BY <1>1, <1>2, <1>4, <1>5, Zenon DEF Firsts

-----------------------------------------------------------------------------
(* The sources but the CT logs.                                            *)

\* The items of an answer, and the raw values in them.
LEMMA AnswerType ==
  ASSUME NEW most \in Int, NEW parts \in Answers(most)
  PROVE  \E n \in 0..most : /\ parts \in [1..n -> Seq(Raws)] /\ Len(parts) = n
                            /\ Flat(parts) \in Seq(Raws)
<1>1. PICK n \in 0..most : parts \in [1..n -> AnswerItems]
  BY DEF Answers
<1>2. parts \in [1..n -> Seq(Raws)]
  BY <1>1, ItemsAssumption
<1> QED BY <1>1, <1>2, FlatType

LEMMA HearsFirsts ==
  ASSUME Firsts(got, heard), NEW raws \in Seq(Raws), Hears(raws)
  PROVE  Firsts(got', heard') /\ source' = source /\ pages' = pages + 1
BY CollectFirsts DEF Hears

\* An answer cut to the records taken, and one without infrastructure.
LEMMA SomeRecords ==
  ASSUME NEW rows \in Answers(MaxItems)
  PROVE  Flat(SubSeq(rows, 1, Min({Len(rows), MaxRecords}))) \in Seq(Raws)
<1>1. PICK n \in 0..MaxItems : rows \in [1..n -> Seq(Raws)] /\ Len(rows) = n
  <2>1. MaxItems \in Int
    BY SourcesAssumption
  <2> QED BY <2>1, AnswerType
<1>2. n \in Nat /\ MaxRecords \in Nat
  BY SourcesAssumption
<1>3. Min({Len(rows), MaxRecords}) \in 0..n
  <2>1. Min({n, MaxRecords}) \in 0..n
    BY <1>2, MinTwo
  <2> QED BY <1>1, <2>1
<1>4. ASSUME NEW m \in 0..n PROVE Flat(SubSeq(rows, 1, m)) \in Seq(Raws)
  <2>1. rows \in Seq(Seq(Raws))
    BY <1>1
  <2>2. SubSeq(rows, 1, m) = [i \in 1..m |-> rows[i]]
    BY <1>1, <1>2, <2>1
  <2>3. \A i \in 1..m : rows[i] \in Seq(Raws)
    BY <1>1, <1>2
  <2>4. [i \in 1..m |-> rows[i]] \in [1..m -> Seq(Raws)]
    BY <2>3
  <2> DEFINE f == [i \in 1..m |-> rows[i]]
  <2>5. m \in Nat
    BY <1>2
  <2> HIDE DEF f
  <2>6. Flat(f) \in Seq(Raws)
    BY <2>4, <2>5, FlatType DEF f
  <2> QED BY <2>2, <2>6 DEF f
<1> QED BY <1>3, <1>4

LEMMA CandidatesType ==
  ASSUME NEW raws \in Seq(Raws)
  PROVE  Candidates(raws) \in Seq(Raws)
<1>1. ASSUME NEW r \in Raws PROVE Candidate(r) \in Raws
  BY DEF Candidate, Raws
<1>2. \A i \in 1..Len(raws) : Candidate(raws[i]) \in Raws
  BY <1>1
<1> QED BY <1>2 DEF Candidates

LEMMA StreamInit == SourcesInit => StreamInv
BY NoNames, SourcesAssumption DEF SourcesInit, StreamInv

LEMMA StreamStep ==
  ASSUME StreamInv, source # "ct" => log = NoLog, [SourcesNext]_sourcesVars
  PROVE  StreamInv'
<1> DEFINE Good == /\ Firsts(got', heard') /\ source' = source /\ pages' \in Nat
                   /\ phase' = "returned" /\ Len(got') < Wanted => ~more' \/ pages' = MaxPages
                   /\ source \in {"github", "mcp"} /\ phase' = "running" => pages' < MaxPages
<1>1. ASSUME source \notin {"ct", "registry"}
      PROVE  /\ Firsts(got, heard) /\ pages \in Nat
             /\ source \in {"github", "mcp"} /\ phase = "running" => pages < MaxPages
             /\ phase = "returned" /\ Len(got) < Wanted => ~more \/ pages = MaxPages
  BY <1>1 DEF StreamInv
<1>2. MaxPages \in Nat /\ MaxItems \in Nat /\ Wanted \in Nat /\ PerPage \in Nat
  BY SourcesAssumption
<1> SUFFICES ASSUME source \notin {"ct", "registry"} PROVE Good
  <2>1. source' = source
    BY DEF SourcesNext, sourcesVars, Hears, CrtshQuery, CuratedFetch, GitHubPage, MCPPage, TrancoRow,
           CommonCrawlRow, StreamEnds, ResolveLogs, OpenLog, ReadEntries, CloseLog, RegistryPage,
           RegistryNotImplemented, RequestFails, SeedHost
  <2> QED BY <2>1 DEF StreamInv
<1>3. Firsts(got, heard) /\ pages \in Nat
  BY <1>1
<1>4. Len(got') \in Nat \/ ~Firsts(got', heard')
  BY DEF Firsts
<1>5. CASE CrtshQuery
  <2>1. PICK rows \in Answers(MaxItems) : Hears(Flat(SubSeq(rows, 1, Min({Len(rows), MaxRecords}))))
    BY <1>5 DEF CrtshQuery
  <2>2. Firsts(got', heard') /\ source' = source /\ pages' = pages + 1
    BY <1>3, <2>1, SomeRecords, HearsFirsts
  <2>3. phase' = IF ~Full(got', Wanted) /\ more' THEN "running" ELSE "returned"
    BY <1>5 DEF CrtshQuery, GoesOn
  <2>4. source \notin {"github", "mcp"}
    BY <1>5 DEF CrtshQuery
  <2> QED BY <1>2, <1>3, <1>4, <2>2, <2>3, <2>4 DEF Full
<1>6. CASE CuratedFetch
  <2>1. PICK urls \in Answers(MaxItems) : Hears(Candidates(Flat(urls)))
    BY <1>6 DEF CuratedFetch
  <2>2. Candidates(Flat(urls)) \in Seq(Raws)
    BY <1>2, AnswerType, CandidatesType
  <2>3. Firsts(got', heard') /\ source' = source /\ pages' = pages + 1
    BY <1>3, <2>1, <2>2, HearsFirsts
  <2>4. phase' = IF ~Full(got', Wanted) /\ more' THEN "running" ELSE "returned"
    BY <1>6 DEF CuratedFetch, GoesOn
  <2>5. source \notin {"github", "mcp"}
    BY <1>6 DEF CuratedFetch
  <2> QED BY <1>2, <1>3, <1>4, <2>3, <2>4, <2>5 DEF Full
<1>7. CASE GitHubPage
  <2>1. PICK parts \in Answers(PerPage) :
          /\ Hears(Flat(parts))
          /\ GoesOn(~Full(got', Wanted) /\ ~ShortPage(parts) /\ pages' < MaxPages)
          /\ more' \in IF Len(parts) < PerPage THEN {FALSE} ELSE BOOLEAN
    BY <1>7 DEF GitHubPage
  <2>2. Flat(parts) \in Seq(Raws)
    BY <1>2, AnswerType
  <2>3. Firsts(got', heard') /\ source' = source /\ pages' = pages + 1
    BY <1>3, <2>1, <2>2, HearsFirsts
  <2>4. pages < MaxPages
    BY <1>1, <1>7 DEF GitHubPage
  <2>5. ShortPage(parts) => ~more'
    BY <2>1 DEF ShortPage
  <2>6. phase' = IF ~Full(got', Wanted) /\ ~ShortPage(parts) /\ pages' < MaxPages
                 THEN "running" ELSE "returned"
    BY <2>1 DEF GoesOn
  <2> QED BY <1>2, <1>3, <1>4, <2>3, <2>4, <2>5, <2>6 DEF Full
<1>8. CASE MCPPage
  <2>1. PICK servers \in Answers(MaxItems), next \in Tokens \union {NoToken} :
          /\ Hears(Flat(servers))
          /\ GoesOn(~Full(got', Wanted) /\ more' /\ pages' < MaxPages)
    BY <1>8 DEF MCPPage
  <2>2. Flat(servers) \in Seq(Raws)
    BY <1>2, AnswerType
  <2>3. Firsts(got', heard') /\ source' = source /\ pages' = pages + 1
    BY <1>3, <2>1, <2>2, HearsFirsts
  <2>4. pages < MaxPages
    BY <1>1, <1>8 DEF MCPPage
  <2>5. phase' = IF ~Full(got', Wanted) /\ more' /\ pages' < MaxPages THEN "running" ELSE "returned"
    BY <2>1 DEF GoesOn
  <2> QED BY <1>2, <1>3, <1>4, <2>3, <2>4, <2>5 DEF Full
<1>9. CASE TrancoRow
  <2>1. PICK row \in AnswerItems : Hears(row)
    BY <1>9 DEF TrancoRow
  <2>2. Firsts(got', heard') /\ source' = source /\ pages' = pages + 1
    BY <1>3, <2>1, ItemsAssumption, HearsFirsts
  <2>3. phase' = IF ~Full(got', Wanted) THEN "running" ELSE "returned"
    BY <1>9 DEF TrancoRow, GoesOn
  <2>4. source \notin {"github", "mcp"}
    BY <1>9 DEF TrancoRow
  <2> QED BY <1>2, <1>3, <1>4, <2>2, <2>3, <2>4 DEF Full
<1>10. CASE CommonCrawlRow
  <2>1. PICK row \in AnswerItems : Hears(IF pages < Offset THEN <<>> ELSE row)
    BY <1>10 DEF CommonCrawlRow
  <2>2. (IF pages < Offset THEN <<>> ELSE row) \in Seq(Raws)
    BY ItemsAssumption
  <2>3. Firsts(got', heard') /\ source' = source /\ pages' = pages + 1
    BY <1>3, <2>1, <2>2, HearsFirsts
  <2>4. phase' = IF ~Full(got', Wanted) THEN "running" ELSE "returned"
    BY <1>10 DEF CommonCrawlRow, GoesOn
  <2>5. source \notin {"github", "mcp"}
    BY <1>10 DEF CommonCrawlRow
  <2> QED BY <1>2, <1>3, <1>4, <2>3, <2>4, <2>5 DEF Full
<1>11. CASE StreamEnds
  BY <1>1, <1>11 DEF StreamEnds
<1>12. CASE RequestFails
  BY <1>1, <1>12 DEF RequestFails
<1>13. CASE SeedHost
  BY <1>1, <1>13 DEF SeedHost
<1>14. CASE UNCHANGED sourcesVars
  BY <1>1, <1>14 DEF sourcesVars
<1>15. ~(ResolveLogs \/ OpenLog \/ ReadEntries \/ CloseLog \/ RegistryPage \/ RegistryNotImplemented)
  BY DEF ResolveLogs, OpenLog, ReadEntries, CloseLog, RegistryPage, RegistryNotImplemented
<1> QED BY <1>5, <1>6, <1>7, <1>8, <1>9, <1>10, <1>11, <1>12, <1>13, <1>14, <1>15 DEF SourcesNext

-----------------------------------------------------------------------------
(* The CT logs.                                                            *)

\* A window ends where it is put, and begins no earlier than the log does.
LEMMA WindowIs ==
  ASSUME NEW l \in LogRecord, NEW last \in Int
  PROVE  LET w == Window(l, last)
             first == IF last - l.window + 1 <= 0 THEN 0 ELSE last - l.window + 1
         IN /\ w \in LogRecord /\ w.end = last /\ w.start = first /\ w.cursor = first
            /\ w.window = l.window /\ w.size = l.size /\ w.most = l.most
            /\ w.fetched = l.fetched /\ w.names = l.names /\ w.read = l.read
<1> DEFINE first == IF last - l.window + 1 <= 0 THEN 0 ELSE last - l.window + 1
<1>1. Max({0, last - l.window + 1}) = first /\ first \in Nat
  BY MaxTwo DEF LogRecord
<1> HIDE DEF first
<1>2. Window(l, last) = [l EXCEPT !.end = last, !.start = first, !.cursor = first]
  BY <1>1 DEF Window
<1> QED BY <1>1, <1>2 DEF LogRecord, first

\* Opening a log: its last window, nothing read.
LEMMA OpenLogStep ==
  ASSUME LogInv, OpenLog
  PROVE  LogInv'
<1>1. /\ Wanted \in Nat /\ Overfetch \in Nat /\ TreeSizes \subseteq Int
      /\ got \in Seq(Hostnames) /\ Len(got) < Wanted
  BY SourcesAssumption DEF OpenLog, LogInv, Full
<1>2. /\ requests' = 0 /\ got' = got /\ source' = source /\ source = "ct" /\ log = NoLog
  BY DEF OpenLog
<1> DEFINE w == Wanted - Len(got)
           opened(size) == [window |-> w, size |-> size, most |-> Min({w * Overfetch, size}),
                            fetched |-> 0, names |-> <<>>, read |-> {}, start |-> 0, end |-> 0,
                            cursor |-> 0]
<1>3. CASE log' = log
  BY <1>1, <1>2, <1>3 DEF LogInv
<1>4. ASSUME NEW size \in TreeSizes, ~(size <= 0), log' = Window(opened(size), size - 1)
      PROVE  LogInv'
  <2>1. w \in Nat \ {0} /\ size \in Nat \ {0}
    BY <1>1, <1>4
  <2>2. Min({w * Overfetch, size}) \in Nat
    <3>1. w * Overfetch \in Nat
      BY <1>1, <2>1
    <3> HIDE DEF w
    <3> QED BY <2>1, <3>1, MinTwo
  <2> DEFINE most == Min({w * Overfetch, size})
             l == opened(size)
  <2>3. l \in LogRecord /\ l.window = w /\ l.size = size /\ l.most = most /\ l.fetched = 0 /\ l.read = {}
    <3> HIDE DEF w, most
    <3>1. <<>> \in Seq(Hostnames)
      OBVIOUS
    <3> QED BY <2>1, <2>2, <3>1 DEF LogRecord, most
  <2> HIDE DEF l, most, w
  <2>4. /\ log' \in LogRecord /\ log'.end = size - 1
        /\ log'.start = IF (size - 1) - w + 1 <= 0 THEN 0 ELSE (size - 1) - w + 1
        /\ log'.cursor = log'.start
        /\ log'.window = w /\ log'.size = size /\ log'.most = most
        /\ log'.fetched = 0 /\ log'.read = {}
    <3>1. PICK o \in Int : o = size - 1 /\ log' = Window(l, o)
      BY <1>4, <2>1 DEF l
    <3>2. l \in LogRecord /\ l.window \in Nat
      BY <2>1, <2>3
    <3>3. /\ log' \in LogRecord /\ log'.end = o
          /\ log'.start = IF o - l.window + 1 <= 0 THEN 0 ELSE o - l.window + 1
          /\ log'.cursor = log'.start
          /\ log'.window = l.window /\ log'.size = l.size /\ log'.most = l.most
          /\ log'.fetched = l.fetched /\ log'.read = l.read
      <4>1. LET first == IF o - l.window + 1 <= 0 THEN 0 ELSE o - l.window + 1
                v == Window(l, o)
            IN /\ v \in LogRecord /\ v.end = o /\ v.start = first /\ v.cursor = first
               /\ v.window = l.window /\ v.size = l.size /\ v.most = l.most
               /\ v.fetched = l.fetched /\ v.read = l.read
        BY <3>2, WindowIs
      <4> QED BY <3>1, <4>1
    <3>4. o - l.window + 1 = (size - 1) - w + 1
      BY <2>3, <3>1
    <3> QED BY <2>3, <3>1, <3>3, <3>4
  <2>5. most \in Nat /\ IsFiniteSet({}) /\ Cardinality({}) = 0
    BY <2>2, FS_EmptySet DEF most
  <2>6. Reading(log', 0)
    BY <2>1, <2>4, <2>5 DEF Reading
  <2> QED BY <1>1, <1>2, <2>4, <2>6 DEF LogInv
<1>5. \/ log' = log
      \/ \E size \in TreeSizes : ~(size <= 0) /\ log' = Window(opened(size), size - 1)
  BY DEF OpenLog
<1> QED BY <1>3, <1>4, <1>5

\* The next leaves of the window: as many as were answered, none of them read before.
LEMMA ReadEntriesStep ==
  ASSUME LogInv, ReadEntries
  PROVE  LogInv'
<1> DEFINE c == log.cursor   s == log.start   e == log.end   w == log.window
           f == log.fetched  most == log.most  size == log.size  read == log.read
           after(leaves) == [log EXCEPT !.names = Collect(@, Flat(leaves), log.window),
                                        !.read = @ \union {log.cursor + i - 1 : i \in DOMAIN leaves},
                                        !.fetched = @ + Len(leaves),
                                        !.cursor = @ + Len(leaves)]
<1>1. /\ log # NoLog /\ log \in LogRecord /\ Reading(log, requests)
      /\ got \in Seq(Hostnames) /\ requests \in Nat /\ source = "ct"
      /\ source' = source /\ got' = got /\ requests' = requests + 1
  BY DEF ReadEntries, LogInv
<1>2. PICK leaves \in Answers(Min({EntriesPerPage, e - c + 1})) :
        log' = IF WindowOver(after(leaves), leaves) THEN NextWindow(after(leaves)) ELSE after(leaves)
  BY DEF ReadEntries
<1> DEFINE n == Len(leaves)
           l == after(leaves)
           names == Collect(log.names, Flat(leaves), log.window)
           new == {c + i - 1 : i \in 1..n}
<1>3. /\ w \in Nat \ {0} /\ size \in Nat /\ most \in Nat /\ f \in Nat
      /\ s \in Nat /\ e \in Int /\ c \in Nat
      /\ read \in SUBSET Int /\ requests \in Nat
  BY <1>1 DEF LogRecord
<1>4. /\ s <= c /\ c <= e + 1 /\ e - s < w
      /\ c = e + 1 => e = -1
      /\ f < most + w
      /\ c > s => f - (c - s) < most
      /\ requests + s + (e - c + 1) <= size
      /\ c = s => e >= 0 /\ f < most
  BY <1>1 DEF Reading, ReadEntries, BetweenWindows, WindowWanted
<1>5. /\ IsFiniteSet(read) /\ f = Cardinality(read)
      /\ \A x \in read : x >= s /\ x \notin c..e
  BY <1>1 DEF Reading
<1>6. /\ names \in Seq(Hostnames) /\ n \in Nat /\ n <= e - c + 1
      /\ DOMAIN leaves = 1..n /\ (leaves = <<>> <=> n = 0)
  <2> DEFINE limit == Min({EntriesPerPage, e - c + 1})
  <2>1. leaves \in Answers(limit)
    OBVIOUS
  <2> HIDE DEF c, e
  <2>2. e - c + 1 \in Int /\ EntriesPerPage \in Int
    BY <1>3, SourcesAssumption
  <2>3. limit \in Int /\ limit <= e - c + 1
    BY <2>2, MinTwo
  <2> HIDE DEF limit
  <2>4. PICK k \in 0..limit : leaves \in [1..k -> Seq(Raws)] /\ Len(leaves) = k /\ Flat(leaves) \in Seq(Raws)
    BY <2>1, <2>3, AnswerType
  <2>5. log.names \in Seq(Hostnames)
    BY <1>1 DEF LogRecord
  <2>6. names \in Seq(Hostnames)
    BY <2>4, <2>5, CollectType
  <2>7. k \in Nat /\ k <= e - c + 1
    BY <2>2, <2>3
  <2> QED BY <2>4, <2>6, <2>7
<1>7. l = [log EXCEPT !.names = names, !.read = read \union new, !.fetched = f + n, !.cursor = c + n]
  BY <1>1, <1>6
<1>8. log' = IF WindowOver(l, leaves) THEN NextWindow(l) ELSE l
  BY <1>2
<1> HIDE DEF n, names, l
<1>9. /\ l.window = w /\ l.size = size /\ l.most = most /\ l.start = s /\ l.end = e
      /\ l.read = read \union new /\ l.fetched = f + n /\ l.cursor = c + n
  <2> DEFINE both == read \union new   k == f + n   d == c + n
  <2>1. l = [log EXCEPT !.names = names, !.read = both, !.fetched = k, !.cursor = d]
    BY <1>7
  <2> HIDE DEF both, k, d
  <2>2. /\ l.window = log.window /\ l.size = log.size /\ l.most = log.most
        /\ l.start = log.start /\ l.end = log.end
        /\ l.read = both /\ l.fetched = k /\ l.cursor = d
    BY <1>1, <2>1 DEF LogRecord
  <2> QED BY <2>2 DEF both, k, d
<1>10. ASSUME read \union new \in SUBSET Int PROVE l \in LogRecord
  <2> HIDE DEF new, c, s, e, w, f, most, size, read
  <2>1. f + n \in Nat /\ c + n \in Nat
    BY <1>3, <1>6
  <2> QED BY <1>1, <1>6, <1>7, <1>10, <2>1 DEF LogRecord
<1> HIDE DEF c, s, e, w, f, most, size, read
<1>11. e - c + 1 \in Nat \ {0}
  BY <1>3, <1>4
<1>12. new = c..(c + n - 1)
  <2>1. \A x \in new : x \in c..(c + n - 1)
    BY <1>3, <1>6
  <2>2. ASSUME NEW x \in c..(c + n - 1) PROVE x \in new
    <3>1. x - c + 1 \in 1..n /\ x = c + (x - c + 1) - 1
      BY <1>3, <1>6
    <3> QED BY <3>1
  <2> HIDE DEF new
  <2> QED BY <2>1, <2>2
<1> HIDE DEF new
<1>13. IsFiniteSet(new) /\ Cardinality(new) = n
  <2>1. c \in Int /\ c + n - 1 \in Int /\ (IF c > c + n - 1 THEN 0 ELSE (c + n - 1) - c + 1) = n
    BY <1>3, <1>6
  <2> QED BY <1>12, <2>1, FS_Interval
<1>14. /\ \A x \in new : x \in Int /\ x \in c..e
       /\ \A x \in read \union new : x \in Int /\ x >= s /\ x \notin (c + n)..e
  BY <1>3, <1>4, <1>5, <1>6, <1>12
<1>15. IsFiniteSet(read \union new) /\ Cardinality(read \union new) = f + n
  <2>1. read \intersect new = {}
    BY <1>5, <1>14
  <2>2. Cardinality(read \intersect new) = 0
    BY <2>1, FS_EmptySet
  <2>3. Cardinality(read \union new) = f + n - 0
    BY <1>5, <1>13, <2>2, FS_Union
  <2>4. IsFiniteSet(read \union new)
    BY <1>5, <1>13, FS_Union
  <2>5. f + n - 0 = f + n
    BY <1>3, <1>6
  <2> QED BY <2>3, <2>4, <2>5
<1>16. l \in LogRecord
  BY <1>10, <1>14
<1>17. f + n < most + w
  BY <1>3, <1>4, <1>6
<1>18. CASE ~WindowOver(l, leaves)
  <2>1. n > 0 /\ c + n <= e /\ log' = l
    <3>1. n # 0 /\ ~(c + n > e)
      BY <1>6, <1>8, <1>9, <1>18 DEF WindowOver
    <3> QED BY <1>3, <1>6, <1>8, <1>18, <3>1
  <2>2. /\ c + n > s => (f + n) - ((c + n) - s) < most
        /\ (requests + 1) + s + (e - (c + n) + 1) <= size
        /\ s <= c + n /\ c + n <= e + 1 /\ c + n # e + 1
    BY <1>3, <1>4, <1>6, <2>1
  <2>3. Reading(l, requests + 1)
    BY <1>3, <1>4, <1>9, <1>14, <1>15, <1>17, <2>2 DEF Reading
  <2> QED BY <1>1, <1>3, <1>16, <2>1, <2>3 DEF LogInv
<1>19. CASE WindowOver(l, leaves)
  <2> DEFINE first == IF s - 1 - w + 1 <= 0 THEN 0 ELSE s - 1 - w + 1
  <2>1. /\ log' \in LogRecord /\ log'.end = s - 1 /\ log'.start = first /\ log'.cursor = first
        /\ log'.window = w /\ log'.size = size /\ log'.most = most
        /\ log'.fetched = f + n /\ log'.read = read \union new
    <3>1. log' = Window(l, s - 1) /\ s - 1 \in Int
      BY <1>3, <1>8, <1>9, <1>19 DEF NextWindow
    <3> QED BY <1>9, <1>16, <3>1, WindowIs
  <2>2. /\ first \in Nat /\ first <= s /\ (s - 1) - first < w
        /\ first = (s - 1) + 1 => s - 1 = -1
        /\ (requests + 1) + first + ((s - 1) - first + 1) <= size
    BY <1>3, <1>4, <1>11
  <2>3. \A x \in read \union new : x >= first /\ x \notin first..(s - 1)
    BY <1>3, <1>14, <2>2
  <2> HIDE DEF first
  <2>4. first <= (s - 1) + 1 /\ ~(first > first)
    BY <1>3, <2>2
  <2>5. Reading(log', requests + 1)
    BY <1>15, <1>17, <2>1, <2>2, <2>3, <2>4 DEF Reading
  <2> QED BY <1>1, <1>3, <2>1, <2>5 DEF LogInv
<1> QED BY <1>18, <1>19

\* What the log yielded reaches the collector, and the log is done with.
LEMMA CloseLogStep ==
  ASSUME LogInv, CloseLog
  PROVE  LogInv'
<1> DEFINE plain == [i \in DOMAIN log.names |-> [name |-> log.names[i], form |-> "plain"]]
<1>1. /\ got \in Seq(Hostnames) /\ log.names \in Seq(Hostnames) /\ requests \in Nat
      /\ got' = Collect(got, plain, Wanted) /\ log' = NoLog /\ requests' = requests
  BY DEF CloseLog, LogInv, LogRecord
<1>2. plain \in Seq(Raws)
  <2>1. \A i \in 1..Len(log.names) : [name |-> log.names[i], form |-> "plain"] \in Raws
    BY <1>1 DEF Raws
  <2>2. DOMAIN log.names = 1..Len(log.names) /\ Len(log.names) \in Nat
    BY <1>1
  <2> QED BY <2>1, <2>2
<1>3. got' \in Seq(Hostnames)
  <2> HIDE DEF plain
  <2> QED BY <1>1, <1>2, CollectType
<1> QED BY <1>1, <1>3 DEF LogInv

LEMMA LogInit == SourcesInit => LogInv
<1>1. <<>> \in Seq(Hostnames)
  OBVIOUS
<1> QED BY <1>1 DEF SourcesInit, LogInv

LEMMA LogStep ==
  ASSUME StreamInv, LogInv, [SourcesNext]_sourcesVars, StreamInv'
  PROVE  LogInv'
<1>1. CASE UNCHANGED <<source, got, requests, log>>
  BY <1>1 DEF LogInv, Reading, LogRecord
<1>2. CASE source \notin {"ct", "registry"} /\ source' = source /\ UNCHANGED <<requests, log>>
  BY <1>2 DEF LogInv, StreamInv, Firsts
<1>3. CASE RegistryPage \/ RegistryNotImplemented
  BY <1>3 DEF RegistryPage, RegistryNotImplemented, LogInv
<1>4. CASE ~(\/ OpenLog \/ ReadEntries \/ CloseLog \/ RegistryPage \/ RegistryNotImplemented)
  <2>1. \/ UNCHANGED <<source, got, requests, log>>
        \/ source \notin {"ct", "registry"} /\ source' = source /\ UNCHANGED <<requests, log>>
    BY <1>4 DEF SourcesNext, sourcesVars, Hears, CrtshQuery, CuratedFetch, GitHubPage, MCPPage,
                TrancoRow, CommonCrawlRow, StreamEnds, ResolveLogs, RequestFails, SeedHost
  <2> QED BY <1>1, <1>2, <2>1
<1> QED BY <1>3, <1>4, OpenLogStep, ReadEntriesStep, CloseLogStep

-----------------------------------------------------------------------------
(* The registry.                                                           *)

LEMMA RegistryStep ==
  ASSUME LogInv, RegistryInv, [SourcesNext]_sourcesVars
  PROVE  RegistryInv'
<1>1. PageLimit \in Nat \ {0}
  BY SourcesAssumption
<1>2. source' = source
  BY DEF SourcesNext, sourcesVars, Hears, CrtshQuery, CuratedFetch, GitHubPage, MCPPage, TrancoRow,
         CommonCrawlRow, StreamEnds, ResolveLogs, OpenLog, ReadEntries, CloseLog, RegistryPage,
         RegistryNotImplemented, RequestFails, SeedHost
<1> SUFFICES ASSUME source = "registry" PROVE RegistryInv'
  BY <1>2 DEF RegistryInv
<1>3. /\ pages \in Nat /\ requests \in Nat /\ requests <= PageLimit + 1
      /\ phase = "running" => pages < PageLimit /\ requests <= pages + (IF federate THEN 0 ELSE 1)
  BY DEF RegistryInv, LogInv
<1>4. CASE RegistryPage
  <2>1. /\ phase = "running" /\ pages' = pages + 1 /\ requests' = requests + 1 /\ federate' = federate
        /\ phase' = "running" => pages + 1 < PageLimit
    BY <1>4 DEF RegistryPage, GoesOn
  <2> QED BY <1>1, <1>3, <2>1 DEF RegistryInv
<1>5. CASE RegistryNotImplemented
  <2>1. /\ phase = "running" /\ pages' = pages /\ requests' = requests + 1
        /\ IF federate THEN phase' = phase /\ federate' = FALSE ELSE phase' = "failed"
    BY <1>5 DEF RegistryNotImplemented, WithoutReferrals
  <2>2. CASE federate
    BY <1>1, <1>3, <2>1, <2>2 DEF RegistryInv
  <2>3. CASE ~federate
    BY <1>1, <1>3, <2>1, <2>3 DEF RegistryInv
  <2> QED BY <2>2, <2>3
<1>6. CASE UNCHANGED <<pages, requests, federate>> /\ (phase' = "running" => phase = "running")
  BY <1>3, <1>6 DEF RegistryInv
<1>7. \/ RegistryPage \/ RegistryNotImplemented
      \/ UNCHANGED <<pages, requests, federate>> /\ (phase' = "running" => phase = "running")
  BY DEF SourcesNext, sourcesVars, LogInv, CrtshQuery, CuratedFetch, GitHubPage, MCPPage, TrancoRow,
         CommonCrawlRow, StreamEnds, ResolveLogs, OpenLog, ReadEntries, CloseLog, RequestFails,
         SeedHost
<1> QED BY <1>4, <1>5, <1>6, <1>7

-----------------------------------------------------------------------------
(* Theorems.                                                               *)

LEMMA SourcesInvariance == SourcesSpec => []SourcesInv
<1>1. SourcesInit => SourcesInv
  <2>1. SourcesInit => RegistryInv
    BY SourcesAssumption DEF SourcesInit, RegistryInv
  <2> QED BY <2>1, StreamInit, LogInit DEF SourcesInv
<1>2. SourcesInv /\ [SourcesNext]_sourcesVars => SourcesInv'
  <2> SUFFICES ASSUME SourcesInv, [SourcesNext]_sourcesVars PROVE SourcesInv'
    OBVIOUS
  <2>1. StreamInv /\ LogInv /\ RegistryInv /\ (source # "ct" => log = NoLog)
    BY DEF SourcesInv, LogInv
  <2>2. StreamInv'
    BY <2>1, StreamStep
  <2> QED BY <2>1, <2>2, LogStep, RegistryStep DEF SourcesInv
<1> QED BY <1>1, <1>2, PTL DEF SourcesSpec

\* Whatever is answered and however it is cut into pages, records and rows,
\* the names a source has are the first different host names of it all, and it
\* returns fewer than were wanted only when there was no more, or at the page
\* limit (Seeder.Domains, domainCollector.add).
THEOREM StreamsRunUntilDone == SourcesSpec => []StreamsUntilDone
<1>1. SourcesInv => StreamsUntilDone
  BY FirstsAre DEF SourcesInv, StreamInv, StreamsUntilDone
<1> QED BY <1>1, SourcesInvariance, PTL

\* For tree sizes, page limits and numbers of names of any size: no leaf of a
\* log is read twice, the over-fetch and the requests to a log are bounded, and
\* so are those to a registry (domainsFromLog, HarvestAll).
THEOREM RequestsAreBounded == SourcesSpec => []RequestsBounded
<1>1. SourcesInv => RequestsBounded
  <2> SUFFICES ASSUME SourcesInv PROVE RequestsBounded
    OBVIOUS
  <2>1. ASSUME log # NoLog
        PROVE  /\ log.fetched = Cardinality(log.read) /\ log.fetched < log.most + log.window
               /\ requests <= log.size
    <3>1. log \in LogRecord /\ Reading(log, requests) /\ requests \in Nat
      BY <2>1 DEF SourcesInv, LogInv
    <3>2. log.start \in Nat /\ log.cursor \in Nat /\ log.end \in Int /\ log.size \in Nat
      BY <3>1 DEF LogRecord
    <3>3. /\ log.fetched = Cardinality(log.read) /\ log.fetched < log.most + log.window
          /\ log.cursor <= log.end + 1
          /\ requests + log.start + (log.end - log.cursor + 1) <= log.size
      BY <3>1 DEF Reading
    <3> QED BY <3>1, <3>2, <3>3
  <2>2. source = "registry" => requests <= PageLimit + 1
    BY DEF SourcesInv, RegistryInv
  <2> QED BY <2>1, <2>2 DEF RequestsBounded
<1> QED BY <1>1, SourcesInvariance, PTL
=============================================================================
