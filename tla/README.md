# ardvark, specified

TLA+ specifications of [ardvark](../src/README.md), a crawler that discovers
ARD documents (`/.well-known/ai-catalog.json`, robots.txt `Agentmap:`
directives, `<link>` hints), verifies them and follows the catalogs, registries
and artifacts they name. The specifications are translated from the Go source
under `src/`; TLC checks them on small instances and the TLA+ proof system
proves, for every value of the constants, every safety property that TLC
checks.

Paths below are relative to `src/`.

## The system

```
 seeds, pages, hints                 probes, catalogs, entries, registries
        |                                          ^
        v        enqueue/ensure/resume             |
   +----------------------------------------+   handlers (handlers.go):
   |  Frontier: frontier_items rows         |<-- host_probe  -> probe.Probe
   |  enqueue | Dequeue | Complete | Fail   |    catalog_fetch -> ard.Verify
   |  Requeue | ReclaimExpired | ...InFlight|    registry_harvest -> registry
   +----------------------------------------+    artifact_fetch, page_fetch
        ^   batches, leases                        ^
        |                                          | one goroutine per item
   Engine.Run in every process: dispatcher + worker pool
```

Everything that outlives a crash is in the database. Processes of a fleet
(mysql, postgres) share nothing else; a sqlite database has one process.

### Inventory

| Component | State | Operations | What makes it hard | What makes it correct |
|---|---|---|---|---|
| Frontier (`internal/frontier`) | `frontier_items`: status, attempts, lease, worker id, depth, provenance | `Enqueue`, `Ensure`, `Resume`, `EnqueueBudgeted`, `Dequeue`, `Complete`, `Requeue`, `Fail`, `ReclaimExpired`, `ReclaimInFlight`, `Counts` | several statements per operation, many goroutines and processes, leases that expire under a live handler, crashes between statements | a row is one item of a queue: a live claim is not taken away, a stale answer changes nothing, attempts are counted once and bounded, completed work is not redone |
| Engine (`internal/crawler/engine.go`) | dispatcher, in-flight count, worker pool | `Run`, `process` | a process may stop only if no peer can still produce work; shutdown, crash, database errors | nobody stops before the crawl is over, everybody stops in the end, an interruption charges no item |
| Host probing (`handlers.go`, `internal/probe`) | `domains.last_probed_at`, `domains.ard_status`, `probes` | `handleHostProbe`, `reenqueueKnownCatalogHits`, `Probe` | several writers of one status, transient answers, a freshness marker set before the attempt is known to be conclusive, crashes and interrupts between the probe row and the fetch it promises | a recorded hit is fetched unless a later attempt ended without it, `not_found` is written only when an attempt was final, a verdict gives way to nothing else |
| Catalog fetch (`handlers.go`) | `catalogs`, `catalog_entries` | `handleCatalogFetch`, `processCatalog`, `enqueueEntryFollowups` | save and fan-out are separate; the repeated fetch takes a short-cut | every entry is followed up, once |
| Registry harvest (`handlers.go`, `internal/registry`) | `registries`, entries with registry provenance | `handleRegistryHarvest`, `HarvestAll`, `SaveRegistry` | registries refer to each other and to catalogs | the recursion is bounded, one harvest per relationship |
| Artifact fetch | `artifacts` | `handleArtifactFetch` | none beyond the queue | - |
| Page fetch (`handlers.go`, `internal/harvest`) | frontier rows per host, link hints, inline catalogs | `handlePageFetch`, `enqueuePageFetch`, `processInlineCatalogs` | dozens of statements per page, some of whose failures are only logged; inline catalogs whose fan-out is repeated entry by entry; links in cycles and rows that are re-activated; a budget per host that is counted before the insert | a finished page has handed on what it holds, depths stay true, the crawl ends, the budget is overshot by less than the number of enqueuers |
| Fetch client (`internal/fetch`) | per-host limiter, robots cache | `Get`, `GetWellKnown`, `RawRobots` | concurrent first fetches of one robots.txt, redirects between hosts, a wait that counts against the deadline, one limiter per process | one request per interval, no page without the leave of the origin its item names, every fetch ends |
| Verification (`internal/ard`, `internal/mediatype`) | `verification_checks`, `catalogs.verification_status` | `Verify`, `VerifyStrict`, `ParseURN`, `Parse`, `Kind`, `verify --stored` | two passes, on the raw and on the decoded document, that stand in for one another; leniencies by mode; entries that share an identifier | the verdict is what the document deserves, one defect is one row, a row is its entry's |
| Store (`internal/store`) | nine tables | `Open` with its migrations, upserts, saves | find-or-create races, migration by several processes at once | one migration at a time, no present item is lost, a reference is duplicated only by a race |
| Seeds and registries (`internal/seed`, `internal/registry`) | none | `Domains` of each source, `RunSeeder`, `HarvestAll` | answers that are short, empty, repeated or cut; windows over a CT log that grow as they go | the first n names and no others, a bounded number of requests |
| Other commands, MCP server, JSON output, configuration, event log | none of their own | open a store and run one of the above | MCP calls overlap in one process | - |

`PROJECT.json` lists every component with its status, and the hazards, each at
its line of the source.

## The modules

| Module | Models | Granularity |
|---|---|---|
| `FrontierRows` | one `frontier_items` row and each UPDATE written to it | operators |
| `WorkQueue` | the abstract specification: a queue that hands items out with tickets | one step per promise |
| `Frontier` | `internal/frontier` | one step per SQL statement or transaction |
| `Engine` | `Engine.Run`, `Engine.process`, a fleet of processes | one step per turn of the dispatcher or operation of a handler |
| `HostProbe` | `handleHostProbe`, the catalog fetch up to the status write, the hint, the probe command | one step per statement |
| `Fanout` | `processCatalog`'s fan-out, `handleRegistryHarvest`, `handleArtifactFetch` | one step per follow-up statement |
| `Pages` | `handlePageFetch`, `ExtractLinks`, `InlineCatalogs`, `processInlineCatalogs` with the fan-out of what they find | one step per statement of the handler and per entry |
| `Documents` | `ard.Verify` and `VerifyStrict`, `mediatype`, `PartitionChecks`, `verify --stored` | one step per save, harvest or re-verification; the passes are operators |
| `Sources` | the seven seed sources, `RunSeeder`, `HarvestAll` | one step per request and answer |
| `Fetch` | the polite client in the processes of a fleet, and the host shard | one step per reservation, request, answer and interval of time |
| `Store` | `store.Open`, `UpsertDomain`, `SaveRegistry` | one step per statement |
| `MC...` | the instances TLC checks | |
| `FrontierProofs`, `EngineProofs`, `HostProbeProofs`, `FanoutProofs`, `PagesProofs`, `DocumentsProofs`, `FetchProofs` | the theorems about the module each is named after | |
| `StartupProofs` | the theorems about `Store` and `Sources` | |

`Frontier` and `Engine` both extend `FrontierRows`, so each UPDATE has a single
definition. `HostProbe`, `Fanout` and `Pages` take the queue at the level that
`Frontier` establishes: an item is handled until it is answered for or the
process dies. `Documents`, `Sources`, `Fetch` and `Store` are about what one
step of a handler consists of and stand on their own.

The type invariant of `Frontier` is checked and proved; those of the other
modules are in their proof modules, where they are proved.

`WorkQueue` is implemented twice: by the statements of `Frontier`, and by what
the dispatchers and workers of `Engine` make of the queue. The mapping is the
same but for what a ticket is: the claim of a goroutine in the one, an item in
the memory of a process in the other. Both are stated as `ImplementsWorkQueue`.

### State and code

* **Frontier.** `rows[k]` is the row with dedup key `k`; the clock is reduced to
  whether `leased_until` has passed, so a lease may expire at any time. `claims`
  are the items in the memory of goroutines between `Dequeue` and their answer;
  between `Fail`'s read and its UPDATE a claim is "failing" and keeps what was
  read. `call[g]` is how far goroutine `g` is inside `enqueue`: budget count,
  existence probe, `Create`, lookup of the conflicting row, guarded UPDATE. The
  history component `gen` counts the leases of a row and is read by no guard
  but that of the bound.
* **Engine.** `pc[p]` is where the dispatcher is, `idle[p]` the snapshot it took
  before `Dequeue`, `waiting[p]` the rest of the batch that the unbuffered
  channel has not taken yet, `running[p]` what the workers are handling with the
  follow-ups each has yet to enqueue. `Fail` is two steps: the error (then the
  backoff), and the answer.
* **HostProbe.** One host: its `domains` row, the recorded hits, its `host_probe`
  item, the `catalog_fetch` item of every URL, and the verdict last saved for
  it. A response is one of hit, miss, transient error, permanent error; a
  document is its verdict. Time is whether a timestamp is within the refresh
  window. `stopping` says that the context of the crawl is cancelled: a probe
  may then find its requests cancelled from any one of them on, which
  `classifyNetError` makes permanent errors, while statements still go through
  and a handler's error costs no attempt. `handler.seen` (what the requests of an
  attempt ended in) and `overlooked` (recorded hits without a frontier row which
  the attempt that completed the item did not meet) are history.
* **Fanout.** The rows of `catalogs`, `catalog_entries` and `registries` are
  sequences whose indices are the ids; `items` are the frontier rows by dedup
  key, which contains the parent row, as `buildItem` does.
* **Pages.** `work[k]` is how far the handler of item `k` is: the statement, the
  index in the list it goes through (hosts, hints, inline catalogs, links) and,
  within an inline catalog, in the list of its entries. `grown` are the inline
  catalogs that have a registry's results among their entries, of which a
  repeated fan-out is given up.
  A page is a sequence of elements, of which `ExtractLinks` and `InlineCatalogs`
  take what they take in the code, with its limits. `domains`, `fresh`, `hits`
  and `inline` are the rows the handler writes; `probed` and `dropped` are
  history. Items of the other kinds are one step each; the settings that turn
  registry harvesting and artifact fetching off are taken as on.
* **Documents.** One document, one catalog. `checks[r]` is the set of check rows
  of entry `r`, 0 for the catalog's own; their order is left out. An entry is a record of the departures the
  checks tell apart; the outcome of the schema library is the set of
  constraints the document breaks.
* **Sources.** `source` is chosen at the start; `got` is the collector, `heard`
  everything answered. A CT log is read in windows: `log` has the position, the
  window, and the leaves fetched and read.
* **Fetch.** A task is one goroutine serving one item: which request it is at
  (`at`, with the redirects followed and whether it is for robots.txt), how many
  intervals until its turn (`wait`) and until its deadline (`left`). `limiter`
  and `cache` are in the memory of a process. The unit of time is the interval
  of the limiter.
* **Store.** `pc[p]` is where a process is inside `Open`; `table` and `items`
  are the shape of `frontier_items` and of the keys in it, as older versions
  may have left them. `found[g]` is what the lookup before a create came to, of
  a worker goroutine `g` in the process `ProcessOf[g]`.

## The runs

All runs use `-workers 2` and take from a few seconds to three minutes.
Every property of a passing run has a mutant: an operator named
`<definition>_<mistake>` and commented "Faulty variant" or "slip", which does
what the definition does but for one plausible mistake, and under which TLC
finds the property violated.

| Run | Shows | Bounds |
|---|---|---|
| `Frontier_shared` | the invariants of a shared frontier, that a live claim stands, that a failure counts once, and the refinement of `WorkQueue` | two processes, one row, two enqueuers, three leases, two attempts. Three leases are what a stale holder, its successor and the next one need; rows do not interact on a shared frontier except through the budget, which the next run has |
| `Frontier_sqlite` | the page budget, that done children stay done, and the refinement of `WorkQueue` where the sweep at the start takes every claim | five rows (a host probe, a child, three pages of one host with a budget of one), batches of two, two enqueuers, two leases |
| `Engine_fleet` | termination and shutdown of a fleet, and its use of the queue as a refinement of `WorkQueue` | two processes with a shard each, three items that follow up on each other across the shards, one worker each, one crash, cancellation or database error anywhere |
| `HostProbe_publisher` | nothing found is lost that a later attempt does not miss, `not_found` is final, verdicts stand but for it, what is found is fetched | one host that publishes on and off, four URLs, transient failures anywhere, two upsets (interrupt, crash, re-enqueue, hint, probe command), so that an interrupt or a crash can fall into the recovery from another |
| `Fanout_crawl` | every entry is followed up but for those a harvest may cost (see below), nothing twice, no deeper than configured, and the crawl comes to rest | two catalogs that name each other, an artifact and two registries that refer to each other, one of which also returns a catalog without entries; two handlers at a time, one failure or crash anywhere |
| `Fanout_cycle` | *violation:* a registry that returns the catalog which names it | two catalogs, one registry, no upsets |
| `Pages_crawl` | a page that is done has handed on what it holds, but for the entries an inline catalog may lose to a harvest (see below), depths are those of walks from a seed, a host without an attempt has a hint, the crawl of a cycle of links ends | two hosts, four pages of which two are readable, depth two, a budget of two pages (so that one host's runs out), JSON-LD in every shape with each limit exceeded once, one inline catalog that names a registry and then a catalog, two handlers (one can harvest while the other repeats the page), one crash, failed handler or failed statement anywhere |
| `Documents_verdicts` | the verdict is what a direct reading of the rules gives, in both modes; one defect is one row; rows are attached to their entry | every entry that is flawless or departs from it in one respect, alone or next to each of seven others (every check looks at one entry or compares two), transport flaws, one result of a registry, any number of re-verifications |
| `Sources_answers` | the names are the first of everything answered; the requests are bounded | three host names, two wanted, answers of up to two items, three pages; logs of up to five leaves read in twos with an over-fetch of two, so that the window grows, is cut short and meets both ends |
| `Fetch_polite` | one request per host and interval, robots.txt of the origin the item names first, every fetch ends | one process, two tasks, two hosts, one redirect followed (`maxRedirects` is two, see below), a deadline of two intervals: the second task in a queue can just miss it |
| `Fetch_affinity` | *violation:* one machine written in several ways is served by two workers | two processes, one machine, three spellings |
| `Store_open` | concurrent migration and the find-or-create races | two processes, of which one has two workers, four starts (each is killed or fails once), each earlier shape of the database, four saves |

**Symmetry.** Only the `Frontier` runs use it: the goroutines inside `enqueue`
are interchangeable, and in `Frontier_sqlite` so are the three pages. No
liveness property is checked under symmetry.

**Deadlock** is checked in the `Frontier` runs, whose processes can always be
started and stopped. The other systems end, and their configurations say so: a
crawl whose items are all answered for and whose bounds are used up has no step
left, nor has a fetch that is done, a source that has returned, or a process
whose starts are used up. That they get there is what `EveryRunEnds`,
`HitsAreFetched`, `ComesToRest`, `EveryFetchEnds` and `LockComesFree` say;
`RequestsBounded` bounds the work of a source instead.

**Fairness.** `Engine`: weak fairness of every dispatcher and every worker pool
(goroutines of a live process), of the restart of an interrupted process (which
operations must provide: website/docs.md:873 says that a worker which never
comes back leaves its peers polling), and of the expiry of a lease nobody
answers for. `HostProbe`, `Fanout` and `Pages`: a live process takes some step
as long as one is possible; nothing is assumed of any particular handler, and
the properties hold because every handler's work is finite. An interrupted
crawl of `HostProbe` is started again. `Fetch`: time
passes, and each goroutine that can go on does, a request being answered or
timing out. `Store`: a process inside `Open` goes on, fails or is killed; a lock
that is asked for in vain for a minute is an error, so nobody waits forever.
Crashes, failures and commands have no fairness. `Documents` and `Sources` have
no liveness property.

**Bounds** are constants named `Max...` in guards: `MaxClaims` (leases of a
row), `MaxLapses` (leases that expire under a live handler; 0 in `Engine_fleet`,
see below, where the proof of the refinement allows any number), `MaxUpsets` (crashes, cancellations, failures and outside commands
together), `MaxStarts`, `MaxSaves`, `MaxHarvested` and `MaxItems`. Those named
after a setting (`MaxDepth`, `MaxAttempts`, `MaxPages`...) are limits of the
code. Each upset can fall between any two statements, and a second one can fall
into the recovery from the first where the bound is two.

### Where the code and its words disagree

Two statements the repository makes about itself are checked and violated;
`PROJECT.json` quotes them.

* `Fanout_cycle`: a catalog among a registry's results is fetched at depth 0
  with the harvesting catalog as its parent, so a registry that returns the
  catalog which names it starts a round that never ends.
* `Fetch_affinity`: the host shard is a hash of the host as it is written. A
  port, capitals or a redirect give one machine to two workers, each with a
  limiter of its own.

What else was met while modelling, and no run checks:

* The blanket sweep at the start of a sqlite run is right for one engine at a
  time; the MCP server's `ardvark_crawl` starts one per call without a lock
  (`internal/mcpserver/server.go:267`).
* Ownership of a claim is checked by worker id, so a handler that outlives
  `crawler.leaseSeconds` can answer for a newer claim of its own process, after
  which a peer can see an empty frontier too early. `Engine_fleet` assumes
  (`MaxLapses = 0`) that no handler does.
* A permanent error on the first well-known alias hides a transient one on the
  second, and the status becomes `not_found`; `NotFoundIsFinal` excepts it.
* SIGINT cancels the requests of a probe under way. `classifyNetError` makes a
  cancelled request a permanent error (`fetch.go:347`), so the attempt counts as
  conclusive (`probe.go:256`): `handleHostProbe` leaves `last_probed_at` fresh,
  writes `not_found` if nothing was met before (`handlers.go:254`) and returns
  no error, and the item is completed, although an interrupted item is said to
  be requeued (`engine.go:429`) and an indeterminate result not to be recorded
  as "not found" (`probe.go:104`). A publisher is so written off for the refresh
  window, and a hit recorded by an earlier attempt may be looked at no more.
* `not_found` is written whatever the status was (`handlers.go:255`), so a probe
  that finds nothing, or was cancelled, takes back the verdict of a document that
  a hint or a page led to, which an advertised host keeps (`handlers.go:248`).
  `VerdictsStand` excepts it, and `NotFoundIsFinal` says when it can happen.
* `ardvark probe` moves `last_probed_at` for transient outcomes too and never
  puts it back, so the next crawl skips the host.
* The status write after `SaveCatalog` is neither in its transaction nor
  repeated for an unchanged document (`handlers.go:440`).
* Harvested results count as entries of the catalog (`handlers.go:731`). A
  fan-out that dies behind the entry for a registry, and is repeated after the
  harvest, finds more rows than the document has entries, which "should not
  happen", and gives up (`handlers.go:401`): the entries behind the registry are
  never followed up, although `handlers.go:388` says that a crash loses none.
  The attempt to prove that none is lost found this. `FanOutUnlessHarvested`
  says that no others are: not those before the registry, and none at all of a
  catalog without results.
* A page's hint makes its host look probed; the host's own document, if it is
  another one, is not looked for during the refresh window.
  `UnprobedOnlyForHint` says that nothing else does.
* The same give-up costs an inline catalog the entries behind a registry that was
  harvested before the page is fetched again, and the page completes
  (`handlers.go:397`). `HarvestComplete` says that it costs no others.
* `handlePageFetch` goes on after a host or hint whose domains row cannot be
  written and after a link that cannot be enqueued (`handlers.go:113`), and
  fails after any other failed statement; `HarvestComplete` excepts what was so
  given up.
* A document that the schema accepts and Go cannot decode (a miscased name of
  another type, say) skips every semantic check (`verify.go:228`);
  `VerdictIsRight` and `RightRow` except it.
* Any schema error anywhere in a document leaves out every `urn.format` check,
  also for an identifier the schema has no objection to (a publisher without a
  dot); the verdict is "invalid" either way.
* `verify --stored` drops the transport's checks; `VerdictIsRight` says so.
* The CT source collects each log's names on their own, so a name an earlier log
  gave as well counts twice against the number wanted, and fewer may be returned
  than the logs had (`ct.go:166`). Windows answered with no entries do not count
  against the over-fetch and are asked for down to the bottom of the tree
  (`ct.go:226`).
* A wait for the rate limiter that would outlast the deadline fails at once and
  counts as a permanent error (`fetch.go:219`, `fetch.go:347`). `RawRobots` asks
  over http as well when the https robots.txt cannot be parsed or is redirected
  too often, not only when no connection is made (`fetch.go:477`).
* A page that is redirected to another origin is fetched there without that
  origin's robots.txt (`fetch.go:166`, `fetch.go:274`), where
  website/docs.md:732 and 879 promise that it is respected. `RobotsObeyed` is
  about the origin the item names.
* `maxRedirects` is "the maximum number of redirects the client will follow"
  (`fetch.go:35`); `CheckRedirect` fails one earlier (`fetch.go:167`), so four
  are followed and not five.
* `SaveRegistry` has no unique index to rely on: each worker that looked before
  the first create adds a row, also within one process, where two
  `catalog_fetch` items that are redirected to one URL fan out one document side
  by side (`handlers.go:332`). `RegistryReused` is that bound.
* sqlite databases are migrated without a lock (`store.go:122`).

`NoHitForgotten` and `HitsAreFetched` except a recorded hit without a frontier
row if a later attempt ended without it and without a transient failure: the host
has changed its answer (its Agentmap, say, between a crash and the repeated
probe) or the requests were cancelled. The item is then complete and the hit is
looked at no more, which the source accepts for what was not recorded
(handlers.go:282-284). Nothing else is assumed of the host.

## The proofs

Eight modules hold theorems. Each is about every value of the constants its
module declares, under the assumptions the module states by name (their types)
and those in the third column.

| Theorem | States, for all reachable states or steps | Assumes |
|---|---|---|
| `FrontierProofs` | | |
| `TypeCorrect` | the types | |
| `LeaseDisciplineHolds` | a row is leased exactly while it is in flight | |
| `RetryBudgetHolds` | a row that can be dispatched has attempts left, a failed one has a counted attempt | |
| `ClaimDisciplineHolds` | a lease generation belongs to one goroutine, whose worker id is the row's and whose read of the counter is current | |
| `LiveClaimsStand` | a live claim ends only by its own process | a shared backend, distinct worker ids |
| `FailuresCountOnce` | a failure of the current holder adds one attempt | |
| `CompletedWorkStaysDone` | work that is only ensured or resumed stays done | |
| `BudgetOvershootIsBounded` | a host has fewer pages beyond the budget than there are goroutines that enqueue | finitely many keys and goroutines, at least one |
| `FrontierImplementsWorkQueue` | the frontier implements `WorkQueue` | one process unless shared |
| `EngineProofs` | | |
| `EngineImplementsWorkQueue` | the engines implement `WorkQueue` | one process unless shared |
| `EmptyIsOver` | a process that stops for an empty frontier leaves nothing unfinished anywhere | no lease runs out under a live handler; one process unless shared |
| `ShutdownIsFree` | a shutdown counts no attempt | the same |
| `HostProbeProofs` | | |
| `TypeCorrect` | the types, and that a handler is there exactly while its item is in flight | |
| `HitsAreKept` | a recorded hit has a frontier row, or the host's item is owed a run (or has failed), or a later attempt ended without it | |
| `NotFoundMeansFinal` | `not_found` is written only after an attempt with no hit and no transient failure, but one of the second alias behind a permanent one of the first | |
| `VerdictsAreKept` | a verdict on a document gives way to another verdict or to `not_found` only; no host becomes unprobed again | |
| `FanoutProofs` | | |
| `NothingIsTwice` | repeated work makes no second row and no second harvest | |
| `NoEntryIsSkipped` | a fetch that is done has followed up every entry, but those behind a harvested registry | |
| `NestingIsBounded` | no chain of parents is longer than `maxCatalogDepth` | what registries return leads to artifacts only |
| `PagesProofs` | | |
| `DepthIsOfAWalk` | a depth is the length of a walk from a seed | finitely many seeds |
| `OnlyHintsStopProbes` | a host that is neither probed nor queued has a hint | finitely many seeds |
| `NothingOnThePageIsLost` | a page that is done has handed on what it holds, but the entries of an inline catalog behind a registry that was harvested for it | finitely many seeds, `maxCatalogDepth` above 0 |
| `DocumentsProofs` | | |
| `StrictestLast` | no document does better under `--strict` | |
| `RightVerdict` | the stored verdict is the one the document deserves | |
| `DefectsOnce` | one defect is one row | |
| `ChecksStay` | a check stays with its entry's row | |
| `FetchProofs` | | |
| `OnePerIntervalHolds` | one request per process, host and interval | |
| `RobotsAreObeyed` | a page is requested at its item's URL first, and there and where it is redirected only with the leave of the origin in that URL | |
| `StartupProofs` | | |
| `NoCollisionEver` | the table does not change under a migration | mysql or postgres, or one process |
| `OpenIsReconciled` | an open store has the present schema and no stale keys | the same |
| `NoItemIsLost` | no migration removes an item keyed the present way | the same |
| `RegistryIsReused` | a reference has no more rows than there are workers in all processes together | finitely many workers |
| `StreamsRunUntilDone` | the names are the first different ones of all that was answered, and fewer than wanted only if there are no more or the page limit is reached | |
| `RequestsAreBounded` | no leaf is read twice, the over-fetch and the requests are bounded | |

### The arguments

**Frontier.** One inductive invariant, `IInv`. `RetryBudget` alone is not
inductive, because `Fail` writes a counter it read earlier: one has to know that
the row of a claim that is still current has not moved since. Hence
`ClaimDiscipline`: generations only grow, a generation has one claim, and while
that claim is current nobody else passes the ownership guard. It needs in turn
that a key without a row has never been leased (in `RowInv`), that the limit
`Fail` carries is one `process` chose (`LimitInv`), and that a goroutine at its
compare-and-set holds a finished status its variant may re-activate (`CallInv`).
The row updates are treated once, in the lemmas `RowTypes` and `RowUpdates`;
each action then needs only how it uses them. The action properties and the
refinement follow from `IInv` and a case per action. For the refinement by one
process on sqlite one has to know as well that every claim belongs to a process
that is up and is current (`SoleInv`): a start sweeps after the crash has dropped
the claims, so the blanket sweep is the abstract one, which takes what has lapsed
and what nobody has a ticket of. The budget is not inductive as a bound on rows: `BudgetInv` counts the rows of a host together with the
goroutines that have passed the count and not yet inserted, so that an insert
moves one from the second number to the first, and only a count below the
budget adds to the sum.

**Engine.** `HoldInv`: every item in the memory of a process has its row in
flight under that process and that claim, and no process has two items of one
row. `Unfinished` work is then always a row that `Counts` sees or the todo of an
item whose row is in flight, so the two counts of an idle dispatcher cannot
miss it (`OverInv`: once somebody has stopped for an empty frontier, it stays
empty). This is where the two assumptions come in; the source relies on both
(engine.go:268-293).

The refinement needs less, and does without the first assumption: leases may
lapse under any handler. `TicketInv` says that no process has two items of one
claim and none of a claim to come, and that a row is leased exactly while it is
claimed. So a dequeue makes new tickets only, an answer uses up one ticket and
no other, and what neither finds the row its own nor reaches the database drops
a ticket. Every other step moves items between the channel and the workers,
which the abstract queue does not see. The second assumption is what makes the
blanket sweep harmless: when the one engine of a sqlite database starts, it has
nothing in memory (`PhaseInv`).

**HostProbe.** A hit without a frontier row is owed a run of the host's item
(`OwedInv`); the invariant says for each place in the handler where that debt
is: among the results still to be recorded, about to be resumed, in the decision
to retry (`InHand`), or discharged because the attempt has met neither the hit nor
a transient failure (`Missed`). `ToldInv` says that a hit or a transient failure
among what the requests ended in is still to be recorded or is remembered by the
handler; so where it remembers neither, and writes `not_found`, there was none
but one that the pair of aliases hid. Cancelled requests are outcomes like any
other, and nothing is assumed of what a host answers.

**Fanout.** Rows are only appended. The entries of a document are appended with
its row, so each catalog has a block of entries that no harvest can get in
front of (`RowsInv`): the i-th row loaded back is the i-th entry. A registry
answers only after the fan-out has come to the entry that names it, hence the
exception in `FanOutUnlessHarvested` (`FanInv`). The bound on nesting
(`NestInv`) is that the depth in an item's row is the level at which its
document will be saved, except where the document names artifacts only: those
a registry returns are fetched at depth 0. `Fanout_cycle` is a world outside
that assumption, so the theorem and the run say together where the bound ends.

**Pages.** Nothing that was handed on is taken back (`Grows`), and the handler
goes through its lists in order, so what lies before its index is handed on
(`Handed`, `HarvestInv`). Inside an inline catalog the entries are taken in
order, so a registry that has an item has every entry before it followed up, and
only the harvest of such a registry makes the catalog grow (`FanOutInv`): a
fan-out that is given up has lost entries behind a registry at most. The depth of a row does not change while its handler
is at work, and the link it enqueues is one step further than its page
(`OneFurther`).

**Documents.** The passes are compared entry by entry. `LenientErrors` and
`StrictErrors` relate the constraints an entry breaks in a mode, after the
normalisations of the default one, to the errors of a direct reading of the
rules; `LenientIsLess` says that what the default mode objects to the published
schema does as well. `ErrorsAre` and `FailuresAre` lift this to documents. They
show why the semantic checks that are skipped are not missed: whenever they are
skipped, the schema has an error. The invariant (`StoredInv`) says that the
stored checks and status come from one run of the passes, on rows that begin
with the document's own entries.

**Fetch.** The requests of a process that wait for one host wait for different
intervals, each among those its limiter has reserved, and a request sent in
this interval had it to itself (`LimiterInv`). What the cache holds for an
origin is what that origin said, and a task that fetches a page has the leave of
the origin in its item's URL, where it is until it is redirected (`RobotsInv`).

**Store.** Between taking the lock and leaving it a process is the only one that
migrates (`OneMigration`), so what it saw of the table still holds when it acts
on it (`SeenIsSo`). For `RegistryReused`, the rows of a reference and the
workers that have looked and not yet created are counted together.

**Sources.** What a collector has is compared with everything answered so far,
not page by page: `Firsts` says that the names are those of the *first
mentions*, the positions at which a host name occurs that no earlier position
has, in their order and cut at the number wanted. One more value adds at most
one first mention, behind all others (`OneMore`), so the collector's loop over an
answer preserves `Firsts` (`CollectFirsts`), and where the answers are cut into
pages, records or rows does not matter. For the CT log, the leaves read lie in
the window or above it and not where the cursor has yet to go (`Reading`), hence
none is read twice, the number fetched is the number of leaves read, and each
request with an answer takes at least one leaf away from those that can still be
read.

**Recursion and induction.** The recursive functions that the statements and the
operators use (`Walks` of `Pages`, `Nesting` of `Fanout`, the collector's loop
and the flattening of answers in `Sources`) are shown to exist, and what they
compute is shown for every length, by induction on naturals in the form "the set
of the numbers for which it fails has no least element" (`LeastOf` and
`Naturals` in `StartupProofs`), which rests on the library's theorem that `<` on
the naturals is well-founded. The library's own induction theorems take a
predicate as a parameter, which the provers cannot instantiate; a set can be.

### What is only model-checked

* Liveness: `EveryRunEnds`, `HitsAreFetched`, `ComesToRest` (of `Fanout` and of
  `Pages`), `EveryFetchEnds`, `LockComesFree`. Fairness and ENABLED are beyond
  the proof system.
* That the candidates of a page form a list, and the entries of each a list of
  catalogs, registries and artifacts (`ListsAssumption` of `Pages`): they are
  made with `SelectSeq`, which is built into the proof system and of which
  no prover knows anything. TLC evaluates the assumption in `Pages_crawl`; it
  holds of every page.

No safety property of a run is left to TLC alone.

## Not modelled

* HTML, JSON and CSV parsing and the spelling of URLs and host names; `<base
  href>`; how a name is cut out of a certificate; formatting of output. A page
  is its elements, an answer the names in it.
* Most of `ai-catalog.schema.json`: the constraints an entry can break in a way
  that another check or a leniency depends on are there, the others are one
  "wrong" field. How many rows one broken constraint takes is left out.
* The depth and provenance columns in `Frontier` (they are in `Fanout` and
  `Pages`), and the order of `Dequeue`: nothing checked depends on it, and
  `SKIP LOCKED` does not keep it.
* Catalogs embedded as data in an entry, redirects of catalogs and pages outside
  `Fetch`, documents that change during a crawl; artifact bodies.
* The eight tables other than `frontier_items` during migration, run
  bookkeeping, and the read-only queries of `store`.
* The interval between two `Counts` queries and the polling interval.
* The commands other than `crawl`, `seed`, `verify --stored` and the writes of
  `probe`: they read rows and print them. The MCP server: thin wrappers of the
  commands. Configuration, event log, terminal output, tools.

## Plan

Done, in this order: `Frontier` with `WorkQueue`, `Engine`, `HostProbe`, `Fanout`,
`Documents`, `Sources`, `Fetch`, `Store` and `Pages`; the theorems about each,
and `Engine` as an implementation of `WorkQueue`.

What would be next:

1. `Fanout` with embedded catalogs.
2. An abstract specification of what a crawl promises, a set of documents
   reached, for `HostProbe`, `Fanout` and `Pages` together.
