------------------------------- MODULE Fanout -------------------------------
(***************************************************************************)
(* How one catalog leads to the next (src/internal/crawler/handlers.go):   *)
(* catalog_fetch saves a document with its entries and ensures one         *)
(* follow-up for each, registry_harvest saves what a registry returns and  *)
(* follows the pointers in it, and the depth of an item and its dedup key  *)
(* are what is to keep both recursions finite.                             *)
(*                                                                         *)
(* A handler is one process of a pool and does one statement at a time, so *)
(* that the crawl can die between any two; what it needs after a restart   *)
(* is in the rows.  Documents do not change while the crawl looks at them. *)
(* Row ids are positions in the sequences `catalogs', `entries' and        *)
(* `registries'.                                                           *)
(***************************************************************************)
EXTENDS Integers, Sequences, FiniteSets, FiniteSetsExt

CONSTANTS
  Roots,            \* the catalog URLs the crawl starts from
  Document,         \* Document[u]: the entries of the catalog at u
  Results,          \* Results[r]: what the registry at r returns as results
  Referrals,        \* Referrals[r]: the registries it refers to
  MaxCatalogDepth,  \* ard.maxCatalogDepth
  MaxReferralDepth, \* registry.maxReferralDepth
  Workers,          \* how many handlers work at the same time
  MaxUpsets         \* bound: crashes and failed handlers

Catalogs == DOMAIN Document
Registries == DOMAIN Results
PointerKinds == {"catalog", "registry", "artifact"}

\* An entry is [kind, url]; only a catalog's own entries have artifacts fetched.
ASSUME WorldAssumption ==
  /\ Roots \subseteq Catalogs
  /\ \A list \in Range(Document) \union Range(Results) \union Range(Referrals) :
       list \in Seq(Range(list))
  /\ \A u \in Catalogs : \A i \in DOMAIN Document[u] :
       LET e == Document[u][i]
       IN  /\ e.kind \in PointerKinds
           /\ e.kind = "catalog" => e.url \in Catalogs
           /\ e.kind = "registry" => e.url \in Registries
  /\ \A r \in Registries : \A i \in DOMAIN Results[r] :
       LET e == Results[r][i]
       IN  /\ e.kind \in PointerKinds
           /\ e.kind = "catalog" => e.url \in Catalogs
           /\ e.kind = "registry" => e.url \in Registries
  /\ Registries \subseteq DOMAIN Referrals
  /\ \A r \in Registries : \A i \in DOMAIN Referrals[r] :
       Referrals[r][i] \in Registries
ASSUME BoundsAssumption ==
  /\ {MaxCatalogDepth, MaxReferralDepth, MaxUpsets} \subseteq Nat
  /\ Workers \in Nat \ {0}

VARIABLES
  catalogs,    \* the catalogs rows: [url, parent]
  entries,     \* the catalog_entries rows: [catalog, from, kind, url]
  registries,  \* the registries rows: [entry, url, from]
  items,       \* the frontier rows, by dedup key: [status, depth]
  work,        \* the handlers at work, by the key of their item
  upsets       \* how much of MaxUpsets is used up

vars == <<catalogs, entries, registries, items, work, upsets>>

\* The dedup keys, with 0 for no row: what makes two follow-ups the same.
CatalogKey(u, parent) == [kind |-> "catalog", url |-> u, of |-> parent]
RegistryKey(u, row) == [kind |-> "registry", url |-> u, of |-> row]
ArtifactKey(u, entry) == [kind |-> "artifact", url |-> u, of |-> entry]

Started == [pc |-> "start", i |-> 1, row |-> 0, reg |-> 0]

NewItem(d) == [status |-> "pending", depth |-> d]

Init ==
  /\ catalogs = <<>>
  /\ entries = <<>>
  /\ registries = <<>>
  /\ items = [k \in {CatalogKey(u, 0) : u \in Roots} |-> NewItem(0)]
  /\ work = [k \in {} |-> Started]
  /\ upsets = 0

-----------------------------------------------------------------------------
(* The rows.                                                               *)

\* A function with one more argument.
With(f, k, v) == [x \in DOMAIN f \union {k} |-> IF x = k THEN v ELSE f[x]]
Without(f, k) == [x \in DOMAIN f \ {k} |-> f[x]]

\* Engine.ensure: a row that exists stays as it is, its depth included.
Ensured(k, d) == IF k \in DOMAIN items THEN items ELSE With(items, k, NewItem(d))

\* LatestCatalogBySourceAndParent.
PriorRows(u, parent) ==
  {c \in DOMAIN catalogs : catalogs[c].url = u /\ catalogs[c].parent = parent}

\* WHERE catalog_id = ?, a registry's results for that catalog included.
EntriesOf(c) == {e \in DOMAIN entries : entries[e].catalog = c}
\* ... ORDER BY id, the i-th.
EntryRow(c, i) ==
  CHOOSE e \in EntriesOf(c) : Cardinality({f \in EntriesOf(c) : f < e}) = i - 1

EntryRows(c, from, list) ==
  [i \in DOMAIN list |-> [catalog |-> c, from |-> from,
                          kind |-> list[i].kind, url |-> list[i].url]]

KnownRegistry(row) == {r \in DOMAIN registries : registries[r] = row}

\* SaveRegistry: the row of this relationship, new or not.
SaveRegistry(row) ==
  registries' = IF KnownRegistry(row) # {} THEN registries ELSE Append(registries, row)

SavedRegistry(row) ==
  IF KnownRegistry(row) # {} THEN Min(KnownRegistry(row)) ELSE Len(registries) + 1

-----------------------------------------------------------------------------
(* catalog_fetch: processCatalog and enqueueEntryFollowups.                *)

At(k, pc) == k \in DOMAIN work /\ work[k].pc = pc
Moves(k, w) == work' = [work EXCEPT ![k] = w]

Dequeue(k) ==
  /\ items[k].status = "pending"
  /\ Cardinality(DOMAIN work) < Workers
  /\ items' = [items EXCEPT ![k].status = "in_flight"]
  /\ work' = With(work, k, Started)
  /\ UNCHANGED <<catalogs, entries, registries, upsets>>

\* Faulty variant: one level more.
FollowsEntries_OneDeeper(k) == items[k].depth <= MaxCatalogDepth

FollowsEntries(k) == items[k].depth < MaxCatalogDepth

\* Faulty variant: a document seen before is not followed up again.
Resumes_Never(k, prior) == FALSE

\* The entries of an unchanged document are followed up again, unless their
\* number is not the document's.
Resumes(k, prior) ==
  FollowsEntries(k) /\ Cardinality(EntriesOf(prior)) = Len(Document[k.url])

\* Faulty variant: every fetch saves the document.
Prior_None(k) == {}

Prior(k) == PriorRows(k.url, k.of)

FetchCatalog(k) ==
  /\ k.kind = "catalog" /\ At(k, "start")
  /\ IF Prior(k) # {}
     THEN LET prior == Max(Prior(k))
          IN  /\ Moves(k, [work[k] EXCEPT !.row = prior,
                             !.pc = IF Resumes(k, prior) THEN "entries" ELSE "done"])
              /\ UNCHANGED <<catalogs, entries>>
     ELSE LET c == Len(catalogs) + 1
          IN  /\ catalogs' = Append(catalogs, [url |-> k.url, parent |-> k.of])
              /\ entries' = entries \o EntryRows(c, 0, Document[k.url])
              /\ Moves(k, [work[k] EXCEPT !.row = c,
                             !.pc = IF FollowsEntries(k) THEN "entries" ELSE "done"])
  /\ UNCHANGED <<registries, items, upsets>>

\* The i-th entry: one follow-up, for a registry in two statements.
FollowEntry(k) ==
  /\ At(k, "entries")
  /\ LET w == work[k]
         next == [w EXCEPT !.i = @ + 1]
         list == Document[k.url]
         e == list[w.i]
         id == EntryRow(w.row, w.i)
         ref == [entry |-> id, url |-> e.url, from |-> 0]
     IN  IF w.i > Len(list)
         THEN /\ Moves(k, [w EXCEPT !.pc = "done"])
              /\ UNCHANGED <<registries, items>>
         ELSE \/ /\ e.kind = "catalog"
                 /\ items' = Ensured(CatalogKey(e.url, w.row), items[k].depth + 1)
                 /\ Moves(k, next)
                 /\ UNCHANGED registries
              \/ /\ e.kind = "artifact"
                 /\ items' = Ensured(ArtifactKey(e.url, id), 0)
                 /\ Moves(k, next)
                 /\ UNCHANGED registries
              \/ /\ e.kind = "registry"
                 /\ SaveRegistry(ref)
                 /\ Moves(k, [w EXCEPT !.pc = "ensure", !.reg = SavedRegistry(ref)])
                 /\ UNCHANGED items
  /\ UNCHANGED <<catalogs, entries, upsets>>

\* followRegistryPointer's second statement: a catalog's own registries start
\* at depth 0.
EnsureRegistry(k) ==
  /\ k.kind = "catalog" /\ At(k, "ensure")
  /\ LET w == work[k]
     IN  /\ items' = Ensured(RegistryKey(registries[w.reg].url, w.reg), 0)
         /\ Moves(k, [w EXCEPT !.pc = "entries", !.i = @ + 1])
  /\ UNCHANGED <<catalogs, entries, registries, upsets>>

-----------------------------------------------------------------------------
(* registry_harvest.                                                       *)

\* The entry and the catalog a registry_harvest item works for.
OwnEntry(k) == registries[k.of].entry
OwnCatalog(k) == entries[OwnEntry(k)].catalog

\* The results are saved in one batch, once more at every harvest.
Harvest(k) ==
  /\ k.kind = "registry" /\ At(k, "start")
  /\ IF items[k].depth > MaxReferralDepth
     THEN /\ Moves(k, [work[k] EXCEPT !.pc = "done"])
          /\ UNCHANGED entries
     ELSE /\ entries' = entries \o EntryRows(OwnCatalog(k), k.of, Results[k.url])
          /\ Moves(k, [work[k] EXCEPT !.pc = "results", !.row = Len(entries)])
  /\ UNCHANGED <<catalogs, registries, items, upsets>>

\* The i-th result: pointers are followed, a catalog at depth 0 again.
FollowResult(k) ==
  /\ At(k, "results")
  /\ LET w == work[k]
         list == Results[k.url]
         e == list[w.i]
         ref == [entry |-> w.row + w.i, url |-> e.url, from |-> k.of]
     IN  IF w.i > Len(list)
         THEN /\ Moves(k, [w EXCEPT !.pc = "referrals", !.i = 1])
              /\ UNCHANGED <<registries, items>>
         ELSE \/ /\ e.kind = "catalog"
                 /\ items' = Ensured(CatalogKey(e.url, OwnCatalog(k)), 0)
                 /\ Moves(k, [w EXCEPT !.i = @ + 1])
                 /\ UNCHANGED registries
              \/ /\ e.kind = "artifact"
                 /\ Moves(k, [w EXCEPT !.i = @ + 1])
                 /\ UNCHANGED <<registries, items>>
              \/ /\ e.kind = "registry"
                 /\ SaveRegistry(ref)
                 /\ Moves(k, [w EXCEPT !.pc = "ensure", !.reg = SavedRegistry(ref)])
                 /\ UNCHANGED items
  /\ UNCHANGED <<catalogs, entries, upsets>>

\* The i-th referral, unless it would be too deep.
FollowReferral(k) ==
  /\ At(k, "referrals")
  /\ LET w == work[k]
         list == Referrals[k.url]
         ref == [entry |-> OwnEntry(k), url |-> list[w.i], from |-> k.of]
     IN  IF w.i > Len(list) \/ items[k].depth + 1 > MaxReferralDepth
         THEN /\ Moves(k, [w EXCEPT !.pc = "done"])
              /\ UNCHANGED registries
         ELSE /\ SaveRegistry(ref)
              /\ Moves(k, [w EXCEPT !.pc = "ensure", !.reg = SavedRegistry(ref)])
  /\ UNCHANGED <<catalogs, entries, items, upsets>>

\* The second statement for a result's registry or a referral: one deeper.  A
\* result's row names its own entry, a referral's the entry of this item.
EnsureReferred(k) ==
  /\ k.kind = "registry" /\ At(k, "ensure")
  /\ LET w == work[k]
         row == registries[w.reg]
     IN  /\ items' = Ensured(RegistryKey(row.url, w.reg), items[k].depth + 1)
         /\ Moves(k, [w EXCEPT !.i = @ + 1,
                        !.pc = IF row.entry = OwnEntry(k) THEN "referrals" ELSE "results"])
  /\ UNCHANGED <<catalogs, entries, registries, upsets>>

-----------------------------------------------------------------------------
(* Answers, failures, restarts.                                            *)

FetchArtifact(k) ==
  /\ k.kind = "artifact" /\ At(k, "start")
  /\ Moves(k, [work[k] EXCEPT !.pc = "done"])
  /\ UNCHANGED <<catalogs, entries, registries, items, upsets>>

Complete(k) ==
  /\ At(k, "done")
  /\ items' = [items EXCEPT ![k].status = "done"]
  /\ work' = Without(work, k)
  /\ UNCHANGED <<catalogs, entries, registries, upsets>>

\* A request or a statement fails, transiently or for good.
HandlerFails(k) ==
  /\ upsets < MaxUpsets
  /\ k \in DOMAIN work
  /\ \E s \in {"pending", "failed"} : items' = [items EXCEPT ![k].status = s]
  /\ work' = Without(work, k)
  /\ upsets' = upsets + 1
  /\ UNCHANGED <<catalogs, entries, registries>>

\* Faulty variant: what was in flight stays in flight.
Reclaimed_Not(item) == item

Reclaimed(item) ==
  IF item.status = "in_flight" THEN [item EXCEPT !.status = "pending"] ELSE item

CrashRestart ==
  /\ upsets < MaxUpsets
  /\ items' = [k \in DOMAIN items |-> Reclaimed(items[k])]
  /\ work' = [k \in {} |-> Started]
  /\ upsets' = upsets + 1
  /\ UNCHANGED <<catalogs, entries, registries>>

Handle(k) ==
  \/ FetchCatalog(k) \/ FollowEntry(k) \/ EnsureRegistry(k)
  \/ Harvest(k) \/ FollowResult(k) \/ FollowReferral(k) \/ EnsureReferred(k)
  \/ FetchArtifact(k) \/ Complete(k)

Crawl == \E k \in DOMAIN items : Dequeue(k) \/ Handle(k)

Next ==
  \/ Crawl
  \/ \E k \in DOMAIN items : HandlerFails(k)
  \/ CrashRestart

\* The crawl goes on as long as some handler can.
Fairness == WF_vars(Crawl)
Spec == Init /\ [][Next]_vars /\ Fairness

-----------------------------------------------------------------------------
(* Properties.                                                             *)

\* What the i-th entry of catalog row c calls for is on the frontier.
FollowedUp(c, i) ==
  LET e == Document[catalogs[c].url][i]
  IN  \E k \in DOMAIN items :
        /\ k.kind = e.kind /\ k.url = e.url
        /\ CASE e.kind = "catalog"  -> k.of = c
             [] e.kind = "artifact" -> k.of = EntryRow(c, i)
             [] e.kind = "registry" -> registries[k.of].entry = EntryRow(c, i)

\* A registry's results are rows of the catalog that named the registry.
Harvested(c) == \E e \in EntriesOf(c) : entries[e].from # 0

\* What processCatalog says of a repeated fan-out: a catalog_fetch item that is
\* done has followed up every entry of every row saved for it, whatever died in
\* between and whoever else was at work.  But not quite: a fan-out that is
\* repeated after a harvest counts the registry's results with the entries of
\* the document and gives up (handlers.go:401), so that entries behind the one
\* for the registry may be lost.  No others are.
FanOutUnlessHarvested ==
  \A k \in DOMAIN items :
    k.kind = "catalog" /\ items[k].status = "done" /\ FollowsEntries(k) =>
      \A c \in Prior(k) : \A i \in DOMAIN Document[k.url] :
        \/ FollowedUp(c, i)
        \/ Harvested(c) /\ \E j \in 1..(i - 1) : Document[k.url][j].kind = "registry"

\* What is done again is not kept twice: a document met through one parent is
\* one row, however often it is fetched, and an entry of it asks for its
\* registry once, however often the fan-out is repeated.
NothingTwice ==
  /\ \A c, d \in DOMAIN catalogs : catalogs[c] = catalogs[d] => c = d
  /\ \A j, k \in DOMAIN items :
       /\ j.kind = "registry" /\ k.kind = "registry" /\ j.url = k.url
       /\ registries[j.of].entry = registries[k.of].entry
       /\ registries[j.of].from = registries[k.of].from
       => j = k

\* Catalogs do not nest deeper than ard.maxCatalogDepth: from any catalogs row
\* the chain of parents is that short.
Nesting ==
  LET depth[c \in DOMAIN catalogs] ==
        IF catalogs[c].parent = 0 THEN 0 ELSE depth[catalogs[c].parent] + 1
  IN  depth
NestingBounded == \A c \in DOMAIN catalogs : Nesting[c] <= MaxCatalogDepth

\* The crawl of a finite site comes to rest.
ComesToRest ==
  <>[](\A k \in DOMAIN items : items[k].status \in {"done", "failed"})
=============================================================================
