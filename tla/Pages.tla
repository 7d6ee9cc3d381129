-------------------------------- MODULE Pages --------------------------------
(***************************************************************************)
(* page_fetch (src/internal/crawler/handlers.go): what a page of HTML      *)
(* gives the crawl.  The hosts its anchors name get a host_probe, its      *)
(* <link rel="ard"> hints a recorded hit and a catalog_fetch, the catalogs *)
(* in its JSON-LD blocks are ingested on the spot, and its links become    *)
(* page_fetch items one deeper, within a budget of pages for each host.    *)
(* Links form cycles, a row that is done is re-activated by the next       *)
(* enqueue of its key, and only the depth the row then adopts makes the    *)
(* crawl finite.                                                           *)
(*                                                                         *)
(* A handler does one statement at a time and the crawl can die between    *)
(* any two.  The site does not change while the crawl looks at it.  What   *)
(* host_probe, catalog_fetch and registry_harvest do in detail is in       *)
(* HostProbe and Fanout; here each is a step, with the freshness check     *)
(* that a hint disturbs, the results a harvest adds to the inline catalog  *)
(* that names the registry, and without --force.                           *)
(***************************************************************************)
EXTENDS Integers, Sequences, FiniteSets, SequencesExt

CONSTANTS
  Seeds,             \* the pages the crawl is seeded with
  Body,              \* Body[u]: the elements of the page at u, in order
  Readable,          \* the pages robots.txt allows and that are HTML
  HostOf,            \* HostOf[u]: the host in the URL u
  Listing,           \* the registries that answer with results
  NoURL,             \* an href that is empty, malformed or not http(s)
  MaxDepth,          \* crawler.maxDepth
  Budget,            \* crawler.maxPagesPerDomain
  MaxBlocks,         \* maxJSONLDBlocks
  MaxInlineNesting,  \* maxInlineNestingDepth
  MaxCatalogDepth,   \* ard.maxCatalogDepth
  Workers,           \* how many handlers work at the same time
  MaxUpsets          \* bound: crashes, failed handlers and failed statements

Pages == DOMAIN Body

ASSUME SiteAssumption ==
  /\ Seeds \union Readable \subseteq Pages
  /\ Pages \subseteq DOMAIN HostOf /\ NoURL \notin DOMAIN HostOf
  /\ \A u \in Pages : Body[u] \in Seq(Range(Body[u]))
  /\ \A u \in Pages : \A i \in DOMAIN Body[u] :
       /\ Body[u][i].tag \in {"a", "link", "script"}
       /\ Body[u][i].tag = "a" => Body[u][i].ref \in Pages \union {NoURL}
       /\ Body[u][i].tag = "link" => Body[u][i].ref \in DOMAIN HostOf \union {NoURL}
ASSUME LimitsAssumption ==
  {MaxDepth, Budget, MaxBlocks, MaxInlineNesting, MaxCatalogDepth, Workers, MaxUpsets}
    \subseteq Nat

VARIABLES
  items,    \* the frontier rows, by dedup key: [status, depth, tried]
  work,     \* the handlers at work, by the key of their item: [pc, i, j]
  domains,  \* the hosts with a domains row
  fresh,    \* those whose last_probed_at is within the window
  hits,     \* the link_tag hits on record: [host, url]
  inline,   \* the inline catalogs on record: <<page, position>>
  grown,    \* those with a registry's results among their entries
  probed,   \* history: the hosts whose well-known paths were tried
  dropped,  \* history: what was given up with a warning: <<page, host or URL>>
  upsets    \* how much of MaxUpsets is used up

vars == <<items, work, domains, fresh, hits, inline, grown, probed, dropped, upsets>>
rows == <<domains, fresh, hits, inline, grown>>
history == <<probed, dropped>>

Started == [pc |-> "start", i |-> 1, j |-> 1]

\* The dedup keys: for a catalog the document that names it counts as well.
PageKey(u) == [kind |-> "page", of |-> u, parent |-> <<>>]
ProbeKey(h) == [kind |-> "probe", of |-> h, parent |-> <<>>]
CatalogKey(u, doc) == [kind |-> "catalog", of |-> u, parent |-> doc]

NewItem(d) == [status |-> "pending", depth |-> d, tried |-> FALSE]

Init ==
  /\ items = [k \in {PageKey(u) : u \in Seeds} |-> NewItem(0)]
  /\ work = [k \in {} |-> Started]
  /\ domains = {} /\ fresh = {} /\ hits = {} /\ inline = {} /\ grown = {}
  /\ probed = {} /\ dropped = {}
  /\ upsets = 0

-----------------------------------------------------------------------------
(* What a page holds: ExtractLinks and InlineCatalogs.                     *)

Elements(u, tag) == {e \in Range(Body[u]) : e.tag = tag}

\* The distinct URLs of a kind, in a fixed order: sorted, in the code.
Anchors(u) == {e.ref : e \in Elements(u, "a")} \ {NoURL}
Links == [u \in Pages |-> SetToSeq(Anchors(u))]
Hosts == [u \in Pages |-> SetToSeq({HostOf[l] : l \in Anchors(u)})]
Hints ==
  [u \in Pages |->
     SetToSeq({e.ref : e \in {x \in Elements(u, "link") : x.ard}} \ {NoURL})]

\* A script counts when it is JSON-LD and its text neither empty nor too long.
Usable(e) == e.tag = "script" /\ e.jsonld /\ e.size = "fits"
Blocks(u) ==
  LET all == SelectSeq(Body[u], Usable)
  IN  SubSeq(all, 1, IF Len(all) < MaxBlocks THEN Len(all) ELSE MaxBlocks)

\* A decoded JSON-LD value is an array, a @graph wrapper, a catalog (which is
\* not searched further) or anything else.
Opened(node) ==
  CASE node.is = "array"   -> node.of
    [] node.is = "graph"   -> <<node.of>>
    [] node.is = "catalog" -> <<node>>
    [] OTHER               -> <<>>

\* The catalogs in it, in order: it is opened as often as the nesting allows.
InlineCatalogs(node) ==
  LET level[n \in 0..MaxInlineNesting] ==
        IF n = 0 THEN <<node>>
        ELSE FlattenSeq([i \in DOMAIN level[n - 1] |-> Opened(level[n - 1][i])])
      Found(x) == x.is = "catalog"
  IN  SelectSeq(level[MaxInlineNesting], Found)

Candidates ==
  [u \in Pages |->
     FlattenSeq([b \in DOMAIN Blocks(u) |-> InlineCatalogs(Blocks(u)[b].node)])]

\* (They are lists of lists: for the proofs, to which SelectSeq is unknown.)
ASSUME ListsAssumption ==
  \A u \in Pages :
    /\ Candidates[u] \in Seq(Range(Candidates[u]))
    /\ \A c \in Range(Candidates[u]) :
         /\ c.entries \in Seq(Range(c.entries))
         /\ \A j \in DOMAIN c.entries : c.entries[j].kind \in {"catalog", "registry", "artifact"}

\* The entries of an inline catalog, in order, and what the j-th calls for: a
\* catalog is one for this document, a registry or an artifact for this entry.
Entries(doc) == Candidates[doc[1]][doc[2]].entries

FollowUpKey(doc, j) ==
  LET e == Entries(doc)[j]
  IN  [kind |-> e.kind, of |-> e.url,
       parent |-> IF e.kind = "catalog" THEN doc ELSE <<doc[1], doc[2], j>>]

-----------------------------------------------------------------------------
(* The frontier, one statement each: FrontierRows and Frontier have the    *)
(* statements of an enqueue.                                               *)

With(f, k, v) == [x \in DOMAIN f \union {k} |-> IF x = k THEN v ELSE f[x]]
Without(f, k) == [x \in DOMAIN f \ {k} |-> f[x]]
Finished(k) == items[k].status \in {"done", "failed"}

\* Faulty variant: the re-activated row keeps the depth it had.
ReactivatedDepth_Kept(k, d) == items[k].depth

\* A re-activated row adopts the depth of the enqueue.
ReactivatedDepth(k, d) == d

Enqueued(k, d) ==
  IF k \notin DOMAIN items THEN With(items, k, NewItem(d))
  ELSE IF Finished(k) THEN With(items, k, NewItem(ReactivatedDepth(k, d)))
  ELSE items

\* Engine.ensure and, with failed rows taken up again, Engine.resume.
Ensured(k, d) == IF k \in DOMAIN items THEN items ELSE With(items, k, NewItem(d))
Resumed(ks, d) ==
  [k \in DOMAIN items \union ks |->
     IF k \in DOMAIN items /\ ~(k \in ks /\ items[k].status = "failed")
     THEN items[k] ELSE NewItem(d)]

PagesOf(h) == {k \in DOMAIN items : k.kind = "page" /\ HostOf[k.of] = h}

\* EnqueueBudgeted: a host at its budget gets no new row.
WithinBudget(k) == Cardinality(PagesOf(HostOf[k.of])) < Budget \/ k \in DOMAIN items

-----------------------------------------------------------------------------
(* The page_fetch handler.                                                 *)

At(k, pc) == k \in DOMAIN work /\ work[k].pc = pc
Goes(k, pc) == work' = [work EXCEPT ![k] = [pc |-> pc, i |-> @.i, j |-> 1]]
Turns(k, pc) == work' = [work EXCEPT ![k] = [pc |-> pc, i |-> 1, j |-> 1]]
Proceeds(k, pc) == work' = [work EXCEPT ![k] = [pc |-> pc, i |-> @.i + 1, j |-> 1]]
Nth(k, list) == list[work[k].i]
Over(k, list) == work[k].i > Len(list)

\* A statement whose failure is logged and does not end the handler.
Warned(k, what) ==
  /\ upsets < MaxUpsets
  /\ upsets' = upsets + 1
  /\ dropped' = dropped \union {<<k.of, what>>}

Dequeue(k) ==
  /\ items[k].status = "pending"
  /\ Cardinality(DOMAIN work) < Workers
  /\ items' = [items EXCEPT ![k].status = "in_flight"]
  /\ work' = With(work, k, Started)
  /\ UNCHANGED <<rows, history, upsets>>

FetchPage(k) ==
  /\ k.kind = "page" /\ At(k, "start")
  /\ Turns(k, IF k.of \in Readable THEN "hosts" ELSE "end")
  /\ UNCHANGED <<items, rows, history, upsets>>

\* A host whose row cannot be written is left out.
UpsertHost(k) ==
  /\ At(k, "hosts")
  /\ IF Over(k, Hosts[k.of])
     THEN Turns(k, "hints") /\ UNCHANGED <<domains, dropped, upsets>>
     ELSE LET h == Nth(k, Hosts[k.of])
          IN  \/ /\ domains' = domains \union {h}
                 /\ Goes(k, "probe")
                 /\ UNCHANGED <<dropped, upsets>>
              \/ /\ Warned(k, h)
                 /\ Proceeds(k, "hosts")
                 /\ UNCHANGED domains
  /\ UNCHANGED <<items, fresh, hits, inline, grown, probed>>

EnqueueProbe(k) ==
  /\ At(k, "probe")
  /\ items' = Enqueued(ProbeKey(Nth(k, Hosts[k.of])), 0)
  /\ Proceeds(k, "hosts")
  /\ UNCHANGED <<rows, history, upsets>>

UpsertHintHost(k) ==
  /\ At(k, "hints")
  /\ IF Over(k, Hints[k.of])
     THEN Turns(k, "inline") /\ UNCHANGED <<domains, dropped, upsets>>
     ELSE LET u == Nth(k, Hints[k.of])
          IN  \/ /\ domains' = domains \union {HostOf[u]}
                 /\ Goes(k, "hit")
                 /\ UNCHANGED <<dropped, upsets>>
              \/ /\ Warned(k, u)
                 /\ Proceeds(k, "hints")
                 /\ UNCHANGED domains
  /\ UNCHANGED <<items, fresh, hits, inline, grown, probed>>

\* RecordProbe moves last_probed_at of the hint's host.
RecordHit(k) ==
  /\ At(k, "hit")
  /\ LET u == Nth(k, Hints[k.of])
     IN  \/ /\ hits' = hits \union {[host |-> HostOf[u], url |-> u]}
            /\ fresh' = fresh \union {HostOf[u]}
            /\ UNCHANGED upsets
         \/ /\ upsets < MaxUpsets /\ upsets' = upsets + 1
            /\ UNCHANGED <<hits, fresh>>
  /\ Goes(k, "catalog")
  /\ UNCHANGED <<items, domains, inline, grown, history>>

EnqueueHinted(k) ==
  /\ At(k, "catalog")
  /\ items' = Enqueued(CatalogKey(Nth(k, Hints[k.of]), <<>>), 0)
  /\ Proceeds(k, "hints")
  /\ UNCHANGED <<rows, history, upsets>>

\* Faulty variant: a deep page has no catalog depth left to spend.
InlineDepth_OfPage(k) == items[k].depth

\* An inline catalog is a top-level document, however deep its page.
InlineDepth(k) == 0

\* A repeated fan-out counts the entries on record, a registry's results
\* included, and is given up when they are not the document's.
FollowsEntries(k, doc) == InlineDepth(k) < MaxCatalogDepth /\ doc \notin grown

\* The position of an inline catalog is part of its source URL: a catalog that
\* is on record is not saved again.
SaveInline(k) ==
  /\ At(k, "inline")
  /\ IF Over(k, Candidates[k.of])
     THEN Turns(k, "links") /\ UNCHANGED inline
     ELSE LET doc == <<k.of, work[k].i>>
          IN  /\ inline' = inline \union {doc}
              /\ IF FollowsEntries(k, doc) THEN Goes(k, "nested") ELSE Proceeds(k, "inline")
  /\ UNCHANGED <<items, domains, fresh, hits, grown, history, upsets>>

\* The j-th entry: a registry's row, which is found or made first, is in Fanout.
FollowInline(k) ==
  /\ At(k, "nested")
  /\ LET doc == <<k.of, work[k].i>>
         j == work[k].j
         key == FollowUpKey(doc, j)
     IN  IF j > Len(Entries(doc))
         THEN Proceeds(k, "inline") /\ UNCHANGED items
         ELSE /\ items' = Ensured(key, IF key.kind = "catalog" THEN InlineDepth(k) + 1 ELSE 0)
              /\ work' = [work EXCEPT ![k].j = j + 1]
  /\ UNCHANGED <<rows, history, upsets>>

\* Faulty variant: a link costs nothing.
ChildDepth_Same(k) == items[k].depth

ChildDepth(k) == items[k].depth + 1

FollowsLinks(k) == items[k].depth < MaxDepth

\* A link that cannot be enqueued is left out.
FollowLink(k) ==
  /\ At(k, "links")
  /\ IF ~FollowsLinks(k) \/ Over(k, Links[k.of])
     THEN Turns(k, "end") /\ UNCHANGED <<items, dropped, upsets>>
     ELSE LET u == Nth(k, Links[k.of])
          IN  /\ \/ /\ items' = IF WithinBudget(PageKey(u))
                                THEN Enqueued(PageKey(u), ChildDepth(k)) ELSE items
                    /\ UNCHANGED <<dropped, upsets>>
                 \/ Warned(k, u) /\ UNCHANGED items
              /\ Proceeds(k, "links")
  /\ UNCHANGED <<rows, probed>>

-----------------------------------------------------------------------------
(* The other items, answers, failures, restarts.                           *)

\* Faulty variant: a host with a row has been dealt with.
SkipsProbe_Known(k) == k.of \in domains

\* The freshness check, which a repeated item does without.
SkipsProbe(k) == k.of \in fresh /\ ~items[k].tried

KnownHits(h) == {CatalogKey(x.url, <<>>) : x \in {y \in hits : y.host = h}}

ProbeHost(k) ==
  /\ k.kind = "probe" /\ At(k, "start")
  /\ IF SkipsProbe(k)
     THEN items' = Resumed(KnownHits(k.of), 0) /\ UNCHANGED <<domains, fresh, probed>>
     ELSE /\ domains' = domains \union {k.of}
          /\ fresh' = fresh \union {k.of}
          /\ probed' = probed \union {k.of}
          /\ UNCHANGED items
  /\ Turns(k, "end")
  /\ UNCHANGED <<hits, inline, grown, dropped, upsets>>

\* A probe with an inconclusive answer puts last_probed_at back and fails.
ProbeInconclusive(k) ==
  /\ upsets < MaxUpsets
  /\ k.kind = "probe" /\ At(k, "start") /\ ~SkipsProbe(k)
  /\ domains' = domains \union {k.of}
  /\ probed' = probed \union {k.of}
  /\ \E s \in {"pending", "failed"} :
       items' = [items EXCEPT ![k] = [@ EXCEPT !.status = s, !.tried = TRUE]]
  /\ work' = Without(work, k)
  /\ upsets' = upsets + 1
  /\ UNCHANGED <<fresh, hits, inline, grown, dropped>>

FetchCatalog(k) ==
  /\ k.kind \in {"catalog", "artifact"} /\ At(k, "start")
  /\ Turns(k, "end")
  /\ UNCHANGED <<items, rows, history, upsets>>

\* The results become entries of the catalog that names the
\* registry.
HarvestRegistry(k) ==
  /\ k.kind = "registry" /\ At(k, "start")
  /\ grown' = IF k.of \in Listing THEN grown \union {<<k.parent[1], k.parent[2]>>} ELSE grown
  /\ Turns(k, "end")
  /\ UNCHANGED <<items, domains, fresh, hits, inline, history, upsets>>

Complete(k) ==
  /\ At(k, "end")
  /\ items' = [items EXCEPT ![k].status = "done"]
  /\ work' = Without(work, k)
  /\ UNCHANGED <<rows, history, upsets>>

\* A request or a statement that matters fails, transiently or for good; of a
\* host_probe and a registry_harvest also one that follows what they record.
\* Whether its item was tried before, only a host_probe asks.
HandlerFails(k) ==
  /\ upsets < MaxUpsets
  /\ k \in DOMAIN work
  /\ At(k, "end") => k.kind \in {"probe", "registry"}
  /\ \E s \in {"pending", "failed"} :
       items' = [items EXCEPT ![k] = [@ EXCEPT !.status = s, !.tried = (k.kind = "probe")]]
  /\ work' = Without(work, k)
  /\ upsets' = upsets + 1
  /\ UNCHANGED <<rows, history>>

CrashRestart ==
  /\ upsets < MaxUpsets
  /\ items' = [k \in DOMAIN items |->
                 IF items[k].status = "in_flight"
                 THEN [items[k] EXCEPT !.status = "pending"] ELSE items[k]]
  /\ work' = [k \in {} |-> Started]
  /\ upsets' = upsets + 1
  /\ UNCHANGED <<rows, history>>

Handle(k) ==
  \/ FetchPage(k) \/ UpsertHost(k) \/ EnqueueProbe(k)
  \/ UpsertHintHost(k) \/ RecordHit(k) \/ EnqueueHinted(k)
  \/ SaveInline(k) \/ FollowInline(k) \/ FollowLink(k)
  \/ ProbeHost(k) \/ FetchCatalog(k) \/ HarvestRegistry(k) \/ Complete(k)

Crawl == \E k \in DOMAIN items : Dequeue(k) \/ Handle(k)

Next ==
  \/ Crawl
  \/ \E k \in DOMAIN items : HandlerFails(k) \/ ProbeInconclusive(k)
  \/ CrashRestart

\* The crawl goes on as long as some handler can.
Fairness == WF_vars(Crawl)
Spec == Init /\ [][Next]_vars /\ Fairness

-----------------------------------------------------------------------------
(* Properties.                                                             *)

\* What the j-th entry of an inline catalog calls for is on the frontier, or a
\* harvest came between: behind an entry for a registry that was harvested for
\* this catalog, a fan-out that died half-way is not taken up again.
FollowedUp(doc, j) ==
  \/ FollowUpKey(doc, j) \in DOMAIN items
  \/ /\ doc \in grown
     /\ \E r \in 1..(j - 1) : /\ Entries(doc)[r].kind = "registry"
                             /\ FollowUpKey(doc, r) \in DOMAIN items

\* The page that completes has handed on what it holds, whatever died before:
\* hosts, hints and links have an item unless a warning gave them up or the
\* host's budget is spent, and every inline catalog is stored and followed up,
\* however deep the page.  Not quite every entry: processCatalog gives a
\* repeated fan-out up once a registry's results are among the entries
\* (handlers.go:401), and the page completes all the same.
HarvestComplete ==
  \A k \in DOMAIN items :
    k.kind = "page" /\ items[k].status = "done" /\ k.of \in Readable =>
      /\ \A h \in Range(Hosts[k.of]) :
           ProbeKey(h) \in DOMAIN items \/ <<k.of, h>> \in dropped
      /\ \A u \in Range(Hints[k.of]) :
           CatalogKey(u, <<>>) \in DOMAIN items \/ <<k.of, u>> \in dropped
      /\ \A n \in DOMAIN Candidates[k.of] :
           /\ <<k.of, n>> \in inline
           /\ \A j \in DOMAIN Entries(<<k.of, n>>) : FollowedUp(<<k.of, n>>, j)
      /\ FollowsLinks(k) => \A u \in Anchors(k.of) :
           \/ PageKey(u) \in DOMAIN items
           \/ <<k.of, u>> \in dropped
           \/ Cardinality(PagesOf(HostOf[u])) >= Budget

\* Walks[n]: the pages some walk of n links leads to from a seed.
Walks ==
  LET walks[n \in 0..MaxDepth] ==
        IF n = 0 THEN Seeds
        ELSE UNION {Anchors(u) : u \in walks[n - 1] \intersect Readable}
  IN  walks

\* The depth of a page_fetch row, re-activated or not, is the length of a
\* walk that leads to the page from a seed, and none is longer than
\* crawler.maxDepth.
DepthIsDistance ==
  \A k \in DOMAIN items :
    k.kind = "page" => items[k].depth \in 0..MaxDepth /\ k.of \in Walks[items[k].depth]

\* A host whose host_probe is done has had its well-known paths tried, unless
\* a page's hint named a catalog on it: RecordProbe makes the host look
\* probed, and its own document, if it is another one, is not looked for.
\* (Whether the attempt was conclusive is HostProbe's subject.)
UnprobedOnlyForHint ==
  \A k \in DOMAIN items :
    k.kind = "probe" /\ items[k].status = "done" =>
      k.of \in probed \/ \E x \in hits : x.host = k.of

\* The crawl of a finite site with cycles of links comes to rest.
ComesToRest == <>[](\A k \in DOMAIN items : Finished(k))
=============================================================================
