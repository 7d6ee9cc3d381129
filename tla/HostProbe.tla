----------------------------- MODULE HostProbe ------------------------------
(***************************************************************************)
(* One host's life in the crawl: the host_probe handler, the catalog_fetch *)
(* handlers of the documents it advertises, the page_fetch handlers that   *)
(* meet a <link rel="ard"> hint for it, the `ardvark probe' command, and   *)
(* the rows they leave (domains, probes, catalogs, frontier_items).  One   *)
(* action per statement, so that the process can die between any two, and  *)
(* be interrupted (SIGINT) anywhere: its requests are cancelled then, its  *)
(* statements are not.                                                     *)
(*                                                                         *)
(* The crawl is a single process (sqlite): a handler works on its frontier *)
(* item until it answers or the process dies, as Frontier shows.  Catalog  *)
(* content is reduced to its verdict, which the content hash determines.   *)
(***************************************************************************)
EXTENDS Integers, FiniteSets

CONSTANTS
  URLs,            \* the URLs that may be fetched as catalog documents
  RobotsURL,       \* the host's robots.txt, which is none
  Aliases,         \* the well-known URLs are Aliases[1] and Aliases[2]
  Agentmap,        \* the URLs the host's Agentmap directives name
  Own,             \* the URLs whose documents this host serves itself
  Hints,           \* the URLs that crawled pages name in link tags
  AliasAnswers,    \* AliasAnswers[i]: what alias i may answer
  AgentmapAnswers, \* what the Agentmap lookup may end in
  Documents,       \* Documents[u]: what fetching u may return
  Forced,          \* Options.Force
  MaxAttempts,     \* the retry cap for transient failures
  MaxUpsets        \* bound: how often the host is enqueued again, a page hints
                   \* at it, `ardvark probe' writes a row, the process dies or
                   \* is interrupted, taken together

\* "error" is a transient failure (429, 5xx, timeout), "refused" a permanent
\* one that is not a 4xx: body too large, too many redirects, no such host, a
\* wait for the rate limiter longer than the request may last, or cancelled.
Outcomes == {"hit", "miss", "error", "refused"}
Verdicts == {"valid", "invalid"}

ASSUME SiteAssumption ==
  /\ RobotsURL \in URLs
  /\ Aliases \in [1..2 -> URLs \ {RobotsURL}]
  /\ {Agentmap, Own, Hints} \subseteq SUBSET URLs
  /\ AliasAnswers \in [1..2 -> SUBSET Outcomes]
  /\ AgentmapAnswers \subseteq Outcomes
  /\ Documents \in [URLs -> SUBSET (Verdicts \union {"error", "refused"})]
ASSUME ParameterAssumption ==
  /\ Forced \in BOOLEAN
  /\ MaxAttempts \in Nat \ {0}
  /\ MaxUpsets \in Nat

VARIABLES
  lastProbed,  \* domains.last_probed_at against the refresh window
  ardStatus,   \* domains.ard_status
  hits,        \* the probe rows with outcome hit: URL, and who recorded it
  item,        \* the host_probe row of the frontier
  handler,     \* the handleHostProbe call working on it
  fetchItem,   \* fetchItem[u]: the catalog_fetch row of u
  fetcher,     \* fetcher[u]: the handleCatalogFetch call working on it
  stored,      \* stored[u]: the verdict of the latest catalogs row of u
  page,        \* page[u]: the page_fetch item whose page hints at u
  stopping,    \* the context of the running crawl is cancelled
  overlooked,  \* auxiliary: the hits on record, without a frontier row, that
               \* the attempt which completed the item did not find again
  upsets       \* how much of MaxUpsets is used up

domainVars == <<lastProbed, ardStatus, hits>>
fetchVars == <<fetchItem, fetcher, stored>>
runVars == <<stopping, overlooked>>
vars == <<lastProbed, ardStatus, hits, item, handler, fetchItem, fetcher,
          stored, page, stopping, overlooked, upsets>>

\* last_probed_at is "never", "fresh" or "stale", a frontier row [status,
\* attempts] with the status "absent" if there is none, and a result of the
\* probe [method, outcome, url].  What a call's requests ended in is in "seen",
\* which only the properties read.
NoURL == "none"
NoEnds == <<"none", "none", "none">>

Idle == [pc |-> "idle", todo |-> {}, url |-> NoURL, hadHit |-> FALSE,
         retry |-> FALSE, previous |-> "never", seen |-> NoEnds]

NoFetch == [pc |-> "idle", doc |-> "none"]

NewRow == [status |-> "absent", attempts |-> 0]

Init ==
  /\ lastProbed = "never"
  /\ ardStatus = "unprobed"
  /\ hits = {}
  /\ item = [NewRow EXCEPT !.status = "pending"]
  /\ handler = Idle
  /\ fetchItem = [u \in URLs |-> NewRow]
  /\ fetcher = [u \in URLs |-> NoFetch]
  /\ stored = [u \in URLs |-> "none"]
  /\ page = [u \in Hints |-> "pending"]
  /\ stopping = FALSE
  /\ overlooked = {}
  /\ upsets = 0

-----------------------------------------------------------------------------
(* The frontier, as the handlers see it.                                   *)

Enqueued(r) ==
  IF r.status \in {"absent", "done", "failed"}
  THEN [status |-> "pending", attempts |-> 0] ELSE r

Resumed(r) ==
  IF r.status \in {"absent", "failed"}
  THEN [status |-> "pending", attempts |-> 0] ELSE r

Failed(r, limit) ==
  [status   |-> IF r.attempts + 1 >= limit THEN "failed" ELSE "pending",
   attempts |-> r.attempts + 1]

\* A handler's error, of an item with this retry limit: after an interrupt the
\* item goes back uncharged, whatever the error is.
Erred(r, limit) ==
  IF stopping THEN [r EXCEPT !.status = "pending"] ELSE Failed(r, limit)

Begun(r) == [r EXCEPT !.status = "in_flight"]
Completed(r) == [r EXCEPT !.status = "done"]

\* Faulty variant: a start does not take back what a dead process held.
Reclaimed_Not(r) == r

Reclaimed(r) == IF r.status = "in_flight" THEN [r EXCEPT !.status = "pending"] ELSE r

-----------------------------------------------------------------------------
(* handleHostProbe.                                                        *)

EnqueueProbe ==
  /\ upsets < MaxUpsets
  /\ item' = Enqueued(item)
  /\ item' # item
  /\ upsets' = upsets + 1
  /\ UNCHANGED <<domainVars, handler, fetchVars, page, runVars>>

\* Faulty variant: a recently probed host is skipped without looking at its hits.
Recover_Skips == [Idle EXCEPT !.pc = "recover"]

\* reenqueueKnownCatalogHits loads every hit on record.
Recover == [Idle EXCEPT !.pc = "recover", !.todo = {h.url : h \in hits}]

\* The item is dequeued; its handler may only get to run after an interrupt.
DequeueProbe ==
  /\ ~stopping
  /\ item.status = "pending"
  /\ item' = Begun(item)
  /\ handler' = [Idle EXCEPT !.pc = "start"]
  /\ UNCHANGED <<domainVars, fetchVars, page, runVars, upsets>>

\* A first attempt at a host probed within the refresh window only recovers
\* what was found then.  A freshness lookup that fails does not stop the probe.
StartProbe ==
  /\ handler.pc = "start"
  /\ \/ handler' = [Idle EXCEPT !.pc = "upsert"]
     \/ ~Forced /\ item.attempts = 0 /\ lastProbed = "fresh" /\ handler' = Recover
  /\ UNCHANGED <<domainVars, item, fetchVars, page, runVars, upsets>>

\* reenqueueKnownCatalogHits, one Resume per step.
RecoverHit(u) ==
  /\ handler.pc = "recover"
  /\ u \in handler.todo
  /\ fetchItem' = [fetchItem EXCEPT ![u] = Resumed(@)]
  /\ handler' = [handler EXCEPT !.todo = @ \ {u}]
  /\ UNCHANGED <<domainVars, item, fetcher, stored, page, runVars, upsets>>

\* What the requests of an attempt may end in, the aliases first: what the host
\* answers, or from some request on "refused" because they were cancelled.
\* Only a robots.txt in the cache is read without a request.
Attempts ==
  {t \in AliasAnswers[1] \X AliasAnswers[2] \X AgentmapAnswers :
     t[3] = "hit" => Agentmap # {}}
Cut(t) ==
  LET agentmap == {"refused"} \union ({t[3]} \ {"error"})
  IN {<<t[1], t[2], "refused">>}
       \union {<<t[1], "refused", m>> : m \in agentmap}
       \union {<<"refused", "refused", m>> : m \in agentmap}
Ends == Attempts \union (IF stopping THEN UNION {Cut(t) : t \in Attempts} ELSE {})

\* Faulty variant: a miss stands for the pair although the other alias failed.
WellKnown_MissFirst(a) ==
  CASE a[1] = "hit"                 -> 1
    [] a[1] # "hit" /\ a[2] = "hit" -> 2
    [] OTHER -> IF a[1] # "miss" /\ a[2] = "miss" THEN 2 ELSE 1

\* The alias whose result stands for the pair: a hit, else the first error
\* (transient or not), else the first miss.
WellKnown(a) ==
  CASE a[1] = "hit"                 -> 1
    [] a[1] # "hit" /\ a[2] = "hit" -> 2
    [] OTHER -> IF a[1] = "miss" /\ a[2] # "miss" THEN 2 ELSE 1

\* probe.Probe: one result for each method, a hit flattened into its URLs.
Results(a, m) ==
  {[method |-> "well_known", outcome |-> a[WellKnown(a)],
    url |-> Aliases[WellKnown(a)]]} \union
  {[method |-> "robots_agentmap", outcome |-> m, url |-> u] :
     u \in IF m = "hit" THEN Agentmap ELSE {RobotsURL}}

\* UpsertDomain, whose row says what last_probed_at was before this attempt,
\* and the requests.
ProbeHost(t) ==
  /\ handler.pc = "upsert"
  /\ handler' = [handler EXCEPT !.pc = "record", !.todo = Results(t, t[3]),
                                !.previous = lastProbed, !.seen = t]
  /\ UNCHANGED <<domainVars, item, fetchVars, page, runVars, upsets>>

\* One transaction: the probe row, and the domain's last_probed_at.
Recorded(u, outcome, by) ==
  /\ lastProbed' = "fresh"
  /\ hits' = IF outcome = "hit"
             THEN hits \union {[url |-> u, by |-> by]} ELSE hits
  /\ UNCHANGED ardStatus

\* The results are recorded in order, the well-known one first.
Turn(r) == \A q \in handler.todo :
             q.method = "well_known" => r.method = "well_known"

RecordMiss(r) ==
  /\ handler.pc = "record"
  /\ Turn(r)
  /\ r.outcome # "hit"
  /\ Recorded(r.url, r.outcome, "probe")
  /\ handler' = [handler EXCEPT !.todo = @ \ {r},
                                !.retry = @ \/ r.outcome = "error"]
  /\ UNCHANGED <<item, fetchVars, page, runVars, upsets>>

RecordHit(r) ==
  /\ handler.pc = "record"
  /\ Turn(r)
  /\ r.outcome = "hit"
  /\ Recorded(r.url, r.outcome, "probe")
  /\ handler' = [handler EXCEPT !.pc = "resume", !.todo = @ \ {r},
                                !.url = r.url, !.hadHit = TRUE]
  /\ UNCHANGED <<item, fetchVars, page, runVars, upsets>>

ResumeFetch ==
  /\ handler.pc = "resume"
  /\ fetchItem' = [fetchItem EXCEPT ![handler.url] = Resumed(@)]
  /\ handler' = [handler EXCEPT !.pc = "record", !.url = NoURL]
  /\ UNCHANGED <<domainVars, item, fetcher, stored, page, runVars, upsets>>

\* Faulty variant: the host counts as advertising whatever is known about it.
Promoted_Always(s) == "advertised"

\* PromoteDomainAdvertised: a conditional UPDATE.
Promoted(s) == IF s \in {"unprobed", "not_found"} THEN "advertised" ELSE s

ProbedStatus ==
  CASE handler.hadHit                    -> Promoted(ardStatus)
    [] ~handler.hadHit /\ ~handler.retry -> "not_found"
    [] OTHER                             -> ardStatus

\* Either write may fail: it is logged and the handler goes on.
SetProbedStatus ==
  /\ handler.pc = "record"
  /\ handler.todo = {}
  /\ ardStatus' \in {ProbedStatus, ardStatus}
  /\ handler' = [handler EXCEPT !.pc = IF handler.retry THEN "restore" ELSE "done"]
  /\ UNCHANGED <<lastProbed, hits, item, fetchVars, page, runVars, upsets>>

\* RestoreDomainLastProbedAt, before the transient error is returned.
RestoreLastProbed ==
  /\ handler.pc = "restore"
  /\ lastProbed' = handler.previous
  /\ handler' = [handler EXCEPT !.pc = "retry"]
  /\ UNCHANGED <<ardStatus, hits, item, fetchVars, page, runVars, upsets>>

\* The attempt has ended without a transient failure and without this hit: the
\* host has changed its answer, or the requests were cancelled.
Missed(u) ==
  /\ fetchItem[u].status = "absent"
  /\ \A r \in Results(handler.seen, handler.seen[3]) :
       r.outcome # "error" /\ ~(r.outcome = "hit" /\ r.url = u)

AnswerProbe ==
  /\ \/ /\ handler.pc = "done"
        /\ item' = Completed(item)
        /\ overlooked' = {h.url : h \in {g \in hits : g.by = "probe" /\ Missed(g.url)}}
     \/ /\ \/ handler.pc = "recover" /\ handler.todo = {} /\ item' = Completed(item)
           \/ handler.pc = "retry" /\ item' = Erred(item, MaxAttempts)
        /\ UNCHANGED overlooked
  /\ handler' = Idle
  /\ UNCHANGED <<domainVars, fetchVars, page, stopping, upsets>>

\* A statement fails: the handler returns the error, which is not transient.
ProbeError ==
  /\ handler.pc \in {"recover", "upsert", "record", "resume", "restore"}
  /\ item' = Erred(item, 1)
  /\ handler' = Idle
  /\ UNCHANGED <<domainVars, fetchVars, page, runVars, upsets>>

\* The refresh window passes for every timestamp taken so far.
Aged(t) == IF t = "fresh" THEN "stale" ELSE t
WindowPasses ==
  /\ lastProbed = "fresh" \/ handler.previous = "fresh"
  /\ lastProbed' = Aged(lastProbed)
  /\ handler' = [handler EXCEPT !.previous = Aged(@)]
  /\ UNCHANGED <<ardStatus, hits, item, fetchVars, page, runVars, upsets>>

-----------------------------------------------------------------------------
(* handleCatalogFetch and the part of processCatalog that sets the status. *)

FetchFails(u, limit) ==
  /\ ~stopping
  /\ fetchItem[u].status = "pending"
  /\ fetchItem' = [fetchItem EXCEPT ![u] = Failed(@, limit)]
  /\ UNCHANGED <<domainVars, item, handler, fetcher, stored, page, runVars, upsets>>

\* A catalog_fetch item is dequeued and its document requested.  If the request
\* is cancelled, the item goes back as it was, which leaves no trace.
FetchDocument(u) ==
  \/ /\ ~stopping
     /\ fetchItem[u].status = "pending"
     /\ \E d \in Documents[u] \intersect Verdicts :
          fetcher' = [fetcher EXCEPT ![u] = [pc |-> "save", doc |-> d]]
     /\ fetchItem' = [fetchItem EXCEPT ![u] = Begun(@)]
     /\ UNCHANGED <<domainVars, item, handler, stored, page, runVars, upsets>>
  \/ "error" \in Documents[u] /\ FetchFails(u, MaxAttempts)
  \/ "refused" \in Documents[u] /\ FetchFails(u, 1)

\* An unchanged document is not saved again, and its verdict not written again.
SaveCatalog(u) ==
  /\ fetcher[u].pc = "save"
  /\ \/ /\ ~Forced /\ stored[u] = fetcher[u].doc
        /\ fetcher' = [fetcher EXCEPT ![u].pc = "done"]
        /\ UNCHANGED stored
     \/ /\ Forced \/ stored[u] # fetcher[u].doc
        /\ fetcher' = [fetcher EXCEPT ![u].pc = "status"]
        /\ stored' = [stored EXCEPT ![u] = fetcher[u].doc]
  /\ UNCHANGED <<domainVars, item, handler, fetchItem, page, runVars, upsets>>

ArdStatus(doc) == IF doc = "valid" THEN "found_valid" ELSE "found_invalid"

\* UpdateDomainARDStatus on the serving host; a failure is only logged.
SetVerdict(u) ==
  /\ fetcher[u].pc = "status"
  /\ ardStatus' \in {ardStatus,
                     IF u \in Own THEN ArdStatus(fetcher[u].doc) ELSE ardStatus}
  /\ fetcher' = [fetcher EXCEPT ![u].pc = "done"]
  /\ UNCHANGED <<lastProbed, hits, item, handler, fetchItem, stored, page, runVars, upsets>>

CompleteFetch(u) ==
  /\ fetcher[u].pc = "done"
  /\ fetchItem' = [fetchItem EXCEPT ![u] = Completed(@)]
  /\ fetcher' = [fetcher EXCEPT ![u] = NoFetch]
  /\ UNCHANGED <<domainVars, item, handler, stored, page, runVars, upsets>>

FetchError(u) ==
  /\ fetcher[u].pc = "save"
  /\ fetchItem' = [fetchItem EXCEPT ![u] = Erred(fetchItem[u], 1)]
  /\ fetcher' = [fetcher EXCEPT ![u] = NoFetch]
  /\ UNCHANGED <<domainVars, item, handler, stored, page, runVars, upsets>>

Fetch(u) ==
  \/ FetchDocument(u) \/ SaveCatalog(u) \/ SetVerdict(u)
  \/ CompleteFetch(u)

-----------------------------------------------------------------------------
(* The other writers.                                                      *)

\* handlePageFetch meets a hint.  A failed RecordProbe is only logged; a failed
\* enqueue fails the page for good, or after an interrupt hands it back.
RecordHint(u) ==
  /\ upsets < MaxUpsets
  /\ upsets' = upsets + 1
  /\ page[u] = "pending"
  /\ page' = [page EXCEPT ![u] = "recorded"]
  /\ Recorded(u, "hit", "link") \/ UNCHANGED domainVars
  /\ UNCHANGED <<item, handler, fetchVars, runVars>>

EnqueueHint(u) ==
  /\ page[u] = "recorded"
  /\ \/ /\ page' = [page EXCEPT ![u] = "done"]
        /\ fetchItem' = [fetchItem EXCEPT ![u] = Enqueued(@)]
     \/ /\ page' = [page EXCEPT ![u] = IF stopping THEN "pending" ELSE "done"]
        /\ UNCHANGED fetchItem
  /\ UNCHANGED <<domainVars, item, handler, fetcher, stored, runVars, upsets>>

\* `ardvark probe' records a result under the URL that was asked, which for an
\* Agentmap hit is robots.txt; it enqueues nothing and restores nothing.  Its
\* two rows are two such steps.
CommandProbe(u, outcome) ==
  /\ upsets < MaxUpsets
  /\ Recorded(u, outcome, "command")
  /\ upsets' = upsets + 1
  /\ UNCHANGED <<item, handler, fetchVars, page, runVars>>

\* SIGINT cancels the context of Run.
Interrupt ==
  /\ ~stopping
  /\ upsets < MaxUpsets
  /\ upsets' = upsets + 1
  /\ stopping' = TRUE
  /\ UNCHANGED <<domainVars, item, handler, fetchVars, page, overlooked>>

\* The next start of the crawl: Run reclaims what was in flight.
Started ==
  /\ stopping' = FALSE
  /\ handler' = Idle
  /\ fetcher' = [u \in URLs |-> NoFetch]
  /\ item' = Reclaimed(item)
  /\ fetchItem' = [u \in DOMAIN fetchItem |-> Reclaimed(fetchItem[u])]
  /\ page' = [u \in Hints |-> IF page[u] = "recorded" THEN "pending" ELSE page[u]]
  /\ UNCHANGED <<domainVars, stored, overlooked>>

\* The interrupted process has waited for its handlers.
StartAgain ==
  /\ stopping
  /\ handler.pc = "idle"
  /\ \A u \in URLs : fetcher[u].pc = "idle"
  /\ \A u \in Hints : page[u] # "recorded"
  /\ Started
  /\ UNCHANGED upsets

\* The process dies.
CrashRestart ==
  /\ upsets < MaxUpsets
  /\ upsets' = upsets + 1
  /\ Started

Probe ==
  \/ DequeueProbe \/ StartProbe \/ ResumeFetch
  \/ \E u \in URLs : RecoverHit(u)
  \/ \E t \in Ends : ProbeHost(t)
  \/ \E r \in handler.todo : RecordMiss(r) \/ RecordHit(r)
  \/ SetProbedStatus \/ RestoreLastProbed \/ AnswerProbe

Next ==
  \/ Probe \/ EnqueueProbe \/ ProbeError \/ WindowPasses
  \/ \E u \in URLs : Fetch(u) \/ FetchError(u)
  \/ \E u \in Hints : RecordHint(u) \/ EnqueueHint(u)
  \/ \E i \in 1..2, o \in Outcomes : o \in AliasAnswers[i] /\ CommandProbe(Aliases[i], o)
  \/ \E o \in AgentmapAnswers : CommandProbe(RobotsURL, o)
  \/ Interrupt \/ StartAgain \/ CrashRestart

\* A live process goes on running its handlers as long as one can, and a crawl
\* that was interrupted is started again.
Fairness ==
  WF_vars(Probe \/ (\E u \in URLs : Fetch(u)) \/ (\E u \in Hints : EnqueueHint(u)) \/ StartAgain)
Spec == Init /\ [][Next]_vars /\ Fairness

-----------------------------------------------------------------------------
(* Properties.                                                             *)

Unfinished == item.status \in {"pending", "in_flight", "failed"}

\* A hit the host_probe handler has put on record is never forgotten: as long
\* as its catalog has no frontier row, the host's own item is still owed a
\* run (or has failed for good), wherever the process died or was interrupted
\* in between -- unless a later attempt looked for it and ended without it.
NoHitForgotten ==
  \A h \in hits :
    h.by = "probe" /\ fetchItem[h.url].status = "absent" =>
      Unfinished \/ h.url \in overlooked

\* not_found is only written after an attempt that found nothing and none of
\* whose requests failed for now.  A transient failure of the second alias does
\* not count behind a permanent one of the first, and a request that was
\* cancelled counts as permanent: that is what the code does, not what its
\* comments say.
NotFoundIsFinal ==
  [][(ardStatus # "not_found" /\ ardStatus' = "not_found") =>
       LET end == handler.seen IN
       /\ \A i \in 1..3 : end[i] # "hit"
       /\ end[1] # "error" /\ end[3] # "error"
       /\ end[2] = "error" => end[1] = "refused"]_vars

\* A host keeps the verdict of the catalog it serves, and is never unprobed
\* again, however probes of the host, fetches of its catalogs, hints and
\* restarts interleave; only a probe that finds nothing takes a verdict back,
\* and leaves not_found.
Found == {"found_valid", "found_invalid"}
VerdictsStand ==
  [][/\ ardStatus \in Found => ardStatus' \in Found \union {"not_found"}
     /\ ardStatus # "unprobed" => ardStatus' # "unprobed"]_vars

\* The crawl does not go on owing a fetch: the catalogs the host_probe handler
\* found are all fetched or given up in the end, unless the host's own item has
\* failed or a later attempt overlooked them; crashes and interrupts only delay
\* it.
Owing ==
  /\ item.status # "failed"
  /\ \E h \in hits :
       /\ h.by = "probe"
       /\ fetchItem[h.url].status \notin {"done", "failed"}
       /\ ~(fetchItem[h.url].status = "absent" /\ h.url \in overlooked)
HitsAreFetched == Owing ~> ~Owing

=============================================================================
