------------------------------ MODULE Sources ------------------------------
(***************************************************************************)
(* Where the crawl gets its first hosts from, and how a registry is paged. *)
(* A seed source (src/internal/seed) asks a remote service page by page,   *)
(* row by row or leaf by leaf and collects host names until it has the     *)
(* number wanted; RunSeeder (src/internal/jsonout/seed.go) then records    *)
(* each as a domain and queues its probe.  HarvestAll                      *)
(* (src/internal/registry/registry.go) pages a registry's search.          *)
(*                                                                         *)
(* The remote side is free: every request may fail, and an answer is any   *)
(* of a given set of answers.  One run of one source is followed.  How     *)
(* names are cut out of certificates, Markdown, CSV and JSON is left out:  *)
(* an answer is a sequence of items and an item the names read out of it.  *)
(***************************************************************************)
EXTENDS Integers, Sequences, FiniteSets, FiniteSetsExt, SequencesExt

CONSTANTS
  Hostnames,       \* the names a source may yield
  Infrastructure,  \* CuratedInfraDomains: the names curated lists are stripped of
  Wanted,          \* n: how many names the run asks for
  AnswerItems,     \* the items an answer may hold, each a sequence of raw values
  MaxItems,        \* bound: the items of an answer, or the rows of a stream
  Queries,         \* how many keywords crt.sh is asked for, or lists are fetched
  MaxRecords,      \* crtshMaxRecordsPerQuery
  PerPage,         \* githubPerPage
  MaxPages,        \* githubMaxPages, mcpRegistryMaxPages
  Offset,          \* the ranks the Common Crawl source leaves out
  Tokens,          \* the page tokens and cursors of a remote service
  PageLimit,       \* registry.pageLimit
  LogLists,        \* log lists: the logs of each operator, shards of the certificates
  FreshWindow,     \* ctFreshCertWindow
  TreeSizes,       \* the tree sizes a log may report
  EntriesPerPage,  \* ctDefaultEntriesPerPage
  Overfetch        \* ctMaxOverfetchFactor

NoToken == "none"
ASSUME SourcesAssumption ==
  /\ NoToken \notin Tokens /\ Infrastructure \subseteq Hostnames
  /\ {Wanted, PerPage, MaxPages, PageLimit, EntriesPerPage, Overfetch} \subseteq Nat \ {0}
  /\ {MaxItems, Queries, MaxRecords, Offset} \subseteq Nat /\ TreeSizes \subseteq Int

\* A raw value: a host name as it stands, one in capitals, rooted or with a
\* wildcard label, or one that no host name is left of (an address, a bare word).
Raws == [name : Hostnames, form : {"plain", "styled", "invalid"}]
ASSUME ItemsAssumption == AnswerItems \subseteq Seq(Raws)

NoLog == [window |-> 0]

VARIABLES
  source,    \* the source of the run
  phase,     \* running, failed, returned (names known), done (names queued)
  got,       \* the collector's names
  heard,     \* every raw value answered so far
  more,      \* history: the service has more than it has answered
  pages,     \* the queries, pages or rows answered so far
  cursor,    \* the cursor or page token of the next request
  federate,  \* the registry is still asked for referrals
  requests,  \* how many requests the registry, or the log being read, was sent
  toRead,    \* ct: the logs still to be read
  log,       \* ct: the log being read
  seeded     \* [added, skipped]: what RunSeeder made of the first names
sourcesVars == <<source, phase, got, heard, more, pages, cursor, federate, requests, toRead, log, seeded>>

----------------------------------------------------------------------------
\* The collector.

Sanitized(raw) == raw.name
Usable(raw) == raw.form # "invalid"
Full(names, limit) == Len(names) >= limit

\* domainCollector.add
Adds(names, raw, limit) ==
  IF Full(names, limit) \/ ~Usable(raw) \/ Contains(names, Sanitized(raw))
  THEN names
  ELSE Append(names, Sanitized(raw))
Collect(names, raws, limit) ==
  LET after[i \in 0..Len(raws)] == IF i = 0 THEN names ELSE Adds(after[i - 1], raws[i], limit)
  IN after[Len(raws)]

\* What an answer's items hold.
Flat(items) == FlattenSeq(items)

SourcesInit ==
  /\ source \in {"crtsh", "curated", "github", "mcp", "tranco", "commoncrawl", "ct", "registry"}
  /\ phase = "running" /\ got = <<>> /\ heard = <<>> /\ more = TRUE /\ pages = 0
  /\ cursor = NoToken /\ federate \in (IF source = "registry" THEN BOOLEAN ELSE {FALSE})
  /\ requests = 0 /\ toRead = -1 /\ log = NoLog
  /\ seeded = [added |-> 0, skipped |-> 0]

Answers(most) == UNION {[1..k -> AnswerItems] : k \in 0..most}

\* An answer of raw values reaches the collector.
Hears(raws) ==
  /\ heard' = heard \o raws
  /\ got' = Collect(got, raws, Wanted)
  /\ pages' = pages + 1
  /\ UNCHANGED <<source, federate, requests, toRead, log, seeded>>

\* The loop goes on, or Domains returns what it has.
GoesOn(on) == phase' = IF on THEN "running" ELSE "returned"

----------------------------------------------------------------------------
\* The sources but the CT logs.

\* CrtshSeeder.Domains: one keyword after the other.
CrtshQuery ==
  /\ source = "crtsh" /\ phase = "running"
  /\ \E rows \in Answers(MaxItems) :
       Hears(Flat(SubSeq(rows, 1, Min({Len(rows), MaxRecords}))))
  /\ more' = (pages' < Queries)
  /\ GoesOn(~Full(got', Wanted) /\ more')
  /\ UNCHANGED cursor

\* CuratedSeeder.Domains: one list after the other.  What names infrastructure
\* is no host name to this source.
Candidate(raw) ==
  IF raw.name \in Infrastructure THEN [raw EXCEPT !.form = "invalid"] ELSE raw
Candidates(raws) == [i \in DOMAIN raws |-> Candidate(raws[i])]
CuratedFetch ==
  /\ source = "curated" /\ phase = "running"
  /\ \E urls \in Answers(MaxItems) : Hears(Candidates(Flat(urls)))
  /\ more' = (pages' < Queries)
  /\ GoesOn(~Full(got', Wanted) /\ more')
  /\ UNCHANGED cursor

\* GitHubSeeder.Domains: a page shorter than per_page is the last one.
ShortPage_Names(items) == Len(Flat(items)) < PerPage  \* slip: counts the names, not the items
ShortPage(items) == Len(items) < PerPage
GitHubPage ==
  /\ source = "github" /\ phase = "running"
  /\ \E items \in Answers(PerPage) :
       /\ Hears(Flat(items))
       /\ GoesOn(~Full(got', Wanted) /\ ~ShortPage(items) /\ pages' < MaxPages)
       /\ more' \in IF Len(items) < PerPage THEN {FALSE} ELSE BOOLEAN
  /\ UNCHANGED cursor

\* MCPRegistrySeeder.Domains: the listing names the next page's cursor.
MCPPage ==
  /\ source = "mcp" /\ phase = "running"
  /\ \E servers \in Answers(MaxItems), next \in Tokens \union {NoToken} :
       /\ Hears(Flat(servers))
       /\ more' = (next # NoToken /\ servers # <<>>)
       /\ GoesOn(~Full(got', Wanted) /\ more' /\ pages' < MaxPages)
       /\ cursor' = next

\* domainsFromTrancoZip: rows until there are enough names or no more rows.
TrancoRow ==
  /\ source = "tranco" /\ phase = "running" /\ pages < MaxItems
  /\ \E row \in AnswerItems : Hears(row)
  /\ GoesOn(~Full(got', Wanted))
  /\ UNCHANGED <<more, cursor>>

\* CommonCrawlSeeder.Domains: the first Offset ranks are left out.
CommonCrawlRow ==
  /\ source = "commoncrawl" /\ phase = "running" /\ pages < MaxItems + Offset
  /\ \E row \in AnswerItems : Hears(IF pages < Offset THEN <<>> ELSE row)
  /\ GoesOn(~Full(got', Wanted))
  /\ UNCHANGED <<more, cursor>>

StreamEnds ==
  /\ source \in {"tranco", "commoncrawl"} /\ phase = "running"
  /\ phase' = "returned" /\ more' = FALSE
  /\ UNCHANGED <<source, got, heard, pages, cursor, federate, requests, toRead, log, seeded>>

\* fetchJSON and fetchBody: no connection, a status, a body that is no JSON.
\* Every source gives up with its first failed request, and so does HarvestAll.
RequestFails ==
  /\ phase = "running" /\ phase' = "failed"
  /\ UNCHANGED <<source, got, heard, more, pages, cursor, federate, requests, toRead, log, seeded>>

----------------------------------------------------------------------------
\* The CT logs.

\* ctLogRef: whether the log is usable, whether it or its operator matches the
\* tokens asked for, and when the certificates in it expire: without an
\* interval, at any time.  Now is 0.
Eligible(shard) == shard.usable /\ shard.matches
CoversNow(shard) == shard.interval => shard.start <= 0 /\ 0 < shard.end
ComesNext(shard) == ~CoversNow(shard) /\ 0 < shard.start /\ shard.start <= FreshWindow

\* selectOperatorShards: every shard that covers now, then the nearest to come.
OperatorShards(shards) ==
  LET coming == {i \in DOMAIN shards : ComesNext(shards[i])}
      nearest == {i \in coming : \A j \in coming : shards[i].start <= shards[j].start}
  IN SelectSeq(shards, CoversNow)
     \o (IF coming = {} THEN <<>> ELSE <<shards[Min(nearest)]>>)

Selected(operators) ==
  FlattenSeq([i \in DOMAIN operators |-> OperatorShards(SelectSeq(operators[i], Eligible))])

\* ResolveCTLogs: no log for the tokens given is an error.
ResolveLogs ==
  /\ source = "ct" /\ phase = "running" /\ toRead = -1
  /\ \E operators \in LogLists :
       LET shards == Selected(operators)
       IN IF shards = <<>> THEN phase' = "failed" /\ UNCHANGED toRead
                           ELSE phase' = phase /\ toRead' = Len(shards)
  /\ UNCHANGED <<source, got, heard, more, pages, cursor, federate, requests, log, seeded>>

\* The window of leaves that ends at last.
Window(l, last) == [l EXCEPT !.end = last, !.start = Max({0, last - l.window + 1}),
                             !.cursor = Max({0, last - l.window + 1})]
NextWindow_Overlapping(l) == Window(l, l.start)  \* slip: an off-by-one
NextWindow(l) == Window(l, l.start - 1)

\* get-sth, and the first window of domainsFromLog.  A tree of no leaves fails.
OpenLog ==
  /\ source = "ct" /\ phase = "running" /\ toRead > 0 /\ log = NoLog /\ ~Full(got, Wanted)
  /\ \E size \in TreeSizes :
       LET w == Wanted - Len(got)
       IN IF size <= 0 THEN phase' = "failed" /\ UNCHANGED log
          ELSE /\ phase' = phase
               /\ log' = Window([window |-> w, size |-> size,
                                 most |-> Min({w * Overfetch, size}), fetched |-> 0,
                                 names |-> <<>>, read |-> {}, start |-> 0, end |-> 0, cursor |-> 0],
                                size - 1)
  /\ toRead' = toRead - 1 /\ requests' = 0
  /\ UNCHANGED <<source, got, heard, more, pages, cursor, federate, seeded>>

\* The condition of domainsFromLog's loop, looked at between two windows.
BetweenWindows == log.cursor = log.start
WindowWanted == log.end >= 0 /\ ~Full(log.names, log.window) /\ log.fetched < log.most

\* The next get-entries request of the window may be answered by any prefix of
\* the leaves asked for; the window is over when all its leaves were read,
\* enough names are there, or nothing was answered.  A leaf that cannot be
\* parsed counts and yields nothing, like one that names nothing.
WindowOver(l, leaves) == leaves = <<>> \/ Full(l.names, l.window) \/ l.cursor > l.end
ReadEntries ==
  /\ log # NoLog /\ phase = "running" /\ (BetweenWindows => WindowWanted)
  /\ \E leaves \in Answers(Min({EntriesPerPage, log.end - log.cursor + 1})) :
       LET after == [log EXCEPT !.names = Collect(@, Flat(leaves), log.window),
                                !.read = @ \union {log.cursor + i - 1 : i \in DOMAIN leaves},
                                !.fetched = @ + Len(leaves),
                                !.cursor = @ + Len(leaves)]
       IN /\ log' = IF WindowOver(after, leaves) THEN NextWindow(after) ELSE after
          /\ heard' = heard \o Flat(leaves)
  /\ requests' = requests + 1
  /\ UNCHANGED <<source, phase, got, more, pages, cursor, federate, toRead, seeded>>

\* The log has yielded what it should, or all it has.
CloseLog ==
  /\ log # NoLog /\ phase = "running" /\ BetweenWindows /\ ~WindowWanted
  /\ got' = Collect(got, [i \in DOMAIN log.names |-> [name |-> log.names[i], form |-> "plain"]], Wanted)
  /\ log' = NoLog
  /\ GoesOn(toRead > 0 /\ ~Full(got', Wanted))
  /\ UNCHANGED <<source, heard, more, pages, cursor, federate, requests, toRead, seeded>>

----------------------------------------------------------------------------
\* Client.HarvestAll: pages until there is no token, the token is the one just
\* sent, or PageLimit pages are there.  A registry that answers 501 to a
\* request for referrals is asked again without, now and for every later page.

RegistryPage ==
  /\ source = "registry" /\ phase = "running"
  /\ \E token \in Tokens \union {NoToken} :
       /\ GoesOn(token # NoToken /\ token # cursor /\ pages + 1 < PageLimit)
       /\ more' = (token # NoToken)
       /\ cursor' = token
  /\ pages' = pages + 1 /\ requests' = requests + 1
  /\ UNCHANGED <<source, got, heard, federate, toRead, log, seeded>>

WithoutReferrals == federate' = FALSE
RegistryNotImplemented ==
  /\ source = "registry" /\ phase = "running" /\ requests' = requests + 1
  /\ IF federate THEN phase' = phase /\ WithoutReferrals
                 ELSE phase' = "failed" /\ UNCHANGED federate
  /\ UNCHANGED <<source, got, heard, more, pages, cursor, toRead, log, seeded>>

----------------------------------------------------------------------------
\* RunSeeder, once Domains returned: EnqueueSeedHost for one name after the
\* other.  A name whose domain or item cannot be written is counted as skipped
\* and the next one is taken.  A failed Domains queues nothing, whatever it had.

\* EnqueueSeedHost answers that the item is new (or due again), that there was
\* nothing to do, or an error of either of its writes.
SeedHost ==
  /\ phase = "returned" /\ source # "registry"
  /\ seeded.added + seeded.skipped < Len(got)
  /\ \/ seeded' = [seeded EXCEPT !.added = @ + 1]
     \/ seeded' = [seeded EXCEPT !.skipped = @ + 1]
  /\ UNCHANGED <<source, phase, got, heard, more, pages, cursor, federate, requests, toRead, log>>

SourcesNext ==
  \/ CrtshQuery \/ CuratedFetch \/ GitHubPage \/ MCPPage \/ TrancoRow \/ CommonCrawlRow
  \/ StreamEnds \/ ResolveLogs \/ OpenLog \/ ReadEntries \/ CloseLog
  \/ RegistryPage \/ RegistryNotImplemented \/ RequestFails \/ SeedHost
SourcesSpec == SourcesInit /\ [][SourcesNext]_sourcesVars

----------------------------------------------------------------------------
\* Properties.

\* The names a reader of everything answered would write down: the first
\* Wanted different host names, in the order of their first mention.
FirstMentions(raws) ==
  {i \in DOMAIN raws :
     Usable(raws[i]) /\ \A j \in 1..(i - 1) : Usable(raws[j]) => raws[j].name # raws[i].name}
Rank(raws, i) == Cardinality({j \in FirstMentions(raws) : j < i})
FirstNames(raws) ==
  [n \in 1..Min({Wanted, Cardinality(FirstMentions(raws))}) |->
     raws[CHOOSE i \in FirstMentions(raws) : Rank(raws, i) = n - 1].name]

\* Seeder.Domains "streams sanitized hostnames until n collected or the source
\* is exhausted": whatever the pages it came in, the result is the first names
\* of everything answered, and a run that returns fewer than were wanted left
\* nothing behind but what the page limit kept from it.  (The CT logs keep
\* neither half: each log has a budget of its own.)
StreamsUntilDone ==
  source \notin {"ct", "registry"} =>
    /\ got = FirstNames(heard)
    /\ phase = "returned" /\ Len(got) < Wanted => ~more \/ pages = MaxPages

\* Whatever is answered, the work is bounded.  The windows over a log go
\* backwards without overlap, so that no leaf is read twice, no more are read
\* than the over-fetch allows, but for the rest of the last window, and every
\* request reads or gives up one; a registry is asked one page at a time, and
\* at most once more, to go without referrals.
RequestsBounded ==
  /\ log # NoLog => /\ log.fetched = Cardinality(log.read)
                    /\ log.fetched < log.most + log.window
                    /\ requests <= log.size
  /\ source = "registry" => requests <= PageLimit + 1

=============================================================================
