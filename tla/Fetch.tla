------------------------------- MODULE Fetch -------------------------------
(***************************************************************************)
(* The polite client (src/internal/fetch/fetch.go) in the processes of a   *)
(* fleet: every request, redirects and robots.txt included, first reserves *)
(* an interval of its host's limiter, which lives in the process; ordinary *)
(* pages are asked for only with the robots.txt of their origin at hand;   *)
(* which process serves an item is decided by the host shard of its fetch  *)
(* target (src/internal/frontier/frontier.go).                             *)
(*                                                                         *)
(* A task is a worker goroutine that serves one item: Get for a page,      *)
(* GetWellKnown or RawRobots for a host_probe.  Time passes in intervals   *)
(* of one request (1 / perHostRequestsPerSecond); a request whose turn has *)
(* come is sent before the interval is over.  Bodies are left out but for  *)
(* what robots.txt says about the page.                                    *)
(***************************************************************************)
EXTENDS Integers, FiniteSets

CONSTANTS
  Workers,       \* the processes of the fleet
  Tasks,         \* their goroutines
  Authorities,   \* host names as they are written, with or without a port
  Hostname,      \* Hostname[a]: a without its port (url.URL.Hostname)
  Lower,         \* Lower[a]: a in lower case
  Machine,       \* Machine[a]: the host that answers for a
  Owner,         \* Owner[s]: the process that dequeues items of s's host shard
  Kinds,         \* what the tasks are given: "page", "wellknown", "agentmap"
  Sites,         \* the authorities the items are for
  Targets,       \* the URLs servers redirect to
  MaxRedirects,  \* maxRedirects
  Timeout        \* crawler.requestTimeoutSeconds, in intervals

Hostnames == {Hostname[a] : a \in Authorities}
Machines == {Machine[a] : a \in Authorities}
Schemes == {"https", "http"}
URLs == [scheme : Schemes, host : Authorities]
\* robotsOriginKey
OriginOf_HostOnly(url) == [scheme |-> "https", host |-> Lower[url.host]]  \* slip
OriginOf(url) == [scheme |-> url.scheme, host |-> Lower[url.host]]
Origins == [scheme : Schemes, host : {Lower[a] : a \in Authorities}]

ASSUME FetchAssumption ==
  /\ DOMAIN Hostname = Authorities /\ DOMAIN Lower = Authorities /\ DOMAIN Machine = Authorities
  /\ Authorities \union Hostnames \subseteq DOMAIN Owner
  /\ \A s \in DOMAIN Owner : Owner[s] \in Workers
  /\ Sites \subseteq Authorities /\ Targets \subseteq URLs /\ MaxRedirects \in Nat /\ Timeout \in Nat
  /\ Kinds \subseteq {"page", "wellknown", "agentmap"} /\ Kinds # {} /\ Authorities # {}

VARIABLES
  task,      \* Tasks -> what the goroutine is at
  limiter,   \* Workers -> hostname -> how many intervals are reserved
  cache,     \* Workers -> origin -> what robotsCache holds for it
  said,      \* history: Workers -> origin -> the verdicts it gave
  sent,      \* history: Workers -> hostname -> requests of this interval
  visitors   \* history: machine -> the processes that talked to it
vars == <<task, limiter, cache, said, sent, visitors>>

\* What a robots.txt comes to for the page: there is none, or it allows or
\* disallows it.
Verdicts == {"absent", "allows", "disallows"}
Results == {"none", "ok", "skipped", "permanent", "transient"}
Steps == {"idle", "lookup", "reserve", "wait", "sent", "done"}

\* A task is [kind, worker, url, step, robots, at, hops, wait, left, result]:
\* `at' is the URL of its request, after redirects, and `robots' says that the
\* request is for robots.txt.
AnyURL == CHOOSE url \in URLs : TRUE
Idle == [kind |-> CHOOSE k \in Kinds : TRUE, worker |-> CHOOSE w \in Workers : TRUE,
         url |-> AnyURL, step |-> "idle", robots |-> FALSE, at |-> AnyURL,
         hops |-> 0, wait |-> 0, left |-> 0, result |-> "none"]

Init ==
  /\ task = [t \in Tasks |-> Idle]
  /\ limiter = [w \in Workers |-> [h \in Hostnames |-> 0]]
  /\ cache = [w \in Workers |-> [o \in Origins |-> "unknown"]]
  /\ said = [w \in Workers |-> [o \in Origins |-> {}]]
  /\ sent = [w \in Workers |-> [h \in Hostnames |-> 0]]
  /\ visitors = [m \in Machines |-> {}]

\* doGet: a request from the start, with the whole timeout.
Requests(s, url, robots) ==
  [s EXCEPT !.step = "reserve", !.at = url, !.robots = robots, !.hops = 0, !.left = Timeout]
LooksUp(s, url) == [s EXCEPT !.step = "lookup", !.at = url, !.robots = TRUE]
Ends(s, result) == [s EXCEPT !.step = "done", !.result = result, !.at = s.url, !.robots = FALSE,
                             !.hops = 0, !.wait = 0, !.left = 0]

\* hostShard(fetchHost(item)): the host name of the URL, or, for a host_probe,
\* which has no URL, the host as it was found in a link.
FetchHost(kind, url) == IF kind = "page" THEN Hostname[url.host] ELSE url.host

\* A worker takes an item of its shard.  Get first wants the robots.txt of the
\* URL's origin; GetWellKnown bypasses it; RawRobots starts with https.
Start(t, kind, url) ==
  LET s == [Idle EXCEPT !.kind = kind, !.url = url, !.worker = Owner[FetchHost(kind, url)]]
  IN /\ task[t].step = "idle" /\ (kind = "page" \/ url.scheme = "https")
     /\ task' = [task EXCEPT ![t] = IF kind = "wellknown" THEN Requests(s, url, FALSE)
                                                          ELSE LooksUp(s, url)]
     /\ UNCHANGED <<limiter, cache, said, sent, visitors>>

----------------------------------------------------------------------------
\* One request: rateLimitedTransport.RoundTrip, and the answer to it.

\* Allowed and RawRobots with the robots.txt at hand.  A page that may not be
\* fetched is no failure: the item is skipped.
Decided(s, verdict) ==
  IF s.kind = "agentmap" THEN Ends(s, "ok")
  ELSE IF verdict = "disallows" THEN Ends(s, "skipped")
  ELSE Requests(s, s.url, FALSE)

\* What the code does with a failed request.  RawRobots asks http when https
\* got no answer at all; everything else ends the task.
Fails(s, answered, transient) ==
  IF s.kind = "agentmap" /\ s.robots /\ ~answered /\ s.url.scheme = "https"
  THEN LooksUp([s EXCEPT !.url.scheme = "http"], [s.url EXCEPT !.scheme = "http"])
  ELSE Ends(s, IF transient THEN "transient" ELSE "permanent")

\* robotsForOrigin looks into the cache, and fetches what is not there.  Two
\* tasks may both fetch it.
LookUp(t) ==
  LET s == task[t]
      known == cache[s.worker][OriginOf(s.url)] IN
  /\ s.step = "lookup"
  /\ task' = [task EXCEPT ![t] = IF known = "unknown" THEN Requests(s, s.url, TRUE)
                                                      ELSE Decided(s, known)]
  /\ UNCHANGED <<limiter, cache, said, sent, visitors>>

Turn_RobotsFirst(s) == IF s.robots THEN 0 ELSE limiter[s.worker][Hostname[s.at.host]]  \* slip
Turn(s) == limiter[s.worker][Hostname[s.at.host]]
\* limiter.Wait: the next free interval of the host is reserved, unless it
\* comes after the deadline of the request: then the wait fails at once.
Reserve(t) ==
  LET s == task[t] IN
  /\ s.step = "reserve"
  /\ IF Turn(s) > s.left
     THEN task' = [task EXCEPT ![t] = Fails(s, FALSE, FALSE)] /\ UNCHANGED limiter
     ELSE /\ task' = [task EXCEPT ![t] = [s EXCEPT !.step = "wait", !.wait = Turn(s)]]
          /\ limiter' = [limiter EXCEPT ![s.worker][Hostname[s.at.host]] = @ + 1]
  /\ UNCHANGED <<cache, said, sent, visitors>>

Send(t) ==
  LET s == task[t] IN
  /\ s.step = "wait" /\ s.wait = 0
  /\ task' = [task EXCEPT ![t].step = "sent"]
  /\ sent' = [sent EXCEPT ![s.worker][Hostname[s.at.host]] = @ + 1]
  /\ visitors' = [visitors EXCEPT ![Machine[s.at.host]] = @ \union {s.worker}]
  /\ UNCHANGED <<limiter, cache, said>>

\* The next hop waits for its own host like any request, under the same
\* deadline, and without the robots.txt of where it goes.  CheckRedirect is
\* given the requests made so far and stops at MaxRedirects of them, one redirect
\* short of that number: an error without a status.
Follow_ForEver(s, url) == [s EXCEPT !.at = url, !.step = "reserve", !.left = Timeout]  \* slip
Follow(s, url) == [s EXCEPT !.at = url, !.step = "reserve", !.hops = @ + 1]
Redirected(t) ==
  LET s == task[t] IN
  /\ s.step = "sent"
  /\ \E url \in Targets :
       task' = [task EXCEPT ![t] = IF s.hops + 1 < MaxRedirects THEN Follow(s, url)
                                                                ELSE Fails(s, FALSE, FALSE)]
  /\ UNCHANGED <<limiter, cache, said, sent, visitors>>

\* No answer: a timeout is worth a retry; a host without an address, a refused
\* connection, a redirect to another scheme and the cancellation of a shutdown
\* are not.  A body that breaks off is worth a retry, one that is too large is
\* not.
NoAnswer(t) ==
  /\ task[t].step = "sent"
  /\ \E transient \in BOOLEAN, answered \in BOOLEAN :
       task' = [task EXCEPT ![t] = Fails(task[t], answered, transient)]
  /\ UNCHANGED <<limiter, cache, said, sent, visitors>>

\* 429 and 5xx: the answer is worth a retry, and nothing about robots.txt.
Busy(t) ==
  /\ task[t].step = "sent"
  /\ task' = [task EXCEPT ![t] = Fails(task[t], TRUE, TRUE)]
  /\ UNCHANGED <<limiter, cache, said, sent, visitors>>

\* A page, a well-known document or the end of them: 200, or another 4xx.
Answered(t) ==
  /\ task[t].step = "sent" /\ ~task[t].robots
  /\ \E result \in {"ok", "permanent"} : task' = [task EXCEPT ![t] = Ends(task[t], result)]
  /\ UNCHANGED <<limiter, cache, said, sent, visitors>>

\* robots.txt: any 4xx but 429 means there is none; else it is parsed.  What
\* was learnt is cached for the origin asked, whoever answered in the end.
RobotsAnswered(t) ==
  LET s == task[t] IN
  /\ s.step = "sent" /\ s.robots
  /\ \E verdict \in Verdicts :
       /\ task' = [task EXCEPT ![t] = Decided(s, verdict)]
       /\ cache' = [cache EXCEPT ![s.worker][OriginOf(s.url)] = verdict]
       /\ said' = [said EXCEPT ![s.worker][[scheme |-> s.url.scheme, host |-> Lower[s.url.host]]]
                     = @ \union {verdict}]
  /\ UNCHANGED <<limiter, sent, visitors>>

\* A robots.txt that cannot be parsed counts as no answer (Status 0).
RobotsGarbled(t) ==
  /\ task[t].step = "sent" /\ task[t].robots
  /\ task' = [task EXCEPT ![t] = Fails(task[t], FALSE, FALSE)]
  /\ UNCHANGED <<limiter, cache, said, sent, visitors>>

\* The interval is over.
Less(n) == IF n = 0 THEN 0 ELSE n - 1
Tick ==
  /\ \A t \in Tasks : task[t].step = "wait" => task[t].wait > 0
  /\ \E w \in Workers, h \in Hostnames : limiter[w][h] > 0
  /\ task' = [t \in Tasks |-> IF task[t].step \in {"reserve", "wait", "sent"}
                              THEN [task[t] EXCEPT !.wait = Less(@), !.left = Less(@)]
                              ELSE task[t]]
  /\ limiter' = [w \in Workers |-> [h \in Hostnames |-> Less(limiter[w][h])]]
  /\ sent' = [w \in Workers |-> [h \in Hostnames |-> 0]]
  /\ UNCHANGED <<cache, said, visitors>>

Work(t) ==
  \/ LookUp(t) \/ Reserve(t) \/ Send(t) \/ Redirected(t) \/ NoAnswer(t) \/ Busy(t)
  \/ Answered(t) \/ RobotsAnswered(t) \/ RobotsGarbled(t)
Next ==
  \/ \E t \in Tasks, kind \in Kinds, url \in [scheme : Schemes, host : Sites] : Start(t, kind, url)
  \/ \E t \in Tasks : Work(t)
  \/ Tick
\* Goroutines are scheduled, requests are answered or time out, time passes.
Spec == Init /\ [][Next]_vars /\ WF_vars(Tick) /\ \A t \in Tasks : WF_vars(Work(t))

----------------------------------------------------------------------------
\* Properties.

\* limiterForHost: "strictly one request per interval": a process never sends a
\* host two requests in one interval, whichever tasks, redirects and fetches of
\* robots.txt they come from.
OnePerInterval == \A w \in Workers, h \in Hostnames : sent[w][h] <= 1

\* Get: ordinary pages "must wait for a retryable robots failure rather than
\* crawling with an indeterminate policy", and "an http robots.txt must never
\* speak for its https sibling": a page is asked for only after the robots.txt
\* of the origin in its item's URL has let it, and the first request for it
\* goes to that URL.  Where a redirect goes from there, that leave is all there
\* is: the robots.txt of the next origin is not asked for.
RobotsObeyed ==
  \A t \in Tasks :
       task[t].kind = "page" /\ ~task[t].robots /\ task[t].step \in {"reserve", "wait", "sent"}
         => /\ said[task[t].worker][[task[t].url EXCEPT !.host = Lower[@]]]
                 \cap {"absent", "allows"} # {}
            /\ task[t].hops = 0 => task[t].at = task[t].url

\* Every fetch ends, whatever servers redirect to and however long the queue
\* of a host is.
EveryFetchEnds == \A t \in Tasks : task[t].step # "idle" ~> task[t].step = "done"

\* The package comment of fetch.go: "every host is dequeued by one worker for
\* the crawl's lifetime, so each worker's in-memory rate limiter sees the whole
\* traffic to any host it owns".
OneWorkerPerHost == \A m \in Machines : Cardinality(visitors[m]) <= 1
=============================================================================
