---------------------------- MODULE FetchProofs ----------------------------
(***************************************************************************)
(* Proofs about Fetch, for any fleet, hosts, redirects and timeout.        *)
(*                                                                         *)
(* The limiter part: the requests of a process that wait for one host wait *)
(* for different intervals, all of them among those the limiter has        *)
(* reserved; a request sent in this interval had it to itself.  The robots *)
(* part: what the cache holds for an origin is what the origin said, and   *)
(* only a redirect takes a page away from its URL.                         *)
(***************************************************************************)
EXTENDS Fetch, TLAPS

Task == [kind : {"page", "wellknown", "agentmap"}, worker : Workers, url : URLs,
         step : Steps, robots : BOOLEAN, at : URLs, hops : Nat, wait : Nat,
         left : Nat, result : Results]

TypeOK ==
  /\ task \in [Tasks -> Task]
  /\ limiter \in [Workers -> [Hostnames -> Nat]]
  /\ cache \in [Workers -> [Origins -> {"unknown"} \union Verdicts]]
  /\ said \in [Workers -> [Origins -> SUBSET Verdicts]]
  /\ sent \in [Workers -> [Hostnames -> Nat]]

\* The task has an interval of the host's limiter reserved.
Waits(t, w, h) ==
  task[t].step = "wait" /\ task[t].worker = w /\ Hostname[task[t].at.host] = h

LimiterInv ==
  \A w \in Workers, h \in Hostnames :
    /\ \A t \in Tasks : Waits(t, w, h) => task[t].wait < limiter[w][h]
    /\ \A t, u \in Tasks :
         Waits(t, w, h) /\ Waits(u, w, h) /\ task[t].wait = task[u].wait => t = u
    /\ sent[w][h] <= 1
    /\ sent[w][h] = 1 => /\ limiter[w][h] > 0
                         /\ \A t \in Tasks : Waits(t, w, h) => task[t].wait > 0

\* A task that is about to fetch a page, and not its robots.txt, has been given
\* leave by the origin in the item's URL (d is what origins said), and is at
\* that URL until it is redirected.
Leave(s, d) == d[s.worker][OriginOf(s.url)] \cap {"absent", "allows"} # {}
Fetches(s) == s.kind = "page" /\ ~s.robots /\ s.step \in {"reserve", "wait", "sent"}
Obeys(s, d) ==
  /\ s.step = "lookup" => s.robots
  /\ Fetches(s) => Leave(s, d) /\ (s.hops = 0 => s.at = s.url)

\* And the cache holds for an origin what that origin said.
RobotsInv ==
  /\ \A w \in Workers, o \in Origins : cache[w][o] # "unknown" => cache[w][o] \in said[w][o]
  /\ \A t \in Tasks : Obeys(task[t], said)

-----------------------------------------------------------------------------
(* What the operators on a task do.                                        *)

\* Every URL has an origin and a host name with a limiter.
LEMMA Origin ==
  ASSUME NEW url \in URLs
  PROVE  /\ OriginOf(url) \in Origins /\ Hostname[url.host] \in Hostnames
         /\ url.scheme \in Schemes /\ url.host \in Authorities
         /\ OriginOf(url) = [scheme |-> url.scheme, host |-> Lower[url.host]]
         /\ OriginOf(url) = [url EXCEPT !.host = Lower[@]]
BY FetchAssumption DEF URLs, OriginOf, Origins, Hostnames

\* Only Reserve makes a task wait for its turn.
Moving == {s \in Task : s.step # "wait"}

LEMMA TaskTypes ==
  /\ Idle \in Moving
  /\ \A s \in Task :
       /\ \A url \in URLs, b \in BOOLEAN : Requests(s, url, b) \in Moving
       /\ \A url \in URLs : LooksUp(s, url) \in Moving /\ Follow(s, url) \in Moving
       /\ \A r \in Results : Ends(s, r) \in Moving
       /\ \A v \in Verdicts : Decided(s, v) \in Moving
       /\ \A b, c \in BOOLEAN : Fails(s, b, c) \in Moving
<1>1. Idle \in Moving
  <2>1. AnyURL \in URLs
    <3>1. PICK a \in Authorities : TRUE
      BY FetchAssumption
    <3>2. [scheme |-> "http", host |-> a] \in URLs
      BY DEF URLs, Schemes
    <3> QED BY <3>2 DEF AnyURL
  <2>2. (CHOOSE k \in Kinds : TRUE) \in {"page", "wellknown", "agentmap"}
    BY FetchAssumption
  <2>3. (CHOOSE w \in Workers : TRUE) \in Workers
    BY FetchAssumption
  <2> QED BY <2>1, <2>2, <2>3 DEF Idle, Task, Moving, Steps, Results
<1>2. ASSUME NEW s \in Task
      PROVE  /\ \A url \in URLs, b \in BOOLEAN : Requests(s, url, b) \in Moving
             /\ \A url \in URLs : LooksUp(s, url) \in Moving /\ Follow(s, url) \in Moving
             /\ \A r \in Results : Ends(s, r) \in Moving
  <2>1. ASSUME NEW url \in URLs, NEW b \in BOOLEAN PROVE Requests(s, url, b) \in Moving
    BY FetchAssumption DEF Requests, Task, Moving, Steps
  <2>2. ASSUME NEW url \in URLs PROVE LooksUp(s, url) \in Moving
    BY DEF LooksUp, Task, Moving, Steps
  <2>3. ASSUME NEW r \in Results PROVE Ends(s, r) \in Moving
    BY DEF Ends, Task, Moving, Steps
  <2>4. ASSUME NEW url \in URLs PROVE Follow(s, url) \in Moving
    <3>1. s.hops + 1 \in Nat
      BY DEF Task
    <3>2. \A n \in Nat : [s EXCEPT !.at = url, !.step = "reserve", !.hops = n] \in Moving
      BY DEF Task, Moving, Steps
    <3> QED BY <3>1, <3>2 DEF Follow
  <2> QED BY <2>1, <2>2, <2>3, <2>4
<1>3. ASSUME NEW s \in Task, NEW v \in Verdicts
      PROVE  Decided(s, v) \in Moving
  <2>1. s.url \in URLs /\ "ok" \in Results /\ "skipped" \in Results
    BY DEF Task, Results
  <2> QED BY <1>2, <2>1 DEF Decided
<1>4. ASSUME NEW s \in Task, NEW b \in BOOLEAN, NEW c \in BOOLEAN
      PROVE  Fails(s, b, c) \in Moving
  <2> DEFINE plain == [s.url EXCEPT !.scheme = "http"]
  <2>1. plain \in URLs
    BY DEF Task, URLs, Schemes
  <2>2. [s EXCEPT !.url.scheme = "http"] = [s EXCEPT !.url = plain]
    OBVIOUS
  <2> HIDE DEF plain
  <2>3. [s EXCEPT !.url = plain] \in Task
    BY <2>1 DEF Task
  <2>4. "transient" \in Results /\ "permanent" \in Results
    BY DEF Results
  <2> USE DEF plain
  <2> QED BY <1>2, <2>1, <2>2, <2>3, <2>4 DEF Fails
<1> QED BY <1>1, <1>2, <1>3, <1>4

\* Every step of a task but Reserve and Send, as far as the task goes.
LEMMA TaskSteps ==
  ASSUME TypeOK, NEW t \in Tasks,
         \/ \E kind \in Kinds, url \in [scheme : Schemes, host : Sites] : Start(t, kind, url)
         \/ LookUp(t) \/ Redirected(t) \/ NoAnswer(t) \/ Busy(t) \/ Answered(t)
         \/ RobotsAnswered(t) \/ RobotsGarbled(t)
  PROVE  \E s \in Moving : task' = [task EXCEPT ![t] = s]
<1>0. task[t] \in Task
  BY DEF TypeOK
<1>1. ASSUME NEW kind \in Kinds, NEW url \in [scheme : Schemes, host : Sites],
             Start(t, kind, url)
      PROVE  \E s \in Moving : task' = [task EXCEPT ![t] = s]
  <2>1. url \in URLs
    BY FetchAssumption DEF URLs
  <2>2. /\ FetchHost(kind, url) \in DOMAIN Owner
        /\ kind \in {"page", "wellknown", "agentmap"}
    BY <2>1, Origin, FetchAssumption DEF FetchHost
  <2> DEFINE s == [Idle EXCEPT !.kind = kind, !.url = url,
                               !.worker = Owner[FetchHost(kind, url)]]
  <2>3. s \in Task
    BY <2>1, <2>2, TaskTypes, FetchAssumption DEF Task, Moving
  <2>4. task' = [task EXCEPT ![t] = IF kind = "wellknown" THEN Requests(s, url, FALSE)
                                                          ELSE LooksUp(s, url)]
    BY <1>1 DEF Start
  <2> HIDE DEF s
  <2>5. Requests(s, url, FALSE) \in Moving /\ LooksUp(s, url) \in Moving
    BY <2>1, <2>3, TaskTypes
  <2> QED BY <2>4, <2>5
<1>2. ASSUME LookUp(t) PROVE \E s \in Moving : task' = [task EXCEPT ![t] = s]
  <2>1. task[t].url \in URLs /\ task[t].worker \in Workers
    BY <1>0 DEF Task
  <2>2. cache[task[t].worker][OriginOf(task[t].url)] \in {"unknown"} \union Verdicts
    BY <2>1, Origin DEF TypeOK
  <2> QED BY <1>0, <1>2, <2>1, <2>2, TaskTypes DEF LookUp
<1>3. ASSUME Redirected(t) PROVE \E s \in Moving : task' = [task EXCEPT ![t] = s]
  <2>1. Fails(task[t], FALSE, FALSE) \in Moving
    BY <1>0, TaskTypes
  <2>2. \A url \in Targets : Follow(task[t], url) \in Moving
    BY <1>0, TaskTypes, FetchAssumption
  <2> QED BY <1>3, <2>1, <2>2 DEF Redirected
<1>4. ASSUME NoAnswer(t) \/ Busy(t) \/ RobotsGarbled(t)
      PROVE  \E s \in Moving : task' = [task EXCEPT ![t] = s]
  <2>1. \A b, c \in BOOLEAN : Fails(task[t], b, c) \in Moving
    BY <1>0, TaskTypes
  <2> QED BY <1>4, <2>1 DEF NoAnswer, Busy, RobotsGarbled
<1>5. ASSUME Answered(t) PROVE \E s \in Moving : task' = [task EXCEPT ![t] = s]
  <2>1. \A r \in {"ok", "permanent"} : Ends(task[t], r) \in Moving
    BY <1>0, TaskTypes DEF Results
  <2> QED BY <1>5, <2>1 DEF Answered
<1>6. ASSUME RobotsAnswered(t) PROVE \E s \in Moving : task' = [task EXCEPT ![t] = s]
  <2>1. \A v \in Verdicts : Decided(task[t], v) \in Moving
    BY <1>0, TaskTypes
  <2> QED BY <1>6, <2>1 DEF RobotsAnswered
<1> QED BY <1>1, <1>2, <1>3, <1>4, <1>5, <1>6

\* What Reserve does when the turn comes before the deadline, and otherwise.
LEMMA ReserveSteps ==
  ASSUME TypeOK, NEW t \in Tasks, Reserve(t)
  PROVE  LET w == task[t].worker
             h == Hostname[task[t].at.host]
         IN  /\ w \in Workers /\ h \in Hostnames
             /\ \/ /\ \E s \in Moving : task' = [task EXCEPT ![t] = s]
                   /\ limiter' = limiter
                \/ /\ task' = [task EXCEPT ![t] =
                                 [task[t] EXCEPT !.step = "wait", !.wait = limiter[w][h]]]
                   /\ limiter' = [limiter EXCEPT ![w] =
                                    [limiter[w] EXCEPT ![h] = limiter[w][h] + 1]]
<1>0. task[t] \in Task
  BY DEF TypeOK
<1>1. task[t].worker \in Workers /\ Hostname[task[t].at.host] \in Hostnames
  BY <1>0, Origin DEF Task
<1>2. Fails(task[t], FALSE, FALSE) \in Moving
  BY <1>0, TaskTypes
<1>3. CASE Turn(task[t]) > task[t].left
  BY <1>1, <1>2, <1>3 DEF Reserve
<1>4. CASE ~(Turn(task[t]) > task[t].left)
  BY <1>1, <1>4 DEF Reserve, Turn
<1> QED BY <1>3, <1>4

LEMMA TypeStep == TypeOK /\ [Next]_vars => TypeOK'
<1> SUFFICES ASSUME TypeOK, [Next]_vars PROVE TypeOK'
  OBVIOUS
<1>0. ASSUME NEW t \in Tasks, NEW s \in Moving, task' = [task EXCEPT ![t] = s]
      PROVE  task' \in [Tasks -> Task]
  BY <1>0 DEF TypeOK, Moving
<1>1. ASSUME NEW t \in Tasks, NEW kind \in Kinds,
             NEW url \in [scheme : Schemes, host : Sites], Start(t, kind, url)
      PROVE  TypeOK'
  BY <1>0, <1>1, TaskSteps DEF Start, TypeOK
<1>2. ASSUME NEW t \in Tasks,
             \/ LookUp(t) \/ Redirected(t) \/ NoAnswer(t) \/ Busy(t) \/ Answered(t)
             \/ RobotsGarbled(t)
      PROVE  TypeOK'
  <2>1. UNCHANGED <<limiter, cache, said, sent>>
    BY <1>2 DEF LookUp, Redirected, NoAnswer, Busy, Answered, RobotsGarbled
  <2> QED BY <1>0, <1>2, <2>1, TaskSteps DEF TypeOK
<1>3. ASSUME NEW t \in Tasks, Reserve(t) PROVE TypeOK'
  <2> DEFINE w == task[t].worker
             h == Hostname[task[t].at.host]
             l == [limiter[w] EXCEPT ![h] = limiter[w][h] + 1]
  <2>1. w \in Workers /\ h \in Hostnames
    BY <1>3, ReserveSteps
  <2>2. l \in [Hostnames -> Nat]
    BY <2>1 DEF TypeOK
  <2>3. \A n \in Nat : [task[t] EXCEPT !.step = "wait", !.wait = n] \in Task
    BY DEF TypeOK, Task, Steps
  <2>4. CASE (\E s \in Moving : task' = [task EXCEPT ![t] = s]) /\ limiter' = limiter
    <3>1. task' \in [Tasks -> Task]
      BY <1>0, <2>4
    <3> QED BY <1>3, <2>4, <3>1 DEF Reserve, TypeOK
  <2>5. CASE /\ task' = [task EXCEPT ![t] =
                           [task[t] EXCEPT !.step = "wait", !.wait = limiter[w][h]]]
             /\ limiter' = [limiter EXCEPT ![w] = l]
    <3>1. limiter[w][h] \in Nat
      BY <2>1 DEF TypeOK
    <3>2. [task[t] EXCEPT !.step = "wait", !.wait = limiter[w][h]] \in Task
      BY <2>3, <3>1
    <3> HIDE DEF w, h, l
    <3>3. task' \in [Tasks -> Task]
      BY <2>5, <3>2 DEF TypeOK
    <3>4. limiter' \in [Workers -> [Hostnames -> Nat]]
      BY <2>1, <2>2, <2>5 DEF TypeOK
    <3> QED BY <1>3, <3>3, <3>4 DEF Reserve, TypeOK
  <2> QED BY <1>3, <2>4, <2>5, ReserveSteps
<1>4. ASSUME NEW t \in Tasks, Send(t) PROVE TypeOK'
  <2>1. task[t].worker \in Workers /\ Hostname[task[t].at.host] \in Hostnames
    BY Origin DEF Task, TypeOK
  <2>2. [task[t] EXCEPT !.step = "sent"] \in Task
    BY ZenonT(30) DEF Task, Steps, TypeOK
  <2> QED BY <1>4, <2>1, <2>2 DEF Send, TypeOK
<1>5. ASSUME NEW t \in Tasks, RobotsAnswered(t) PROVE TypeOK'
  <2>1. task[t].url \in URLs /\ task[t].worker \in Workers
    BY DEF Task, TypeOK
  <2>2. PICK v \in Verdicts :
          /\ cache' = [cache EXCEPT ![task[t].worker][OriginOf(task[t].url)] = v]
          /\ said' = [said EXCEPT ![task[t].worker][OriginOf(task[t].url)] = @ \union {v}]
    BY <1>5, <2>1, Origin DEF RobotsAnswered
  <2>3. OriginOf(task[t].url) \in Origins
    BY <2>1, Origin
  <2>4. task' \in [Tasks -> Task]
    BY <1>0, <1>5, TaskSteps
  <2>5. cache' \in [Workers -> [Origins -> {"unknown"} \union Verdicts]]
    BY <2>1, <2>2, <2>3 DEF TypeOK
  <2>6. said' \in [Workers -> [Origins -> SUBSET Verdicts]]
    BY <2>1, <2>2, <2>3 DEF TypeOK
  <2> QED BY <1>5, <2>4, <2>5, <2>6 DEF RobotsAnswered, TypeOK
<1>6. ASSUME Tick PROVE TypeOK'
  <2>1. \A n \in Nat : Less(n) \in Nat
    BY DEF Less
  <2>2. \A t \in Tasks, m, n \in Nat : [task[t] EXCEPT !.wait = m, !.left = n] \in Task
    <3>1. ASSUME NEW r \in Task, NEW m \in Nat, NEW n \in Nat
          PROVE  [r EXCEPT !.wait = m, !.left = n] \in Task
      BY DEF Task
    <3>2. \A t \in Tasks : task[t] \in Task
      BY DEF TypeOK
    <3> QED BY <3>1, <3>2
  <2>3. \A t \in Tasks : [task[t] EXCEPT !.wait = Less(@), !.left = Less(@)] \in Task
    BY <2>1, <2>2, ZenonT(30) DEF Task, TypeOK
  <2> QED BY <1>6, <2>1, <2>3 DEF Tick, TypeOK
<1>7. CASE UNCHANGED vars
  BY <1>7 DEF vars, TypeOK
<1> QED BY <1>1, <1>2, <1>3, <1>4, <1>5, <1>6, <1>7 DEF Next, Work

-----------------------------------------------------------------------------
(* The limiter.                                                            *)

\* A step of a task that does not come to wait leaves the limiters in order.
LEMMA OtherStep ==
  ASSUME TypeOK, LimiterInv, NEW t \in Tasks, NEW s \in Moving,
         task' = [task EXCEPT ![t] = s], UNCHANGED <<limiter, sent>>
  PROVE  LimiterInv'
<1>1. \A u \in Tasks, w \in Workers, h \in Hostnames :
        Waits(u, w, h)' => Waits(u, w, h) /\ task'[u] = task[u]
  BY DEF TypeOK, Waits, Moving
<1> QED BY <1>1 DEF LimiterInv

LEMMA LimiterStep == TypeOK /\ LimiterInv /\ [Next]_vars => LimiterInv'
<1> SUFFICES ASSUME TypeOK, LimiterInv, [Next]_vars PROVE LimiterInv'
  OBVIOUS
<1>1. ASSUME NEW t \in Tasks, NEW kind \in Kinds,
             NEW url \in [scheme : Schemes, host : Sites], Start(t, kind, url)
      PROVE  LimiterInv'
  BY <1>1, TaskSteps, OtherStep DEF Start
<1>2. ASSUME NEW t \in Tasks,
             \/ LookUp(t) \/ Redirected(t) \/ NoAnswer(t) \/ Busy(t) \/ Answered(t)
             \/ RobotsAnswered(t) \/ RobotsGarbled(t)
      PROVE  LimiterInv'
  <2>1. UNCHANGED <<limiter, sent>>
    BY <1>2 DEF LookUp, Redirected, NoAnswer, Busy, Answered, RobotsAnswered, RobotsGarbled
  <2> QED BY <1>2, <2>1, TaskSteps, OtherStep
<1>3. ASSUME NEW t \in Tasks, Reserve(t) PROVE LimiterInv'
  <2> DEFINE w == task[t].worker
             h == Hostname[task[t].at.host]
  <2>0. sent' = sent /\ w \in Workers /\ h \in Hostnames
    BY <1>3, ReserveSteps DEF Reserve
  <2>1. CASE \E s \in Moving : task' = [task EXCEPT ![t] = s] /\ limiter' = limiter
    BY <2>0, <2>1, OtherStep
  <2>2. CASE /\ task' = [task EXCEPT ![t] =
                           [task[t] EXCEPT !.step = "wait", !.wait = limiter[w][h]]]
             /\ limiter' = [limiter EXCEPT ![w] =
                              [limiter[w] EXCEPT ![h] = limiter[w][h] + 1]]
    <3>1. task'[t].step = "wait" /\ task'[t].wait = limiter[w][h] /\ Waits(t, w, h)'
      BY <2>0, <2>2 DEF TypeOK, Task, Waits
    <3>2. \A u \in Tasks : u # t => task'[u] = task[u]
      BY <2>2 DEF TypeOK
    <3>3. \A v \in Workers, g \in Hostnames :
            /\ limiter[v][g] \in Nat
            /\ limiter'[v][g] = limiter[v][g] + (IF v = w /\ g = h THEN 1 ELSE 0)
      BY <2>0, <2>2 DEF TypeOK
    <3>4. \A v \in Workers, g \in Hostnames : Waits(t, v, g)' => v = w /\ g = h
      BY <2>0, <2>2 DEF TypeOK, Task, Waits
    <3>5. \A u \in Tasks : task[u].wait \in Nat
      BY DEF TypeOK, Task
    <3>6. \A u \in Tasks, v \in Workers, g \in Hostnames :
            u # t => (Waits(u, v, g)' <=> Waits(u, v, g))
      BY <3>2 DEF Waits
    <3> HIDE DEF w, h
    <3>7. ASSUME NEW v \in Workers, NEW g \in Hostnames
          PROVE  /\ \A u \in Tasks : Waits(u, v, g)' => task'[u].wait < limiter'[v][g]
                 /\ \A u, x \in Tasks :
                      Waits(u, v, g)' /\ Waits(x, v, g)' /\ task'[u].wait = task'[x].wait
                        => u = x
                 /\ sent'[v][g] <= 1
                 /\ sent'[v][g] = 1
                      => /\ limiter'[v][g] > 0
                         /\ \A u \in Tasks : Waits(u, v, g)' => task'[u].wait > 0
      BY <2>0, <3>1, <3>2, <3>3, <3>4, <3>5, <3>6 DEF LimiterInv
    <3> QED BY <3>7 DEF LimiterInv
  <2> QED BY <1>3, <2>1, <2>2, ReserveSteps
<1>4. ASSUME NEW t \in Tasks, Send(t) PROVE LimiterInv'
  <2> DEFINE w == task[t].worker
             h == Hostname[task[t].at.host]
  <2>1. w \in Workers /\ h \in Hostnames /\ Waits(t, w, h) /\ task[t].wait = 0
    BY <1>4, Origin DEF Send, Waits, TypeOK, Task
  <2>2. /\ task' = [task EXCEPT ![t] = [task[t] EXCEPT !.step = "sent"]]
        /\ [task[t] EXCEPT !.step = "sent"] \in Moving
    BY <1>4, ZenonT(30) DEF Send, TypeOK, Task, Moving, Steps
  <2>3. \A u \in Tasks, v \in Workers, g \in Hostnames :
          Waits(u, v, g)' => Waits(u, v, g) /\ task'[u] = task[u] /\ u # t
    BY <2>2 DEF TypeOK, Task, Waits
  <2>4. \A v \in Workers, g \in Hostnames :
          /\ sent[v][g] \in Nat /\ limiter[v][g] \in Nat
          /\ sent'[v][g] = sent[v][g] + (IF v = w /\ g = h THEN 1 ELSE 0)
    BY <1>4, <2>1 DEF Send, TypeOK
  <2>5. limiter' = limiter /\ \A u \in Tasks : task[u].wait \in Nat
    BY <1>4 DEF Send, TypeOK, Task
  <2> HIDE DEF w, h
  <2>6. sent[w][h] = 0 /\ limiter[w][h] > 0
        /\ \A u \in Tasks : Waits(u, w, h) /\ u # t => task[u].wait > 0
    BY <2>1, <2>4, <2>5 DEF LimiterInv
  <2> QED BY <2>3, <2>4, <2>5, <2>6 DEF LimiterInv
<1>5. ASSUME Tick PROVE LimiterInv'
  <2>0. ASSUME NEW u \in Tasks
        PROVE  /\ task'[u].step = task[u].step /\ task'[u].worker = task[u].worker
               /\ task'[u].at = task[u].at
               /\ task[u].step = "wait" => task'[u].wait = Less(task[u].wait)
               /\ task[u].wait \in Nat
    <3>1. task'[u] = IF task[u].step \in {"reserve", "wait", "sent"}
                     THEN [task[u] EXCEPT !.wait = Less(task[u].wait),
                                          !.left = Less(task[u].left)]
                     ELSE task[u]
      BY <1>5 DEF Tick
    <3>2. task[u] \in Task
      BY DEF TypeOK
    <3> QED BY <3>1, <3>2 DEF Task
  <2>1. \A u \in Tasks, v \in Workers, g \in Hostnames :
          Waits(u, v, g)' => Waits(u, v, g)
    BY <2>0 DEF Waits
  <2>2. \A u \in Tasks, v \in Workers, g \in Hostnames :
          Waits(u, v, g) =>
            task[u].wait \in Nat /\ task[u].wait > 0 /\ task'[u].wait = task[u].wait - 1
    <3>1. ASSUME NEW u \in Tasks, task[u].step = "wait"
          PROVE  task[u].wait > 0 /\ task'[u].wait = Less(task[u].wait) /\ task[u].wait \in Nat
      BY <1>5, <2>0, <3>1 DEF Tick
    <3>2. \A n \in Nat : n > 0 => Less(n) = n - 1
      BY DEF Less
    <3> QED BY <3>1, <3>2 DEF Waits
  <2>3. ASSUME NEW v \in Workers, NEW g \in Hostnames
        PROVE  /\ limiter[v][g] \in Nat
               /\ limiter[v][g] > 0 => limiter'[v][g] = limiter[v][g] - 1
               /\ sent'[v][g] = 0
    <3>1. limiter[v][g] \in Nat
      BY DEF TypeOK
    <3>2. limiter'[v][g] = Less(limiter[v][g]) /\ sent'[v][g] = 0
      BY <1>5 DEF Tick
    <3> QED BY <3>1, <3>2 DEF Less
  <2>4. ASSUME NEW v \in Workers, NEW g \in Hostnames
        PROVE  /\ \A u \in Tasks : Waits(u, v, g)' => task'[u].wait < limiter'[v][g]
               /\ \A u, x \in Tasks :
                    Waits(u, v, g)' /\ Waits(x, v, g)' /\ task'[u].wait = task'[x].wait
                      => u = x
    <3>1. ASSUME NEW u \in Tasks, Waits(u, v, g)'
          PROVE  task'[u].wait < limiter'[v][g]
      <4>1. task[u].wait < limiter[v][g]
        BY <2>1, <3>1 DEF LimiterInv
      <4> QED BY <2>1, <2>2, <2>3, <3>1, <4>1
    <3>2. ASSUME NEW u \in Tasks, NEW x \in Tasks, Waits(u, v, g)', Waits(x, v, g)',
                 task'[u].wait = task'[x].wait
          PROVE  u = x
      <4>1. Waits(u, v, g) /\ Waits(x, v, g)
        BY <2>1, <3>2
      <4>2. task[u].wait = task[x].wait
        BY <2>2, <3>2, <4>1
      <4> QED BY <4>1, <4>2 DEF LimiterInv
    <3> QED BY <3>1, <3>2
  <2> QED BY <2>3, <2>4 DEF LimiterInv
<1>6. CASE UNCHANGED vars
  BY <1>6 DEF vars, LimiterInv, Waits
<1> QED BY <1>1, <1>2, <1>3, <1>4, <1>5, <1>6 DEF Next, Work

-----------------------------------------------------------------------------
(* robots.txt.                                                             *)

\* What each operator on a task asks of the verdicts.
LEMMA ObeyingOperators ==
  ASSUME NEW s \in Task, NEW d
  PROVE  /\ \A url \in URLs : /\ Obeys(Requests(s, url, TRUE), d)
                              /\ Obeys(LooksUp(s, url), d)
                              /\ s.kind # "page" => Obeys(Requests(s, url, FALSE), d)
                              /\ Obeys(s, d) /\ s.step = "sent" => Obeys(Follow(s, url), d)
         /\ \A r \in Results : Obeys(Ends(s, r), d)
         /\ \A b, c \in BOOLEAN : Obeys(Fails(s, b, c), d)
         /\ \A v \in Verdicts :
              v \in d[s.worker][OriginOf(s.url)] => Obeys(Decided(s, v), d)
<1>1. ASSUME NEW url \in URLs
      PROVE  /\ Obeys(Requests(s, url, TRUE), d)
             /\ Obeys(LooksUp(s, url), d)
             /\ s.kind # "page" => Obeys(Requests(s, url, FALSE), d)
  BY DEF Obeys, Fetches, Requests, LooksUp, Task
<1>2. ASSUME NEW url \in URLs, Obeys(s, d), s.step = "sent"
      PROVE  Obeys(Follow(s, url), d)
  BY <1>2 DEF Obeys, Fetches, Leave, Follow, Task
<1>3. ASSUME NEW r \in Results PROVE Obeys(Ends(s, r), d)
  BY DEF Obeys, Fetches, Ends, Task
<1>4. ASSUME NEW b \in BOOLEAN, NEW c \in BOOLEAN PROVE Obeys(Fails(s, b, c), d)
  <2> DEFINE plain == [s.url EXCEPT !.scheme = "http"]
  <2>1. plain \in URLs
    BY DEF Task, URLs, Schemes
  <2>2. [s EXCEPT !.url.scheme = "http"] = [s EXCEPT !.url = plain]
    OBVIOUS
  <2> HIDE DEF plain
  <2>3. Obeys(LooksUp([s EXCEPT !.url = plain], plain), d)
    BY <2>1 DEF Obeys, Fetches, LooksUp, Task
  <2>4. "transient" \in Results /\ "permanent" \in Results
    BY DEF Results
  <2> USE DEF plain
  <2> QED BY <1>3, <2>2, <2>3, <2>4 DEF Fails
<1>5. ASSUME NEW v \in Verdicts, v \in d[s.worker][OriginOf(s.url)]
      PROVE  Obeys(Decided(s, v), d)
  <2>1. "ok" \in Results /\ "skipped" \in Results /\ s.url \in URLs
    BY DEF Results, Task
  <2>2. v = "disallows" \/ v \in {"absent", "allows"}
    BY DEF Verdicts
  <2>3. CASE s.kind = "agentmap" \/ v = "disallows"
    BY <1>3, <2>1, <2>3 DEF Decided
  <2>4. CASE s.kind # "agentmap" /\ v \in {"absent", "allows"}
    <3>1. Leave(Requests(s, s.url, FALSE), d)
      BY <1>5, <2>4 DEF Leave, Requests, Task
    <3>2. Obeys(Requests(s, s.url, FALSE), d)
      BY <3>1 DEF Obeys, Requests, Task
    <3> QED BY <2>4, <3>2 DEF Decided
  <2> QED BY <2>2, <2>3, <2>4
<1> QED BY <1>1, <1>2, <1>3, <1>4, <1>5

\* Nothing an origin said is forgotten.
LEMMA ObeysGrows ==
  ASSUME NEW s \in Task, NEW d, NEW e, Obeys(s, d),
         d[s.worker][OriginOf(s.url)] \subseteq e[s.worker][OriginOf(s.url)]
  PROVE  Obeys(s, e)
BY DEF Obeys, Leave

LEMMA RobotsStep == TypeOK /\ RobotsInv /\ [Next]_vars => RobotsInv'
<1> SUFFICES ASSUME TypeOK, RobotsInv, [Next]_vars PROVE RobotsInv'
  OBVIOUS
<1>0. \A t \in Tasks : /\ task[t] \in Task /\ Obeys(task[t], said)
                       /\ task[t].worker \in Workers /\ task[t].url \in URLs
                       /\ task[t].at \in URLs
  BY DEF TypeOK, RobotsInv, Task
<1>1. ASSUME NEW t \in Tasks, NEW s, Obeys(s, said), task' = [task EXCEPT ![t] = s],
             UNCHANGED <<cache, said>>
      PROVE  RobotsInv'
  BY <1>1 DEF RobotsInv, TypeOK, Obeys, Leave
<1>2. ASSUME NEW t \in Tasks, NEW kind \in Kinds,
             NEW url \in [scheme : Schemes, host : Sites], Start(t, kind, url)
      PROVE  RobotsInv'
  <2>1. url \in URLs
    BY FetchAssumption DEF URLs
  <2>2. /\ FetchHost(kind, url) \in DOMAIN Owner
        /\ kind \in {"page", "wellknown", "agentmap"}
    BY <2>1, Origin, FetchAssumption DEF FetchHost
  <2> DEFINE s == [Idle EXCEPT !.kind = kind, !.url = url,
                               !.worker = Owner[FetchHost(kind, url)]]
  <2>3. s \in Task
    BY <2>1, <2>2, TaskTypes, FetchAssumption DEF Task, Moving
  <2>4. s.kind = kind
    BY TaskTypes DEF Task, Moving
  <2>5. /\ task' = [task EXCEPT ![t] = IF kind = "wellknown" THEN Requests(s, url, FALSE)
                                                             ELSE LooksUp(s, url)]
        /\ UNCHANGED <<cache, said>>
    BY <1>2 DEF Start
  <2> HIDE DEF s
  <2>6. /\ Obeys(LooksUp(s, url), said)
        /\ kind = "wellknown" => Obeys(Requests(s, url, FALSE), said)
    BY <2>1, <2>3, <2>4, ObeyingOperators
  <2> QED BY <1>1, <2>5, <2>6
<1>3. ASSUME NEW t \in Tasks, LookUp(t) PROVE RobotsInv'
  <2> DEFINE known == cache[task[t].worker][OriginOf(task[t].url)]
  <2>1. OriginOf(task[t].url) \in Origins
    BY <1>0, Origin
  <2>2. known = "unknown" \/ known \in Verdicts
    BY <1>0, <2>1 DEF TypeOK
  <2>3. CASE known = "unknown"
    <3>1. task' = [task EXCEPT ![t] = Requests(task[t], task[t].url, TRUE)]
      BY <1>3, <2>3 DEF LookUp
    <3>2. Obeys(Requests(task[t], task[t].url, TRUE), said)
      BY <1>0, ObeyingOperators
    <3> QED BY <1>1, <1>3, <3>1, <3>2 DEF LookUp
  <2>4. CASE known # "unknown"
    <3>1. task' = [task EXCEPT ![t] = Decided(task[t], known)]
      BY <1>3, <2>4 DEF LookUp
    <3>2. known \in said[task[t].worker][OriginOf(task[t].url)]
      BY <1>0, <2>1, <2>4 DEF RobotsInv
    <3> HIDE DEF known
    <3>3. Obeys(Decided(task[t], known), said)
      BY <1>0, <2>2, <2>4, <3>2, ObeyingOperators
    <3> QED BY <1>1, <1>3, <3>1, <3>3 DEF LookUp
  <2> QED BY <2>3, <2>4
<1>4. ASSUME NEW t \in Tasks, Reserve(t) PROVE RobotsInv'
  <2>1. CASE Turn(task[t]) > task[t].left
    <3>1. task' = [task EXCEPT ![t] = Fails(task[t], FALSE, FALSE)]
      BY <1>4, <2>1 DEF Reserve
    <3>2. Obeys(Fails(task[t], FALSE, FALSE), said)
      BY <1>0, ObeyingOperators
    <3> QED BY <1>1, <1>4, <3>1, <3>2 DEF Reserve
  <2>2. CASE ~(Turn(task[t]) > task[t].left)
    <3> DEFINE s == [task[t] EXCEPT !.step = "wait", !.wait = Turn(task[t])]
    <3>1. task' = [task EXCEPT ![t] = s] /\ task[t].step = "reserve"
      BY <1>4, <2>2 DEF Reserve
    <3>2. Obeys(s, said)
      BY <1>0, <3>1 DEF Obeys, Fetches, Leave, Task
    <3> QED BY <1>1, <1>4, <3>1, <3>2 DEF Reserve
  <2> QED BY <2>1, <2>2
<1>5. ASSUME NEW t \in Tasks, Send(t) PROVE RobotsInv'
  <2> DEFINE s == [task[t] EXCEPT !.step = "sent"]
  <2>1. task' = [task EXCEPT ![t] = s] /\ task[t].step = "wait"
    BY <1>5 DEF Send
  <2>2. Obeys(s, said)
    BY <1>0, <2>1 DEF Obeys, Fetches, Leave, Task
  <2> QED BY <1>1, <1>5, <2>1, <2>2 DEF Send
<1>6. ASSUME NEW t \in Tasks, Redirected(t) PROVE RobotsInv'
  <2>1. Obeys(Fails(task[t], FALSE, FALSE), said)
    BY <1>0, ObeyingOperators
  <2>2. \A url \in Targets : Obeys(Follow(task[t], url), said)
    BY <1>0, <1>6, ObeyingOperators, FetchAssumption DEF Redirected
  <2> QED BY <1>1, <1>6, <2>1, <2>2 DEF Redirected
<1>7. ASSUME NEW t \in Tasks, NoAnswer(t) \/ Busy(t) \/ RobotsGarbled(t) PROVE RobotsInv'
  <2>1. \A b, c \in BOOLEAN : Obeys(Fails(task[t], b, c), said)
    BY <1>0, ObeyingOperators
  <2> QED BY <1>1, <1>7, <2>1 DEF NoAnswer, Busy, RobotsGarbled
<1>8. ASSUME NEW t \in Tasks, Answered(t) PROVE RobotsInv'
  <2>1. \A r \in {"ok", "permanent"} : Obeys(Ends(task[t], r), said)
    BY <1>0, ObeyingOperators DEF Results
  <2> QED BY <1>1, <1>8, <2>1 DEF Answered
<1>9. ASSUME NEW t \in Tasks, RobotsAnswered(t) PROVE RobotsInv'
  <2> DEFINE w == task[t].worker
             o == OriginOf(task[t].url)
  <2>1. w \in Workers /\ o \in Origins
    BY <1>0, Origin
  <2>2. PICK v \in Verdicts :
          /\ task' = [task EXCEPT ![t] = Decided(task[t], v)]
          /\ cache' = [cache EXCEPT ![w][o] = v]
          /\ said' = [said EXCEPT ![w][o] = said[w][o] \union {v}]
    BY <1>0, <1>9, Origin DEF RobotsAnswered
  <2> HIDE DEF w, o
  <2>3. \A x \in Workers, p \in Origins :
          /\ said[x][p] \subseteq said'[x][p]
          /\ cache'[x][p] = (IF x = w /\ p = o THEN v ELSE cache[x][p])
    BY <2>1, <2>2 DEF TypeOK
  <2>4. v \in said'[w][o]
    BY <2>1, <2>2 DEF TypeOK
  <2>5. \A x \in Workers, p \in Origins :
          cache'[x][p] # "unknown" => cache'[x][p] \in said'[x][p]
    BY <2>3, <2>4 DEF RobotsInv
  <2>6. Obeys(Decided(task[t], v), said')
    BY <1>0, <2>4, ObeyingOperators DEF w, o
  <2>7. ASSUME NEW u \in Tasks PROVE Obeys(task'[u], said')
    <3>1. CASE u = t
      BY <2>2, <2>6, <3>1 DEF TypeOK
    <3>2. CASE u # t
      <4>1. task'[u] = task[u]
        BY <2>2, <3>2 DEF TypeOK
      <4>2. said[task[u].worker][OriginOf(task[u].url)]
              \subseteq said'[task[u].worker][OriginOf(task[u].url)]
        BY <1>0, <2>3, Origin
      <4> QED BY <1>0, <4>1, <4>2, ObeysGrows
    <3> QED BY <3>1, <3>2
  <2> QED BY <2>5, <2>7 DEF RobotsInv
<1>10. ASSUME Tick PROVE RobotsInv'
  <2>1. ASSUME NEW u \in Tasks PROVE Obeys(task'[u], said)
    <3> DEFINE s == [task[u] EXCEPT !.wait = Less(task[u].wait), !.left = Less(task[u].left)]
    <3>1. task'[u] = s \/ task'[u] = task[u]
      BY <1>10 DEF Tick
    <3>2. Obeys(s, said)
      BY <1>0 DEF Obeys, Fetches, Leave, Task
    <3> HIDE DEF s
    <3> QED BY <1>0, <3>1, <3>2
  <2> QED BY <1>10, <2>1 DEF Tick, RobotsInv
<1>11. CASE UNCHANGED vars
  BY <1>11 DEF vars, RobotsInv
<1> QED BY <1>2, <1>3, <1>4, <1>5, <1>6, <1>7, <1>8, <1>9, <1>10, <1>11 DEF Next, Work

-----------------------------------------------------------------------------
(* The theorems.                                                           *)

LEMMA Start0 == Init => TypeOK /\ LimiterInv /\ RobotsInv
<1> SUFFICES ASSUME Init PROVE TypeOK /\ LimiterInv /\ RobotsInv
  OBVIOUS
<1>1. Idle \in Task /\ Idle.step = "idle" /\ \A t \in Tasks : task[t] = Idle
  BY TaskTypes DEF Init, Idle, Moving
<1>2. TypeOK
  BY <1>1 DEF Init, TypeOK
<1>3. LimiterInv
  BY <1>1 DEF Init, LimiterInv, Waits
<1>4. RobotsInv
  BY <1>1 DEF Init, RobotsInv, Obeys, Fetches
<1> QED BY <1>2, <1>3, <1>4

LEMMA Invariance == Spec => [](TypeOK /\ LimiterInv /\ RobotsInv)
<1> DEFINE Inv == TypeOK /\ LimiterInv /\ RobotsInv
<1>1. Inv /\ [Next]_vars => Inv'
  BY TypeStep, LimiterStep, RobotsStep
<1> HIDE DEF Inv
<1>2. Init => Inv
  BY Start0 DEF Inv
<1>3. Spec => []Inv
  BY <1>1, <1>2, PTL DEF Spec
<1> QED BY <1>3 DEF Inv

\* limiterForHost: a process never sends a host two requests in one interval,
\* for any number of tasks, redirects, hosts and timeouts: every request takes
\* an interval of its own from the limiter of the host it goes to.
THEOREM OnePerIntervalHolds == Spec => []OnePerInterval
<1>1. LimiterInv => OnePerInterval
  BY DEF LimiterInv, OnePerInterval
<1> QED BY <1>1, Invariance, PTL

\* Get: a page is asked for at its item's URL first, and there and wherever it
\* is redirected only after the robots.txt of the origin in that URL, scheme
\* included, has let it; a task may take the verdict from the cache of its
\* process or fetch it, twice at once with others.
THEOREM RobotsAreObeyed == Spec => []RobotsObeyed
<1>1. TypeOK /\ RobotsInv => RobotsObeyed
  <2> SUFFICES ASSUME TypeOK, RobotsInv, NEW t \in Tasks, Fetches(task[t])
               PROVE  /\ said[task[t].worker][[task[t].url EXCEPT !.host = Lower[@]]]
                           \cap {"absent", "allows"} # {}
                      /\ task[t].hops = 0 => task[t].at = task[t].url
    BY DEF RobotsObeyed, Fetches
  <2>1. task[t].url \in URLs
    BY DEF TypeOK, Task
  <2>2. Leave(task[t], said) /\ (task[t].hops = 0 => task[t].at = task[t].url)
    BY DEF RobotsInv, Obeys
  <2> QED BY <2>1, <2>2, Origin DEF Leave
<1> QED BY <1>1, Invariance, PTL
=============================================================================
