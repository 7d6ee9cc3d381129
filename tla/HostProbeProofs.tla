-------------------------- MODULE HostProbeProofs ---------------------------
(***************************************************************************)
(* Proofs about HostProbe, for any site, documents, retry cap and number   *)
(* of upsets.                                                              *)
(*                                                                         *)
(* A hit without a frontier row is owed a run of the host's own item.  The *)
(* argument follows that debt through the handler: it is among the results *)
(* still to be recorded, or about to be resumed, or the run is going to be *)
(* repeated because something failed for now -- or this attempt ended      *)
(* without it.                                                             *)
(***************************************************************************)
EXTENDS HostProbe, TLAPS

FrontierRow == [status : {"absent", "pending", "in_flight", "done", "failed"}, attempts : Nat]
Result == [method : {"well_known", "robots_agentmap"}, outcome : Outcomes, url : URLs]
Windows == {"never", "fresh", "stale"}

\* What the three requests of an attempt end in.
Answer == Outcomes \union {"none"}
Answers == Answer \X Answer \X Answer

Calls == [pc : {"idle", "start", "upsert", "recover", "record", "resume", "restore", "retry", "done"},
          todo : SUBSET (URLs \union Result), url : URLs \union {NoURL},
          hadHit : BOOLEAN, retry : BOOLEAN, previous : Windows, seen : Answers]

\* A handleHostProbe call holds results while it records them, and a URL when
\* it has one to resume.
CallOK(c) ==
  /\ c \in Calls
  /\ c.pc \in {"record", "resume"} => c.todo \subseteq Result
  /\ c.pc = "resume" => c.url \in URLs
  /\ c.pc \in {"record", "resume"} =>
       /\ "none" \notin {c.seen[1], c.seen[2], c.seen[3]}
       /\ c.seen[3] = "hit" => Agentmap # {}

TypeOK ==
  /\ lastProbed \in Windows
  /\ hits \subseteq [url : URLs, by : {"probe", "link", "command"}]
  /\ item \in FrontierRow
  /\ CallOK(handler)
  /\ fetchItem \in [URLs -> FrontierRow]

\* The handler is there exactly while its item is in flight.
PhaseInv == handler.pc # "idle" <=> item.status = "in_flight"

\* What becomes of a hit without a frontier row.
InHand(u) ==
  \/ handler.retry
  \/ \E r \in handler.todo : r.outcome = "error" \/ (r.outcome = "hit" /\ r.url = u)
  \/ handler.pc = "resume" /\ handler.url = u
OwedInv ==
  \A h \in hits : h.by = "probe" /\ fetchItem[h.url].status = "absent" =>
    /\ Unfinished \/ h.url \in overlooked
    /\ handler.pc = "recover" => h.url \in handler.todo
    /\ handler.pc \in {"record", "resume"} => InHand(h.url) \/ Missed(h.url)
    /\ handler.pc = "done" => Missed(h.url)

\* An attempt that met a hit or a transient failure has still to record it, or
\* knows of it.
Telling(R) == \E r \in R : r.outcome \in {"hit", "error"}
ToldInv ==
  handler.pc \in {"record", "resume"} =>
    (Telling(Results(handler.seen, handler.seen[3])) =>
       handler.hadHit \/ handler.retry \/ Telling(handler.todo))

-----------------------------------------------------------------------------
(* The operators.                                                          *)

\* No update of a frontier row deletes it.
LEMMA Rows ==
  ASSUME NEW r \in FrontierRow
  PROVE  /\ Enqueued(r) \in FrontierRow /\ Enqueued(r).status # "absent"
         /\ Resumed(r) \in FrontierRow /\ Resumed(r).status # "absent"
         /\ Begun(r) \in FrontierRow /\ Begun(r).status = "in_flight"
         /\ Completed(r) \in FrontierRow /\ Completed(r).status = "done"
         /\ Reclaimed(r) \in FrontierRow /\ Reclaimed(r).status # "in_flight"
         /\ r.status # "absent" => Reclaimed(r).status # "absent"
         /\ r.status # "in_flight" => Reclaimed(r) = r
         /\ r.status = "in_flight" => Reclaimed(r).status = "pending"
         /\ \A l \in Nat : Erred(r, l) \in FrontierRow /\ Erred(r, l).status \in {"pending", "failed"}
<1>1. /\ Enqueued(r) \in FrontierRow /\ Enqueued(r).status # "absent"
      /\ Resumed(r) \in FrontierRow /\ Resumed(r).status # "absent"
  BY DEF FrontierRow, Enqueued, Resumed
<1>2. /\ Begun(r) \in FrontierRow /\ Begun(r).status = "in_flight"
      /\ Completed(r) \in FrontierRow /\ Completed(r).status = "done"
  BY DEF FrontierRow, Begun, Completed
<1>3. /\ Reclaimed(r) \in FrontierRow /\ Reclaimed(r).status # "in_flight"
      /\ r.status # "absent" => Reclaimed(r).status # "absent"
      /\ r.status # "in_flight" => Reclaimed(r) = r
      /\ r.status = "in_flight" => Reclaimed(r).status = "pending"
  BY DEF FrontierRow, Reclaimed
<1>4. ASSUME NEW l \in Nat
      PROVE  Erred(r, l) \in FrontierRow /\ Erred(r, l).status \in {"pending", "failed"}
  BY DEF FrontierRow, Failed, Erred
<1> QED BY <1>1, <1>2, <1>3, <1>4

\* An attempt's requests all end in something, whether or not they are cut.
LEMMA Ended ==
  ASSUME NEW t \in Ends
  PROVE  /\ t \in Outcomes \X Outcomes \X Outcomes
         /\ t[3] = "hit" => Agentmap # {}
<1>1. /\ AliasAnswers[1] \subseteq Outcomes /\ AliasAnswers[2] \subseteq Outcomes
      /\ AgentmapAnswers \subseteq Outcomes /\ "refused" \in Outcomes
  BY SiteAssumption DEF Outcomes
<1>2. ASSUME NEW q \in Attempts
      PROVE  q \in Outcomes \X Outcomes \X Outcomes /\ (q[3] = "hit" => Agentmap # {})
  BY <1>1 DEF Attempts
<1>3. ASSUME NEW q \in Attempts, t \in Cut(q)
      PROVE  t \in Outcomes \X Outcomes \X Outcomes /\ (t[3] = "hit" => Agentmap # {})
  <2>1. PICK m \in {"refused", q[3]} :
          t \in {<<q[1], q[2], "refused">>, <<q[1], "refused", m>>, <<"refused", "refused", m>>}
    BY <1>3 DEF Cut
  <2>2. q[1] \in Outcomes /\ q[2] \in Outcomes /\ q[3] \in Outcomes /\ (q[3] = "hit" => Agentmap # {})
    BY <1>2
  <2> QED BY <1>1, <2>1, <2>2
<1> QED BY <1>2, <1>3 DEF Ends

LEMMA Resulting ==
  ASSUME NEW t \in Outcomes \X Outcomes \X Outcomes
  PROVE  Results(t, t[3]) \subseteq Result
<1> DEFINE i == WellKnown(t)
<1>1. i = 1 \/ i = 2
  BY DEF WellKnown
<1>2. /\ Aliases[1] \in URLs /\ Aliases[2] \in URLs /\ RobotsURL \in URLs /\ Agentmap \subseteq URLs
  BY SiteAssumption
<1>3. t[1] \in Outcomes /\ t[2] \in Outcomes /\ t[3] \in Outcomes
  OBVIOUS
<1>4. t[i] \in Outcomes /\ Aliases[i] \in URLs
  BY <1>1, <1>2, <1>3
<1> HIDE DEF i
<1>5. Results(t, t[3]) \subseteq Result
  BY <1>2, <1>3, <1>4 DEF Results, Result, i
<1> QED BY <1>5

\* What an attempt without a hit and without a transient failure in its results
\* says about its requests.
LEMMA Silent ==
  ASSUME NEW t \in Outcomes \X Outcomes \X Outcomes, t[3] = "hit" => Agentmap # {},
         ~Telling(Results(t, t[3]))
  PROVE  /\ t[1] # "hit" /\ t[2] # "hit" /\ t[3] # "hit"
         /\ t[1] # "error" /\ t[3] # "error"
         /\ t[2] = "error" => t[1] = "refused"
<1> DEFINE i == WellKnown(t)
<1>1. \A r \in Results(t, t[3]) : r.outcome \notin {"hit", "error"}
  BY DEF Telling
<1>2. t[i] \notin {"hit", "error"}
  <2> DEFINE w == [method |-> "well_known", outcome |-> t[i], url |-> Aliases[i]]
  <2>1. w \in Results(t, t[3])
    BY DEF Results
  <2>2. w.outcome = t[i]
    OBVIOUS
  <2> QED BY <1>1, <2>1, <2>2
<1>3. t[3] \notin {"hit", "error"}
  <2>1. PICK u : u \in IF t[3] = "hit" THEN Agentmap ELSE {RobotsURL}
    OBVIOUS
  <2> DEFINE w == [method |-> "robots_agentmap", outcome |-> t[3], url |-> u]
  <2>2. w \in Results(t, t[3])
    BY <2>1 DEF Results
  <2>3. w.outcome = t[3]
    OBVIOUS
  <2> QED BY <1>1, <2>2, <2>3
<1>4. t[1] \in Outcomes /\ t[2] \in Outcomes
  OBVIOUS
<1> QED BY <1>2, <1>3, <1>4 DEF WellKnown, Outcomes

-----------------------------------------------------------------------------
(* Types and phases.                                                       *)

\* What the handlers of the documents and the other writers may do to the
\* frontier: nothing else about the probe changes.
LEMMA FetchStep ==
  ASSUME TypeOK, NEW u \in URLs, Fetch(u) \/ FetchError(u)
  PROVE  /\ fetchItem' \in [URLs -> FrontierRow]
         /\ \A v \in URLs : fetchItem[v].status # "absent" => fetchItem'[v].status # "absent"
         /\ UNCHANGED <<lastProbed, hits, item, handler, overlooked>>
<1>1. fetchItem \in [URLs -> FrontierRow] /\ MaxAttempts \in Nat
  BY ParameterAssumption DEF TypeOK
<1>2. ASSUME NEW l \in Nat, FetchFails(u, l)
      PROVE  /\ fetchItem' \in [URLs -> FrontierRow]
             /\ \A v \in URLs : fetchItem[v].status # "absent" => fetchItem'[v].status # "absent"
             /\ UNCHANGED <<lastProbed, hits, item, handler, overlooked>>
  <2> DEFINE r == Failed(fetchItem[u], l)
  <2>1. r \in FrontierRow /\ r.status # "absent"
    BY <1>1 DEF FrontierRow, Failed
  <2>2. fetchItem' = [fetchItem EXCEPT ![u] = r]
    BY <1>2 DEF FetchFails
  <2> HIDE DEF r
  <2> QED BY <1>1, <1>2, <2>1, <2>2 DEF FetchFails, domainVars, runVars
<1>3. CASE \E d \in FrontierRow : d.status # "absent" /\ fetchItem' = [fetchItem EXCEPT ![u] = d]
                                  /\ UNCHANGED <<lastProbed, hits, item, handler, overlooked>>
  BY <1>1, <1>3
<1>4. Begun(fetchItem[u]) \in FrontierRow /\ Begun(fetchItem[u]).status # "absent"
  BY <1>1, Rows
<1>5. Completed(fetchItem[u]) \in FrontierRow /\ Completed(fetchItem[u]).status # "absent"
  BY <1>1, Rows
<1>6. Erred(fetchItem[u], 1) \in FrontierRow /\ Erred(fetchItem[u], 1).status # "absent"
  BY <1>1, Rows
<1>7. CASE FetchDocument(u)
  BY <1>1, <1>2, <1>3, <1>4, <1>7 DEF FetchDocument, domainVars, runVars
<1>8. CASE SaveCatalog(u)
  BY <1>1, <1>8 DEF SaveCatalog, domainVars, runVars
<1>9. CASE SetVerdict(u)
  BY <1>1, <1>9 DEF SetVerdict, runVars
<1>10. CASE CompleteFetch(u)
  BY <1>3, <1>5, <1>10 DEF CompleteFetch, domainVars, runVars
<1>11. CASE FetchError(u)
  BY <1>3, <1>6, <1>11 DEF FetchError, domainVars, runVars
<1> QED BY <1>7, <1>8, <1>9, <1>10, <1>11 DEF Fetch

\* What a page with a hint and `ardvark probe' may do.
LEMMA OtherWriters ==
  ASSUME TypeOK,
         \/ \E u \in Hints : RecordHint(u) \/ EnqueueHint(u)
         \/ \E i \in 1..2, o \in Outcomes : o \in AliasAnswers[i] /\ CommandProbe(Aliases[i], o)
         \/ \E o \in AgentmapAnswers : CommandProbe(RobotsURL, o)
  PROVE  /\ lastProbed' \in {lastProbed, "fresh"}
         /\ hits \subseteq hits'
         /\ \A h \in hits' \ hits : h \in [url : URLs, by : {"link", "command"}]
         /\ fetchItem' \in [URLs -> FrontierRow]
         /\ \A v \in URLs : fetchItem[v].status # "absent" => fetchItem'[v].status # "absent"
         /\ UNCHANGED <<item, handler, ardStatus, overlooked>>
<1>1. /\ Hints \subseteq URLs /\ RobotsURL \in URLs /\ Aliases[1] \in URLs /\ Aliases[2] \in URLs
      /\ fetchItem \in [URLs -> FrontierRow]
  BY SiteAssumption DEF TypeOK
<1>2. CASE \E u \in Hints : RecordHint(u)
  BY <1>1, <1>2 DEF RecordHint, Recorded, domainVars, runVars, fetchVars
<1>3. ASSUME NEW u \in Hints, EnqueueHint(u)
      PROVE  /\ fetchItem' \in [URLs -> FrontierRow]
             /\ \A v \in URLs : fetchItem[v].status # "absent" => fetchItem'[v].status # "absent"
             /\ UNCHANGED <<lastProbed, hits, item, handler, ardStatus, overlooked>>
  <2> DEFINE r == Enqueued(fetchItem[u])
  <2>1. r \in FrontierRow /\ r.status # "absent"
    BY <1>1, Rows
  <2>2. fetchItem' \in {[fetchItem EXCEPT ![u] = r], fetchItem}
    BY <1>3 DEF EnqueueHint
  <2> HIDE DEF r
  <2> QED BY <1>1, <1>3, <2>1, <2>2 DEF EnqueueHint, domainVars, runVars
<1>4. CASE \E v \in URLs, o \in Outcomes : CommandProbe(v, o)
  BY <1>1, <1>4 DEF CommandProbe, Recorded, fetchVars, runVars
<1>5. ASSUME \/ \E i \in 1..2, o \in Outcomes : o \in AliasAnswers[i] /\ CommandProbe(Aliases[i], o)
             \/ \E o \in AgentmapAnswers : CommandProbe(RobotsURL, o)
      PROVE  \E v \in URLs, o \in Outcomes : CommandProbe(v, o)
  <2>1. AgentmapAnswers \subseteq Outcomes /\ \A i \in 1..2 : Aliases[i] \in URLs
    BY SiteAssumption
  <2> QED BY <1>1, <1>5, <2>1
<1>6. CASE \E u \in Hints : RecordHint(u) \/ EnqueueHint(u)
  <2>1. CASE \E u \in Hints : EnqueueHint(u)
    BY <1>3, <2>1
  <2> QED BY <1>2, <1>6, <2>1
<1> QED BY <1>4, <1>5, <1>6

LEMMA RestartStep ==
  ASSUME TypeOK, StartAgain \/ CrashRestart
  PROVE  /\ handler' = Idle
         /\ item' = Reclaimed(item)
         /\ fetchItem' \in [URLs -> FrontierRow]
         /\ \A v \in URLs : fetchItem[v].status # "absent" => fetchItem'[v].status # "absent"
         /\ UNCHANGED <<lastProbed, hits, ardStatus, overlooked>>
<1>1. fetchItem \in [URLs -> FrontierRow]
  BY DEF TypeOK
<1>2. fetchItem' = [u \in URLs |-> Reclaimed(fetchItem[u])]
  BY <1>1 DEF CrashRestart, StartAgain, Started
<1>3. ASSUME NEW v \in URLs
      PROVE  /\ fetchItem'[v] \in FrontierRow
             /\ fetchItem[v].status # "absent" => fetchItem'[v].status # "absent"
  BY <1>1, <1>2, Rows
<1> QED BY <1>2, <1>3 DEF CrashRestart, StartAgain, Started, domainVars

\* The handler's own steps, one by one.
LEMMA CallStep ==
  ASSUME TypeOK, Probe \/ ProbeError \/ WindowPasses
  PROVE  CallOK(handler') /\ lastProbed' \in Windows
<1>1. /\ handler \in Calls /\ lastProbed \in Windows /\ handler.previous \in Windows
      /\ hits \subseteq [url : URLs, by : {"probe", "link", "command"}]
      /\ handler.pc \in {"record", "resume"} => handler.todo \subseteq Result
      /\ handler.pc = "resume" => handler.url \in URLs
      /\ handler.pc \in {"record", "resume"} =>
           /\ "none" \notin {handler.seen[1], handler.seen[2], handler.seen[3]}
           /\ handler.seen[3] = "hit" => Agentmap # {}
  BY DEF TypeOK, CallOK, Calls
<1>2. Idle \in Calls /\ Idle.pc = "idle"
  BY DEF Calls, Idle, Windows, NoEnds, Answers, Answer
<1>3. CASE DequeueProbe \/ StartProbe
  <2> DEFINE known == {h.url : h \in hits}
  <2>1. known \in SUBSET (URLs \union Result)
    BY <1>1
  <2> HIDE DEF known
  <2>2. ASSUME NEW c \in {[Idle EXCEPT !.pc = "start"], [Idle EXCEPT !.pc = "upsert"],
                         [Idle EXCEPT !.pc = "recover", !.todo = known]}
        PROVE  CallOK(c)
    BY <1>2, <2>1 DEF CallOK, Calls
  <2>3. /\ lastProbed' = lastProbed
        /\ \/ handler' = [Idle EXCEPT !.pc = "start"]
           \/ handler' = [Idle EXCEPT !.pc = "upsert"]
           \/ handler' = Recover
    BY <1>3 DEF DequeueProbe, StartProbe, domainVars
  <2>4. Recover = [Idle EXCEPT !.pc = "recover", !.todo = known]
    BY DEF Recover, known
  <2> QED BY <1>1, <2>2, <2>3, <2>4
<1>4. CASE ResumeFetch
  BY <1>1, <1>4 DEF ResumeFetch, CallOK, Calls, domainVars
<1>5. CASE \E u \in URLs : RecoverHit(u)
  BY <1>1, <1>5 DEF RecoverHit, CallOK, Calls, domainVars
<1>6. ASSUME NEW e \in Ends, ProbeHost(e)
      PROVE  CallOK(handler') /\ lastProbed' \in Windows
  <2> DEFINE R == Results(e, e[3])
  <2>1. e \in Outcomes \X Outcomes \X Outcomes /\ (e[3] = "hit" => Agentmap # {})
    BY <1>6, Ended
  <2>2. R \subseteq Result
    BY <2>1, Resulting
  <2>3. /\ handler' = [handler EXCEPT !.pc = "record", !.todo = R, !.previous = lastProbed, !.seen = e]
        /\ lastProbed' = lastProbed
    BY <1>6 DEF ProbeHost, domainVars
  <2> HIDE DEF R
  <2>4. e \in Answers /\ "none" \notin {e[1], e[2], e[3]}
    BY <2>1 DEF Answers, Answer, Outcomes
  <2> QED BY <1>1, <2>1, <2>2, <2>3, <2>4 DEF CallOK, Calls
<1>7. ASSUME NEW r \in handler.todo, RecordMiss(r)
      PROVE  CallOK(handler') /\ lastProbed' \in Windows
  <2>1. handler.todo \subseteq Result
    BY <1>1, <1>7 DEF RecordMiss
  <2> DEFINE b == handler.retry \/ r.outcome = "error"
  <2>2. b \in BOOLEAN
    OBVIOUS
  <2>3. handler' = [handler EXCEPT !.todo = handler.todo \ {r}, !.retry = b]
    BY <1>7, Zenon DEF RecordMiss
  <2>4. lastProbed' \in Windows /\ handler.pc = "record"
    BY <1>7 DEF RecordMiss, Recorded, Windows
  <2> HIDE DEF b
  <2> QED BY <1>1, <2>1, <2>2, <2>3, <2>4 DEF CallOK, Calls
<1>8. ASSUME NEW r \in handler.todo, RecordHit(r)
      PROVE  CallOK(handler') /\ lastProbed' \in Windows
  <2>1. handler.todo \subseteq Result /\ r.url \in URLs
    BY <1>1, <1>8 DEF RecordHit, Result
  <2> QED BY <1>1, <1>8, <2>1 DEF RecordHit, Recorded, CallOK, Calls, Windows
<1>9. CASE SetProbedStatus
  BY <1>1, <1>9 DEF SetProbedStatus, CallOK, Calls
<1>10. CASE RestoreLastProbed
  BY <1>1, <1>10 DEF RestoreLastProbed, CallOK, Calls
<1>11. CASE AnswerProbe
  BY <1>1, <1>2, <1>11 DEF AnswerProbe, domainVars, CallOK
<1>12. CASE ProbeError
  BY <1>1, <1>2, <1>12 DEF ProbeError, domainVars, CallOK
<1>13. CASE WindowPasses
  <2>1. Aged(lastProbed) \in Windows /\ Aged(handler.previous) \in Windows
    BY <1>1 DEF Aged, Windows
  <2>2. handler' = [handler EXCEPT !.previous = Aged(handler.previous)] /\ lastProbed' = Aged(lastProbed)
    BY <1>1, <1>13 DEF WindowPasses, Calls
  <2> QED BY <1>1, <2>1, <2>2 DEF CallOK, Calls
<1> QED BY <1>3, <1>4, <1>5, <1>6, <1>7, <1>8, <1>9, <1>10, <1>11, <1>12, <1>13 DEF Probe

\* The handler's steps on the tables.
LEMMA TableStep ==
  ASSUME TypeOK, Probe \/ ProbeError \/ WindowPasses \/ EnqueueProbe
  PROVE  /\ item' \in FrontierRow
         /\ fetchItem' \in [URLs -> FrontierRow]
         /\ \A v \in URLs : fetchItem[v].status # "absent" => fetchItem'[v].status # "absent"
         /\ hits \subseteq hits' /\ hits' \subseteq [url : URLs, by : {"probe", "link", "command"}]
<1>1. /\ handler \in Calls /\ item \in FrontierRow /\ fetchItem \in [URLs -> FrontierRow]
      /\ hits \subseteq [url : URLs, by : {"probe", "link", "command"}]
      /\ handler.pc \in {"record", "resume"} => handler.todo \subseteq Result
      /\ handler.pc = "resume" => handler.url \in URLs
      /\ MaxAttempts \in Nat /\ 1 \in Nat
  BY ParameterAssumption DEF TypeOK, CallOK
<1>2. /\ Enqueued(item) \in FrontierRow /\ Begun(item) \in FrontierRow /\ Completed(item) \in FrontierRow
      /\ Erred(item, MaxAttempts) \in FrontierRow /\ Erred(item, 1) \in FrontierRow
  BY <1>1, Rows
<1>3. ASSUME NEW u \in URLs, fetchItem' = [fetchItem EXCEPT ![u] = Resumed(fetchItem[u])]
      PROVE  /\ fetchItem' \in [URLs -> FrontierRow]
             /\ \A v \in URLs : fetchItem[v].status # "absent" => fetchItem'[v].status # "absent"
  <2> DEFINE r == Resumed(fetchItem[u])
  <2>1. r \in FrontierRow /\ r.status # "absent"
    BY <1>1, Rows
  <2>2. fetchItem' = [fetchItem EXCEPT ![u] = r]
    BY <1>3
  <2> HIDE DEF r
  <2> QED BY <1>1, <2>1, <2>2
<1>4. CASE DequeueProbe \/ StartProbe
  BY <1>1, <1>2, <1>4 DEF DequeueProbe, StartProbe, domainVars, fetchVars
<1>5. CASE ResumeFetch
  BY <1>1, <1>3, <1>5 DEF ResumeFetch, domainVars
<1>6. CASE \E u \in URLs : RecoverHit(u)
  BY <1>1, <1>3, <1>6 DEF RecoverHit, domainVars
<1>7. CASE \E e \in Ends : ProbeHost(e)
  BY <1>1, <1>7 DEF ProbeHost, domainVars, fetchVars
<1>8. ASSUME NEW r \in handler.todo, RecordMiss(r)
      PROVE  UNCHANGED <<item, fetchItem, hits>>
  BY <1>8 DEF RecordMiss, Recorded, fetchVars
<1>9. ASSUME NEW r \in handler.todo, RecordHit(r)
      PROVE  /\ UNCHANGED <<item, fetchItem>>
             /\ hits \subseteq hits' /\ hits' \subseteq [url : URLs, by : {"probe", "link", "command"}]
  <2>1. r.url \in URLs
    BY <1>1, <1>9 DEF RecordHit, Result
  <2> QED BY <1>1, <1>9, <2>1 DEF RecordHit, Recorded, fetchVars
<1>10. CASE SetProbedStatus \/ RestoreLastProbed \/ WindowPasses
  BY <1>1, <1>10 DEF SetProbedStatus, RestoreLastProbed, WindowPasses, fetchVars
<1>11. CASE AnswerProbe \/ ProbeError \/ EnqueueProbe
  BY <1>1, <1>2, <1>11 DEF AnswerProbe, ProbeError, EnqueueProbe, fetchVars, domainVars
<1> QED BY <1>1, <1>4, <1>5, <1>6, <1>7, <1>8, <1>9, <1>10, <1>11 DEF Probe

LEMMA TypeStep ==
  ASSUME TypeOK, [Next]_vars
  PROVE  TypeOK'
<1>1. TypeOK
  OBVIOUS
<1>2. CASE Probe \/ ProbeError \/ WindowPasses
  BY <1>2, CallStep, TableStep DEF TypeOK
<1>3. CASE EnqueueProbe
  <2>1. UNCHANGED <<handler, lastProbed>>
    BY <1>3 DEF EnqueueProbe, domainVars
  <2> QED BY <1>3, <2>1, TableStep DEF TypeOK, CallOK
<1>4. CASE \E u \in URLs : Fetch(u) \/ FetchError(u)
  BY <1>4, FetchStep DEF TypeOK, CallOK
<1>5. CASE StartAgain \/ CrashRestart
  <2>1. CallOK(Idle)
    BY DEF CallOK, Calls, Idle, Windows, NoEnds, Answers, Answer
  <2> QED BY <1>5, <2>1, RestartStep, Rows DEF TypeOK, CallOK
<1>6. CASE Interrupt \/ UNCHANGED vars
  BY <1>6 DEF Interrupt, domainVars, fetchVars, TypeOK, CallOK, vars
<1>7. CASE \/ \E u \in Hints : RecordHint(u) \/ EnqueueHint(u)
           \/ \E i \in 1..2, o \in Outcomes : o \in AliasAnswers[i] /\ CommandProbe(Aliases[i], o)
           \/ \E o \in AgentmapAnswers : CommandProbe(RobotsURL, o)
  <2>1. /\ lastProbed' \in {lastProbed, "fresh"} /\ hits \subseteq hits'
        /\ \A h \in hits' \ hits : h \in [url : URLs, by : {"link", "command"}]
        /\ fetchItem' \in [URLs -> FrontierRow] /\ UNCHANGED <<item, handler>>
    BY <1>7, OtherWriters
  <2>2. \A h \in hits' : h \in [url : URLs, by : {"probe", "link", "command"}]
    BY <2>1 DEF TypeOK
  <2> QED BY <2>1, <2>2 DEF TypeOK, CallOK, Windows
<1> QED BY <1>2, <1>3, <1>4, <1>5, <1>6, <1>7 DEF Next

\* The steps that are not the handler's: they neither take its item nor add a
\* hit of its own.
Aside ==
  \/ \E u \in URLs : Fetch(u) \/ FetchError(u)
  \/ \E u \in Hints : RecordHint(u) \/ EnqueueHint(u)
  \/ \E i \in 1..2, o \in Outcomes : o \in AliasAnswers[i] /\ CommandProbe(Aliases[i], o)
  \/ \E o \in AgentmapAnswers : CommandProbe(RobotsURL, o)
  \/ WindowPasses
  \/ Interrupt
  \/ UNCHANGED vars

LEMMA AsideStep ==
  ASSUME TypeOK, Aside
  PROVE  /\ item' = item
         /\ /\ handler'.pc = handler.pc /\ handler'.todo = handler.todo
            /\ handler'.url = handler.url /\ handler'.hadHit = handler.hadHit
            /\ handler'.retry = handler.retry /\ handler'.seen = handler.seen
         /\ overlooked' = overlooked
         /\ hits \subseteq hits' /\ \A h \in hits' : h.by = "probe" => h \in hits
         /\ \A v \in URLs : fetchItem[v].status # "absent" => fetchItem'[v].status # "absent"
<1>1. CASE \E u \in URLs : Fetch(u) \/ FetchError(u)
  BY <1>1, FetchStep
<1>2. CASE \/ \E u \in Hints : RecordHint(u) \/ EnqueueHint(u)
           \/ \E i \in 1..2, o \in Outcomes : o \in AliasAnswers[i] /\ CommandProbe(Aliases[i], o)
           \/ \E o \in AgentmapAnswers : CommandProbe(RobotsURL, o)
  <2>1. /\ hits \subseteq hits'
        /\ \A h \in hits' \ hits : h \in [url : URLs, by : {"link", "command"}]
        /\ \A v \in URLs : fetchItem[v].status # "absent" => fetchItem'[v].status # "absent"
        /\ UNCHANGED <<item, handler, overlooked>>
    BY <1>2, OtherWriters
  <2> QED BY <2>1
<1>3. CASE WindowPasses
  BY <1>3 DEF WindowPasses, fetchVars, runVars, TypeOK, CallOK, Calls
<1>4. CASE Interrupt \/ UNCHANGED vars
  BY <1>4 DEF Interrupt, domainVars, fetchVars, vars
<1> QED BY <1>1, <1>2, <1>3, <1>4 DEF Aside

\* Every step is the handler's, an enqueueing, a restart, or aside.
LEMMA StepCases ==
  ASSUME [Next]_vars
  PROVE  Aside \/ Probe \/ ProbeError \/ EnqueueProbe \/ StartAgain \/ CrashRestart
BY DEF Next, Aside

LEMMA MissStep ==
  ASSUME TypeOK, NEW r \in handler.todo, RecordMiss(r)
  PROVE  /\ handler.pc = "record" /\ handler'.pc = "record" /\ r.outcome # "hit"
         /\ handler'.todo = handler.todo \ {r} /\ handler'.hadHit = handler.hadHit
         /\ handler'.seen = handler.seen
         /\ handler'.retry <=> (handler.retry \/ r.outcome = "error")
         /\ UNCHANGED <<item, fetchItem, hits, ardStatus, overlooked>>
<1>1. handler \in Calls
  BY DEF TypeOK, CallOK
<1> DEFINE b == handler.retry \/ r.outcome = "error"
<1>2. handler' = [handler EXCEPT !.todo = handler.todo \ {r}, !.retry = b]
  BY Zenon DEF RecordMiss
<1>3. /\ handler.pc = "record" /\ r.outcome # "hit"
      /\ UNCHANGED <<item, fetchItem, hits, ardStatus, overlooked>>
  BY DEF RecordMiss, Recorded, fetchVars, runVars
<1> HIDE DEF b
<1>4. /\ handler'.pc = "record" /\ handler'.todo = handler.todo \ {r}
      /\ handler'.hadHit = handler.hadHit /\ handler'.retry = b /\ handler'.seen = handler.seen
  BY <1>1, <1>2, <1>3 DEF Calls
<1> QED BY <1>3, <1>4, Zenon DEF b

LEMMA PhaseStep ==
  ASSUME TypeOK, PhaseInv, [Next]_vars
  PROVE  PhaseInv'
<1>1. /\ handler \in Calls /\ item \in FrontierRow /\ MaxAttempts \in Nat /\ 1 \in Nat
      /\ handler.pc # "idle" <=> item.status = "in_flight"
  BY ParameterAssumption DEF TypeOK, CallOK, PhaseInv
<1>2. /\ Begun(item).status = "in_flight" /\ Completed(item).status = "done"
      /\ Erred(item, MaxAttempts).status \in {"pending", "failed"}
      /\ Erred(item, 1).status \in {"pending", "failed"}
      /\ Reclaimed(item).status # "in_flight"
  BY <1>1, Rows
<1>3. CASE Aside
  BY <1>3, AsideStep DEF PhaseInv
<1>4. CASE DequeueProbe \/ StartProbe
  BY <1>1, <1>2, <1>4 DEF DequeueProbe, StartProbe, PhaseInv, Idle, Recover
<1>5. CASE ResumeFetch \/ SetProbedStatus \/ RestoreLastProbed
  BY <1>1, <1>5 DEF ResumeFetch, SetProbedStatus, RestoreLastProbed, PhaseInv, Calls
<1>6. CASE \E u \in URLs : RecoverHit(u)
  BY <1>1, <1>6 DEF RecoverHit, PhaseInv, Calls
<1>7. CASE \E e \in Ends : ProbeHost(e)
  <2>1. /\ item' = item /\ handler.pc = "upsert" /\ handler'.pc = "record"
    BY <1>1, <1>7 DEF ProbeHost, Calls
  <2> QED BY <1>1, <2>1 DEF PhaseInv
<1>8. ASSUME NEW r \in handler.todo, RecordMiss(r) \/ RecordHit(r)
      PROVE  PhaseInv'
  <2>1. CASE RecordMiss(r)
    BY <1>1, <2>1, MissStep DEF PhaseInv
  <2>2. CASE RecordHit(r)
    <3>1. item' = item /\ handler.pc = "record" /\ handler'.pc = "resume"
      BY <1>1, <2>2 DEF RecordHit, Calls
    <3> QED BY <1>1, <3>1 DEF PhaseInv
  <2> QED BY <1>8, <2>1, <2>2
<1>9. CASE AnswerProbe \/ ProbeError
  BY <1>2, <1>9 DEF AnswerProbe, ProbeError, Idle, PhaseInv
<1>10. CASE EnqueueProbe
  BY <1>1, <1>10 DEF EnqueueProbe, Enqueued, PhaseInv
<1>11. CASE StartAgain \/ CrashRestart
  BY <1>2, <1>11, RestartStep DEF Idle, PhaseInv
<1> QED BY <1>3, <1>4, <1>5, <1>6, <1>7, <1>8, <1>9, <1>10, <1>11, StepCases DEF Probe

-----------------------------------------------------------------------------
(* The debt.                                                               *)

\* The handler's steps that are not RecordMiss, as far as the debt goes.
LEMMA HitStep ==
  ASSUME TypeOK, NEW r \in handler.todo, RecordHit(r)
  PROVE  /\ handler.pc = "record" /\ handler'.pc = "resume" /\ r.outcome = "hit"
         /\ handler'.todo = handler.todo \ {r} /\ handler'.url = r.url
         /\ handler'.hadHit /\ handler'.retry = handler.retry /\ handler'.seen = handler.seen
         /\ hits' = hits \union {[url |-> r.url, by |-> "probe"]}
         /\ UNCHANGED <<item, fetchItem, ardStatus, overlooked>>
BY DEF TypeOK, CallOK, Calls, RecordHit, Recorded, fetchVars, runVars

LEMMA ResumeStep ==
  ASSUME TypeOK, ResumeFetch
  PROVE  /\ handler.pc = "resume" /\ handler'.pc = "record"
         /\ handler'.todo = handler.todo /\ handler'.hadHit = handler.hadHit
         /\ handler'.retry = handler.retry /\ handler'.seen = handler.seen
         /\ fetchItem'[handler.url].status # "absent"
         /\ UNCHANGED <<item, hits, ardStatus, overlooked>>
<1>1. handler \in Calls /\ fetchItem \in [URLs -> FrontierRow] /\ handler.url \in URLs
  BY DEF TypeOK, CallOK, ResumeFetch
<1>2. Resumed(fetchItem[handler.url]).status # "absent"
  BY <1>1, Rows
<1>3. fetchItem'[handler.url] = Resumed(fetchItem[handler.url])
  BY <1>1 DEF ResumeFetch
<1> QED BY <1>1, <1>2, <1>3 DEF ResumeFetch, domainVars, runVars, Calls

LEMMA RecoverStep ==
  ASSUME TypeOK, NEW u \in URLs, RecoverHit(u)
  PROVE  /\ handler.pc = "recover" /\ handler'.pc = "recover"
         /\ handler'.todo = handler.todo \ {u} /\ handler'.seen = handler.seen
         /\ fetchItem'[u].status # "absent"
         /\ UNCHANGED <<item, hits, ardStatus, overlooked>>
<1>1. handler \in Calls /\ fetchItem \in [URLs -> FrontierRow]
  BY DEF TypeOK, CallOK
<1>2. Resumed(fetchItem[u]).status # "absent"
  BY <1>1, Rows
<1>3. fetchItem'[u] = Resumed(fetchItem[u])
  BY <1>1 DEF RecoverHit
<1> QED BY <1>1, <1>2, <1>3 DEF RecoverHit, domainVars, runVars, Calls

LEMMA ProbeHostStep ==
  ASSUME TypeOK, NEW e \in Ends, ProbeHost(e)
  PROVE  /\ handler.pc = "upsert" /\ handler'.pc = "record"
         /\ handler'.seen = e /\ handler'.todo = Results(e, e[3])
         /\ UNCHANGED <<item, fetchItem, hits, ardStatus, overlooked>>
<1> DEFINE R == Results(e, e[3])
<1>1. /\ handler.pc = "upsert"
      /\ handler' = [handler EXCEPT !.pc = "record", !.todo = R, !.previous = lastProbed, !.seen = e]
      /\ UNCHANGED <<item, fetchItem, hits, ardStatus, overlooked>>
  BY DEF ProbeHost, domainVars, fetchVars, runVars
<1> HIDE DEF R
<1>2. /\ handler.pc = "upsert" /\ handler'.pc = "record" /\ handler'.seen = e /\ handler'.todo = R
      /\ UNCHANGED <<item, fetchItem, hits, ardStatus, overlooked>>
  BY <1>1 DEF TypeOK, CallOK, Calls
<1> QED BY <1>2 DEF R

\* Whatever the handler forgets about a hit, it is still owed a run, unless the
\* attempt in hand has missed it.
LEMMA OwedStep ==
  ASSUME TypeOK, PhaseInv, OwedInv, [Next]_vars
  PROVE  OwedInv'
<1> SUFFICES ASSUME NEW h \in hits', h.by = "probe", fetchItem'[h.url].status = "absent"
             PROVE  /\ Unfinished' \/ h.url \in overlooked'
                    /\ handler'.pc = "recover" => h.url \in handler'.todo
                    /\ handler'.pc \in {"record", "resume"} => InHand(h.url)' \/ Missed(h.url)'
                    /\ handler'.pc = "done" => Missed(h.url)'
  BY DEF OwedInv
<1>1. /\ handler \in Calls /\ item \in FrontierRow /\ MaxAttempts \in Nat /\ 1 \in Nat
      /\ fetchItem \in [URLs -> FrontierRow]
      /\ handler.pc # "idle" <=> item.status = "in_flight"
  BY ParameterAssumption DEF TypeOK, CallOK, PhaseInv
<1>2. h.url \in URLs
  BY TypeStep DEF TypeOK
<1>3. ASSUME h \in hits, fetchItem[h.url].status = "absent"
      PROVE  /\ Unfinished \/ h.url \in overlooked
             /\ handler.pc = "recover" => h.url \in handler.todo
             /\ handler.pc \in {"record", "resume"} => InHand(h.url) \/ Missed(h.url)
             /\ handler.pc = "done" => Missed(h.url)
  BY <1>3 DEF OwedInv
<1>4. ASSUME fetchItem[h.url].status = "absent", handler'.seen = handler.seen, Missed(h.url)
      PROVE  Missed(h.url)'
  BY <1>4 DEF Missed, Results
<1>5. CASE Aside
  <2>1. /\ item' = item /\ handler'.pc = handler.pc /\ handler'.todo = handler.todo
        /\ handler'.url = handler.url /\ handler'.retry = handler.retry
        /\ handler'.seen = handler.seen /\ overlooked' = overlooked
        /\ h \in hits /\ fetchItem[h.url].status = "absent"
    BY <1>2, <1>5, AsideStep
  <2> QED BY <1>3, <1>4, <2>1 DEF Unfinished, InHand
<1>6. CASE DequeueProbe \/ StartProbe
  <2> DEFINE known == {g.url : g \in hits}
  <2>1. /\ handler' \in {[Idle EXCEPT !.pc = "start"], [Idle EXCEPT !.pc = "upsert"]} \/ handler' = Recover
        /\ item' = Begun(item) \/ (item' = item /\ handler.pc = "start")
        /\ hits' = hits
    BY <1>6 DEF DequeueProbe, StartProbe, domainVars
  <2>2. Begun(item).status = "in_flight"
    BY <1>1, Rows
  <2>3. Recover = [Idle EXCEPT !.pc = "recover", !.todo = known]
    BY DEF Recover
  <2> HIDE DEF known
  <2>4. handler'.pc \in {"start", "upsert"} \/ (handler'.pc = "recover" /\ handler'.todo = known)
    BY <2>1, <2>3 DEF Idle
  <2>5. item'.status = "in_flight"
    BY <1>1, <2>1, <2>2
  <2> QED BY <2>1, <2>4, <2>5 DEF Unfinished, known
<1>7. ASSUME NEW u \in URLs, RecoverHit(u)
      PROVE  /\ Unfinished' /\ handler'.pc = "recover" /\ h.url \in handler'.todo
  <2>1. /\ handler.pc = "recover" /\ handler'.pc = "recover" /\ handler'.todo = handler.todo \ {u}
        /\ fetchItem'[u].status # "absent" /\ item' = item /\ hits' = hits
    BY <1>7, RecoverStep
  <2>2. fetchItem[h.url].status = "absent"
    BY <1>2, <1>7, TableStep DEF Probe
  <2> QED BY <1>1, <1>3, <2>1, <2>2 DEF Unfinished
<1>8. ASSUME NEW e \in Ends, ProbeHost(e)
      PROVE  Unfinished' /\ handler'.pc = "record" /\ (InHand(h.url)' \/ Missed(h.url)')
  <2>1. /\ handler.pc = "upsert" /\ handler'.pc = "record"
        /\ handler'.seen = e /\ handler'.todo = Results(e, e[3])
        /\ UNCHANGED <<item, fetchItem, hits>>
    BY <1>8, ProbeHostStep
  <2> DEFINE R == Results(e, e[3])
  <2>2. Results(handler.seen, handler.seen[3])' = R
    BY <2>1 DEF Results
  <2> HIDE DEF R
  <2>3. CASE \E r \in R : r.outcome = "error" \/ (r.outcome = "hit" /\ r.url = h.url)
    BY <1>1, <2>1, <2>3 DEF InHand, Unfinished, R
  <2>4. CASE \A r \in R : r.outcome # "error" /\ ~(r.outcome = "hit" /\ r.url = h.url)
    BY <1>1, <2>1, <2>2, <2>4 DEF Missed, Unfinished
  <2> QED BY <2>3, <2>4
<1>9. ASSUME NEW r \in handler.todo, RecordMiss(r)
      PROVE  Unfinished' /\ handler'.pc = "record" /\ (InHand(h.url)' \/ Missed(h.url)')
  <2>1. /\ handler.pc = "record" /\ handler'.pc = "record" /\ r.outcome # "hit"
        /\ handler'.todo = handler.todo \ {r} /\ handler'.seen = handler.seen
        /\ handler'.retry <=> (handler.retry \/ r.outcome = "error")
        /\ UNCHANGED <<item, fetchItem, hits>>
    BY <1>9, MissStep
  <2>2. InHand(h.url) \/ Missed(h.url)
    BY <1>3, <2>1
  <2> QED BY <1>1, <1>4, <2>1, <2>2 DEF InHand, Unfinished
<1>10. ASSUME NEW r \in handler.todo, RecordHit(r)
      PROVE  Unfinished' /\ handler'.pc = "resume" /\ (InHand(h.url)' \/ Missed(h.url)')
  <2>1. /\ handler.pc = "record" /\ handler'.pc = "resume" /\ r.outcome = "hit"
        /\ handler'.todo = handler.todo \ {r} /\ handler'.url = r.url /\ handler'.retry = handler.retry
        /\ handler'.seen = handler.seen
        /\ hits' = hits \union {[url |-> r.url, by |-> "probe"]}
        /\ UNCHANGED <<item, fetchItem>>
    BY <1>10, HitStep
  <2>2. Unfinished'
    BY <1>1, <2>1 DEF Unfinished
  <2>3. CASE h \in hits
    <3>1. InHand(h.url) \/ Missed(h.url)
      BY <1>3, <2>1, <2>3
    <3> QED BY <1>4, <2>1, <2>2, <3>1 DEF InHand
  <2>4. CASE h.url = r.url
    BY <2>1, <2>2, <2>4 DEF InHand
  <2> QED BY <2>1, <2>3, <2>4
<1>11. CASE ResumeFetch
  <2>1. /\ handler.pc = "resume" /\ handler'.pc = "record"
        /\ handler'.todo = handler.todo /\ handler'.retry = handler.retry /\ handler'.seen = handler.seen
        /\ fetchItem'[handler.url].status # "absent" /\ UNCHANGED <<item, hits>>
    BY <1>11, ResumeStep
  <2>2. fetchItem[h.url].status = "absent"
    BY <1>2, <1>11, TableStep DEF Probe
  <2>3. InHand(h.url) \/ Missed(h.url)
    BY <1>3, <2>1, <2>2
  <2> QED BY <1>1, <1>4, <2>1, <2>2, <2>3 DEF InHand, Unfinished
<1>12. CASE SetProbedStatus
  <2>1. /\ handler.pc = "record" /\ handler.todo = {} /\ UNCHANGED <<item, hits, fetchItem>>
        /\ handler'.pc = IF handler.retry THEN "restore" ELSE "done"
        /\ handler'.seen = handler.seen
    BY <1>1, <1>12 DEF SetProbedStatus, fetchVars, Calls
  <2>2. InHand(h.url) \/ Missed(h.url)
    BY <1>3, <2>1
  <2> QED BY <1>1, <1>4, <2>1, <2>2 DEF InHand, Unfinished
<1>13. CASE RestoreLastProbed
  <2>1. handler'.pc = "retry" /\ handler.pc = "restore" /\ item' = item
    BY <1>1, <1>13 DEF RestoreLastProbed, Calls
  <2> QED BY <1>1, <2>1 DEF Unfinished
<1>14. CASE AnswerProbe
  <2>1. /\ handler'.pc = "idle" /\ UNCHANGED <<hits, fetchItem>>
        /\ \/ /\ handler.pc = "done"
              /\ overlooked' = {g.url : g \in {f \in hits : f.by = "probe" /\ Missed(f.url)}}
           \/ handler.pc = "recover" /\ handler.todo = {}
           \/ item' = Erred(item, MaxAttempts)
    BY <1>14 DEF AnswerProbe, Idle, domainVars, fetchVars
  <2>2. Erred(item, MaxAttempts).status \in {"pending", "failed"}
    BY <1>1, Rows
  <2>3. ASSUME handler.pc = "done", overlooked' = {g.url : g \in {f \in hits : f.by = "probe" /\ Missed(f.url)}}
        PROVE  h.url \in overlooked'
    <3>1. Missed(h.url) /\ h \in hits
      BY <1>3, <2>1, <2>3
    <3> QED BY <2>3, <3>1
  <2> QED BY <1>3, <2>1, <2>2, <2>3 DEF Unfinished
<1>15. CASE ProbeError
  <2>1. handler'.pc = "idle" /\ item' = Erred(item, 1)
    BY <1>15 DEF ProbeError, Idle
  <2>2. Erred(item, 1).status \in {"pending", "failed"}
    BY <1>1, Rows
  <2> QED BY <2>1, <2>2 DEF Unfinished
<1>16. CASE EnqueueProbe
  <2>1. /\ UNCHANGED <<handler, hits, fetchItem>> /\ item'.status = "pending"
    BY <1>16 DEF EnqueueProbe, Enqueued, domainVars, fetchVars
  <2> QED BY <1>3, <1>4, <2>1 DEF Unfinished, InHand
<1>17. CASE StartAgain \/ CrashRestart
  <2>1. /\ handler'.pc = "idle" /\ item' = Reclaimed(item) /\ UNCHANGED <<hits, overlooked>>
        /\ fetchItem[h.url].status = "absent"
    BY <1>2, <1>17, RestartStep DEF Idle
  <2>2. item.status = "in_flight" => Reclaimed(item).status = "pending"
    BY <1>1, Rows
  <2>3. item.status # "in_flight" => Reclaimed(item) = item
    BY <1>1, Rows
  <2> QED BY <1>3, <2>1, <2>2, <2>3 DEF Unfinished
<1>18. CASE Probe
  BY <1>6, <1>7, <1>8, <1>9, <1>10, <1>11, <1>12, <1>13, <1>14, <1>18 DEF Probe
<1> QED BY <1>5, <1>15, <1>16, <1>17, <1>18, StepCases

-----------------------------------------------------------------------------
(* The status.                                                             *)

\* Only two steps write the status: the handler's, and the verdict on a
\* document.
LEMMA StatusWrites ==
  ASSUME TypeOK, [Next]_vars
  PROVE  \/ ardStatus' \in {ardStatus} \union Found
         \/ SetProbedStatus /\ ardStatus' = ProbedStatus
<1>1. CASE \E u \in URLs : Fetch(u) \/ FetchError(u)
  BY <1>1 DEF Fetch, FetchError, FetchDocument, FetchFails, SaveCatalog, SetVerdict, CompleteFetch,
     ArdStatus, Found, domainVars
<1>2. CASE \/ \E u \in Hints : RecordHint(u) \/ EnqueueHint(u)
           \/ \E i \in 1..2, o \in Outcomes : o \in AliasAnswers[i] /\ CommandProbe(Aliases[i], o)
           \/ \E o \in AgentmapAnswers : CommandProbe(RobotsURL, o)
  <2>1. UNCHANGED ardStatus
    BY <1>2, OtherWriters
  <2> QED BY <2>1
<1>3. CASE WindowPasses \/ EnqueueProbe \/ ProbeError \/ Interrupt \/ UNCHANGED vars
  BY <1>3 DEF WindowPasses, EnqueueProbe, ProbeError, Interrupt, domainVars, vars
<1>4. CASE SetProbedStatus
  BY <1>4 DEF SetProbedStatus
<1>5. CASE DequeueProbe \/ StartProbe \/ RestoreLastProbed \/ AnswerProbe
  BY <1>5 DEF DequeueProbe, StartProbe, RestoreLastProbed, AnswerProbe, domainVars
<1>6. CASE ResumeFetch
  BY <1>6, ResumeStep
<1>7. CASE \E u \in URLs : RecoverHit(u)
  BY <1>7, RecoverStep
<1>8. CASE \E e \in Ends : ProbeHost(e)
  BY <1>8, ProbeHostStep
<1>9. CASE \E r \in handler.todo : RecordMiss(r) \/ RecordHit(r)
  BY <1>9, MissStep, HitStep
<1>10. CASE StartAgain \/ CrashRestart
  BY <1>10, RestartStep
<1> QED BY <1>1, <1>2, <1>3, <1>4, <1>5, <1>6, <1>7, <1>8, <1>9, <1>10 DEF Next, Probe

\* What the handler has been told it records, and does not forget.
LEMMA ToldStep ==
  ASSUME TypeOK, ToldInv, [Next]_vars
  PROVE  ToldInv'
<1>1. handler \in Calls
  BY DEF TypeOK, CallOK
<1> DEFINE told(c) == Telling(Results(c.seen, c.seen[3]))
<1>2. ASSUME handler'.seen = handler.seen
      PROVE  Telling(Results(handler.seen, handler.seen[3]))' <=> told(handler)
  BY <1>2 DEF Telling, Results
<1>3. ASSUME Aside PROVE ToldInv'
  <2>1. /\ handler'.pc = handler.pc /\ handler'.todo = handler.todo /\ handler'.seen = handler.seen
        /\ handler'.hadHit = handler.hadHit /\ handler'.retry = handler.retry
    BY <1>3, AsideStep
  <2> QED BY <1>2, <2>1 DEF ToldInv, Telling
<1>4. ASSUME NEW r \in handler.todo, RecordMiss(r)
      PROVE  ToldInv'
  <2>1. /\ handler.pc = "record" /\ r.outcome # "hit" /\ handler'.todo = handler.todo \ {r}
        /\ handler'.hadHit = handler.hadHit /\ handler'.seen = handler.seen
        /\ handler'.retry <=> (handler.retry \/ r.outcome = "error")
    BY <1>4, MissStep
  <2> QED BY <1>2, <2>1 DEF ToldInv, Telling
<1>5. ASSUME NEW r \in handler.todo, RecordHit(r)
      PROVE  ToldInv'
  BY <1>5, HitStep DEF ToldInv
<1>6. ASSUME NEW e \in Ends, ProbeHost(e)
      PROVE  ToldInv'
  <2>1. handler'.seen = e /\ handler'.todo = Results(e, e[3])
    BY <1>6, ProbeHostStep
  <2> QED BY <2>1 DEF ToldInv, Telling, Results
<1>7. ASSUME ResumeFetch PROVE ToldInv'
  <2>1. /\ handler.pc = "resume" /\ handler'.todo = handler.todo /\ handler'.seen = handler.seen
        /\ handler'.hadHit = handler.hadHit /\ handler'.retry = handler.retry
    BY <1>7, ResumeStep
  <2> QED BY <1>2, <2>1 DEF ToldInv, Telling
<1>8. ASSUME \/ DequeueProbe \/ StartProbe \/ (\E u \in URLs : RecoverHit(u)) \/ SetProbedStatus
             \/ RestoreLastProbed \/ AnswerProbe \/ ProbeError \/ StartAgain \/ CrashRestart
      PROVE  ToldInv'
  <2>1. handler'.pc \notin {"record", "resume"}
    <3>1. CASE DequeueProbe \/ StartProbe
      BY <3>1 DEF DequeueProbe, StartProbe, Idle, Recover
    <3>2. CASE \E u \in URLs : RecoverHit(u)
      BY <3>2, RecoverStep
    <3>3. CASE SetProbedStatus
      BY <1>1, <3>3 DEF SetProbedStatus, Calls
    <3>4. CASE RestoreLastProbed
      BY <1>1, <3>4 DEF RestoreLastProbed, Calls
    <3>5. CASE AnswerProbe \/ ProbeError \/ StartAgain \/ CrashRestart
      BY <3>5, RestartStep DEF AnswerProbe, ProbeError, Idle
    <3> QED BY <1>8, <3>1, <3>2, <3>3, <3>4, <3>5
  <2> QED BY <2>1 DEF ToldInv
<1>9. ASSUME EnqueueProbe PROVE ToldInv'
  <2>1. handler' = handler
    BY <1>9 DEF EnqueueProbe
  <2> QED BY <1>2, <2>1 DEF ToldInv, Telling
<1> QED BY <1>3, <1>4, <1>5, <1>6, <1>7, <1>8, <1>9, StepCases DEF Probe

LEMMA Initially ==
  ASSUME Init
  PROVE  TypeOK /\ PhaseInv /\ OwedInv /\ ToldInv
<1>1. handler = Idle /\ hits = {} /\ lastProbed = "never"
      /\ item = [status |-> "pending", attempts |-> 0]
      /\ fetchItem = [u \in URLs |-> [status |-> "absent", attempts |-> 0]]
  BY DEF Init, NewRow
<1>2. handler \in Calls
  BY <1>1 DEF Idle, Calls, Windows, NoEnds, Answers, Answer
<1>3. handler.pc = "idle"
  BY <1>1 DEF Idle
<1>4. TypeOK
  BY <1>1, <1>2, <1>3 DEF TypeOK, CallOK, Windows, FrontierRow
<1> QED BY <1>1, <1>3, <1>4 DEF PhaseInv, OwedInv, ToldInv

-----------------------------------------------------------------------------
(* The theorems.                                                           *)

\* Types hold throughout, and the handler runs exactly while its item is in
\* flight.
THEOREM TypeCorrect == Spec => [](TypeOK /\ PhaseInv)
<1>1. Init => TypeOK /\ PhaseInv
  BY Initially
<1>2. TypeOK /\ PhaseInv /\ [Next]_vars => (TypeOK /\ PhaseInv)'
  BY TypeStep, PhaseStep
<1> QED BY <1>1, <1>2, PTL DEF Spec

\* A hit the host_probe handler has recorded is never forgotten: whenever the
\* process dies or is interrupted, or an attempt fails, between the probe row
\* and the frontier row of the catalog, the host's item is still owed a run, or
\* a later attempt ended without the hit.  Nothing is assumed of the host.
THEOREM HitsAreKept == Spec => []NoHitForgotten
<1>1. Init => TypeOK /\ PhaseInv /\ OwedInv
  BY Initially
<1>2. TypeOK /\ PhaseInv /\ OwedInv /\ [Next]_vars => (TypeOK /\ PhaseInv /\ OwedInv)'
  BY TypeStep, PhaseStep, OwedStep
<1>3. OwedInv => NoHitForgotten
  BY DEF OwedInv, NoHitForgotten
<1> QED BY <1>1, <1>2, <1>3, PTL DEF Spec

\* not_found is written only after an attempt that met no hit and no transient
\* failure (but for one of the second alias behind a permanent one of the
\* first), whatever the host answers and whenever requests are cancelled.
THEOREM NotFoundMeansFinal == Spec => NotFoundIsFinal
<1>1. Init => TypeOK /\ ToldInv
  BY Initially
<1>2. TypeOK /\ ToldInv /\ [Next]_vars => (TypeOK /\ ToldInv)'
  BY TypeStep, ToldStep
<1>3. ASSUME TypeOK, ToldInv, [Next]_vars, ardStatus # "not_found", ardStatus' = "not_found"
      PROVE  LET end == handler.seen IN
               /\ \A i \in 1..3 : end[i] # "hit"
               /\ end[1] # "error" /\ end[3] # "error"
               /\ end[2] = "error" => end[1] = "refused"
  <2>1. SetProbedStatus /\ ProbedStatus = "not_found"
    BY <1>3, StatusWrites DEF Found
  <2>2. handler.pc = "record" /\ handler.todo = {} /\ ~handler.hadHit /\ ~handler.retry
    BY <1>3, <2>1 DEF SetProbedStatus, ProbedStatus, Promoted
  <2> DEFINE end == handler.seen
  <2>3. ~Telling(Results(end, end[3]))
    BY <1>3, <2>2 DEF ToldInv, Telling
  <2>4. /\ end \in Answers /\ "none" \notin {end[1], end[2], end[3]}
        /\ end[3] = "hit" => Agentmap # {}
    BY <1>3, <2>2 DEF TypeOK, CallOK, Calls
  <2> HIDE DEF end
  <2>5. end \in Outcomes \X Outcomes \X Outcomes
    BY <2>4 DEF Answers, Answer
  <2>6. /\ end[1] # "hit" /\ end[2] # "hit" /\ end[3] # "hit"
        /\ end[1] # "error" /\ end[3] # "error"
        /\ end[2] = "error" => end[1] = "refused"
    BY <2>3, <2>4, <2>5, Silent
  <2>7. \A i \in 1..3 : end[i] # "hit"
    BY <2>6
  <2> QED BY <2>6, <2>7 DEF end
<1> QED BY <1>1, <1>2, <1>3, PTL DEF Spec, NotFoundIsFinal

\* A host keeps the verdict of its catalog: no step of a probe, a fetch,
\* `ardvark probe' or a restart replaces it by less, but for the not_found that
\* NotFoundIsFinal is about; and no host becomes unprobed again.
THEOREM VerdictsAreKept == Spec => VerdictsStand
<1>1. Init => TypeOK
  BY Initially
<1>2. TypeOK /\ [Next]_vars => TypeOK'
  BY TypeStep
<1>3. TypeOK /\ [Next]_vars =>
        /\ ardStatus \in Found => ardStatus' \in Found \union {"not_found"}
        /\ ardStatus # "unprobed" => ardStatus' # "unprobed"
  BY StatusWrites DEF ProbedStatus, Promoted, Found
<1> QED BY <1>1, <1>2, <1>3, PTL DEF Spec, VerdictsStand
=============================================================================
