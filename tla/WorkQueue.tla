----------------------------- MODULE WorkQueue ------------------------------
(***************************************************************************)
(* What the frontier promises the crawl engine, without rows, statements   *)
(* or races.  An item is handed out with a ticket.  Only a ticket that its *)
(* holder hands in ends a claim, unless the lease has lapsed or nobody has *)
(* the ticket any more, and only an item that was handed out can finish.   *)
(* A ticket may also be dropped, or be handed in too late, and then it     *)
(* changes nothing.                                                        *)
(***************************************************************************)
EXTENDS Naturals

CONSTANTS Items, Holders, NoHolder

VARIABLES
  state,   \* state[i]: where item i is
  holder,  \* holder[i]: the worker item i is handed out to
  served,  \* served[i]: how many times item i has been handed out
  lapsed,  \* the handed-out items whose lease has run out
  tickets  \* the tickets the workers have not handed in yet

vars == <<state, holder, served, lapsed, tickets>>

Init ==
  /\ state \in [Items -> {"unknown", "queued"}]
  /\ holder = [i \in Items |-> NoHolder]
  /\ served = [i \in Items |-> 0]
  /\ lapsed = {}
  /\ tickets = {}

\* New work, or finished work asked for again.
Submit(i) ==
  /\ state[i] \in {"unknown", "finished"}
  /\ state' = [state EXCEPT ![i] = "queued"]
  /\ UNCHANGED <<holder, served, lapsed, tickets>>

NewTicket(i, w) == [item |-> i, holder |-> w, nr |-> served[i] + 1]

\* A batch of queued items goes to one worker.
Claim(S, w) ==
  /\ \A i \in S : state[i] = "queued"
  /\ state' = [i \in Items |-> IF i \in S THEN "claimed" ELSE state[i]]
  /\ holder' = [i \in Items |-> IF i \in S THEN w ELSE holder[i]]
  /\ served' = [i \in Items |-> IF i \in S THEN served[i] + 1 ELSE served[i]]
  /\ tickets' = tickets \union {NewTicket(i, w) : i \in S}
  /\ UNCHANGED lapsed

\* A ticket of the holder: the item is finished, or goes back in the queue.
Answer(t, outcome) ==
  /\ state[t.item] = "claimed"
  /\ holder[t.item] = t.holder
  /\ state' = [state EXCEPT ![t.item] = outcome]
  /\ holder' = [holder EXCEPT ![t.item] = NoHolder]
  /\ lapsed' = lapsed \ {t.item}
  /\ tickets' = tickets \ {t}
  /\ UNCHANGED served

Drop(T) ==
  /\ tickets' = tickets \ T
  /\ UNCHANGED <<state, holder, served, lapsed>>

Lapse(i) ==
  /\ state[i] = "claimed"
  /\ i \notin lapsed
  /\ lapsed' = lapsed \union {i}
  /\ UNCHANGED <<state, holder, served, tickets>>

\* Nobody has a ticket of the item's last claim any more.
Abandoned(i) == \A t \in tickets : t.item = i => t.nr # served[i]

\* Every lapsed item goes back in the queue, and with them may go claimed ones
\* that nobody is left to answer for.
Sweep(S) ==
  /\ lapsed \subseteq S
  /\ \A i \in S \ lapsed : state[i] = "claimed" /\ Abandoned(i)
  /\ state' = [i \in Items |-> IF i \in S THEN "queued" ELSE state[i]]
  /\ holder' = [i \in Items |-> IF i \in S THEN NoHolder ELSE holder[i]]
  /\ lapsed' = {}
  /\ UNCHANGED <<served, tickets>>

Next ==
  \/ \E T \in SUBSET tickets : Drop(T)
  \/ \E t \in tickets, outcome \in {"queued", "finished"} : Answer(t, outcome)
  \/ \E i \in Items : Submit(i) \/ Lapse(i)
  \/ \E S \in SUBSET Items : Sweep(S)
  \/ \E S \in SUBSET Items, w \in Holders : Claim(S, w)

Spec == Init /\ [][Next]_vars
=============================================================================
