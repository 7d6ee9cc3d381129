---------------------------- MODULE PagesProofs -----------------------------
(***************************************************************************)
(* Proofs about Pages, for any site, limits and number of handlers.        *)
(*                                                                         *)
(* A finished page has handed on what it holds because the handler goes    *)
(* through its lists in order and nothing it has handed on is taken back:  *)
(* frontier rows, inline catalogs and a host's pages only grow.  What must *)
(* not change while the handler is at work is the depth of its row.  The   *)
(* entries of an inline catalog come in order too: a registry that has an  *)
(* item, and only such a one can make the catalog grow and so end its      *)
(* fan-out, has every entry before it followed up.                         *)
(***************************************************************************)
EXTENDS Pages, FiniteSetTheorems, WellFoundedInduction, TLAPS

Row == [status : {"pending", "in_flight", "done", "failed"}, depth : Nat, tried : BOOLEAN]
Inner == {"hosts", "probe", "hints", "hit", "catalog", "inline", "nested", "links"}
Call == [pc : Inner \union {"start", "end"}, i : Nat \ {0}, j : Nat \ {0}]
PageRows == {k \in DOMAIN items : k.kind = "page"}

TypeOK ==
  /\ items \in [DOMAIN items -> Row]
  /\ \A k \in DOMAIN items : k.kind = "page" => k.of \in Pages
  /\ IsFiniteSet(PageRows)
  /\ work \in [DOMAIN work -> Call]

\* A handler works on an item in flight, past its first statement on a page it
\* may read, and inside a catalog the page has.
WorkInv ==
  /\ DOMAIN work \subseteq DOMAIN items
  /\ \A k \in DOMAIN work :
       /\ items[k].status = "in_flight"
       /\ work[k].pc \in Inner => k.kind = "page" /\ k.of \in Readable
       /\ work[k].pc = "nested" => work[k].i \in DOMAIN Candidates[k.of]

-----------------------------------------------------------------------------
(* Lists.                                                                  *)

\* The sequence of a finite set has its elements.
LEMMA ListOf ==
  ASSUME NEW S, IsFiniteSet(S)
  PROVE  SetToSeq(S) \in Seq(S) /\ Range(SetToSeq(S)) = S
<1> DEFINE n == Cardinality(S)
<1>1. n \in Nat /\ ExistsBijection(1..n, S)
  BY FS_CardinalityType
<1>2. PICK f \in Bijection(1..n, S) : TRUE
  BY <1>1 DEF ExistsBijection
<1>3. f \in [1..n -> S] /\ IsInjective(f) /\ \A y \in S : \E x \in 1..n : f[x] = y
  BY <1>2 DEF Bijection, Injection, Surjection, IsInjective
<1> DEFINE g == SetToSeq(S)
<1>4. g \in [1..n -> S] /\ IsInjective(g)
  BY <1>3 DEF SetToSeq
<1> HIDE DEF g
<1>5. g \in Injection(1..n, S)
  BY <1>4 DEF Injection
<1>6. Cardinality(1..n) = n
  BY <1>1, FS_Interval
<1>7. g \in Surjection(1..n, S)
  BY <1>5, <1>6, FS_Injection
<1>8. \A y \in S : \E x \in 1..n : g[x] = y
  BY <1>7 DEF Surjection
<1>9. g \in Seq(S) /\ Range(g) = S
  BY <1>1, <1>4, <1>8 DEF Range
<1> QED BY <1>9 DEF g

\* The lists a handler goes through.
LEMMA Lists ==
  ASSUME NEW u \in Pages
  PROVE  /\ DOMAIN Hosts[u] = 1..Len(Hosts[u]) /\ Len(Hosts[u]) \in Nat
         /\ DOMAIN Hints[u] = 1..Len(Hints[u]) /\ Len(Hints[u]) \in Nat
         /\ DOMAIN Candidates[u] = 1..Len(Candidates[u]) /\ Len(Candidates[u]) \in Nat
         /\ DOMAIN Links[u] = 1..Len(Links[u]) /\ Len(Links[u]) \in Nat
         /\ Range(Links[u]) = Anchors(u) /\ Anchors(u) \subseteq Pages
<1>1. Body[u] \in Seq(Range(Body[u]))
  BY SiteAssumption
<1>2. IsFiniteSet(Range(Body[u]))
  <2> DEFINE n == Len(Body[u])
  <2>1. n \in Nat /\ Body[u] \in [1..n -> Range(Body[u])]
    BY <1>1
  <2>2. Body[u] \in Surjection(1..n, Range(Body[u]))
    BY <2>1 DEF Surjection, Range
  <2>3. IsFiniteSet(1..n)
    BY <2>1, FS_Interval
  <2> QED BY <2>2, <2>3, FS_Surjection
<1>3. \A tag : IsFiniteSet(Elements(u, tag))
  <2> SUFFICES ASSUME NEW tag PROVE IsFiniteSet(Elements(u, tag))
    OBVIOUS
  <2>1. Elements(u, tag) \in SUBSET Range(Body[u])
    BY DEF Elements
  <2> QED BY <1>2, <2>1, FS_Subset
<1> DEFINE refs(tag) == {e.ref : e \in Elements(u, tag)}
<1>4. ASSUME NEW tag PROVE IsFiniteSet(refs(tag))
  <2> DEFINE f == [e \in Elements(u, tag) |-> e.ref]
  <2>1. f \in Surjection(Elements(u, tag), refs(tag))
    BY DEF Surjection
  <2> QED BY <1>3, <2>1, FS_Surjection
<1>5. IsFiniteSet(Anchors(u))
  <2>1. Anchors(u) \in SUBSET refs("a")
    BY DEF Anchors
  <2> QED BY <1>4, <2>1, FS_Subset
<1>6. IsFiniteSet({HostOf[l] : l \in Anchors(u)})
  <2> DEFINE f == [l \in Anchors(u) |-> HostOf[l]]
  <2>1. f \in Surjection(Anchors(u), {HostOf[l] : l \in Anchors(u)})
    BY DEF Surjection
  <2> QED BY <1>5, <2>1, FS_Surjection
<1> DEFINE hinted == {e.ref : e \in {x \in Elements(u, "link") : x.ard}} \ {NoURL}
<1>7. IsFiniteSet(hinted)
  <2>1. hinted \in SUBSET refs("link")
    OBVIOUS
  <2> QED BY <1>4, <2>1, FS_Subset
<1>8. Anchors(u) \subseteq Pages
  BY SiteAssumption DEF Anchors, Elements, Range
<1>9. /\ Hosts[u] = SetToSeq({HostOf[l] : l \in Anchors(u)})
      /\ Hints[u] = SetToSeq(hinted) /\ Links[u] = SetToSeq(Anchors(u))
  BY DEF Hosts, Hints, Links
<1> HIDE DEF hinted, refs
<1>10. /\ Hosts[u] \in Seq({HostOf[l] : l \in Anchors(u)})
       /\ Hints[u] \in Seq(hinted)
       /\ Links[u] \in Seq(Anchors(u)) /\ Range(Links[u]) = Anchors(u)
  BY <1>5, <1>6, <1>7, <1>9, ListOf
<1>11. Candidates[u] \in Seq(Range(Candidates[u]))
  BY ListsAssumption
<1> QED BY <1>8, <1>10, <1>11

-----------------------------------------------------------------------------
(* The frontier's statements.                                              *)

\* What no step takes back: rows stay, and only a finished one, when it is
\* taken up again, gets another depth.
Extends(new) ==
  /\ new \in [DOMAIN new -> Row]
  /\ DOMAIN items \subseteq DOMAIN new
  /\ \A x \in DOMAIN new : x.kind = "page" => x.of \in Pages
  /\ IsFiniteSet({x \in DOMAIN new : x.kind = "page"})
  /\ \A x \in DOMAIN items :
       \/ new[x].depth = items[x].depth /\ new[x].status = items[x].status
       \/ Finished(x) /\ new[x].status = "pending"
  /\ \A x \in DOMAIN new \ DOMAIN items : new[x].status = "pending"

\* ... and the page_fetch rows stay as they are.
SamePages(new) ==
  \A x \in DOMAIN new :
    x.kind = "page" => x \in DOMAIN items /\ new[x].depth = items[x].depth

LEMMA Statuses ==
  ASSUME TypeOK, NEW x \in DOMAIN items
  PROVE  /\ items[x].status \in {"pending", "in_flight", "done", "failed"}
         /\ items[x].depth \in Nat /\ items[x].tried \in BOOLEAN
         /\ Finished(x) <=> items[x].status \notin {"pending", "in_flight"}
BY DEF TypeOK, Row, Finished

LEMMA EnqueuedRow ==
  ASSUME TypeOK, NEW k, NEW d \in Nat, k.kind = "page" => k.of \in Pages
  PROVE  /\ Extends(Enqueued(k, d))
         /\ DOMAIN Enqueued(k, d) = DOMAIN items \union {k}
         /\ \A x \in DOMAIN items : x # k => Enqueued(k, d)[x] = items[x]
         /\ Enqueued(k, d)[k].depth = d \/ (k \in DOMAIN items /\ Enqueued(k, d)[k] = items[k])
         /\ k.kind # "page" => SamePages(Enqueued(k, d))
<1> DEFINE new == Enqueued(k, d)
<1>1. /\ items \in [DOMAIN items -> Row] /\ IsFiniteSet(PageRows)
      /\ \A x \in DOMAIN items : x.kind = "page" => x.of \in Pages
  BY DEF TypeOK
<1>2. NewItem(d) \in Row /\ NewItem(d).depth = d /\ NewItem(d).status = "pending"
  BY DEF NewItem, Row
<1>3. new = With(items, k, NewItem(d)) \/ (k \in DOMAIN items /\ ~Finished(k) /\ new = items)
  BY DEF Enqueued, ReactivatedDepth
<1>4. k \in DOMAIN items => Finished(k) \/ new = items
  BY DEF Enqueued
<1> HIDE DEF new
<1>5. CASE new = items /\ k \in DOMAIN items
  BY <1>1, <1>5 DEF Extends, SamePages, new, PageRows
<1>6. CASE new = With(items, k, NewItem(d)) /\ (k \in DOMAIN items => Finished(k))
  <2>1. new = [x \in DOMAIN items \union {k} |-> IF x = k THEN NewItem(d) ELSE items[x]]
    BY <1>6 DEF With
  <2>2. DOMAIN new = DOMAIN items \union {k} /\ new \in [DOMAIN new -> Row]
    BY <1>1, <1>2, <2>1
  <2>3. new[k] = NewItem(d) /\ \A x \in DOMAIN items : x # k => new[x] = items[x]
    BY <2>1
  <2>4. IsFiniteSet({x \in DOMAIN new : x.kind = "page"})
    <3>1. IsFiniteSet(PageRows \union {k})
      BY <1>1, FS_AddElement
    <3>2. {x \in DOMAIN new : x.kind = "page"} \in SUBSET (PageRows \union {k})
      BY <2>2 DEF PageRows
    <3> QED BY <3>1, <3>2, FS_Subset
  <2>5. \A x \in DOMAIN items : x = k => Finished(x) /\ new[x].status = "pending"
    BY <1>2, <1>6, <2>3
  <2>6. \A x \in DOMAIN new : x.kind = "page" => x.of \in Pages
    BY <1>1, <2>2
  <2>7. \A x \in DOMAIN items :
          \/ new[x].depth = items[x].depth /\ new[x].status = items[x].status
          \/ Finished(x) /\ new[x].status = "pending"
    BY <2>3, <2>5
  <2>8. \A x \in DOMAIN new \ DOMAIN items : new[x].status = "pending"
    BY <1>2, <2>2, <2>3
  <2>9. Extends(new)
    BY <2>2, <2>4, <2>6, <2>7, <2>8 DEF Extends
  <2>10. k.kind # "page" => SamePages(new)
    BY <2>2, <2>3 DEF SamePages
  <2> QED BY <1>2, <2>2, <2>3, <2>9, <2>10 DEF new
<1> QED BY <1>3, <1>4, <1>5, <1>6

\* The rows that Engine.ensure and Engine.resume add.
LEMMA OtherRows ==
  ASSUME TypeOK, NEW ks, \A x \in ks : x.kind # "page", NEW d \in Nat, NEW new,
         DOMAIN new = DOMAIN items \union ks, new \in [DOMAIN new -> Row],
         \A x \in DOMAIN new :
           \/ x \in DOMAIN items /\ new[x] = items[x]
           \/ x \in ks /\ new[x] = NewItem(d) /\ (x \in DOMAIN items => Finished(x))
  PROVE  Extends(new) /\ SamePages(new)
<1>1. /\ items \in [DOMAIN items -> Row] /\ IsFiniteSet(PageRows)
      /\ \A x \in DOMAIN items : x.kind = "page" => x.of \in Pages
  BY DEF TypeOK
<1>2. NewItem(d) \in Row /\ NewItem(d).status = "pending"
  BY DEF NewItem, Row
<1>3. {x \in DOMAIN new : x.kind = "page"} = PageRows
  BY DEF PageRows
<1>4. IsFiniteSet({x \in DOMAIN new : x.kind = "page"})
  BY <1>1, <1>3
<1>5. \A x \in DOMAIN new : x.kind = "page" => x.of \in Pages
  BY <1>1
<1>6. Extends(new)
  BY <1>2, <1>4, <1>5 DEF Extends
<1>7. SamePages(new)
  BY DEF SamePages
<1> QED BY <1>6, <1>7

LEMMA EnsuredRow ==
  ASSUME TypeOK, NEW key, key.kind # "page", NEW d \in Nat
  PROVE  /\ Extends(Ensured(key, d)) /\ SamePages(Ensured(key, d))
         /\ DOMAIN Ensured(key, d) = DOMAIN items \union {key}
<1> DEFINE new == Ensured(key, d)
<1>1. items \in [DOMAIN items -> Row] /\ NewItem(d) \in Row
  BY DEF TypeOK, NewItem, Row
<1>2. \/ key \in DOMAIN items /\ new = items
      \/ /\ key \notin DOMAIN items
         /\ new = [x \in DOMAIN items \union {key} |-> IF x = key THEN NewItem(d) ELSE items[x]]
  BY DEF Ensured, With
<1> HIDE DEF new
<1>3. /\ DOMAIN new = DOMAIN items \union {key} /\ new \in [DOMAIN new -> Row]
      /\ \A x \in DOMAIN new :
           \/ x \in DOMAIN items /\ new[x] = items[x]
           \/ x \in {key} /\ new[x] = NewItem(d) /\ (x \in DOMAIN items => Finished(x))
  BY <1>1, <1>2
<1>4. Extends(new) /\ SamePages(new)
  BY <1>3, OtherRows
<1> QED BY <1>3, <1>4 DEF new

LEMMA ResumedRows ==
  ASSUME TypeOK, NEW ks, \A x \in ks : x.kind # "page", NEW d \in Nat
  PROVE  /\ Extends(Resumed(ks, d)) /\ SamePages(Resumed(ks, d))
         /\ DOMAIN Resumed(ks, d) = DOMAIN items \union ks
<1> DEFINE new == Resumed(ks, d)
<1>1. items \in [DOMAIN items -> Row] /\ NewItem(d) \in Row
  BY DEF TypeOK, NewItem, Row
<1>2. new = [k \in DOMAIN items \union ks |->
               IF k \in DOMAIN items /\ ~(k \in ks /\ items[k].status = "failed")
               THEN items[k] ELSE NewItem(d)]
  BY DEF Resumed
<1> HIDE DEF new
<1>3. DOMAIN new = DOMAIN items \union ks
  BY <1>2
<1>4. \A x \in DOMAIN new :
        \/ x \in DOMAIN items /\ new[x] = items[x]
        \/ x \in ks /\ new[x] = NewItem(d) /\ (x \in DOMAIN items => Finished(x))
  BY <1>2 DEF Finished
<1>5. new \in [DOMAIN new -> Row]
  BY <1>1, <1>2
<1>6. Extends(new) /\ SamePages(new)
  BY <1>3, <1>4, <1>5, OtherRows
<1> QED BY <1>3, <1>6 DEF new

-----------------------------------------------------------------------------
(* Where the handlers go.                                                  *)

MoveTo(k, p, n, m) == work' = [work EXCEPT ![k] = [pc |-> p, i |-> n, j |-> m]]
Move(k, p, n) == \E m \in Nat \ {0} : MoveTo(k, p, n, m)

LEMMA Moves ==
  ASSUME TypeOK, NEW k \in DOMAIN work, NEW p
  PROVE  /\ Goes(k, p) => MoveTo(k, p, work[k].i, 1) /\ Move(k, p, work[k].i)
         /\ Turns(k, p) => Move(k, p, 1)
         /\ Proceeds(k, p) => Move(k, p, work[k].i + 1)
         /\ work[k].i \in Nat \ {0} /\ work[k].j \in Nat \ {0}
<1>1. work[k].i \in Nat \ {0} /\ work[k].j \in Nat \ {0}
  BY DEF TypeOK, Call
<1>2. /\ Goes(k, p) => MoveTo(k, p, work[k].i, 1)
      /\ Turns(k, p) => MoveTo(k, p, 1, 1)
      /\ Proceeds(k, p) => MoveTo(k, p, work[k].i + 1, 1)
  BY DEF Goes, Turns, Proceeds, MoveTo
<1>3. \A n : MoveTo(k, p, n, 1) => Move(k, p, n)
  BY DEF Move
<1> QED BY <1>1, <1>2, <1>3

\* Each statement of a page's handler: from where to where, and what it leaves
\* behind.
Keeps ==
  /\ Extends(items') /\ dropped \subseteq dropped'
  /\ inline \subseteq inline' /\ grown \subseteq grown'

LEMMA Stays ==
  ASSUME TypeOK
  PROVE  Extends(items) /\ SamePages(items)
BY DEF TypeOK, Extends, SamePages, PageRows

LEMMA FetchPageStep ==
  ASSUME TypeOK, NEW k, FetchPage(k)
  PROVE  /\ k \in DOMAIN work /\ work[k].pc = "start" /\ k.kind = "page"
         /\ \/ k.of \in Readable /\ Move(k, "hosts", 1)
            \/ k.of \notin Readable /\ Move(k, "end", 1)
         /\ Keeps /\ SamePages(items')
<1>1. k \in DOMAIN work /\ work[k].pc = "start" /\ k.kind = "page"
  BY DEF FetchPage, At
<1>2. \/ k.of \in Readable /\ Turns(k, "hosts")
      \/ k.of \notin Readable /\ Turns(k, "end")
  BY DEF FetchPage
<1>3. UNCHANGED <<items, inline, grown, dropped>>
  BY DEF FetchPage, rows, history
<1> QED BY <1>1, <1>2, <1>3, Moves, Stays DEF Keeps

LEMMA UpsertHostStep ==
  ASSUME TypeOK, NEW k, UpsertHost(k)
  PROVE  /\ k \in DOMAIN work /\ work[k].pc = "hosts"
         /\ \/ work[k].i > Len(Hosts[k.of]) /\ Move(k, "hints", 1)
            \/ work[k].i <= Len(Hosts[k.of]) /\ Move(k, "probe", work[k].i)
            \/ /\ work[k].i <= Len(Hosts[k.of]) /\ Move(k, "hosts", work[k].i + 1)
               /\ <<k.of, Hosts[k.of][work[k].i]>> \in dropped'
         /\ Keeps /\ SamePages(items')
<1>1. k \in DOMAIN work /\ work[k].pc = "hosts"
  BY DEF UpsertHost, At
<1>2. UNCHANGED <<items, inline, grown>>
  BY DEF UpsertHost
<1>3. CASE Over(k, Hosts[k.of])
  <2>1. Turns(k, "hints") /\ UNCHANGED dropped
    BY <1>3 DEF UpsertHost
  <2> QED BY <1>1, <1>2, <1>3, <2>1, Moves, Stays DEF Keeps, Over
<1>4. CASE ~Over(k, Hosts[k.of])
  <2>1. \/ Goes(k, "probe") /\ UNCHANGED dropped
        \/ Proceeds(k, "hosts") /\ dropped' = dropped \union {<<k.of, Hosts[k.of][work[k].i]>>}
    BY <1>4 DEF UpsertHost, Nth, Warned
  <2> QED BY <1>1, <1>2, <1>4, <2>1, Moves, Stays DEF Keeps, Over
<1> QED BY <1>3, <1>4

LEMMA EnqueueProbeStep ==
  ASSUME TypeOK, NEW k, EnqueueProbe(k)
  PROVE  /\ k \in DOMAIN work /\ work[k].pc = "probe"
         /\ Move(k, "hosts", work[k].i + 1)
         /\ ProbeKey(Hosts[k.of][work[k].i]) \in DOMAIN items'
         /\ Keeps /\ SamePages(items')
<1> DEFINE key == ProbeKey(Hosts[k.of][work[k].i])
<1>1. k \in DOMAIN work /\ work[k].pc = "probe" /\ Proceeds(k, "hosts")
  BY DEF EnqueueProbe, At
<1>2. items' = Enqueued(key, 0) /\ UNCHANGED <<inline, grown, dropped>>
  BY DEF EnqueueProbe, Nth, rows, history
<1>3. key.kind # "page"
  BY DEF ProbeKey
<1> HIDE DEF key
<1>4. /\ Extends(Enqueued(key, 0)) /\ SamePages(Enqueued(key, 0))
      /\ DOMAIN Enqueued(key, 0) = DOMAIN items \union {key}
  BY <1>3, EnqueuedRow
<1>5. Extends(items') /\ SamePages(items') /\ key \in DOMAIN items'
  BY <1>2, <1>4
<1> QED BY <1>1, <1>2, <1>5, Moves DEF Keeps, key

LEMMA UpsertHintHostStep ==
  ASSUME TypeOK, NEW k, UpsertHintHost(k)
  PROVE  /\ k \in DOMAIN work /\ work[k].pc = "hints"
         /\ \/ work[k].i > Len(Hints[k.of]) /\ Move(k, "inline", 1)
            \/ work[k].i <= Len(Hints[k.of]) /\ Move(k, "hit", work[k].i)
            \/ /\ work[k].i <= Len(Hints[k.of]) /\ Move(k, "hints", work[k].i + 1)
               /\ <<k.of, Hints[k.of][work[k].i]>> \in dropped'
         /\ Keeps /\ SamePages(items')
<1>1. k \in DOMAIN work /\ work[k].pc = "hints"
  BY DEF UpsertHintHost, At
<1>2. UNCHANGED <<items, inline, grown>>
  BY DEF UpsertHintHost
<1>3. CASE Over(k, Hints[k.of])
  <2>1. Turns(k, "inline") /\ UNCHANGED dropped
    BY <1>3 DEF UpsertHintHost
  <2> QED BY <1>1, <1>2, <1>3, <2>1, Moves, Stays DEF Keeps, Over
<1>4. CASE ~Over(k, Hints[k.of])
  <2>1. \/ Goes(k, "hit") /\ UNCHANGED dropped
        \/ Proceeds(k, "hints") /\ dropped' = dropped \union {<<k.of, Hints[k.of][work[k].i]>>}
    BY <1>4 DEF UpsertHintHost, Nth, Warned
  <2> QED BY <1>1, <1>2, <1>4, <2>1, Moves, Stays DEF Keeps, Over
<1> QED BY <1>3, <1>4

LEMMA RecordHitStep ==
  ASSUME TypeOK, NEW k, RecordHit(k)
  PROVE  /\ k \in DOMAIN work /\ work[k].pc = "hit"
         /\ Move(k, "catalog", work[k].i)
         /\ Keeps /\ SamePages(items')
<1>1. /\ k \in DOMAIN work /\ work[k].pc = "hit" /\ Goes(k, "catalog")
      /\ UNCHANGED <<items, inline, grown, dropped>>
  BY DEF RecordHit, At, history
<1> QED BY <1>1, Moves, Stays DEF Keeps

LEMMA EnqueueHintedStep ==
  ASSUME TypeOK, NEW k, EnqueueHinted(k)
  PROVE  /\ k \in DOMAIN work /\ work[k].pc = "catalog"
         /\ Move(k, "hints", work[k].i + 1)
         /\ CatalogKey(Hints[k.of][work[k].i], <<>>) \in DOMAIN items'
         /\ Keeps /\ SamePages(items')
<1> DEFINE key == CatalogKey(Hints[k.of][work[k].i], <<>>)
<1>1. k \in DOMAIN work /\ work[k].pc = "catalog" /\ Proceeds(k, "hints")
  BY DEF EnqueueHinted, At
<1>2. items' = Enqueued(key, 0) /\ UNCHANGED <<inline, grown, dropped>>
  BY DEF EnqueueHinted, Nth, rows, history
<1>3. key.kind # "page"
  BY DEF CatalogKey
<1> HIDE DEF key
<1>4. /\ Extends(Enqueued(key, 0)) /\ SamePages(Enqueued(key, 0))
      /\ DOMAIN Enqueued(key, 0) = DOMAIN items \union {key}
  BY <1>3, EnqueuedRow
<1>5. Extends(items') /\ SamePages(items') /\ key \in DOMAIN items'
  BY <1>2, <1>4
<1> QED BY <1>1, <1>2, <1>5, Moves DEF Keeps, key

LEMMA SaveInlineStep ==
  ASSUME TypeOK, NEW k, SaveInline(k)
  PROVE  /\ k \in DOMAIN work /\ work[k].pc = "inline"
         /\ \/ work[k].i > Len(Candidates[k.of]) /\ Move(k, "links", 1)
            \/ /\ work[k].i <= Len(Candidates[k.of]) /\ <<k.of, work[k].i>> \in inline'
               /\ \/ Move(k, "nested", work[k].i) /\ MoveTo(k, "nested", work[k].i, 1)
                  \/ /\ Move(k, "inline", work[k].i + 1)
                     /\ <<k.of, work[k].i>> \in grown \/ MaxCatalogDepth = 0
         /\ Keeps /\ UNCHANGED <<items, grown>>
<1>1. k \in DOMAIN work /\ work[k].pc = "inline"
  BY DEF SaveInline, At
<1>2. UNCHANGED <<items, grown, dropped>>
  BY DEF SaveInline, history
<1>3. CASE Over(k, Candidates[k.of])
  <2>1. Turns(k, "links") /\ UNCHANGED inline
    BY <1>3 DEF SaveInline
  <2> QED BY <1>1, <1>2, <1>3, <2>1, Moves, Stays DEF Keeps, Over
<1>4. CASE ~Over(k, Candidates[k.of])
  <2> DEFINE doc == <<k.of, work[k].i>>
  <2>1. /\ inline' = inline \union {doc}
        /\ IF FollowsEntries(k, doc) THEN Goes(k, "nested") ELSE Proceeds(k, "inline")
    BY <1>4 DEF SaveInline
  <2>2. ~FollowsEntries(k, doc) => doc \in grown \/ MaxCatalogDepth = 0
    BY LimitsAssumption DEF FollowsEntries, InlineDepth
  <2> HIDE DEF doc
  <2>3. Keeps /\ doc \in inline'
    BY <1>2, <2>1, Stays DEF Keeps
  <2>4. CASE FollowsEntries(k, doc)
    BY <1>1, <1>2, <1>4, <2>1, <2>3, <2>4, Moves DEF Over, doc
  <2>5. CASE ~FollowsEntries(k, doc)
    BY <1>1, <1>2, <1>4, <2>1, <2>2, <2>3, <2>5, Moves DEF Over, doc
  <2> QED BY <2>4, <2>5
<1> QED BY <1>3, <1>4

Docs == {<<u, n>> : u \in Pages, n \in Nat}
IsEntry(doc, n) ==
  /\ doc \in Docs /\ doc[2] \in DOMAIN Candidates[doc[1]]
  /\ n \in DOMAIN Entries(doc)

\* The entries of a catalog, numbered.
LEMMA EntryList ==
  ASSUME NEW u \in Pages, NEW n \in DOMAIN Candidates[u]
  PROVE  /\ Len(Entries(<<u, n>>)) \in Nat
         /\ DOMAIN Entries(<<u, n>>) = 1..Len(Entries(<<u, n>>))
         /\ \A m \in DOMAIN Entries(<<u, n>>) :
              Entries(<<u, n>>)[m].kind \in {"catalog", "registry", "artifact"}
<1> DEFINE c == Candidates[u][n]
<1>1. c \in Range(Candidates[u])
  BY DEF Range
<1>2. /\ c.entries \in Seq(Range(c.entries))
      /\ \A m \in DOMAIN c.entries : c.entries[m].kind \in {"catalog", "registry", "artifact"}
  BY <1>1, ListsAssumption
<1>3. Entries(<<u, n>>) = c.entries
  BY DEF Entries
<1> HIDE DEF c
<1> QED BY <1>2, <1>3

LEMMA FollowInlineStep ==
  ASSUME TypeOK, WorkInv, NEW k, FollowInline(k)
  PROVE  /\ k \in DOMAIN work /\ work[k].pc = "nested"
         /\ k.of \in Pages /\ work[k].i \in DOMAIN Candidates[k.of]
         /\ LET doc == <<k.of, work[k].i>>
            IN  \/ /\ work[k].j > Len(Entries(doc))
                   /\ Move(k, "inline", work[k].i + 1) /\ UNCHANGED items
                \/ /\ work[k].j \in DOMAIN Entries(doc)
                   /\ Move(k, "nested", work[k].i) /\ MoveTo(k, "nested", work[k].i, work[k].j + 1)
                   /\ DOMAIN items' = DOMAIN items \union {FollowUpKey(doc, work[k].j)}
         /\ Keeps /\ SamePages(items') /\ UNCHANGED grown
<1>1. k \in DOMAIN work /\ work[k].pc = "nested"
  BY DEF FollowInline, At
<1>2. k.of \in Pages /\ work[k].i \in DOMAIN Candidates[k.of]
  BY <1>1, SiteAssumption DEF WorkInv, Inner
<1>3. UNCHANGED <<inline, grown, dropped>>
  BY DEF FollowInline, rows, history
<1> DEFINE doc == <<k.of, work[k].i>>
           n == work[k].j
           key == FollowUpKey(doc, n)
           d == IF key.kind = "catalog" THEN InlineDepth(k) + 1 ELSE 0
<1>4. /\ Len(Entries(doc)) \in Nat /\ DOMAIN Entries(doc) = 1..Len(Entries(doc))
      /\ \A m \in DOMAIN Entries(doc) : Entries(doc)[m].kind \in {"catalog", "registry", "artifact"}
  BY <1>2, EntryList
<1>5. n \in Nat \ {0}
  BY <1>1, Moves
<1>6. d \in Nat
  BY DEF InlineDepth
<1>7. key.kind = Entries(doc)[n].kind
  BY DEF FollowUpKey
<1>8. \/ n > Len(Entries(doc)) /\ Proceeds(k, "inline") /\ UNCHANGED items
      \/ /\ ~(n > Len(Entries(doc)))
         /\ items' = Ensured(key, d)
         /\ work' = [work EXCEPT ![k].j = n + 1]
  BY DEF FollowInline
<1> HIDE DEF doc, key, d, n
<1>9. CASE n > Len(Entries(doc)) /\ Proceeds(k, "inline") /\ UNCHANGED items
  BY <1>1, <1>2, <1>3, <1>9, Moves, Stays DEF Keeps, doc, n
<1>10. CASE /\ ~(n > Len(Entries(doc)))
            /\ items' = Ensured(key, d)
            /\ work' = [work EXCEPT ![k].j = n + 1]
  <2>1. n \in DOMAIN Entries(doc)
    BY <1>4, <1>5, <1>10
  <2>2. key.kind # "page"
    BY <1>4, <1>7, <2>1
  <2>3. /\ Extends(Ensured(key, d)) /\ SamePages(Ensured(key, d))
        /\ DOMAIN Ensured(key, d) = DOMAIN items \union {key}
    BY <1>6, <2>2, EnsuredRow
  <2>4. /\ Keeps /\ SamePages(items')
        /\ DOMAIN items' = DOMAIN items \union {key}
    BY <1>3, <1>10, <2>3 DEF Keeps
  <2> DEFINE c == [pc |-> "nested", i |-> work[k].i, j |-> n + 1]
             w == [work[k] EXCEPT !.j = n + 1]
  <2>5. w = c
    BY <1>1 DEF TypeOK, Call
  <2>6. work' = [work EXCEPT ![k] = w]
    BY <1>10
  <2> HIDE DEF w
  <2>7. MoveTo(k, "nested", work[k].i, n + 1)
    BY <2>5, <2>6 DEF MoveTo
  <2>8. Move(k, "nested", work[k].i)
    BY <1>5, <2>7 DEF Move
  <2> QED BY <1>1, <1>2, <1>3, <2>1, <2>4, <2>7, <2>8 DEF doc, key, n
<1> QED BY <1>8, <1>9, <1>10

LEMMA FollowLinkStep ==
  ASSUME TypeOK, NEW k, FollowLink(k), k \in DOMAIN items, k.of \in Pages
  PROVE  /\ k \in DOMAIN work /\ work[k].pc = "links"
         /\ Keeps
         /\ \/ /\ Move(k, "end", 1) /\ UNCHANGED items
               /\ ~FollowsLinks(k) \/ work[k].i > Len(Links[k.of])
            \/ /\ FollowsLinks(k) /\ work[k].i <= Len(Links[k.of]) /\ Move(k, "links", work[k].i + 1)
               /\ LET u == Links[k.of][work[k].i]
                  IN  \/ items' = Enqueued(PageKey(u), ChildDepth(k)) /\ PageKey(u) \in DOMAIN items'
                      \/ UNCHANGED items /\ <<k.of, u>> \in dropped'
                      \/ UNCHANGED items /\ ~WithinBudget(PageKey(u))
<1>1. k \in DOMAIN work /\ work[k].pc = "links" /\ UNCHANGED <<inline, grown>>
  BY DEF FollowLink, At, rows
<1>2. CASE ~FollowsLinks(k) \/ Over(k, Links[k.of])
  <2>1. Turns(k, "end") /\ UNCHANGED <<items, dropped>>
    BY <1>2 DEF FollowLink
  <2> QED BY <1>1, <1>2, <2>1, Moves, Stays DEF Keeps, Over
<1>3. CASE FollowsLinks(k) /\ ~Over(k, Links[k.of])
  <2> DEFINE u == Links[k.of][work[k].i]
  <2>1. /\ Proceeds(k, "links")
        /\ \/ /\ items' = IF WithinBudget(PageKey(u)) THEN Enqueued(PageKey(u), ChildDepth(k)) ELSE items
              /\ UNCHANGED dropped
           \/ dropped' = dropped \union {<<k.of, u>>} /\ UNCHANGED items
    BY <1>3 DEF FollowLink, Nth, Warned
  <2>2. work[k].i \in 1..Len(Links[k.of])
    BY <1>1, <1>3, Moves, Lists DEF Over
  <2>3. u \in Pages
    BY <2>2, Lists DEF Range
  <2> HIDE DEF u
  <2>4. PageKey(u).of \in Pages /\ ChildDepth(k) \in Nat
    BY <2>3, Statuses DEF PageKey, ChildDepth
  <2>5. Extends(Enqueued(PageKey(u), ChildDepth(k))) /\ PageKey(u) \in DOMAIN Enqueued(PageKey(u), ChildDepth(k))
    BY <2>4, EnqueuedRow, ZenonT(30)
  <2>6. Keeps
    BY <1>1, <2>1, <2>5, Stays DEF Keeps
  <2>7. \/ items' = Enqueued(PageKey(u), ChildDepth(k)) /\ PageKey(u) \in DOMAIN items'
        \/ UNCHANGED items /\ <<k.of, u>> \in dropped'
        \/ UNCHANGED items /\ ~WithinBudget(PageKey(u))
    BY <2>1, <2>5
  <2> QED BY <1>1, <1>3, <2>1, <2>2, <2>6, <2>7, Moves DEF u
<1> QED BY <1>2, <1>3

LEMMA ProbeHostStep ==
  ASSUME TypeOK, NEW k, ProbeHost(k)
  PROVE  /\ k \in DOMAIN work /\ work[k].pc = "start" /\ k.kind = "probe"
         /\ Move(k, "end", 1) /\ Keeps /\ SamePages(items')
<1>1. k \in DOMAIN work /\ work[k].pc = "start" /\ k.kind = "probe" /\ Turns(k, "end")
  BY DEF ProbeHost, At
<1>2. UNCHANGED <<inline, grown, dropped>>
  BY DEF ProbeHost
<1> DEFINE known == KnownHits(k.of)
<1>3. items' = Resumed(known, 0) \/ items' = items
  BY DEF ProbeHost
<1>4. \A x \in known : x.kind # "page"
  BY DEF KnownHits, CatalogKey
<1> HIDE DEF known
<1>5. Extends(Resumed(known, 0)) /\ SamePages(Resumed(known, 0))
  BY <1>4, ResumedRows
<1> QED BY <1>1, <1>2, <1>3, <1>5, Moves, Stays DEF Keeps

LEMMA FetchCatalogStep ==
  ASSUME TypeOK, NEW k, FetchCatalog(k)
  PROVE  /\ k \in DOMAIN work /\ work[k].pc = "start" /\ k.kind \in {"catalog", "artifact"}
         /\ Move(k, "end", 1) /\ Keeps /\ SamePages(items')
BY Moves, Stays DEF FetchCatalog, At, rows, history, Keeps

LEMMA HarvestRegistryStep ==
  ASSUME TypeOK, NEW k, HarvestRegistry(k)
  PROVE  /\ k \in DOMAIN work /\ work[k].pc = "start" /\ k.kind = "registry"
         /\ Move(k, "end", 1) /\ Keeps /\ UNCHANGED items
         /\ grown' \subseteq grown \union {<<k.parent[1], k.parent[2]>>}
<1>1. /\ k \in DOMAIN work /\ work[k].pc = "start" /\ k.kind = "registry" /\ Turns(k, "end")
      /\ UNCHANGED <<items, inline, dropped>>
      /\ grown \subseteq grown' /\ grown' \subseteq grown \union {<<k.parent[1], k.parent[2]>>}
  BY DEF HarvestRegistry, At, history
<1> QED BY <1>1, Moves, Stays DEF Keeps

Works(k) ==
  \/ FetchPage(k) \/ UpsertHost(k) \/ EnqueueProbe(k)
  \/ UpsertHintHost(k) \/ RecordHit(k) \/ EnqueueHinted(k)
  \/ SaveInline(k) \/ FollowInline(k) \/ FollowLink(k)
  \/ ProbeHost(k) \/ FetchCatalog(k) \/ HarvestRegistry(k)

Onward(k) ==
  \E p \in Inner \union {"end"}, n \in Nat \ {0} :
    /\ Move(k, p, n)
    /\ p \in Inner => k.kind = "page" /\ k.of \in Readable
    /\ p = "nested" => n \in DOMAIN Candidates[k.of]

\* A handler that goes on keeps what there is and stays with its item.
LEMMA WorksStep ==
  ASSUME TypeOK, WorkInv, NEW k \in DOMAIN items, Works(k)
  PROVE  /\ Keeps
         /\ SamePages(items') \/ FollowLink(k)
         /\ k \in DOMAIN work
         /\ Onward(k)
<1>1. k \in DOMAIN work => /\ work[k].i \in Nat \ {0} /\ work[k].i + 1 \in Nat \ {0}
                           /\ work[k].pc \in Inner => k.kind = "page" /\ k.of \in Readable
  BY Moves DEF WorkInv
<1>2. 1 \in Nat \ {0} /\ {"hosts", "probe", "hints", "hit", "catalog", "inline", "nested", "links"} \subseteq Inner
  BY DEF Inner
<1>3. ASSUME NEW p \in Inner \union {"end"}, NEW n \in Nat \ {0}, Move(k, p, n),
             p \in Inner => k.kind = "page" /\ k.of \in Readable,
             p = "nested" => n \in DOMAIN Candidates[k.of]
      PROVE  Onward(k)
  BY <1>3 DEF Onward
<1>4. CASE FetchPage(k)
  <2>1. /\ Keeps /\ SamePages(items') /\ k \in DOMAIN work /\ k.kind = "page"
        /\ (k.of \in Readable /\ Move(k, "hosts", 1)) \/ Move(k, "end", 1)
    BY <1>4, FetchPageStep
  <2>2. "end" \notin Inner
    BY DEF Inner
  <2> QED BY <1>2, <1>3, <2>1, <2>2
<1>5. CASE UpsertHost(k)
  BY <1>1, <1>2, <1>3, <1>5, UpsertHostStep
<1>6. CASE EnqueueProbe(k)
  BY <1>1, <1>2, <1>3, <1>6, EnqueueProbeStep
<1>7. CASE UpsertHintHost(k)
  BY <1>1, <1>2, <1>3, <1>7, UpsertHintHostStep
<1>8. CASE RecordHit(k)
  BY <1>1, <1>2, <1>3, <1>8, RecordHitStep
<1>9. CASE EnqueueHinted(k)
  BY <1>1, <1>2, <1>3, <1>9, EnqueueHintedStep
<1>10. CASE SaveInline(k)
  <2>1. /\ k \in DOMAIN work /\ work[k].pc = "inline" /\ Keeps /\ UNCHANGED items
        /\ \/ Move(k, "links", 1)
           \/ work[k].i <= Len(Candidates[k.of]) /\ Move(k, "nested", work[k].i)
           \/ Move(k, "inline", work[k].i + 1)
    BY <1>10, SaveInlineStep
  <2>2. SamePages(items')
    BY <2>1, Stays
  <2>3. k.of \in Pages
    BY <1>1, <1>2, <2>1, SiteAssumption
  <2>4. work[k].i <= Len(Candidates[k.of]) => work[k].i \in DOMAIN Candidates[k.of]
    BY <1>1, <2>1, <2>3, Lists
  <2> QED BY <1>1, <1>2, <1>3, <2>1, <2>2, <2>4
<1>11. CASE FollowInline(k)
  <2>1. /\ k \in DOMAIN work /\ work[k].pc = "nested" /\ Keeps /\ SamePages(items')
        /\ work[k].i \in DOMAIN Candidates[k.of]
        /\ Move(k, "inline", work[k].i + 1) \/ Move(k, "nested", work[k].i)
    BY <1>11, FollowInlineStep
  <2> QED BY <1>1, <1>2, <1>3, <2>1
<1>12. CASE FollowLink(k)
  <2>1. k \in DOMAIN work /\ work[k].pc = "links"
    BY <1>12 DEF FollowLink, At
  <2>2. k.of \in Pages
    BY <1>1, <1>2, <2>1, SiteAssumption
  <2>3. Keeps /\ (Move(k, "end", 1) \/ Move(k, "links", work[k].i + 1))
    BY <1>12, <2>2, FollowLinkStep
  <2> QED BY <1>1, <1>2, <1>3, <1>12, <2>1, <2>3
<1>13. CASE ProbeHost(k)
  BY <1>1, <1>2, <1>3, <1>13, ProbeHostStep DEF Inner
<1>14. CASE FetchCatalog(k)
  BY <1>1, <1>2, <1>3, <1>14, FetchCatalogStep DEF Inner
<1>15. CASE HarvestRegistry(k)
  <2>1. k \in DOMAIN work /\ Move(k, "end", 1) /\ Keeps /\ UNCHANGED items
    BY <1>15, HarvestRegistryStep
  <2>2. SamePages(items')
    BY <2>1, Stays
  <2> QED BY <1>2, <1>3, <2>1, <2>2 DEF Inner
<1> QED BY <1>4, <1>5, <1>6, <1>7, <1>8, <1>9, <1>10, <1>11, <1>12, <1>13, <1>14, <1>15 DEF Works

\* The steps that only answer: dequeueing, completing, failing, restarting.
Answers ==
  \/ \E k \in DOMAIN items : Dequeue(k) \/ Complete(k) \/ HandlerFails(k) \/ ProbeInconclusive(k)
  \/ CrashRestart

\* They leave what is there and its depth.
SameRows(new) ==
  /\ DOMAIN new = DOMAIN items /\ new \in [DOMAIN new -> Row]
  /\ \A x \in DOMAIN items : new[x].depth = items[x].depth

LEMMA StatusChange ==
  ASSUME TypeOK, NEW k \in DOMAIN items, NEW r \in Row, r.depth = items[k].depth,
         NEW new, new = [items EXCEPT ![k] = r]
  PROVE  /\ SameRows(new) /\ new[k] = r
         /\ \A x \in DOMAIN items : x # k => new[x] = items[x]
<1>1. items \in [DOMAIN items -> Row]
  BY DEF TypeOK
<1>2. DOMAIN new = DOMAIN items /\ new[k] = r /\ \A x \in DOMAIN items : x # k => new[x] = items[x]
  BY <1>1
<1>3. new \in [DOMAIN new -> Row]
  BY <1>1
<1> QED BY <1>2, <1>3 DEF SameRows

LEMMA DequeueStep ==
  ASSUME TypeOK, NEW k \in DOMAIN items, Dequeue(k)
  PROVE  /\ SameRows(items') /\ items[k].status = "pending" /\ items'[k].status = "in_flight"
         /\ \A x \in DOMAIN items : x # k => items'[x] = items[x]
         /\ DOMAIN work' = DOMAIN work \union {k} /\ work' \in [DOMAIN work' -> Call]
         /\ work'[k] = Started
         /\ \A x \in DOMAIN work : x # k => work'[x] = work[x]
         /\ UNCHANGED <<inline, grown, dropped>>
<1>1. items[k] \in Row /\ work \in [DOMAIN work -> Call]
  BY DEF TypeOK
<1> DEFINE r == [items[k] EXCEPT !.status = "in_flight"]
<1>2. items' = [items EXCEPT ![k] = r]
  BY DEF Dequeue
<1>3. r \in Row /\ r.status = "in_flight" /\ r.depth = items[k].depth
  BY <1>1 DEF Row
<1> HIDE DEF r
<1>4. /\ SameRows(items') /\ items'[k].status = "in_flight"
      /\ \A x \in DOMAIN items : x # k => items'[x] = items[x]
  BY <1>2, <1>3, StatusChange
<1>5. work' = [x \in DOMAIN work \union {k} |-> IF x = k THEN Started ELSE work[x]]
  BY DEF Dequeue, With
<1>6. Started \in Call
  BY DEF Call, Started
<1> QED BY <1>1, <1>4, <1>5, <1>6 DEF Dequeue, rows, history

LEMMA LeaveStep ==
  ASSUME TypeOK, NEW k \in DOMAIN items, Complete(k) \/ HandlerFails(k) \/ ProbeInconclusive(k)
  PROVE  /\ SameRows(items') /\ k \in DOMAIN work
         /\ \/ Complete(k) /\ work[k].pc = "end" /\ items'[k].status = "done"
            \/ ~Complete(k) /\ items'[k].status \in {"pending", "failed"}
         /\ \A x \in DOMAIN items : x # k => items'[x] = items[x]
         /\ DOMAIN work' = DOMAIN work \ {k} /\ work' \in [DOMAIN work' -> Call]
         /\ \A x \in DOMAIN work : x # k => work'[x] = work[x]
         /\ UNCHANGED <<inline, grown, dropped>>
<1>1. items[k] \in Row /\ work \in [DOMAIN work -> Call] /\ items \in [DOMAIN items -> Row]
  BY DEF TypeOK
<1>2. /\ k \in DOMAIN work /\ work' = [x \in DOMAIN work \ {k} |-> work[x]]
      /\ UNCHANGED <<inline, grown, dropped>>
  BY DEF Complete, HandlerFails, ProbeInconclusive, At, Without, rows, history
<1>3. ASSUME NEW s \in {"pending", "done", "failed"}, items' = [items EXCEPT ![k].status = s]
      PROVE  /\ SameRows(items') /\ items'[k].status = s
             /\ \A x \in DOMAIN items : x # k => items'[x] = items[x]
  <2> DEFINE r == [items[k] EXCEPT !.status = s]
  <2>1. items' = [items EXCEPT ![k] = r]
    BY <1>3
  <2>2. r \in Row /\ r.status = s /\ r.depth = items[k].depth
    BY <1>1 DEF Row
  <2> HIDE DEF r
  <2> QED BY <2>1, <2>2, StatusChange
<1>4. ASSUME NEW s \in {"pending", "done", "failed"}, NEW b \in BOOLEAN,
             items' = [items EXCEPT ![k] = [@ EXCEPT !.status = s, !.tried = b]]
      PROVE  /\ SameRows(items') /\ items'[k].status = s
             /\ \A x \in DOMAIN items : x # k => items'[x] = items[x]
  <2> DEFINE r == [items[k] EXCEPT !.status = s, !.tried = b]
  <2>1. items' = [items EXCEPT ![k] = r]
    BY <1>4
  <2>2. r \in Row /\ r.status = s /\ r.depth = items[k].depth
    BY <1>1 DEF Row
  <2> HIDE DEF r
  <2> QED BY <2>1, <2>2, StatusChange
<1>5. CASE Complete(k)
  <2>1. work[k].pc = "end" /\ items' = [items EXCEPT ![k].status = "done"]
    BY <1>5 DEF Complete, At
  <2> QED BY <1>1, <1>2, <1>3, <1>5, <2>1
<1>6. CASE HandlerFails(k) \/ ProbeInconclusive(k)
  <2>1. PICK s \in {"pending", "failed"}, b \in BOOLEAN :
          items' = [items EXCEPT ![k] = [@ EXCEPT !.status = s, !.tried = b]]
    BY <1>6 DEF HandlerFails, ProbeInconclusive
  <2>2. /\ SameRows(items') /\ items'[k].status = s
        /\ \A x \in DOMAIN items : x # k => items'[x] = items[x]
    BY <1>4, <2>1
  <2>3. CASE Complete(k)
    BY <1>5, <2>3
  <2>4. CASE ~Complete(k)
    BY <1>1, <1>2, <2>2, <2>4
  <2> QED BY <2>3, <2>4
<1> QED BY <1>5, <1>6

LEMMA CrashStep ==
  ASSUME TypeOK, CrashRestart
  PROVE  /\ SameRows(items') /\ DOMAIN work' = {} /\ work' \in [DOMAIN work' -> Call]
         /\ \A x \in DOMAIN items :
              \/ items'[x] = items[x] /\ items[x].status # "in_flight"
              \/ items'[x].status = "pending"
         /\ UNCHANGED <<inline, grown, dropped>>
<1>1. items \in [DOMAIN items -> Row]
  BY DEF TypeOK
<1>2. /\ items' = [k \in DOMAIN items |-> IF items[k].status = "in_flight"
                                          THEN [items[k] EXCEPT !.status = "pending"] ELSE items[k]]
      /\ work' = [k \in {} |-> Started] /\ UNCHANGED <<inline, grown, dropped>>
  BY DEF CrashRestart, rows, history
<1>3. \A x \in DOMAIN items :
        /\ items'[x] \in Row /\ items'[x].depth = items[x].depth
        /\ \/ items'[x] = items[x] /\ items[x].status # "in_flight"
           \/ items'[x].status = "pending"
  BY <1>1, <1>2 DEF Row
<1> QED BY <1>2, <1>3 DEF SameRows

LEMMA StepCases ==
  ASSUME [Next]_vars
  PROVE  (\E k \in DOMAIN items : Works(k)) \/ Answers \/ UNCHANGED vars
BY DEF Next, Crawl, Handle, Works, Answers

LEMMA AnswerRows ==
  ASSUME TypeOK, Answers
  PROVE  SameRows(items') /\ work' \in [DOMAIN work' -> Call] /\ UNCHANGED <<inline, grown, dropped>>
BY DequeueStep, LeaveStep, CrashStep DEF Answers

LEMMA TypeStep ==
  ASSUME TypeOK, WorkInv, [Next]_vars
  PROVE  TypeOK'
<1>1. ASSUME NEW k \in DOMAIN items, Works(k)
      PROVE  TypeOK'
  <2>1. Extends(items')
    BY <1>1, WorksStep DEF Keeps
  <2>2. PICK p \in Inner \union {"end"}, n \in Nat \ {0}, m \in Nat \ {0} : MoveTo(k, p, n, m)
    BY <1>1, WorksStep DEF Onward, Move
  <2>3. [pc |-> p, i |-> n, j |-> m] \in Call
    BY DEF Call
  <2>4. work' \in [DOMAIN work' -> Call]
    BY <2>2, <2>3 DEF MoveTo, TypeOK
  <2> QED BY <2>1, <2>4 DEF Extends, TypeOK, PageRows
<1>2. CASE Answers
  <2>1. DOMAIN items' = DOMAIN items /\ items' \in [DOMAIN items' -> Row] /\ work' \in [DOMAIN work' -> Call]
    BY <1>2, AnswerRows DEF SameRows
  <2>2. PageRows' = PageRows
    BY <2>1 DEF PageRows
  <2> QED BY <2>1, <2>2 DEF TypeOK
<1>3. CASE UNCHANGED vars
  BY <1>3 DEF vars, TypeOK, PageRows
<1> QED BY <1>1, <1>2, <1>3, StepCases

LEMMA WorkStep ==
  ASSUME TypeOK, WorkInv, [Next]_vars
  PROVE  WorkInv'
<1>1. /\ DOMAIN work \subseteq DOMAIN items
      /\ \A k \in DOMAIN work : /\ items[k].status = "in_flight"
                                /\ work[k].pc \in Inner => k.kind = "page" /\ k.of \in Readable
                                /\ work[k].pc = "nested" => work[k].i \in DOMAIN Candidates[k.of]
      /\ work \in [DOMAIN work -> Call]
  BY DEF WorkInv, TypeOK
<1>2. ASSUME NEW k \in DOMAIN items, Works(k)
      PROVE  WorkInv'
  <2>1. Extends(items')
    BY <1>2, WorksStep DEF Keeps
  <2>2. \A x \in DOMAIN work : ~Finished(x)
    BY <1>1, Statuses
  <2>3. DOMAIN work \subseteq DOMAIN items' /\ \A x \in DOMAIN work : items'[x].status = "in_flight"
    BY <1>1, <2>1, <2>2 DEF Extends
  <2>4. PICK p \in Inner \union {"end"}, n \in Nat \ {0}, m \in Nat \ {0} :
          /\ k \in DOMAIN work /\ MoveTo(k, p, n, m)
          /\ p \in Inner => k.kind = "page" /\ k.of \in Readable
          /\ p = "nested" => n \in DOMAIN Candidates[k.of]
    BY <1>2, WorksStep DEF Onward, Move
  <2>5. /\ DOMAIN work' = DOMAIN work
        /\ \A x \in DOMAIN work : x # k => work'[x] = work[x]
        /\ work'[k].pc = p /\ work'[k].i = n
    <3> DEFINE c == [pc |-> p, i |-> n, j |-> m]
    <3>1. work' = [work EXCEPT ![k] = c]
      BY <2>4 DEF MoveTo
    <3>2. c.pc = p /\ c.i = n
      OBVIOUS
    <3> HIDE DEF c
    <3> QED BY <1>1, <2>4, <3>1, <3>2
  <2>6. ASSUME NEW x \in DOMAIN work'
        PROVE  /\ work'[x].pc \in Inner => x.kind = "page" /\ x.of \in Readable
               /\ work'[x].pc = "nested" => work'[x].i \in DOMAIN Candidates[x.of]
    <3>1. CASE x = k
      BY <2>4, <2>5, <2>6, <3>1
    <3>2. CASE x # k
      BY <1>1, <2>5, <2>6, <3>2
    <3> QED BY <3>1, <3>2
  <2> QED BY <2>3, <2>5, <2>6 DEF WorkInv
<1>3. ASSUME NEW k \in DOMAIN items, Dequeue(k)
      PROVE  WorkInv'
  <2>1. /\ DOMAIN items' = DOMAIN items /\ items'[k].status = "in_flight"
        /\ \A x \in DOMAIN items : x # k => items'[x] = items[x]
        /\ DOMAIN work' = DOMAIN work \union {k} /\ work'[k].pc = "start"
        /\ \A x \in DOMAIN work : x # k => work'[x] = work[x]
    <3>1. /\ SameRows(items') /\ items'[k].status = "in_flight"
          /\ \A x \in DOMAIN items : x # k => items'[x] = items[x]
          /\ DOMAIN work' = DOMAIN work \union {k} /\ work'[k] = Started
          /\ \A x \in DOMAIN work : x # k => work'[x] = work[x]
      BY <1>3, DequeueStep
    <3> QED BY <3>1 DEF SameRows, Started
  <2>2. "start" \notin Inner
    BY DEF Inner
  <2>3. \A x \in DOMAIN work' : items'[x].status = "in_flight"
    BY <1>1, <2>1
  <2>4. \A x \in DOMAIN work' :
          /\ work'[x].pc \in Inner => x.kind = "page" /\ x.of \in Readable
          /\ work'[x].pc = "nested" => work'[x].i \in DOMAIN Candidates[x.of]
    BY <1>1, <2>1, <2>2
  <2> QED BY <1>1, <2>1, <2>3, <2>4 DEF WorkInv
<1>4. ASSUME NEW k \in DOMAIN items, Complete(k) \/ HandlerFails(k) \/ ProbeInconclusive(k)
      PROVE  WorkInv'
  <2>1. /\ DOMAIN items' = DOMAIN items
        /\ \A x \in DOMAIN items : x # k => items'[x] = items[x]
        /\ DOMAIN work' = DOMAIN work \ {k}
        /\ \A x \in DOMAIN work : x # k => work'[x] = work[x]
    BY <1>4, LeaveStep DEF SameRows
  <2> QED BY <1>1, <2>1 DEF WorkInv
<1>5. CASE CrashRestart
  BY <1>5, CrashStep DEF WorkInv
<1>6. CASE UNCHANGED vars
  BY <1>6 DEF vars, WorkInv
<1> QED BY <1>2, <1>3, <1>4, <1>5, <1>6, StepCases DEF Answers

-----------------------------------------------------------------------------
(* Depths.                                                                 *)

\* Every set of naturals has a least element, and so induction over a set.
LEMMA LeastOf ==
  ASSUME NEW T \in SUBSET Nat, T # {}
  PROVE  \E x \in T : \A y \in T : ~(y < x)
<1> DEFINE R == OpToRel(<, Nat)
<1>1. \A x, y \in Nat : x < y => <<x, y>> \in R
  BY DEF OpToRel
<1>2. IsWellFoundedOn(R, Nat)
  BY NatLessThanWellFounded
<1> HIDE DEF R
<1>3. PICK x \in T : \A y \in T : ~ (<<y, x>> \in R)
  BY <1>2, WFMin, Zenon
<1> QED BY <1>1, <1>3

LEMMA Naturals ==
  ASSUME NEW S, 0 \in S, \A n \in Nat : n \in S => n + 1 \in S
  PROVE  Nat \subseteq S
<1> DEFINE T == Nat \ S
<1>1. SUFFICES ASSUME T # {} PROVE FALSE
  OBVIOUS
<1>2. PICK x \in T : \A y \in T : ~ (y < x)
  BY <1>1, LeastOf
<1>3. x # 0 /\ x \in Nat
  OBVIOUS
<1>4. x - 1 \in T
  BY <1>3
<1> QED BY <1>2, <1>3, <1>4

\* The pages that the pages of X link to.
Beyond(X) == UNION {Anchors(u) : u \in X \intersect Readable}

\* The recursive definition of Walks defines a function.
LEMMA WalksAre ==
  \A n \in 0..MaxDepth : Walks[n] = IF n = 0 THEN Seeds ELSE Beyond(Walks[n - 1])
<1> DEFINE Is(w, m) == w = [n \in 0..m |-> IF n = 0 THEN Seeds ELSE Beyond(w[n - 1])]
           S == {m \in Nat : \E w : Is(w, m)}
<1>1. 0 \in S
  <2> DEFINE w == [n \in 0..0 |-> Seeds]
  <2>1. Is(w, 0)
    OBVIOUS
  <2> QED BY <2>1
<1>2. ASSUME NEW m \in Nat, m \in S
      PROVE  m + 1 \in S
  <2>1. PICK w : Is(w, m)
    BY <1>2
  <2> DEFINE v == [n \in 0..(m + 1) |-> IF n = m + 1 THEN Beyond(w[m]) ELSE w[n]]
  <2>2. \A n \in 0..m : w[n] = IF n = 0 THEN Seeds ELSE Beyond(w[n - 1])
    BY <2>1
  <2>3. \A n \in 0..(m + 1) : v[n] = IF n = 0 THEN Seeds ELSE Beyond(v[n - 1])
    BY <2>2
  <2>4. Is(v, m + 1)
    BY <2>3
  <2>5. m + 1 \in Nat
    OBVIOUS
  <2> HIDE DEF Is, v
  <2> QED BY <2>4, <2>5
<1>3. MaxDepth \in S
  <2>1. Nat \subseteq S
    BY <1>1, <1>2, Naturals
  <2> QED BY <2>1, LimitsAssumption
<1>4. PICK w : w = [n \in 0..MaxDepth |-> IF n = 0 THEN Seeds ELSE Beyond(w[n - 1])]
  BY <1>3
<1>5. Walks = [n \in 0..MaxDepth |-> IF n = 0 THEN Seeds ELSE Beyond(Walks[n - 1])]
  BY <1>4 DEF Walks, Beyond
<1> QED BY <1>5

\* A link makes the walk one longer.
LEMMA OneFurther ==
  ASSUME NEW n \in 0..MaxDepth, n < MaxDepth, NEW u \in Walks[n], u \in Readable, NEW v \in Anchors(u)
  PROVE  n + 1 \in 0..MaxDepth /\ v \in Walks[n + 1]
<1>1. MaxDepth \in Nat
  BY LimitsAssumption
<1>2. n + 1 \in 0..MaxDepth /\ n + 1 # 0 /\ (n + 1) - 1 = n
  BY <1>1
<1>3. Walks[n + 1] = Beyond(Walks[n])
  BY <1>2, WalksAre
<1> QED BY <1>2, <1>3 DEF Beyond

LEMMA DepthStep ==
  ASSUME TypeOK, WorkInv, DepthIsDistance, [Next]_vars
  PROVE  DepthIsDistance'
<1>1. MaxDepth \in Nat
  BY LimitsAssumption
<1>2. ASSUME SamePages(items')
      PROVE  DepthIsDistance'
  <2> SUFFICES ASSUME NEW x \in DOMAIN items', x.kind = "page"
               PROVE  items'[x].depth \in 0..MaxDepth /\ x.of \in Walks[items'[x].depth]
    BY DEF DepthIsDistance, Walks, Anchors, Elements
  <2>1. x \in DOMAIN items /\ items'[x].depth = items[x].depth
    BY <1>2 DEF SamePages
  <2> QED BY <2>1 DEF DepthIsDistance
<1>3. ASSUME NEW k \in DOMAIN items, FollowLink(k)
      PROVE  DepthIsDistance'
  <2>1. k \in DOMAIN work /\ work[k].pc = "links"
    BY <1>3 DEF FollowLink, At
  <2>2. k.kind = "page" /\ k.of \in Readable /\ k.of \in Pages
    BY <2>1, SiteAssumption DEF WorkInv, Inner
  <2>3. CASE items' = items
    BY <1>2, <2>3, Stays
  <2>4. CASE /\ FollowsLinks(k) /\ work[k].i <= Len(Links[k.of])
             /\ items' = Enqueued(PageKey(Links[k.of][work[k].i]), ChildDepth(k))
    <3> DEFINE u == Links[k.of][work[k].i]
               d == ChildDepth(k)
               key == PageKey(u)
    <3>1. work[k].i \in 1..Len(Links[k.of])
      <4>1. work[k].i \in Nat \ {0}
        BY <2>1, Moves
      <4>2. Len(Links[k.of]) \in Nat
        BY <2>2, Lists
      <4> QED BY <2>4, <4>1, <4>2
    <3>2. u \in Anchors(k.of) /\ u \in Pages
      BY <2>2, <3>1, Lists DEF Range
    <3>3. items[k].depth \in 0..MaxDepth /\ k.of \in Walks[items[k].depth] /\ items[k].depth < MaxDepth
      BY <2>2, <2>4 DEF DepthIsDistance, FollowsLinks
    <3>4. d \in 0..MaxDepth /\ u \in Walks[d]
      BY <2>2, <3>2, <3>3, OneFurther DEF ChildDepth
    <3>5. key.kind = "page" /\ key.of = u
      BY DEF PageKey
    <3> HIDE DEF u, d, key
    <3>6. d \in Nat
      BY <1>1, <3>4
    <3>7. /\ DOMAIN items' = DOMAIN items \union {key}
          /\ \A x \in DOMAIN items : x # key => items'[x] = items[x]
          /\ items'[key].depth = d \/ (key \in DOMAIN items /\ items'[key] = items[key])
      <4>1. items' = Enqueued(key, d)
        BY <2>4 DEF u, d, key
      <4> QED BY <3>2, <3>5, <3>6, <4>1, EnqueuedRow, ZenonT(30)
    <3> SUFFICES ASSUME NEW x \in DOMAIN items', x.kind = "page"
                 PROVE  items'[x].depth \in 0..MaxDepth /\ x.of \in Walks[items'[x].depth]
      BY DEF DepthIsDistance, Walks, Anchors, Elements
    <3>8. CASE x \in DOMAIN items /\ items'[x] = items[x]
      BY <3>8 DEF DepthIsDistance
    <3>9. CASE x = key /\ items'[x].depth = d
      BY <3>4, <3>5, <3>9
    <3> QED BY <3>7, <3>8, <3>9
  <2>5. \/ items' = items
        \/ /\ FollowsLinks(k) /\ work[k].i <= Len(Links[k.of])
           /\ items' = Enqueued(PageKey(Links[k.of][work[k].i]), ChildDepth(k))
    BY <1>3, <2>2, FollowLinkStep
  <2> QED BY <2>3, <2>4, <2>5
<1>4. ASSUME NEW k \in DOMAIN items, Works(k)
      PROVE  DepthIsDistance'
  BY <1>2, <1>3, <1>4, WorksStep
<1>5. CASE Answers
  BY <1>2, <1>5, AnswerRows DEF SameRows, SamePages
<1>6. CASE UNCHANGED vars
  BY <1>2, <1>6, Stays DEF vars
<1> QED BY <1>4, <1>5, <1>6, StepCases

-----------------------------------------------------------------------------
(* What is known of a host.                                                *)

Known(h) == h \in probed \/ \E x \in hits : x.host = h
KnownInv ==
  /\ \A h \in fresh : Known(h)
  /\ \A k \in DOMAIN work : k.kind = "probe" /\ work[k].pc = "end" => Known(k.of)
  /\ UnprobedOnlyForHint

\* Nothing that is known is forgotten, and a host looks probed only once it is
\* known.
LEMMA KnownStays ==
  ASSUME [Next]_vars, \A h \in fresh : Known(h)
  PROVE  /\ probed \subseteq probed' /\ hits \subseteq hits'
         /\ \A h : Known(h) => Known(h)'
         /\ \A h \in fresh' : Known(h)'
<1>1. ASSUME probed \subseteq probed', hits \subseteq hits'
      PROVE  \A h : Known(h) => Known(h)'
  BY <1>1 DEF Known
<1>2. CASE UNCHANGED <<probed, hits, fresh>>
  <2>1. \A h : Known(h)' <=> Known(h)
    BY <1>2 DEF Known
  <2> QED BY <1>1, <1>2, <2>1
<1>3. ASSUME NEW k, RecordHit(k)
      PROVE  /\ probed \subseteq probed' /\ hits \subseteq hits'
             /\ \A h \in fresh' : Known(h)'
  <2> DEFINE u == Nth(k, Hints[k.of])
             hit == [host |-> HostOf[u], url |-> u]
  <2>1. /\ probed' = probed
        /\ \/ hits' = hits \union {hit} /\ fresh' = fresh \union {HostOf[u]}
           \/ hits' = hits /\ fresh' = fresh
    BY <1>3 DEF RecordHit, history
  <2>2. hit.host = HostOf[u]
    OBVIOUS
  <2> HIDE DEF u, hit
  <2>3. CASE hits' = hits \union {hit} /\ fresh' = fresh \union {HostOf[u]}
    <3>1. \A h : Known(h) => Known(h)'
      BY <1>1, <2>1, <2>3
    <3>2. PICK g : g = HostOf[u]
      OBVIOUS
    <3>3. Known(g)'
      <4>1. \E x \in hits' : x.host = g
        BY <2>2, <2>3, <3>2
      <4> QED BY <4>1 DEF Known
    <3>4. \A h \in fresh' : h \in fresh \/ h = g
      BY <2>3, <3>2
    <3>5. \A h \in fresh' : Known(h)'
      BY <3>1, <3>3, <3>4
    <3> QED BY <2>1, <2>3, <3>5
  <2>4. CASE hits' = hits /\ fresh' = fresh
    BY <1>1, <2>1, <2>4
  <2> QED BY <2>1, <2>3, <2>4
<1>4. ASSUME NEW k, ProbeHost(k)
      PROVE  /\ probed \subseteq probed' /\ hits \subseteq hits'
             /\ \A h \in fresh' : Known(h)'
  <2>1. /\ hits' = hits
        /\ \/ UNCHANGED <<fresh, probed>>
           \/ fresh' = fresh \union {k.of} /\ probed' = probed \union {k.of}
    BY <1>4 DEF ProbeHost
  <2>2. \A h : Known(h) => Known(h)'
    BY <1>1, <2>1
  <2>3. fresh' # fresh => Known(k.of)'
    BY <2>1 DEF Known
  <2> QED BY <2>1, <2>2, <2>3
<1>5. ASSUME NEW k, ProbeInconclusive(k)
      PROVE  /\ probed \subseteq probed' /\ hits \subseteq hits'
             /\ \A h \in fresh' : Known(h)'
  <2>1. UNCHANGED <<hits, fresh>> /\ probed \subseteq probed'
    BY <1>5 DEF ProbeInconclusive
  <2> QED BY <1>1, <2>1
<1>6. ASSUME NEW k, \/ FetchPage(k) \/ UpsertHost(k) \/ EnqueueProbe(k) \/ UpsertHintHost(k)
                    \/ EnqueueHinted(k) \/ SaveInline(k) \/ FollowInline(k) \/ FollowLink(k)
                    \/ FetchCatalog(k) \/ HarvestRegistry(k) \/ Dequeue(k) \/ Complete(k) \/ HandlerFails(k)
      PROVE  UNCHANGED <<probed, hits, fresh>>
  BY <1>6 DEF FetchPage, UpsertHost, EnqueueProbe, UpsertHintHost, EnqueueHinted, SaveInline,
     FollowInline, FollowLink, FetchCatalog, HarvestRegistry, Dequeue, Complete, HandlerFails, rows, history
<1>7. CASE CrashRestart \/ UNCHANGED vars
  <2>1. UNCHANGED <<probed, hits, fresh>>
    BY <1>7 DEF CrashRestart, vars, rows, history
  <2> QED BY <1>2, <2>1
<1> QED BY <1>1, <1>2, <1>3, <1>4, <1>5, <1>6, <1>7 DEF Next, Crawl, Handle

LEMMA KnownStep ==
  ASSUME TypeOK, WorkInv, KnownInv, [Next]_vars
  PROVE  KnownInv'
<1>1. /\ \A h : Known(h) => Known(h)'
      /\ \A h \in fresh' : Known(h)'
  BY KnownStays DEF KnownInv
<1>2. /\ \A k \in DOMAIN work : k.kind = "probe" /\ work[k].pc = "end" => Known(k.of)
      /\ \A k \in DOMAIN items : k.kind = "probe" /\ items[k].status = "done" => Known(k.of)
      /\ \A h \in fresh : Known(h)
  BY DEF KnownInv, UnprobedOnlyForHint, Known
<1>3. ASSUME \A k \in DOMAIN work' : k.kind = "probe" /\ work'[k].pc = "end" => Known(k.of)',
             \A k \in DOMAIN items' : k.kind = "probe" /\ items'[k].status = "done" => Known(k.of)'
      PROVE  KnownInv'
  BY <1>1, <1>3 DEF KnownInv, UnprobedOnlyForHint, Known
<1>4. ASSUME NEW k \in DOMAIN items, Works(k)
      PROVE  KnownInv'
  <2>1. k.kind = "probe" => ProbeHost(k)
    BY <1>4 DEF Works, FetchPage, UpsertHost, EnqueueProbe, UpsertHintHost, RecordHit, EnqueueHinted,
       SaveInline, FollowInline, FollowLink, FetchCatalog, HarvestRegistry, At, WorkInv, Inner
  <2>2. ProbeHost(k) => Known(k.of)'
    <3> SUFFICES ASSUME ProbeHost(k) PROVE Known(k.of)'
      OBVIOUS
    <3>1. k.of \in fresh \/ k.of \in probed'
      BY DEF ProbeHost, SkipsProbe
    <3> QED BY <1>1, <1>2, <3>1 DEF Known
  <2>3. DOMAIN work' = DOMAIN work /\ \A x \in DOMAIN work : x # k => work'[x] = work[x]
    BY <1>4, WorksStep DEF Onward, Move, MoveTo, TypeOK
  <2>4. Extends(items')
    BY <1>4, WorksStep DEF Keeps
  <2>5. ASSUME NEW x \in DOMAIN items', x.kind = "probe", items'[x].status = "done"
        PROVE  Known(x.of)'
    <3>1. CASE x \in DOMAIN items
      BY <1>1, <1>2, <2>4, <2>5, <3>1 DEF Extends
    <3>2. CASE x \notin DOMAIN items
      BY <2>4, <2>5, <3>2 DEF Extends
    <3> QED BY <3>1, <3>2
  <2>6. ASSUME NEW x \in DOMAIN work', x.kind = "probe", work'[x].pc = "end"
        PROVE  Known(x.of)'
    <3>1. CASE x = k
      <4>1. k.kind = "probe"
        BY <2>6, <3>1
      <4>2. Known(k.of)'
        BY <2>1, <2>2, <4>1
      <4> QED BY <3>1, <4>2
    <3>2. CASE x # k
      <4>1. x \in DOMAIN work /\ work[x].pc = "end"
        BY <2>3, <2>6, <3>2
      <4>2. Known(x.of)
        BY <1>2, <2>6, <4>1
      <4> QED BY <1>1, <4>2
    <3> QED BY <3>1, <3>2
  <2> QED BY <1>3, <2>5, <2>6
<1>5. ASSUME SameRows(items'),
             \A x \in DOMAIN work' : work'[x].pc = "end" => x \in DOMAIN work /\ work'[x] = work[x],
             \A x \in DOMAIN items : items'[x].status = "done" =>
               items[x].status = "done" \/ (x \in DOMAIN work /\ work[x].pc = "end")
      PROVE  KnownInv'
  <2>1. \A x \in DOMAIN work' : x.kind = "probe" /\ work'[x].pc = "end" => Known(x.of)'
    BY <1>1, <1>2, <1>5
  <2>2. \A x \in DOMAIN items' : x.kind = "probe" /\ items'[x].status = "done" => Known(x.of)'
    BY <1>1, <1>2, <1>5 DEF SameRows
  <2> QED BY <1>3, <2>1, <2>2
<1>6. ASSUME NEW k \in DOMAIN items, Dequeue(k)
      PROVE  KnownInv'
  <2>1. /\ SameRows(items') /\ items'[k].status = "in_flight"
        /\ \A x \in DOMAIN items : x # k => items'[x] = items[x]
        /\ DOMAIN work' = DOMAIN work \union {k} /\ work'[k] = Started
        /\ \A x \in DOMAIN work : x # k => work'[x] = work[x]
    BY <1>6, DequeueStep
  <2>2. work'[k].pc = "start"
    BY <2>1 DEF Started
  <2> QED BY <1>5, <2>1, <2>2
<1>7. ASSUME NEW k \in DOMAIN items, Complete(k) \/ HandlerFails(k) \/ ProbeInconclusive(k)
      PROVE  KnownInv'
  <2>1. /\ SameRows(items') /\ k \in DOMAIN work
        /\ work[k].pc = "end" \/ items'[k].status # "done"
        /\ \A x \in DOMAIN items : x # k => items'[x] = items[x]
        /\ DOMAIN work' = DOMAIN work \ {k}
        /\ \A x \in DOMAIN work : x # k => work'[x] = work[x]
    BY <1>7, LeaveStep
  <2> QED BY <1>5, <2>1
<1>8. CASE CrashRestart
  <2>1. /\ SameRows(items') /\ DOMAIN work' = {}
        /\ \A x \in DOMAIN items : items'[x] = items[x] \/ items'[x].status = "pending"
    BY <1>8, CrashStep
  <2> QED BY <1>5, <2>1
<1>9. CASE UNCHANGED vars
  <2>1. SameRows(items') /\ UNCHANGED <<items, work>>
    BY <1>9 DEF vars, SameRows, TypeOK
  <2> QED BY <1>5, <2>1
<1> QED BY <1>4, <1>6, <1>7, <1>8, <1>9, StepCases DEF Answers

-----------------------------------------------------------------------------
(* The fan-out of inline catalogs.                                         *)

RegistryEntry(doc, n) == IsEntry(doc, n) /\ Entries(doc)[n].kind = "registry"
Named(doc, n) == RegistryEntry(doc, n) /\ FollowUpKey(doc, n) \in DOMAIN items

\* The entries of a catalog are followed in order, an entry for a registry has
\* an item of its own, and only its harvest makes the catalog grow.
FanOutInv ==
  /\ \A k \in DOMAIN work : work[k].pc = "nested" =>
       \A n \in 1..(work[k].j - 1) : FollowUpKey(<<k.of, work[k].i>>, n) \in DOMAIN items
  /\ \A k \in DOMAIN items : k.kind = "registry" =>
       \E doc \in Docs, n \in Nat : RegistryEntry(doc, n) /\ k = FollowUpKey(doc, n)
  /\ \A doc \in Docs, n \in Nat : Named(doc, n) =>
       \A m \in 1..(n - 1) : FollowUpKey(doc, m) \in DOMAIN items
  /\ \A doc \in grown : \E n \in Nat : Named(doc, n)

LEMMA RegistryKeys ==
  ASSUME NEW doc \in Docs, NEW n \in Nat, RegistryEntry(doc, n)
  PROVE  /\ FollowUpKey(doc, n).kind = "registry"
         /\ FollowUpKey(doc, n).parent = <<doc[1], doc[2], n>> /\ doc = <<doc[1], doc[2]>>
BY DEF RegistryEntry, FollowUpKey, Docs

\* When the handler passes a catalog that has grown, every entry is accounted for.
LEMMA GivenUp ==
  ASSUME FanOutInv, NEW u \in Pages, NEW m \in DOMAIN Candidates[u], <<u, m>> \in grown
  PROVE  \A n \in DOMAIN Entries(<<u, m>>) : FollowedUp(<<u, m>>, n)
<1> DEFINE doc == <<u, m>>
<1>1. doc \in Docs
  BY Lists DEF Docs
<1>2. PICK r \in Nat : Named(doc, r)
  BY DEF FanOutInv
<1>3. /\ \A n \in 1..(r - 1) : FollowUpKey(doc, n) \in DOMAIN items
      /\ FollowUpKey(doc, r) \in DOMAIN items
      /\ Entries(doc)[r].kind = "registry" /\ r \in DOMAIN Entries(doc)
  BY <1>1, <1>2 DEF FanOutInv, Named, RegistryEntry, IsEntry
<1>4. DOMAIN Entries(doc) = 1..Len(Entries(doc)) /\ Len(Entries(doc)) \in Nat
  BY EntryList
<1> HIDE DEF doc
<1>5. ASSUME NEW n \in DOMAIN Entries(doc)
      PROVE  FollowedUp(doc, n)
  <2>1. n \in 1..(r - 1) \/ n = r \/ r \in 1..(n - 1)
    BY <1>3, <1>4
  <2>2. CASE r \in 1..(n - 1)
    BY <1>3, <2>2 DEF FollowedUp, doc
  <2> QED BY <1>3, <2>1, <2>2 DEF FollowedUp
<1> QED BY <1>5 DEF doc

\* No other statement makes an item for a registry, or goes on inside a catalog.
LEMMA OtherStatements ==
  ASSUME NEW k, Works(k), ~FollowInline(k)
  PROVE  /\ \E p, n : MoveTo(k, p, n, 1)
         /\ \A x \in DOMAIN items' : x.kind = "registry" => x \in DOMAIN items
         /\ HarvestRegistry(k) \/ UNCHANGED grown
<1>1. ASSUME NEW key, NEW d, items' = Enqueued(key, d), key.kind # "registry"
      PROVE  \A x \in DOMAIN items' : x.kind = "registry" => x \in DOMAIN items
  BY <1>1 DEF Enqueued, With
<1>2. ASSUME NEW ks, NEW d, items' = Resumed(ks, d), \A x \in ks : x.kind # "registry"
      PROVE  \A x \in DOMAIN items' : x.kind = "registry" => x \in DOMAIN items
  BY <1>2 DEF Resumed
<1>3. ASSUME NEW p, Goes(k, p) \/ Turns(k, p) \/ Proceeds(k, p)
      PROVE  \E q, n : MoveTo(k, q, n, 1)
  BY <1>3 DEF Goes, Turns, Proceeds, MoveTo
<1>4. \A u, h, doc : /\ PageKey(u).kind # "registry" /\ ProbeKey(h).kind # "registry"
                     /\ CatalogKey(u, doc).kind # "registry"
  BY DEF PageKey, ProbeKey, CatalogKey
<1>5. CASE \/ FetchPage(k) \/ UpsertHost(k) \/ UpsertHintHost(k) \/ RecordHit(k)
           \/ SaveInline(k) \/ FetchCatalog(k) \/ HarvestRegistry(k)
  <2>1. UNCHANGED items
    BY <1>5 DEF FetchPage, UpsertHost, UpsertHintHost, RecordHit, SaveInline, FetchCatalog, HarvestRegistry
  <2>2. HarvestRegistry(k) \/ UNCHANGED grown
    BY <1>5 DEF FetchPage, UpsertHost, UpsertHintHost, RecordHit, SaveInline, FetchCatalog, rows
  <2>3. \E p : Goes(k, p) \/ Turns(k, p) \/ Proceeds(k, p)
    BY <1>5 DEF FetchPage, UpsertHost, UpsertHintHost, RecordHit, SaveInline, FetchCatalog, HarvestRegistry
  <2> QED BY <1>3, <2>1, <2>2, <2>3
<1>6. CASE EnqueueProbe(k)
  <2>1. Proceeds(k, "hosts") /\ UNCHANGED grown
    BY <1>6 DEF EnqueueProbe, rows
  <2>2. items' = Enqueued(ProbeKey(Nth(k, Hosts[k.of])), 0)
    BY <1>6 DEF EnqueueProbe
  <2> QED BY <1>1, <1>3, <1>4, <2>1, <2>2
<1>7. CASE EnqueueHinted(k)
  <2>1. Proceeds(k, "hints") /\ UNCHANGED grown
    BY <1>7 DEF EnqueueHinted, rows
  <2>2. items' = Enqueued(CatalogKey(Nth(k, Hints[k.of]), <<>>), 0)
    BY <1>7 DEF EnqueueHinted
  <2> QED BY <1>1, <1>3, <1>4, <2>1, <2>2
<1>8. CASE FollowLink(k)
  <2>1. (\E p : Turns(k, p) \/ Proceeds(k, p)) /\ UNCHANGED grown
    BY <1>8 DEF FollowLink, rows
  <2>2. items' = items \/ \E u : items' = Enqueued(PageKey(u), ChildDepth(k))
    BY <1>8 DEF FollowLink
  <2> QED BY <1>1, <1>3, <1>4, <2>1, <2>2
<1>9. CASE ProbeHost(k)
  <2>1. Turns(k, "end") /\ UNCHANGED grown
    BY <1>9 DEF ProbeHost
  <2>2. items' = items \/ items' = Resumed(KnownHits(k.of), 0)
    BY <1>9 DEF ProbeHost
  <2>3. \A x \in KnownHits(k.of) : x.kind # "registry"
    BY <1>4 DEF KnownHits
  <2> QED BY <1>2, <1>3, <2>1, <2>2, <2>3
<1> QED BY <1>5, <1>6, <1>7, <1>8, <1>9 DEF Works

\* The statement on one entry.
LEMMA EntryStep ==
  ASSUME TypeOK, WorkInv, FanOutInv, NEW k \in DOMAIN items, FollowInline(k)
  PROVE  FanOutInv'
<1> DEFINE doc == <<k.of, work[k].i>>
           n == work[k].j
           key == FollowUpKey(doc, n)
<1>1. /\ k \in DOMAIN work /\ work[k].pc = "nested" /\ k.of \in Pages
      /\ work[k].i \in DOMAIN Candidates[k.of] /\ n \in Nat \ {0} /\ UNCHANGED grown
      /\ \/ Move(k, "inline", work[k].i + 1) /\ UNCHANGED items
         \/ /\ n \in DOMAIN Entries(doc)
            /\ MoveTo(k, "nested", work[k].i, n + 1)
            /\ DOMAIN items' = DOMAIN items \union {key}
  BY FollowInlineStep, Moves
<1>2. doc \in Docs /\ work[k].i \in Nat /\ doc[1] = k.of /\ doc[2] = work[k].i
  BY <1>1, Lists DEF Docs
<1>3. work \in [DOMAIN work -> Call]
  BY DEF TypeOK
<1>4. \A m \in 1..(n - 1) : FollowUpKey(doc, m) \in DOMAIN items
  BY <1>1 DEF FanOutInv
<1>5. CASE Move(k, "inline", work[k].i + 1) /\ UNCHANGED items
  <2>1. PICK m \in Nat \ {0} : MoveTo(k, "inline", work[k].i + 1, m)
    BY <1>5 DEF Move
  <2>2. \A x \in DOMAIN work' : work'[x].pc = "nested" => x \in DOMAIN work /\ work'[x] = work[x]
    BY <1>1, <1>3, <2>1 DEF MoveTo
  <2> QED BY <1>1, <1>5, <2>2 DEF FanOutInv, Named
<1>6. CASE /\ n \in DOMAIN Entries(doc)
           /\ MoveTo(k, "nested", work[k].i, n + 1)
           /\ DOMAIN items' = DOMAIN items \union {key}
  <2>1. ASSUME NEW x \in DOMAIN work', work'[x].pc = "nested", NEW m \in 1..(work'[x].j - 1)
        PROVE  FollowUpKey(<<x.of, work'[x].i>>, m) \in DOMAIN items'
    <3> DEFINE c == [pc |-> "nested", i |-> work[k].i, j |-> n + 1]
    <3>1. work' = [work EXCEPT ![k] = c] /\ c.i = work[k].i /\ c.j = n + 1
      BY <1>6 DEF MoveTo
    <3> HIDE DEF c
    <3>2. CASE x = k
      <4>1. work'[x].i = work[k].i /\ work'[x].j = n + 1
        BY <1>1, <1>3, <3>1, <3>2
      <4>2. m \in 1..(n - 1) \/ m = n
        BY <1>1, <2>1, <4>1
      <4>3. FollowUpKey(doc, m) \in DOMAIN items'
        BY <1>4, <1>6, <4>2
      <4> QED BY <3>2, <4>1, <4>3
    <3>3. CASE x # k
      <4>1. x \in DOMAIN work /\ work'[x] = work[x]
        BY <1>1, <1>3, <3>1, <3>3
      <4>2. FollowUpKey(<<x.of, work[x].i>>, m) \in DOMAIN items
        BY <2>1, <4>1 DEF FanOutInv
      <4> QED BY <1>6, <4>1, <4>2
    <3> QED BY <3>2, <3>3
  <2>2. IsEntry(doc, n)
    BY <1>1, <1>2, <1>6 DEF IsEntry
  <2>3. key.kind = "registry" => RegistryEntry(doc, n)
    BY <2>2 DEF RegistryEntry, FollowUpKey
  <2> HIDE DEF doc, n, key
  <2>4. ASSUME NEW x \in DOMAIN items', x.kind = "registry"
        PROVE  \E d \in Docs, m \in Nat : RegistryEntry(d, m) /\ x = FollowUpKey(d, m)
    <3>1. CASE x \in DOMAIN items
      BY <2>4, <3>1 DEF FanOutInv
    <3>2. CASE x = key
      BY <1>1, <1>2, <2>3, <2>4, <3>2 DEF key
    <3> QED BY <1>6, <3>1, <3>2
  <2>5. ASSUME NEW d \in Docs, NEW m \in Nat, Named(d, m)', NEW l \in 1..(m - 1)
        PROVE  FollowUpKey(d, l) \in DOMAIN items'
    <3>1. RegistryEntry(d, m) /\ FollowUpKey(d, m) \in DOMAIN items'
      BY <2>5 DEF Named
    <3>2. CASE FollowUpKey(d, m) \in DOMAIN items
      <4>1. Named(d, m)
        BY <3>1, <3>2 DEF Named
      <4> QED BY <1>6, <2>5, <4>1 DEF FanOutInv
    <3>3. CASE FollowUpKey(d, m) = key
      <4>1. FollowUpKey(d, m).kind = "registry" /\ FollowUpKey(d, m).parent = <<d[1], d[2], m>> /\ d = <<d[1], d[2]>>
        BY <3>1, RegistryKeys
      <4>2. RegistryEntry(doc, n)
        BY <2>3, <3>3, <4>1
      <4>3. key.parent = <<doc[1], doc[2], n>> /\ doc = <<doc[1], doc[2]>>
        BY <1>1, <1>2, <4>2, RegistryKeys DEF key
      <4>4. d[1] = doc[1] /\ d[2] = doc[2] /\ m = n
        BY <3>3, <4>1, <4>3
      <4>5. d = doc /\ m = n
        BY <4>1, <4>3, <4>4
      <4>6. FollowUpKey(doc, l) \in DOMAIN items
        BY <1>4, <2>5, <4>5
      <4> QED BY <1>6, <4>5, <4>6
    <3> QED BY <1>6, <3>1, <3>2, <3>3
  <2>6. \A d \in grown' : \E m \in Nat : Named(d, m)'
    <3>1. \A d, m : Named(d, m) => Named(d, m)'
      BY <1>6 DEF Named
    <3> QED BY <1>1, <3>1 DEF FanOutInv
  <2> QED BY <2>1, <2>4, <2>5, <2>6 DEF FanOutInv
<1> QED BY <1>1, <1>5, <1>6

LEMMA FanOutStep ==
  ASSUME TypeOK, WorkInv, FanOutInv, [Next]_vars
  PROVE  FanOutInv'
<1>1. work \in [DOMAIN work -> Call]
  BY DEF TypeOK
\* Nothing but a harvest on record makes a catalog grow.
<1>2. ASSUME DOMAIN items \subseteq DOMAIN items',
             \A x \in DOMAIN items' : x.kind = "registry" => x \in DOMAIN items,
             \A x \in DOMAIN work' : work'[x].pc = "nested" =>
               (x \in DOMAIN work /\ work'[x] = work[x]) \/ work'[x].j = 1,
             \A d \in grown' : d \in grown \/ \E m \in Nat : Named(d, m)
      PROVE  FanOutInv'
  <2>1. ASSUME NEW x \in DOMAIN work', work'[x].pc = "nested", NEW m \in 1..(work'[x].j - 1)
        PROVE  FollowUpKey(<<x.of, work'[x].i>>, m) \in DOMAIN items'
    <3>1. CASE work'[x].j = 1
      BY <2>1, <3>1
    <3>2. CASE x \in DOMAIN work /\ work'[x] = work[x]
      <4>1. FollowUpKey(<<x.of, work[x].i>>, m) \in DOMAIN items
        BY <2>1, <3>2 DEF FanOutInv
      <4> QED BY <1>2, <3>2, <4>1
    <3> QED BY <1>2, <2>1, <3>1, <3>2
  <2>2. ASSUME NEW d \in Docs, NEW m \in Nat
        PROVE  Named(d, m)' => Named(d, m)
    BY <1>2, RegistryKeys DEF Named
  <2>3. \A d, m : Named(d, m) => Named(d, m)'
    BY <1>2 DEF Named
  <2>4. \A x \in DOMAIN items' : x.kind = "registry" =>
          \E d \in Docs, m \in Nat : RegistryEntry(d, m) /\ x = FollowUpKey(d, m)
    BY <1>2 DEF FanOutInv
  <2>5. \A d \in Docs, m \in Nat : Named(d, m)' =>
          \A l \in 1..(m - 1) : FollowUpKey(d, l) \in DOMAIN items'
    BY <1>2, <2>2 DEF FanOutInv
  <2>6. \A d \in grown' : \E m \in Nat : Named(d, m)'
    BY <1>2, <2>3 DEF FanOutInv
  <2> QED BY <2>1, <2>4, <2>5, <2>6 DEF FanOutInv
<1>3. ASSUME NEW k \in DOMAIN items, Works(k), ~FollowInline(k)
      PROVE  FanOutInv'
  <2>1. DOMAIN items \subseteq DOMAIN items' /\ k \in DOMAIN work
    BY <1>3, WorksStep DEF Keeps, Extends
  <2>2. PICK p, n : MoveTo(k, p, n, 1)
    BY <1>3, OtherStatements
  <2>3. \A x \in DOMAIN work' : (x \in DOMAIN work /\ work'[x] = work[x]) \/ work'[x].j = 1
    <3> DEFINE c == [pc |-> p, i |-> n, j |-> 1]
    <3>1. work' = [work EXCEPT ![k] = c] /\ c.j = 1
      BY <2>2 DEF MoveTo
    <3> HIDE DEF c
    <3> QED BY <1>1, <2>1, <3>1
  <2>4. \A x \in DOMAIN items' : x.kind = "registry" => x \in DOMAIN items
    BY <1>3, OtherStatements
  <2>5. ASSUME NEW d \in grown', d \notin grown
        PROVE  \E m \in Nat : Named(d, m)
    <3>1. HarvestRegistry(k)
      BY <1>3, <2>5, OtherStatements
    <3>2. k.kind = "registry" /\ d = <<k.parent[1], k.parent[2]>>
      BY <2>5, <3>1, HarvestRegistryStep
    <3>3. PICK doc \in Docs, m \in Nat : RegistryEntry(doc, m) /\ k = FollowUpKey(doc, m)
      BY <3>2 DEF FanOutInv
    <3>4. k.parent = <<doc[1], doc[2], m>> /\ doc = <<doc[1], doc[2]>>
      BY <3>3, RegistryKeys
    <3>5. d = doc
      BY <3>2, <3>4
    <3> QED BY <3>3, <3>5 DEF Named
  <2> QED BY <1>2, <2>1, <2>3, <2>4, <2>5
<1>4. ASSUME SameRows(items'), UNCHANGED grown,
             \A x \in DOMAIN work' : (x \in DOMAIN work /\ work'[x] = work[x]) \/ work'[x] = Started
      PROVE  FanOutInv'
  BY <1>2, <1>4 DEF SameRows, Started
<1>5. ASSUME NEW k \in DOMAIN items, Dequeue(k)
      PROVE  FanOutInv'
  <2>1. /\ SameRows(items') /\ UNCHANGED grown
        /\ DOMAIN work' = DOMAIN work \union {k} /\ work'[k] = Started
        /\ \A x \in DOMAIN work : x # k => work'[x] = work[x]
    BY <1>5, DequeueStep
  <2> QED BY <1>4, <2>1
<1>6. ASSUME NEW k \in DOMAIN items, Complete(k) \/ HandlerFails(k) \/ ProbeInconclusive(k)
      PROVE  FanOutInv'
  <2>1. /\ SameRows(items') /\ UNCHANGED grown
        /\ DOMAIN work' = DOMAIN work \ {k}
        /\ \A x \in DOMAIN work : x # k => work'[x] = work[x]
    BY <1>6, LeaveStep
  <2> QED BY <1>4, <2>1
<1>7. CASE CrashRestart
  BY <1>4, <1>7, CrashStep
<1>8. CASE UNCHANGED vars
  BY <1>4, <1>8 DEF vars, SameRows, TypeOK
<1> QED BY <1>3, <1>5, <1>6, <1>7, <1>8, EntryStep, StepCases DEF Answers

-----------------------------------------------------------------------------
(* What a page has handed on.                                              *)

HostHanded(u, h) == ProbeKey(h) \in DOMAIN items \/ <<u, h>> \in dropped
HintHanded(u, v) == CatalogKey(v, <<>>) \in DOMAIN items \/ <<u, v>> \in dropped
InlineHanded(u, n) ==
  /\ <<u, n>> \in inline
  /\ \A m \in DOMAIN Entries(<<u, n>>) : FollowedUp(<<u, n>>, m)
LinkHanded(u, v) ==
  \/ PageKey(v) \in DOMAIN items
  \/ <<u, v>> \in dropped
  \/ Cardinality(PagesOf(HostOf[v])) >= Budget

AtHosts == {"hosts", "probe"}
AtHints == {"hints", "hit", "catalog"}
AtInline == {"inline", "nested"}

\* What the handler of k, at place n of the list that stage p goes through, has
\* handed on: the lists of the earlier stages, and this one up to n.
Handed(k, p, n) ==
  LET u == k.of
  IN  /\ \A j \in DOMAIN Hosts[u] :
           HostHanded(u, Hosts[u][j]) \/ p = "start" \/ (p \in AtHosts /\ n <= j)
      /\ \A j \in DOMAIN Hints[u] :
           HintHanded(u, Hints[u][j]) \/ p \in {"start"} \union AtHosts \/ (p \in AtHints /\ n <= j)
      /\ \A j \in DOMAIN Candidates[u] :
           \/ InlineHanded(u, j)
           \/ p \in {"start"} \union AtHosts \union AtHints
           \/ p \in AtInline /\ n <= j
      /\ p = "nested" => <<u, n>> \in inline
      /\ FollowsLinks(k) => \A j \in DOMAIN Links[u] :
           \/ LinkHanded(u, Links[u][j])
           \/ p \in {"start"} \union AtHosts \union AtHints \union AtInline
           \/ p = "links" /\ n <= j

HarvestInv ==
  /\ \A k \in DOMAIN work :
       k.kind = "page" /\ k.of \in Readable => Handed(k, work[k].pc, work[k].i)
  /\ \A k \in DOMAIN items :
       k.kind = "page" /\ items[k].status = "done" /\ k.of \in Readable => Handed(k, "end", 1)

\* What was handed on stays so.
Grows ==
  /\ DOMAIN items \subseteq DOMAIN items' /\ IsFiniteSet(PageRows')
  /\ dropped \subseteq dropped' /\ inline \subseteq inline' /\ grown \subseteq grown'

LEMMA GrowsAlways ==
  ASSUME TypeOK, WorkInv, [Next]_vars
  PROVE  Grows
<1>1. IsFiniteSet(PageRows')
  BY TypeStep DEF TypeOK
<1>2. ASSUME NEW k \in DOMAIN items, Works(k)
      PROVE  Grows
  BY <1>1, <1>2, WorksStep DEF Grows, Keeps, Extends
<1>3. CASE Answers
  BY <1>1, <1>3, AnswerRows DEF Grows, SameRows
<1>4. CASE UNCHANGED vars
  BY <1>1, <1>4 DEF Grows, vars
<1> QED BY <1>2, <1>3, <1>4, StepCases

LEMMA PagesGrow ==
  ASSUME Grows, NEW h
  PROVE  Cardinality(PagesOf(h)) >= Budget => Cardinality(PagesOf(h)') >= Budget
<1>1. PagesOf(h) \subseteq PagesOf(h)' /\ PagesOf(h)' \subseteq PageRows'
  BY DEF Grows, PagesOf, PageRows
<1>2. IsFiniteSet(PagesOf(h)')
  BY <1>1, FS_Subset DEF Grows
<1>3. /\ Cardinality(PagesOf(h)) \in Nat /\ Cardinality(PagesOf(h)') \in Nat
      /\ Cardinality(PagesOf(h)) <= Cardinality(PagesOf(h)')
  BY <1>1, <1>2, FS_Subset, FS_CardinalityType
<1>4. Budget \in Nat
  BY LimitsAssumption
<1> QED BY <1>3, <1>4

LEMMA HandedStays ==
  ASSUME Grows, NEW k \in DOMAIN items, NEW p, NEW n, Handed(k, p, n),
         items'[k].depth = items[k].depth
  PROVE  Handed(k, p, n)'
<1>1. \A u, h : HostHanded(u, h) => HostHanded(u, h)'
  BY DEF Grows, HostHanded
<1>2. \A u, v : HintHanded(u, v) => HintHanded(u, v)'
  BY DEF Grows, HintHanded
<1>3. \A u, j : InlineHanded(u, j) => InlineHanded(u, j)'
  <2>1. \A doc, m : FollowedUp(doc, m) => FollowedUp(doc, m)'
    BY DEF Grows, FollowedUp
  <2> QED BY <2>1 DEF Grows, InlineHanded
<1>4. \A u, v : LinkHanded(u, v) => LinkHanded(u, v)'
  <2> SUFFICES ASSUME NEW u, NEW v, LinkHanded(u, v) PROVE LinkHanded(u, v)'
    OBVIOUS
  <2>1. PICK h : h = HostOf[v]
    OBVIOUS
  <2>2. Cardinality(PagesOf(h)) >= Budget => Cardinality(PagesOf(h)') >= Budget
    BY PagesGrow
  <2> QED BY <2>1, <2>2 DEF Grows, LinkHanded
<1>5. FollowsLinks(k)' <=> FollowsLinks(k)
  BY DEF FollowsLinks
<1>6. <<k.of, n>> \in inline => <<k.of, n>> \in inline'
  BY DEF Grows
<1> QED BY <1>1, <1>2, <1>3, <1>4, <1>5, <1>6 DEF Handed

\* From one stage to the next: a stage is over when its list is.
LEMMA Stages ==
  ASSUME NEW k, k.of \in Pages, NEW m \in Nat \ {0}
  PROVE  /\ Handed(k, "start", m)
         /\ Handed(k, "hosts", 1)
         /\ Handed(k, "hosts", m) => Handed(k, "probe", m)
         /\ Handed(k, "hosts", m) /\ m > Len(Hosts[k.of]) => Handed(k, "hints", 1)
         /\ Handed(k, "hints", m) => Handed(k, "hit", m)
         /\ Handed(k, "hit", m) => Handed(k, "catalog", m)
         /\ Handed(k, "hints", m) /\ m > Len(Hints[k.of]) => Handed(k, "inline", 1)
         /\ Handed(k, "inline", m) /\ m > Len(Candidates[k.of]) => Handed(k, "links", 1)
         /\ Handed(k, "links", m) /\ (~FollowsLinks(k) \/ m > Len(Links[k.of])) => Handed(k, "end", 1)
<1> DEFINE u == k.of
<1>1. /\ DOMAIN Hosts[u] = 1..Len(Hosts[u]) /\ Len(Hosts[u]) \in Nat
      /\ DOMAIN Hints[u] = 1..Len(Hints[u]) /\ Len(Hints[u]) \in Nat
      /\ DOMAIN Candidates[u] = 1..Len(Candidates[u]) /\ Len(Candidates[u]) \in Nat
      /\ DOMAIN Links[u] = 1..Len(Links[u]) /\ Len(Links[u]) \in Nat
  BY Lists
<1>2. \A j \in Nat, l \in Nat : j \in 1..l => 1 <= j /\ (m > l => ~(m <= j))
  OBVIOUS
<1>3. /\ \A j \in DOMAIN Hosts[u] : 1 <= j /\ (m > Len(Hosts[u]) => ~(m <= j))
      /\ \A j \in DOMAIN Hints[u] : 1 <= j /\ (m > Len(Hints[u]) => ~(m <= j))
      /\ \A j \in DOMAIN Candidates[u] : 1 <= j /\ (m > Len(Candidates[u]) => ~(m <= j))
      /\ \A j \in DOMAIN Links[u] : 1 <= j /\ (m > Len(Links[u]) => ~(m <= j))
  BY <1>1, <1>2
<1>4. Handed(k, "start", m) /\ Handed(k, "hosts", 1)
  BY <1>3 DEF Handed, AtHosts, AtHints, AtInline
<1>5. Handed(k, "hosts", m) => Handed(k, "probe", m)
  BY DEF Handed, AtHosts, AtHints, AtInline
<1>6. Handed(k, "hosts", m) /\ m > Len(Hosts[k.of]) => Handed(k, "hints", 1)
  BY <1>3 DEF Handed, AtHosts, AtHints, AtInline
<1>7. /\ Handed(k, "hints", m) => Handed(k, "hit", m)
      /\ Handed(k, "hit", m) => Handed(k, "catalog", m)
  BY DEF Handed, AtHosts, AtHints, AtInline
<1>8. Handed(k, "hints", m) /\ m > Len(Hints[k.of]) => Handed(k, "inline", 1)
  BY <1>3 DEF Handed, AtHosts, AtHints, AtInline
<1>9. Handed(k, "inline", m) /\ m > Len(Candidates[k.of]) => Handed(k, "links", 1)
  BY <1>3 DEF Handed, AtHosts, AtHints, AtInline
<1>10. Handed(k, "links", m) /\ (~FollowsLinks(k) \/ m > Len(Links[k.of])) => Handed(k, "end", 1)
  BY <1>3 DEF Handed, AtHosts, AtHints, AtInline
<1> QED BY <1>4, <1>5, <1>6, <1>7, <1>8, <1>9, <1>10

\* Within a stage: the next place, once this one's entry is handed on.
LEMMA Places ==
  ASSUME NEW k, k.of \in Pages, NEW m \in Nat \ {0}
  PROVE  /\ Handed(k, "hosts", m)' /\ HostHanded(k.of, Hosts[k.of][m])' => Handed(k, "hosts", m + 1)'
         /\ Handed(k, "probe", m)' /\ HostHanded(k.of, Hosts[k.of][m])' => Handed(k, "hosts", m + 1)'
         /\ Handed(k, "hints", m)' /\ HintHanded(k.of, Hints[k.of][m])' => Handed(k, "hints", m + 1)'
         /\ Handed(k, "catalog", m)' /\ HintHanded(k.of, Hints[k.of][m])' => Handed(k, "hints", m + 1)'
         /\ Handed(k, "inline", m)' /\ <<k.of, m>> \in inline' => Handed(k, "nested", m)'
         /\ Handed(k, "inline", m)' /\ InlineHanded(k.of, m)' => Handed(k, "inline", m + 1)'
         /\ Handed(k, "nested", m)' /\ InlineHanded(k.of, m)' => Handed(k, "inline", m + 1)'
         /\ Handed(k, "links", m)' /\ LinkHanded(k.of, Links[k.of][m])' => Handed(k, "links", m + 1)'
<1> DEFINE u == k.of
<1>1. /\ DOMAIN Hosts[u] \subseteq Nat /\ DOMAIN Hints[u] \subseteq Nat
      /\ DOMAIN Candidates[u] \subseteq Nat /\ DOMAIN Links[u] \subseteq Nat
  BY Lists
<1>2. \A j \in Nat : m <= j => j = m \/ m + 1 <= j
  OBVIOUS
<1>3. /\ Handed(k, "hosts", m)' /\ HostHanded(k.of, Hosts[k.of][m])' => Handed(k, "hosts", m + 1)'
      /\ Handed(k, "probe", m)' /\ HostHanded(k.of, Hosts[k.of][m])' => Handed(k, "hosts", m + 1)'
  BY <1>1, <1>2 DEF Handed, AtHosts, AtHints, AtInline
<1>4. /\ Handed(k, "hints", m)' /\ HintHanded(k.of, Hints[k.of][m])' => Handed(k, "hints", m + 1)'
      /\ Handed(k, "catalog", m)' /\ HintHanded(k.of, Hints[k.of][m])' => Handed(k, "hints", m + 1)'
  BY <1>1, <1>2 DEF Handed, AtHosts, AtHints, AtInline
<1>5. Handed(k, "inline", m)' /\ <<k.of, m>> \in inline' => Handed(k, "nested", m)'
  BY DEF Handed, AtHosts, AtHints, AtInline
<1>6. /\ Handed(k, "inline", m)' /\ InlineHanded(k.of, m)' => Handed(k, "inline", m + 1)'
      /\ Handed(k, "nested", m)' /\ InlineHanded(k.of, m)' => Handed(k, "inline", m + 1)'
  BY <1>1, <1>2 DEF Handed, AtHosts, AtHints, AtInline
<1>7. Handed(k, "links", m)' /\ LinkHanded(k.of, Links[k.of][m])' => Handed(k, "links", m + 1)'
  BY <1>1, <1>2 DEF Handed, AtHosts, AtHints, AtInline
<1> QED BY <1>3, <1>4, <1>5, <1>6, <1>7

\* The handler hands on what it comes to.
LEMMA HandsOn ==
  ASSUME TypeOK, WorkInv, FanOutInv, Grows, MaxCatalogDepth > 0,
         NEW k \in DOMAIN items, Works(k), k.kind = "page", k.of \in Readable,
         Handed(k, work[k].pc, work[k].i)
  PROVE  \E p, n : Move(k, p, n) /\ Handed(k, p, n)'
<1>1. k \in DOMAIN work /\ k.of \in Pages /\ work[k].i \in Nat \ {0} /\ ~Finished(k)
  BY WorksStep, Moves, SiteAssumption, Statuses DEF WorkInv
<1>2. PICK m \in Nat \ {0} : m = work[k].i
  BY <1>1
<1>3. PICK q : q = work[k].pc
  OBVIOUS
<1>4. items'[k].depth = items[k].depth
  BY <1>1, WorksStep DEF Keeps, Extends
<1>5. ASSUME NEW p, NEW n, Handed(k, p, n)
      PROVE  Handed(k, p, n)'
  BY <1>4, <1>5, HandedStays
<1>6. Handed(k, q, m) /\ Handed(k, q, m)'
  BY <1>2, <1>3, <1>5
<1>7. ASSUME NEW p, NEW n, Move(k, p, n), Handed(k, p, n) \/ Handed(k, p, n)'
      PROVE  \E x, y : Move(k, x, y) /\ Handed(k, x, y)'
  BY <1>5, <1>7
<1>8. CASE FetchPage(k)
  <2>1. Move(k, "hosts", 1)
    BY <1>8, FetchPageStep
  <2> QED BY <1>1, <1>7, <2>1, Stages
<1>9. CASE UpsertHost(k)
  <2>1. /\ q = "hosts"
        /\ \/ m > Len(Hosts[k.of]) /\ Move(k, "hints", 1)
           \/ Move(k, "probe", m)
           \/ Move(k, "hosts", m + 1) /\ <<k.of, Hosts[k.of][m]>> \in dropped'
    BY <1>2, <1>3, <1>9, UpsertHostStep
  <2>2. <<k.of, Hosts[k.of][m]>> \in dropped' => HostHanded(k.of, Hosts[k.of][m])'
    BY DEF HostHanded
  <2>3. CASE m > Len(Hosts[k.of]) /\ Move(k, "hints", 1)
    BY <1>1, <1>6, <1>7, <2>1, <2>3, Stages
  <2>4. CASE Move(k, "probe", m)
    BY <1>1, <1>6, <1>7, <2>1, <2>4, Stages
  <2>5. CASE Move(k, "hosts", m + 1) /\ <<k.of, Hosts[k.of][m]>> \in dropped'
    BY <1>1, <1>6, <1>7, <2>1, <2>2, <2>5, Places
  <2> QED BY <2>1, <2>3, <2>4, <2>5
<1>10. CASE EnqueueProbe(k)
  <2>1. q = "probe" /\ Move(k, "hosts", m + 1) /\ ProbeKey(Hosts[k.of][m]) \in DOMAIN items'
    BY <1>2, <1>3, <1>10, EnqueueProbeStep
  <2>2. HostHanded(k.of, Hosts[k.of][m])'
    BY <2>1 DEF HostHanded
  <2> QED BY <1>1, <1>6, <1>7, <2>1, <2>2, Places
<1>11. CASE UpsertHintHost(k)
  <2>1. /\ q = "hints"
        /\ \/ m > Len(Hints[k.of]) /\ Move(k, "inline", 1)
           \/ Move(k, "hit", m)
           \/ Move(k, "hints", m + 1) /\ <<k.of, Hints[k.of][m]>> \in dropped'
    BY <1>2, <1>3, <1>11, UpsertHintHostStep
  <2>2. <<k.of, Hints[k.of][m]>> \in dropped' => HintHanded(k.of, Hints[k.of][m])'
    BY DEF HintHanded
  <2>3. CASE m > Len(Hints[k.of]) /\ Move(k, "inline", 1)
    BY <1>1, <1>6, <1>7, <2>1, <2>3, Stages
  <2>4. CASE Move(k, "hit", m)
    BY <1>1, <1>6, <1>7, <2>1, <2>4, Stages
  <2>5. CASE Move(k, "hints", m + 1) /\ <<k.of, Hints[k.of][m]>> \in dropped'
    BY <1>1, <1>6, <1>7, <2>1, <2>2, <2>5, Places
  <2> QED BY <2>1, <2>3, <2>4, <2>5
<1>12. CASE RecordHit(k)
  <2>1. q = "hit" /\ Move(k, "catalog", m)
    BY <1>2, <1>3, <1>12, RecordHitStep
  <2> QED BY <1>1, <1>6, <1>7, <2>1, Stages
<1>13. CASE EnqueueHinted(k)
  <2>1. q = "catalog" /\ Move(k, "hints", m + 1) /\ CatalogKey(Hints[k.of][m], <<>>) \in DOMAIN items'
    BY <1>2, <1>3, <1>13, EnqueueHintedStep
  <2>2. HintHanded(k.of, Hints[k.of][m])'
    BY <2>1 DEF HintHanded
  <2> QED BY <1>1, <1>6, <1>7, <2>1, <2>2, Places
<1>14. CASE SaveInline(k)
  <2>1. /\ q = "inline"
        /\ \/ m > Len(Candidates[k.of]) /\ Move(k, "links", 1)
           \/ Move(k, "nested", m) /\ <<k.of, m>> \in inline'
           \/ /\ m <= Len(Candidates[k.of]) /\ Move(k, "inline", m + 1)
              /\ <<k.of, m>> \in grown /\ <<k.of, m>> \in inline'
    BY <1>2, <1>3, <1>14, SaveInlineStep
  <2>2. CASE m > Len(Candidates[k.of]) /\ Move(k, "links", 1)
    BY <1>1, <1>6, <1>7, <2>1, <2>2, Stages
  <2>3. CASE Move(k, "nested", m) /\ <<k.of, m>> \in inline'
    BY <1>1, <1>6, <1>7, <2>1, <2>3, Places
  <2>4. CASE /\ m <= Len(Candidates[k.of]) /\ Move(k, "inline", m + 1)
             /\ <<k.of, m>> \in grown /\ <<k.of, m>> \in inline'
    <3>1. m \in DOMAIN Candidates[k.of]
      BY <1>1, <2>4, Lists
    <3>2. \A n \in DOMAIN Entries(<<k.of, m>>) : FollowedUp(<<k.of, m>>, n)
      BY <1>1, <2>4, <3>1, GivenUp
    <3>3. InlineHanded(k.of, m)'
      BY <2>4, <3>2 DEF InlineHanded, Grows, FollowedUp
    <3> QED BY <1>1, <1>6, <1>7, <2>1, <2>4, <3>3, Places
  <2> QED BY <2>1, <2>2, <2>3, <2>4
<1>15. CASE FollowInline(k)
  <2> DEFINE doc == <<k.of, m>>
  <2>1. /\ q = "nested" /\ m \in DOMAIN Candidates[k.of] /\ work[k].j \in Nat \ {0}
        /\ \/ work[k].j > Len(Entries(doc)) /\ Move(k, "inline", m + 1)
           \/ Move(k, "nested", m)
    BY <1>1, <1>2, <1>3, <1>15, FollowInlineStep, Moves
  <2>2. CASE Move(k, "nested", m)
    BY <1>6, <1>7, <2>1, <2>2
  <2>3. CASE work[k].j > Len(Entries(doc)) /\ Move(k, "inline", m + 1)
    <3>1. doc \in inline
      BY <1>6, <2>1 DEF Handed
    <3>2. \A n \in 1..(work[k].j - 1) : FollowUpKey(doc, n) \in DOMAIN items
      BY <1>1, <1>2, <1>3, <2>1 DEF FanOutInv
    <3>3. DOMAIN Entries(doc) = 1..Len(Entries(doc)) /\ Len(Entries(doc)) \in Nat
      BY <1>1, <2>1, EntryList
    <3>4. \A n \in DOMAIN Entries(doc) : n \in 1..(work[k].j - 1)
      BY <2>1, <2>3, <3>3
    <3>5. \A n \in DOMAIN Entries(doc) : FollowUpKey(doc, n) \in DOMAIN items'
      BY <3>2, <3>4 DEF Grows
    <3>6. InlineHanded(k.of, m)'
      BY <3>1, <3>5 DEF InlineHanded, Grows, FollowedUp
    <3> QED BY <1>1, <1>6, <1>7, <2>1, <2>3, <3>6, Places
  <2> QED BY <2>1, <2>2, <2>3
<1>16. CASE FollowLink(k)
  <2>1. PICK u : u = Links[k.of][m]
    OBVIOUS
  <2>2. /\ q = "links"
        /\ \/ Move(k, "end", 1) /\ (~FollowsLinks(k) \/ m > Len(Links[k.of]))
           \/ /\ Move(k, "links", m + 1)
              /\ PageKey(u) \in DOMAIN items' \/ <<k.of, u>> \in dropped'
                 \/ (UNCHANGED items /\ ~WithinBudget(PageKey(u)))
    BY <1>1, <1>2, <1>3, <1>16, <2>1, FollowLinkStep
  <2>3. UNCHANGED items /\ ~WithinBudget(PageKey(u)) => LinkHanded(k.of, u)'
    <3> SUFFICES ASSUME UNCHANGED items, ~WithinBudget(PageKey(u)) PROVE LinkHanded(k.of, u)'
      OBVIOUS
    <3>1. PagesOf(HostOf[u])' = PagesOf(HostOf[u]) /\ IsFiniteSet(PagesOf(HostOf[u]))
      BY FS_Subset DEF PagesOf, TypeOK, PageRows
    <3>2. Cardinality(PagesOf(HostOf[u])) \in Nat /\ Budget \in Nat
      BY <3>1, FS_CardinalityType, LimitsAssumption
    <3>3. ~(Cardinality(PagesOf(HostOf[u])) < Budget)
      BY DEF WithinBudget, PageKey
    <3> QED BY <3>1, <3>2, <3>3 DEF LinkHanded
  <2>4. PageKey(u) \in DOMAIN items' \/ <<k.of, u>> \in dropped' => LinkHanded(k.of, u)'
    BY DEF LinkHanded
  <2>5. CASE Move(k, "end", 1) /\ (~FollowsLinks(k) \/ m > Len(Links[k.of]))
    BY <1>1, <1>6, <1>7, <2>2, <2>5, Stages
  <2>6. CASE Move(k, "links", m + 1) /\ LinkHanded(k.of, u)'
    BY <1>1, <1>6, <1>7, <2>1, <2>2, <2>6, Places
  <2> QED BY <2>2, <2>3, <2>4, <2>5, <2>6
<1>17. ~ProbeHost(k) /\ ~FetchCatalog(k) /\ ~HarvestRegistry(k)
  BY DEF ProbeHost, FetchCatalog, HarvestRegistry
<1> QED BY <1>8, <1>9, <1>10, <1>11, <1>12, <1>13, <1>14, <1>15, <1>16, <1>17 DEF Works

LEMMA HarvestStep ==
  ASSUME TypeOK, WorkInv, FanOutInv, HarvestInv, [Next]_vars, MaxCatalogDepth > 0
  PROVE  HarvestInv'
<1>1. Grows
  BY GrowsAlways
<1>2. /\ \A k \in DOMAIN work :
           k.kind = "page" /\ k.of \in Readable => Handed(k, work[k].pc, work[k].i)
      /\ \A k \in DOMAIN items :
           k.kind = "page" /\ items[k].status = "done" /\ k.of \in Readable => Handed(k, "end", 1)
  BY DEF HarvestInv
<1>3. /\ work \in [DOMAIN work -> Call] /\ items \in [DOMAIN items -> Row]
      /\ DOMAIN work \subseteq DOMAIN items
  BY DEF TypeOK, WorkInv
<1>4. ASSUME NEW k \in DOMAIN items, NEW p, NEW n, Handed(k, p, n), items'[k].depth = items[k].depth
      PROVE  Handed(k, p, n)'
  BY <1>1, <1>4, HandedStays
<1>5. ASSUME \A k \in DOMAIN work' : \A p, n :
               k.kind = "page" /\ k.of \in Readable /\ work'[k].pc = p /\ work'[k].i = n =>
                 Handed(k, p, n)',
             \A k \in DOMAIN items' :
               k.kind = "page" /\ items'[k].status = "done" /\ k.of \in Readable => Handed(k, "end", 1)'
      PROVE  HarvestInv'
  <2>1. ASSUME NEW k \in DOMAIN work', k.kind = "page", k.of \in Readable
        PROVE  Handed(k, work[k].pc, work[k].i)'
    <3>1. PICK p : p = work'[k].pc
      OBVIOUS
    <3>2. PICK n : n = work'[k].i
      OBVIOUS
    <3>3. Handed(k, p, n)'
      BY <1>5, <2>1, <3>1, <3>2
    <3> QED BY <3>1, <3>2, <3>3 DEF Handed
  <2> QED BY <1>5, <2>1 DEF HarvestInv
<1>6. ASSUME NEW k \in DOMAIN items, Works(k)
      PROVE  HarvestInv'
  <2>1. k \in DOMAIN work /\ Extends(items')
    BY <1>6, WorksStep DEF Keeps
  <2>2. \E p, n : Move(k, p, n) /\ (k.kind = "page" /\ k.of \in Readable => Handed(k, p, n)')
    <3>1. CASE k.kind = "page" /\ k.of \in Readable
      BY <1>1, <1>2, <1>6, <2>1, <3>1, HandsOn
    <3>2. CASE ~(k.kind = "page" /\ k.of \in Readable)
      BY <1>6, <3>2, WorksStep DEF Onward
    <3> QED BY <3>1, <3>2
  <2>3. PICK p, n : Move(k, p, n) /\ (k.kind = "page" /\ k.of \in Readable => Handed(k, p, n)')
    BY <2>2
  <2>4. /\ DOMAIN work' = DOMAIN work /\ work'[k].pc = p /\ work'[k].i = n
        /\ \A x \in DOMAIN work : x # k => work'[x] = work[x]
    <3>0. PICK m \in Nat \ {0} : MoveTo(k, p, n, m)
      BY <2>3 DEF Move
    <3> DEFINE c == [pc |-> p, i |-> n, j |-> m]
    <3>1. work' = [work EXCEPT ![k] = c] /\ c.pc = p /\ c.i = n
      BY <3>0 DEF MoveTo
    <3> HIDE DEF c
    <3> QED BY <1>3, <2>1, <3>1
  <2>5. \A x \in DOMAIN work : ~Finished(x)
    BY <1>3, Statuses DEF WorkInv
  <2>6. ASSUME NEW x \in DOMAIN work', NEW q, NEW m, x.kind = "page", x.of \in Readable,
               work'[x].pc = q, work'[x].i = m
        PROVE  Handed(x, q, m)'
    <3>1. CASE x = k
      BY <2>3, <2>4, <2>6, <3>1
    <3>2. CASE x # k
      <4>1. Handed(x, q, m)
        BY <1>2, <2>4, <2>6, <3>2
      <4>2. x \in DOMAIN items /\ items'[x].depth = items[x].depth
        BY <1>3, <2>1, <2>4, <2>5 DEF Extends
      <4> QED BY <1>4, <4>1, <4>2
    <3> QED BY <3>1, <3>2
  <2>7. ASSUME NEW x \in DOMAIN items', x.kind = "page", items'[x].status = "done", x.of \in Readable
        PROVE  Handed(x, "end", 1)'
    <3>1. x \in DOMAIN items /\ items[x].status = "done" /\ items'[x].depth = items[x].depth
      BY <2>1, <2>7 DEF Extends
    <3> QED BY <1>2, <1>4, <2>7, <3>1
  <2> QED BY <1>5, <2>6, <2>7
<1>7. ASSUME SameRows(items'),
             \A x \in DOMAIN work' :
               (x \in DOMAIN work /\ work'[x] = work[x]) \/ work'[x] = Started,
             \A x \in DOMAIN items : items'[x].status = "done" =>
               items[x].status = "done" \/ (x \in DOMAIN work /\ work[x].pc = "end"),
             DOMAIN work' \subseteq DOMAIN items
      PROVE  HarvestInv'
  <2>1. ASSUME NEW x \in DOMAIN work', NEW q, NEW m, x.kind = "page", x.of \in Readable,
               work'[x].pc = q, work'[x].i = m
        PROVE  Handed(x, q, m)'
    <3>1. x.of \in Pages /\ items'[x].depth = items[x].depth
      BY <1>7, <2>1, SiteAssumption DEF SameRows
    <3>2. Handed(x, "start", 1)
      BY <3>1, Stages
    <3>3. Handed(x, q, m)
      BY <1>2, <1>7, <2>1, <3>2 DEF Started
    <3> QED BY <1>4, <1>7, <3>1, <3>3
  <2>2. ASSUME NEW x \in DOMAIN items', x.kind = "page", items'[x].status = "done", x.of \in Readable
        PROVE  Handed(x, "end", 1)'
    <3>1. x \in DOMAIN items /\ items'[x].depth = items[x].depth
      BY <1>7 DEF SameRows
    <3>2. CASE items[x].status = "done"
      BY <1>2, <1>4, <2>2, <3>1, <3>2
    <3>3. CASE x \in DOMAIN work /\ work[x].pc = "end"
      <4>1. Handed(x, "end", work[x].i)
        BY <1>2, <2>2, <3>3
      <4>2. Handed(x, "end", 1)
        BY <4>1 DEF Handed, AtHosts, AtHints, AtInline
      <4> QED BY <1>4, <3>1, <4>2
    <3> QED BY <1>7, <2>2, <3>1, <3>2, <3>3
  <2> QED BY <1>5, <2>1, <2>2
<1>8. ASSUME NEW k \in DOMAIN items, Dequeue(k)
      PROVE  HarvestInv'
  <2>1. /\ SameRows(items') /\ items'[k].status = "in_flight"
        /\ \A x \in DOMAIN items : x # k => items'[x] = items[x]
        /\ DOMAIN work' = DOMAIN work \union {k} /\ work'[k] = Started
        /\ \A x \in DOMAIN work : x # k => work'[x] = work[x]
    BY <1>8, DequeueStep
  <2> QED BY <1>3, <1>7, <2>1
<1>9. ASSUME NEW k \in DOMAIN items, Complete(k) \/ HandlerFails(k) \/ ProbeInconclusive(k)
      PROVE  HarvestInv'
  <2>1. /\ SameRows(items') /\ k \in DOMAIN work
        /\ work[k].pc = "end" \/ items'[k].status # "done"
        /\ \A x \in DOMAIN items : x # k => items'[x] = items[x]
        /\ DOMAIN work' = DOMAIN work \ {k}
        /\ \A x \in DOMAIN work : x # k => work'[x] = work[x]
    BY <1>9, LeaveStep
  <2> QED BY <1>3, <1>7, <2>1
<1>10. CASE CrashRestart
  <2>1. /\ SameRows(items') /\ DOMAIN work' = {}
        /\ \A x \in DOMAIN items : items'[x] = items[x] \/ items'[x].status = "pending"
    BY <1>10, CrashStep
  <2> QED BY <1>7, <2>1
<1>11. CASE UNCHANGED vars
  <2>1. SameRows(items') /\ UNCHANGED <<items, work>>
    BY <1>11 DEF vars, SameRows, TypeOK
  <2> QED BY <1>3, <1>7, <2>1
<1> QED BY <1>6, <1>8, <1>9, <1>10, <1>11, StepCases DEF Answers

-----------------------------------------------------------------------------
(* The theorems.                                                           *)

Inv == TypeOK /\ WorkInv /\ DepthIsDistance /\ KnownInv

LEMMA InitInv ==
  ASSUME IsFiniteSet(Seeds), Init
  PROVE  Inv /\ FanOutInv /\ HarvestInv
<1>1. DOMAIN items = {PageKey(u) : u \in Seeds} /\ DOMAIN work = {}
  BY DEF Init
<1>2. NewItem(0) \in Row /\ NewItem(0).depth = 0 /\ NewItem(0).status = "pending"
  BY DEF NewItem, Row
<1>3. \A k \in DOMAIN items : items[k] = NewItem(0) /\ k.kind = "page" /\ k.of \in Seeds
  BY DEF Init, PageKey
<1>4. TypeOK
  <2> DEFINE f == [u \in Seeds |-> PageKey(u)]
  <2>1. f \in Surjection(Seeds, DOMAIN items)
    BY <1>1 DEF Surjection
  <2>2. IsFiniteSet(DOMAIN items)
    BY <2>1, FS_Surjection
  <2>3. IsFiniteSet(PageRows)
    BY <2>2, FS_Subset DEF PageRows
  <2>4. items \in [DOMAIN items -> Row]
    BY <1>2, <1>3 DEF Init
  <2>5. work \in [DOMAIN work -> Call]
    BY DEF Init
  <2> QED BY <1>3, <2>3, <2>4, <2>5, SiteAssumption DEF TypeOK
<1>5. WorkInv
  BY <1>1 DEF WorkInv
<1>6. DepthIsDistance
  <2>1. 0 \in 0..MaxDepth
    BY LimitsAssumption
  <2>2. Walks[0] = Seeds
    BY <2>1, WalksAre
  <2> QED BY <1>2, <1>3, <2>1, <2>2 DEF DepthIsDistance
<1>7. KnownInv
  BY <1>1, <1>2, <1>3 DEF KnownInv, UnprobedOnlyForHint, Init
<1>8. FanOutInv
  <2>1. \A k \in DOMAIN items : k.kind # "registry"
    BY <1>3
  <2>2. \A doc \in Docs, n \in Nat : ~Named(doc, n)
    BY <2>1 DEF Named, RegistryEntry, FollowUpKey
  <2> QED BY <1>1, <2>1, <2>2 DEF FanOutInv, Init
<1>9. HarvestInv
  BY <1>1, <1>2, <1>3 DEF HarvestInv
<1> QED BY <1>4, <1>5, <1>6, <1>7, <1>8, <1>9 DEF Inv

LEMMA NextInv ==
  ASSUME Inv, [Next]_vars
  PROVE  Inv'
BY TypeStep, WorkStep, DepthStep, KnownStep DEF Inv

\* However often a page is enqueued again, from wherever, its row's depth is
\* the length of a walk to it from a seed, and within the limit.
THEOREM DepthIsOfAWalk ==
  ASSUME IsFiniteSet(Seeds)
  PROVE  Spec => []DepthIsDistance
<1>1. Init => Inv
  BY InitInv
<1>2. Inv /\ [Next]_vars => Inv'
  BY NextInv
<1>3. Inv => DepthIsDistance
  BY DEF Inv
<1> QED BY <1>1, <1>2, <1>3, PTL DEF Spec

\* A host_probe that is done has tried the host's well-known paths, unless a
\* page's hint named a catalog on the host.
THEOREM OnlyHintsStopProbes ==
  ASSUME IsFiniteSet(Seeds)
  PROVE  Spec => []UnprobedOnlyForHint
<1>1. Init => Inv
  BY InitInv
<1>2. Inv /\ [Next]_vars => Inv'
  BY NextInv
<1>3. Inv => UnprobedOnlyForHint
  BY DEF Inv, KnownInv
<1> QED BY <1>1, <1>2, <1>3, PTL DEF Spec

LEMMA HarvestIsComplete ==
  ASSUME TypeOK, HarvestInv
  PROVE  HarvestComplete
<1> SUFFICES ASSUME NEW k \in DOMAIN items,
                    k.kind = "page", items[k].status = "done", k.of \in Readable
             PROVE  /\ \A h \in Range(Hosts[k.of]) : HostHanded(k.of, h)
                    /\ \A u \in Range(Hints[k.of]) : HintHanded(k.of, u)
                    /\ \A n \in DOMAIN Candidates[k.of] : InlineHanded(k.of, n)
                    /\ FollowsLinks(k) => \A u \in Anchors(k.of) : LinkHanded(k.of, u)
  BY DEF HarvestComplete, HostHanded, HintHanded, InlineHanded, LinkHanded
<1>1. Handed(k, "end", 1)
  BY DEF HarvestInv
<1>2. /\ \A j \in DOMAIN Hosts[k.of] : HostHanded(k.of, Hosts[k.of][j])
      /\ \A j \in DOMAIN Hints[k.of] : HintHanded(k.of, Hints[k.of][j])
      /\ \A j \in DOMAIN Candidates[k.of] : InlineHanded(k.of, j)
      /\ FollowsLinks(k) => \A j \in DOMAIN Links[k.of] : LinkHanded(k.of, Links[k.of][j])
  BY <1>1 DEF Handed, AtHosts, AtHints, AtInline
<1>3. Range(Links[k.of]) = Anchors(k.of)
  BY Lists, SiteAssumption
<1> QED BY <1>2, <1>3 DEF Range

\* A page's item completes only when the page has handed on what it holds,
\* whatever failed or died on the way: all but the entries of an inline catalog
\* behind one whose registry was harvested before the fan-out was through.
THEOREM NothingOnThePageIsLost ==
  ASSUME IsFiniteSet(Seeds), MaxCatalogDepth > 0
  PROVE  Spec => []HarvestComplete
<1>1. Init => Inv /\ FanOutInv /\ HarvestInv
  BY InitInv
<1>2. Inv /\ FanOutInv /\ HarvestInv /\ [Next]_vars => (Inv /\ FanOutInv /\ HarvestInv)'
  BY NextInv, FanOutStep, HarvestStep DEF Inv
<1>3. Inv /\ FanOutInv /\ HarvestInv => HarvestComplete
  BY HarvestIsComplete DEF Inv
<1> QED BY <1>1, <1>2, <1>3, PTL DEF Spec
=============================================================================
