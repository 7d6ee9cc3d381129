---------------------------- MODULE FanoutProofs ----------------------------
(***************************************************************************)
(* Proofs about Fanout, for any world of catalogs and registries, any      *)
(* limits and number of handlers.                                          *)
(*                                                                         *)
(* Rows are only ever appended, and the entries of a document are appended *)
(* together with its row: they stay the first entries of that catalog, so  *)
(* that the i-th row loaded back is the i-th entry of the document however *)
(* many results of registries follow.  A registry answers for a catalog    *)
(* only after the fan-out has come to the entry that names it.             *)
(***************************************************************************)
EXTENDS Fanout, FiniteSetTheorems, WellFoundedInduction, TLAPS

Entry == UNION {Range(list) : list \in Range(Document) \union Range(Results)}
URL == {e.url : e \in Entry} \union Catalogs \union Registries

CatalogRow == [url : Catalogs, parent : Nat]
EntryRecord == [catalog : Nat, from : Nat, kind : PointerKinds, url : URL]
RegistryRow == [entry : Nat, url : Registries, from : Nat]
Key == [kind : PointerKinds, url : URL, of : Nat]
Item == [status : {"pending", "in_flight", "done", "failed"}, depth : Nat]
Call == [pc : {"start", "entries", "results", "referrals", "ensure", "done"},
         i : Nat \ {0}, row : Nat, reg : Nat]

TypeOK ==
  /\ catalogs \in Seq(CatalogRow)
  /\ entries \in Seq(EntryRecord)
  /\ registries \in Seq(RegistryRow)
  /\ DOMAIN items \subseteq Key /\ items \in [DOMAIN items -> Item]
  /\ DOMAIN work \subseteq DOMAIN items /\ work \in [DOMAIN work -> Call]

\* The rows of catalog c among ents, in order; the i-th of them.
RowsOf(ents, c) == {e \in DOMAIN ents : ents[e].catalog = c}
RowOf(ents, c, i) ==
  CHOOSE e \in RowsOf(ents, c) : Cardinality({f \in RowsOf(ents, c) : f < e}) = i - 1

\* The n entries of the document of c are the rows b + 1, b + 2, ... and no
\* other row of c is before them; what is behind them is of registries.
Leads(ents, c, n, b) ==
  /\ \A i \in 1..n : b + i \in DOMAIN ents /\ ents[b + i].catalog = c /\ ents[b + i].from = 0
  /\ \A e \in RowsOf(ents, c) : e > b /\ (e > b + n => ents[e].from # 0)
Block(c, b) == Leads(entries, c, Len(Document[catalogs[c].url]), b)

RowsInv ==
  /\ \A c, d \in DOMAIN catalogs : catalogs[c] = catalogs[d] => c = d
  /\ \A r, s \in DOMAIN registries : registries[r] = registries[s] => r = s
  /\ \A c \in DOMAIN catalogs : catalogs[c].parent < c
  /\ \A c \in DOMAIN catalogs : \E b \in 0..Len(entries) : Block(c, b)
  /\ \A e \in DOMAIN entries : entries[e].catalog \in DOMAIN catalogs
  /\ \A r \in DOMAIN registries : registries[r].entry \in DOMAIN entries

KeysInv ==
  \A k \in DOMAIN items :
    /\ k.kind = "catalog" => k.url \in Catalogs /\ k.of \in {0} \union DOMAIN catalogs
    /\ k.kind = "registry" => k.of \in DOMAIN registries /\ k.url = registries[k.of].url

\* Where a handler can be, and the rows it holds there.
CatalogWork(k, w) ==
  /\ w.pc \in {"start", "entries", "ensure", "done"}
  /\ w.pc = "start" => w.i = 1
  /\ w.pc \in {"entries", "ensure"} => w.row \in Prior(k) /\ FollowsEntries(k)
  /\ w.pc = "ensure" =>
       /\ w.i \in DOMAIN Document[k.url] /\ Document[k.url][w.i].kind = "registry"
       /\ w.reg \in DOMAIN registries
       /\ registries[w.reg].entry = EntryRow(w.row, w.i)
       /\ registries[w.reg].url = Document[k.url][w.i].url

RegistryWork(k, w) ==
  /\ w.pc \in {"start", "results", "referrals", "ensure", "done"}
  /\ w.pc \in {"results", "referrals", "ensure"} =>
       \A j \in DOMAIN Results[k.url] :
         w.row + j \in DOMAIN entries /\ entries[w.row + j].catalog = OwnCatalog(k)
  /\ w.pc = "ensure" =>
       /\ w.reg \in DOMAIN registries
       /\ entries[registries[w.reg].entry].catalog = OwnCatalog(k)

WorkInv ==
  \A k \in DOMAIN work :
    /\ items[k].status = "in_flight"
    /\ k.kind = "catalog" => CatalogWork(k, work[k])
    /\ k.kind = "registry" => RegistryWork(k, work[k])
    /\ k.kind = "artifact" => work[k].pc \in {"start", "done"}

\* What has been followed up.
Reached(c) ==
  LET list == Document[catalogs[c].url]
  IN  \E j \in DOMAIN list : list[j].kind = "registry" /\ \A i \in 1..j : FollowedUp(c, i)
Kept(c, i) ==
  LET list == Document[catalogs[c].url]
  IN  FollowedUp(c, i) \/ (Harvested(c) /\ \E j \in 1..(i - 1) : list[j].kind = "registry")
AllKept(k) == \A c \in Prior(k) : \A i \in DOMAIN Document[k.url] : Kept(c, i)

FollowedTo(k, w) == \A i \in DOMAIN Document[k.url] : i < w.i => FollowedUp(w.row, i)

FollowedWork(k, w) ==
  /\ w.pc \in {"entries", "ensure"} => FollowedTo(k, w)
  /\ w.pc = "done" /\ FollowsEntries(k) => AllKept(k)

FanInv ==
  /\ \A k \in DOMAIN work : k.kind = "catalog" => FollowedWork(k, work[k])
  /\ \A k \in DOMAIN items :
       k.kind = "catalog" /\ items[k].status = "done" /\ FollowsEntries(k) => AllKept(k)
  /\ \A k \in DOMAIN items : k.kind = "registry" => Reached(OwnCatalog(k))
  /\ \A c \in DOMAIN catalogs : Harvested(c) => Reached(c)

\* How deep a document that is fetched for an item comes to be.
Leaf(u) == \A i \in DOMAIN Document[u] : Document[u][i].kind = "artifact"
Level(k) == IF k.of = 0 THEN 0 ELSE Nesting[k.of] + 1

\* The catalogs that registries return name no catalogs and no registries.
LeafResults ==
  \A r \in Registries : \A i \in DOMAIN Results[r] :
    Results[r][i].kind = "catalog" => Leaf(Results[r][i].url)

NestInv ==
  /\ \A c \in DOMAIN catalogs : Nesting[c] <= MaxCatalogDepth
  /\ \A k \in DOMAIN items : k.kind = "catalog" =>
       /\ Level(k) <= MaxCatalogDepth
       /\ items[k].depth = Level(k) \/ Leaf(k.url)
  /\ \A r \in DOMAIN registries :
       Nesting[entries[registries[r].entry].catalog] < MaxCatalogDepth

-----------------------------------------------------------------------------
(* The world.                                                              *)

LEMMA Documents ==
  ASSUME NEW u \in Catalogs
  PROVE  /\ Document[u] \in Seq(Entry) /\ DOMAIN Document[u] = 1..Len(Document[u])
         /\ Len(Document[u]) \in Nat
         /\ \A i \in DOMAIN Document[u] :
              /\ Document[u][i].kind \in PointerKinds /\ Document[u][i].url \in URL
              /\ Document[u][i].kind = "catalog" => Document[u][i].url \in Catalogs
              /\ Document[u][i].kind = "registry" => Document[u][i].url \in Registries
<1>1. Document[u] \in Range(Document)
  BY DEF Range, Catalogs
<1>2. Document[u] \in Seq(Range(Document[u]))
  BY <1>1, WorldAssumption
<1>3. Range(Document[u]) \subseteq Entry
  BY <1>1 DEF Entry
<1>4. \A i \in DOMAIN Document[u] : Document[u][i] \in Entry
  BY <1>3 DEF Range
<1>5. \A i \in DOMAIN Document[u] : Document[u][i].url \in URL
  BY <1>4 DEF URL
<1>6. Document[u] \in Seq(Entry)
  BY <1>2, <1>3
<1>7. \A i \in DOMAIN Document[u] :
        /\ Document[u][i].kind \in PointerKinds
        /\ Document[u][i].kind = "catalog" => Document[u][i].url \in Catalogs
        /\ Document[u][i].kind = "registry" => Document[u][i].url \in Registries
  BY WorldAssumption
<1> QED BY <1>5, <1>6, <1>7

LEMMA Returned ==
  ASSUME NEW u \in Registries
  PROVE  /\ Results[u] \in Seq(Entry) /\ DOMAIN Results[u] = 1..Len(Results[u])
         /\ Len(Results[u]) \in Nat
         /\ \A i \in DOMAIN Results[u] :
              /\ Results[u][i].kind \in PointerKinds /\ Results[u][i].url \in URL
              /\ Results[u][i].kind = "catalog" => Results[u][i].url \in Catalogs
              /\ Results[u][i].kind = "registry" => Results[u][i].url \in Registries
<1>1. Results[u] \in Range(Results)
  BY DEF Range, Registries
<1>2. Results[u] \in Seq(Range(Results[u]))
  BY <1>1, WorldAssumption
<1>3. Range(Results[u]) \subseteq Entry
  BY <1>1 DEF Entry
<1>4. \A i \in DOMAIN Results[u] : Results[u][i] \in Entry
  BY <1>3 DEF Range
<1>5. \A i \in DOMAIN Results[u] : Results[u][i].url \in URL
  BY <1>4 DEF URL
<1>6. Results[u] \in Seq(Entry)
  BY <1>2, <1>3
<1>7. \A i \in DOMAIN Results[u] :
        /\ Results[u][i].kind \in PointerKinds
        /\ Results[u][i].kind = "catalog" => Results[u][i].url \in Catalogs
        /\ Results[u][i].kind = "registry" => Results[u][i].url \in Registries
  BY WorldAssumption
<1> QED BY <1>5, <1>6, <1>7

LEMMA Referred ==
  ASSUME NEW u \in Registries
  PROVE  /\ DOMAIN Referrals[u] = 1..Len(Referrals[u]) /\ Len(Referrals[u]) \in Nat
         /\ \A i \in DOMAIN Referrals[u] : Referrals[u][i] \in Registries
<1>1. Referrals[u] \in Seq(Range(Referrals[u]))
  BY WorldAssumption DEF Range
<1> QED BY <1>1, WorldAssumption

-----------------------------------------------------------------------------
(* Rows are appended.                                                      *)

Grows(f, g) == DOMAIN f \subseteq DOMAIN g /\ \A x \in DOMAIN f : g[x] = f[x]

LEMMA Appended ==
  ASSUME NEW T, NEW s \in Seq(T), NEW r \in T
  PROVE  /\ Append(s, r) \in Seq(T) /\ Grows(s, Append(s, r))
         /\ DOMAIN Append(s, r) = DOMAIN s \union {Len(s) + 1}
         /\ Append(s, r)[Len(s) + 1] = r
         /\ DOMAIN s = 1..Len(s) /\ Len(s) \in Nat
BY DEF Grows

LEMMA Concatenated ==
  ASSUME NEW T, NEW s \in Seq(T), NEW t \in Seq(T)
  PROVE  /\ s \o t \in Seq(T) /\ Grows(s, s \o t)
         /\ \A e \in DOMAIN (s \o t) :
              e \in DOMAIN s \/ (e - Len(s) \in DOMAIN t /\ (s \o t)[e] = t[e - Len(s)])
         /\ \A j \in DOMAIN t : Len(s) + j \in DOMAIN (s \o t) /\ (s \o t)[Len(s) + j] = t[j]
         /\ DOMAIN s = 1..Len(s) /\ Len(s) \in Nat
BY DEF Grows

LEMMA EntryRowsAre ==
  ASSUME NEW c \in Nat, NEW from \in Nat, NEW list \in Seq(Entry),
         \A i \in DOMAIN list : list[i].kind \in PointerKinds /\ list[i].url \in URL
  PROVE  /\ EntryRows(c, from, list) \in Seq(EntryRecord)
         /\ DOMAIN EntryRows(c, from, list) = DOMAIN list
         /\ \A i \in DOMAIN list : /\ EntryRows(c, from, list)[i].catalog = c
                                   /\ EntryRows(c, from, list)[i].from = from
<1> DEFINE t == EntryRows(c, from, list)
<1>1. t = [i \in 1..Len(list) |-> [catalog |-> c, from |-> from, kind |-> list[i].kind, url |-> list[i].url]]
  BY DEF EntryRows
<1>2. \A i \in 1..Len(list) :
        [catalog |-> c, from |-> from, kind |-> list[i].kind, url |-> list[i].url] \in EntryRecord
  BY DEF EntryRecord
<1> HIDE DEF t
<1>3. t \in [1..Len(list) -> EntryRecord]
  BY <1>1, <1>2
<1>4. t \in Seq(EntryRecord)
  BY <1>3
<1> QED BY <1>1, <1>4 DEF t

\* The i-th row of a catalog is the i-th entry of its document.
LEMMA RowIs ==
  ASSUME NEW ents, NEW c, NEW n \in Nat, NEW b \in Nat, Leads(ents, c, n, b),
         DOMAIN ents \subseteq Nat, NEW i \in 1..n
  PROVE  RowOf(ents, c, i) = b + i
<1> DEFINE R == RowsOf(ents, c)
           Below(e) == {f \in R : f < e}
<1>1. /\ \A j \in 1..n : b + j \in R
      /\ \A e \in R : e \in Nat /\ e > b
  BY DEF Leads, RowsOf
<1> HIDE DEF R
<1>2. ASSUME NEW j \in 1..n
      PROVE  IsFiniteSet(Below(b + j)) /\ Cardinality(Below(b + j)) = j - 1
  <2>1. Below(b + j) = (b + 1)..(b + (j - 1))
    <3>1. \A x : x \in Below(b + j) => x \in (b + 1)..(b + (j - 1))
      BY <1>1, <1>2
    <3>2. \A x : x \in (b + 1)..(b + (j - 1)) => x \in Below(b + j)
      <4> SUFFICES ASSUME NEW x \in (b + 1)..(b + (j - 1)) PROVE x \in R /\ x < b + j
        OBVIOUS
      <4>1. x - b \in 1..n /\ b + (x - b) = x
        BY <1>2
      <4> QED BY <1>1, <1>2, <4>1
    <3> HIDE DEF Below
    <3> QED BY <3>1, <3>2
  <2>2. b + 1 \in Int /\ b + (j - 1) \in Int
    BY <1>2
  <2> HIDE DEF Below
  <2> QED BY <1>2, <2>1, <2>2, FS_Interval
<1>3. ASSUME NEW e \in R, Cardinality(Below(e)) = i - 1
      PROVE  e = b + i
  <2>1. CASE e < b + i
    <3>1. e - b \in 1..n /\ b + (e - b) = e /\ e - b < i
      BY <1>1, <2>1
    <3>2. Cardinality(Below(e)) = (e - b) - 1
      BY <1>2, <3>1
    <3> QED BY <1>3, <3>1, <3>2
  <2>2. CASE e > b + i
    <3>1. IsFiniteSet(Below(e))
      <4>1. e \in Nat /\ Below(e) \in SUBSET (0..e)
        BY <1>1
      <4>2. IsFiniteSet(0..e)
        BY <4>1, FS_Interval
      <4> QED BY <4>1, <4>2, FS_Subset
    <3>2. Below(b + i) \union {b + i} \in SUBSET Below(e)
      <4>1. \A f \in R : f < b + i => f < e
        BY <1>1, <2>2
      <4>2. b + i \in R
        BY <1>1
      <4> QED BY <2>2, <4>1, <4>2
    <3>3. b + i \notin Below(b + i)
      OBVIOUS
    <3>4. Cardinality(Below(b + i) \union {b + i}) = (i - 1) + 1
      BY <1>2, <3>3, FS_AddElement
    <3>5. Cardinality(Below(b + i) \union {b + i}) <= Cardinality(Below(e))
      BY <3>1, <3>2, FS_Subset
    <3> QED BY <1>3, <3>4, <3>5
  <2> QED BY <1>1, <2>1, <2>2
<1>4. b + i \in R /\ Cardinality(Below(b + i)) = i - 1
  BY <1>1, <1>2
<1>5. RowOf(ents, c, i) = CHOOSE e \in R : Cardinality(Below(e)) = i - 1
  BY DEF RowOf, R
<1> HIDE DEF Below
<1> QED BY <1>3, <1>4, <1>5

-----------------------------------------------------------------------------
(* The statements.                                                         *)

\* Engine.ensure adds a row or nothing.
LEMMA EnsuredRow ==
  ASSUME TypeOK, NEW k \in Key, NEW d \in Nat, items' = Ensured(k, d)
  PROVE  /\ DOMAIN items' = DOMAIN items \union {k}
         /\ Grows(items, items')
         /\ DOMAIN items' \subseteq Key /\ items' \in [DOMAIN items' -> Item]
         /\ k \notin DOMAIN items => items'[k].depth = d /\ items'[k].status = "pending"
<1>1. NewItem(d) \in Item /\ NewItem(d).depth = d /\ NewItem(d).status = "pending"
  BY DEF NewItem, Item
<1>2. items \in [DOMAIN items -> Item] /\ DOMAIN items \subseteq Key
  BY DEF TypeOK
<1>3. CASE k \in DOMAIN items
  BY <1>2, <1>3 DEF Ensured, Grows
<1>4. CASE k \notin DOMAIN items
  <2>1. items' = [x \in DOMAIN items \union {k} |-> IF x = k THEN NewItem(d) ELSE items[x]]
    BY <1>4 DEF Ensured, With
  <2>2. DOMAIN items' = DOMAIN items \union {k} /\ items'[k] = NewItem(d) /\ Grows(items, items')
    BY <1>4, <2>1 DEF Grows
  <2>3. items' \in [DOMAIN items' -> Item]
    BY <1>1, <1>2, <2>1
  <2> QED BY <1>1, <1>2, <2>2, <2>3
<1> QED BY <1>3, <1>4

\* SaveRegistry adds a row or finds it.
LEMMA SavedRow ==
  ASSUME TypeOK, RowsInv, NEW row \in RegistryRow, SaveRegistry(row), NEW r, r = SavedRegistry(row)
  PROVE  /\ registries' \in Seq(RegistryRow) /\ Grows(registries, registries')
         /\ r \in DOMAIN registries' /\ r \in Nat /\ registries'[r] = row
         /\ DOMAIN registries' = DOMAIN registries \union {r}
         /\ \A s, t \in DOMAIN registries' : registries'[s] = registries'[t] => s = t
<1>1. /\ registries \in Seq(RegistryRow) /\ DOMAIN registries \subseteq Nat
      /\ \A s, t \in DOMAIN registries : registries[s] = registries[t] => s = t
  BY DEF TypeOK, RowsInv
<1>2. CASE KnownRegistry(row) # {}
  <2>1. PICK s \in DOMAIN registries : registries[s] = row
    BY <1>2 DEF KnownRegistry
  <2>2. KnownRegistry(row) = {s}
    BY <1>1, <2>1 DEF KnownRegistry
  <2>3. r = Min({s})
    BY <1>2, <2>2 DEF SavedRegistry
  <2>4. r = s
    BY <1>1, <2>1, <2>3 DEF Min
  <2>5. registries' = registries
    BY <1>2 DEF SaveRegistry
  <2> QED BY <1>1, <2>1, <2>4, <2>5 DEF Grows
<1>3. CASE KnownRegistry(row) = {}
  <2>1. registries' = Append(registries, row) /\ r = Len(registries) + 1
    BY <1>3 DEF SaveRegistry, SavedRegistry
  <2>2. /\ registries' \in Seq(RegistryRow) /\ Grows(registries, registries')
        /\ DOMAIN registries' = DOMAIN registries \union {r} /\ registries'[r] = row
        /\ r \in Nat
    BY <1>1, <2>1, Appended
  <2>3. \A s \in DOMAIN registries : registries[s] # row
    BY <1>3 DEF KnownRegistry
  <2>4. \A s, t \in DOMAIN registries' : registries'[s] = registries'[t] => s = t
    BY <1>1, <2>2, <2>3 DEF Grows
  <2> QED BY <2>2, <2>4
<1> QED BY <1>2, <1>3

\* Where a handler goes.
Put(k, p, j, row, reg) ==
  work' = [work EXCEPT ![k] = [pc |-> p, i |-> j, row |-> row, reg |-> reg]]

LEMMA Puts ==
  ASSUME TypeOK, NEW k \in DOMAIN work, NEW w, w = work[k], NEW p, NEW n
  PROVE  /\ Moves(k, [w EXCEPT !.row = n, !.pc = p]) => Put(k, p, w.i, n, w.reg)
         /\ Moves(k, [w EXCEPT !.pc = p]) => Put(k, p, w.i, w.row, w.reg)
         /\ Moves(k, [w EXCEPT !.i = @ + 1]) => Put(k, w.pc, w.i + 1, w.row, w.reg)
         /\ Moves(k, [w EXCEPT !.pc = p, !.reg = n]) => Put(k, p, w.i, w.row, n)
         /\ Moves(k, [w EXCEPT !.pc = p, !.row = n]) => Put(k, p, w.i, n, w.reg)
         /\ Moves(k, [w EXCEPT !.pc = p, !.i = @ + 1]) => Put(k, p, w.i + 1, w.row, w.reg)
         /\ Moves(k, [w EXCEPT !.i = @ + 1, !.pc = p]) => Put(k, p, w.i + 1, w.row, w.reg)
         /\ Moves(k, [w EXCEPT !.pc = p, !.i = 1]) => Put(k, p, 1, w.row, w.reg)
<1>1. w \in Call
  BY DEF TypeOK
<1>2. ASSUME NEW x, NEW q, NEW j, NEW row, NEW reg,
             x = [pc |-> q, i |-> j, row |-> row, reg |-> reg], Moves(k, x)
      PROVE  Put(k, q, j, row, reg)
  <2> DEFINE c == [pc |-> q, i |-> j, row |-> row, reg |-> reg]
  <2>1. x = c
    BY <1>2
  <2> HIDE DEF c
  <2>2. work' = [work EXCEPT ![k] = c]
    BY <1>2, <2>1 DEF Moves
  <2> QED BY <2>2 DEF Put, c
<1>3. Moves(k, [w EXCEPT !.row = n, !.pc = p]) => Put(k, p, w.i, n, w.reg)
  <2> DEFINE v == [w EXCEPT !.row = n]
  <2>1. v = [pc |-> w.pc, i |-> w.i, row |-> n, reg |-> w.reg]
    BY <1>1 DEF Call
  <2>2. [w EXCEPT !.row = n, !.pc = p] = [v EXCEPT !.pc = p]
    BY <1>1 DEF Call
  <2> HIDE DEF v
  <2>3. [v EXCEPT !.pc = p] = [pc |-> p, i |-> w.i, row |-> n, reg |-> w.reg]
    BY <2>1
  <2> QED BY <1>2, <2>2, <2>3
<1>4. Moves(k, [w EXCEPT !.pc = p]) => Put(k, p, w.i, w.row, w.reg)
  <2>1. [w EXCEPT !.pc = p]
          = [pc |-> p, i |-> w.i, row |-> w.row, reg |-> w.reg]
    BY <1>1 DEF Call
  <2> QED BY <1>2, <2>1
<1>5. Moves(k, [w EXCEPT !.i = @ + 1]) => Put(k, w.pc, w.i + 1, w.row, w.reg)
  <2>1. [w EXCEPT !.i = @ + 1]
          = [pc |-> w.pc, i |-> w.i + 1, row |-> w.row, reg |-> w.reg]
    BY <1>1 DEF Call
  <2> QED BY <1>2, <2>1
<1>6. Moves(k, [w EXCEPT !.pc = p, !.reg = n]) => Put(k, p, w.i, w.row, n)
  <2> DEFINE v == [w EXCEPT !.pc = p]
  <2>1. v = [pc |-> p, i |-> w.i, row |-> w.row, reg |-> w.reg]
    BY <1>1 DEF Call
  <2>2. [w EXCEPT !.pc = p, !.reg = n] = [v EXCEPT !.reg = n]
    BY <1>1 DEF Call
  <2> HIDE DEF v
  <2>3. [v EXCEPT !.reg = n] = [pc |-> p, i |-> w.i, row |-> w.row, reg |-> n]
    BY <2>1
  <2> QED BY <1>2, <2>2, <2>3
<1>7. Moves(k, [w EXCEPT !.pc = p, !.row = n]) => Put(k, p, w.i, n, w.reg)
  <2> DEFINE v == [w EXCEPT !.pc = p]
  <2>1. v = [pc |-> p, i |-> w.i, row |-> w.row, reg |-> w.reg]
    BY <1>1 DEF Call
  <2>2. [w EXCEPT !.pc = p, !.row = n] = [v EXCEPT !.row = n]
    BY <1>1 DEF Call
  <2> HIDE DEF v
  <2>3. [v EXCEPT !.row = n] = [pc |-> p, i |-> w.i, row |-> n, reg |-> w.reg]
    BY <2>1
  <2> QED BY <1>2, <2>2, <2>3
<1>8. Moves(k, [w EXCEPT !.pc = p, !.i = @ + 1]) => Put(k, p, w.i + 1, w.row, w.reg)
  <2> DEFINE v == [w EXCEPT !.pc = p]
  <2>1. v = [pc |-> p, i |-> w.i, row |-> w.row, reg |-> w.reg]
    BY <1>1 DEF Call
  <2>2. [w EXCEPT !.pc = p, !.i = @ + 1] = [v EXCEPT !.i = @ + 1]
    BY <1>1 DEF Call
  <2> HIDE DEF v
  <2>3. [v EXCEPT !.i = @ + 1] = [pc |-> p, i |-> w.i + 1, row |-> w.row, reg |-> w.reg]
    BY <2>1
  <2> QED BY <1>2, <2>2, <2>3
<1>9. Moves(k, [w EXCEPT !.i = @ + 1, !.pc = p]) => Put(k, p, w.i + 1, w.row, w.reg)
  <2> DEFINE v == [w EXCEPT !.i = @ + 1]
  <2>1. v = [pc |-> w.pc, i |-> w.i + 1, row |-> w.row, reg |-> w.reg]
    BY <1>1 DEF Call
  <2>2. [w EXCEPT !.i = @ + 1, !.pc = p] = [v EXCEPT !.pc = p]
    BY <1>1 DEF Call
  <2> HIDE DEF v
  <2>3. [v EXCEPT !.pc = p] = [pc |-> p, i |-> w.i + 1, row |-> w.row, reg |-> w.reg]
    BY <2>1
  <2> QED BY <1>2, <2>2, <2>3
<1>10. Moves(k, [w EXCEPT !.pc = p, !.i = 1]) => Put(k, p, 1, w.row, w.reg)
  <2> DEFINE v == [w EXCEPT !.pc = p]
  <2>1. v = [pc |-> p, i |-> w.i, row |-> w.row, reg |-> w.reg]
    BY <1>1 DEF Call
  <2>2. [w EXCEPT !.pc = p, !.i = 1] = [v EXCEPT !.i = 1]
    BY <1>1 DEF Call
  <2> HIDE DEF v
  <2>3. [v EXCEPT !.i = 1] = [pc |-> p, i |-> 1, row |-> w.row, reg |-> w.reg]
    BY <2>1
  <2> QED BY <1>2, <2>2, <2>3
<1> QED BY <1>3, <1>4, <1>5, <1>6, <1>7, <1>8, <1>9, <1>10

LEMMA PutDoes ==
  ASSUME TypeOK, NEW k \in DOMAIN work,
         NEW p \in {"start", "entries", "results", "referrals", "ensure", "done"},
         NEW j \in Nat \ {0}, NEW row \in Nat, NEW reg \in Nat, Put(k, p, j, row, reg)
  PROVE  /\ DOMAIN work' = DOMAIN work /\ work' \in [DOMAIN work' -> Call]
         /\ work'[k].pc = p /\ work'[k].i = j /\ work'[k].row = row /\ work'[k].reg = reg
         /\ \A x \in DOMAIN work : x # k => work'[x] = work[x]
<1> DEFINE c == [pc |-> p, i |-> j, row |-> row, reg |-> reg]
<1>1. c \in Call /\ c.pc = p /\ c.i = j /\ c.row = row /\ c.reg = reg
  BY DEF Call
<1>2. work' = [work EXCEPT ![k] = c] /\ work \in [DOMAIN work -> Call]
  BY DEF Put, TypeOK
<1> HIDE DEF c
<1> QED BY <1>1, <1>2

-----------------------------------------------------------------------------
(* What each handler does.                                                 *)

Base == TypeOK /\ RowsInv /\ KeysInv /\ WorkInv

Keeps ==
  /\ catalogs' \in Seq(CatalogRow) /\ Grows(catalogs, catalogs')
  /\ entries' \in Seq(EntryRecord) /\ Grows(entries, entries')
  /\ registries' \in Seq(RegistryRow) /\ Grows(registries, registries')
  /\ DOMAIN items' \subseteq Key /\ items' \in [DOMAIN items' -> Item] /\ Grows(items, items')

LEMMA Unchanged ==
  ASSUME TypeOK
  PROVE  /\ UNCHANGED catalogs => catalogs' \in Seq(CatalogRow) /\ Grows(catalogs, catalogs')
         /\ UNCHANGED entries => entries' \in Seq(EntryRecord) /\ Grows(entries, entries')
         /\ UNCHANGED registries => registries' \in Seq(RegistryRow) /\ Grows(registries, registries')
         /\ UNCHANGED items => /\ DOMAIN items' \subseteq Key /\ items' \in [DOMAIN items' -> Item]
                               /\ Grows(items, items')
BY DEF TypeOK, Grows

LEMMA Domains ==
  ASSUME TypeOK
  PROVE  /\ DOMAIN catalogs = 1..Len(catalogs) /\ Len(catalogs) \in Nat
         /\ DOMAIN entries = 1..Len(entries) /\ Len(entries) \in Nat
         /\ DOMAIN registries = 1..Len(registries) /\ Len(registries) \in Nat
         /\ \A c \in DOMAIN catalogs : catalogs[c].url \in Catalogs /\ catalogs[c].parent \in Nat
         /\ \A e \in DOMAIN entries : entries[e].catalog \in Nat /\ entries[e].from \in Nat
         /\ \A r \in DOMAIN registries : /\ registries[r].entry \in Nat /\ registries[r].from \in Nat
                                         /\ registries[r].url \in Registries
<1>1. catalogs \in Seq(CatalogRow) /\ entries \in Seq(EntryRecord) /\ registries \in Seq(RegistryRow)
  BY DEF TypeOK
<1>2. \A c \in DOMAIN catalogs : catalogs[c].url \in Catalogs /\ catalogs[c].parent \in Nat
  <2>1. \A c \in DOMAIN catalogs : catalogs[c] \in CatalogRow
    BY <1>1
  <2> QED BY <2>1 DEF CatalogRow
<1>3. \A e \in DOMAIN entries : entries[e].catalog \in Nat /\ entries[e].from \in Nat
  <2>1. \A e \in DOMAIN entries : entries[e] \in EntryRecord
    BY <1>1
  <2> QED BY <2>1 DEF EntryRecord
<1>4. \A r \in DOMAIN registries : /\ registries[r].entry \in Nat /\ registries[r].from \in Nat
                                   /\ registries[r].url \in Registries
  <2>1. \A r \in DOMAIN registries : registries[r] \in RegistryRow
    BY <1>1
  <2> QED BY <2>1 DEF RegistryRow
<1> QED BY <1>1, <1>2, <1>3, <1>4

\* The keys of follow-ups.
LEMMA Keys ==
  ASSUME NEW u \in URL, NEW n \in Nat
  PROVE  /\ CatalogKey(u, n) \in Key /\ RegistryKey(u, n) \in Key /\ ArtifactKey(u, n) \in Key
         /\ CatalogKey(u, n).kind = "catalog" /\ CatalogKey(u, n).url = u /\ CatalogKey(u, n).of = n
         /\ RegistryKey(u, n).kind = "registry" /\ RegistryKey(u, n).url = u /\ RegistryKey(u, n).of = n
         /\ ArtifactKey(u, n).kind = "artifact" /\ ArtifactKey(u, n).url = u /\ ArtifactKey(u, n).of = n
BY DEF CatalogKey, RegistryKey, ArtifactKey, Key, PointerKinds

LEMMA SameKey ==
  ASSUME NEW x \in Key, NEW y \in Key, x.kind = y.kind, x.url = y.url, x.of = y.of
  PROVE  x = y
BY DEF Key

LEMMA EntryRowIs ==
  ASSUME TypeOK, RowsInv, NEW c \in DOMAIN catalogs, NEW i \in DOMAIN Document[catalogs[c].url]
  PROVE  EntryRow(c, i) \in DOMAIN entries /\ entries[EntryRow(c, i)].catalog = c
<1>1. PICK b \in 0..Len(entries) : Block(c, b)
  BY DEF RowsInv
<1> DEFINE n == Len(Document[catalogs[c].url])
<1>2. n \in Nat /\ i \in 1..n /\ DOMAIN entries \subseteq Nat
  BY Documents, Domains
<1>3. Leads(entries, c, n, b) /\ b \in Nat
  BY <1>1, Domains DEF Block
<1>4. RowOf(entries, c, i) = b + i
  BY <1>2, <1>3, RowIs
<1>5. EntryRow(c, i) = RowOf(entries, c, i)
  BY DEF EntryRow, RowOf, EntriesOf, RowsOf
<1> QED BY <1>2, <1>3, <1>4, <1>5 DEF Leads

\* A document met through one parent has one row.
LEMMA OneRow ==
  ASSUME TypeOK, RowsInv, NEW k, NEW c \in Prior(k), NEW d \in Prior(k)
  PROVE  d = c
<1>1. /\ catalogs[c].url = catalogs[d].url /\ catalogs[c].parent = catalogs[d].parent
      /\ c \in DOMAIN catalogs /\ d \in DOMAIN catalogs
  BY DEF Prior, PriorRows
<1>2. catalogs[c] \in CatalogRow /\ catalogs[d] \in CatalogRow
  BY <1>1 DEF TypeOK
<1>3. catalogs[c] = catalogs[d]
  BY <1>1, <1>2 DEF CatalogRow
<1> QED BY <1>1, <1>3 DEF RowsInv

LEMMA FetchCatalogDoes ==
  ASSUME Base, NEW k \in DOMAIN items, FetchCatalog(k)
  PROVE  /\ k \in DOMAIN work /\ k.kind = "catalog" /\ k.url \in Catalogs
         /\ work[k].pc = "start" /\ work[k].i = 1 /\ work[k].reg \in Nat
         /\ Keeps /\ UNCHANGED <<registries, items>>
         /\ \/ \E c \in Prior(k) :
                 /\ UNCHANGED <<catalogs, entries>>
                 /\ \/ FollowsEntries(k) /\ Put(k, "entries", 1, c, work[k].reg)
                    \/ ~Resumes(k, c) /\ Put(k, "done", 1, c, work[k].reg)
            \/ /\ Prior(k) = {}
               /\ catalogs' = Append(catalogs, [url |-> k.url, parent |-> k.of])
               /\ entries' = entries \o EntryRows(Len(catalogs) + 1, 0, Document[k.url])
               /\ \/ FollowsEntries(k) /\ Put(k, "entries", 1, Len(catalogs) + 1, work[k].reg)
                  \/ ~FollowsEntries(k) /\ Put(k, "done", 1, Len(catalogs) + 1, work[k].reg)
<1>1. k \in DOMAIN work /\ k.kind = "catalog" /\ work[k].pc = "start" /\ UNCHANGED <<registries, items>>
  BY DEF FetchCatalog, At
<1>2. work[k].i = 1 /\ work[k].reg \in Nat /\ k.url \in Catalogs /\ k.of \in Nat
  BY <1>1 DEF Base, TypeOK, Call, WorkInv, CatalogWork, KeysInv, Key
<1>3. CASE Prior(k) # {}
  <2>1. PICK c : c \in Prior(k)
    BY <1>3
  <2>2. \A d \in Prior(k) : d = c
    BY <2>1, OneRow DEF Base
  <2>3. c \in Nat
    BY <2>1, Domains DEF Prior, PriorRows, Base
  <2>4. Max(Prior(k)) = c
    <3>1. Prior(k) = {c}
      BY <2>1, <2>2
    <3>2. Max({c}) = c
      BY <2>3 DEF Max
    <3> QED BY <3>1, <3>2
  <2>5. /\ UNCHANGED <<catalogs, entries>>
        /\ Moves(k, [work[k] EXCEPT !.row = c, !.pc = IF Resumes(k, c) THEN "entries" ELSE "done"])
    BY <1>3, <2>4 DEF FetchCatalog
  <2>6. \A p : Moves(k, [work[k] EXCEPT !.row = c, !.pc = p]) => Put(k, p, 1, c, work[k].reg)
    BY <1>1, <1>2, Puts DEF Base
  <2>7. \/ Resumes(k, c) /\ Put(k, "entries", 1, c, work[k].reg)
        \/ ~Resumes(k, c) /\ Put(k, "done", 1, c, work[k].reg)
    BY <2>5, <2>6
  <2>8. Resumes(k, c) => FollowsEntries(k)
    BY DEF Resumes
  <2> QED BY <1>1, <1>2, <2>1, <2>5, <2>7, <2>8, Unchanged DEF Keeps, Base
<1>4. CASE Prior(k) = {}
  <2> DEFINE c == Len(catalogs) + 1
             row == [url |-> k.url, parent |-> k.of]
             new == EntryRows(c, 0, Document[k.url])
  <2>1. /\ catalogs' = Append(catalogs, row) /\ entries' = entries \o new
        /\ Moves(k, [work[k] EXCEPT !.row = c, !.pc = IF FollowsEntries(k) THEN "entries" ELSE "done"])
    BY <1>4 DEF FetchCatalog
  <2>2. row \in CatalogRow /\ c \in Nat
    BY <1>2, Domains DEF CatalogRow, Base
  <2>3. new \in Seq(EntryRecord)
    BY <1>2, <2>2, Documents, EntryRowsAre
  <2> HIDE DEF row, c, new
  <2>4. catalogs' \in Seq(CatalogRow) /\ Grows(catalogs, catalogs')
    BY <2>1, <2>2, Appended DEF Base, TypeOK
  <2>5. entries' \in Seq(EntryRecord) /\ Grows(entries, entries')
    BY <2>1, <2>3, Concatenated DEF Base, TypeOK
  <2>6. \A p : Moves(k, [work[k] EXCEPT !.row = c, !.pc = p]) => Put(k, p, 1, c, work[k].reg)
    BY <1>1, <1>2, Puts DEF Base
  <2>7. \/ FollowsEntries(k) /\ Put(k, "entries", 1, c, work[k].reg)
        \/ ~FollowsEntries(k) /\ Put(k, "done", 1, c, work[k].reg)
    BY <2>1, <2>6
  <2>8. Keeps
    BY <1>1, <2>4, <2>5, Unchanged DEF Keeps, Base
  <2> QED BY <1>1, <1>2, <1>4, <2>1, <2>7, <2>8 DEF c, row, new
<1> QED BY <1>3, <1>4

\* What a handler may hold where it is.
LEMMA AtWork ==
  ASSUME Base, NEW k \in DOMAIN work
  PROVE  /\ k \in DOMAIN items /\ k \in Key /\ items[k].status = "in_flight" /\ items[k].depth \in Nat
         /\ work[k].i \in Nat \ {0} /\ work[k].row \in Nat /\ work[k].reg \in Nat
         /\ work[k].pc = "entries" => k.kind = "catalog"
         /\ work[k].pc \in {"results", "referrals"} => k.kind = "registry"
         /\ k.kind = "catalog" => k.url \in Catalogs /\ CatalogWork(k, work[k])
         /\ k.kind = "registry" =>
              /\ k.of \in DOMAIN registries /\ k.url = registries[k.of].url /\ k.url \in Registries
              /\ OwnEntry(k) \in DOMAIN entries /\ OwnEntry(k) \in Nat
              /\ OwnCatalog(k) \in DOMAIN catalogs /\ OwnCatalog(k) \in Nat
              /\ RegistryWork(k, work[k])
<1>1. k \in DOMAIN items /\ k \in Key /\ items[k] \in Item /\ work[k] \in Call
  BY DEF Base, TypeOK
<1>2. /\ items[k].status = "in_flight"
      /\ k.kind = "catalog" => CatalogWork(k, work[k])
      /\ k.kind = "registry" => RegistryWork(k, work[k])
      /\ k.kind = "artifact" => work[k].pc \in {"start", "done"}
  BY DEF Base, WorkInv
<1>3. k.kind \in {"catalog", "registry", "artifact"} /\ items[k].depth \in Nat
  BY <1>1 DEF Key, PointerKinds, Item
<1>4. work[k].i \in Nat \ {0} /\ work[k].row \in Nat /\ work[k].reg \in Nat
  BY <1>1 DEF Call
<1>5. k.kind = "catalog" => k.url \in Catalogs
  BY <1>1 DEF Base, KeysInv
<1>6. /\ work[k].pc = "entries" => k.kind = "catalog"
      /\ work[k].pc \in {"results", "referrals"} => k.kind = "registry"
  BY <1>2, <1>3 DEF CatalogWork, RegistryWork
<1>7. k.kind = "registry" =>
        /\ k.of \in DOMAIN registries /\ k.url = registries[k.of].url /\ k.url \in Registries
        /\ OwnEntry(k) \in DOMAIN entries /\ OwnEntry(k) \in Nat
        /\ OwnCatalog(k) \in DOMAIN catalogs /\ OwnCatalog(k) \in Nat
  <2> SUFFICES ASSUME k.kind = "registry"
               PROVE  /\ k.of \in DOMAIN registries /\ k.url = registries[k.of].url /\ k.url \in Registries
                      /\ OwnEntry(k) \in DOMAIN entries /\ OwnEntry(k) \in Nat
                      /\ OwnCatalog(k) \in DOMAIN catalogs /\ OwnCatalog(k) \in Nat
    OBVIOUS
  <2>1. k.of \in DOMAIN registries /\ k.url = registries[k.of].url /\ k.url \in Registries
    BY <1>1, Domains DEF Base, KeysInv
  <2>2. OwnEntry(k) \in DOMAIN entries /\ OwnEntry(k) \in Nat
    BY <2>1, Domains DEF Base, RowsInv, OwnEntry
  <2>3. OwnCatalog(k) \in DOMAIN catalogs /\ OwnCatalog(k) \in Nat
    BY <2>2, Domains DEF Base, RowsInv, OwnCatalog
  <2> QED BY <2>1, <2>2, <2>3
<1> QED BY <1>1, <1>2, <1>3, <1>4, <1>5, <1>6, <1>7

\* The i-th entry of a document, by its kind.
EntriesDone(k, w) ==
  /\ w.i > Len(Document[k.url]) /\ Put(k, "done", w.i, w.row, w.reg)
  /\ UNCHANGED <<items, registries>>
EntryIsCatalog(k, w, e) ==
  /\ w.i \in DOMAIN Document[k.url] /\ e.kind = "catalog" /\ e.url \in Catalogs
  /\ Put(k, "entries", w.i + 1, w.row, w.reg)
  /\ items' = Ensured(CatalogKey(e.url, w.row), items[k].depth + 1)
  /\ UNCHANGED registries
EntryIsArtifact(k, w, e) ==
  /\ w.i \in DOMAIN Document[k.url] /\ e.kind = "artifact" /\ e.url \in URL
  /\ Put(k, "entries", w.i + 1, w.row, w.reg)
  /\ items' = Ensured(ArtifactKey(e.url, EntryRow(w.row, w.i)), 0)
  /\ UNCHANGED registries
EntryIsRegistry(k, w, e) ==
  /\ w.i \in DOMAIN Document[k.url] /\ e.kind = "registry" /\ e.url \in Registries
  /\ UNCHANGED items
  /\ \E row \in RegistryRow : \E r \in Nat :
       /\ row = [entry |-> EntryRow(w.row, w.i), url |-> e.url, from |-> 0]
       /\ row.entry \in DOMAIN entries
       /\ SaveRegistry(row) /\ r = SavedRegistry(row) /\ Put(k, "ensure", w.i, w.row, r)

LEMMA FollowEntryDoes ==
  ASSUME Base, NEW k \in DOMAIN items, FollowEntry(k),
         NEW w, w = work[k], NEW e, e = Document[k.url][w.i]
  PROVE  /\ k \in DOMAIN work /\ k.kind = "catalog" /\ w.pc = "entries"
         /\ Keeps /\ UNCHANGED <<catalogs, entries>>
         /\ \/ EntriesDone(k, w) \/ EntryIsCatalog(k, w, e)
            \/ EntryIsArtifact(k, w, e) \/ EntryIsRegistry(k, w, e)
<1>1. k \in DOMAIN work /\ w.pc = "entries" /\ UNCHANGED <<catalogs, entries>>
  BY DEF FollowEntry, At
<1>2. /\ k.kind = "catalog" /\ k.url \in Catalogs /\ w.row \in Prior(k) /\ w.i \in Nat \ {0}
      /\ items[k].depth \in Nat /\ w.row \in Nat
  BY <1>1, AtWork DEF CatalogWork
<1>3. DOMAIN Document[k.url] = 1..Len(Document[k.url]) /\ Len(Document[k.url]) \in Nat
  BY <1>2, Documents
<1>4. CASE w.i > Len(Document[k.url])
  <2>1. Moves(k, [w EXCEPT !.pc = "done"]) /\ UNCHANGED <<items, registries>>
    BY <1>4 DEF FollowEntry
  <2>2. Put(k, "done", w.i, w.row, w.reg)
    BY <1>1, <2>1, Puts DEF Base
  <2>3. Keeps
    BY <1>1, <2>1, Unchanged DEF Keeps, Base
  <2> QED BY <1>1, <1>2, <1>4, <2>1, <2>2, <2>3 DEF EntriesDone
<1>5. CASE ~(w.i > Len(Document[k.url]))
  <2> DEFINE id == EntryRow(w.row, w.i)
             ref == [entry |-> id, url |-> e.url, from |-> 0]
  <2>1. w.i \in DOMAIN Document[k.url]
    BY <1>2, <1>3, <1>5
  <2>2. /\ e.kind \in PointerKinds /\ e.url \in URL
        /\ e.kind = "catalog" => e.url \in Catalogs
        /\ e.kind = "registry" => e.url \in Registries
    BY <1>2, <2>1, Documents
  <2>3. \/ /\ e.kind = "catalog" /\ UNCHANGED registries /\ Moves(k, [w EXCEPT !.i = @ + 1])
           /\ items' = Ensured(CatalogKey(e.url, w.row), items[k].depth + 1)
        \/ /\ e.kind = "artifact" /\ UNCHANGED registries /\ Moves(k, [w EXCEPT !.i = @ + 1])
           /\ items' = Ensured(ArtifactKey(e.url, id), 0)
        \/ /\ e.kind = "registry" /\ UNCHANGED items /\ SaveRegistry(ref)
           /\ Moves(k, [w EXCEPT !.pc = "ensure", !.reg = SavedRegistry(ref)])
    BY <1>5 DEF FollowEntry
  <2>4. id \in Nat /\ id \in DOMAIN entries
    <3>1. w.row \in DOMAIN catalogs /\ catalogs[w.row].url = k.url
      BY <1>2 DEF Prior, PriorRows
    <3> QED BY <2>1, <3>1, EntryRowIs, Domains DEF Base
  <2> HIDE DEF id
  <2>5. Moves(k, [w EXCEPT !.i = @ + 1]) => Put(k, "entries", w.i + 1, w.row, w.reg)
    BY <1>1, Puts DEF Base
  <2>6. CASE /\ e.kind = "catalog" /\ UNCHANGED registries /\ Moves(k, [w EXCEPT !.i = @ + 1])
             /\ items' = Ensured(CatalogKey(e.url, w.row), items[k].depth + 1)
    <3>1. CatalogKey(e.url, w.row) \in Key /\ items[k].depth + 1 \in Nat
      BY <1>2, <2>2, Keys
    <3>2. Keeps
      BY <1>1, <2>6, <3>1, EnsuredRow, Unchanged DEF Keeps, Base
    <3> QED BY <1>1, <1>2, <2>1, <2>2, <2>5, <2>6, <3>2 DEF EntryIsCatalog
  <2>7. CASE /\ e.kind = "artifact" /\ UNCHANGED registries /\ Moves(k, [w EXCEPT !.i = @ + 1])
             /\ items' = Ensured(ArtifactKey(e.url, id), 0)
    <3>1. ArtifactKey(e.url, id) \in Key
      BY <2>2, <2>4, Keys
    <3>2. Keeps
      BY <1>1, <2>7, <3>1, EnsuredRow, Unchanged DEF Keeps, Base
    <3> QED BY <1>1, <1>2, <2>1, <2>2, <2>5, <2>7, <3>2 DEF id, EntryIsArtifact
  <2>8. CASE /\ e.kind = "registry" /\ UNCHANGED items /\ SaveRegistry(ref)
             /\ Moves(k, [w EXCEPT !.pc = "ensure", !.reg = SavedRegistry(ref)])
    <3>1. ref \in RegistryRow
      BY <2>2, <2>4, <2>8 DEF RegistryRow
    <3> HIDE DEF ref
    <3>2. PICK r : r = SavedRegistry(ref)
      OBVIOUS
    <3>3. Put(k, "ensure", w.i, w.row, r)
      BY <1>1, <2>8, <3>2, Puts DEF Base
    <3>4. Keeps
      BY <1>1, <2>8, <3>1, <3>2, SavedRow, Unchanged DEF Keeps, Base
    <3>5. r \in Nat /\ ref.entry \in DOMAIN entries
      BY <2>4, <2>8, <3>1, <3>2, SavedRow DEF Base, ref
    <3>6. EntryIsRegistry(k, w, e)
      BY <2>1, <2>2, <2>8, <3>1, <3>2, <3>3, <3>5 DEF EntryIsRegistry, ref, id
    <3> QED BY <1>1, <1>2, <3>4, <3>6
  <2> QED BY <2>3, <2>6, <2>7, <2>8
<1> QED BY <1>4, <1>5

LEMMA EnsureRegistryDoes ==
  ASSUME Base, NEW k \in DOMAIN items, EnsureRegistry(k), NEW w, w = work[k]
  PROVE  /\ k \in DOMAIN work /\ k.kind = "catalog" /\ w.pc = "ensure"
         /\ Keeps /\ UNCHANGED <<catalogs, entries, registries>>
         /\ Put(k, "entries", w.i + 1, w.row, w.reg)
         /\ w.reg \in DOMAIN registries /\ registries[w.reg].url \in Registries
         /\ items' = Ensured(RegistryKey(registries[w.reg].url, w.reg), 0)
<1>1. /\ k \in DOMAIN work /\ k.kind = "catalog" /\ w.pc = "ensure"
      /\ UNCHANGED <<catalogs, entries, registries>>
      /\ items' = Ensured(RegistryKey(registries[w.reg].url, w.reg), 0)
      /\ Moves(k, [w EXCEPT !.pc = "entries", !.i = @ + 1])
  BY DEF EnsureRegistry, At
<1>2. w.reg \in DOMAIN registries /\ w.reg \in Nat
  BY <1>1, AtWork DEF CatalogWork
<1>3. registries[w.reg].url \in Registries
  BY <1>2, Domains DEF Base
<1>4. RegistryKey(registries[w.reg].url, w.reg) \in Key
  BY <1>2, <1>3, Keys DEF URL
<1>5. Put(k, "entries", w.i + 1, w.row, w.reg)
  BY <1>1, Puts DEF Base
<1>6. Keeps
  BY <1>1, <1>4, EnsuredRow, Unchanged DEF Keeps, Base
<1> QED BY <1>1, <1>2, <1>3, <1>5, <1>6

LEMMA HarvestDoes ==
  ASSUME Base, NEW k \in DOMAIN items, Harvest(k), NEW w, w = work[k]
  PROVE  /\ k \in DOMAIN work /\ k.kind = "registry" /\ w.pc = "start"
         /\ Keeps /\ UNCHANGED <<catalogs, registries, items>>
         /\ \/ Put(k, "done", w.i, w.row, w.reg) /\ UNCHANGED entries
            \/ /\ Put(k, "results", w.i, Len(entries), w.reg)
               /\ entries' = entries \o EntryRows(OwnCatalog(k), k.of, Results[k.url])
<1>1. /\ k \in DOMAIN work /\ k.kind = "registry" /\ w.pc = "start"
      /\ UNCHANGED <<catalogs, registries, items>>
      /\ \/ Moves(k, [w EXCEPT !.pc = "done"]) /\ UNCHANGED entries
         \/ /\ Moves(k, [w EXCEPT !.pc = "results", !.row = Len(entries)])
            /\ entries' = entries \o EntryRows(OwnCatalog(k), k.of, Results[k.url])
  BY DEF Harvest, At
<1>2. k.of \in Nat /\ k.url \in Registries /\ OwnCatalog(k) \in Nat
  BY <1>1, AtWork, Domains DEF Base
<1>3. EntryRows(OwnCatalog(k), k.of, Results[k.url]) \in Seq(EntryRecord)
  BY <1>2, Returned, EntryRowsAre
<1>4. CASE Moves(k, [w EXCEPT !.pc = "done"]) /\ UNCHANGED entries
  <2>1. Put(k, "done", w.i, w.row, w.reg)
    BY <1>1, <1>4, Puts DEF Base
  <2>2. Keeps
    BY <1>1, <1>4, Unchanged DEF Keeps, Base
  <2> QED BY <1>1, <1>4, <2>1, <2>2
<1>5. CASE /\ Moves(k, [w EXCEPT !.pc = "results", !.row = Len(entries)])
           /\ entries' = entries \o EntryRows(OwnCatalog(k), k.of, Results[k.url])
  <2>1. Put(k, "results", w.i, Len(entries), w.reg)
    BY <1>1, <1>5, Puts DEF Base
  <2>2. entries' \in Seq(EntryRecord) /\ Grows(entries, entries')
    BY <1>3, <1>5, Concatenated DEF Base, TypeOK
  <2>3. Keeps
    BY <1>1, <2>2, Unchanged DEF Keeps, Base
  <2> QED BY <1>1, <1>5, <2>1, <2>3
<1> QED BY <1>1, <1>4, <1>5

\* The i-th result of a registry, by its kind.
ResultsDone(k, w) ==
  Put(k, "referrals", 1, w.row, w.reg) /\ UNCHANGED <<items, registries>>
ResultIsCatalog(k, w, e) ==
  /\ w.i \in DOMAIN Results[k.url] /\ e.kind = "catalog" /\ e.url \in Catalogs
  /\ Put(k, "results", w.i + 1, w.row, w.reg)
  /\ items' = Ensured(CatalogKey(e.url, OwnCatalog(k)), 0)
  /\ UNCHANGED registries
ResultIsArtifact(k, w) ==
  Put(k, "results", w.i + 1, w.row, w.reg) /\ UNCHANGED <<items, registries>>
ResultIsRegistry(k, w, e) ==
  /\ UNCHANGED items
  /\ \E row \in RegistryRow : \E r \in Nat :
       /\ row.entry \in DOMAIN entries /\ entries[row.entry].catalog = OwnCatalog(k)
       /\ SaveRegistry(row) /\ r = SavedRegistry(row) /\ Put(k, "ensure", w.i, w.row, r)

LEMMA FollowResultDoes ==
  ASSUME Base, NEW k \in DOMAIN items, FollowResult(k),
         NEW w, w = work[k], NEW e, e = Results[k.url][w.i]
  PROVE  /\ k \in DOMAIN work /\ k.kind = "registry" /\ w.pc = "results"
         /\ Keeps /\ UNCHANGED <<catalogs, entries>>
         /\ \/ ResultsDone(k, w) \/ ResultIsCatalog(k, w, e)
            \/ ResultIsArtifact(k, w) \/ ResultIsRegistry(k, w, e)
<1>1. k \in DOMAIN work /\ w.pc = "results" /\ UNCHANGED <<catalogs, entries>>
  BY DEF FollowResult, At
<1>2. /\ k.kind = "registry" /\ k.url \in Registries /\ w.i \in Nat \ {0} /\ w.row \in Nat
      /\ OwnCatalog(k) \in DOMAIN catalogs /\ OwnCatalog(k) \in Nat
      /\ \A j \in DOMAIN Results[k.url] :
           w.row + j \in DOMAIN entries /\ entries[w.row + j].catalog = OwnCatalog(k)
  BY <1>1, AtWork DEF RegistryWork
<1>3. /\ DOMAIN Results[k.url] = 1..Len(Results[k.url]) /\ Len(Results[k.url]) \in Nat
      /\ k.of \in Nat
  BY <1>1, <1>2, Returned, AtWork, Domains DEF Base
<1>4. CASE w.i > Len(Results[k.url])
  <2>1. Moves(k, [w EXCEPT !.pc = "referrals", !.i = 1]) /\ UNCHANGED <<items, registries>>
    BY <1>4 DEF FollowResult
  <2>2. Put(k, "referrals", 1, w.row, w.reg)
    BY <1>1, <2>1, Puts DEF Base
  <2>3. Keeps
    BY <1>1, <2>1, Unchanged DEF Keeps, Base
  <2> QED BY <1>1, <1>2, <2>1, <2>2, <2>3 DEF ResultsDone
<1>5. CASE ~(w.i > Len(Results[k.url]))
  <2> DEFINE ref == [entry |-> w.row + w.i, url |-> e.url, from |-> k.of]
  <2>1. w.i \in DOMAIN Results[k.url]
    BY <1>2, <1>3, <1>5
  <2>2. /\ e.kind \in PointerKinds /\ e.url \in URL
        /\ e.kind = "catalog" => e.url \in Catalogs
        /\ e.kind = "registry" => e.url \in Registries
    BY <1>2, <2>1, Returned
  <2>3. \/ /\ e.kind = "catalog" /\ UNCHANGED registries /\ Moves(k, [w EXCEPT !.i = @ + 1])
           /\ items' = Ensured(CatalogKey(e.url, OwnCatalog(k)), 0)
        \/ UNCHANGED <<items, registries>> /\ Moves(k, [w EXCEPT !.i = @ + 1])
        \/ /\ e.kind = "registry" /\ UNCHANGED items /\ SaveRegistry(ref)
           /\ Moves(k, [w EXCEPT !.pc = "ensure", !.reg = SavedRegistry(ref)])
    BY <1>5 DEF FollowResult
  <2>5. Moves(k, [w EXCEPT !.i = @ + 1]) => Put(k, "results", w.i + 1, w.row, w.reg)
    BY <1>1, Puts DEF Base
  <2>6. CASE /\ e.kind = "catalog" /\ UNCHANGED registries /\ Moves(k, [w EXCEPT !.i = @ + 1])
             /\ items' = Ensured(CatalogKey(e.url, OwnCatalog(k)), 0)
    <3>1. CatalogKey(e.url, OwnCatalog(k)) \in Key
      BY <1>2, <2>2, Keys
    <3>2. Keeps
      BY <1>1, <2>6, <3>1, EnsuredRow, Unchanged DEF Keeps, Base
    <3> QED BY <1>1, <1>2, <2>1, <2>2, <2>5, <2>6, <3>2 DEF ResultIsCatalog
  <2>7. CASE UNCHANGED <<items, registries>> /\ Moves(k, [w EXCEPT !.i = @ + 1])
    <3>1. Keeps
      BY <1>1, <2>7, Unchanged DEF Keeps, Base
    <3> QED BY <1>1, <1>2, <2>5, <2>7, <3>1 DEF ResultIsArtifact
  <2>8. CASE /\ e.kind = "registry" /\ UNCHANGED items /\ SaveRegistry(ref)
             /\ Moves(k, [w EXCEPT !.pc = "ensure", !.reg = SavedRegistry(ref)])
    <3>1. ref \in RegistryRow
      BY <1>2, <1>3, <2>2, <2>8 DEF RegistryRow
    <3> HIDE DEF ref
    <3>2. PICK r : r = SavedRegistry(ref)
      OBVIOUS
    <3>3. Put(k, "ensure", w.i, w.row, r)
      BY <1>1, <2>8, <3>2, Puts DEF Base
    <3>4. Keeps
      BY <1>1, <2>8, <3>1, <3>2, SavedRow, Unchanged DEF Keeps, Base
    <3>5. r \in Nat
      BY <2>8, <3>1, <3>2, SavedRow DEF Base
    <3>6. ref.entry \in DOMAIN entries /\ entries[ref.entry].catalog = OwnCatalog(k)
      BY <1>2, <2>1 DEF ref
    <3>7. ResultIsRegistry(k, w, e)
      BY <2>8, <3>1, <3>2, <3>3, <3>5, <3>6 DEF ResultIsRegistry
    <3> QED BY <1>1, <1>2, <3>4, <3>7
  <2> QED BY <2>3, <2>6, <2>7, <2>8
<1> QED BY <1>4, <1>5

\* The i-th referral.
ReferralsDone(k, w) ==
  Put(k, "done", w.i, w.row, w.reg) /\ UNCHANGED registries
Refers(k, w) ==
  \E row \in RegistryRow : \E r \in Nat :
    /\ row.entry = OwnEntry(k) /\ row.entry \in DOMAIN entries
    /\ SaveRegistry(row) /\ r = SavedRegistry(row) /\ Put(k, "ensure", w.i, w.row, r)

LEMMA FollowReferralDoes ==
  ASSUME Base, NEW k \in DOMAIN items, FollowReferral(k), NEW w, w = work[k]
  PROVE  /\ k \in DOMAIN work /\ k.kind = "registry" /\ w.pc = "referrals"
         /\ Keeps /\ UNCHANGED <<catalogs, entries, items>>
         /\ ReferralsDone(k, w) \/ Refers(k, w)
<1>1. k \in DOMAIN work /\ w.pc = "referrals" /\ UNCHANGED <<catalogs, entries, items>>
  BY DEF FollowReferral, At
<1>2. /\ k.kind = "registry" /\ k.url \in Registries /\ w.i \in Nat \ {0}
      /\ OwnEntry(k) \in Nat /\ OwnEntry(k) \in DOMAIN entries /\ k.of \in Nat
  BY <1>1, AtWork, Domains DEF Base
<1>3. /\ DOMAIN Referrals[k.url] = 1..Len(Referrals[k.url]) /\ Len(Referrals[k.url]) \in Nat
      /\ \A i \in DOMAIN Referrals[k.url] : Referrals[k.url][i] \in Registries
  BY <1>2, Referred
<1> DEFINE u == Referrals[k.url][w.i]
           ref == [entry |-> OwnEntry(k), url |-> u, from |-> k.of]
<1>4. CASE w.i > Len(Referrals[k.url]) \/ items[k].depth + 1 > MaxReferralDepth
  <2>1. Moves(k, [w EXCEPT !.pc = "done"]) /\ UNCHANGED registries
    BY <1>4 DEF FollowReferral
  <2>2. Put(k, "done", w.i, w.row, w.reg)
    BY <1>1, <2>1, Puts DEF Base
  <2>3. Keeps
    BY <1>1, <2>1, Unchanged DEF Keeps, Base
  <2> QED BY <1>1, <1>2, <2>1, <2>2, <2>3 DEF ReferralsDone
<1>5. CASE ~(w.i > Len(Referrals[k.url]) \/ items[k].depth + 1 > MaxReferralDepth)
  <2>1. SaveRegistry(ref) /\ Moves(k, [w EXCEPT !.pc = "ensure", !.reg = SavedRegistry(ref)])
    BY <1>5 DEF FollowReferral
  <2>2. u \in Registries
    BY <1>2, <1>3, <1>5
  <2>3. ref \in RegistryRow
    BY <1>2, <2>2 DEF RegistryRow
  <2> HIDE DEF ref
  <2>4. PICK r : r = SavedRegistry(ref)
    OBVIOUS
  <2>5. Put(k, "ensure", w.i, w.row, r)
    BY <1>1, <2>1, <2>4, Puts DEF Base
  <2>6. Keeps
    BY <1>1, <2>1, <2>3, <2>4, SavedRow, Unchanged DEF Keeps, Base
  <2>7. r \in Nat
    BY <2>1, <2>3, <2>4, SavedRow DEF Base
  <2>8. ref.entry = OwnEntry(k)
    BY DEF ref
  <2>9. Refers(k, w)
    BY <1>2, <2>1, <2>3, <2>4, <2>5, <2>7, <2>8 DEF Refers
  <2> QED BY <1>1, <1>2, <2>6, <2>9
<1> QED BY <1>4, <1>5

LEMMA EnsureReferredDoes ==
  ASSUME Base, NEW k \in DOMAIN items, EnsureReferred(k), NEW w, w = work[k]
  PROVE  /\ k \in DOMAIN work /\ k.kind = "registry" /\ w.pc = "ensure"
         /\ Keeps /\ UNCHANGED <<catalogs, entries, registries>>
         /\ \E p \in {"referrals", "results"} : Put(k, p, w.i + 1, w.row, w.reg)
         /\ w.reg \in DOMAIN registries /\ registries[w.reg].url \in Registries
         /\ entries[registries[w.reg].entry].catalog = OwnCatalog(k)
         /\ items' = Ensured(RegistryKey(registries[w.reg].url, w.reg), items[k].depth + 1)
<1> DEFINE p == IF registries[w.reg].entry = OwnEntry(k) THEN "referrals" ELSE "results"
<1>1. /\ k \in DOMAIN work /\ k.kind = "registry" /\ w.pc = "ensure"
      /\ UNCHANGED <<catalogs, entries, registries>>
      /\ items' = Ensured(RegistryKey(registries[w.reg].url, w.reg), items[k].depth + 1)
      /\ Moves(k, [w EXCEPT !.i = @ + 1, !.pc = p])
  BY DEF EnsureReferred, At
<1>2. /\ w.reg \in DOMAIN registries /\ w.reg \in Nat /\ items[k].depth + 1 \in Nat
      /\ entries[registries[w.reg].entry].catalog = OwnCatalog(k)
  BY <1>1, AtWork DEF RegistryWork
<1>3. registries[w.reg].url \in Registries
  BY <1>2, Domains DEF Base
<1>4. RegistryKey(registries[w.reg].url, w.reg) \in Key
  BY <1>2, <1>3, Keys DEF URL
<1>5. p \in {"referrals", "results"}
  OBVIOUS
<1> HIDE DEF p
<1>6. Put(k, p, w.i + 1, w.row, w.reg)
  BY <1>1, Puts DEF Base
<1>7. Keeps
  BY <1>1, <1>2, <1>4, EnsuredRow, Unchanged DEF Keeps, Base
<1> QED BY <1>1, <1>2, <1>3, <1>5, <1>6, <1>7

LEMMA FetchArtifactDoes ==
  ASSUME Base, NEW k \in DOMAIN items, FetchArtifact(k), NEW w, w = work[k]
  PROVE  /\ k \in DOMAIN work /\ k.kind = "artifact"
         /\ Keeps /\ UNCHANGED <<catalogs, entries, registries, items>>
         /\ Put(k, "done", w.i, w.row, w.reg)
<1>1. /\ k \in DOMAIN work /\ k.kind = "artifact" /\ UNCHANGED <<catalogs, entries, registries, items>>
      /\ Moves(k, [w EXCEPT !.pc = "done"])
  BY DEF FetchArtifact, At
<1> QED BY <1>1, Puts, Unchanged DEF Keeps, Base

-----------------------------------------------------------------------------
(* What every step does.                                                   *)

\* The steps of a handler that do not end it.
Works(k) ==
  \/ FetchCatalog(k) \/ FollowEntry(k) \/ EnsureRegistry(k)
  \/ Harvest(k) \/ FollowResult(k) \/ FollowReferral(k) \/ EnsureReferred(k)
  \/ FetchArtifact(k)

\* A handler starts or ends: no rows change but the status of items.
Answers ==
  /\ UNCHANGED <<catalogs, entries, registries>>
  /\ DOMAIN items' = DOMAIN items /\ items' \in [DOMAIN items -> Item]
  /\ \A x \in DOMAIN items :
       /\ items'[x].depth = items[x].depth
       /\ items'[x].status = "done" =>
            items[x].status = "done" \/ (x \in DOMAIN work /\ work[x].pc = "done")
  /\ DOMAIN work' \subseteq DOMAIN items /\ work' \in [DOMAIN work' -> Call]
  /\ \A x \in DOMAIN work' :
       /\ items'[x].status = "in_flight"
       /\ work'[x] = Started \/ (x \in DOMAIN work /\ work'[x] = work[x])

LEMMA Restatus ==
  ASSUME TypeOK, NEW k \in DOMAIN items,
         NEW s \in {"pending", "in_flight", "done", "failed"}, items' = [items EXCEPT ![k].status = s]
  PROVE  /\ DOMAIN items' = DOMAIN items /\ items' \in [DOMAIN items -> Item]
         /\ \A x \in DOMAIN items : items'[x].depth = items[x].depth
         /\ \A x \in DOMAIN items : x # k => items'[x] = items[x]
         /\ items'[k].status = s
<1> DEFINE v == [items[k] EXCEPT !.status = s]
<1>1. items[k] \in Item
  BY DEF TypeOK
<1>2. v \in Item /\ v.status = s /\ v.depth = items[k].depth
  BY <1>1 DEF Item
<1>3. items' = [items EXCEPT ![k] = v]
  OBVIOUS
<1>4. items \in [DOMAIN items -> Item]
  BY DEF TypeOK
<1> HIDE DEF v
<1> QED BY <1>2, <1>3, <1>4

LEMMA DequeueAnswers ==
  ASSUME Base, NEW k \in DOMAIN items, Dequeue(k)
  PROVE  Answers
<1>1. /\ items' = [items EXCEPT ![k].status = "in_flight"] /\ work' = With(work, k, Started)
      /\ UNCHANGED <<catalogs, entries, registries>>
  BY DEF Dequeue
<1>2. /\ DOMAIN items' = DOMAIN items /\ items' \in [DOMAIN items -> Item]
      /\ \A x \in DOMAIN items : items'[x].depth = items[x].depth
      /\ \A x \in DOMAIN items : x # k => items'[x] = items[x]
      /\ items'[k].status = "in_flight"
  BY <1>1, Restatus DEF Base
<1>3. Started \in Call
  BY DEF Started, Call
<1>4. /\ work \in [DOMAIN work -> Call] /\ DOMAIN work \subseteq DOMAIN items
      /\ \A x \in DOMAIN work : items[x].status = "in_flight"
  BY DEF Base, TypeOK, WorkInv
<1>5. /\ DOMAIN work' = DOMAIN work \union {k} /\ work' \in [DOMAIN work' -> Call]
      /\ work'[k] = Started /\ \A x \in DOMAIN work : x # k => work'[x] = work[x]
  BY <1>1, <1>3, <1>4 DEF With
<1>6. \A x \in DOMAIN items : items'[x].status = "done" => items[x].status = "done"
  BY <1>2
<1>7. \A x \in DOMAIN work' :
        /\ items'[x].status = "in_flight"
        /\ work'[x] = Started \/ (x \in DOMAIN work /\ work'[x] = work[x])
  BY <1>2, <1>4, <1>5
<1> QED BY <1>1, <1>2, <1>4, <1>5, <1>6, <1>7 DEF Answers

\* A handler ends and its item has another status.
LEMMA EndAnswers ==
  ASSUME Base, NEW k \in DOMAIN work, NEW s \in {"pending", "in_flight", "done", "failed"},
         s = "done" => work[k].pc = "done",
         items' = [items EXCEPT ![k].status = s], work' = Without(work, k),
         UNCHANGED <<catalogs, entries, registries>>
  PROVE  Answers
<1>1. /\ work \in [DOMAIN work -> Call] /\ DOMAIN work \subseteq DOMAIN items
      /\ \A x \in DOMAIN work : items[x].status = "in_flight"
  BY DEF Base, TypeOK, WorkInv
<1>2. /\ DOMAIN items' = DOMAIN items /\ items' \in [DOMAIN items -> Item]
      /\ \A x \in DOMAIN items : items'[x].depth = items[x].depth
      /\ \A x \in DOMAIN items : x # k => items'[x] = items[x]
      /\ items'[k].status = s
  BY <1>1, Restatus DEF Base
<1>3. /\ DOMAIN work' = DOMAIN work \ {k} /\ work' \in [DOMAIN work' -> Call]
      /\ \A x \in DOMAIN work' : work'[x] = work[x]
  BY <1>1 DEF Without
<1>4. \A x \in DOMAIN items : items'[x].status = "done" =>
        items[x].status = "done" \/ (x \in DOMAIN work /\ work[x].pc = "done")
  BY <1>2
<1>5. \A x \in DOMAIN work' :
        /\ items'[x].status = "in_flight"
        /\ work'[x] = Started \/ (x \in DOMAIN work /\ work'[x] = work[x])
  BY <1>1, <1>2, <1>3
<1> QED BY <1>1, <1>2, <1>3, <1>4, <1>5 DEF Answers

LEMMA CrashAnswers ==
  ASSUME Base, CrashRestart
  PROVE  Answers
<1>1. /\ items' = [k \in DOMAIN items |-> Reclaimed(items[k])] /\ work' = [k \in {} |-> Started]
      /\ UNCHANGED <<catalogs, entries, registries>>
  BY DEF CrashRestart
<1>2. ASSUME NEW v \in Item
      PROVE  /\ Reclaimed(v) \in Item /\ Reclaimed(v).depth = v.depth
             /\ Reclaimed(v).status = "done" => v.status = "done"
  BY DEF Reclaimed, Item
<1>3. \A x \in DOMAIN items : items[x] \in Item
  BY DEF Base, TypeOK
<1>4. /\ DOMAIN items' = DOMAIN items /\ items' \in [DOMAIN items -> Item]
      /\ \A x \in DOMAIN items : items'[x].depth = items[x].depth
      /\ \A x \in DOMAIN items : items'[x].status = "done" => items[x].status = "done"
  BY <1>1, <1>2, <1>3
<1>5. DOMAIN work' = {} /\ work' \in [DOMAIN work' -> Call]
  BY <1>1
<1> QED BY <1>1, <1>4, <1>5 DEF Answers

\* A step works, answers or stutters.
LEMMA StepCases ==
  ASSUME Base, [Next]_vars
  PROVE  \/ \E k \in DOMAIN items : Works(k)
         \/ Answers
         \/ UNCHANGED vars
<1>1. ASSUME NEW k \in DOMAIN items, Complete(k)
      PROVE  Answers
  <2>1. /\ k \in DOMAIN work /\ work[k].pc = "done" /\ UNCHANGED <<catalogs, entries, registries>>
        /\ items' = [items EXCEPT ![k].status = "done"] /\ work' = Without(work, k)
    BY <1>1 DEF Complete, At
  <2> QED BY <2>1, EndAnswers
<1>2. ASSUME NEW k \in DOMAIN items, HandlerFails(k)
      PROVE  Answers
  <2>1. PICK s \in {"pending", "failed"} : items' = [items EXCEPT ![k].status = s]
    BY <1>2 DEF HandlerFails
  <2>2. /\ k \in DOMAIN work /\ UNCHANGED <<catalogs, entries, registries>> /\ work' = Without(work, k)
    BY <1>2 DEF HandlerFails
  <2>3. s \in {"pending", "in_flight", "done", "failed"} /\ s # "done"
    OBVIOUS
  <2> QED BY <2>1, <2>2, <2>3, EndAnswers
<1>3. CASE Crawl
  <2>1. PICK k \in DOMAIN items : Dequeue(k) \/ Handle(k)
    BY <1>3 DEF Crawl
  <2>2. Handle(k) => Works(k) \/ Complete(k)
    BY DEF Handle, Works
  <2> QED BY <1>1, <2>1, <2>2, DequeueAnswers
<1>4. CASE \E k \in DOMAIN items : HandlerFails(k)
  BY <1>2, <1>4
<1>5. CASE CrashRestart
  BY <1>5, CrashAnswers
<1> QED BY <1>3, <1>4, <1>5 DEF Next

\* Rows are appended, and what is appended to a catalog that is there is of a
\* registry.
Extends ==
  /\ catalogs' \in Seq(CatalogRow) /\ Grows(catalogs, catalogs')
  /\ entries' \in Seq(EntryRecord) /\ Grows(entries, entries')
  /\ registries' \in Seq(RegistryRow) /\ Grows(registries, registries')
  /\ DOMAIN items' \subseteq Key /\ items' \in [DOMAIN items' -> Item]
  /\ DOMAIN items \subseteq DOMAIN items'
  /\ \A e \in DOMAIN entries' \ DOMAIN entries :
       /\ e > Len(entries)
       /\ entries'[e].catalog \in DOMAIN catalogs => entries'[e].from # 0

LEMMA HarvestRows ==
  ASSUME Base, NEW k \in DOMAIN items, k.kind = "registry",
         entries' = entries \o EntryRows(OwnCatalog(k), k.of, Results[k.url])
  PROVE  /\ k.of \in DOMAIN registries /\ OwnCatalog(k) \in DOMAIN catalogs
         /\ \A e \in DOMAIN entries' \ DOMAIN entries :
              /\ e > Len(entries) /\ entries'[e].from = k.of /\ k.of # 0
              /\ entries'[e].catalog = OwnCatalog(k)
         /\ \A j \in DOMAIN Results[k.url] :
              /\ Len(entries) + j \in DOMAIN entries'
              /\ entries'[Len(entries) + j].catalog = OwnCatalog(k)
<1>1. /\ k.of \in DOMAIN registries /\ k.url \in Registries /\ k.of # 0 /\ k.of \in Nat
      /\ OwnCatalog(k) \in DOMAIN catalogs /\ OwnCatalog(k) \in Nat
  <2>1. k.of \in DOMAIN registries /\ k.url = registries[k.of].url
    BY DEF Base, KeysInv
  <2>2. k.of # 0 /\ k.of \in Nat /\ k.url \in Registries
    BY <2>1, Domains DEF Base
  <2>3. OwnEntry(k) \in DOMAIN entries
    BY <2>1 DEF Base, RowsInv, OwnEntry
  <2>4. OwnCatalog(k) \in DOMAIN catalogs /\ OwnCatalog(k) \in Nat
    BY <2>3, Domains DEF Base, RowsInv, OwnCatalog
  <2> QED BY <2>1, <2>2, <2>4
<1> DEFINE new == EntryRows(OwnCatalog(k), k.of, Results[k.url])
<1>2. /\ new \in Seq(EntryRecord) /\ DOMAIN new = DOMAIN Results[k.url]
      /\ \A i \in DOMAIN Results[k.url] : new[i].catalog = OwnCatalog(k) /\ new[i].from = k.of
  <2>1. /\ Results[k.url] \in Seq(Entry)
        /\ \A i \in DOMAIN Results[k.url] :
             Results[k.url][i].kind \in PointerKinds /\ Results[k.url][i].url \in URL
    BY <1>1, Returned
  <2>2. PICK list, c, f : list = Results[k.url] /\ c = OwnCatalog(k) /\ f = k.of
    OBVIOUS
  <2>3. /\ EntryRows(c, f, list) \in Seq(EntryRecord) /\ DOMAIN EntryRows(c, f, list) = DOMAIN list
        /\ \A i \in DOMAIN list : EntryRows(c, f, list)[i].catalog = c /\ EntryRows(c, f, list)[i].from = f
    <3>1. c \in Nat /\ f \in Nat
      BY <1>1, <2>2
    <3>2. /\ list \in Seq(Entry)
          /\ \A i \in DOMAIN list : list[i].kind \in PointerKinds /\ list[i].url \in URL
      BY <2>1, <2>2
    <3> QED BY <3>1, <3>2, EntryRowsAre
  <2> QED BY <2>2, <2>3
<1>3. DOMAIN new = 1..Len(new) /\ Len(new) \in Nat
  <2>1. new \in Seq(EntryRecord)
    BY <1>2
  <2> HIDE DEF new
  <2> QED BY <2>1
<1> HIDE DEF new
<1>4. entries' = entries \o new /\ entries \in Seq(EntryRecord)
  BY DEF new, Base, TypeOK
<1>5. /\ \A e \in DOMAIN (entries \o new) :
           e \in DOMAIN entries \/ (e - Len(entries) \in DOMAIN new /\ (entries \o new)[e] = new[e - Len(entries)])
      /\ \A j \in DOMAIN new : Len(entries) + j \in DOMAIN (entries \o new)
                               /\ (entries \o new)[Len(entries) + j] = new[j]
      /\ Len(entries) \in Nat /\ DOMAIN (entries \o new) \subseteq Int
  BY <1>2, <1>4, Concatenated
<1>6. \A e \in DOMAIN entries' \ DOMAIN entries : e > Len(entries)
  BY <1>3, <1>4, <1>5
<1> QED BY <1>1, <1>2, <1>4, <1>5, <1>6, SMTT(30)

LEMMA DocumentRows ==
  ASSUME Base, NEW k \in DOMAIN items, k.kind = "catalog", NEW c, c = Len(catalogs) + 1,
         entries' = entries \o EntryRows(c, 0, Document[k.url])
  PROVE  /\ k.url \in Catalogs /\ c \in Nat /\ c \notin DOMAIN catalogs
         /\ \A e \in DOMAIN entries' \ DOMAIN entries : e > Len(entries) /\ entries'[e].catalog = c
         /\ Leads(entries', c, Len(Document[k.url]), Len(entries))
<1>1. /\ k.url \in Catalogs /\ c \in Nat /\ c \notin DOMAIN catalogs
      /\ \A e \in DOMAIN entries : entries[e].catalog # c
  BY Domains DEF Base, KeysInv, RowsInv
<1> DEFINE new == EntryRows(c, 0, Document[k.url])
<1>2. /\ new \in Seq(EntryRecord) /\ DOMAIN new = DOMAIN Document[k.url]
      /\ \A i \in DOMAIN Document[k.url] : new[i].catalog = c /\ new[i].from = 0
  <2>1. /\ Document[k.url] \in Seq(Entry)
        /\ \A i \in DOMAIN Document[k.url] :
             Document[k.url][i].kind \in PointerKinds /\ Document[k.url][i].url \in URL
    BY <1>1, Documents
  <2>2. PICK list : list = Document[k.url]
    OBVIOUS
  <2>3. /\ EntryRows(c, 0, list) \in Seq(EntryRecord) /\ DOMAIN EntryRows(c, 0, list) = DOMAIN list
        /\ \A i \in DOMAIN list : EntryRows(c, 0, list)[i].catalog = c /\ EntryRows(c, 0, list)[i].from = 0
    BY <1>1, <2>1, <2>2, EntryRowsAre, SMTT(30)
  <2> QED BY <2>2, <2>3
<1>3. DOMAIN new = 1..Len(Document[k.url]) /\ Len(Document[k.url]) \in Nat
  BY <1>1, <1>2, Documents
<1> HIDE DEF new
<1>4. entries' = entries \o new /\ entries \in Seq(EntryRecord)
  BY DEF new, Base, TypeOK
<1>5. /\ \A e \in DOMAIN (entries \o new) :
           e \in DOMAIN entries \/ (e - Len(entries) \in DOMAIN new /\ (entries \o new)[e] = new[e - Len(entries)])
      /\ \A j \in DOMAIN new : Len(entries) + j \in DOMAIN (entries \o new)
                               /\ (entries \o new)[Len(entries) + j] = new[j]
      /\ Len(entries) \in Nat /\ DOMAIN (entries \o new) \subseteq Int /\ Grows(entries, entries \o new)
  BY <1>2, <1>4, Concatenated
<1> PICK n : n = Len(Document[k.url])
  OBVIOUS
<1>6. \A e \in DOMAIN entries' \ DOMAIN entries :
        e > Len(entries) /\ e <= Len(entries) + n /\ entries'[e].catalog = c
  <2> SUFFICES ASSUME NEW e \in DOMAIN entries' \ DOMAIN entries
               PROVE  e > Len(entries) /\ e <= Len(entries) + n /\ entries'[e].catalog = c
    OBVIOUS
  <2>1. e - Len(entries) \in DOMAIN new /\ entries'[e] = new[e - Len(entries)] /\ e \in Int
    BY <1>4, <1>5
  <2>2. e - Len(entries) \in 1..n /\ entries'[e].catalog = c
    BY <1>2, <1>3, <2>1
  <2> QED BY <1>3, <1>5, <2>1, <2>2
<1>7. \A i \in 1..n :
        /\ Len(entries) + i \in DOMAIN entries' /\ entries'[Len(entries) + i].catalog = c
        /\ entries'[Len(entries) + i].from = 0
  <2> SUFFICES ASSUME NEW i \in 1..n
               PROVE  /\ Len(entries) + i \in DOMAIN entries' /\ entries'[Len(entries) + i].catalog = c
                      /\ entries'[Len(entries) + i].from = 0
    OBVIOUS
  <2>1. i \in DOMAIN new /\ new[i].catalog = c /\ new[i].from = 0
    BY <1>2, <1>3
  <2>2. Len(entries) + i \in DOMAIN entries' /\ entries'[Len(entries) + i] = new[i]
    BY <1>4, <1>5, <2>1
  <2> QED BY <2>1, <2>2
<1>8. \A e \in RowsOf(entries', c) :
        e \in DOMAIN entries' \ DOMAIN entries
  BY <1>1, <1>4, <1>5 DEF RowsOf, Grows
<1>9. \A e \in RowsOf(entries', c) :
        e > Len(entries) /\ ~(e > Len(entries) + n)
  <2> SUFFICES ASSUME NEW e \in RowsOf(entries', c)
               PROVE  e > Len(entries) /\ ~(e > Len(entries) + n)
    OBVIOUS
  <2>1. e \in DOMAIN entries' \ DOMAIN entries /\ e \in Int
    BY <1>4, <1>5, <1>8
  <2>2. e > Len(entries) /\ e <= Len(entries) + n
    BY <1>6, <2>1
  <2>3. n \in Nat /\ Len(entries) \in Nat
    BY <1>3, <1>5
  <2> QED BY <2>1, <2>2, <2>3
<1>10. Leads(entries', c, n, Len(entries))
  <2>1. PICK t, b : t = entries' /\ b = Len(entries)
    OBVIOUS
  <2>2. Leads(t, c, n, b)
    BY <1>7, <1>9, <2>1 DEF Leads
  <2> QED BY <2>1, <2>2
<1> QED BY <1>1, <1>6, <1>10

LEMMA WorksExtends ==
  ASSUME Base, NEW k \in DOMAIN items, Works(k)
  PROVE  /\ Extends /\ Grows(items, items') /\ k \in DOMAIN work
         /\ DOMAIN work' = DOMAIN work /\ work' \in [DOMAIN work' -> Call]
         /\ \A x \in DOMAIN work : x # k => work'[x] = work[x]
<1> DEFINE Moved == /\ k \in DOMAIN work
                    /\ DOMAIN work' = DOMAIN work /\ work' \in [DOMAIN work' -> Call]
                    /\ \A x \in DOMAIN work : x # k => work'[x] = work[x]
<1> PICK w : w = work[k]
  OBVIOUS
<1>1. ASSUME k \in DOMAIN work,
             NEW p \in {"start", "entries", "results", "referrals", "ensure", "done"},
             NEW j \in Nat \ {0}, NEW row \in Nat, NEW reg \in Nat, Put(k, p, j, row, reg)
      PROVE  Moved
  BY <1>1, PutDoes DEF Base
<1>2. k \in DOMAIN work => /\ w.i \in Nat \ {0} /\ w.row \in Nat /\ w.reg \in Nat
                           /\ w.i + 1 \in Nat \ {0}
  BY AtWork
<1>3. Keeps /\ UNCHANGED entries => Extends
  BY DEF Keeps, Extends, Grows
<1>4. Keeps => Grows(items, items')
  BY DEF Keeps
<1> HIDE DEF Moved
<1>5. CASE FetchCatalog(k)
  <2>1. /\ k \in DOMAIN work /\ k.kind = "catalog" /\ Keeps /\ work[k].i = 1
        /\ \/ \E c \in Prior(k) :
                /\ UNCHANGED <<catalogs, entries>>
                /\ \/ FollowsEntries(k) /\ Put(k, "entries", 1, c, work[k].reg)
                   \/ ~Resumes(k, c) /\ Put(k, "done", 1, c, work[k].reg)
           \/ /\ entries' = entries \o EntryRows(Len(catalogs) + 1, 0, Document[k.url])
              /\ \/ FollowsEntries(k) /\ Put(k, "entries", 1, Len(catalogs) + 1, work[k].reg)
                 \/ ~FollowsEntries(k) /\ Put(k, "done", 1, Len(catalogs) + 1, work[k].reg)
    BY <1>5, FetchCatalogDoes
  <2>2. CASE \E c \in Prior(k) :
                /\ UNCHANGED <<catalogs, entries>>
                /\ \/ FollowsEntries(k) /\ Put(k, "entries", 1, c, work[k].reg)
                   \/ ~Resumes(k, c) /\ Put(k, "done", 1, c, work[k].reg)
    <3>1. PICK c \in Prior(k) :
                /\ UNCHANGED <<catalogs, entries>>
                /\ Put(k, "entries", 1, c, w.reg) \/ Put(k, "done", 1, c, w.reg)
      BY <2>2
    <3>2. c \in Nat
      BY Domains DEF Base, Prior, PriorRows
    <3>3. Moved
      BY <1>1, <1>2, <2>1, <3>1, <3>2
    <3> QED BY <1>3, <1>4, <2>1, <3>1, <3>3 DEF Moved
  <2>3. CASE /\ entries' = entries \o EntryRows(Len(catalogs) + 1, 0, Document[k.url])
             /\ \/ FollowsEntries(k) /\ Put(k, "entries", 1, Len(catalogs) + 1, work[k].reg)
                \/ ~FollowsEntries(k) /\ Put(k, "done", 1, Len(catalogs) + 1, work[k].reg)
    <3>1. PICK c : c = Len(catalogs) + 1
      OBVIOUS
    <3>2. /\ c \in Nat /\ c \notin DOMAIN catalogs
          /\ \A e \in DOMAIN entries' \ DOMAIN entries : e > Len(entries) /\ entries'[e].catalog = c
      BY <2>1, <2>3, <3>1, DocumentRows
    <3>3. Extends
      BY <2>1, <3>2 DEF Keeps, Extends, Grows
    <3>4. Moved
      BY <1>1, <1>2, <2>1, <2>3, <3>1, <3>2
    <3> QED BY <1>4, <2>1, <3>3, <3>4 DEF Moved
  <2> QED BY <2>1, <2>2, <2>3
<1>6. CASE FollowEntry(k)
  <2> PICK e : e = Document[k.url][w.i]
    OBVIOUS
  <2>1. k \in DOMAIN work /\ Keeps /\ UNCHANGED entries
    BY <1>6, FollowEntryDoes
  <2>2. CASE EntriesDone(k, w) \/ EntryIsCatalog(k, w, e) \/ EntryIsArtifact(k, w, e)
    <3>1. Put(k, "done", w.i, w.row, w.reg) \/ Put(k, "entries", w.i + 1, w.row, w.reg)
      BY <2>2 DEF EntriesDone, EntryIsCatalog, EntryIsArtifact
    <3>2. Moved
      BY <1>1, <1>2, <2>1, <3>1
    <3> QED BY <1>3, <1>4, <2>1, <3>2 DEF Moved
  <2>3. CASE EntryIsRegistry(k, w, e)
    <3>1. PICK r \in Nat : Put(k, "ensure", w.i, w.row, r)
      BY <2>3 DEF EntryIsRegistry
    <3>2. Moved
      BY <1>1, <1>2, <2>1, <3>1
    <3> QED BY <1>3, <1>4, <2>1, <3>2 DEF Moved
  <2> QED BY <1>6, <2>2, <2>3, FollowEntryDoes
<1>7. CASE EnsureRegistry(k)
  <2>1. k \in DOMAIN work /\ Keeps /\ UNCHANGED entries /\ Put(k, "entries", w.i + 1, w.row, w.reg)
    BY <1>7, EnsureRegistryDoes
  <2>2. Moved
    BY <1>1, <1>2, <2>1
  <2> QED BY <1>3, <1>4, <2>1, <2>2 DEF Moved
<1>8. CASE Harvest(k)
  <2>1. /\ k \in DOMAIN work /\ k.kind = "registry" /\ Keeps
        /\ \/ Put(k, "done", w.i, w.row, w.reg) /\ UNCHANGED entries
           \/ /\ Put(k, "results", w.i, Len(entries), w.reg)
              /\ entries' = entries \o EntryRows(OwnCatalog(k), k.of, Results[k.url])
    BY <1>8, HarvestDoes
  <2>2. Len(entries) \in Nat
    BY Domains DEF Base
  <2>3. Moved
    BY <1>1, <1>2, <2>1, <2>2
  <2>4. Extends
    BY <1>3, <2>1, HarvestRows DEF Keeps, Extends, Grows
  <2> QED BY <1>4, <2>1, <2>3, <2>4 DEF Moved
<1>9. CASE FollowResult(k)
  <2> PICK e : e = Results[k.url][w.i]
    OBVIOUS
  <2>1. k \in DOMAIN work /\ Keeps /\ UNCHANGED entries
    BY <1>9, FollowResultDoes
  <2>2. CASE ResultsDone(k, w) \/ ResultIsCatalog(k, w, e) \/ ResultIsArtifact(k, w)
    <3>1. Put(k, "referrals", 1, w.row, w.reg) \/ Put(k, "results", w.i + 1, w.row, w.reg)
      BY <2>2 DEF ResultsDone, ResultIsCatalog, ResultIsArtifact
    <3>2. Moved
      BY <1>1, <1>2, <2>1, <3>1
    <3> QED BY <1>3, <1>4, <2>1, <3>2 DEF Moved
  <2>3. CASE ResultIsRegistry(k, w, e)
    <3>1. PICK r \in Nat : Put(k, "ensure", w.i, w.row, r)
      BY <2>3 DEF ResultIsRegistry
    <3>2. Moved
      BY <1>1, <1>2, <2>1, <3>1
    <3> QED BY <1>3, <1>4, <2>1, <3>2 DEF Moved
  <2> QED BY <1>9, <2>2, <2>3, FollowResultDoes
<1>10. CASE FollowReferral(k)
  <2>1. k \in DOMAIN work /\ Keeps /\ UNCHANGED entries
    BY <1>10, FollowReferralDoes
  <2>2. CASE ReferralsDone(k, w)
    <3>1. Moved
      BY <1>1, <1>2, <2>1, <2>2 DEF ReferralsDone
    <3> QED BY <1>3, <1>4, <2>1, <3>1 DEF Moved
  <2>3. CASE Refers(k, w)
    <3>1. PICK r \in Nat : Put(k, "ensure", w.i, w.row, r)
      BY <2>3 DEF Refers
    <3>2. Moved
      BY <1>1, <1>2, <2>1, <3>1
    <3> QED BY <1>3, <1>4, <2>1, <3>2 DEF Moved
  <2> QED BY <1>10, <2>2, <2>3, FollowReferralDoes
<1>11. CASE EnsureReferred(k)
  <2>1. k \in DOMAIN work /\ Keeps /\ UNCHANGED entries
    BY <1>11, EnsureReferredDoes
  <2>2. PICK p \in {"referrals", "results"} : Put(k, p, w.i + 1, w.row, w.reg)
    BY <1>11, EnsureReferredDoes
  <2>3. Moved
    BY <1>1, <1>2, <2>1, <2>2
  <2> QED BY <1>3, <1>4, <2>1, <2>3 DEF Moved
<1>12. CASE FetchArtifact(k)
  <2>1. k \in DOMAIN work /\ Keeps /\ UNCHANGED entries /\ Put(k, "done", w.i, w.row, w.reg)
    BY <1>12, FetchArtifactDoes
  <2>2. Moved
    BY <1>1, <1>2, <2>1
  <2> QED BY <1>3, <1>4, <2>1, <2>2 DEF Moved
<1> QED BY <1>5, <1>6, <1>7, <1>8, <1>9, <1>10, <1>11, <1>12 DEF Works

\* What was answered or left alone extends the rows, too.
LEMMA AnswersExtends ==
  ASSUME Base, Answers \/ UNCHANGED vars
  PROVE  Extends /\ UNCHANGED <<catalogs, entries, registries>> /\ DOMAIN items' = DOMAIN items
<1>1. UNCHANGED <<catalogs, entries, registries>> /\ DOMAIN items' = DOMAIN items
  BY DEF Answers, vars
<1>2. DOMAIN items' \subseteq Key /\ items' \in [DOMAIN items' -> Item]
  <2>1. DOMAIN items \subseteq Key /\ items \in [DOMAIN items -> Item]
    BY DEF Base, TypeOK
  <2>2. CASE Answers
    BY <2>1, <2>2 DEF Answers
  <2>3. CASE UNCHANGED vars
    BY <2>1, <2>3 DEF vars
  <2> QED BY <2>2, <2>3
<1> QED BY <1>1, <1>2 DEF Extends, Grows, Base, TypeOK

LEMMA StepExtends ==
  ASSUME Base, [Next]_vars
  PROVE  Extends
BY StepCases, WorksExtends, AnswersExtends

LEMMA LeadsStays ==
  ASSUME NEW s, NEW t, NEW len \in Nat, DOMAIN s = 1..len, Grows(s, t),
         NEW c, NEW n \in Nat, NEW b \in 0..len, Leads(s, c, n, b), DOMAIN t \subseteq Nat,
         \A e \in DOMAIN t \ DOMAIN s : e > len /\ (t[e].catalog = c => t[e].from # 0)
  PROVE  Leads(t, c, n, b)
<1>1. \A i \in 1..n : b + i \in DOMAIN t /\ t[b + i].catalog = c /\ t[b + i].from = 0
  BY DEF Leads, Grows
<1>2. ASSUME NEW e \in RowsOf(t, c)
      PROVE  e > b /\ (e > b + n => t[e].from # 0)
  <2>1. e \in DOMAIN t /\ t[e].catalog = c /\ e \in Nat
    BY DEF RowsOf
  <2>2. CASE e \in DOMAIN s
    <3>1. e \in RowsOf(s, c) /\ t[e] = s[e]
      BY <2>1, <2>2 DEF RowsOf, Grows
    <3> QED BY <3>1 DEF Leads
  <2>3. CASE e \notin DOMAIN s
    BY <2>1, <2>3
  <2> QED BY <2>2, <2>3
<1> QED BY <1>1, <1>2 DEF Leads

LEMMA BlockStays ==
  ASSUME Base, Extends, NEW c \in DOMAIN catalogs, NEW b \in 0..Len(entries), Block(c, b)
  PROVE  /\ Leads(entries', c, Len(Document[catalogs[c].url]), b)
         /\ Block(c, b)' /\ b \in 0..Len(entries')
<1>1. /\ catalogs'[c] = catalogs[c] /\ DOMAIN entries = 1..Len(entries) /\ Len(entries) \in Nat
      /\ DOMAIN entries' = 1..Len(entries') /\ Len(entries') \in Nat /\ Grows(entries, entries')
      /\ DOMAIN entries' \subseteq Nat
  BY Domains DEF Base, Extends, Grows
<1>2. Document[catalogs[c].url] \in Seq(Entry) /\ Len(Document[catalogs[c].url]) \in Nat
  BY Domains, Documents DEF Base
<1>3. \A e \in DOMAIN entries' \ DOMAIN entries :
        e > Len(entries) /\ (entries'[e].catalog = c => entries'[e].from # 0)
  BY DEF Extends
<1>4. PICK s, t, len, n : /\ s = entries /\ t = entries' /\ len = Len(entries)
                          /\ n = Len(Document[catalogs[c].url])
  OBVIOUS
<1>5. Leads(s, c, n, b)
  BY <1>4 DEF Block
<1>6. /\ len \in Nat /\ DOMAIN s = 1..len /\ Grows(s, t) /\ n \in Nat /\ b \in 0..len
      /\ DOMAIN t \subseteq Nat
      /\ \A e \in DOMAIN t \ DOMAIN s : e > len /\ (t[e].catalog = c => t[e].from # 0)
  BY <1>1, <1>2, <1>3, <1>4
<1>7. Leads(t, c, n, b)
  BY <1>5, <1>6, LeadsStays
<1>8. Leads(entries', c, Len(Document[catalogs[c].url]), b)
  BY <1>4, <1>7
<1>9. Block(c, b)'
  BY <1>1, <1>8 DEF Block
<1>10. b \in 0..Len(entries')
  <2>1. Len(entries) <= Len(entries')
    BY <1>1 DEF Grows
  <2> QED BY <1>1, <2>1
<1> QED BY <1>8, <1>9, <1>10

\* The row of an entry of the document, once and for all.
LEMMA EntryRowStays ==
  ASSUME Base, Extends, NEW c \in DOMAIN catalogs, NEW i \in DOMAIN Document[catalogs[c].url]
  PROVE  EntryRow(c, i)' = EntryRow(c, i)
<1>1. PICK b \in 0..Len(entries) : Block(c, b)
  BY DEF Base, RowsInv
<1>2. PICK n : n = Len(Document[catalogs[c].url])
  OBVIOUS
<1>3. n \in Nat /\ i \in 1..n /\ b \in Nat
  BY <1>2, Domains, Documents DEF Base
<1>4. PICK s, t : s = entries /\ t = entries'
  OBVIOUS
<1>5. DOMAIN s \subseteq Nat /\ DOMAIN t \subseteq Nat
  BY <1>4, Domains DEF Base, Extends
<1>6. Leads(s, c, n, b)
  BY <1>1, <1>2, <1>4 DEF Block
<1>7. Leads(t, c, n, b)
  BY <1>1, <1>2, <1>4, BlockStays
<1>8. RowOf(s, c, i) = b + i /\ RowOf(t, c, i) = b + i
  BY <1>3, <1>5, <1>6, <1>7, RowIs
<1>9. EntryRow(c, i) = RowOf(s, c, i)
  BY <1>4 DEF EntryRow, RowOf, EntriesOf, RowsOf
<1>10. EntryRow(c, i)' = RowOf(t, c, i)
  BY <1>4 DEF EntryRow, RowOf, EntriesOf, RowsOf
<1> QED BY <1>8, <1>9, <1>10

-----------------------------------------------------------------------------
(* Types and rows.                                                         *)

LEMMA TypeInit ==
  Init => TypeOK
<1> SUFFICES ASSUME Init PROVE TypeOK
  OBVIOUS
<1>1. catalogs \in Seq(CatalogRow) /\ entries \in Seq(EntryRecord) /\ registries \in Seq(RegistryRow)
  BY DEF Init
<1>2. \A u \in Roots : CatalogKey(u, 0) \in Key
  BY Keys, WorldAssumption DEF URL
<1>3. DOMAIN items \subseteq Key
  BY <1>2 DEF Init
<1>4. items \in [DOMAIN items -> Item]
  <2>1. NewItem(0) \in Item
    BY DEF NewItem, Item
  <2> QED BY <2>1 DEF Init
<1>5. DOMAIN work \subseteq DOMAIN items /\ work \in [DOMAIN work -> Call]
  BY DEF Init
<1> QED BY <1>1, <1>3, <1>4, <1>5 DEF TypeOK

LEMMA TypeStep ==
  ASSUME Base, [Next]_vars
  PROVE  TypeOK'
<1>1. ASSUME NEW k \in DOMAIN items, Works(k)
      PROVE  TypeOK'
  <2>1. DOMAIN work' \subseteq DOMAIN items' /\ work' \in [DOMAIN work' -> Call]
    BY <1>1, WorksExtends DEF Base, TypeOK, Extends
  <2> QED BY <1>1, <2>1, WorksExtends DEF TypeOK, Extends
<1>2. CASE Answers
  <2>1. DOMAIN work' \subseteq DOMAIN items' /\ work' \in [DOMAIN work' -> Call]
    BY <1>2 DEF Answers
  <2> QED BY <1>2, <2>1, AnswersExtends DEF TypeOK, Extends
<1>3. CASE UNCHANGED vars
  BY <1>3 DEF Base, TypeOK, vars
<1> QED BY <1>1, <1>2, <1>3, StepCases

\* What a handler adds: a document with its entries, results, or a registry.
AddsDocument(k) ==
  /\ k.kind = "catalog" /\ k.url \in Catalogs /\ Prior(k) = {}
  /\ catalogs' = Append(catalogs, [url |-> k.url, parent |-> k.of])
  /\ entries' = entries \o EntryRows(Len(catalogs) + 1, 0, Document[k.url])
  /\ UNCHANGED <<registries, items>>
AddsResults(k) ==
  /\ k.kind = "registry" /\ k \in DOMAIN work
  /\ entries' = entries \o EntryRows(OwnCatalog(k), k.of, Results[k.url])
  /\ UNCHANGED <<catalogs, registries, items>>
AddsRegistry(row) ==
  /\ SaveRegistry(row) /\ row.entry \in DOMAIN entries
  /\ UNCHANGED <<catalogs, entries, items>>

LEMMA WorksAdds ==
  ASSUME Base, NEW k \in DOMAIN items, Works(k)
  PROVE  \/ UNCHANGED <<catalogs, entries, registries>>
         \/ AddsDocument(k) \/ AddsResults(k) \/ \E row \in RegistryRow : AddsRegistry(row)
<1> PICK w : w = work[k]
  OBVIOUS
<1>1. CASE FetchCatalog(k)
  BY <1>1, FetchCatalogDoes DEF AddsDocument
<1>2. CASE FollowEntry(k)
  <2> PICK e : e = Document[k.url][w.i]
    OBVIOUS
  <2>1. UNCHANGED <<catalogs, entries>>
    BY <1>2, FollowEntryDoes
  <2>2. CASE EntriesDone(k, w) \/ EntryIsCatalog(k, w, e) \/ EntryIsArtifact(k, w, e)
    BY <2>1, <2>2 DEF EntriesDone, EntryIsCatalog, EntryIsArtifact
  <2>3. CASE EntryIsRegistry(k, w, e)
    BY <2>1, <2>3 DEF EntryIsRegistry, AddsRegistry
  <2> QED BY <1>2, <2>2, <2>3, FollowEntryDoes
<1>3. CASE EnsureRegistry(k)
  BY <1>3, EnsureRegistryDoes
<1>4. CASE Harvest(k)
  BY <1>4, HarvestDoes DEF AddsResults
<1>5. CASE FollowResult(k)
  <2> PICK e : e = Results[k.url][w.i]
    OBVIOUS
  <2>1. UNCHANGED <<catalogs, entries>>
    BY <1>5, FollowResultDoes
  <2>2. CASE ResultsDone(k, w) \/ ResultIsCatalog(k, w, e) \/ ResultIsArtifact(k, w)
    BY <2>1, <2>2 DEF ResultsDone, ResultIsCatalog, ResultIsArtifact
  <2>3. CASE ResultIsRegistry(k, w, e)
    BY <2>1, <2>3 DEF ResultIsRegistry, AddsRegistry
  <2> QED BY <1>5, <2>2, <2>3, FollowResultDoes
<1>6. CASE FollowReferral(k)
  <2>1. UNCHANGED <<catalogs, entries, items>>
    BY <1>6, FollowReferralDoes
  <2> QED BY <1>6, <2>1, FollowReferralDoes DEF ReferralsDone, Refers, AddsRegistry
<1>7. CASE EnsureReferred(k)
  BY <1>7, EnsureReferredDoes
<1>8. CASE FetchArtifact(k)
  BY <1>8, FetchArtifactDoes
<1> QED BY <1>1, <1>2, <1>3, <1>4, <1>5, <1>6, <1>7, <1>8 DEF Works

LEMMA RowsStep ==
  ASSUME Base, [Next]_vars
  PROVE  RowsInv'
<1>1. Extends
  BY StepExtends
<1>2. \A c \in DOMAIN catalogs : \E b \in 0..Len(entries') : Block(c, b)'
  BY <1>1, BlockStays DEF Base, RowsInv
<1>3. \A e \in DOMAIN entries : entries'[e].catalog \in DOMAIN catalogs'
  BY <1>1 DEF Extends, Grows, Base, RowsInv
<1>4. \A r \in DOMAIN registries : registries'[r].entry \in DOMAIN entries'
  BY <1>1 DEF Extends, Grows, Base, RowsInv
<1>5. CASE UNCHANGED <<catalogs, entries, registries>>
  BY <1>5 DEF Base, RowsInv, Block
<1>6. ASSUME NEW k \in DOMAIN items, AddsDocument(k)
      PROVE  RowsInv'
  <2>1. PICK c, row : c = Len(catalogs) + 1 /\ row = [url |-> k.url, parent |-> k.of]
    OBVIOUS
  <2>2. k.of \in {0} \union DOMAIN catalogs /\ k.url \in Catalogs
    BY <1>6 DEF AddsDocument, Base, KeysInv
  <2>3. row \in CatalogRow /\ c \in Nat
    BY <2>1, <2>2, Domains DEF CatalogRow, Base
  <2>4. catalogs' = Append(catalogs, row) /\ UNCHANGED registries
    BY <1>6, <2>1 DEF AddsDocument
  <2>5. /\ DOMAIN catalogs' = DOMAIN catalogs \union {c} /\ catalogs'[c] = row
        /\ DOMAIN catalogs = 1..Len(catalogs) /\ Len(catalogs) \in Nat /\ Grows(catalogs, catalogs')
    BY <2>1, <2>3, <2>4, Appended DEF Base, TypeOK
  <2>6. \A d \in DOMAIN catalogs : catalogs[d] # row
    BY <1>6, <2>1 DEF AddsDocument, Prior, PriorRows
  <2>7. \A x, y \in DOMAIN catalogs' : catalogs'[x] = catalogs'[y] => x = y
    BY <2>5, <2>6 DEF Base, RowsInv, Grows
  <2>8. \A x \in DOMAIN catalogs' : catalogs'[x].parent < x
    <3>1. row.parent < c
      BY <2>1, <2>2, <2>5
    <3> QED BY <2>5, <3>1 DEF Base, RowsInv, Grows
  <2>9. /\ \A e \in DOMAIN entries' \ DOMAIN entries : entries'[e].catalog = c
        /\ Leads(entries', c, Len(Document[k.url]), Len(entries))
    BY <1>6, <2>1, DocumentRows DEF AddsDocument
  <2>10. \E b \in 0..Len(entries') : Block(c, b)'
    <3>1. PICK b : b = Len(entries)
      OBVIOUS
    <3>2. Block(c, b)'
      BY <2>1, <2>5, <2>9, <3>1 DEF Block
    <3>3. /\ DOMAIN entries = 1..Len(entries) /\ Len(entries) \in Nat
          /\ DOMAIN entries' = 1..Len(entries') /\ Len(entries') \in Nat /\ Grows(entries, entries')
      BY <1>1, Domains DEF Base, Extends
    <3>4. Len(entries) <= Len(entries')
      BY <3>3 DEF Grows
    <3>5. b \in 0..Len(entries')
      BY <3>1, <3>3, <3>4
    <3> QED BY <3>2, <3>5
  <2>11. \A x \in DOMAIN catalogs' : \E b \in 0..Len(entries') : Block(x, b)'
    BY <1>2, <2>5, <2>10
  <2>12. \A e \in DOMAIN entries' : entries'[e].catalog \in DOMAIN catalogs'
    BY <1>3, <2>5, <2>9
  <2> QED BY <1>4, <2>4, <2>7, <2>8, <2>11, <2>12 DEF RowsInv, Base
<1>7. ASSUME NEW k \in DOMAIN items, AddsResults(k)
      PROVE  RowsInv'
  <2>1. UNCHANGED <<catalogs, registries>>
    BY <1>7 DEF AddsResults
  <2>2. \A e \in DOMAIN entries' \ DOMAIN entries : entries'[e].catalog \in DOMAIN catalogs
    BY <1>7, HarvestRows DEF AddsResults
  <2>3. \A e \in DOMAIN entries' : entries'[e].catalog \in DOMAIN catalogs'
    BY <1>3, <2>1, <2>2
  <2> QED BY <1>2, <1>4, <2>1, <2>3 DEF RowsInv, Base
<1>8. ASSUME NEW row \in RegistryRow, AddsRegistry(row)
      PROVE  RowsInv'
  <2>1. UNCHANGED <<catalogs, entries>> /\ row.entry \in DOMAIN entries /\ SaveRegistry(row)
    BY <1>8 DEF AddsRegistry
  <2>2. PICK r : r = SavedRegistry(row)
    OBVIOUS
  <2>3. /\ DOMAIN registries' = DOMAIN registries \union {r} /\ registries'[r] = row
        /\ \A s, t \in DOMAIN registries' : registries'[s] = registries'[t] => s = t
    BY <2>1, <2>2, SavedRow DEF Base
  <2>4. \A s \in DOMAIN registries' : registries'[s].entry \in DOMAIN entries'
    BY <1>4, <2>1, <2>3
  <2> QED BY <1>2, <1>3, <2>1, <2>3, <2>4 DEF RowsInv, Base
<1>9. Answers \/ UNCHANGED vars => UNCHANGED <<catalogs, entries, registries>>
  BY AnswersExtends
<1> QED BY <1>5, <1>6, <1>7, <1>8, <1>9, StepCases, WorksAdds

\* What a handler adds to the frontier.
EnsuresCatalog(k) ==
  \E u \in Catalogs, n \in DOMAIN catalogs, d \in Nat :
    /\ items' = Ensured(CatalogKey(u, n), d)
    /\ UNCHANGED <<catalogs, entries, registries>>
    /\ \/ /\ k.kind = "catalog" /\ work[k].pc = "entries" /\ n = work[k].row
          /\ d = items[k].depth + 1
          /\ \E i \in DOMAIN Document[k.url] : Document[k.url][i].kind = "catalog"
       \/ /\ k.kind = "registry" /\ d = 0 /\ n = OwnCatalog(k)
          /\ \E i \in DOMAIN Results[k.url] :
               Results[k.url][i].kind = "catalog" /\ u = Results[k.url][i].url
EnsuresArtifact ==
  \E u \in URL, n \in Nat, d \in Nat : items' = Ensured(ArtifactKey(u, n), d)
EnsuresRegistry(k) ==
  \E r \in DOMAIN registries, d \in Nat :
    /\ items' = Ensured(RegistryKey(registries[r].url, r), d)
    /\ UNCHANGED <<catalogs, entries, registries>>
    /\ k \in DOMAIN work /\ work[k].pc = "ensure" /\ r = work[k].reg /\ k.kind \in {"catalog", "registry"}

LEMMA WorksEnsures ==
  ASSUME Base, NEW k \in DOMAIN items, Works(k)
  PROVE  UNCHANGED items \/ EnsuresCatalog(k) \/ EnsuresArtifact \/ EnsuresRegistry(k)
<1> PICK w : w = work[k]
  OBVIOUS
<1>1. CASE FetchCatalog(k)
  BY <1>1, FetchCatalogDoes
<1>2. CASE FollowEntry(k)
  <2> PICK e : e = Document[k.url][w.i]
    OBVIOUS
  <2>1. k \in DOMAIN work /\ k.kind = "catalog" /\ w.pc = "entries" /\ UNCHANGED <<catalogs, entries>>
    BY <1>2, FollowEntryDoes
  <2>2. w.row \in DOMAIN catalogs /\ catalogs[w.row].url = k.url
    BY <2>1, AtWork DEF CatalogWork, Prior, PriorRows
  <2>3. CASE EntryIsCatalog(k, w, e)
    <3>1. PICK d, u : d = items[k].depth + 1 /\ u = e.url
      OBVIOUS
    <3>2. d \in Nat
      BY <2>1, <3>1, AtWork
    <3> QED BY <2>1, <2>2, <2>3, <3>1, <3>2 DEF EnsuresCatalog, EntryIsCatalog
  <2>4. CASE EntryIsArtifact(k, w, e)
    <3>1. EntryRow(w.row, w.i) \in Nat
      BY <2>2, <2>4, EntryRowIs, Domains DEF Base, EntryIsArtifact
    <3> QED BY <2>4, <3>1 DEF EnsuresArtifact, EntryIsArtifact
  <2>5. CASE EntriesDone(k, w) \/ EntryIsRegistry(k, w, e)
    BY <2>5 DEF EntriesDone, EntryIsRegistry
  <2> QED BY <1>2, <2>3, <2>4, <2>5, FollowEntryDoes
<1>3. CASE EnsureRegistry(k)
  BY <1>3, EnsureRegistryDoes DEF EnsuresRegistry
<1>4. CASE Harvest(k)
  BY <1>4, HarvestDoes
<1>5. CASE FollowResult(k)
  <2> PICK e : e = Results[k.url][w.i]
    OBVIOUS
  <2>1. k \in DOMAIN work /\ k.kind = "registry" /\ UNCHANGED <<catalogs, entries>>
    BY <1>5, FollowResultDoes
  <2>2. CASE ResultIsCatalog(k, w, e)
    <3>1. OwnCatalog(k) \in DOMAIN catalogs
      BY <2>1, AtWork
    <3> QED BY <2>1, <2>2, <3>1 DEF EnsuresCatalog, ResultIsCatalog
  <2>3. CASE ResultsDone(k, w) \/ ResultIsArtifact(k, w) \/ ResultIsRegistry(k, w, e)
    BY <2>3 DEF ResultsDone, ResultIsArtifact, ResultIsRegistry
  <2> QED BY <1>5, <2>2, <2>3, FollowResultDoes
<1>6. CASE FollowReferral(k)
  BY <1>6, FollowReferralDoes
<1>7. CASE EnsureReferred(k)
  <2>1. /\ k \in DOMAIN work /\ k.kind = "registry" /\ w.pc = "ensure"
        /\ UNCHANGED <<catalogs, entries, registries>> /\ w.reg \in DOMAIN registries
        /\ items' = Ensured(RegistryKey(registries[w.reg].url, w.reg), items[k].depth + 1)
    BY <1>7, EnsureReferredDoes
  <2>2. items[k].depth + 1 \in Nat
    BY <2>1, AtWork
  <2> QED BY <2>1, <2>2 DEF EnsuresRegistry
<1>8. CASE FetchArtifact(k)
  BY <1>8, FetchArtifactDoes
<1> QED BY <1>1, <1>2, <1>3, <1>4, <1>5, <1>6, <1>7, <1>8 DEF Works

LEMMA KeysStep ==
  ASSUME Base, [Next]_vars
  PROVE  KeysInv'
<1>1. Extends
  BY StepExtends
<1>2. ASSUME NEW x \in DOMAIN items
      PROVE  /\ x.kind = "catalog" => x.url \in Catalogs /\ x.of \in {0} \union DOMAIN catalogs'
             /\ x.kind = "registry" => x.of \in DOMAIN registries' /\ x.url = registries'[x.of].url
  BY <1>1 DEF Extends, Grows, Base, KeysInv
<1>3. DOMAIN items' = DOMAIN items => KeysInv'
  BY <1>2 DEF KeysInv
<1>4. ASSUME NEW k \in DOMAIN items, Works(k)
      PROVE  KeysInv'
  <2>1. CASE EnsuresCatalog(k)
    <3>1. PICK u \in Catalogs, n \in DOMAIN catalogs, d \in Nat : items' = Ensured(CatalogKey(u, n), d)
      BY <2>1 DEF EnsuresCatalog
    <3>2. PICK y : y = CatalogKey(u, n)
      OBVIOUS
    <3>3. y \in Key /\ y.kind = "catalog" /\ y.url = u /\ y.of = n
      BY <3>2, Keys, Domains DEF URL, Base
    <3>4. DOMAIN items' = DOMAIN items \union {y}
      BY <3>1, <3>2, <3>3, EnsuredRow DEF Base
    <3>5. y.of \in DOMAIN catalogs'
      BY <1>1, <3>3 DEF Extends, Grows
    <3> QED BY <1>2, <3>3, <3>4, <3>5 DEF KeysInv
  <2>2. CASE EnsuresArtifact
    <3>1. PICK u \in URL, n \in Nat, d \in Nat : items' = Ensured(ArtifactKey(u, n), d)
      BY <2>2 DEF EnsuresArtifact
    <3>2. PICK y : y = ArtifactKey(u, n)
      OBVIOUS
    <3>3. y \in Key /\ y.kind = "artifact"
      BY <3>2, Keys
    <3>4. DOMAIN items' = DOMAIN items \union {y}
      BY <3>1, <3>2, <3>3, EnsuredRow DEF Base
    <3> QED BY <1>2, <3>3, <3>4 DEF KeysInv
  <2>3. CASE EnsuresRegistry(k)
    <3>1. PICK r \in DOMAIN registries, d \in Nat :
            items' = Ensured(RegistryKey(registries[r].url, r), d) /\ UNCHANGED registries
      BY <2>3 DEF EnsuresRegistry
    <3>2. PICK y : y = RegistryKey(registries[r].url, r)
      OBVIOUS
    <3>3. registries[r].url \in Registries /\ r \in Nat
      BY Domains DEF Base
    <3>4. y \in Key /\ y.kind = "registry" /\ y.url = registries[r].url /\ y.of = r
      BY <3>2, <3>3, Keys DEF URL
    <3>5. DOMAIN items' = DOMAIN items \union {y}
      BY <3>1, <3>2, <3>4, EnsuredRow DEF Base
    <3> QED BY <1>2, <3>1, <3>4, <3>5 DEF KeysInv
  <2> QED BY <1>3, <1>4, <2>1, <2>2, <2>3, WorksEnsures
<1> QED BY <1>3, <1>4, StepCases, AnswersExtends

-----------------------------------------------------------------------------
(* Handlers at work.                                                       *)

LEMMA PriorStays ==
  ASSUME Base, Extends, NEW k, NEW c \in Prior(k)
  PROVE  /\ c \in DOMAIN catalogs /\ catalogs[c].url = k.url /\ catalogs[c].parent = k.of
         /\ catalogs'[c] = catalogs[c] /\ c \in Prior(k)'
BY DEF Prior, PriorRows, Extends, Grows

LEMMA FollowsStays ==
  ASSUME NEW k, items'[k].depth = items[k].depth
  PROVE  FollowsEntries(k)' <=> FollowsEntries(k)
BY DEF FollowsEntries

LEMMA CatalogWorkStays ==
  ASSUME Base, Extends, NEW k \in DOMAIN items, items'[k].depth = items[k].depth,
         NEW w, CatalogWork(k, w)
  PROVE  CatalogWork(k, w)'
<1>1. FollowsEntries(k)' <=> FollowsEntries(k)
  BY FollowsStays
<1>2. /\ w.pc \in {"start", "entries", "ensure", "done"}
      /\ w.pc = "start" => w.i = 1
  BY DEF CatalogWork
<1>3. w.pc \in {"entries", "ensure"} => w.row \in Prior(k)' /\ FollowsEntries(k)'
  BY <1>1, PriorStays DEF CatalogWork
<1>4. ASSUME w.pc = "ensure"
      PROVE  /\ w.i \in DOMAIN Document[k.url] /\ Document[k.url][w.i].kind = "registry"
             /\ w.reg \in DOMAIN registries'
             /\ registries'[w.reg].entry = EntryRow(w.row, w.i)'
             /\ registries'[w.reg].url = Document[k.url][w.i].url
  <2>1. /\ w.i \in DOMAIN Document[k.url] /\ Document[k.url][w.i].kind = "registry"
        /\ w.reg \in DOMAIN registries /\ registries[w.reg].entry = EntryRow(w.row, w.i)
        /\ registries[w.reg].url = Document[k.url][w.i].url /\ w.row \in Prior(k)
    BY <1>4 DEF CatalogWork
  <2>2. registries'[w.reg] = registries[w.reg] /\ w.reg \in DOMAIN registries'
    BY <2>1 DEF Extends, Grows
  <2>3. w.row \in DOMAIN catalogs /\ catalogs[w.row].url = k.url
    BY <2>1, PriorStays
  <2>4. EntryRow(w.row, w.i)' = EntryRow(w.row, w.i)
    BY <2>1, <2>3, EntryRowStays
  <2> QED BY <2>1, <2>2, <2>4
<1> QED BY <1>2, <1>3, <1>4 DEF CatalogWork

LEMMA OwnStays ==
  ASSUME Base, Extends, NEW k \in DOMAIN items, k.kind = "registry"
  PROVE  /\ OwnCatalog(k)' = OwnCatalog(k) /\ OwnEntry(k)' = OwnEntry(k)
         /\ OwnCatalog(k) \in DOMAIN catalogs /\ k.of \in DOMAIN registries
<1>1. k.of \in DOMAIN registries
  BY DEF Base, KeysInv
<1>2. OwnEntry(k) \in DOMAIN entries
  BY <1>1 DEF Base, RowsInv, OwnEntry
<1>3. OwnEntry(k)' = OwnEntry(k)
  BY <1>1 DEF OwnEntry, Extends, Grows
<1>4. OwnCatalog(k)' = OwnCatalog(k)
  BY <1>2, <1>3 DEF OwnCatalog, Extends, Grows
<1>5. OwnCatalog(k) \in DOMAIN catalogs
  BY <1>2 DEF OwnCatalog, Base, RowsInv
<1> QED BY <1>1, <1>3, <1>4, <1>5

LEMMA RegistryWorkStays ==
  ASSUME Base, Extends, NEW k \in DOMAIN items, k.kind = "registry", NEW w, RegistryWork(k, w)
  PROVE  RegistryWork(k, w)'
<1>1. OwnCatalog(k)' = OwnCatalog(k)
  BY OwnStays
<1>2. w.pc \in {"start", "results", "referrals", "ensure", "done"}
  BY DEF RegistryWork
<1>3. w.pc \in {"results", "referrals", "ensure"} =>
        \A j \in DOMAIN Results[k.url] :
          w.row + j \in DOMAIN entries' /\ entries'[w.row + j].catalog = OwnCatalog(k)'
  BY <1>1 DEF RegistryWork, Extends, Grows
<1>4. w.pc = "ensure" =>
        w.reg \in DOMAIN registries' /\ entries'[registries'[w.reg].entry].catalog = OwnCatalog(k)'
  BY <1>1 DEF RegistryWork, Extends, Grows, Base, RowsInv
<1> QED BY <1>2, <1>3, <1>4 DEF RegistryWork

\* A handler that was not the one to move is where it was.
LEMMA OthersStay ==
  ASSUME Base, Extends, NEW k \in DOMAIN work, NEW w, w = work[k],
         items'[k].depth = items[k].depth
  PROVE  /\ k.kind = "catalog" => CatalogWork(k, w)'
         /\ k.kind = "registry" => RegistryWork(k, w)'
         /\ k.kind = "artifact" => w.pc \in {"start", "done"}
<1>1. k \in DOMAIN items
  BY DEF Base, TypeOK
<1>2. k.kind = "catalog" => CatalogWork(k, w)
  BY DEF Base, WorkInv
<1>3. k.kind = "registry" => RegistryWork(k, w)
  BY DEF Base, WorkInv
<1>4. k.kind = "artifact" => w.pc \in {"start", "done"}
  BY DEF Base, WorkInv
<1> QED BY <1>1, <1>2, <1>3, <1>4, CatalogWorkStays, RegistryWorkStays

LEMMA StartedWork ==
  ASSUME NEW k, NEW w, w = Started
  PROVE  /\ CatalogWork(k, w)' /\ RegistryWork(k, w)' /\ w.pc = "start" /\ w.i = 1
BY DEF Started, CatalogWork, RegistryWork

\* The one that moved holds the rows it needs where it is now.
LEMMA MoverWorks ==
  ASSUME Base, NEW k \in DOMAIN items, Works(k), NEW v, v = work'[k]
  PROVE  /\ k.kind = "catalog" => CatalogWork(k, v)'
         /\ k.kind = "registry" => RegistryWork(k, v)'
         /\ k.kind = "artifact" => v.pc \in {"start", "done"}
<1> DEFINE Goal == /\ k.kind = "catalog" => CatalogWork(k, v)'
                   /\ k.kind = "registry" => RegistryWork(k, v)'
                   /\ k.kind = "artifact" => v.pc \in {"start", "done"}
<1> PICK w : w = work[k]
  OBVIOUS
<1>1. /\ Extends /\ k \in DOMAIN work /\ items'[k] = items[k]
      /\ w.i \in Nat \ {0} /\ w.row \in Nat /\ w.reg \in Nat /\ w.i + 1 \in Nat \ {0}
  BY WorksExtends, AtWork DEF Grows
<1>2. ASSUME NEW p \in {"start", "entries", "results", "referrals", "ensure", "done"},
             NEW j \in Nat \ {0}, NEW row \in Nat, NEW reg \in Nat, Put(k, p, j, row, reg)
      PROVE  v.pc = p /\ v.i = j /\ v.row = row /\ v.reg = reg
  BY <1>1, <1>2, PutDoes DEF Base
<1>3. v.pc = "done" => Goal
  BY DEF CatalogWork, RegistryWork
<1>4. FollowsEntries(k)' <=> FollowsEntries(k)
  BY <1>1, FollowsStays
<1>5. ASSUME k.kind = "catalog", v.pc = "entries", v.row \in Prior(k)', FollowsEntries(k)
      PROVE  Goal
  BY <1>4, <1>5 DEF CatalogWork
<1>6. ASSUME k.kind = "registry", v.pc \in {"results", "referrals"},
             w.pc \in {"results", "referrals", "ensure"}, v.row = w.row
      PROVE  Goal
  <2>1. RegistryWork(k, w)'
    BY <1>1, <1>6, OthersStay
  <2>2. \A j \in DOMAIN Results[k.url] :
          v.row + j \in DOMAIN entries' /\ entries'[v.row + j].catalog = OwnCatalog(k)'
    BY <1>6, <2>1 DEF RegistryWork
  <2> QED BY <1>6, <2>2 DEF RegistryWork
<1>7. ASSUME k.kind = "registry", v.pc = "ensure", v.row = w.row,
             w.pc \in {"results", "referrals"}, UNCHANGED entries,
             NEW row \in RegistryRow, row.entry \in DOMAIN entries,
             entries[row.entry].catalog = OwnCatalog(k),
             SaveRegistry(row), v.reg = SavedRegistry(row)
      PROVE  Goal
  <2>1. RegistryWork(k, w)' /\ OwnCatalog(k)' = OwnCatalog(k)
    BY <1>1, <1>7, OthersStay, OwnStays
  <2>2. \A j \in DOMAIN Results[k.url] :
          v.row + j \in DOMAIN entries' /\ entries'[v.row + j].catalog = OwnCatalog(k)'
    BY <1>7, <2>1 DEF RegistryWork
  <2>3. v.reg \in DOMAIN registries' /\ registries'[v.reg] = row
    BY <1>7, SavedRow DEF Base
  <2> QED BY <1>7, <2>1, <2>2, <2>3 DEF RegistryWork
<1> SUFFICES Goal
  OBVIOUS
<1> HIDE DEF Goal
<1>8. CASE FetchCatalog(k)
  <2>1. k.kind = "catalog" /\ w.reg \in Nat
    BY <1>1, <1>8, FetchCatalogDoes
  <2>2. CASE \E c \in Prior(k) :
                /\ UNCHANGED <<catalogs, entries>>
                /\ \/ FollowsEntries(k) /\ Put(k, "entries", 1, c, work[k].reg)
                   \/ ~Resumes(k, c) /\ Put(k, "done", 1, c, work[k].reg)
    <3>1. PICK c \in Prior(k) :
                \/ FollowsEntries(k) /\ Put(k, "entries", 1, c, w.reg)
                \/ Put(k, "done", 1, c, w.reg)
      BY <2>2
    <3>2. c \in Nat /\ c \in Prior(k)'
      BY <1>1, PriorStays, Domains DEF Base
    <3>4. c \in Nat /\ 1 \in Nat \ {0}
      BY <3>2
    <3>3. \/ FollowsEntries(k) /\ v.pc = "entries" /\ v.row = c
          \/ v.pc = "done"
      <4>1. CASE FollowsEntries(k) /\ Put(k, "entries", 1, c, w.reg)
        <5>1. Put(k, "entries", 1, c, w.reg) /\ FollowsEntries(k)
          BY <4>1, Zenon
        <5>2. v.pc = "entries" /\ v.row = c
          BY <1>2, <2>1, <3>4, <5>1
        <5> QED BY <5>1, <5>2
      <4>2. CASE Put(k, "done", 1, c, w.reg)
        <5>1. v.pc = "done"
          BY <1>2, <2>1, <3>4, <4>2
        <5> QED BY <5>1
      <4> QED BY <3>1, <4>1, <4>2
    <3> QED BY <1>3, <1>5, <2>1, <3>2, <3>3
  <2>3. CASE /\ catalogs' = Append(catalogs, [url |-> k.url, parent |-> k.of])
             /\ \/ FollowsEntries(k) /\ Put(k, "entries", 1, Len(catalogs) + 1, work[k].reg)
                \/ ~FollowsEntries(k) /\ Put(k, "done", 1, Len(catalogs) + 1, work[k].reg)
    <3>1. PICK c, row : c = Len(catalogs) + 1 /\ row = [url |-> k.url, parent |-> k.of]
      OBVIOUS
    <3>2. c \in Nat /\ row \in CatalogRow
      <4>1. k \in Key /\ k.url \in Catalogs
        BY <1>1, <2>1, AtWork
      <4>2. c \in Nat
        <5>1. Len(catalogs) \in Nat
          BY Domains DEF Base
        <5> QED BY <3>1, <5>1
      <4>3. k.of \in Nat
        BY <4>1 DEF Key
      <4> QED BY <3>1, <4>1, <4>2, <4>3 DEF CatalogRow
    <3>3. c \in DOMAIN catalogs' /\ catalogs'[c] = row
      BY <2>3, <3>1, <3>2, Appended DEF Base, TypeOK
    <3>4. c \in Prior(k)'
      BY <3>1, <3>3 DEF Prior, PriorRows
    <3>5. \/ FollowsEntries(k) /\ v.pc = "entries" /\ v.row = c
          \/ v.pc = "done"
      <4>1. c \in Nat /\ 1 \in Nat \ {0}
        BY <3>2
      <4>2. \/ FollowsEntries(k) /\ Put(k, "entries", 1, c, w.reg)
            \/ Put(k, "done", 1, c, w.reg)
        BY <2>3, <3>1
      <4>3. CASE FollowsEntries(k) /\ Put(k, "entries", 1, c, w.reg)
        <5>1. Put(k, "entries", 1, c, w.reg) /\ FollowsEntries(k)
          BY <4>3, Zenon
        <5>2. v.pc = "entries" /\ v.row = c
          BY <1>2, <2>1, <4>1, <5>1
        <5> QED BY <5>1, <5>2
      <4>4. CASE Put(k, "done", 1, c, w.reg)
        <5>1. v.pc = "done"
          BY <1>2, <2>1, <4>1, <4>4
        <5> QED BY <5>1
      <4> QED BY <4>2, <4>3, <4>4
    <3> QED BY <1>3, <1>5, <2>1, <3>4, <3>5
  <2> QED BY <1>8, <2>2, <2>3, FetchCatalogDoes
<1>9. CASE FollowEntry(k)
  <2> PICK e : e = Document[k.url][w.i]
    OBVIOUS
  <2>1. k.kind = "catalog" /\ w.pc = "entries" /\ UNCHANGED entries
    BY <1>9, FollowEntryDoes
  <2>2. w.row \in Prior(k) /\ FollowsEntries(k)
    BY <1>1, <2>1, AtWork DEF CatalogWork
  <2>3. w.row \in Prior(k)' /\ w.row \in DOMAIN catalogs /\ catalogs[w.row].url = k.url
    BY <1>1, <2>2, PriorStays
  <2>4. CASE EntriesDone(k, w)
    BY <1>1, <1>2, <1>3, <2>4 DEF EntriesDone
  <2>5. CASE EntryIsCatalog(k, w, e) \/ EntryIsArtifact(k, w, e)
    <3>1. Put(k, "entries", w.i + 1, w.row, w.reg)
      BY <2>5 DEF EntryIsCatalog, EntryIsArtifact
    <3>2. v.pc = "entries" /\ v.row = w.row
      BY <1>1, <1>2, <3>1
    <3> QED BY <1>5, <2>1, <2>2, <2>3, <3>2
  <2>6. CASE EntryIsRegistry(k, w, e)
    <3>1. PICK row \in RegistryRow, r \in Nat :
            /\ row = [entry |-> EntryRow(w.row, w.i), url |-> e.url, from |-> 0]
            /\ SaveRegistry(row) /\ r = SavedRegistry(row) /\ Put(k, "ensure", w.i, w.row, r)
      BY <2>6 DEF EntryIsRegistry
    <3>2. v.pc = "ensure" /\ v.i = w.i /\ v.row = w.row /\ v.reg = r
      BY <1>1, <1>2, <3>1
    <3>3. r \in DOMAIN registries' /\ registries'[r] = row
      BY <3>1, SavedRow DEF Base
    <3>4. /\ w.i \in DOMAIN Document[k.url] /\ Document[k.url][w.i].kind = "registry"
          /\ row.url = Document[k.url][w.i].url /\ row.entry = EntryRow(w.row, w.i)
      BY <2>6, <3>1 DEF EntryIsRegistry
    <3>5. EntryRow(w.row, w.i)' = EntryRow(w.row, w.i)
      BY <1>1, <2>3, <3>4, EntryRowStays
    <3>6. EntryRow(v.row, v.i)' = EntryRow(w.row, w.i)'
      BY <3>2
    <3>7. CatalogWork(k, v)'
      BY <1>4, <2>2, <2>3, <3>2, <3>3, <3>4, <3>5, <3>6 DEF CatalogWork
    <3> QED BY <2>1, <3>7 DEF Goal
  <2> QED BY <1>9, <2>4, <2>5, <2>6, FollowEntryDoes
<1>10. CASE EnsureRegistry(k)
  <2>1. k.kind = "catalog" /\ w.pc = "ensure" /\ Put(k, "entries", w.i + 1, w.row, w.reg)
    BY <1>10, EnsureRegistryDoes
  <2>2. w.row \in Prior(k) /\ FollowsEntries(k)
    BY <1>1, <2>1, AtWork DEF CatalogWork
  <2>3. v.pc = "entries" /\ v.row = w.row /\ w.row \in Prior(k)'
    BY <1>1, <1>2, <2>1, <2>2, PriorStays
  <2> QED BY <1>5, <2>1, <2>2, <2>3
<1>11. CASE Harvest(k)
  <2>1. k.kind = "registry"
    BY <1>11, HarvestDoes
  <2>2. CASE Put(k, "done", w.i, w.row, w.reg)
    BY <1>1, <1>2, <1>3, <2>2
  <2>3. CASE /\ Put(k, "results", w.i, Len(entries), w.reg)
             /\ entries' = entries \o EntryRows(OwnCatalog(k), k.of, Results[k.url])
    <3>1. PICK n : n = Len(entries)
      OBVIOUS
    <3>2. n \in Nat
      BY <3>1, Domains DEF Base
    <3>3. v.pc = "results" /\ v.row = n
      <4>1. Put(k, "results", w.i, n, w.reg)
        BY <2>3, <3>1
      <4>2. w.i \in Nat \ {0} /\ w.reg \in Nat
        BY <1>1
      <4> QED BY <1>2, <3>2, <4>1, <4>2
    <3>4. \A j \in DOMAIN Results[k.url] :
            n + j \in DOMAIN entries' /\ entries'[n + j].catalog = OwnCatalog(k)
      BY <2>1, <2>3, <3>1, HarvestRows
    <3>5. OwnCatalog(k)' = OwnCatalog(k)
      BY <1>1, <2>1, OwnStays
    <3>6. RegistryWork(k, v)'
      BY <3>3, <3>4, <3>5 DEF RegistryWork
    <3> QED BY <2>1, <3>6 DEF Goal
  <2> QED BY <1>11, <2>2, <2>3, HarvestDoes
<1>12. CASE FollowResult(k)
  <2> PICK e : e = Results[k.url][w.i]
    OBVIOUS
  <2>1. k.kind = "registry" /\ w.pc = "results" /\ UNCHANGED entries
    BY <1>12, FollowResultDoes
  <2>2. CASE ResultsDone(k, w) \/ ResultIsCatalog(k, w, e) \/ ResultIsArtifact(k, w)
    <3>1. Put(k, "referrals", 1, w.row, w.reg) \/ Put(k, "results", w.i + 1, w.row, w.reg)
      BY <2>2 DEF ResultsDone, ResultIsCatalog, ResultIsArtifact
    <3>2. v.pc \in {"results", "referrals"} /\ v.row = w.row
      <4> w.i + 1 \in Nat \ {0} /\ w.row \in Nat /\ w.reg \in Nat /\ 1 \in Nat \ {0}
        BY <1>1
      <4>1. CASE Put(k, "referrals", 1, w.row, w.reg)
        BY <1>2, <4>1
      <4>2. CASE Put(k, "results", w.i + 1, w.row, w.reg)
        BY <1>2, <4>2
      <4> QED BY <3>1, <4>1, <4>2
    <3> QED BY <1>6, <2>1, <3>2
  <2>3. CASE ResultIsRegistry(k, w, e)
    <3>1. PICK row \in RegistryRow, r \in Nat :
            /\ row.entry \in DOMAIN entries /\ entries[row.entry].catalog = OwnCatalog(k)
            /\ SaveRegistry(row) /\ r = SavedRegistry(row) /\ Put(k, "ensure", w.i, w.row, r)
      BY <2>3 DEF ResultIsRegistry
    <3>2. v.pc = "ensure" /\ v.row = w.row /\ v.reg = r
      BY <1>1, <1>2, <3>1
    <3> QED BY <1>7, <2>1, <3>1, <3>2
  <2> QED BY <1>12, <2>2, <2>3, FollowResultDoes
<1>13. CASE FollowReferral(k)
  <2>1. k.kind = "registry" /\ w.pc = "referrals" /\ UNCHANGED entries
    BY <1>13, FollowReferralDoes
  <2>2. CASE ReferralsDone(k, w)
    BY <1>1, <1>2, <1>3, <2>2 DEF ReferralsDone
  <2>3. CASE Refers(k, w)
    <3>1. PICK row \in RegistryRow, r \in Nat :
            /\ row.entry \in DOMAIN entries /\ row.entry = OwnEntry(k)
            /\ SaveRegistry(row) /\ r = SavedRegistry(row) /\ Put(k, "ensure", w.i, w.row, r)
      BY <2>3 DEF Refers
    <3>2. v.pc = "ensure" /\ v.row = w.row /\ v.reg = r
      BY <1>1, <1>2, <3>1
    <3>3. entries[row.entry].catalog = OwnCatalog(k)
      BY <3>1 DEF OwnCatalog
    <3> QED BY <1>7, <2>1, <3>1, <3>2, <3>3
  <2> QED BY <1>13, <2>2, <2>3, FollowReferralDoes
<1>14. CASE EnsureReferred(k)
  <2>1. k.kind = "registry" /\ w.pc = "ensure"
    BY <1>14, EnsureReferredDoes
  <2>2. PICK p \in {"referrals", "results"} : Put(k, p, w.i + 1, w.row, w.reg)
    BY <1>14, EnsureReferredDoes
  <2>3. v.pc \in {"results", "referrals"} /\ v.row = w.row
    BY <1>1, <1>2, <2>2
  <2> QED BY <1>6, <2>1, <2>3
<1>15. CASE FetchArtifact(k)
  <2>1. Put(k, "done", w.i, w.row, w.reg)
    BY <1>15, FetchArtifactDoes
  <2> QED BY <1>1, <1>2, <1>3, <2>1
<1> QED BY <1>8, <1>9, <1>10, <1>11, <1>12, <1>13, <1>14, <1>15 DEF Works

LEMMA WorkStep ==
  ASSUME Base, [Next]_vars
  PROVE  WorkInv'
<1>1. Extends
  BY StepExtends
<1>2. ASSUME NEW x \in DOMAIN work', NEW v, v = work'[x], items'[x].status = "in_flight",
             /\ x.kind = "catalog" => CatalogWork(x, v)'
             /\ x.kind = "registry" => RegistryWork(x, v)'
             /\ x.kind = "artifact" => v.pc \in {"start", "done"}
      PROVE  /\ items'[x].status = "in_flight"
             /\ x.kind = "catalog" => CatalogWork(x, work[x])'
             /\ x.kind = "registry" => RegistryWork(x, work[x])'
             /\ x.kind = "artifact" => work'[x].pc \in {"start", "done"}
  BY <1>2
<1>3. ASSUME NEW k \in DOMAIN items, Works(k), NEW x \in DOMAIN work'
      PROVE  /\ items'[x].status = "in_flight"
             /\ x.kind = "catalog" => CatalogWork(x, work[x])'
             /\ x.kind = "registry" => RegistryWork(x, work[x])'
             /\ x.kind = "artifact" => work'[x].pc \in {"start", "done"}
  <2>1. /\ x \in DOMAIN work /\ x \in DOMAIN items /\ items'[x] = items[x]
        /\ x # k => work'[x] = work[x]
    BY <1>3, WorksExtends DEF Grows, Base, TypeOK
  <2>2. items'[x].status = "in_flight"
    BY <2>1 DEF Base, WorkInv
  <2>3. PICK v : v = work'[x]
    OBVIOUS
  <2>4. /\ x.kind = "catalog" => CatalogWork(x, v)'
        /\ x.kind = "registry" => RegistryWork(x, v)'
        /\ x.kind = "artifact" => v.pc \in {"start", "done"}
    <3>1. CASE x = k
      BY <1>3, <2>3, <3>1, MoverWorks
    <3>2. CASE x # k
      <4>1. v = work[x] /\ items'[x].depth = items[x].depth
        BY <2>1, <2>3, <3>2
      <4> QED BY <1>1, <2>1, <4>1, OthersStay
    <3> QED BY <3>1, <3>2
  <2> QED BY <1>2, <2>2, <2>3, <2>4
<1>4. ASSUME Answers, NEW x \in DOMAIN work'
      PROVE  /\ items'[x].status = "in_flight"
             /\ x.kind = "catalog" => CatalogWork(x, work[x])'
             /\ x.kind = "registry" => RegistryWork(x, work[x])'
             /\ x.kind = "artifact" => work'[x].pc \in {"start", "done"}
  <2>1. /\ items'[x].status = "in_flight" /\ items'[x].depth = items[x].depth
        /\ work'[x] = Started \/ (x \in DOMAIN work /\ work'[x] = work[x])
    BY <1>4 DEF Answers
  <2>2. PICK v : v = work'[x]
    OBVIOUS
  <2>3. /\ x.kind = "catalog" => CatalogWork(x, v)'
        /\ x.kind = "registry" => RegistryWork(x, v)'
        /\ x.kind = "artifact" => v.pc \in {"start", "done"}
    <3>1. CASE work'[x] = Started
      BY <2>2, <3>1, StartedWork
    <3>2. CASE x \in DOMAIN work /\ work'[x] = work[x]
      BY <1>1, <2>1, <2>2, <3>2, OthersStay
    <3> QED BY <2>1, <3>1, <3>2
  <2> QED BY <1>2, <2>1, <2>2, <2>3
<1>5. ASSUME UNCHANGED vars, NEW x \in DOMAIN work'
      PROVE  /\ items'[x].status = "in_flight"
             /\ x.kind = "catalog" => CatalogWork(x, work[x])'
             /\ x.kind = "registry" => RegistryWork(x, work[x])'
             /\ x.kind = "artifact" => work'[x].pc \in {"start", "done"}
  <2>1. x \in DOMAIN work /\ work' = work /\ items' = items
    BY <1>5 DEF vars
  <2>2. PICK v : v = work'[x]
    OBVIOUS
  <2>3. /\ x.kind = "catalog" => CatalogWork(x, v)'
        /\ x.kind = "registry" => RegistryWork(x, v)'
        /\ x.kind = "artifact" => v.pc \in {"start", "done"}
    BY <1>1, <2>1, <2>2, OthersStay
  <2>4. items'[x].status = "in_flight"
    BY <2>1 DEF Base, WorkInv
  <2> QED BY <1>2, <2>2, <2>3, <2>4
<1> QED BY <1>3, <1>4, <1>5, StepCases DEF WorkInv

LEMMA BaseInit ==
  Init => Base
<1> SUFFICES ASSUME Init PROVE Base
  OBVIOUS
<1>1. RowsInv
  BY DEF Init, RowsInv
<1>2. KeysInv
  <2> SUFFICES ASSUME NEW k \in DOMAIN items
               PROVE  /\ k.kind = "catalog" => k.url \in Catalogs /\ k.of \in {0} \union DOMAIN catalogs
                      /\ k.kind = "registry" => k.of \in DOMAIN registries /\ k.url = registries[k.of].url
    BY DEF KeysInv
  <2>1. PICK u \in Roots : k = CatalogKey(u, 0)
    BY DEF Init
  <2>2. k.kind = "catalog" /\ k.url = u /\ k.of = 0 /\ u \in Catalogs
    BY <2>1, WorldAssumption DEF CatalogKey
  <2> QED BY <2>2
<1>3. WorkInv
  BY DEF Init, WorkInv
<1> QED BY <1>1, <1>2, <1>3, TypeInit DEF Base

LEMMA BaseInvariant ==
  Spec => []Base
<1>1. Base /\ [Next]_vars => Base'
  BY TypeStep, RowsStep, KeysStep, WorkStep DEF Base
<1> QED BY <1>1, BaseInit, PTL DEF Spec

\* A repeated fetch finds the row it saved and a repeated fan-out the registry
\* it asked, whatever died in between: a document is one row for each parent,
\* and an entry asks for its registry once.
THEOREM NothingIsTwice ==
  Spec => []NothingTwice
<1>1. Base => NothingTwice
  <2> SUFFICES ASSUME Base PROVE NothingTwice
    OBVIOUS
  <2>1. \A c, d \in DOMAIN catalogs : catalogs[c] = catalogs[d] => c = d
    BY DEF Base, RowsInv
  <2>2. ASSUME NEW j \in DOMAIN items, NEW k \in DOMAIN items,
               j.kind = "registry", k.kind = "registry", j.url = k.url,
               registries[j.of].entry = registries[k.of].entry,
               registries[j.of].from = registries[k.of].from
        PROVE  j = k
    <3>1. /\ j.of \in DOMAIN registries /\ j.url = registries[j.of].url
          /\ k.of \in DOMAIN registries /\ k.url = registries[k.of].url
      BY <2>2 DEF Base, KeysInv
    <3>2. registries[j.of] \in RegistryRow /\ registries[k.of] \in RegistryRow
      BY <3>1 DEF Base, TypeOK
    <3>3. registries[j.of] = registries[k.of]
      <4>1. PICK r, s : r = registries[j.of] /\ s = registries[k.of]
        OBVIOUS
      <4>2. r.entry = s.entry /\ r.from = s.from /\ r.url = s.url
        BY <2>2, <3>1, <4>1
      <4>3. r \in RegistryRow /\ s \in RegistryRow
        BY <3>2, <4>1
      <4>4. r = s
        BY <4>2, <4>3 DEF RegistryRow
      <4> QED BY <4>1, <4>4
    <3>4. j.of = k.of
      BY <3>1, <3>3 DEF Base, RowsInv
    <3>5. j \in Key /\ k \in Key
      BY DEF Base, TypeOK
    <3> QED BY <2>2, <3>4, <3>5, SameKey
  <2> QED BY <2>1, <2>2 DEF NothingTwice
<1> QED BY <1>1, BaseInvariant, PTL

-----------------------------------------------------------------------------
(* What has been followed up stays followed up.                            *)

LEMMA FollowedUpStays ==
  ASSUME Base, Extends, NEW c \in DOMAIN catalogs, NEW i \in DOMAIN Document[catalogs[c].url],
         FollowedUp(c, i)
  PROVE  FollowedUp(c, i)'
<1> PICK e : e = Document[catalogs[c].url][i]
  OBVIOUS
<1>1. PICK k \in DOMAIN items :
        /\ k.kind = e.kind /\ k.url = e.url
        /\ CASE e.kind = "catalog"  -> k.of = c
             [] e.kind = "artifact" -> k.of = EntryRow(c, i)
             [] e.kind = "registry" -> registries[k.of].entry = EntryRow(c, i)
  BY DEF FollowedUp
<1>2. catalogs'[c] = catalogs[c] /\ EntryRow(c, i)' = EntryRow(c, i) /\ k \in DOMAIN items'
  BY EntryRowStays DEF Extends, Grows
<1>3. e.kind = "registry" => registries'[k.of] = registries[k.of]
  BY <1>1 DEF Base, KeysInv, Extends, Grows
<1>4. e.kind \in {"catalog", "artifact", "registry"}
  BY Domains, Documents DEF Base, PointerKinds
<1>5. e = Document[catalogs'[c].url][i]
  BY <1>2
<1>6. /\ k.kind = e.kind /\ k.url = e.url
      /\ CASE e.kind = "catalog"  -> k.of = c
           [] e.kind = "artifact" -> k.of = EntryRow(c, i)'
           [] e.kind = "registry" -> registries'[k.of].entry = EntryRow(c, i)'
  <2>1. CASE e.kind = "catalog"
    BY <1>1, <2>1
  <2>2. CASE e.kind = "artifact"
    BY <1>1, <1>2, <2>2
  <2>3. CASE e.kind = "registry"
    BY <1>1, <1>2, <1>3, <2>3
  <2> QED BY <1>4, <2>1, <2>2, <2>3
<1> QED BY <1>2, <1>5, <1>6 DEF FollowedUp

LEMMA HarvestedStays ==
  ASSUME Base, Extends, NEW c \in DOMAIN catalogs, Harvested(c)
  PROVE  Harvested(c)'
BY DEF Harvested, EntriesOf, Extends, Grows

LEMMA ReachedStays ==
  ASSUME Base, Extends, NEW c \in DOMAIN catalogs, Reached(c)
  PROVE  Reached(c)'
<1>1. PICK list : list = Document[catalogs[c].url]
  OBVIOUS
<1>2. PICK j \in DOMAIN list : list[j].kind = "registry" /\ \A i \in 1..j : FollowedUp(c, i)
  BY <1>1 DEF Reached
<1>3. DOMAIN list = 1..Len(list) /\ Len(list) \in Nat
  BY <1>1, Domains, Documents DEF Base
<1>4. \A i \in 1..j : i \in DOMAIN list
  BY <1>2, <1>3
<1>5. \A i \in 1..j : FollowedUp(c, i)'
  BY <1>1, <1>2, <1>4, FollowedUpStays
<1>6. list = Document[catalogs'[c].url]
  BY <1>1 DEF Extends, Grows
<1> QED BY <1>2, <1>5, <1>6 DEF Reached

LEMMA KeptStays ==
  ASSUME Base, Extends, NEW c \in DOMAIN catalogs, NEW i \in DOMAIN Document[catalogs[c].url],
         Kept(c, i)
  PROVE  Kept(c, i)'
<1>1. Document[catalogs'[c].url] = Document[catalogs[c].url]
  BY DEF Extends, Grows
<1>2. CASE FollowedUp(c, i)
  BY <1>2, FollowedUpStays DEF Kept
<1>3. CASE Harvested(c) /\ \E j \in 1..(i - 1) : Document[catalogs[c].url][j].kind = "registry"
  <2>1. Harvested(c)'
    BY <1>3, HarvestedStays
  <2>2. \E j \in 1..(i - 1) : Document[catalogs'[c].url][j].kind = "registry"
    BY <1>1, <1>3
  <2> QED BY <2>1, <2>2 DEF Kept
<1> QED BY <1>2, <1>3 DEF Kept

\* What a registry's harvest finds followed up is enough for what is skipped.
LEMMA ReachedKeeps ==
  ASSUME TypeOK, NEW c \in DOMAIN catalogs, NEW i \in DOMAIN Document[catalogs[c].url],
         Reached(c), Harvested(c)
  PROVE  Kept(c, i)
<1>1. PICK list : list = Document[catalogs[c].url]
  OBVIOUS
<1>2. PICK j \in DOMAIN list : list[j].kind = "registry" /\ \A x \in 1..j : FollowedUp(c, x)
  BY <1>1 DEF Reached
<1>3. DOMAIN list = 1..Len(list) /\ Len(list) \in Nat
  BY <1>1, Domains, Documents
<1>4. i \in Nat /\ j \in Nat /\ i >= 1 /\ j >= 1
  BY <1>1, <1>2, <1>3
<1>5. CASE i <= j
  <2>1. i \in 1..j
    BY <1>4, <1>5
  <2> QED BY <1>2, <2>1 DEF Kept
<1>6. CASE ~(i <= j)
  <2>1. j \in 1..(i - 1)
    BY <1>4, <1>6
  <2> QED BY <1>1, <1>2, <2>1 DEF Kept
<1> QED BY <1>5, <1>6

\* The number of a catalog's rows differs from the document's only if there are
\* results among them.
LEMMA CountTells ==
  ASSUME TypeOK, RowsInv, NEW c \in DOMAIN catalogs,
         Cardinality(EntriesOf(c)) # Len(Document[catalogs[c].url])
  PROVE  Harvested(c)
<1> SUFFICES ASSUME ~Harvested(c) PROVE FALSE
  OBVIOUS
<1>1. PICK b \in 0..Len(entries) : Block(c, b)
  BY DEF RowsInv
<1>2. PICK n : n = Len(Document[catalogs[c].url])
  OBVIOUS
<1>3. n \in Nat /\ b \in Nat /\ DOMAIN entries \subseteq Nat
  BY <1>2, Domains, Documents
<1>4. \A i \in 1..n : b + i \in EntriesOf(c)
  BY <1>1, <1>2 DEF Block, Leads, EntriesOf
<1>5. \A e \in EntriesOf(c) : e \in Nat /\ e > b /\ ~(e > b + n)
  <2> SUFFICES ASSUME NEW e \in EntriesOf(c) PROVE e \in Nat /\ e > b /\ ~(e > b + n)
    OBVIOUS
  <2>1. entries[e].from = 0 /\ e \in Nat /\ e \in RowsOf(entries, c)
    BY <1>3 DEF Harvested, EntriesOf, RowsOf
  <2> QED BY <1>1, <1>2, <2>1 DEF Block, Leads
<1>6. EntriesOf(c) = (b + 1)..(b + n)
  <2>1. \A e : e \in EntriesOf(c) => e \in (b + 1)..(b + n)
    BY <1>3, <1>5
  <2>2. \A e : e \in (b + 1)..(b + n) => e \in EntriesOf(c)
    <3> SUFFICES ASSUME NEW e \in (b + 1)..(b + n) PROVE e \in EntriesOf(c)
      OBVIOUS
    <3>1. e - b \in 1..n /\ b + (e - b) = e
      BY <1>3
    <3> QED BY <1>4, <3>1
  <2> QED BY <2>1, <2>2
<1>7. Cardinality((b + 1)..(b + n)) = n
  <2>1. b + 1 \in Int /\ b + n \in Int
    BY <1>3
  <2>2. Cardinality((b + 1)..(b + n)) = IF b + 1 > b + n THEN 0 ELSE (b + n) - (b + 1) + 1
    BY <2>1, FS_Interval
  <2> QED BY <1>3, <2>2
<1> QED BY <1>2, <1>6, <1>7

\* The rows of an item's own document are its fetch's.
LEMMA PriorGrows ==
  ASSUME Base, [Next]_vars, NEW x \in DOMAIN items, x.kind = "catalog", NEW c \in Prior(x)'
  PROVE  c \in Prior(x) \/ (c = Len(catalogs) + 1 /\ FetchCatalog(x))
<1>1. c \in DOMAIN catalogs' /\ catalogs'[c].url = x.url /\ catalogs'[c].parent = x.of
  BY DEF Prior, PriorRows
<1>2. Extends
  BY StepExtends
<1>3. CASE c \in DOMAIN catalogs
  <2>1. catalogs'[c] = catalogs[c]
    BY <1>2, <1>3 DEF Extends, Grows
  <2> QED BY <1>1, <1>3, <2>1 DEF Prior, PriorRows
<1>4. CASE c \notin DOMAIN catalogs
  <2>1. catalogs' # catalogs
    BY <1>1, <1>4
  <2>2. PICK k \in DOMAIN items : Works(k)
    BY <2>1, StepCases, AnswersExtends
  <2>3. FetchCatalog(k) /\ AddsDocument(k)
    <3>1. FetchCatalog(k)
      BY <2>1, <2>2 DEF Works, FollowEntry, EnsureRegistry, Harvest, FollowResult, FollowReferral,
                        EnsureReferred, FetchArtifact
    <3> QED BY <2>1, <3>1, FetchCatalogDoes DEF AddsDocument
  <2>4. PICK row : row = [url |-> k.url, parent |-> k.of]
    OBVIOUS
  <2>5. k \in Key /\ x \in Key /\ k.kind = "catalog" /\ k.url \in Catalogs
    BY <2>3 DEF AddsDocument, Base, TypeOK
  <2>6. row \in CatalogRow
    <3>1. k.of \in Nat
      BY <2>5 DEF Key
    <3> QED BY <2>4, <2>5, <3>1 DEF CatalogRow
  <2>7. catalogs' = Append(catalogs, row)
    BY <2>3, <2>4 DEF AddsDocument
  <2>8. DOMAIN catalogs' = DOMAIN catalogs \union {Len(catalogs) + 1} /\ catalogs'[Len(catalogs) + 1] = row
    BY <2>6, <2>7, Appended DEF Base, TypeOK
  <2>9. c = Len(catalogs) + 1 /\ catalogs'[c] = row
    BY <1>1, <1>4, <2>8
  <2>10. k.url = x.url /\ k.of = x.of
    BY <1>1, <2>4, <2>9
  <2>11. k = x
    BY <2>5, <2>10, SameKey
  <2> QED BY <2>3, <2>9, <2>11
<1> QED BY <1>3, <1>4

LEMMA AllKeptStays ==
  ASSUME Base, [Next]_vars, NEW x \in DOMAIN items, x.kind = "catalog", ~FetchCatalog(x), AllKept(x)
  PROVE  AllKept(x)'
<1> SUFFICES ASSUME NEW c \in Prior(x)', NEW i \in DOMAIN Document[x.url]
             PROVE  Kept(c, i)'
  BY DEF AllKept
<1>1. c \in Prior(x)
  BY PriorGrows
<1>2. Extends
  BY StepExtends
<1>3. c \in DOMAIN catalogs /\ catalogs[c].url = x.url
  BY <1>1 DEF Prior, PriorRows
<1>4. Kept(c, i)
  BY <1>1 DEF AllKept
<1> QED BY <1>2, <1>3, <1>4, KeptStays

LEMMA FollowedToStays ==
  ASSUME Base, Extends, NEW x, NEW w, w.row \in Prior(x), FollowedTo(x, w)
  PROVE  FollowedTo(x, w)'
<1>1. w.row \in DOMAIN catalogs /\ catalogs[w.row].url = x.url
  BY DEF Prior, PriorRows
<1> SUFFICES ASSUME NEW i \in DOMAIN Document[x.url], i < w.i
             PROVE  FollowedUp(w.row, i)'
  BY DEF FollowedTo
<1>2. FollowedUp(w.row, i)
  BY DEF FollowedTo
<1> QED BY <1>1, <1>2, FollowedUpStays

LEMMA FollowedWorkStays ==
  ASSUME Base, [Next]_vars, NEW x \in DOMAIN work, x.kind = "catalog", ~FetchCatalog(x),
         NEW w, w = work[x], FollowedWork(x, w), items'[x].depth = items[x].depth
  PROVE  FollowedWork(x, w)'
<1>1. x \in DOMAIN items /\ CatalogWork(x, w) /\ Extends
  BY AtWork, StepExtends
<1>2. FollowsEntries(x)' <=> FollowsEntries(x)
  BY FollowsStays
<1>3. ASSUME w.pc \in {"entries", "ensure"}
      PROVE  FollowedTo(x, w)'
  <2>1. w.row \in Prior(x) /\ FollowedTo(x, w)
    BY <1>1, <1>3 DEF CatalogWork, FollowedWork
  <2> QED BY <1>1, <2>1, FollowedToStays
<1>4. ASSUME w.pc = "done", FollowsEntries(x)'
      PROVE  AllKept(x)'
  <2>1. AllKept(x)
    BY <1>2, <1>4 DEF FollowedWork
  <2> QED BY <1>1, <2>1, AllKeptStays
<1> QED BY <1>3, <1>4 DEF FollowedWork

\* One more entry is followed up.
LEMMA OneMore ==
  ASSUME Base, Extends, NEW x, NEW w, NEW v, w.row \in Prior(x), FollowedTo(x, w),
         w.i \in Nat, v.row = w.row, v.i = w.i + 1, FollowedUp(w.row, w.i)'
  PROVE  FollowedTo(x, v)'
<1> SUFFICES ASSUME NEW i \in DOMAIN Document[x.url], i < v.i
             PROVE  FollowedUp(v.row, i)'
  BY DEF FollowedTo
<1>1. catalogs[w.row].url = x.url /\ w.row \in DOMAIN catalogs
  BY DEF Prior, PriorRows
<1>2. i \in Nat
  BY <1>1, Domains, Documents DEF Base
<1>3. CASE i < w.i
  <2>1. FollowedTo(x, w)'
    BY FollowedToStays
  <2>2. FollowedUp(w.row, i)'
    BY <1>3, <2>1 DEF FollowedTo
  <2>3. PICK r : r = w.row
    OBVIOUS
  <2> QED BY <2>2
<1>4. CASE i = w.i
  BY <1>4
<1> QED BY <1>2, <1>3, <1>4

LEMMA FollowedMover ==
  ASSUME Base, FanInv, NEW k \in DOMAIN items, Works(k), [Next]_vars, k.kind = "catalog",
         NEW v, v = work'[k]
  PROVE  FollowedWork(k, v)'
<1> PICK w : w = work[k]
  OBVIOUS
<1>1. /\ Extends /\ k \in DOMAIN work /\ items'[k] = items[k] /\ CatalogWork(k, w)
      /\ w.i \in Nat \ {0} /\ w.row \in Nat /\ w.reg \in Nat /\ w.i + 1 \in Nat \ {0}
      /\ k.url \in Catalogs
  BY WorksExtends, AtWork DEF Grows
<1>2. ASSUME NEW p \in {"start", "entries", "results", "referrals", "ensure", "done"},
             NEW j \in Nat \ {0}, NEW row \in Nat, NEW reg \in Nat, Put(k, p, j, row, reg)
      PROVE  v.pc = p /\ v.i = j /\ v.row = row /\ v.reg = reg
  BY <1>1, <1>2, PutDoes DEF Base
<1>3. FollowsEntries(k)' <=> FollowsEntries(k)
  BY <1>1, FollowsStays
<1>4. FollowedWork(k, w)
  BY <1>1 DEF FanInv
<1>5. ASSUME v.pc = "entries", FollowedTo(k, v)'
      PROVE  FollowedWork(k, v)'
  BY <1>5 DEF FollowedWork
<1>6. ASSUME v.pc = "done", FollowsEntries(k) => AllKept(k)'
      PROVE  FollowedWork(k, v)'
  BY <1>3, <1>6 DEF FollowedWork
<1>7. DOMAIN Document[k.url] = 1..Len(Document[k.url]) /\ Len(Document[k.url]) \in Nat
  BY <1>1, Documents
<1>8. CASE FetchCatalog(k)
  <2>1. v.i = 1 => FollowedTo(k, v)'
    BY <1>7 DEF FollowedTo
  <2>2. CASE \E c \in Prior(k) :
                /\ UNCHANGED <<catalogs, entries>>
                /\ \/ FollowsEntries(k) /\ Put(k, "entries", 1, c, work[k].reg)
                   \/ ~Resumes(k, c) /\ Put(k, "done", 1, c, work[k].reg)
    <3>1. PICK c \in Prior(k) :
                /\ UNCHANGED <<catalogs, entries>>
                /\ \/ Put(k, "entries", 1, c, w.reg)
                   \/ ~Resumes(k, c) /\ Put(k, "done", 1, c, w.reg)
      BY <2>2
    <3>2. c \in Nat /\ c \in DOMAIN catalogs /\ catalogs[c].url = k.url
      BY <1>1, PriorStays, Domains DEF Base
    <3>3. CASE Put(k, "entries", 1, c, w.reg)
      <4>1. v.pc = "entries" /\ v.i = 1
        BY <1>1, <1>2, <3>2, <3>3
      <4> QED BY <1>5, <2>1, <4>1
    <3>4. CASE ~Resumes(k, c) /\ Put(k, "done", 1, c, w.reg)
      <4>1. v.pc = "done"
        BY <1>1, <1>2, <3>2, <3>4
      <4>2. ASSUME FollowsEntries(k)
            PROVE  AllKept(k)'
        <5>1. Harvested(c)
          <6>1. ~(Cardinality(EntriesOf(c)) = Len(Document[k.url]))
            BY <3>4, <4>2, Zenon DEF Resumes
          <6> QED BY <3>2, <6>1, CountTells DEF Base
        <5>2. Reached(c)
          BY <3>2, <5>1 DEF FanInv
        <5>3. \A i \in DOMAIN Document[k.url] : Kept(c, i)
          BY <3>2, <5>1, <5>2, ReachedKeeps DEF Base
        <5>4. \A i \in DOMAIN Document[k.url] : Kept(c, i)'
          BY <1>1, <3>2, <5>3, KeptStays
        <5>5. \A d \in Prior(k)' : d = c
          <6>1. Prior(k)' = Prior(k)
            BY <3>1 DEF Prior, PriorRows
          <6> QED BY <6>1, OneRow DEF Base
        <5> QED BY <5>4, <5>5 DEF AllKept
      <4> QED BY <1>6, <4>1, <4>2
    <3> QED BY <3>1, <3>3, <3>4
  <2>3. CASE \/ FollowsEntries(k) /\ Put(k, "entries", 1, Len(catalogs) + 1, work[k].reg)
             \/ ~FollowsEntries(k) /\ Put(k, "done", 1, Len(catalogs) + 1, work[k].reg)
    <3>1. PICK c : c = Len(catalogs) + 1
      OBVIOUS
    <3>2. c \in Nat
      <4>1. Len(catalogs) \in Nat
        BY Domains DEF Base
      <4> QED BY <3>1, <4>1
    <3>3. CASE Put(k, "entries", 1, Len(catalogs) + 1, work[k].reg)
      <4>1. v.pc = "entries" /\ v.i = 1
        BY <1>1, <1>2, <3>1, <3>2, <3>3
      <4> QED BY <1>5, <2>1, <4>1
    <3>4. CASE ~FollowsEntries(k) /\ Put(k, "done", 1, Len(catalogs) + 1, work[k].reg)
      <4>1. v.pc = "done"
        BY <1>1, <1>2, <3>1, <3>2, <3>4
      <4> QED BY <1>6, <3>4, <4>1
    <3> QED BY <2>3, <3>3, <3>4
  <2> QED BY <1>8, <2>2, <2>3, FetchCatalogDoes
<1>9. CASE FollowEntry(k)
  <2> PICK e : e = Document[k.url][w.i]
    OBVIOUS
  <2>1. w.pc = "entries"
    BY <1>9, FollowEntryDoes
  <2>2. w.row \in Prior(k) /\ FollowsEntries(k) /\ FollowedTo(k, w)
    BY <1>1, <1>4, <2>1 DEF CatalogWork, FollowedWork
  <2>3. /\ w.row \in DOMAIN catalogs /\ catalogs[w.row].url = k.url /\ w.row \in Prior(k)'
        /\ catalogs'[w.row] = catalogs[w.row]
    BY <1>1, <2>2, PriorStays
  <2>4. CASE EntriesDone(k, w)
    <3>1. v.pc = "done"
      BY <1>1, <1>2, <2>4 DEF EntriesDone
    <3>2. \A i \in DOMAIN Document[k.url] : FollowedUp(w.row, i)
      <4> SUFFICES ASSUME NEW i \in DOMAIN Document[k.url] PROVE FollowedUp(w.row, i)
        OBVIOUS
      <4>1. i < w.i
        BY <1>1, <1>7, <2>4 DEF EntriesDone
      <4> QED BY <2>2, <4>1 DEF FollowedTo
    <3>3. \A c \in Prior(k) : c = w.row
      BY <2>2, OneRow DEF Base
    <3>4. AllKept(k)
      BY <3>2, <3>3 DEF AllKept, Kept
    <3>5. ~FetchCatalog(k)
      BY <2>1 DEF FetchCatalog, At
    <3>6. AllKept(k)'
      BY <3>4, <3>5, AllKeptStays
    <3> QED BY <1>6, <3>1, <3>6
  <2>5. CASE EntryIsCatalog(k, w, e)
    <3>1. v.pc = "entries" /\ v.row = w.row /\ v.i = w.i + 1
      BY <1>1, <1>2, <2>5 DEF EntryIsCatalog
    <3>2. PICK y : y = CatalogKey(e.url, w.row)
      OBVIOUS
    <3>3. e.kind = "catalog" /\ e.url \in URL /\ w.i \in DOMAIN Document[k.url]
      BY <2>5 DEF EntryIsCatalog, URL
    <3>4. y \in Key /\ y.kind = "catalog" /\ y.url = e.url /\ y.of = w.row
      BY <1>1, <3>2, <3>3, Keys
    <3>5. y \in DOMAIN items'
      <4>1. PICK d : d = items[k].depth + 1
        OBVIOUS
      <4>2. items[k].depth \in Nat
        BY <1>1, AtWork
      <4>3. d \in Nat
        BY <4>1, <4>2
      <4>4. items' = Ensured(y, d)
        BY <2>5, <3>2, <4>1, Zenon DEF EntryIsCatalog
      <4> QED BY <3>4, <4>3, <4>4, EnsuredRow DEF Base
    <3>6. FollowedUp(w.row, w.i)'
      BY <2>3, <3>3, <3>4, <3>5 DEF FollowedUp
    <3>7. FollowedTo(k, v)'
      BY <1>1, <2>2, <3>1, <3>6, OneMore
    <3> QED BY <1>5, <3>1, <3>7
  <2>6. CASE EntryIsArtifact(k, w, e)
    <3>1. v.pc = "entries" /\ v.row = w.row /\ v.i = w.i + 1
      BY <1>1, <1>2, <2>6 DEF EntryIsArtifact
    <3>2. PICK id : id = EntryRow(w.row, w.i)
      OBVIOUS
    <3>3. PICK y : y = ArtifactKey(e.url, id)
      OBVIOUS
    <3>4. e.kind = "artifact" /\ e.url \in URL /\ w.i \in DOMAIN Document[k.url]
      BY <2>6 DEF EntryIsArtifact
    <3>5. id \in Nat
      BY <2>3, <3>2, <3>4, EntryRowIs, Domains DEF Base
    <3>6. y \in Key /\ y.kind = "artifact" /\ y.url = e.url /\ y.of = id
      <4>1. PICK u : u = e.url
        OBVIOUS
      <4>2. u \in URL
        BY <3>4, <4>1
      <4>3. /\ ArtifactKey(u, id) \in Key /\ ArtifactKey(u, id).kind = "artifact"
            /\ ArtifactKey(u, id).url = u /\ ArtifactKey(u, id).of = id
        BY <3>5, <4>2, Keys
      <4> QED BY <3>3, <4>1, <4>3
    <3>7. y \in DOMAIN items'
      <4>1. items' = Ensured(y, 0)
        BY <2>6, <3>2, <3>3 DEF EntryIsArtifact
      <4> QED BY <3>6, <4>1, EnsuredRow DEF Base
    <3>8. EntryRow(w.row, w.i)' = id
      BY <1>1, <2>3, <3>2, <3>4, EntryRowStays
    <3>9. FollowedUp(w.row, w.i)'
      BY <2>3, <3>4, <3>6, <3>7, <3>8 DEF FollowedUp
    <3>10. FollowedTo(k, v)'
      BY <1>1, <2>2, <3>1, <3>9, OneMore
    <3> QED BY <1>5, <3>1, <3>10
  <2>7. CASE EntryIsRegistry(k, w, e)
    <3>1. PICK r \in Nat : Put(k, "ensure", w.i, w.row, r)
      BY <2>7 DEF EntryIsRegistry
    <3>2. v.pc = "ensure" /\ v.row = w.row /\ v.i = w.i
      BY <1>1, <1>2, <3>1
    <3>3. FollowedTo(k, w)'
      BY <1>1, <2>2, FollowedToStays
    <3>4. FollowedTo(k, v)'
      BY <3>2, <3>3 DEF FollowedTo
    <3> QED BY <3>2, <3>4 DEF FollowedWork
  <2> QED BY <1>9, <2>4, <2>5, <2>6, <2>7, FollowEntryDoes
<1>10. CASE EnsureRegistry(k)
  <2>1. /\ w.pc = "ensure" /\ Put(k, "entries", w.i + 1, w.row, w.reg)
        /\ UNCHANGED <<catalogs, entries, registries>>
        /\ items' = Ensured(RegistryKey(registries[w.reg].url, w.reg), 0)
    BY <1>10, EnsureRegistryDoes
  <2>2. /\ w.row \in Prior(k) /\ FollowedTo(k, w) /\ w.i \in DOMAIN Document[k.url]
        /\ Document[k.url][w.i].kind = "registry" /\ w.reg \in DOMAIN registries
        /\ registries[w.reg].entry = EntryRow(w.row, w.i)
        /\ registries[w.reg].url = Document[k.url][w.i].url
    BY <1>1, <1>4, <2>1 DEF CatalogWork, FollowedWork
  <2>3. v.pc = "entries" /\ v.row = w.row /\ v.i = w.i + 1
    BY <1>1, <1>2, <2>1
  <2>4. FollowedUp(w.row, w.i)'
    <3>1. w.row \in DOMAIN catalogs /\ catalogs[w.row].url = k.url
      BY <2>2 DEF Prior, PriorRows
    <3>2. PICK y : y = RegistryKey(registries[w.reg].url, w.reg)
      OBVIOUS
    <3>3. registries[w.reg].url \in Registries
      BY <2>2, Domains DEF Base
    <3>4. y \in Key /\ y.kind = "registry" /\ y.url = registries[w.reg].url /\ y.of = w.reg
      BY <1>1, <3>2, <3>3, Keys DEF URL
    <3>5. y \in DOMAIN items'
      <4>1. items' = Ensured(y, 0)
        BY <2>1, <3>2
      <4> QED BY <3>4, <4>1, EnsuredRow DEF Base
    <3>6. EntryRow(w.row, w.i)' = EntryRow(w.row, w.i)
      BY <1>1, <2>2, <3>1, EntryRowStays
    <3> QED BY <2>1, <2>2, <3>1, <3>4, <3>5, <3>6 DEF FollowedUp
  <2>5. FollowedTo(k, v)'
    BY <1>1, <2>2, <2>3, <2>4, OneMore
  <2> QED BY <1>5, <2>3, <2>5
<1>11. CASE Harvest(k) \/ FollowResult(k) \/ FollowReferral(k) \/ EnsureReferred(k) \/ FetchArtifact(k)
  <2>1. w.pc \notin {"results", "referrals"}
    BY <1>1 DEF CatalogWork
  <2> QED BY <1>11, <2>1 DEF Harvest, FollowResult, FollowReferral, EnsureReferred, FetchArtifact, At
<1> QED BY <1>8, <1>9, <1>10, <1>11 DEF Works

\* An item that is new to the frontier.
LEMMA NewItems ==
  ASSUME Base, NEW k \in DOMAIN items, Works(k), NEW x \in DOMAIN items', x \notin DOMAIN items
  PROVE  /\ items'[x].status = "pending" /\ k \in DOMAIN work
         /\ x.kind = "catalog" =>
              /\ x.of \in DOMAIN catalogs /\ x.url \in Catalogs
              /\ UNCHANGED <<catalogs, entries, registries>>
              /\ \/ /\ k.kind = "catalog" /\ work[k].pc = "entries" /\ x.of = work[k].row
                    /\ items'[x].depth = items[k].depth + 1
                    /\ \E i \in DOMAIN Document[k.url] : Document[k.url][i].kind = "catalog"
                 \/ /\ k.kind = "registry" /\ x.of = OwnCatalog(k)
                    /\ \E i \in DOMAIN Results[k.url] :
                         Results[k.url][i].kind = "catalog" /\ x.url = Results[k.url][i].url
         /\ x.kind = "registry" =>
              /\ work[k].pc = "ensure" /\ x.of = work[k].reg /\ x.of \in DOMAIN registries
              /\ k.kind \in {"catalog", "registry"}
              /\ UNCHANGED <<catalogs, entries, registries>>
<1>1. k \in DOMAIN work
  BY WorksExtends
<1>2. items' # items
  OBVIOUS
<1>3. CASE EnsuresCatalog(k)
  <2>1. PICK u \in Catalogs, n \in DOMAIN catalogs, d \in Nat :
    /\ items' = Ensured(CatalogKey(u, n), d)
    /\ UNCHANGED <<catalogs, entries, registries>>
    /\ \/ /\ k.kind = "catalog" /\ work[k].pc = "entries" /\ n = work[k].row
          /\ d = items[k].depth + 1
          /\ \E i \in DOMAIN Document[k.url] : Document[k.url][i].kind = "catalog"
       \/ /\ k.kind = "registry" /\ d = 0 /\ n = OwnCatalog(k)
          /\ \E i \in DOMAIN Results[k.url] :
               Results[k.url][i].kind = "catalog" /\ u = Results[k.url][i].url
    BY <1>3 DEF EnsuresCatalog
  <2>2. PICK y : y = CatalogKey(u, n)
    OBVIOUS
  <2>3. y \in Key /\ y.kind = "catalog" /\ y.url = u /\ y.of = n
    BY <2>2, Keys, Domains DEF URL, Base
  <2>4. DOMAIN items' = DOMAIN items \union {y}
    BY <2>1, <2>2, <2>3, EnsuredRow DEF Base
  <2>5. x = y
    BY <2>4
  <2>6. items'[x].depth = d /\ items'[x].status = "pending"
    BY <2>1, <2>2, <2>3, <2>5, EnsuredRow DEF Base
  <2> QED BY <1>1, <2>1, <2>3, <2>5, <2>6
<1>4. CASE EnsuresArtifact
  <2>1. PICK u \in URL, n \in Nat, d \in Nat : items' = Ensured(ArtifactKey(u, n), d)
    BY <1>4 DEF EnsuresArtifact
  <2>2. PICK y : y = ArtifactKey(u, n)
    OBVIOUS
  <2>3. y \in Key /\ y.kind = "artifact"
    BY <2>2, Keys
  <2>4. DOMAIN items' = DOMAIN items \union {y}
    BY <2>1, <2>2, <2>3, EnsuredRow DEF Base
  <2>5. x = y
    BY <2>4
  <2>6. items'[x].status = "pending"
    BY <2>1, <2>2, <2>3, <2>5, EnsuredRow DEF Base
  <2> QED BY <1>1, <2>3, <2>5, <2>6
<1>5. CASE EnsuresRegistry(k)
  <2>1. PICK r \in DOMAIN registries, d \in Nat :
    /\ items' = Ensured(RegistryKey(registries[r].url, r), d)
    /\ UNCHANGED <<catalogs, entries, registries>>
    /\ work[k].pc = "ensure" /\ r = work[k].reg /\ k.kind \in {"catalog", "registry"}
    BY <1>5 DEF EnsuresRegistry
  <2>2. PICK y : y = RegistryKey(registries[r].url, r)
    OBVIOUS
  <2>3. registries[r].url \in Registries /\ r \in Nat
    BY Domains DEF Base
  <2>4. y \in Key /\ y.kind = "registry" /\ y.of = r
    BY <2>2, <2>3, Keys DEF URL
  <2>5. DOMAIN items' = DOMAIN items \union {y}
    BY <2>1, <2>2, <2>4, EnsuredRow DEF Base
  <2>6. x = y
    BY <2>5
  <2>7. items'[x].status = "pending"
    BY <2>1, <2>2, <2>4, <2>6, EnsuredRow DEF Base
  <2> QED BY <1>1, <2>1, <2>4, <2>6, <2>7
<1> QED BY <1>2, <1>3, <1>4, <1>5, WorksEnsures

\* The registry of an item is asked because of an entry that was reached.
LEMMA NewReached ==
  ASSUME Base, FanInv, NEW k \in DOMAIN items, Works(k),
         NEW x \in DOMAIN items', x \notin DOMAIN items, x.kind = "registry"
  PROVE  Reached(OwnCatalog(x))'
<1>1. /\ k \in DOMAIN work /\ work[k].pc = "ensure" /\ x.of = work[k].reg /\ x.of \in DOMAIN registries
      /\ k.kind \in {"catalog", "registry"} /\ UNCHANGED <<catalogs, entries, registries>>
  BY NewItems
<1>2. Extends
  BY WorksExtends
<1>3. OwnCatalog(x)' = OwnCatalog(x)
  BY <1>1 DEF OwnCatalog, OwnEntry
<1>4. CASE k.kind = "registry"
  <2>1. OwnCatalog(x) = OwnCatalog(k) /\ OwnCatalog(k) \in DOMAIN catalogs
    BY <1>1, <1>4, AtWork DEF RegistryWork, OwnCatalog, OwnEntry
  <2>2. Reached(OwnCatalog(k))
    BY <1>4 DEF FanInv
  <2>3. PICK c : c = OwnCatalog(k)
    OBVIOUS
  <2>4. Reached(c)'
    BY <1>2, <2>1, <2>2, <2>3, ReachedStays
  <2> QED BY <1>3, <2>1, <2>3, <2>4
<1>5. CASE k.kind = "catalog"
  <2> PICK w : w = work[k]
    OBVIOUS
  <2>1. CatalogWork(k, w) /\ FollowedWork(k, w) /\ w.pc = "ensure"
    BY <1>1, <1>5, AtWork DEF FanInv
  <2>2. /\ w.row \in Prior(k) /\ FollowedTo(k, w) /\ w.i \in DOMAIN Document[k.url]
        /\ Document[k.url][w.i].kind = "registry"
        /\ registries[w.reg].entry = EntryRow(w.row, w.i)
    BY <2>1 DEF CatalogWork, FollowedWork
  <2>3. /\ w.row \in DOMAIN catalogs /\ catalogs[w.row].url = k.url
        /\ w.row \in Prior(k)'
    BY <1>2, <2>2, PriorStays DEF Base
  <2>4. OwnCatalog(x) = w.row
    <3>1. entries[EntryRow(w.row, w.i)].catalog = w.row
      BY <2>2, <2>3, EntryRowIs DEF Base
    <3> QED BY <1>1, <2>2, <3>1 DEF OwnCatalog, OwnEntry
  <2>5. EnsureRegistry(k)
    BY <1>1, <1>5 DEF Works, FetchCatalog, FollowEntry, Harvest, FollowResult, FollowReferral,
                      EnsureReferred, FetchArtifact, At
  <2>6. PICK v : v = work'[k]
    OBVIOUS
  <2>7. v.pc = "entries" /\ v.i = w.i + 1 /\ v.row = w.row
    <3>1. Put(k, "entries", w.i + 1, w.row, w.reg)
      BY <2>5, EnsureRegistryDoes
    <3>2. w.i + 1 \in Nat \ {0} /\ w.row \in Nat /\ w.reg \in Nat
      BY <1>1, AtWork
    <3> QED BY <1>1, <2>6, <3>1, <3>2, PutDoes DEF Base
  <2>8. FollowedTo(k, v)'
    <3>1. FollowedWork(k, v)'
      BY <1>5, <2>6, FollowedMover DEF Next, Crawl, Handle, Works
    <3> QED BY <2>7, <3>1 DEF FollowedWork
  <2>9. w.i \in Nat /\ DOMAIN Document[k.url] = 1..Len(Document[k.url]) /\ Len(Document[k.url]) \in Nat
    BY <1>1, <1>5, AtWork, Documents
  <2>10. \A i \in 1..w.i : FollowedUp(w.row, i)'
    <3> SUFFICES ASSUME NEW i \in 1..w.i PROVE FollowedUp(w.row, i)'
      OBVIOUS
    <3>1. i \in DOMAIN Document[k.url] /\ i < w.i + 1
      BY <2>2, <2>9
    <3>2. FollowedUp(v.row, i)'
      BY <2>7, <2>8, <3>1 DEF FollowedTo
    <3> QED BY <2>7, <3>2
  <2>11. catalogs'[w.row].url = k.url
    BY <2>3 DEF Prior, PriorRows
  <2>12. Reached(w.row)'
    BY <2>2, <2>10, <2>11 DEF Reached
  <2> QED BY <1>3, <2>4, <2>12
<1> QED BY <1>1, <1>4, <1>5

LEMMA FanInit ==
  Init => FanInv
<1> SUFFICES ASSUME Init PROVE FanInv
  OBVIOUS
<1>1. \A k \in DOMAIN items : k.kind = "catalog" /\ items[k].status = "pending"
  BY DEF Init, CatalogKey, NewItem
<1>2. DOMAIN work = {} /\ DOMAIN catalogs = {}
  BY DEF Init
<1> QED BY <1>1, <1>2 DEF FanInv

LEMMA FanStep ==
  ASSUME Base, FanInv, [Next]_vars
  PROVE  FanInv'
<1>1. Extends
  BY StepExtends
<1>2. ASSUME NEW x \in DOMAIN work', x.kind = "catalog"
      PROVE  FollowedWork(x, work[x])'
  <2> PICK v : v = work'[x]
    OBVIOUS
  <2> SUFFICES FollowedWork(x, v)'
    BY DEF FollowedWork, FollowedTo
  <2>1. ASSUME x \in DOMAIN work, v = work[x], ~FetchCatalog(x), items'[x].depth = items[x].depth
        PROVE  FollowedWork(x, v)'
    <3>1. FollowedWork(x, v)
      BY <1>2, <2>1 DEF FanInv
    <3> QED BY <1>2, <2>1, <3>1, FollowedWorkStays
  <2>2. ASSUME NEW k \in DOMAIN items, Works(k)
        PROVE  FollowedWork(x, v)'
    <3>1. x \in DOMAIN work /\ x \in DOMAIN items /\ items'[x] = items[x] /\ k \in DOMAIN work
      BY <2>2, WorksExtends DEF Grows, Base, TypeOK
    <3>2. CASE x = k
      BY <1>2, <2>2, <3>1, <3>2, FollowedMover
    <3>3. CASE x # k
      <4>1. work'[x] = work[x]
        BY <2>2, <3>1, <3>3, WorksExtends
      <4>2. ASSUME FetchCatalog(x)
            PROVE  FALSE
        <5>1. work[x].pc = "start" /\ work'[x].pc # "start"
          <6>1. PICK p \in {"entries", "done"}, c \in Nat : Put(x, p, 1, c, work[x].reg)
            <7>1. \A c \in Prior(x) : c \in Nat
              BY Domains DEF Prior, PriorRows, Base
            <7>2. Len(catalogs) + 1 \in Nat
              BY Domains DEF Base
            <7> QED BY <3>1, <4>2, <7>1, <7>2, FetchCatalogDoes
          <6>2. work[x].pc = "start" /\ work[x].reg \in Nat
            BY <3>1, <4>2, FetchCatalogDoes
          <6>3. 1 \in Nat \ {0}
            OBVIOUS
          <6> QED BY <3>1, <6>1, <6>2, <6>3, PutDoes DEF Base
        <5> QED BY <4>1, <5>1
      <4> QED BY <2>1, <3>1, <4>1, <4>2
    <3> QED BY <3>2, <3>3
  <2>3. CASE Answers
    <3>1. /\ x \in DOMAIN items /\ items'[x].depth = items[x].depth
          /\ v = Started \/ (x \in DOMAIN work /\ v = work[x])
      BY <2>3 DEF Answers
    <3>2. CASE v = Started
      BY <3>2, StartedWork DEF FollowedWork
    <3>3. CASE x \in DOMAIN work /\ v = work[x]
      <4>1. CASE v.pc = "start"
        BY <4>1 DEF FollowedWork
      <4>2. CASE v.pc # "start"
        <5>1. ~FetchCatalog(x)
          BY <3>3, <4>2 DEF FetchCatalog, At
        <5> QED BY <2>1, <3>1, <3>3, <5>1
      <4> QED BY <4>1, <4>2
    <3> QED BY <3>1, <3>2, <3>3
  <2>4. CASE UNCHANGED vars
    <3>1. x \in DOMAIN work /\ v = work[x] /\ items'[x].depth = items[x].depth
      BY <2>4 DEF vars
    <3>2. CASE v.pc = "start"
      BY <3>2 DEF FollowedWork
    <3>3. CASE v.pc # "start"
      <4>1. ~FetchCatalog(x)
        BY <3>1, <3>3 DEF FetchCatalog, At
      <4> QED BY <2>1, <3>1, <4>1
    <3> QED BY <3>2, <3>3
  <2> QED BY <2>2, <2>3, <2>4, StepCases
<1>3. ASSUME NEW x \in DOMAIN items', x.kind = "catalog", items'[x].status = "done", FollowsEntries(x)'
      PROVE  AllKept(x)'
  <2>1. /\ x \in DOMAIN items /\ items'[x].depth = items[x].depth
        /\ items[x].status = "done" \/ (x \in DOMAIN work /\ work[x].pc = "done")
    <3>1. ASSUME NEW k \in DOMAIN items, Works(k)
          PROVE  x \in DOMAIN items /\ items'[x] = items[x]
      <4>1. x \in DOMAIN items
        BY <1>3, <3>1, NewItems
      <4> QED BY <3>1, <4>1, WorksExtends DEF Grows
    <3>2. CASE Answers
      BY <1>3, <3>2 DEF Answers
    <3>3. CASE UNCHANGED vars
      BY <1>3, <3>3 DEF vars
    <3> QED BY <1>3, <3>1, <3>2, <3>3, StepCases
  <2>2. ~FetchCatalog(x)
    BY <2>1 DEF FetchCatalog, At, Base, WorkInv
  <2>3. FollowsEntries(x)
    BY <1>3, <2>1, FollowsStays
  <2>4. AllKept(x)
    BY <1>3, <2>1, <2>3 DEF FanInv, FollowedWork
  <2> QED BY <1>3, <2>1, <2>2, <2>4, AllKeptStays
<1>4. ASSUME NEW x \in DOMAIN items', x.kind = "registry"
      PROVE  Reached(OwnCatalog(x))'
  <2>1. CASE x \in DOMAIN items
    <3>1. PICK c : c = OwnCatalog(x)
      OBVIOUS
    <3>2. OwnCatalog(x)' = c /\ c \in DOMAIN catalogs
      BY <1>1, <1>4, <2>1, <3>1, OwnStays
    <3>3. Reached(c)
      BY <1>4, <2>1, <3>1 DEF FanInv
    <3>4. Reached(c)'
      BY <1>1, <3>2, <3>3, ReachedStays
    <3> QED BY <3>2, <3>4
  <2>2. CASE x \notin DOMAIN items
    <3>1. PICK k \in DOMAIN items : Works(k)
      BY <2>2, StepCases, AnswersExtends
    <3> QED BY <1>4, <2>2, <3>1, NewReached
  <2> QED BY <2>1, <2>2
<1>5. ASSUME NEW c \in DOMAIN catalogs', Harvested(c)'
      PROVE  Reached(c)'
  <2>1. PICK e \in DOMAIN entries' : entries'[e].catalog = c /\ entries'[e].from # 0
    BY <1>5 DEF Harvested, EntriesOf
  <2>2. ASSUME e \in DOMAIN entries
        PROVE  Reached(c)'
    <3>1. entries'[e] = entries[e]
      BY <1>1, <2>2 DEF Extends, Grows
    <3>2. c \in DOMAIN catalogs
      BY <2>1, <2>2, <3>1 DEF Base, RowsInv
    <3>3. Harvested(c)
      BY <2>1, <2>2, <3>1 DEF Harvested, EntriesOf
    <3>4. Reached(c)
      BY <3>2, <3>3 DEF FanInv
    <3> QED BY <1>1, <3>2, <3>4, ReachedStays
  <2>3. ASSUME NEW k \in DOMAIN items, AddsResults(k), e \notin DOMAIN entries
        PROVE  Reached(c)'
    <3>1. c = OwnCatalog(k) /\ OwnCatalog(k) \in DOMAIN catalogs
      BY <2>1, <2>3, HarvestRows DEF AddsResults
    <3>2. Reached(c)
      BY <2>3, <3>1 DEF FanInv, AddsResults
    <3> QED BY <1>1, <3>1, <3>2, ReachedStays
  <2>4. ASSUME NEW k \in DOMAIN items, AddsDocument(k)
        PROVE  e \in DOMAIN entries
    <3>1. PICK d : d = Len(catalogs) + 1
      OBVIOUS
    <3>2. /\ d \notin DOMAIN catalogs /\ k.url \in Catalogs
          /\ \A y \in DOMAIN entries' \ DOMAIN entries : y > Len(entries) /\ entries'[y].catalog = d
          /\ Leads(entries', d, Len(Document[k.url]), Len(entries))
      BY <2>4, <3>1, DocumentRows DEF AddsDocument
    <3> SUFFICES ASSUME e \notin DOMAIN entries PROVE FALSE
      OBVIOUS
    <3>3. c = d /\ e > Len(entries)
      BY <2>1, <3>2
    <3>4. PICK j \in DOMAIN Document[k.url] :
            /\ e = Len(entries) + j
            /\ EntryRows(d, 0, Document[k.url])[j].from = 0 /\ entries'[e] = EntryRows(d, 0, Document[k.url])[j]
      <4>1. /\ Document[k.url] \in Seq(Entry)
            /\ \A i \in DOMAIN Document[k.url] :
                 Document[k.url][i].kind \in PointerKinds /\ Document[k.url][i].url \in URL
        BY <3>2, Documents
      <4>2. d \in Nat
        <5>1. Len(catalogs) \in Nat
          BY Domains DEF Base
        <5> QED BY <3>1, <5>1
      <4>3. PICK list, t : list = Document[k.url] /\ t = EntryRows(d, 0, list)
        OBVIOUS
      <4>4. /\ t \in Seq(EntryRecord) /\ DOMAIN t = DOMAIN list
            /\ \A i \in DOMAIN list : t[i].from = 0
        <5>1. /\ list \in Seq(Entry)
              /\ \A i \in DOMAIN list : list[i].kind \in PointerKinds /\ list[i].url \in URL
          BY <4>1, <4>3
        <5>2. /\ EntryRows(d, 0, list) \in Seq(EntryRecord) /\ DOMAIN EntryRows(d, 0, list) = DOMAIN list
              /\ \A i \in DOMAIN list : /\ EntryRows(d, 0, list)[i].catalog = d
                                       /\ EntryRows(d, 0, list)[i].from = 0
          BY <4>2, <5>1, EntryRowsAre
        <5> QED BY <4>3, <5>2
      <4>5. entries' = entries \o t /\ entries \in Seq(EntryRecord)
        BY <2>4, <3>1, <4>3 DEF AddsDocument, Base, TypeOK
      <4>6. e - Len(entries) \in DOMAIN t /\ entries'[e] = t[e - Len(entries)]
        <5>1. \A y \in DOMAIN (entries \o t) :
                y \in DOMAIN entries
                \/ (y - Len(entries) \in DOMAIN t /\ (entries \o t)[y] = t[y - Len(entries)])
          BY <4>4, <4>5, Concatenated
        <5>2. e \in DOMAIN (entries \o t) /\ e \notin DOMAIN entries
          BY <4>5
        <5> QED BY <4>5, <5>1, <5>2
      <4>7. e \in Int /\ Len(entries) \in Nat
        BY <1>1, Domains DEF Base, Extends
      <4>8. e = Len(entries) + (e - Len(entries))
        BY <4>7
      <4> QED BY <4>3, <4>4, <4>6, <4>8
    <3> QED BY <2>1, <3>4
  <2>5. UNCHANGED <<catalogs, entries, registries>> \/ (\E row \in RegistryRow : AddsRegistry(row))
          => e \in DOMAIN entries
    BY DEF AddsRegistry
  <2>6. CASE \E k \in DOMAIN items : Works(k)
    BY <2>2, <2>3, <2>4, <2>5, <2>6, WorksAdds
  <2>7. CASE Answers \/ UNCHANGED vars
    BY <2>2, <2>5, <2>7, AnswersExtends
  <2> QED BY <2>6, <2>7, StepCases
<1> QED BY <1>2, <1>3, <1>4, <1>5 DEF FanInv

\* processCatalog and enqueueEntryFollowups: a fetch that is done has followed
\* up every entry of its document, however often it was cut short and begun
\* again, but for entries behind one for a registry whose results are counted
\* with the document's.
THEOREM NoEntryIsSkipped ==
  Spec => []FanOutUnlessHarvested
<1>1. Base /\ FanInv /\ [Next]_vars => FanInv'
  BY FanStep
<1>2. FanInv => FanOutUnlessHarvested
  <2> SUFFICES ASSUME FanInv, NEW k \in DOMAIN items, k.kind = "catalog", items[k].status = "done",
                      FollowsEntries(k), NEW c \in Prior(k), NEW i \in DOMAIN Document[k.url]
               PROVE  \/ FollowedUp(c, i)
                      \/ Harvested(c) /\ \E j \in 1..(i - 1) : Document[k.url][j].kind = "registry"
    BY DEF FanOutUnlessHarvested
  <2>1. Kept(c, i)
    BY DEF FanInv, AllKept
  <2>2. catalogs[c].url = k.url
    BY DEF Prior, PriorRows
  <2> QED BY <2>1, <2>2 DEF Kept
<1> QED BY <1>1, <1>2, FanInit, BaseInvariant, PTL DEF Spec

-----------------------------------------------------------------------------
(* How deep catalogs nest.                                                 *)

LEMMA LeastOf ==
  ASSUME NEW T \in SUBSET Nat, T # {}
  PROVE  \E x \in T : \A y \in T : ~(y < x)
<1> DEFINE R == OpToRel(<, Nat)
<1>1. \A x, y \in Nat : x < y => <<x, y>> \in R
  BY DEF OpToRel
<1>2. IsWellFoundedOn(R, Nat)
  BY NatLessThanWellFounded
<1> HIDE DEF R
<1>3. PICK x \in T : \A y \in T : ~ (<<y, x>> \in R)
  BY <1>2, WFMin, Zenon
<1> QED BY <1>1, <1>3

\* Nesting for the rows cats.
Chain(cats) ==
  CHOOSE f : f = [c \in DOMAIN cats |->
                    IF cats[c].parent = 0 THEN 0 ELSE f[cats[c].parent] + 1]

\* Rows whose parents are before them.
Descend(cats) ==
  /\ DOMAIN cats = 1..Len(cats) /\ Len(cats) \in Nat
  /\ \A c \in DOMAIN cats : cats[c].parent \in Nat /\ cats[c].parent < c

LEMMA ChainIs ==
  ASSUME NEW cats, Descend(cats)
  PROVE  /\ DOMAIN Chain(cats) = DOMAIN cats
         /\ \A c \in DOMAIN cats :
              /\ Chain(cats)[c] \in Nat
              /\ cats[c].parent = 0 => Chain(cats)[c] = 0
              /\ cats[c].parent # 0 => /\ cats[c].parent \in DOMAIN cats
                                       /\ Chain(cats)[c] = Chain(cats)[cats[c].parent] + 1
<1> DEFINE Up(f, c) == IF cats[c].parent = 0 THEN 0 ELSE f[cats[c].parent] + 1
           Is(f, m) == f \in [1..m -> Nat] /\ \A c \in 1..m : f[c] = Up(f, c)
           Missing == {m \in Nat : m <= Len(cats) /\ ~ \E f : Is(f, m)}
<1>1. \A c \in DOMAIN cats : cats[c].parent \in Nat /\ cats[c].parent < c /\ c \in Nat
  BY DEF Descend
<1>2. Missing = {}
  <2> SUFFICES ASSUME Missing # {} PROVE FALSE
    OBVIOUS
  <2>1. PICK n \in Missing : \A y \in Missing : ~(y < n)
    <3>1. Missing \in SUBSET Nat
      OBVIOUS
    <3> HIDE DEF Missing
    <3> QED BY <3>1, LeastOf
  <2>2. n \in Nat /\ n <= Len(cats) /\ ~ \E f : Is(f, n)
    OBVIOUS
  <2>3. n # 0
    <3>1. Is([c \in 1..0 |-> 0], 0)
      OBVIOUS
    <3> HIDE DEF Is
    <3> QED BY <2>2, <3>1
  <2>4. n - 1 \in Nat /\ n - 1 < n /\ n - 1 <= Len(cats)
    BY <2>2, <2>3 DEF Descend
  <2>5. n - 1 \notin Missing
    BY <2>1, <2>4
  <2>6. PICK f : Is(f, n - 1)
    BY <2>4, <2>5
  <2>7. \A c \in 1..(n - 1) : f[c] \in Nat /\ f[c] = Up(f, c)
    BY <2>6
  <2>8. \A c \in 1..n : /\ cats[c].parent \in Nat /\ cats[c].parent < c
                        /\ c \in Nat /\ c <= n
    BY <1>1, <2>2 DEF Descend
  <2>9. \A c \in 1..n : cats[c].parent # 0 => cats[c].parent \in 1..(n - 1)
    BY <2>2, <2>8
  <2>10. \A c \in 1..n : Up(f, c) \in Nat
    BY <2>7, <2>9
  <2>11. PICK g : g = [c \in 1..n |-> IF c = n THEN Up(f, n) ELSE f[c]]
    OBVIOUS
  <2>12. \A c \in 1..(n - 1) : g[c] = f[c]
    <3> HIDE DEF Up
    <3> QED BY <2>2, <2>11
  <2>13. \A c \in 1..n : c # n => c \in 1..(n - 1)
    BY <2>2
  <2>14. \A c \in 1..n : g[c] = Up(f, c)
    <3> HIDE DEF Up
    <3> QED BY <2>7, <2>11, <2>13
  <2>15. \A c \in 1..n : Up(f, c) = Up(g, c)
    BY <2>9, <2>12
  <2>16. g \in [1..n -> Nat]
    <3> HIDE DEF Up
    <3>1. DOMAIN g = 1..n /\ g = [c \in 1..n |-> g[c]]
      BY <2>11
    <3>2. \A c \in 1..n : g[c] \in Nat
      BY <2>10, <2>14
    <3> QED BY <3>1, <3>2
  <2>17. Is(g, n)
    <3>1. \A c \in 1..n : g[c] = Up(g, c)
      <4> HIDE DEF Up
      <4> QED BY <2>14, <2>15
    <3> QED BY <2>16, <3>1
  <2> HIDE DEF Is
  <2> QED BY <2>2, <2>17
<1>3. PICK f : Is(f, Len(cats))
  BY <1>2 DEF Descend
<1>4. f = [c \in DOMAIN cats |-> Up(f, c)]
  BY <1>3 DEF Descend
<1>5. Chain(cats) = [c \in DOMAIN cats |-> Up(Chain(cats), c)]
  <2> DEFINE P(h) == h = [c \in DOMAIN cats |-> Up(h, c)]
  <2>1. Chain(cats) = CHOOSE h : P(h)
    BY DEF Chain
  <2>2. P(f)
    BY <1>4
  <2> HIDE DEF P
  <2>3. P(Chain(cats))
    BY <2>1, <2>2
  <2> QED BY <2>3 DEF P
<1>6. PICK h : h = Chain(cats)
  OBVIOUS
<1>7. h = [c \in DOMAIN cats |-> Up(h, c)]
  BY <1>5, <1>6
<1>8. {c \in DOMAIN cats : h[c] # f[c]} = {}
  <2> DEFINE T == {c \in DOMAIN cats : h[c] # f[c]}
  <2> SUFFICES ASSUME T # {} PROVE FALSE
    OBVIOUS
  <2>1. T \in SUBSET Nat
    BY <1>1
  <2>2. PICK n \in T : \A y \in T : ~(y < n)
    <3> HIDE DEF T
    <3> QED BY <2>1, LeastOf
  <2>3. n \in DOMAIN cats /\ h[n] = Up(h, n) /\ f[n] = Up(f, n) /\ h[n] # f[n]
    BY <1>4, <1>7
  <2>4. cats[n].parent # 0 /\ h[cats[n].parent] # f[cats[n].parent]
    BY <2>3
  <2>5. cats[n].parent \in DOMAIN cats /\ cats[n].parent < n
    BY <1>1, <2>3, <2>4 DEF Descend
  <2> QED BY <2>2, <2>4, <2>5
<1>9. \A c \in DOMAIN cats : h[c] \in Nat
  BY <1>3, <1>8 DEF Descend
<1>10. \A c \in DOMAIN cats : cats[c].parent # 0 => cats[c].parent \in DOMAIN cats
  BY <1>1 DEF Descend
<1> QED BY <1>6, <1>7, <1>9, <1>10

LEMMA ChainStays ==
  ASSUME NEW s, NEW t, Descend(s), Descend(t), Grows(s, t), NEW c \in DOMAIN s
  PROVE  Chain(t)[c] = Chain(s)[c]
<1> DEFINE T == {x \in DOMAIN s : Chain(t)[x] # Chain(s)[x]}
<1> SUFFICES ASSUME T # {} PROVE FALSE
  OBVIOUS
<1>1. T \in SUBSET Nat
  BY DEF Descend
<1>2. PICK n \in T : \A y \in T : ~(y < n)
  <2> HIDE DEF T
  <2> QED BY <1>1, LeastOf
<1>3. n \in DOMAIN s /\ n \in DOMAIN t /\ t[n] = s[n] /\ Chain(t)[n] # Chain(s)[n]
  BY DEF Grows
<1>4. CASE s[n].parent = 0
  BY <1>3, <1>4, ChainIs
<1>5. CASE s[n].parent # 0
  <2>1. PICK p : p = s[n].parent
    OBVIOUS
  <2>2. /\ p \in DOMAIN s /\ Chain(s)[n] = Chain(s)[p] + 1
        /\ p < n
    BY <1>3, <1>5, <2>1, ChainIs DEF Descend
  <2>3. Chain(t)[n] = Chain(t)[p] + 1
    BY <1>3, <1>5, <2>1, ChainIs
  <2>4. Chain(t)[p] = Chain(s)[p]
    BY <1>2, <2>2
  <2> QED BY <1>3, <2>2, <2>3, <2>4
<1> QED BY <1>4, <1>5

LEMMA NestingIs ==
  ASSUME Base
  PROVE  Nesting = Chain(catalogs) /\ Descend(catalogs)
<1>1. Nesting = Chain(catalogs)
  BY DEF Nesting, Chain
<1>2. \A c \in DOMAIN catalogs : catalogs[c].parent < c
  BY DEF Base, RowsInv
<1> QED BY <1>1, <1>2, Domains DEF Descend, Base

\* A row that is there stays as deep as it is; a new one is below its parent.
LEMMA NestingStays ==
  ASSUME Base, [Next]_vars
  PROVE  /\ \A c \in DOMAIN catalogs : Nesting'[c] = Nesting[c] /\ Nesting[c] \in Nat
         /\ \A c \in DOMAIN catalogs' \ DOMAIN catalogs :
              /\ catalogs'[c].parent = 0 => Nesting'[c] = 0
              /\ catalogs'[c].parent # 0 => catalogs'[c].parent \in DOMAIN catalogs' /\
                   Nesting'[c] = Nesting'[catalogs'[c].parent] + 1
<1> PICK s : s = catalogs
  OBVIOUS
<1> PICK t : t = catalogs'
  OBVIOUS
<1>1. Nesting = Chain(s) /\ Descend(s)
  BY NestingIs
<1>2. Extends /\ RowsInv'
  BY StepExtends, RowsStep
<1>3. Grows(s, t)
  BY <1>2 DEF Extends
<1>4. Nesting' = Chain(t)
  BY DEF Nesting, Chain
<1>5. Descend(t)
  <2>1. t \in Seq(CatalogRow)
    BY <1>2 DEF Extends
  <2>2. \A c \in DOMAIN t : t[c] \in CatalogRow
    BY <2>1
  <2>3. \A c \in DOMAIN t : t[c].parent < c
    BY <1>2 DEF RowsInv
  <2> QED BY <2>1, <2>2, <2>3 DEF Descend, CatalogRow
<1>6. \A c \in DOMAIN s : Chain(t)[c] = Chain(s)[c] /\ Chain(s)[c] \in Nat
  BY <1>1, <1>3, <1>5, ChainIs, ChainStays
<1> QED BY <1>1, <1>4, <1>5, <1>6, ChainIs

\* The row of a registry is of a catalog whose entries are followed and are not
\* all artifacts, or of the catalog of the registry that names it.
LEMMA NewRegistry ==
  ASSUME Base, [Next]_vars, NEW r \in DOMAIN registries', r \notin DOMAIN registries
  PROVE  /\ UNCHANGED <<catalogs, entries>> /\ registries'[r].entry \in DOMAIN entries
         /\ \E k \in DOMAIN items :
              \/ /\ k.kind = "catalog" /\ FollowsEntries(k) /\ k.url \in Catalogs /\ ~Leaf(k.url)
                 /\ entries[registries'[r].entry].catalog \in Prior(k)
              \/ /\ k.kind = "registry" /\ k.of \in DOMAIN registries
                 /\ entries[registries'[r].entry].catalog = OwnCatalog(k)
<1>1. registries' # registries
  OBVIOUS
<1>2. PICK k \in DOMAIN items : Works(k)
  BY <1>1, StepCases, AnswersExtends
<1>3. ASSUME NEW row \in RegistryRow, SaveRegistry(row)
      PROVE  registries'[r] = row
  <2>1. PICK s : s = SavedRegistry(row)
    OBVIOUS
  <2>2. registries'[s] = row /\ DOMAIN registries' = DOMAIN registries \union {s}
    BY <1>3, <2>1, SavedRow DEF Base
  <2> QED BY <2>2
<1>4. FollowEntry(k) \/ FollowResult(k) \/ FollowReferral(k)
  BY <1>1, <1>2 DEF Works, FetchCatalog, EnsureRegistry, Harvest, EnsureReferred, FetchArtifact
<1> PICK w : w = work[k]
  OBVIOUS
<1>5. CASE FollowEntry(k)
  <2> PICK e : e = Document[k.url][w.i]
    OBVIOUS
  <2>1. k \in DOMAIN work /\ k.kind = "catalog" /\ w.pc = "entries" /\ UNCHANGED <<catalogs, entries>>
    BY <1>5, FollowEntryDoes
  <2>2. EntryIsRegistry(k, w, e)
    BY <1>1, <1>5, FollowEntryDoes DEF EntriesDone, EntryIsCatalog, EntryIsArtifact
  <2>3. PICK row \in RegistryRow :
          /\ row.entry = EntryRow(w.row, w.i) /\ row.entry \in DOMAIN entries /\ SaveRegistry(row)
    BY <2>2 DEF EntryIsRegistry
  <2>4. /\ w.row \in Prior(k) /\ FollowsEntries(k) /\ k.url \in Catalogs
        /\ w.row \in DOMAIN catalogs /\ catalogs[w.row].url = k.url
    BY <2>1, AtWork DEF CatalogWork, Prior, PriorRows
  <2>5. w.i \in DOMAIN Document[k.url] /\ e.kind = "registry"
    BY <2>2 DEF EntryIsRegistry
  <2>6. entries[EntryRow(w.row, w.i)].catalog = w.row
    BY <2>4, <2>5, EntryRowIs DEF Base
  <2>7. ~Leaf(k.url)
    BY <2>5 DEF Leaf
  <2> QED BY <1>3, <2>1, <2>3, <2>4, <2>6, <2>7
<1>6. CASE FollowResult(k)
  <2> PICK e : e = Results[k.url][w.i]
    OBVIOUS
  <2>1. k \in DOMAIN work /\ k.kind = "registry" /\ UNCHANGED <<catalogs, entries>>
    BY <1>6, FollowResultDoes
  <2>2. ResultIsRegistry(k, w, e)
    BY <1>1, <1>6, FollowResultDoes DEF ResultsDone, ResultIsCatalog, ResultIsArtifact
  <2>3. PICK row \in RegistryRow :
          /\ row.entry \in DOMAIN entries /\ entries[row.entry].catalog = OwnCatalog(k)
          /\ SaveRegistry(row)
    BY <2>2 DEF ResultIsRegistry
  <2> QED BY <1>3, <2>1, <2>3, AtWork
<1>7. CASE FollowReferral(k)
  <2>1. /\ k \in DOMAIN work /\ k.kind = "registry" /\ UNCHANGED <<catalogs, entries>>
        /\ ReferralsDone(k, w) \/ Refers(k, w)
    BY <1>7, FollowReferralDoes
  <2>2. PICK row \in RegistryRow :
          row.entry = OwnEntry(k) /\ row.entry \in DOMAIN entries /\ SaveRegistry(row)
    BY <1>1, <2>1 DEF ReferralsDone, Refers
  <2>3. entries[row.entry].catalog = OwnCatalog(k)
    BY <2>2 DEF OwnCatalog
  <2> QED BY <1>3, <2>1, <2>2, <2>3, AtWork
<1> QED BY <1>4, <1>5, <1>6, <1>7

\* The row of a document is as deep as the item it is fetched for.
LEMMA RowLevel ==
  ASSUME Base, NEW k \in DOMAIN items, NEW c \in Prior(k)
  PROVE  Nesting[c] = Level(k) /\ c \in DOMAIN catalogs /\ c # 0
<1>1. c \in DOMAIN catalogs /\ catalogs[c].parent = k.of
  BY DEF Prior, PriorRows
<1>2. c # 0
  BY <1>1, Domains DEF Base
<1>3. Nesting = Chain(catalogs) /\ Descend(catalogs)
  BY NestingIs
<1> QED BY <1>1, <1>2, <1>3, ChainIs DEF Level

LEMMA LevelStays ==
  ASSUME Base, [Next]_vars, NEW k \in DOMAIN items, k.kind = "catalog"
  PROVE  Level(k)' = Level(k) /\ Level(k) \in Nat
<1>1. k.of = 0 \/ k.of \in DOMAIN catalogs
  BY DEF Base, KeysInv
<1>2. k.of \in DOMAIN catalogs => Nesting'[k.of] = Nesting[k.of] /\ Nesting[k.of] \in Nat
  BY NestingStays
<1> QED BY <1>1, <1>2 DEF Level

LEMMA NestInit ==
  Init => NestInv
<1> SUFFICES ASSUME Init PROVE NestInv
  OBVIOUS
<1>1. \A k \in DOMAIN items : k.of = 0 /\ items[k].depth = 0
  BY DEF Init, CatalogKey, NewItem
<1>2. DOMAIN catalogs = {} /\ DOMAIN registries = {}
  BY DEF Init
<1> QED BY <1>1, <1>2, BoundsAssumption DEF NestInv, Level

\* What is added below a document whose entries are followed is not too deep.
LEMMA RoomBelow ==
  ASSUME Base, NestInv, NEW k \in DOMAIN items, k.kind = "catalog", FollowsEntries(k), ~Leaf(k.url)
  PROVE  items[k].depth = Level(k) /\ Level(k) < MaxCatalogDepth
<1>1. items[k].depth = Level(k)
  BY DEF NestInv
<1>2. items[k].depth < MaxCatalogDepth
  BY DEF FollowsEntries
<1> QED BY <1>1, <1>2

LEMMA NestStep ==
  ASSUME LeafResults, Base, NestInv, [Next]_vars
  PROVE  NestInv'
<1>1. Extends
  BY StepExtends
<1>2. MaxCatalogDepth \in Nat
  BY BoundsAssumption
<1>3. ASSUME NEW c \in DOMAIN catalogs'
      PROVE  Nesting'[c] <= MaxCatalogDepth
  <2>1. CASE c \in DOMAIN catalogs
    BY <2>1, NestingStays DEF NestInv
  <2>2. CASE c \notin DOMAIN catalogs
    <3>1. PICK k \in DOMAIN items : Works(k)
      BY <1>3, <2>2, StepCases, AnswersExtends
    <3>2. AddsDocument(k)
      BY <1>3, <2>2, <3>1, WorksAdds DEF AddsResults, AddsRegistry
    <3>3. k.kind = "catalog" /\ k \in Key /\ k.url \in Catalogs /\ k.of \in Nat
      BY <3>2 DEF AddsDocument, Base, TypeOK, Key
    <3>4. PICK row : row = [url |-> k.url, parent |-> k.of]
      OBVIOUS
    <3>5. row \in CatalogRow /\ catalogs' = Append(catalogs, row)
      BY <3>2, <3>3, <3>4 DEF CatalogRow, AddsDocument
    <3>6. catalogs'[c] = row
      BY <1>3, <2>2, <3>5, Appended DEF Base, TypeOK
    <3>7. k.of = 0 \/ k.of \in DOMAIN catalogs
      BY <3>3 DEF Base, KeysInv
    <3>8. Nesting'[c] = Level(k)
      <4>1. k.of = 0 => Nesting'[c] = 0
        BY <1>3, <2>2, <3>4, <3>6, NestingStays
      <4>2. k.of # 0 => Nesting'[c] = Nesting'[k.of] + 1 /\ Nesting'[k.of] = Nesting[k.of]
        BY <1>3, <2>2, <3>4, <3>6, <3>7, NestingStays
      <4> QED BY <4>1, <4>2 DEF Level
    <3> QED BY <3>3, <3>8 DEF NestInv
  <2> QED BY <2>1, <2>2
<1>4. ASSUME NEW x \in DOMAIN items', x.kind = "catalog"
      PROVE  /\ Level(x)' <= MaxCatalogDepth
             /\ items'[x].depth = Level(x)' \/ Leaf(x.url)
  <2>1. CASE x \in DOMAIN items
    <3>1. items'[x].depth = items[x].depth
      <4>1. ASSUME NEW k \in DOMAIN items, Works(k)
            PROVE  items'[x] = items[x]
        BY <2>1, <4>1, WorksExtends DEF Grows
      <4>2. Answers => items'[x].depth = items[x].depth
        BY <2>1 DEF Answers
      <4>3. UNCHANGED vars => items'[x] = items[x]
        BY DEF vars
      <4> QED BY <4>1, <4>2, <4>3, StepCases
    <3> QED BY <1>4, <2>1, <3>1, LevelStays DEF NestInv
  <2>2. CASE x \notin DOMAIN items
    <3>1. PICK k \in DOMAIN items : Works(k)
      BY <1>4, <2>2, StepCases, AnswersExtends
    <3>2. k \in DOMAIN work /\ x.of \in DOMAIN catalogs /\ x.of # 0
      BY <1>4, <2>2, <3>1, NewItems, Domains DEF Base
    <3>3. Level(x)' = Nesting[x.of] + 1
      BY <3>2, NestingStays DEF Level
    <3>4. CASE /\ k.kind = "catalog" /\ work[k].pc = "entries" /\ x.of = work[k].row
               /\ items'[x].depth = items[k].depth + 1
               /\ \E i \in DOMAIN Document[k.url] : Document[k.url][i].kind = "catalog"
      <4>1. x.of \in Prior(k) /\ FollowsEntries(k)
        BY <3>2, <3>4, AtWork DEF CatalogWork
      <4>2. ~Leaf(k.url)
        BY <3>4 DEF Leaf
      <4>3. items[k].depth = Level(k) /\ Level(k) < MaxCatalogDepth
        BY <3>4, <4>1, <4>2, RoomBelow
      <4>4. Nesting[x.of] = Level(k) /\ Level(k) \in Nat
        BY <3>4, <4>1, RowLevel, LevelStays
      <4> QED BY <1>2, <3>3, <3>4, <4>3, <4>4
    <3>5. CASE /\ k.kind = "registry" /\ x.of = OwnCatalog(k)
               /\ \E i \in DOMAIN Results[k.url] :
                    Results[k.url][i].kind = "catalog" /\ x.url = Results[k.url][i].url
      <4>1. Leaf(x.url)
        BY <3>2, <3>5, AtWork DEF LeafResults
      <4>2. Nesting[x.of] < MaxCatalogDepth
        <5>1. k.of \in DOMAIN registries
          BY <3>2, <3>5, AtWork
        <5> QED BY <3>5, <5>1 DEF NestInv, OwnCatalog, OwnEntry
      <4>3. Nesting[x.of] \in Nat
        BY <3>2, NestingStays
      <4> QED BY <1>2, <3>3, <4>1, <4>2, <4>3
    <3> QED BY <1>4, <2>2, <3>1, <3>4, <3>5, NewItems
  <2> QED BY <2>1, <2>2
<1>5. ASSUME NEW r \in DOMAIN registries'
      PROVE  Nesting'[entries'[registries'[r].entry].catalog] < MaxCatalogDepth
  <2>1. CASE r \in DOMAIN registries
    <3>1. registries'[r] = registries[r]
      BY <1>1, <2>1 DEF Extends, Grows
    <3>2. PICK e : e = registries[r].entry
      OBVIOUS
    <3>3. e \in DOMAIN entries /\ entries[e].catalog \in DOMAIN catalogs
      BY <2>1, <3>2 DEF Base, RowsInv
    <3>4. entries'[e] = entries[e]
      BY <1>1, <3>3 DEF Extends, Grows
    <3>5. Nesting[entries[e].catalog] < MaxCatalogDepth
      BY <2>1, <3>2 DEF NestInv
    <3>6. Nesting'[entries[e].catalog] = Nesting[entries[e].catalog]
      BY <3>3, NestingStays
    <3> QED BY <3>1, <3>2, <3>4, <3>5, <3>6
  <2>2. CASE r \notin DOMAIN registries
    <3>1. PICK e : e = registries'[r].entry
      OBVIOUS
    <3>2. PICK c : c = entries[e].catalog
      OBVIOUS
    <3>3. UNCHANGED <<catalogs, entries>> /\ e \in DOMAIN entries
      BY <1>5, <2>2, <3>1, NewRegistry
    <3>4. PICK k \in DOMAIN items :
            \/ /\ k.kind = "catalog" /\ FollowsEntries(k) /\ k.url \in Catalogs /\ ~Leaf(k.url)
               /\ c \in Prior(k)
            \/ k.kind = "registry" /\ k.of \in DOMAIN registries /\ c = OwnCatalog(k)
      BY <1>5, <2>2, <3>1, <3>2, NewRegistry
    <3>5. Nesting[c] < MaxCatalogDepth
      <4>1. CASE k.kind = "catalog" /\ FollowsEntries(k) /\ ~Leaf(k.url) /\ c \in Prior(k)
        <5>1. Level(k) < MaxCatalogDepth
          BY <4>1, RoomBelow
        <5>2. Nesting[c] = Level(k)
          BY <4>1, RowLevel
        <5> QED BY <5>1, <5>2
      <4>2. CASE k.kind = "registry" /\ k.of \in DOMAIN registries /\ c = OwnCatalog(k)
        BY <4>2 DEF NestInv, OwnCatalog, OwnEntry
      <4> QED BY <3>4, <4>1, <4>2
    <3>6. c \in DOMAIN catalogs
      BY <3>2, <3>3 DEF Base, RowsInv
    <3>7. Nesting'[c] = Nesting[c]
      BY <3>6, NestingStays
    <3> QED BY <3>1, <3>2, <3>3, <3>5, <3>7
  <2> QED BY <2>1, <2>2
<1> QED BY <1>3, <1>4, <1>5 DEF NestInv

\* FollowsEntries at ard.maxCatalogDepth: the chain of parents of a catalog is
\* bounded where the catalogs that registries return have nothing to follow
\* but artifacts; they are given depth 0 whatever they are below
\* (Fanout_cycle shows what comes of it otherwise).
THEOREM NestingIsBounded ==
  ASSUME LeafResults
  PROVE  Spec => []NestingBounded
<1>1. Base /\ NestInv /\ [Next]_vars => NestInv'
  BY NestStep
<1>2. NestInv => NestingBounded
  BY DEF NestInv, NestingBounded
<1> QED BY <1>1, <1>2, NestInit, BaseInvariant, PTL DEF Spec
=============================================================================
