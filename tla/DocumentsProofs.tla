--------------------------- MODULE DocumentsProofs ---------------------------
(***************************************************************************)
(* Proofs about Documents, for any documents, hosts, transport flaws and   *)
(* results of registries.                                                  *)
(*                                                                         *)
(* The passes of `verify' are compared entry by entry: the constraints of  *)
(* the schema that an entry breaks in a mode, and the semantic checks that *)
(* stand in for them when the schema has no error.  The rest is that what  *)
(* is stored are the checks of one run of them, on rows that begin with    *)
(* the document's own entries.                                             *)
(***************************************************************************)
EXTENDS Documents, FiniteSetTheorems, WellFoundedInduction, TLAPS

\* normalizeForLenientSchema, for one entry.
Loose(e) == [e EXCEPT !.id = Normalized(e.id), !.data = IF @ = "null" THEN "absent" ELSE @]

\* The constraints of an entry, and the leaves of a document, that a mode reports.
Bad(e, mode) ==
  IF mode = "strict" THEN Broken(e) ELSE {c \in Broken(Loose(e)) : c # "queries"}
LeavesIn(d, mode) ==
  IF mode = "strict" THEN Leaves(d) ELSE {l \in Leaves(Loosened(d)) : ~Dropped(l)}

\* Some check is an error, some check fails.
HasError(cs) == \E c \in cs : ~c.passed /\ c.severity = "error"
HasFailure(cs) == \E c \in cs : ~c.passed

\* What makes a document invalid, and what makes it doubtful.
Wrong(mode) ==
  \/ doc.version # "1.0" \/ Duplicates
  \/ \E i \in DOMAIN doc.entries : Errors(doc.entries[i], mode)
Doubtful == \E i \in DOMAIN doc.entries : Warnings(doc.entries[i])

\* The checks a stored catalog has come from.
Made == IF by = "crawl" THEN Checks(doc, served, "lenient") \union TransportChecks(flaws)
        ELSE Checks(doc, served, by)

TypeOK ==
  /\ doc \in Docs /\ served \in Domains \union {NoDomain} /\ flaws \subseteq TransportFlaws
  /\ rows \in Seq(Identifiers)
  /\ by \in {"crawl"} \union Modes
  /\ status \in {"unsaved"} \union Verdicts
  /\ status # "unsaved" => DOMAIN checks = 0..Len(rows)

\* The first rows are the document's own.
OwnRows ==
  /\ Len(ParsedIds(doc)) <= Len(rows)
  /\ \A i \in DOMAIN ParsedIds(doc) : rows[i] = ParsedIds(doc)[i]

StoredInv ==
  /\ status = "unsaved" => checks = <<>> /\ by = "crawl"
  /\ status # "unsaved" => OwnRows /\ status = RollUp(Made)
  /\ \A r \in DOMAIN checks : checks[r] \subseteq Made
  /\ RightRow

-----------------------------------------------------------------------------
(* Entries.                                                                *)

LEMMA Looser ==
  ASSUME NEW e \in Entries
  PROVE  /\ Loose(e).id = Normalized(e.id) /\ Loose(e).named = e.named /\ Loose(e).url = e.url
         /\ Loose(e).data = (IF e.data = "null" THEN "absent" ELSE e.data)
         /\ Loose(e).queries = e.queries /\ Loose(e).rest = e.rest
<1> DEFINE f == [e EXCEPT !.id = Normalized(e.id)]
<1>1. /\ f.id = Normalized(e.id) /\ f.named = e.named /\ f.url = e.url /\ f.data = e.data
      /\ f.queries = e.queries /\ f.rest = e.rest
      /\ DOMAIN f = {"id", "named", "type", "url", "data", "queries", "rest"}
  BY DEF Entries
<1>2. Loose(e) = [f EXCEPT !.data = IF e.data = "null" THEN "absent" ELSE e.data]
  BY DEF Loose, Entries
<1> HIDE DEF f
<1> QED BY <1>1, <1>2

\* The schema accepts a normalized identifier unless nothing can be made of it.
LEMMA Normalizes ==
  ASSUME NEW id \in Identifiers
  PROVE  MatchesPattern(Normalized(id)) <=> KnownPrefix(id) /\ id.name # NoName
<1>1. CASE KnownPrefix(id)
  <2> DEFINE f == [id EXCEPT !.prefix = "air"]
  <2>1. f.prefix = "air" /\ f.name = id.name /\ f \in Identifiers
    BY DEF Identifiers, Starts
  <2> HIDE DEF f
  <2> DEFINE p == [f.publisher EXCEPT !.form = "ascii"]
  <2>2. f.publisher \in Publishers
    BY <2>1 DEF Identifiers
  <2>3. p.form = "ascii"
    BY <2>2 DEF Publishers
  <2> DEFINE g == [f EXCEPT !.publisher = p]
  <2>4. AsciiPublisher(f) = g
    BY DEF AsciiPublisher
  <2> HIDE DEF p
  <2>5. g.prefix = "air" /\ g.name = id.name /\ g.publisher = p
    BY <2>1 DEF Identifiers
  <2>6. Normalized(id) = g
    BY <1>1, <2>4 DEF Normalized, f
  <2> HIDE DEF g
  <2> QED BY <1>1, <2>3, <2>5, <2>6 DEF MatchesPattern
<1>2. CASE ~KnownPrefix(id)
  BY <1>2 DEF Normalized, MatchesPattern, KnownPrefix
<1> QED BY <1>1, <1>2

Constraints == {"identifier", "displayName", "oneOf", "data", "format", "queries", "type"}

\* A broken constraint, by name.
LEMMA Breaks ==
  ASSUME NEW e
  PROVE  /\ Broken(e) \subseteq Constraints
         /\ "identifier" \in Broken(e) <=> ~MatchesPattern(e.id)
         /\ "displayName" \in Broken(e) <=> ~e.named
         /\ "oneOf" \in Broken(e) <=> ((e.url = "absent") = (e.data = "absent"))
         /\ "data" \in Broken(e) <=> e.data = "null"
         /\ "format" \in Broken(e) <=> e.url \in {"empty", "relative"}
         /\ "queries" \in Broken(e) <=> (e.queries # Absent /\ e.queries \notin 2..5)
         /\ "type" \in Broken(e) <=> e.rest = "wrong"
BY DEF Broken, Constraints

\* What a mode reports of an entry is an error by the rules, and an error by the
\* rules is reported or left to a semantic check.
LEMMA LenientErrors ==
  ASSUME NEW e \in Entries
  PROVE  /\ (\E c \in Bad(e, "lenient") : c # "format") => Errors(e, "lenient")
         /\ Errors(e, "lenient") =>
              \/ \E c \in Bad(e, "lenient") : c # "format"
              \/ Unparsable(e.id) \/ HasURL(e) = HasData(e)
         /\ e.url = "relative" => "format" \in Bad(e, "lenient")
         /\ "format" \in Bad(e, "lenient") /\ ~Errors(e, "lenient") => e.url = "relative"
<1> PICK f : f = Loose(e)
  OBVIOUS
<1>1. /\ f.id = Normalized(e.id) /\ f.named = e.named /\ f.url = e.url
      /\ f.data = (IF e.data = "null" THEN "absent" ELSE e.data)
      /\ f.rest = e.rest
  BY Looser
<1>2. /\ e.url \in {"absent", "empty", "relative", "absolute"} /\ e.data \in {"absent", "null", "object"}
      /\ e.id \in Identifiers
  BY DEF Entries
<1>3. MatchesPattern(f.id) <=> KnownPrefix(e.id) /\ e.id.name # NoName
  BY <1>1, <1>2, Normalizes
<1>4. Bad(e, "lenient") = {c \in Broken(f) : c # "queries"}
  BY DEF Bad
<1>5. Errors(e, "lenient") <=>
        \/ Unparsable(e.id) \/ ~e.named \/ e.rest = "wrong"
        \/ HasURL(e) = HasData(e) \/ (e.url = "empty" /\ HasData(e))
  BY DEF Errors
<1>6. ~MatchesPattern(f.id) => Unparsable(e.id)
  BY <1>3 DEF Unparsable
<1>7. /\ HasURL(e) <=> e.url \in {"relative", "absolute"}
      /\ HasData(e) <=> e.data = "object"
  BY <1>2 DEF HasURL, HasData
<1>8. HasURL(e) = HasData(e) <=> (e.url \in {"absent", "empty"} <=> e.data # "object")
  BY <1>2 DEF HasURL, HasData
<1>9. "oneOf" \in Broken(f) <=> ((e.url = "absent") = (e.data # "object"))
  BY <1>1, <1>2, Breaks
<1>10. /\ Broken(f) \subseteq Constraints /\ "data" \notin Broken(f)
       /\ "identifier" \in Broken(f) => Unparsable(e.id)
       /\ "displayName" \in Broken(f) <=> ~e.named
       /\ "type" \in Broken(f) <=> e.rest = "wrong"
       /\ "format" \in Broken(f) <=> e.url \in {"empty", "relative"}
  <2>1. "data" \notin Broken(f)
    BY <1>1, Breaks
  <2>2. "identifier" \in Broken(f) => Unparsable(e.id)
    BY <1>6, Breaks
  <2> QED BY <1>1, <2>1, <2>2, Breaks
<1>11. (\E c \in Bad(e, "lenient") : c # "format") => Errors(e, "lenient")
  <2> SUFFICES ASSUME NEW c \in Broken(f), c # "format", c # "queries"
               PROVE  Errors(e, "lenient")
    BY <1>4
  <2>1. c \in {"identifier", "displayName", "oneOf", "type"}
    BY <1>10 DEF Constraints
  <2>2. CASE c = "oneOf"
    <3>1. (e.url = "absent") <=> (e.data # "object")
      BY <1>9, <2>2
    <3>2. HasURL(e) = HasData(e) \/ (e.url = "empty" /\ HasData(e))
      BY <1>2, <1>7, <1>8, <3>1
    <3> QED BY <1>5, <3>2
  <2> QED BY <1>5, <1>10, <2>1, <2>2
<1>12. Errors(e, "lenient") =>
         \/ \E c \in Bad(e, "lenient") : c # "format"
         \/ Unparsable(e.id) \/ HasURL(e) = HasData(e)
  <2>1. ~e.named => "displayName" \in Bad(e, "lenient")
    BY <1>4, <1>10
  <2>2. e.rest = "wrong" => "type" \in Bad(e, "lenient")
    BY <1>4, <1>10
  <2>3. e.url = "empty" /\ HasData(e) => "oneOf" \in Bad(e, "lenient")
    BY <1>4, <1>7, <1>9
  <2> QED BY <1>5, <2>1, <2>2, <2>3
<1>13. "format" \in Bad(e, "lenient") <=> e.url \in {"empty", "relative"}
  BY <1>4, <1>10
<1>14. e.url = "empty" => Errors(e, "lenient")
  BY <1>2, <1>5, <1>7, <1>8
<1> QED BY <1>11, <1>12, <1>13, <1>14

LEMMA StrictErrors ==
  ASSUME NEW e \in Entries
  PROVE  /\ Bad(e, "strict") # {} => Errors(e, "strict")
         /\ Errors(e, "strict") =>
              Bad(e, "strict") # {} \/ Unparsable(e.id) \/ HasURL(e) = HasData(e)
         /\ e.url = "relative" => Errors(e, "strict")
<1>1. /\ e.url \in {"absent", "empty", "relative", "absolute"} /\ e.data \in {"absent", "null", "object"}
      /\ e.id \in Identifiers
  BY DEF Entries
<1>2. Bad(e, "strict") = Broken(e)
  BY DEF Bad
<1>3. Errors(e, "strict") <=>
        \/ Unparsable(e.id) \/ ~e.named \/ e.rest = "wrong"
        \/ HasURL(e) = HasData(e) \/ (e.url = "empty" /\ HasData(e))
        \/ e.id.prefix # "air" \/ e.id.publisher.form = "unicode"
        \/ e.url \in {"empty", "relative"} \/ e.data = "null"
        \/ (e.queries # Absent /\ e.queries \notin 2..5)
  BY DEF Errors
<1>4. ~MatchesPattern(e.id) =>
        e.id.prefix # "air" \/ e.id.publisher.form = "unicode" \/ Unparsable(e.id)
  BY DEF MatchesPattern, Unparsable
<1>5. e.id.prefix # "air" \/ e.id.publisher.form = "unicode" => ~MatchesPattern(e.id)
  BY DEF MatchesPattern
<1>6. /\ HasURL(e) <=> e.url \in {"relative", "absolute"}
      /\ HasData(e) <=> e.data = "object"
  BY <1>1 DEF HasURL, HasData
<1>7. HasURL(e) = HasData(e) <=> (e.url \in {"absent", "empty"} <=> e.data # "object")
  BY <1>1 DEF HasURL, HasData
<1>8. ASSUME NEW c \in Broken(e)
      PROVE  Errors(e, "strict")
  <2>1. c \in Constraints
    BY <1>8, Breaks
  <2>2. CASE c = "oneOf"
    <3>1. (e.url = "absent") = (e.data = "absent")
      BY <2>2, Breaks
    <3>2. HasURL(e) = HasData(e) \/ e.url = "empty" \/ e.data = "null"
      BY <1>1, <1>7, <3>1
    <3> QED BY <1>3, <3>2
  <2>3. CASE c = "identifier"
    BY <1>3, <1>4, <2>3, Breaks
  <2>4. CASE c = "queries"
    <3>1. e.queries # Absent /\ e.queries \notin 2..5
      BY <2>4, Breaks
    <3> QED BY <1>3, <3>1, Zenon
  <2>5. CASE c \in {"displayName", "data", "format", "type"}
    BY <1>3, <2>5, Breaks
  <2> QED BY <2>1, <2>2, <2>3, <2>4, <2>5 DEF Constraints
<1>9. ASSUME Errors(e, "strict"), ~Unparsable(e.id), HasURL(e) # HasData(e)
      PROVE  Broken(e) # {}
  <2>1. e.id.prefix # "air" \/ e.id.publisher.form = "unicode" => "identifier" \in Broken(e)
    BY <1>5, Breaks
  <2>2. ~e.named => "displayName" \in Broken(e)
    BY Breaks
  <2>3. e.rest = "wrong" => "type" \in Broken(e)
    BY Breaks
  <2>4. e.url \in {"empty", "relative"} => "format" \in Broken(e)
    BY Breaks
  <2>5. e.data = "null" => "data" \in Broken(e)
    BY Breaks
  <2>6. e.queries # Absent /\ e.queries \notin 2..5 => "queries" \in Broken(e)
    BY Breaks, Zenon
  <2>7. \/ ~e.named \/ e.rest = "wrong" \/ e.url = "empty"
        \/ e.id.prefix # "air" \/ e.id.publisher.form = "unicode"
        \/ e.url \in {"empty", "relative"} \/ e.data = "null"
        \/ (e.queries # Absent /\ e.queries \notin 2..5)
    BY <1>3, <1>9, Zenon
  <2> QED BY <2>1, <2>2, <2>3, <2>4, <2>5, <2>6, <2>7
<1>10. e.url = "relative" => Errors(e, "strict")
  BY <1>3
<1> QED BY <1>2, <1>8, <1>9, <1>10

\* What the default mode objects to, the published schema does as well.
LEMMA LenientIsLess ==
  ASSUME NEW e \in Entries, Bad(e, "lenient") # {}
  PROVE  Bad(e, "strict") # {}
<1> PICK f : f = Loose(e)
  OBVIOUS
<1>1. /\ f.id = Normalized(e.id) /\ f.named = e.named /\ f.url = e.url
      /\ f.data = (IF e.data = "null" THEN "absent" ELSE e.data)
      /\ f.rest = e.rest
  BY Looser
<1>2. PICK c \in Broken(f) : c # "queries"
  BY DEF Bad
<1>3. c \in Constraints
  BY <1>2, Breaks
<1>4. CASE c = "identifier"
  <2>1. e.id \in Identifiers /\ ~MatchesPattern(Normalized(e.id))
    BY <1>1, <1>4, Breaks DEF Entries
  <2>2. ~MatchesPattern(e.id)
    <3>1. ~(KnownPrefix(e.id) /\ e.id.name # NoName)
      BY <2>1, Normalizes
    <3> QED BY <3>1 DEF MatchesPattern, KnownPrefix
  <2> QED BY <2>2, Breaks DEF Bad
<1>5. CASE c = "oneOf"
  <2>1. (e.url = "absent") = (e.data \in {"absent", "null"})
    BY <1>1, <1>5, Breaks
  <2>2. "oneOf" \in Broken(e) \/ "data" \in Broken(e)
    BY <2>1, Breaks
  <2> QED BY <2>2 DEF Bad
<1>6. CASE c = "data"
  BY <1>1, <1>6, Breaks
<1>7. CASE c \in {"displayName", "format", "type"}
  BY <1>1, <1>7, Breaks DEF Bad
<1> QED BY <1>2, <1>3, <1>4, <1>5, <1>6, <1>7 DEF Constraints

-----------------------------------------------------------------------------
(* Documents.                                                              *)

LEMMA Considered ==
  ASSUME NEW d \in Docs
  PROVE  /\ d.version \in {"1.0", "0.9"} /\ d.json \in BOOLEAN
         /\ d.entries \in Seq(Entries) /\ DOMAIN d.entries = 1..Len(d.entries)
         /\ Len(d.entries) \in Nat
         /\ \A i \in DOMAIN d.entries : d.entries[i] \in Entries /\ i \in Nat \ {0}
<1>1. d \in Documents
  BY DocsAssumption
<1>2. d.entries \in Seq(Entries)
  BY <1>1 DEF Documents
<1> QED BY <1>1, <1>2 DEF Documents

LEMMA LoosenedEntries ==
  ASSUME NEW d \in Docs
  PROVE  /\ Loosened(d).version = d.version
         /\ DOMAIN Loosened(d).entries = DOMAIN d.entries
         /\ \A i \in DOMAIN d.entries : Loosened(d).entries[i] = Loose(d.entries[i])
<1> DEFINE f == [i \in DOMAIN d.entries |-> Loose(d.entries[i])]
<1>1. Loosened(d) = [d EXCEPT !.entries = f]
  BY DEF Loosened, Loose
<1>2. DOMAIN d = {"json", "version", "entries"}
  BY DocsAssumption DEF Documents
<1> HIDE DEF f
<1>3. Loosened(d).entries = f /\ Loosened(d).version = d.version
  BY <1>1, <1>2
<1> QED BY <1>3 DEF f

SpecVersion == [at |-> 0, broken |-> "specVersion"]

\* The leaves a mode reports are the version's and each entry's.
LEMMA LeavesAre ==
  ASSUME NEW d \in Docs, NEW mode \in Modes, NEW l
  PROVE  l \in LeavesIn(d, mode) <=>
           \/ d.version # "1.0" /\ l = SpecVersion
           \/ \E i \in DOMAIN d.entries : \E c \in Bad(d.entries[i], mode) :
                l = [at |-> i, broken |-> c]
<1>1. ASSUME NEW x
      PROVE  l \in Leaves(x) <=>
               \/ x.version # "1.0" /\ l = SpecVersion
               \/ \E i \in DOMAIN x.entries : \E c \in Broken(x.entries[i]) :
                    l = [at |-> i, broken |-> c]
  BY DEF Leaves, SpecVersion
<1>2. CASE mode = "strict"
  BY <1>1, <1>2 DEF LeavesIn, Bad
<1>3. CASE mode # "strict"
  <2>1. PICK x : x = Loosened(d)
    OBVIOUS
  <2>2. /\ x.version = d.version /\ DOMAIN x.entries = DOMAIN d.entries
        /\ \A i \in DOMAIN d.entries : x.entries[i] = Loose(d.entries[i])
    BY <2>1, LoosenedEntries
  <2>3. l \in LeavesIn(d, mode) <=> l \in Leaves(x) /\ l.broken # "queries"
    BY <1>3, <2>1 DEF LeavesIn, Dropped
  <2>4. \A i \in DOMAIN d.entries :
          Bad(d.entries[i], mode) = {c \in Broken(x.entries[i]) : c # "queries"}
    BY <1>3, <2>2 DEF Bad
  <2>5. SpecVersion.broken # "queries"
    BY DEF SpecVersion
  <2>6. ASSUME l \in Leaves(x), l.broken # "queries", ~(d.version # "1.0" /\ l = SpecVersion)
        PROVE  \E i \in DOMAIN d.entries : \E c \in Bad(d.entries[i], mode) :
                 l = [at |-> i, broken |-> c]
    <3>1. PICK i \in DOMAIN x.entries : \E c \in Broken(x.entries[i]) :
                 l = [at |-> i, broken |-> c]
      BY <1>1, <2>2, <2>6
    <3>2. PICK c \in Broken(x.entries[i]) : l = [at |-> i, broken |-> c]
      BY <3>1
    <3>3. c # "queries" /\ i \in DOMAIN d.entries
      BY <2>2, <2>6, <3>2
    <3>4. c \in Bad(d.entries[i], mode)
      BY <2>4, <3>3
    <3> QED BY <3>2, <3>3, <3>4
  <2>7. ASSUME NEW i \in DOMAIN d.entries, NEW c \in Bad(d.entries[i], mode),
               l = [at |-> i, broken |-> c]
        PROVE  l \in Leaves(x) /\ l.broken # "queries"
    BY <1>1, <2>2, <2>4, <2>7
  <2>8. d.version # "1.0" /\ l = SpecVersion => l \in Leaves(x) /\ l.broken # "queries"
    BY <1>1, <2>2, <2>5
  <2> QED BY <2>3, <2>6, <2>7, <2>8
<1> QED BY <1>2, <1>3

\* The check a leaf becomes.
Leaf(d, mode, l) ==
  Check(<<"schema", l.broken>>, Severity(mode, l), FALSE,
        Located(d, l.at).subject, Located(d, l.at).at)

LEMMA SchemaChecksAre ==
  ASSUME NEW d, NEW mode
  PROVE  /\ SchemaChecks(d, mode) = {Leaf(d, mode, l) : l \in LeavesIn(d, mode)}
         /\ \A l : /\ Leaf(d, mode, l).severity = Severity(mode, l) /\ ~Leaf(d, mode, l).passed
                   /\ Leaf(d, mode, l).id = <<"schema", l.broken>>
                   /\ Leaf(d, mode, l).subject = Located(d, l.at).subject
                   /\ Leaf(d, mode, l).at = Located(d, l.at).at
BY DEF SchemaChecks, LeavesIn, Leaf, Check

\* The schema pass has an error if and only if the version or an entry is wrong
\* by what the mode reports.
LEMMA SchemaErrors ==
  ASSUME NEW d \in Docs, NEW mode \in Modes
  PROVE  SchemaFailed(SchemaChecks(d, mode)) <=>
           \/ d.version # "1.0"
           \/ \E i \in DOMAIN d.entries : \E c \in Bad(d.entries[i], mode) :
                mode = "lenient" => c # "format"
<1>1. SchemaFailed(SchemaChecks(d, mode)) <=>
        \E l \in LeavesIn(d, mode) : ~(mode = "lenient" /\ l.broken = "format")
  <2>1. ASSUME NEW l \in LeavesIn(d, mode), ~(mode = "lenient" /\ l.broken = "format")
        PROVE  SchemaFailed(SchemaChecks(d, mode))
    <3>1. PICK c : c = Leaf(d, mode, l)
      OBVIOUS
    <3>2. c \in SchemaChecks(d, mode)
      BY <3>1, SchemaChecksAre
    <3>3. ~c.passed /\ c.severity = Severity(mode, l)
      BY <3>1, SchemaChecksAre
    <3>4. Severity(mode, l) = "error"
      BY <2>1 DEF Severity
    <3> QED BY <3>2, <3>3, <3>4 DEF SchemaFailed
  <2>2. ASSUME SchemaFailed(SchemaChecks(d, mode))
        PROVE  \E l \in LeavesIn(d, mode) : ~(mode = "lenient" /\ l.broken = "format")
    <3>1. PICK c \in SchemaChecks(d, mode) : c.severity = "error"
      BY <2>2 DEF SchemaFailed
    <3>2. PICK l \in LeavesIn(d, mode) : c = Leaf(d, mode, l)
      BY <3>1, SchemaChecksAre
    <3>3. Severity(mode, l) = "error"
      BY <3>1, <3>2, SchemaChecksAre
    <3>4. ~(mode = "lenient" /\ l.broken = "format")
      BY <3>3 DEF Severity
    <3> QED BY <3>4
  <2> QED BY <2>1, <2>2
<1>2. ASSUME NEW l \in LeavesIn(d, mode), ~(mode = "lenient" /\ l.broken = "format")
      PROVE  \/ d.version # "1.0"
             \/ \E i \in DOMAIN d.entries : \E c \in Bad(d.entries[i], mode) :
                  mode = "lenient" => c # "format"
  BY <1>2, LeavesAre
<1>3. ASSUME d.version # "1.0"
      PROVE  \E l \in LeavesIn(d, mode) : ~(mode = "lenient" /\ l.broken = "format")
  <2>1. SpecVersion \in LeavesIn(d, mode) /\ SpecVersion.broken # "format"
    BY <1>3, LeavesAre DEF SpecVersion
  <2> QED BY <2>1
<1>4. ASSUME NEW i \in DOMAIN d.entries, NEW c \in Bad(d.entries[i], mode),
             mode = "lenient" => c # "format"
      PROVE  \E l \in LeavesIn(d, mode) : ~(mode = "lenient" /\ l.broken = "format")
  <2>1. PICK l : l = [at |-> i, broken |-> c]
    OBVIOUS
  <2>2. l \in LeavesIn(d, mode)
    BY <2>1, LeavesAre
  <2> QED BY <1>4, <2>1, <2>2
<1> QED BY <1>1, <1>2, <1>3, <1>4

-----------------------------------------------------------------------------
(* Verdicts.                                                               *)

LEMMA RollsUp ==
  ASSUME NEW cs
  PROVE  RollUp(cs) = IF HasError(cs) THEN "invalid"
                      ELSE IF HasFailure(cs) THEN "valid_with_warnings" ELSE "valid"
BY DEF RollUp, HasError, HasFailure

\* What the schema leaves to be found: the errors of a mode, entry by entry.
Found(e, mode) == \E c \in Bad(e, mode) : mode = "lenient" => c # "format"

LEMMA EntryErrors ==
  ASSUME NEW e \in Entries, NEW mode \in Modes
  PROVE  Errors(e, mode) <=> Found(e, mode) \/ Unparsable(e.id) \/ HasURL(e) = HasData(e)
<1>1. Unparsable(e.id) \/ HasURL(e) = HasData(e) => Errors(e, mode)
  BY DEF Errors
<1>2. CASE mode = "lenient"
  <2>1. Found(e, "lenient") <=> \E c \in Bad(e, "lenient") : c # "format"
    BY DEF Found
  <2> QED BY <1>1, <1>2, <2>1, LenientErrors
<1>3. CASE mode = "strict"
  <2>1. Found(e, "strict") <=> Bad(e, "strict") # {}
    BY DEF Found
  <2> QED BY <1>1, <1>3, <2>1, StrictErrors
<1> QED BY <1>2, <1>3 DEF Modes

\* The semantic checks of an entry: the errors, unless the schema had one, and
\* the warnings.
LEMMA EntryChecksFail ==
  ASSUME NEW e, NEW i, NEW failed \in BOOLEAN
  PROVE  /\ HasError(EntryChecks(e, i, served, failed)) <=>
              ~failed /\ (Unparsable(e.id) \/ HasURL(e) = HasData(e))
         /\ ~HasError(EntryChecks(e, i, served, FALSE)) =>
              (HasFailure(EntryChecks(e, i, served, FALSE)) <=>
                 \/ served # NoDomain /\ ~SameSite(e.id.publisher.domain, served)
                 \/ ~IsPointer(e.type) /\ QueryCount(e) \notin 2..5
                 \/ Kind(e.type) = "unknown")
<1> DEFINE V == CheckValueOrReference(e, i)
           U == CheckURNFormat(e, i)
           P == CheckPublisherMatches(e, i, served)
           Q == CheckQueriesCount(e, i)
           M == CheckMediaType(e, i)
<1>1. /\ V.severity = "error" /\ (V.passed <=> HasURL(e) # HasData(e))
      /\ U.severity = "error" /\ (U.passed <=> ~Unparsable(e.id))
  BY DEF CheckValueOrReference, CheckURNFormat, Check
<1>2. /\ P.severity = "warning" /\ (P.passed <=> SameSite(e.id.publisher.domain, served))
      /\ Q.severity = "warning" /\ (Q.passed <=> QueryCount(e) \in 2..5)
      /\ M.severity = "warning" /\ (M.passed <=> Kind(e.type) # "unknown")
  BY DEF CheckPublisherMatches, CheckQueriesCount, CheckMediaType, Check
<1>3. ASSUME NEW f \in BOOLEAN, NEW c
      PROVE  c \in EntryChecks(e, i, served, f) <=>
               \/ ~f /\ (c = V \/ c = U)
               \/ ~(Unparsable(e.id) \/ served = NoDomain) /\ c = P
               \/ ~IsPointer(e.type) /\ c = Q
               \/ c = M
  BY DEF EntryChecks
<1> HIDE DEF V, U, P, Q, M
<1>4. HasError(EntryChecks(e, i, served, failed)) <=> ~failed /\ (~V.passed \/ ~U.passed)
  BY <1>1, <1>2, <1>3 DEF HasError
<1>5. HasError(EntryChecks(e, i, served, FALSE)) <=> ~V.passed \/ ~U.passed
  BY <1>1, <1>2, <1>3 DEF HasError
<1>6. HasFailure(EntryChecks(e, i, served, FALSE)) <=>
        \/ ~V.passed \/ ~U.passed
        \/ ~(Unparsable(e.id) \/ served = NoDomain) /\ ~P.passed
        \/ ~IsPointer(e.type) /\ ~Q.passed
        \/ ~M.passed
  BY <1>3 DEF HasFailure
<1> QED BY <1>1, <1>2, <1>4, <1>5, <1>6

UniqueCheck(d) == Check(<<"identifier.unique">>, "error", Unique(d), CatalogSubject, 0)
VersionCheck(d) == Check(<<"catalog.spec_version">>, "error", d.version = "1.0", CatalogSubject, 0)

LEMMA SemanticAre ==
  ASSUME NEW d, NEW host, NEW failed \in BOOLEAN, NEW c
  PROVE  /\ c \in SemanticChecks(d, host, failed) <=>
              \/ c = UniqueCheck(d)
              \/ ~failed /\ c = VersionCheck(d)
              \/ \E i \in DOMAIN d.entries : c \in EntryChecks(d.entries[i], i, host, failed)
         /\ UniqueCheck(d).severity = "error" /\ (UniqueCheck(d).passed <=> Unique(d))
         /\ VersionCheck(d).severity = "error" /\ (VersionCheck(d).passed <=> d.version = "1.0")
BY DEF SemanticChecks, UniqueCheck, VersionCheck, Check

\* Two entries repeat one another by what the check compares if and only if they
\* do by their URNs, unless one of them has none.
LEMMA UniqueIs ==
  ASSUME \A i \in DOMAIN doc.entries : ~Unparsable(doc.entries[i].id)
  PROVE  Unique(doc) <=> ~Duplicates
<1>1. \A i, j \in DOMAIN doc.entries :
        SameKey(doc.entries[i].id, doc.entries[j].id) <=>
          URN(doc.entries[i].id) = URN(doc.entries[j].id)
  <2> SUFFICES ASSUME NEW a, NEW b, ~Unparsable(a), ~Unparsable(b)
               PROVE  SameKey(a, b) <=> URN(a) = URN(b)
    OBVIOUS
  <2>1. Unparsable(a) = Unparsable(b)
    BY DEF Unparsable
  <2> QED BY <2>1 DEF SameKey
<1> QED BY <1>1 DEF Unique, Duplicates

\* The checks of a document that parses and decodes.
LEMMA ChecksAre ==
  ASSUME NEW d, NEW host, NEW mode, d.json, Decodes(d)
  PROVE  Checks(d, host, mode) =
           SchemaChecks(d, mode) \union SemanticChecks(d, host, SchemaFailed(SchemaChecks(d, mode)))
BY DEF Checks

LEMMA FailedIs ==
  ASSUME NEW cs
  PROVE  (SchemaFailed(cs) <=> HasError(cs)) /\ SchemaFailed(cs) \in BOOLEAN
BY DEF SchemaFailed, HasError

\* Error by error, the passes find what is wrong with a document and no more.
LEMMA ErrorsAre ==
  ASSUME TypeOK, NEW mode \in Modes, doc.json, Decodes(doc)
  PROVE  HasError(Checks(doc, served, mode)) <=> Wrong(mode)
<1> DEFINE S == SchemaChecks(doc, mode)
           F == SchemaFailed(S)
           M == SemanticChecks(doc, served, F)
           E(i) == EntryChecks(doc.entries[i], i, served, F)
<1>1. doc \in Docs /\ \A i \in DOMAIN doc.entries : doc.entries[i] \in Entries
  BY Considered DEF TypeOK
<1>2. F \in BOOLEAN /\ (F <=> HasError(S))
  BY FailedIs
<1>3. F <=> doc.version # "1.0" \/ \E i \in DOMAIN doc.entries : Found(doc.entries[i], mode)
  BY <1>1, SchemaErrors DEF Found
<1>4. \A i \in DOMAIN doc.entries :
        Errors(doc.entries[i], mode) <=>
          \/ Found(doc.entries[i], mode) \/ Unparsable(doc.entries[i].id)
          \/ HasURL(doc.entries[i]) = HasData(doc.entries[i])
  BY <1>1, EntryErrors
<1>5. \A i \in DOMAIN doc.entries :
        HasError(E(i)) <=>
          ~F /\ \/ Unparsable(doc.entries[i].id)
                \/ HasURL(doc.entries[i]) = HasData(doc.entries[i])
  BY <1>2, EntryChecksFail
<1> HIDE DEF S, F, E, M
<1>6. HasError(M) <=> \/ ~Unique(doc)
                      \/ ~F /\ doc.version # "1.0"
                      \/ \E i \in DOMAIN doc.entries : HasError(E(i))
  <2>1. \A c : /\ c \in M <=> \/ c = UniqueCheck(doc)
                              \/ ~F /\ c = VersionCheck(doc)
                              \/ \E i \in DOMAIN doc.entries : c \in E(i)
               /\ UniqueCheck(doc).severity = "error" /\ (UniqueCheck(doc).passed <=> Unique(doc))
               /\ VersionCheck(doc).severity = "error"
               /\ (VersionCheck(doc).passed <=> doc.version = "1.0")
    BY <1>2, SemanticAre DEF E, M
  <2>2. UniqueCheck(doc) \in M /\ (~F => VersionCheck(doc) \in M)
    BY <2>1
  <2>3. \A i \in DOMAIN doc.entries : \A c \in E(i) : c \in M
    BY <2>1
  <2>4. HasError(M) => \/ ~Unique(doc)
                       \/ ~F /\ doc.version # "1.0"
                       \/ \E i \in DOMAIN doc.entries : HasError(E(i))
    BY <2>1 DEF HasError
  <2> QED BY <2>1, <2>2, <2>3, <2>4 DEF HasError
<1>7. Checks(doc, served, mode) = S \union M
  BY ChecksAre DEF S, M, F
<1>8. HasError(S \union M) <=> F \/ HasError(M)
  BY <1>2 DEF HasError
<1>9. CASE \E i \in DOMAIN doc.entries : Unparsable(doc.entries[i].id)
  <2>1. F \/ HasError(M)
    BY <1>5, <1>6, <1>9
  <2>2. Wrong(mode)
    BY <1>4, <1>9 DEF Wrong
  <2> QED BY <1>7, <1>8, <2>1, <2>2
<1>10. CASE \A i \in DOMAIN doc.entries : ~Unparsable(doc.entries[i].id)
  <2>1. Unique(doc) <=> ~Duplicates
    BY <1>10, UniqueIs
  <2>2. F \/ HasError(M) <=>
          \/ doc.version # "1.0" \/ Duplicates
          \/ \E i \in DOMAIN doc.entries :
               Found(doc.entries[i], mode) \/ HasURL(doc.entries[i]) = HasData(doc.entries[i])
    BY <1>3, <1>5, <1>6, <1>10, <2>1
  <2>3. Wrong(mode) <=>
          \/ doc.version # "1.0" \/ Duplicates
          \/ \E i \in DOMAIN doc.entries :
               Found(doc.entries[i], mode) \/ HasURL(doc.entries[i]) = HasData(doc.entries[i])
    BY <1>4, <1>10 DEF Wrong
  <2> QED BY <1>7, <1>8, <2>2, <2>3
<1> QED BY <1>9, <1>10

\* Without an error, what fails is what makes a document doubtful.
LEMMA FailuresAre ==
  ASSUME TypeOK, NEW mode \in Modes, doc.json, Decodes(doc), ~Wrong(mode)
  PROVE  HasFailure(Checks(doc, served, mode)) <=> Doubtful
<1> DEFINE S == SchemaChecks(doc, mode)
           F == SchemaFailed(S)
           M == SemanticChecks(doc, served, F)
           E(i) == EntryChecks(doc.entries[i], i, served, FALSE)
<1>1. doc \in Docs /\ \A i \in DOMAIN doc.entries : doc.entries[i] \in Entries
  BY Considered DEF TypeOK
<1>2. \A i \in DOMAIN doc.entries : ~Errors(doc.entries[i], mode)
  BY DEF Wrong
<1>3. ~HasError(S \union M)
  BY ErrorsAre, ChecksAre
<1>4. F = FALSE
  BY <1>3, FailedIs DEF HasError
<1>5. HasFailure(S) <=> \E i \in DOMAIN doc.entries : doc.entries[i].url = "relative"
  <2>1. HasFailure(S) <=> \E i \in DOMAIN doc.entries : Bad(doc.entries[i], mode) # {}
    <3>1. HasFailure(S) <=> LeavesIn(doc, mode) # {}
      BY SchemaChecksAre DEF HasFailure
    <3>2. doc.version = "1.0"
      BY DEF Wrong
    <3>3. ASSUME NEW l \in LeavesIn(doc, mode)
          PROVE  \E i \in DOMAIN doc.entries : Bad(doc.entries[i], mode) # {}
      BY <1>1, <3>2, LeavesAre
    <3>4. ASSUME NEW i \in DOMAIN doc.entries, NEW c \in Bad(doc.entries[i], mode)
          PROVE  LeavesIn(doc, mode) # {}
      <4> PICK l : l = [at |-> i, broken |-> c]
        OBVIOUS
      <4> QED BY <1>1, LeavesAre
    <3> QED BY <3>1, <3>3, <3>4
  <2>2. ASSUME NEW i \in DOMAIN doc.entries
        PROVE  Bad(doc.entries[i], mode) # {} <=> doc.entries[i].url = "relative"
    <3> PICK e : e = doc.entries[i]
      OBVIOUS
    <3>1. e \in Entries /\ ~Errors(e, mode)
      BY <1>1, <1>2
    <3>2. CASE mode = "lenient"
      BY <3>1, <3>2, LenientErrors
    <3>3. CASE mode = "strict"
      BY <3>1, <3>3, StrictErrors
    <3> QED BY <3>2, <3>3 DEF Modes
  <2> QED BY <2>1, <2>2
<1>6. HasFailure(M) <=> \E i \in DOMAIN doc.entries : HasFailure(E(i))
  <2>1. \A c : c \in M <=> \/ c = UniqueCheck(doc)
                           \/ c = VersionCheck(doc)
                           \/ \E i \in DOMAIN doc.entries : c \in E(i)
    BY <1>4, SemanticAre
  <2>2. UniqueCheck(doc).severity = "error" /\ VersionCheck(doc).severity = "error"
    BY SemanticAre
  <2>3. UniqueCheck(doc).passed /\ VersionCheck(doc).passed
    BY <1>3, <2>1, <2>2 DEF HasError
  <2> HIDE DEF M, E
  <2> QED BY <2>1, <2>3 DEF HasFailure
<1>7. \A i \in DOMAIN doc.entries :
        HasFailure(E(i)) <=>
          \/ served # NoDomain /\ ~SameSite(doc.entries[i].id.publisher.domain, served)
          \/ ~IsPointer(doc.entries[i].type) /\ QueryCount(doc.entries[i]) \notin 2..5
          \/ Kind(doc.entries[i].type) = "unknown"
  <2> SUFFICES ASSUME NEW i \in DOMAIN doc.entries
               PROVE  ~HasError(E(i))
    BY EntryChecksFail
  <2>1. \A c \in E(i) : c \in M
    BY <1>4, SemanticAre
  <2> QED BY <1>3, <2>1 DEF HasError
<1>8. HasFailure(S \union M) <=> HasFailure(S) \/ HasFailure(M)
  BY DEF HasFailure
<1>9. Checks(doc, served, mode) = S \union M
  BY ChecksAre
<1> HIDE DEF S, F, M, E
<1> QED BY <1>5, <1>6, <1>7, <1>8, <1>9 DEF Doubtful, Warnings

\* What the passes say of a document that parses only if it decodes.
LEMMA Verdict ==
  ASSUME TypeOK, NEW mode \in Modes, doc.json => Decodes(doc)
  PROVE  RollUp(Checks(doc, served, mode)) = Expected(mode)
<1>1. CASE doc.json
  <2>1. Expected(mode) = IF Wrong(mode) THEN "invalid"
                         ELSE IF Doubtful THEN "valid_with_warnings" ELSE "valid"
    BY <1>1 DEF Expected, Wrong, Doubtful
  <2> QED BY <1>1, <2>1, ErrorsAre, FailuresAre, RollsUp
<1>2. CASE ~doc.json
  <2>1. HasError(Checks(doc, served, mode))
    BY <1>2 DEF Checks, Check, HasError
  <2> QED BY <1>2, <2>1, RollsUp DEF Expected
<1> QED BY <1>1, <1>2

\* The transport only ever warns.
LEMMA Transported ==
  ASSUME NEW cs, flaws \subseteq TransportFlaws
  PROVE  RollUp(cs \union TransportChecks(flaws)) =
           IF flaws # {} /\ RollUp(cs) = "valid" THEN "valid_with_warnings" ELSE RollUp(cs)
<1> DEFINE T == TransportChecks(flaws)
<1>1. \A c \in T : c.severity = "warning"
  BY DEF TransportChecks, Check
<1>2. HasFailure(T) <=> flaws # {}
  <2>1. ASSUME NEW t \in flaws
        PROVE  HasFailure(T)
    <3> PICK c : c = Check(<<t>>, "warning", t \notin flaws, CatalogSubject, 0)
      OBVIOUS
    <3>1. c \in T
      BY DEF TransportChecks
    <3>2. ~c.passed
      BY DEF Check
    <3> QED BY <3>1, <3>2 DEF HasFailure
  <2>2. ASSUME HasFailure(T)
        PROVE  flaws # {}
    <3>1. PICK c \in T : ~c.passed
      BY <2>2 DEF HasFailure
    <3>2. PICK t : c = Check(<<t>>, "warning", t \notin flaws, CatalogSubject, 0)
      BY <3>1 DEF TransportChecks
    <3>3. c.passed = (t \notin flaws)
      BY <3>2 DEF Check
    <3> QED BY <3>1, <3>3
  <2> QED BY <2>1, <2>2
<1> HIDE DEF T
<1>3. HasError(cs \union T) <=> HasError(cs)
  BY <1>1 DEF HasError
<1>4. HasFailure(cs \union T) <=> HasFailure(cs) \/ HasFailure(T)
  BY DEF HasFailure
<1>5. RollUp(cs \union T) = IF HasError(cs) THEN "invalid"
                            ELSE IF HasFailure(cs) \/ flaws # {} THEN "valid_with_warnings"
                            ELSE "valid"
  BY <1>2, <1>3, <1>4, RollsUp
<1> QED BY <1>5, RollsUp DEF T

-----------------------------------------------------------------------------
(* The two modes.                                                          *)

\* A leaf in strict mode makes the document invalid; without one, the two modes
\* make the same checks.
LEMMA StrictChecks ==
  ASSUME TypeOK
  PROVE  \/ RollUp(Checks(doc, served, "strict")) = "invalid"
         \/ Checks(doc, served, "strict") = Checks(doc, served, "lenient")
<1>1. doc \in Docs /\ \A i \in DOMAIN doc.entries : doc.entries[i] \in Entries
  BY Considered DEF TypeOK
<1>2. CASE ~doc.json
  BY <1>2 DEF Checks
<1>3. CASE doc.json /\ LeavesIn(doc, "strict") # {}
  <2>1. PICK l : l \in LeavesIn(doc, "strict")
    BY <1>3
  <2>2. PICK c : c = Leaf(doc, "strict", l)
    OBVIOUS
  <2>3. ~c.passed /\ c.severity = Severity("strict", l)
    BY <2>2 DEF Leaf, Check
  <2>6. c.severity = "error"
    BY <2>3 DEF Severity
  <2>4. c \in SchemaChecks(doc, "strict")
    BY <2>1, <2>2, SchemaChecksAre
  <2>5. c \in Checks(doc, served, "strict")
    BY <1>3, <2>4 DEF Checks
  <2> QED BY <2>3, <2>5, <2>6, RollsUp DEF HasError
<1>4. CASE doc.json /\ LeavesIn(doc, "strict") = {}
  <2>1. doc.version = "1.0"
    BY <1>1, <1>4, LeavesAre DEF Modes
  <2>2. ASSUME NEW i \in DOMAIN doc.entries
        PROVE  Bad(doc.entries[i], "strict") = {}
    <3> SUFFICES ASSUME NEW c \in Bad(doc.entries[i], "strict")
                 PROVE  FALSE
      OBVIOUS
    <3> PICK l : l = [at |-> i, broken |-> c]
      OBVIOUS
    <3>1. l \in LeavesIn(doc, "strict")
      BY <1>1, LeavesAre DEF Modes
    <3> QED BY <1>4, <3>1
  <2>3. \A i \in DOMAIN doc.entries : Bad(doc.entries[i], "lenient") = {}
    BY <1>1, <2>2, LenientIsLess
  <2>4. LeavesIn(doc, "lenient") = {}
    <3> SUFFICES ASSUME NEW l \in LeavesIn(doc, "lenient")
                 PROVE  FALSE
      OBVIOUS
    <3> QED BY <1>1, <2>1, <2>3, LeavesAre DEF Modes
  <2>5. SchemaChecks(doc, "strict") = SchemaChecks(doc, "lenient")
    <3>1. \A mode : LeavesIn(doc, mode) = {} => SchemaChecks(doc, mode) = {}
      BY DEF SchemaChecks, LeavesIn
    <3> QED BY <1>4, <2>4, <3>1
  <2> QED BY <2>5 DEF Checks
<1> QED BY <1>2, <1>3, <1>4

LEMMA StricterIs ==
  ASSUME TypeOK
  PROVE  StrictIsStricter
<1>1. VerdictOf("lenient") \in Verdicts
  BY RollsUp DEF VerdictOf, Verdicts
<1>2. \A v \in Verdicts : Rank(v) \in Nat /\ Rank(v) <= Rank("invalid")
  BY DEF Rank, Verdicts
<1>3. CASE VerdictOf("strict") = "invalid"
  BY <1>1, <1>2, <1>3 DEF StrictIsStricter
<1>4. CASE VerdictOf("strict") = VerdictOf("lenient")
  BY <1>1, <1>2, <1>4 DEF StrictIsStricter
<1> QED BY <1>3, <1>4, StrictChecks DEF VerdictOf

-----------------------------------------------------------------------------
(* One defect, one row.                                                    *)

\* After an error of the schema, none of the semantic checks that restate it is made.
LEMMA SemanticIds ==
  ASSUME NEW d, NEW host, NEW c \in SemanticChecks(d, host, TRUE)
  PROVE  c.id \in {<<"identifier.unique">>, <<"urn.publisher_matches">>,
                   <<"queries.count">>, <<"entry.media_type">>}
<1>1. CASE c = UniqueCheck(d)
  BY <1>1 DEF UniqueCheck, Check
<1>2. CASE \E i \in DOMAIN d.entries : c \in EntryChecks(d.entries[i], i, host, TRUE)
  BY <1>2 DEF EntryChecks, CheckPublisherMatches, CheckQueriesCount, CheckMediaType, Check
<1> QED BY <1>1, <1>2, SemanticAre

LEMMA OneDefectOneRow ==
  ASSUME by # "strict", by \in {"crawl"} \union Modes,
         NEW c \in Made, NEW s \in Made, NEW b \in DOMAIN Restates,
         c.id = <<"schema", b>>, s.id = <<Restates[b]>>
  PROVE  FALSE
<1> DEFINE S == SchemaChecks(doc, "lenient")
<1>1. Made \subseteq Checks(doc, served, "lenient") \union TransportChecks(flaws)
  BY DEF Made, Modes
<1>2. b \in {"identifier", "oneOf", "data", "specVersion", "queries"}
  BY DEF Restates
<1>3. \A t \in TransportChecks(flaws) :
        t.id \in {<<"transport.content_type">>, <<"transport.size">>, <<"transport.utf8">>}
  BY DEF TransportChecks, TransportFlaws, Check
<1>4. Restates[b] \in {"urn.format", "entry.value_or_reference", "catalog.spec_version", "queries.count"}
  BY <1>2 DEF Restates
<1>5. c \notin TransportChecks(flaws) /\ s \notin TransportChecks(flaws)
  BY <1>3, <1>4
<1>6. doc.json
  <2> SUFFICES ASSUME ~doc.json
               PROVE  FALSE
    OBVIOUS
  <2>1. c.id = <<"schema.parse">>
    BY <1>1, <1>5 DEF Checks, Check
  <2> QED BY <2>1
<1>7. \A x \in S : ~x.passed /\ \E y : x.id = <<"schema", y>>
  <2> SUFFICES ASSUME NEW x \in S
               PROVE  ~x.passed /\ \E y : x.id = <<"schema", y>>
    OBVIOUS
  <2>1. PICK l \in LeavesIn(doc, "lenient") : x = Leaf(doc, "lenient", l)
    BY SchemaChecksAre
  <2> QED BY <2>1 DEF Leaf, Check
<1>8. s \notin S
  BY <1>7
<1>9. c \in S
  <2> SUFFICES ASSUME c \in SemanticChecks(doc, served, SchemaFailed(S))
               PROVE  FALSE
    BY <1>1, <1>5, <1>6 DEF Checks
  <2>1. \/ c = UniqueCheck(doc) \/ c = VersionCheck(doc)
        \/ \E i \in DOMAIN doc.entries : c \in EntryChecks(doc.entries[i], i, served, SchemaFailed(S))
    BY SemanticAre, FailedIs
  <2>2. \E y : c.id = <<y>>
    BY <2>1 DEF UniqueCheck, VersionCheck, EntryChecks, CheckValueOrReference, CheckURNFormat,
                CheckPublisherMatches, CheckQueriesCount, CheckMediaType, Check
  <2> QED BY <2>2
<1>10. PICK l \in LeavesIn(doc, "lenient") : c = Leaf(doc, "lenient", l)
  BY <1>9, SchemaChecksAre
<1>11. l.broken = b /\ ~c.passed /\ c.severity = Severity("lenient", l)
  BY <1>10 DEF Leaf, Check
<1>12. l.broken # "queries"
  BY <1>10 DEF LeavesIn, Dropped
<1>13. c.severity = "error" /\ ~c.passed
  BY <1>2, <1>11 DEF Severity
<1>14. SchemaFailed(S) = TRUE
  BY <1>9, <1>13 DEF SchemaFailed
<1>15. s \in SemanticChecks(doc, served, TRUE)
  BY <1>1, <1>5, <1>6, <1>8, <1>14 DEF Checks
<1>16. Restates[b] # "queries.count"
  BY <1>2, <1>11, <1>12 DEF Restates
<1>17. s.id \in {<<"identifier.unique">>, <<"urn.publisher_matches">>,
                <<"queries.count">>, <<"entry.media_type">>}
  BY <1>15, SemanticIds
<1> QED BY <1>4, <1>16, <1>17

-----------------------------------------------------------------------------
(* Rows.                                                                   *)

LEMMA LeastOf ==
  ASSUME NEW T \in SUBSET Nat, T # {}
  PROVE  Min(T) \in T
<1> DEFINE R == OpToRel(<, Nat)
<1>1. \A x, y \in Nat : x < y => <<x, y>> \in R
  BY DEF OpToRel
<1>2. IsWellFoundedOn(R, Nat)
  BY NatLessThanWellFounded
<1> HIDE DEF R
<1>3. PICK x \in T : \A y \in T : ~ (<<y, x>> \in R)
  BY <1>2, WFMin, Zenon
<1>4. \A y \in T : ~(y < x)
  BY <1>1, <1>3
<1>5. \A y \in T : x =< y
  <2> SUFFICES ASSUME NEW y \in T
               PROVE  x =< y
    OBVIOUS
  <2>1. x \in Nat /\ y \in Nat /\ ~(y < x)
    BY <1>4
  <2> QED BY <2>1
<1> QED BY <1>5 DEF Min

LEMMA CatalogIs == CatalogSubject \in Identifiers /\ CatalogSubject.prefix = "absent"
<1>1. PICK d : d = CHOOSE x \in Domains : TRUE
  OBVIOUS
<1>2. d \in Domains
  BY <1>1, DomainsAssumption
<1> QED BY <1>1, <1>2 DEF CatalogSubject, Identifiers, Starts, Publishers

\* What json.Unmarshal leaves are identifiers, and all of them if it succeeds.
LEMMA Parsed ==
  ASSUME NEW d \in Docs
  PROVE  /\ ParsedIds(d) \in Seq(Identifiers)
         /\ d.json /\ Decodes(d) =>
              /\ DOMAIN ParsedIds(d) = DOMAIN d.entries
              /\ \A i \in DOMAIN d.entries : ParsedIds(d)[i] = d.entries[i].id
<1> DEFINE U == {i \in DOMAIN d.entries :
                   d.entries[i].rest # "fine" \/ d.entries[i].id.prefix = "mistyped"}
           n == IF ~d.json THEN 0 ELSE IF U = {} THEN Len(d.entries) ELSE Min(U)
<1>1. /\ DOMAIN d.entries = 1..Len(d.entries) /\ Len(d.entries) \in Nat
      /\ \A i \in DOMAIN d.entries : d.entries[i] \in Entries
  BY Considered
<1>2. \A i \in DOMAIN d.entries : d.entries[i].id \in Identifiers
  BY <1>1 DEF Entries
<1>3. U # {} => Min(U) \in U
  <2>1. U \in SUBSET Nat
    BY <1>1
  <2> HIDE DEF U
  <2> QED BY <2>1, LeastOf
<1>4. n \in Nat /\ n <= Len(d.entries)
  BY <1>1, <1>3
<1>5. d.json /\ Decodes(d) => U = {} /\ n = Len(d.entries)
  BY DEF Decodes
<1>6. ParsedIds(d) = [i \in 1..n |-> IF i \in U THEN CatalogSubject ELSE d.entries[i].id]
  BY DEF ParsedIds
<1> HIDE DEF n, U
<1>7. \A i \in 1..n : ParsedIds(d)[i] \in Identifiers
  BY <1>1, <1>2, <1>4, <1>6, CatalogIs
<1>8. ParsedIds(d) \in [1..n -> Identifiers]
  BY <1>6, <1>7
<1> QED BY <1>1, <1>4, <1>5, <1>6, <1>8

\* A check is about the catalog or about one entry, whose identifier it carries.
LEMMA About ==
  ASSUME TypeOK, doc.json => Decodes(doc), NEW mode \in Modes,
         NEW c \in Checks(doc, served, mode) \union TransportChecks(flaws)
  PROVE  \/ c.at = 0 /\ c.subject = CatalogSubject
         \/ doc.json /\ c.at \in DOMAIN doc.entries /\ c.subject = doc.entries[c.at].id
<1>1. doc \in Docs
  BY DEF TypeOK
<1>2. c \in TransportChecks(flaws) \/ c \in Checks(doc, served, mode)
  OBVIOUS
<1>3. CASE c \in TransportChecks(flaws)
  BY <1>3 DEF TransportChecks, Check
<1>4. CASE ~doc.json /\ c \notin TransportChecks(flaws)
  BY <1>2, <1>4 DEF Checks, Check
<1>5. CASE doc.json /\ c \notin TransportChecks(flaws)
  <2>1. \/ c \in SchemaChecks(doc, mode)
        \/ \E f \in BOOLEAN : c \in SemanticChecks(doc, served, f)
    BY <1>2, <1>5, FailedIs DEF Checks
  <2>2. CASE c \in SchemaChecks(doc, mode)
    <3>1. PICK l \in LeavesIn(doc, mode) : c = Leaf(doc, mode, l)
      BY <2>2, SchemaChecksAre
    <3>2. c.subject = Located(doc, l.at).subject /\ c.at = Located(doc, l.at).at
      BY <3>1 DEF Leaf, Check
    <3>3. l.at = 0 \/ l.at \in DOMAIN doc.entries
      BY <1>1, <3>1, LeavesAre DEF SpecVersion
    <3> QED BY <1>5, <3>2, <3>3 DEF Located
  <2>3. CASE \E f \in BOOLEAN : c \in SemanticChecks(doc, served, f)
    <3>1. PICK f \in BOOLEAN : c \in SemanticChecks(doc, served, f)
      BY <2>3
    <3>2. CASE c = UniqueCheck(doc) \/ c = VersionCheck(doc)
      BY <3>2 DEF UniqueCheck, VersionCheck, Check
    <3>3. CASE \E i \in DOMAIN doc.entries : c \in EntryChecks(doc.entries[i], i, served, f)
      <4>1. PICK i \in DOMAIN doc.entries : c \in EntryChecks(doc.entries[i], i, served, f)
        BY <3>3
      <4>2. c.subject = doc.entries[i].id /\ c.at = i
        BY <4>1 DEF EntryChecks, CheckValueOrReference, CheckURNFormat, CheckPublisherMatches,
                    CheckQueriesCount, CheckMediaType, Check
      <4> QED BY <1>5, <4>2
    <3> QED BY <3>1, <3>2, <3>3, SemanticAre
  <2> QED BY <2>1, <2>2, <2>3
<1> QED BY <1>3, <1>4, <1>5

\* Where the rows begin with the document's own entries, each check finds its own.
LEMMA FindsItsRow ==
  ASSUME TypeOK, doc.json => Decodes(doc), NEW ids \in Seq(Identifiers),
         Len(ParsedIds(doc)) <= Len(ids),
         \A i \in DOMAIN ParsedIds(doc) : ids[i] = ParsedIds(doc)[i],
         NEW mode \in Modes,
         NEW c \in Checks(doc, served, mode) \union TransportChecks(flaws)
  PROVE  EntryIndex(ids, c) = IF c.at = 0 \/ c.subject.prefix = "absent" THEN 0 ELSE c.at
<1>1. CASE c.subject.prefix = "absent"
  BY <1>1 DEF EntryIndex
<1>2. CASE c.subject.prefix # "absent"
  <2>1. doc.json /\ c.at \in DOMAIN doc.entries /\ c.subject = doc.entries[c.at].id
    BY <1>2, About, CatalogIs
  <2>2. /\ c.at \in DOMAIN ParsedIds(doc) /\ ParsedIds(doc)[c.at] = c.subject
        /\ ParsedIds(doc) \in Seq(Identifiers)
    BY <2>1, Parsed DEF TypeOK
  <2>3. c.at \in 1..Len(ids) /\ ids[c.at] = c.subject /\ DOMAIN ids = 1..Len(ids) /\ Len(ids) \in Nat
    BY <2>2
  <2> DEFINE B == Bearers(ids, c.subject)
  <2>4. c.at \in B /\ B \subseteq 1..Len(ids)
    BY <2>3 DEF Bearers
  <2>5. IsFiniteSet(B)
    <3>1. IsFiniteSet(1..Len(ids))
      BY <2>3, FS_Interval
    <3>2. B \in SUBSET (1..Len(ids))
      BY <2>4
    <3> HIDE DEF B
    <3> QED BY <3>1, <3>2, FS_Subset
  <2>6. ASSUME Cardinality(B) = 1
        PROVE  Max(B) = c.at
    <3>1. B = {c.at}
      BY <2>4, <2>5, <2>6, FS_Singleton
    <3> QED BY <2>3, <3>1 DEF Max
  <2> HIDE DEF B
  <2>7. EntryIndex(ids, c) = IF Cardinality(B) = 1 THEN Max(B) ELSE c.at
    BY <1>2, <2>3, <2>4 DEF EntryIndex, B
  <2> QED BY <1>2, <2>3, <2>6, <2>7
<1> QED BY <1>1, <1>2

-----------------------------------------------------------------------------
(* The invariant.                                                          *)

\* What an action that makes the checks anew leaves stored.
LEMMA Stores ==
  ASSUME TypeOK, NEW ids \in Seq(Identifiers),
         Len(ParsedIds(doc)) <= Len(ids),
         \A i \in DOMAIN ParsedIds(doc) : ids[i] = ParsedIds(doc)[i],
         NEW mode \in Modes, NEW all \in SUBSET (Checks(doc, served, mode) \union TransportChecks(flaws)),
         NEW cs, cs = PartitionChecks(ids, all)
  PROVE  /\ DOMAIN cs = 0..Len(ids)
         /\ \A r \in DOMAIN cs : cs[r] \subseteq all
         /\ (doc.json => Decodes(doc)) =>
              \A r \in DOMAIN cs : \A c \in cs[r] :
                r = IF c.at = 0 \/ c.subject.prefix = "absent" THEN 0 ELSE c.at
<1>1. /\ DOMAIN cs = 0..Len(ids)
      /\ \A r \in DOMAIN cs : \A c \in cs[r] : c \in all /\ EntryIndex(ids, c) = r
  BY DEF PartitionChecks
<1>2. ASSUME doc.json => Decodes(doc), NEW c \in all
      PROVE  EntryIndex(ids, c) = IF c.at = 0 \/ c.subject.prefix = "absent" THEN 0 ELSE c.at
  BY <1>2, FindsItsRow
<1> QED BY <1>1, <1>2

LEMMA DocumentsInit == Init => TypeOK /\ StoredInv
<1> SUFFICES ASSUME Init
             PROVE  TypeOK /\ StoredInv
  OBVIOUS
<1>1. TypeOK
  BY DEF Init, TypeOK
<1>2. StoredInv
  BY DEF Init, StoredInv, RightRow
<1> QED BY <1>1, <1>2

LEMMA SaveKeeps ==
  ASSUME TypeOK, StoredInv, Save
  PROVE  TypeOK' /\ StoredInv'
<1> PICK all : all = Checks(doc, served, "lenient") \union TransportChecks(flaws)
  OBVIOUS
<1>1. /\ status = "unsaved" /\ by = "crawl"
      /\ rows' = ParsedIds(doc) /\ checks' = PartitionChecks(ParsedIds(doc), all)
      /\ status' = RollUp(all)
      /\ doc' = doc /\ served' = served /\ flaws' = flaws /\ by' = by
  BY DEF Save, StoredInv
<1>2. ParsedIds(doc) \in Seq(Identifiers)
  BY Parsed DEF TypeOK
<1>3. PICK ids : ids = ParsedIds(doc)
  OBVIOUS
<1>4. PICK cs : cs = PartitionChecks(ids, all)
  OBVIOUS
<1>5. /\ DOMAIN cs = 0..Len(ids)
      /\ \A r \in DOMAIN cs : cs[r] \subseteq all
      /\ (doc.json => Decodes(doc)) =>
           \A r \in DOMAIN cs : \A c \in cs[r] :
             r = IF c.at = 0 \/ c.subject.prefix = "absent" THEN 0 ELSE c.at
  <2>1. all \in SUBSET (Checks(doc, served, "lenient") \union TransportChecks(flaws))
    OBVIOUS
  <2>2. "lenient" \in Modes /\ Len(ids) <= Len(ids)
    BY <1>2, <1>3 DEF Modes
  <2> QED BY <1>2, <1>3, <1>4, <2>1, <2>2, Stores
<1>6. checks' = cs /\ rows' = ids
  BY <1>1, <1>3, <1>4
<1>7. status' \in Verdicts
  BY <1>1, RollsUp DEF Verdicts
<1>8. TypeOK'
  BY <1>1, <1>2, <1>3, <1>5, <1>6, <1>7 DEF TypeOK
<1>9. Made' = all
  BY <1>1 DEF Made
<1>10. OwnRows'
  BY <1>1, <1>2 DEF OwnRows
<1>11. RightRow'
  BY <1>1, <1>5, <1>6 DEF RightRow
<1> QED BY <1>1, <1>5, <1>6, <1>7, <1>8, <1>9, <1>10, <1>11 DEF StoredInv, Verdicts

LEMMA ReverifyKeeps ==
  ASSUME TypeOK, StoredInv, NEW mode \in Modes, Reverify(mode)
  PROVE  TypeOK' /\ StoredInv'
<1> PICK all : all = Checks(doc, served, mode)
  OBVIOUS
<1>1. /\ status # "unsaved" /\ by' = mode /\ rows' = rows
      /\ checks' = PartitionChecks(rows, all) /\ status' = RollUp(all)
      /\ doc' = doc /\ served' = served /\ flaws' = flaws
  BY DEF Reverify
<1>2. /\ rows \in Seq(Identifiers) /\ OwnRows
      /\ Len(ParsedIds(doc)) <= Len(rows)
      /\ \A i \in DOMAIN ParsedIds(doc) : rows[i] = ParsedIds(doc)[i]
  BY <1>1 DEF TypeOK, StoredInv, OwnRows
<1>3. PICK cs : cs = PartitionChecks(rows, all)
  OBVIOUS
<1>4. /\ DOMAIN cs = 0..Len(rows)
      /\ \A r \in DOMAIN cs : cs[r] \subseteq all
      /\ (doc.json => Decodes(doc)) =>
           \A r \in DOMAIN cs : \A c \in cs[r] :
             r = IF c.at = 0 \/ c.subject.prefix = "absent" THEN 0 ELSE c.at
  <2>1. all \in SUBSET (Checks(doc, served, mode) \union TransportChecks(flaws))
    OBVIOUS
  <2> QED BY <1>2, <1>3, <2>1, Stores
<1>5. checks' = cs
  BY <1>1, <1>3
<1>6. status' \in Verdicts
  BY <1>1, RollsUp DEF Verdicts
<1>7. TypeOK'
  BY <1>1, <1>4, <1>5, <1>6 DEF TypeOK
<1>8. Made' = all
  BY <1>1 DEF Made, Modes
<1>9. OwnRows'
  BY <1>1, <1>2 DEF OwnRows
<1>10. RightRow'
  BY <1>1, <1>4, <1>5 DEF RightRow
<1> QED BY <1>1, <1>4, <1>5, <1>6, <1>7, <1>8, <1>9, <1>10 DEF StoredInv, Verdicts

LEMMA HarvestKeeps ==
  ASSUME TypeOK, StoredInv, NEW id \in Results, Harvest(id)
  PROVE  TypeOK' /\ StoredInv'
<1>1. /\ status # "unsaved" /\ rows' = Append(rows, id)
      /\ checks' = [i \in 0..(Len(rows) + 1) |-> IF i \in DOMAIN checks THEN checks[i] ELSE {}]
      /\ doc' = doc /\ served' = served /\ flaws' = flaws /\ status' = status /\ by' = by
  BY DEF Harvest
<1>2. rows \in Seq(Identifiers) /\ id \in Identifiers /\ ParsedIds(doc) \in Seq(Identifiers)
  BY DocsAssumption, Parsed DEF TypeOK
<1>3. /\ rows' \in Seq(Identifiers) /\ Len(rows') = Len(rows) + 1 /\ Len(rows) \in Nat
      /\ \A i \in 1..Len(rows) : rows'[i] = rows[i]
  BY <1>1, <1>2
<1>4. DOMAIN checks' = 0..Len(rows')
  BY <1>1, <1>3
<1>5. \A r \in DOMAIN checks' : checks'[r] = {} \/ (r \in DOMAIN checks /\ checks'[r] = checks[r])
  BY <1>1
<1>6. TypeOK'
  BY <1>1, <1>3, <1>4 DEF TypeOK
<1>7. Made' = Made
  BY <1>1 DEF Made
<1>8. OwnRows'
  <2>1. /\ Len(ParsedIds(doc)) <= Len(rows)
        /\ \A i \in DOMAIN ParsedIds(doc) : rows[i] = ParsedIds(doc)[i]
    BY <1>1 DEF StoredInv, OwnRows
  <2>2. DOMAIN ParsedIds(doc) = 1..Len(ParsedIds(doc)) /\ Len(ParsedIds(doc)) \in Nat
    BY <1>2
  <2>3. \A i \in DOMAIN ParsedIds(doc) : rows'[i] = ParsedIds(doc)[i]
    BY <1>3, <2>1, <2>2
  <2> QED BY <1>1, <1>3, <2>1, <2>2, <2>3 DEF OwnRows
<1>9. RightRow'
  BY <1>1, <1>5 DEF StoredInv, RightRow
<1>10. \A r \in DOMAIN checks' : checks'[r] \subseteq Made'
  BY <1>5, <1>7 DEF StoredInv
<1>11. status' = RollUp(Made')
  BY <1>1, <1>7 DEF StoredInv
<1> QED BY <1>1, <1>6, <1>8, <1>9, <1>10, <1>11 DEF StoredInv

LEMMA DocumentsKeep ==
  ASSUME TypeOK, StoredInv, [Next]_vars
  PROVE  TypeOK' /\ StoredInv'
<1>1. CASE UNCHANGED vars
  BY <1>1 DEF vars, TypeOK, StoredInv, OwnRows, Made, RightRow
<1>2. CASE Save
  BY <1>2, SaveKeeps
<1>3. CASE \E id \in Results : Harvest(id)
  BY <1>3, HarvestKeeps
<1>4. CASE \E mode \in Modes : Reverify(mode)
  BY <1>4, ReverifyKeeps
<1> QED BY <1>1, <1>2, <1>3, <1>4 DEF Next

LEMMA DocumentsInvariant == Spec => [](TypeOK /\ StoredInv)
BY DocumentsInit, DocumentsKeep, PTL DEF Spec

-----------------------------------------------------------------------------
(* Theorems.                                                               *)

\* Whatever the document and whoever serves it, it never does better under
\* --strict than by default (verify.go, VerifyStrict).
THEOREM StrictestLast == Spec => []StrictIsStricter
<1>1. TypeOK /\ StoredInv => StrictIsStricter
  BY StricterIs
<1> QED BY <1>1, DocumentsInvariant, PTL

\* The stored status of a catalog that decodes is the one the document and its
\* transport deserve, after the crawl and after any re-verifications
\* (verify.go, verify; checks.go; jsonout/verify.go, reverifyCatalog).
THEOREM RightVerdict == Spec => []VerdictIsRight
<1>1. TypeOK /\ StoredInv => VerdictIsRight
  <2> SUFFICES ASSUME TypeOK, StoredInv, status # "unsaved", doc.json => Decodes(doc)
               PROVE  status = IF by = "crawl" /\ flaws # {} /\ Expected("lenient") = "valid"
                               THEN "valid_with_warnings"
                               ELSE Expected(IF by = "crawl" THEN "lenient" ELSE by)
    BY DEF VerdictIsRight
  <2>1. status = RollUp(Made)
    BY DEF StoredInv
  <2>2. CASE by = "crawl"
    <3>1. RollUp(Checks(doc, served, "lenient")) = Expected("lenient")
      BY Verdict DEF Modes
    <3>2. flaws \subseteq TransportFlaws
      BY DEF TypeOK
    <3>3. Made = Checks(doc, served, "lenient") \union TransportChecks(flaws)
      BY <2>2 DEF Made
    <3> QED BY <2>1, <2>2, <3>1, <3>2, <3>3, Transported
  <2>3. CASE by # "crawl"
    <3>1. by \in Modes /\ Made = Checks(doc, served, by)
      BY <2>3 DEF TypeOK, Made
    <3>2. PICK mode : mode = by
      OBVIOUS
    <3>3. RollUp(Checks(doc, served, mode)) = Expected(mode)
      BY <3>1, <3>2, Verdict
    <3> QED BY <2>1, <2>3, <3>1, <3>2, <3>3
  <2> QED BY <2>2, <2>3
<1> QED BY <1>1, DocumentsInvariant, PTL

\* By default a defect the schema found is not found a second time by the
\* semantic check that restates it (verify.go, verify).
THEOREM DefectsOnce == Spec => []NoDefectTwice
<1>1. TypeOK /\ StoredInv => NoDefectTwice
  <2> SUFFICES ASSUME TypeOK, StoredInv, by # "strict", NEW r \in DOMAIN checks,
                      NEW c \in checks[r], NEW s \in checks[r], NEW b \in DOMAIN Restates,
                      c.id = <<"schema", b>>, s.id = <<Restates[b]>>
               PROVE  FALSE
    BY DEF NoDefectTwice
  <2>1. c \in Made /\ s \in Made
    BY DEF StoredInv
  <2>2. by \in {"crawl"} \union Modes
    BY DEF TypeOK
  <2> QED BY <2>1, <2>2, OneDefectOneRow
<1> QED BY <1>1, DocumentsInvariant, PTL

\* Every check stays with the row of the entry it is about, whatever identifiers
\* the entries share and whatever results a registry adds (checks.go,
\* PartitionChecks and entryIndexOf).
THEOREM ChecksStay == Spec => []RightRow
<1>1. TypeOK /\ StoredInv => RightRow
  BY DEF StoredInv
<1> QED BY <1>1, DocumentsInvariant, PTL
=============================================================================
