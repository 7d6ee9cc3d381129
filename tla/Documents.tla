----------------------------- MODULE Documents -----------------------------
(***************************************************************************)
(* How a catalog document becomes a report (src/internal/ard/verify.go,    *)
(* checks.go): the JSON Schema pass with the leniencies of the default     *)
(* mode, the semantic checks that are left out when the schema already     *)
(* failed, the transport checks merged in by the caller, the roll-up to a  *)
(* verdict, and the partition of the checks over the entries they are      *)
(* stored with, when the crawl saves the catalog and again whenever        *)
(* `verify --stored' (src/internal/jsonout/verify.go) goes over it; in     *)
(* between a registry's results may have become entries of the catalog.    *)
(*                                                                         *)
(* One document is followed.  The schema validator is a library: its       *)
(* outcome is the set of constraints of ai-catalog.schema.json that the    *)
(* instance breaks, each with the entry it is broken in; how many rows one *)
(* constraint takes, messages and the rest of the schema's vocabulary are  *)
(* left out, and so is the order of the checks.                            *)
(***************************************************************************)
EXTENDS Integers, Sequences, FiniteSets, FiniteSetsExt

CONSTANTS
  Domains,       \* the domains publishers and serving hosts have
  Registrable,   \* Registrable[d]: the registrable domain (eTLD+1) of d
  Names,         \* what comes after the publisher in an identifier
  Docs,          \* the documents considered
  Results,       \* the identifiers of the entries registries return
  MaxHarvested   \* bound: the results a registry adds to the catalog

\* A document is served by a host, or read from a file.
NoDomain == "none"
ASSUME DomainsAssumption ==
  /\ NoDomain \notin Domains /\ Domains # {}
  /\ DOMAIN Registrable = Domains
  /\ MaxHarvested \in Nat

\* A publisher as it is written: an FQDN or a bare word, in lower case ASCII,
\* with capitals, or in Unicode.
Publishers == [domain : Domains, dotted : BOOLEAN,
               form : {"ascii", "capitals", "unicode"}]
\* How the identifier starts: the two NIDs, urn:air: in capitals, another
\* scheme, no identifier at all, or a value that is not a string.
Starts == {"air", "AIR", "ai", "other", "absent", "mistyped"}
NoName == "none"
Identifiers == [prefix : Starts, publisher : Publishers,
                name : Names \union {NoName}]

Kinds == {"catalog", "registry", "skill", "mcp-server", "a2a-agent", "generic", "unknown"}
\* A media type: the kind its base is listed under, and whether the profile
\* parameter names the skill profile.  Suffix and case play no part in it.
MediaTypes == [base : Kinds, skillProfile : BOOLEAN]

Absent == -1
Entries ==
  [id : Identifiers, named : BOOLEAN, type : MediaTypes,
   url : {"absent", "empty", "relative", "absolute"},
   data : {"absent", "null", "object"},
   queries : {Absent} \union Nat,
   \* another field: fine, of a wrong type, or a term the schema has no
   \* property for and Go's decoder takes for a field of another type
   rest : {"fine", "wrong", "miscased"}]

Modes == {"lenient", "strict"}

VARIABLES
  doc,      \* the document: [json, version, entries]; json: it parses
  served,   \* the host it came from, or NoDomain
  flaws,    \* the transport checks that fail
  rows,     \* the identifiers of the catalog's entries rows, in id order
  checks,   \* the verification_checks rows, by entry row, 0 for the catalog's
  status,   \* catalogs.verification_status, or "unsaved"
  by        \* what set it: "crawl", or the mode of a `verify --stored'

vars == <<doc, served, flaws, rows, checks, status, by>>

-----------------------------------------------------------------------------
(* Identifiers and media types.                                            *)

CatalogSubject ==
  [prefix |-> "absent", name |-> NoName,
   publisher |-> [domain |-> CHOOSE d \in Domains : TRUE, dotted |-> FALSE, form |-> "ascii"]]

\* The prefix is matched without regard to case, in the order air, ai.
KnownPrefix(id) == id.prefix \in {"air", "AIR", "ai"}

\* ParseURN fails.
Unparsable(id) ==
  \/ ~KnownPrefix(id)
  \/ id.name = NoName
  \/ ~id.publisher.dotted

\* URN.String: the NID and the publisher normalized.
URN(id) == [nid |-> IF id.prefix = "ai" THEN "ai" ELSE "air",
            publisher |-> [id.publisher EXCEPT !.form = "ascii"], name |-> id.name]

\* Faulty variant: only the legacy NID is rewritten.
Normalized_LegacyOnly(id) ==
  IF id.prefix = "ai" THEN [id EXCEPT !.prefix = "air"] ELSE id

\* normalizeIdentifierPublisherASCII, for an identifier with a known prefix.
AsciiPublisher(id) == [id EXCEPT !.publisher.form = "ascii"]

\* normalizeIdentifierForSchema.
Normalized(id) ==
  IF KnownPrefix(id) THEN AsciiPublisher([id EXCEPT !.prefix = "air"]) ELSE id

\* MediaType.Kind: the profile makes a skill of everything but a pointer.
Kind(mt) ==
  IF mt.skillProfile /\ mt.base \notin {"catalog", "registry"} THEN "skill" ELSE mt.base
IsPointer(mt) == Kind(mt) \in {"catalog", "registry"}

\* registrableDomainEqual.
SameSite(a, b) == a = b \/ Registrable[a] = Registrable[b]

-----------------------------------------------------------------------------
(* The schema.                                                             *)

\* The pattern of identifier.
MatchesPattern(id) ==
  id.prefix = "air" /\ id.publisher.form # "unicode" /\ id.name # NoName

\* The constraints an entry breaks.
Broken(e) ==
  {c \in {"identifier", "displayName", "oneOf", "data", "format", "queries", "type"} :
     CASE c = "identifier"  -> ~MatchesPattern(e.id)
       [] c = "displayName" -> ~e.named
       [] c = "oneOf"       -> (e.url = "absent") = (e.data = "absent")
       [] c = "data"        -> e.data = "null"
       [] c = "format"      -> e.url \in {"empty", "relative"}
       [] c = "queries"     -> e.queries # Absent /\ e.queries \notin 2..5
       [] c = "type"        -> e.rest = "wrong"}

\* normalizeForLenientSchema.
Loosened(d) ==
  [d EXCEPT !.entries = [i \in DOMAIN d.entries |->
     [d.entries[i] EXCEPT !.id = Normalized(d.entries[i].id),
        !.data = IF @ = "null" THEN "absent" ELSE @]]]

\* The leaves of the validator's error: where, and which constraint.
Leaves(d) ==
  (IF d.version = "1.0" THEN {} ELSE {[at |-> 0, broken |-> "specVersion"]})
  \union UNION {{[at |-> i, broken |-> c] : c \in Broken(d.entries[i])} : i \in DOMAIN d.entries}

Check(id, severity, passed, subject, at) ==
  [id |-> id, severity |-> severity, passed |-> passed, subject |-> subject, at |-> at]

\* schemaEntryRef: one identifier of a wrong type and no entry is found.
Located(d, i) ==
  IF i > 0 /\ \A j \in DOMAIN d.entries : d.entries[j].id.prefix # "mistyped"
  THEN [subject |-> d.entries[i].id, at |-> i]
  ELSE [subject |-> CatalogSubject, at |-> 0]

\* What the lenient mode leaves to the semantic checks.
Dropped(leaf) == leaf.broken = "queries"

\* Faulty variant: the modes confused.
Severity_Swapped(mode, leaf) ==
  IF mode = "strict" /\ leaf.broken = "format" THEN "warning" ELSE "error"

Severity(mode, leaf) ==
  IF mode = "lenient" /\ leaf.broken = "format" THEN "warning" ELSE "error"

\* validateSchema; the broken constraint is the check's message.
SchemaChecks(d, mode) ==
  LET leaves == IF mode = "strict" THEN Leaves(d)
                ELSE {l \in Leaves(Loosened(d)) : ~Dropped(l)}
  IN  {Check(<<"schema", l.broken>>, Severity(mode, l), FALSE,
             Located(d, l.at).subject, Located(d, l.at).at) : l \in leaves}

\* Faulty variant: the semantic checks run whatever the schema said.
SchemaFailed_Never(cs) == FALSE

SchemaFailed(cs) == \E c \in cs : ~c.passed /\ c.severity = "error"

-----------------------------------------------------------------------------
(* The semantic checks.                                                    *)

\* json.Unmarshal into Catalog succeeds.
Decodes(d) ==
  \A i \in DOMAIN d.entries :
    d.entries[i].rest = "fine" /\ d.entries[i].id.prefix # "mistyped"

\* What two identifiers are compared by: as written when it does not parse.
SameKey(a, b) ==
  /\ Unparsable(a) = Unparsable(b)
  /\ IF Unparsable(a) THEN a = b ELSE URN(a) = URN(b)

Unique(d) ==
  \A i, j \in DOMAIN d.entries :
    i # j => ~SameKey(d.entries[i].id, d.entries[j].id)

HasURL(e) == e.url \notin {"absent", "empty"}
HasData(e) == e.data = "object"
QueryCount(e) == IF e.queries = Absent THEN 0 ELSE e.queries

CheckValueOrReference(e, i) ==
  Check(<<"entry.value_or_reference">>, "error", HasURL(e) # HasData(e), e.id, i)
CheckURNFormat(e, i) ==
  Check(<<"urn.format">>, "error", ~Unparsable(e.id), e.id, i)
CheckPublisherMatches(e, i, host) ==
  Check(<<"urn.publisher_matches">>, "warning", SameSite(e.id.publisher.domain, host), e.id, i)
CheckQueriesCount(e, i) ==
  Check(<<"queries.count">>, "warning", QueryCount(e) \in 2..5, e.id, i)
CheckMediaType(e, i) ==
  Check(<<"entry.media_type">>, "warning", Kind(e.type) # "unknown", e.id, i)

\* The checks of the i-th entry.
EntryChecks(e, i, host, failed) ==
  (IF failed THEN {} ELSE {CheckValueOrReference(e, i), CheckURNFormat(e, i)})
  \union (IF Unparsable(e.id) \/ host = NoDomain THEN {}
          ELSE {CheckPublisherMatches(e, i, host)})
  \union (IF IsPointer(e.type) THEN {} ELSE {CheckQueriesCount(e, i)})
  \union {CheckMediaType(e, i)}

SemanticChecks(d, host, failed) ==
  {Check(<<"identifier.unique">>, "error", Unique(d), CatalogSubject, 0)}
  \union (IF failed THEN {} ELSE
            {Check(<<"catalog.spec_version">>, "error", d.version = "1.0", CatalogSubject, 0)})
  \union UNION {EntryChecks(d.entries[i], i, host, failed) : i \in DOMAIN d.entries}

TransportFlaws == {"transport.content_type", "transport.size", "transport.utf8"}
TransportChecks(fs) ==
  {Check(<<t>>, "warning", t \notin fs, CatalogSubject, 0) : t \in TransportFlaws}

RollUp(cs) ==
  LET failed == {c \in cs : ~c.passed}
  IN  IF \E c \in failed : c.severity = "error" THEN "invalid"
      ELSE IF failed # {} THEN "valid_with_warnings"
      ELSE "valid"

-----------------------------------------------------------------------------
(* The partition of the checks over the entries.                           *)

Bearers(ids, id) == {i \in DOMAIN ids : ids[i] = id}

\* Faulty variant: a map from identifier to entry, in which the last wins.
EntryIndex_LastWins(ids, c) ==
  IF c.subject.prefix = "absent" \/ Bearers(ids, c.subject) = {} THEN 0
  ELSE Max(Bearers(ids, c.subject))

\* entryIndexOf: the identifier decides, the index only breaks a tie.
EntryIndex(ids, c) ==
  IF c.subject.prefix = "absent" \/ Bearers(ids, c.subject) = {} THEN 0
  ELSE IF Cardinality(Bearers(ids, c.subject)) = 1 THEN Max(Bearers(ids, c.subject))
  ELSE IF c.at <= Len(ids) THEN c.at ELSE 0

\* PartitionChecks, splitChecks.
PartitionChecks(ids, cs) ==
  [i \in 0..Len(ids) |-> {c \in cs : EntryIndex(ids, c) = i}]

-----------------------------------------------------------------------------
(* Verify and VerifyStrict, and who calls them.                            *)

Checks(d, host, mode) ==
  IF ~d.json
  THEN {Check(<<"schema.parse">>, "error", FALSE, CatalogSubject, 0)}
  ELSE LET schema == SchemaChecks(d, mode)
       IN  schema \union (IF Decodes(d)
                          THEN SemanticChecks(d, host, SchemaFailed(schema)) ELSE {})

\* What json.Unmarshal leaves in parsed.Entries: decoding ends at the first
\* entry that does not decode, which stays without an identifier.
ParsedIds(d) ==
  LET undecoded == {i \in DOMAIN d.entries :
                      d.entries[i].rest # "fine" \/ d.entries[i].id.prefix = "mistyped"}
      n == IF ~d.json THEN 0 ELSE IF undecoded = {} THEN Len(d.entries) ELSE Min(undecoded)
  IN  [i \in 1..n |-> IF i \in undecoded THEN CatalogSubject ELSE d.entries[i].id]

Documents == [json : BOOLEAN, version : {"1.0", "0.9"}, entries : Seq(Entries)]
ASSUME DocsAssumption == Docs \subseteq Documents /\ Results \subseteq Identifiers

Init ==
  /\ doc \in Docs
  /\ served \in Domains \union {NoDomain}
  /\ flaws \in SUBSET TransportFlaws
  /\ rows = <<>>
  /\ checks = <<>>
  /\ status = "unsaved"
  /\ by = "crawl"

\* processCatalog: Verify, MergeChecks, SaveCatalog.
Save ==
  /\ status = "unsaved"
  /\ LET all == Checks(doc, served, "lenient") \union TransportChecks(flaws)
     IN  /\ checks' = PartitionChecks(ParsedIds(doc), all)
         /\ status' = RollUp(all)
  /\ rows' = ParsedIds(doc)
  /\ UNCHANGED <<doc, served, flaws, by>>

\* handleRegistryHarvest: a result becomes an entry of the catalog, unverified.
Harvest(id) ==
  /\ status # "unsaved"
  /\ Len(rows) < Len(ParsedIds(doc)) + MaxHarvested
  /\ rows' = Append(rows, id)
  /\ checks' = [i \in 0..(Len(rows) + 1) |-> IF i \in DOMAIN checks THEN checks[i] ELSE {}]
  /\ UNCHANGED <<doc, served, flaws, status, by>>

\* reverifyCatalog, in one transaction: the checks of all rows are replaced.
Reverify(mode) ==
  /\ status # "unsaved"
  /\ LET all == Checks(doc, served, mode)
     IN  /\ checks' = PartitionChecks(rows, all)
         /\ status' = RollUp(all)
  /\ by' = mode
  /\ UNCHANGED <<doc, served, flaws, rows>>

Next ==
  \/ Save
  \/ \E id \in Results : Harvest(id)
  \/ \E mode \in Modes : Reverify(mode)

Spec == Init /\ [][Next]_vars

-----------------------------------------------------------------------------
(* Properties.                                                             *)

Verdicts == {"valid", "valid_with_warnings", "invalid"}

Rank(v) == CASE v = "valid" -> 0 [] v = "valid_with_warnings" -> 1 [] v = "invalid" -> 2
VerdictOf(mode) == RollUp(Checks(doc, served, mode))

\* The default mode deviates from the published schema to one side only: no
\* document does better under --strict (verify.go, VerifyStrict).
StrictIsStricter == Rank(VerdictOf("lenient")) <= Rank(VerdictOf("strict"))

\* What the README's pipeline says of a document, without its passes.
Errors(e, mode) ==
  \/ Unparsable(e.id) \/ ~e.named \/ e.rest = "wrong"
  \/ HasURL(e) = HasData(e)
  \/ e.url = "empty" /\ HasData(e)
  \/ mode = "strict" /\ \/ e.id.prefix # "air" \/ e.id.publisher.form = "unicode"
                        \/ e.url \in {"empty", "relative"} \/ e.data = "null"
                        \/ e.queries # Absent /\ e.queries \notin 2..5
Warnings(e) ==
  \/ e.url = "relative"
  \/ served # NoDomain /\ ~SameSite(e.id.publisher.domain, served)
  \/ ~IsPointer(e.type) /\ QueryCount(e) \notin 2..5
  \/ Kind(e.type) = "unknown"
Duplicates ==
  \E i, j \in DOMAIN doc.entries :
    i # j /\ URN(doc.entries[i].id) = URN(doc.entries[j].id)
Expected(mode) ==
  IF \/ ~doc.json \/ doc.version # "1.0" \/ Duplicates
     \/ \E i \in DOMAIN doc.entries : Errors(doc.entries[i], mode)
  THEN "invalid"
  ELSE IF \E i \in DOMAIN doc.entries : Warnings(doc.entries[i])
  THEN "valid_with_warnings" ELSE "valid"

\* The stored verdict is what the document deserves: the passes that stand in
\* for one another, the leniencies and the skipped checks never let an error
\* through and never make one up, for a document Go decodes.  The crawl
\* counts the transport's flaws as well; `verify --stored' does not.
VerdictIsRight ==
  status # "unsaved" /\ (doc.json => Decodes(doc)) =>
    status = IF by = "crawl" /\ flaws # {} /\ Expected("lenient") = "valid"
             THEN "valid_with_warnings"
             ELSE Expected(IF by = "crawl" THEN "lenient" ELSE by)

\* The semantic check that is about the same constraint as a schema leaf.
Restates == [identifier |-> "urn.format", oneOf |-> "entry.value_or_reference",
             data |-> "entry.value_or_reference", specVersion |-> "catalog.spec_version",
             queries |-> "queries.count"]

\* In the default mode one defect is never two rows, one from the schema and
\* one from a semantic check (verify.go, verify and validateSchema).
NoDefectTwice ==
  by # "strict" =>
    \A r \in DOMAIN checks : \A c, s \in checks[r] : \A b \in DOMAIN Restates :
      c.id = <<"schema", b>> /\ s.id = <<Restates[b]>> /\ ~s.passed => s.at # c.at

\* A check is attached to the row of the entry it was made for, or to the
\* catalog if that entry has no identifier; never to another entry that has
\* the same one, and never to a registry's result (checks.go, PartitionChecks).
RightRow ==
  (doc.json => Decodes(doc)) =>
    \A r \in DOMAIN checks : \A c \in checks[r] :
      r = IF c.at = 0 \/ c.subject.prefix = "absent" THEN 0 ELSE c.at
=============================================================================
