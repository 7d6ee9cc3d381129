---------------------------- MODULE MCDocuments ----------------------------
(* An instance of Documents for TLC: documents of at most two entries, each *)
(* a flawless entry or one with a single departure from it.                *)
EXTENDS Documents

CONSTANTS acme, www, other, tool, agent

Site == [d \in {acme, www, other} |-> IF d = www THEN acme ELSE d]

Acme == [domain |-> acme, dotted |-> TRUE, form |-> "ascii"]
Id == [prefix |-> "air", publisher |-> Acme, name |-> tool]
Good == [id |-> Id, named |-> TRUE, type |-> [base |-> "mcp-server", skillProfile |-> FALSE],
         url |-> "absolute", data |-> "absent", queries |-> 2, rest |-> "fine"]
SomePublishers == {[Acme EXCEPT !.form = f] : f \in {"ascii", "capitals", "unicode"}}
                \union {[Acme EXCEPT !.dotted = FALSE], [Acme EXCEPT !.domain = www],
                        [Acme EXCEPT !.domain = other]}
SomeIdentifiers ==
  {CatalogSubject} \union {[Id EXCEPT !.publisher = p] : p \in SomePublishers}
  \union {[Id EXCEPT !.prefix = p] : p \in {"AIR", "ai", "other", "mistyped"}}
  \union {[Id EXCEPT !.name = n] : n \in {agent, NoName}}
SomeEntries ==
  {[Good EXCEPT !.id = id] : id \in SomeIdentifiers}
  \union {[Good EXCEPT !.named = FALSE]}
  \union {[Good EXCEPT !.type = [base |-> k, skillProfile |-> p]] :
            k \in {"catalog", "unknown", "mcp-server"}, p \in BOOLEAN}
  \union {[Good EXCEPT !.url = u, !.data = v] :
            u \in {"absent", "empty", "relative", "absolute"},
            v \in {"absent", "null", "object"}}
  \union {[Good EXCEPT !.queries = q] : q \in {Absent, 1, 6}}
  \union {[Good EXCEPT !.type.base = "catalog", !.queries = 1]}
  \union {[Good EXCEPT !.rest = r] : r \in {"wrong", "miscased"}}

\* What the other entry of a document may be: the same one, one that differs in
\* writing only, and those that decide how the rest of the document is read.
Companions ==
  {Good, [Good EXCEPT !.id.publisher.form = "capitals"], [Good EXCEPT !.id.name = agent],
   [Good EXCEPT !.id.publisher.dotted = FALSE], [Good EXCEPT !.id = CatalogSubject],
   [Good EXCEPT !.rest = "wrong"], [Good EXCEPT !.rest = "miscased"]}

MCDocs ==
  [json : {TRUE}, version : {"1.0", "0.9"}, entries : {<<>>} \union [1..1 -> SomeEntries]]
  \union [json : {TRUE}, version : {"1.0"},
          entries : {<<e, c>> : e \in SomeEntries, c \in Companions}
                    \union {<<c, e>> : e \in SomeEntries, c \in Companions}]
  \union {[json |-> FALSE, version |-> "1.0", entries |-> <<>>]}
MCResults == {Id, CatalogSubject}
=============================================================================
