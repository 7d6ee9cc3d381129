------------------------------ MODULE MCFanout -------------------------------
(* Instances of Fanout for TLC. *)
EXTENDS Fanout

CONSTANTS home, nested, indexed, hub, mirror, card

Catalog(u) == [kind |-> "catalog", url |-> u]
Registry(u) == [kind |-> "registry", url |-> u]
Artifact(u) == [kind |-> "artifact", url |-> u]
None == [u \in {hub, mirror} |-> <<>>]

\* Two catalogs that name each other, an artifact, and two registries that
\* refer to each other; one of them also knows a catalog without entries.
Site ==
  [u \in {home, nested, indexed} |->
     CASE u = home -> <<Artifact(card), Registry(hub), Catalog(nested)>>
       [] u = nested -> <<Catalog(home)>>
       [] u = indexed -> <<>>]
MutualReferrals ==
  [u \in {hub, mirror} |-> IF u = hub THEN <<mirror>> ELSE <<hub>>]
Returns ==
  [u \in {hub, mirror} |->
     IF u = hub THEN <<Catalog(indexed), Artifact(card), Registry(mirror)>> ELSE <<>>]

\* A catalog and the registry that indexes it.
IndexedCatalog ==
  [u \in {home, nested} |-> IF u = home THEN <<Registry(hub)>> ELSE <<>>]
ReturnsTheCatalog ==
  [u \in {hub, mirror} |-> IF u = hub THEN <<Catalog(home)>> ELSE <<>>]
=============================================================================
