------------------------------- MODULE MCPages -------------------------------
(* An instance of Pages for TLC: two hosts whose pages link to each other. *)
EXTENDS Pages

CONSTANTS home, about, blog, image, hinted, listed, hub, acme, other

Anchor(u) == [tag |-> "a", ref |-> u]
Hint(u, ard) == [tag |-> "link", ref |-> u, ard |-> ard]
Script(size, node) == [tag |-> "script", jsonld |-> TRUE, size |-> size, node |-> node]
Inline(list) == [is |-> "catalog", entries |-> list]
Names(kind, u) == [kind |-> kind, url |-> u]
Graph(node) == [is |-> "graph", of |-> node]
Array(nodes) == [is |-> "array", of |-> nodes]
Organization == [is |-> "other"]

SiteHosts ==
  [u \in {home, about, blog, image, hinted, listed} |->
     IF u \in {home, about, image} THEN acme ELSE other]

Embedded == Inline(<<Names("registry", hub), Names("catalog", listed)>>)

\* The home page and the blog link to each other; the blog has a hint for a
\* catalog on its own host and a catalog in its JSON-LD, with a registry and
\* another catalog as its entries, next to blocks that are too long, too deep,
\* too many or no catalog at all.
Site ==
  [u \in {home, about, blog, image} |->
     CASE u = home  -> <<Anchor(blog), Anchor(NoURL)>>
       [] u = blog  -> <<Anchor(home), Anchor(about), Anchor(image), Hint(hinted, TRUE), Hint(listed, FALSE),
                         Script("long", Inline(<<Names("catalog", hinted)>>)),
                         Script("fits", Array(<<Organization, Graph(Embedded)>>)),
                         Script("fits", Graph(Array(<<Graph(Inline(<<>>))>>))),
                         Script("fits", Inline(<<Names("catalog", hinted)>>))>>
       [] u = about -> <<>>
       [] u = image -> <<>>]
=============================================================================
