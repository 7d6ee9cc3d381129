---------------------------- MODULE MCHostProbe -----------------------------
(* Instances of HostProbe for TLC. *)
EXTENDS HostProbe

CONSTANTS ard, catalog, sibling, robots

TheAliases == <<ard, catalog>>

\* The host publishes under the second alias, on and off, which may also fail
\* for now, and points its Agentmap at a document of a sibling host.  Requests
\* that fail for good are those an interrupt cancels.
Publishes == <<{"miss"}, {"hit", "miss", "error"}>>

TheDocuments ==
  [u \in URLs |-> CASE u = robots  -> {"invalid"}
                    [] u = sibling -> {"refused"}
                    [] u = ard     -> {"error"}
                    [] OTHER       -> {"valid"}]
=============================================================================
