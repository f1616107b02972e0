----------------------------- MODULE MCExchange -----------------------------
(* Every location block alone, and the pairs of blocks that can both match. *)
EXTENDS Exchange

MCLocations == {l \in Location : l.methods \in {{"GET"}, {"POST"}, Methods}}
MCFirst == {l \in MCLocations : l.methods = {"GET"} /\ ~l.redirect /\ l.disk = "REG"}
MCSecond == {l \in MCLocations : l.methods = Methods /\ ~l.redirect /\ l.disk = "MISSING"}
MCServers == {<<>>} \cup {<<l>> : l \in MCLocations} \cup (MCFirst \X MCSecond)

(* A wrong version is rejected before anything else of the request is      *)
(* looked at: one target is enough.                                        *)
MCRequests == {r \in HttpRequest : ~r.versionOk => r.target = "page"}

(* A page that has gone, one for two statuses and one that does not open.  *)
MCErrorPages == <<[name |-> {404}, disk |-> "missing"],
                  [name |-> {404, 405}, disk |-> "readable"],
                  [name |-> {504}, disk |-> "unreadable"]>>
MCRootDigits == {403}
MCMissingPages == {500}
=============================================================================
