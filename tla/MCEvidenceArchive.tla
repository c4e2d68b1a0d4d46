-------------------------- MODULE MCEvidenceArchive --------------------------
(* Two requests in flight over one achievement and two journals: every pair  *)
(* of requests can meet on the same achievement, on the same journal or on   *)
(* the same link, and a request can have a target left when an error hits.   *)
EXTENDS EvidenceArchive, TLC

Symmetry == Permutations(Achs) \cup Permutations(Journals) \cup Permutations(Clients)
===============================================================================
