------------------------------- MODULE MCPages -------------------------------
(***************************************************************************)
(* The pages on a small instance: two entries, one achievement made and one  *)
(* still to be made, one review cycle, two members of the team.              *)
(***************************************************************************)
EXTENDS App, TLC

CONSTANTS e1, e2, m1, m2

E(c, t, w) == [category |-> c, tags |-> t, words |-> w]

(* One entry for each way an entry is, or is not, foundation work.           *)
MCWritten ==
  {E("none", {}, {}), E("general", {}, {"debt"}), E("development", {"hiring"}, {"debt"}),
   E("development", {"feature"}, {}), E("maintenance", {"incident"}, {}),
   E("request", {"audit", "refactor"}, {}), E("request", {}, {}), E("meeting", {}, {}),
   E("other", {}, {}), E("other", {}, {"governance"}), E("business_trip", {}, {})}

ASSUME MCWritten \subseteq Foundation!Entry

(* Two weeks' days around a Sunday; a period of three days, of one, of two.  *)
MCDays   == 5..8
MCRanges == {<<5, 7>>, <<6, 6>>, <<7, 8>>}

(* Managers try every page, the others the managers' pages and one more; no  *)
(* page knows who is signed in.                                              *)
MCVisits == ({"manager"} \X Pages) \cup ({"employee"} \X (Managed \cup {"journals"}))

MCRows     == 1..3
MCFilters  == {{1}, {2, 3}, {}}
MCPictures == (e1 :> 2) @@ (e2 :> 0)
MCTeam     == <<m1, m2>>
==============================================================================
