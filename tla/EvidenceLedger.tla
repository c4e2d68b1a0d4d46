--------------------------- MODULE EvidenceLedger ---------------------------
(***************************************************************************)
(* What the achievement API promises about evidence, with no requests, no  *)
(* checks and no races: a ledger of achievements and of the journals linked *)
(* to them, in which every operation takes effect in one step, a link needs *)
(* a present achievement, and an achievement leaves with all its links and  *)
(* never comes back.                                                        *)
(***************************************************************************)
CONSTANTS Achs,       \* the achievement ids
          Journals    \* the journal ids

VARIABLES ach,        \* [Achs -> {"none", "present", "deleted"}]
          links       \* the pairs <<achievement, journal>> on record

vars == <<ach, links>>

Init ==
  /\ ach = [a \in Achs |-> "none"]
  /\ links = {}

Record(a) ==
  /\ ach[a] = "none"
  /\ ach' = [ach EXCEPT ![a] = "present"]
  /\ UNCHANGED links

Link(a, j) ==
  /\ ach[a] = "present"
  /\ links' = links \cup {<<a, j>>}
  /\ UNCHANGED ach

Unlink(a, j) ==
  /\ links' = links \ {<<a, j>>}
  /\ UNCHANGED ach

Retire(a) ==
  /\ ach[a] = "present"
  /\ ach' = [ach EXCEPT ![a] = "deleted"]
  /\ links' = {p \in links : p[1] # a}

Next ==
  \/ \E a \in Achs : Record(a) \/ Retire(a)
  \/ \E a \in Achs, j \in Journals : Link(a, j) \/ Unlink(a, j)

Spec == Init /\ [][Next]_vars
=============================================================================
