---------------------------- MODULE MCJournalSave ----------------------------
(* Model checking JournalSave on one journal: two tabs that save it at the   *)
(* same time, and one tab that saves it again and again with several images. *)
EXTENDS JournalSave, TLC

SameName     == [f \in Files |-> "image.png"]  \* as pasted screenshots have
DistinctName == [f \in Files |-> f]

Symmetry == Permutations(Tabs) \cup Permutations(Rows)
====
