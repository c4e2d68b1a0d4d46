----------------------------- MODULE MCSessions -----------------------------
(* Model checking Sessions: no symmetry, because a liveness property is among *)
(* those checked.                                                             *)
EXTENDS Sessions
=============================================================================
