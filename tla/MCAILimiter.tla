---------------------------- MODULE MCAILimiter ----------------------------
(* The limiter of AI summaries, for TLC. *)
EXTENDS AILimiter, TLC
Symmetry == Permutations(Tabs)
=============================================================================
