---------------------------- MODULE MCRateLimiter ----------------------------
(* Model checking RateLimiter: buckets of two tokens, a token every second   *)
(* and a half, and time enough to empty a bucket, prune it and start again.  *)
EXTENDS RateLimiter, TLC

Symmetry == Permutations(Requests) \cup Permutations(Trackers)
==============================================================================
