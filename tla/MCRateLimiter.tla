--------------------------- MODULE MCRateLimiter ---------------------------
(* Two handlers of one user against a limit of two calls per two ticks.  *)
(* The buckets do not share state, so one shows what any of them does; the *)
(* clock runs long enough for a key's TTL (two windows) to fire.           *)
EXTENDS RateLimiter, TLC

CONSTANTS h1, h2, alice

HandlerSymmetry == Permutations(Procs)
=============================================================================
