---------------------------- MODULE MCRateLimiter ----------------------------
(***************************************************************************)
(* Two requests at once, two allowed per window; six in all, because a     *)
(* window may admit five and the sixth shows that it is no more.           *)
(***************************************************************************)
EXTENDS RateLimiter, TLC
==============================================================================
