--------------------------- MODULE MCRateLimiter ---------------------------
(***************************************************************************)
(* An instance of RateLimiter for TLC: CustomRateLimiter(2, 2/3), a second *)
(* of two clock steps, EXPIRE of ceil(2 / (2/3)) = 3 seconds.  A step is   *)
(* four ticks long, so that a rounding error of one unit is less than what *)
(* the requests and the clock move.                                        *)
(***************************************************************************)
EXTENDS RateLimiter, TLC

HandlersAlike == Permutations(Handlers)

AllRedisFaults == {"answer_lost", "redis_error", "redis_restart"}
=============================================================================
