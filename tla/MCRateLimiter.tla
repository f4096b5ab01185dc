---------------------------- MODULE MCRateLimiter ----------------------------
(* One rate limiter; see the cfg files for the durations.                    *)
EXTENDS RateLimiter
=============================================================================
