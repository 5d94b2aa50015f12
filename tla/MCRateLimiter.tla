----------------------------- MODULE MCRateLimiter -----------------------------
(* Values of the constants for the run of RateLimiter. *)
EXTENDS RateLimiter

CONSTANTS p1, p2

MCProcesses == {p1, p2}
================================================================================
