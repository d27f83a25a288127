--------------------------- MODULE MCRateLimiter ---------------------------
(***************************************************************************)
(* Small instances of RateLimiter for TLC.                                 *)
(***************************************************************************)
EXTENDS RateLimiter, TLC

\* Request names carry no meaning of their own, also where they name a bucket.
MCSymmetry == Permutations(Requests)
=============================================================================
