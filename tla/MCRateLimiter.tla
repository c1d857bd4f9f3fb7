--------------------------- MODULE MCRateLimiter ---------------------------
(***************************************************************************)
(* An instance of RateLimiter: two prefixes with different limits.          *)
(***************************************************************************)
EXTENDS RateLimiter, TLC

CONSTANTS c1, c2, admin, other

MCLimitOf == (admin :> 2) @@ (other :> 0)

Clients == Permutations(Client)

=============================================================================
