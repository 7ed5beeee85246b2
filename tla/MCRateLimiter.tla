--------------------------- MODULE MCRateLimiter ---------------------------
\* A small instance of RateLimiter: two clients, short windows.
EXTENDS RateLimiter, TLC

CONSTANTS ip1, ip2

MCWidth == ("minute" :> 1) @@ ("hour" :> 3)
MCLimit == ("minute" :> 2) @@ ("hour" :> 3)
Symmetry == Permutations({ip1, ip2})
=============================================================================
