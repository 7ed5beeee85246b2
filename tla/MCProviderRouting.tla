------------------------- MODULE MCProviderRouting -------------------------
\* Small instances of ProviderRouting: a dear provider p1, a cheap one p2,
\* and a mode that prefers a provider p3 that is not available.
EXTENDS RoutingRefinement, TLC

CONSTANTS c1, c2, s1, p1, p2, p3

MCAvailable == <<p1, p2>>
MCEst == (p1 :> 2) @@ (p2 :> 1)

\* checker and synthesizer of one session
OneSession == (c1 :> s1) @@ (c2 :> s1)
=============================================================================
