-------------------------- MODULE MCCircuitBreaker --------------------------
\* A small instance of CircuitBreaker: two callers of one provider.
EXTENDS CircuitBreaker

CONSTANTS c1, c2
=============================================================================
