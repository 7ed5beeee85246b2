-------------------------- MODULE MCSessionStore --------------------------
\* A small instance of SessionStore: more sessions than a page holds, and a
\* lifetime that ends inside the run.
EXTENDS SessionStore

CONSTANTS law, art

MCLabel == <<law, art, law>>
=============================================================================
