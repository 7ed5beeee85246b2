---------------------------- MODULE MCTaskQueue ----------------------------
\* A small instance of TaskQueue: more ids than the store holds.
EXTENDS TaskQueue

CONSTANTS t1, t2, t3, t4
=============================================================================
