-------------------------- MODULE MCThesisPipeline --------------------------
\* Small instances of ThesisPipeline.
EXTENDS ThesisPipeline

\* Whatever an agent's call may come to.
AllOutcomes == {"own", "empty", "placeholder"}
=============================================================================
