---------------------------- MODULE MCCodeAudit ----------------------------
\* A small instance of CodeAudit: a tree of a README and a source file, and
\* documents of up to two claims.
EXTENDS CodeAudit

CONSTANTS readme, source
=============================================================================
