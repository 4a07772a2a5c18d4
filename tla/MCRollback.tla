----------------------------- MODULE MCRollback -----------------------------
EXTENDS Rollback
=============================================================================
