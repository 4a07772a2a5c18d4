---------------------------- MODULE MCDirectPath ----------------------------
EXTENDS DirectPath
=============================================================================
