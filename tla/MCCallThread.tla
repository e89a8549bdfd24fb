---------------------------- MODULE MCCallThread ----------------------------
EXTENDS CallThread
=============================================================================
