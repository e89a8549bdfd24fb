---------------------------- MODULE MCCallQueue ----------------------------
EXTENDS CallQueue
=============================================================================
