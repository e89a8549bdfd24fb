---------------------------- MODULE MCHistories ----------------------------
EXTENDS Histories
=============================================================================
