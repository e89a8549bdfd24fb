---------------------------- MODULE MCDownloads ----------------------------
EXTENDS Downloads
=============================================================================
