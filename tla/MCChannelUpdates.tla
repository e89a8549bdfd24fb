------------------------- MODULE MCChannelUpdates -------------------------
(* The instance of ChannelUpdates that TLC checks.                         *)
EXTENDS ChannelUpdates
=============================================================================
