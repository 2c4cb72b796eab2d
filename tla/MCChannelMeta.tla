--------------------------- MODULE MCChannelMeta ---------------------------
(* ChannelMeta for TLC. *)
EXTENDS ChannelMeta, TLC

=============================================================================
