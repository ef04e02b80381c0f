--------------------------- MODULE MCChannelState ---------------------------
(* Values of ChannelState for TLC. *)
EXTENDS ChannelState, TLC

CONSTANTS me, u1, u2
MCHome == (me :> "nick") @@ (u1 :> "a") @@ (u2 :> "b")
============================================================================
