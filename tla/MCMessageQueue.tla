--------------------------- MODULE MCMessageQueue ---------------------------
(* MessageQueue for TLC: the values are in the configurations.             *)
EXTENDS MessageQueue, TLC
=============================================================================
