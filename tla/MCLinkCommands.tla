--------------------------- MODULE MCLinkCommands ---------------------------
(* Bounded instances of LinkCommands.                                      *)
EXTENDS LinkCommands

CONSTANT asker, peer

OneSession == [l \in {asker, peer} |-> IF l = asker THEN 1 ELSE 0]
=============================================================================
