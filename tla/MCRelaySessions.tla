-------------------------- MODULE MCRelaySessions ---------------------------
(* Bounded instances of RelaySessions.                                     *)
EXTENDS RelaySessions

CONSTANTS west, south, hub, mod, admin

(* A user at home on a leaf, one at home on the hub.                         *)
LeafAndHub == mod :> {west} @@ admin :> {hub}
=============================================================================
