--------------------------- MODULE MCDccSessions ----------------------------
(* Bounded instances of DccSessions.                                       *)
EXTENDS DccSessions, TLC

CONSTANTS first, second, gate, join, mod, admin

(* Two DCC requests of one nick; the dispatcher's gate asks about it too, and  *)
(* auto-op about another nick.                                              *)
Asks == first :> mod @@ second :> mod @@ gate :> mod @@ join :> admin
=============================================================================
