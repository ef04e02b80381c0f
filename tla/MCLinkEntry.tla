---------------------------- MODULE MCLinkEntry -----------------------------
(* Two addresses, one of which may be reported in another form or be on the
   whitelist, and ranges of both of them.                                      *)
EXTENDS LinkEntry
CONSTANTS home, other, c1, c2
MCInRange(r) == IF r = "wide" THEN {home, other} ELSE {home}
Conns == Permutations({c1, c2})
==============================================================================
