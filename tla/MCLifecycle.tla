----------------------------- MODULE MCLifecycle -----------------------------
(* Lifecycle for TLC: a bot with two configured channels. *)
EXTENDS Lifecycle, TLC

CONSTANTS den, hall
Symmetric == Permutations({den, hall})
==============================================================================
