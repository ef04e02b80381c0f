----------------------------- MODULE MCBotLink -----------------------------
(* Bounded instances of BotLink.                                           *)
EXTENDS BotLink, TLC

(* Safety runs only: sockets are interchangeable, and so are leaves when    *)
(* all of them know the password.                                           *)
Symmetry == Permutations(Sock) \cup Permutations(Leaf)

=============================================================================
