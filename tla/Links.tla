------------------------------- MODULE Links --------------------------------
(***************************************************************************)
(* What the connection layer promises of its links to the code above it     *)
(* (src/core/botlink-leaf.ts, botlink-hub.ts), which knows a link by          *)
(* isConnected on the leaf and by the registry of leaves on the hub.         *)
(***************************************************************************)
CONSTANT Leaf

VARIABLES leafUp, hubUp  \* leaf -> whether its link is up, on each side

sides == <<leafUp, hubUp>>

Init ==
    /\ leafUp = [l \in Leaf |-> FALSE]
    /\ hubUp = [l \in Leaf |-> FALSE]

(* A handshake completes: only once both sides are rid of the last link, so   *)
(* that nothing of it can be taken for the new one's.                         *)
Up(l) ==
    /\ ~leafUp[l] /\ ~hubUp[l]
    /\ leafUp' = [leafUp EXCEPT ![l] = TRUE]
    /\ hubUp' = [hubUp EXCEPT ![l] = TRUE]

(* Each side finds out on its own that a link is gone.                      *)
LeafLoses(l) == leafUp' = [leafUp EXCEPT ![l] = FALSE] /\ UNCHANGED hubUp
HubLoses(l) == hubUp' = [hubUp EXCEPT ![l] = FALSE] /\ UNCHANGED leafUp
HubStops == hubUp' = [l \in Leaf |-> FALSE] /\ UNCHANGED leafUp

(* The hub takes the HELLO of a connection its leaf has given up, and will    *)
(* find out.  A leaf that is down then has had a link and lost it at once; one *)
(* that is up holds a later link, which the hub has had and lost.             *)
Late(l) ==
    /\ ~hubUp[l]
    /\ hubUp' = [hubUp EXCEPT ![l] = TRUE]
    /\ UNCHANGED leafUp

Orderly == HubStops \/ \E l \in Leaf : Up(l) \/ LeafLoses(l) \/ HubLoses(l)

OrderlySpec == Init /\ [][Orderly]_sides

Spec == Init /\ [][Orderly \/ \E l \in Leaf : Late(l)]_sides
=============================================================================
