---------------------------- MODULE LinkChannels ----------------------------
(***************************************************************************)
(* The bot link as the code above the connection layer sees it: a leaf's    *)
(* isConnected, the hub's registry of leaves, and the frames on their way.  *)
(* Each side finds out on its own that a link is lost, and what it has not   *)
(* read by then is lost; the other side's frames may still arrive until it    *)
(* finds out too.  How links come and go is BotLink's subject.              *)
(***************************************************************************)
EXTENDS Naturals, Sequences, FiniteSets

CONSTANTS
    Leaf,   \* botnames of the leaves
    Hub     \* botname of the hub

VARIABLES
    leafUp,   \* leaf -> BotLinkLeaf.isConnected
    hubUp,    \* leaf -> BotLinkHub.leaves has it
    toHub,    \* leaf -> frames on their way from it
    toLeaf    \* leaf -> frames on their way to it

linkVars == <<leafUp, hubUp, toHub, toLeaf>>

LinkInit ==
    /\ leafUp = [l \in Leaf |-> FALSE]
    /\ hubUp = [l \in Leaf |-> FALSE]
    /\ toHub = [l \in Leaf |-> <<>>]
    /\ toLeaf = [l \in Leaf |-> <<>>]

(* BotLinkLeaf.send, BotLinkHub.send and broadcast, on channels ch: a side    *)
(* without a link sends nothing, and nobody reads what a side sends that has   *)
(* not noticed the loss.                                                     *)
LeafSends(ch, l, frame) ==
    IF leafUp[l] /\ hubUp[l] THEN [ch EXCEPT ![l] = Append(@, frame)] ELSE ch
HubSends(ch, b, frame) ==
    IF b \in Leaf /\ hubUp[b] /\ leafUp[b] THEN [ch EXCEPT ![b] = Append(@, frame)] ELSE ch
HubBroadcasts(ch, frame, except) ==
    [l \in Leaf |-> IF hubUp[l] /\ leafUp[l] /\ l # except THEN Append(ch[l], frame)
                    ELSE ch[l]]

Take(ch, l) == [ch EXCEPT ![l] = Tail(@)]

(* A handshake completes.                                                   *)
LinkUp(l) ==
    /\ ~leafUp[l] /\ ~hubUp[l]
    /\ leafUp' = [leafUp EXCEPT ![l] = TRUE]
    /\ hubUp' = [hubUp EXCEPT ![l] = TRUE]
    /\ toHub' = [toHub EXCEPT ![l] = <<>>]
    /\ toLeaf' = [toLeaf EXCEPT ![l] = <<>>]

LeafLoses(l) ==
    /\ leafUp[l]
    /\ leafUp' = [leafUp EXCEPT ![l] = FALSE]
    /\ toLeaf' = [toLeaf EXCEPT ![l] = <<>>]
    /\ UNCHANGED <<hubUp, toHub>>

=============================================================================
