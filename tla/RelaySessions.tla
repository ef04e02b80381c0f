---------------------------- MODULE RelaySessions ----------------------------
(***************************************************************************)
(* Relay sessions: .relay <bot> sends what a user types in a DCC session to  *)
(* another bot, over the hub.  src/core/botlink-hub.ts (routeRelayFrame,     *)
(* cleanupLeafState), botlink-relay-handler.ts, dcc.ts (relay mode),          *)
(* commands/botlink-commands.ts (.relay) and bot.ts (wirePartyLine).         *)
(*                                                                         *)
(* A relay is kept in three places: the relay mode of the user's DCC session *)
(* (relaying), the hub's route (activeRelays) and the virtual session at the  *)
(* target (virtual), and each of them learns of changes by frames that name    *)
(* the handle only.  A handle has at most one DCC session on a bot.  Whether  *)
(* a bot's permissions know a handle may change and is a choice.              *)
(* RELAY_ACCEPT and RELAY_OUTPUT change nothing of this and are left out.     *)
(***************************************************************************)
EXTENDS LinkChannels, SequencesExt

CONSTANTS
    Handle,     \* handles of users
    Homes,      \* handle -> the bots it opens DCC sessions on
    SelfRelay,  \* whether users give .relay with their own bot (nothing stops them)
    MaxFaults,  \* links lost and bots restarted (a bound)
    MaxFrames   \* a user acts while fewer frames are on their way (a bound)

Bot == Leaf \cup {Hub}
None == "none"

ASSUME ConstantsAssumption ==
    /\ Hub \notin Leaf /\ None \notin Bot
    /\ IsFiniteSet(Handle) /\ Homes \in [Handle -> SUBSET Bot]
    /\ SelfRelay \in BOOLEAN
    /\ MaxFaults \in Nat /\ MaxFrames \in Nat

VARIABLES
    open,          \* bot -> handles with a DCC session there
    relaying,      \* bot -> handle -> the bot its session is relayed to
    virtual,       \* bot -> handle -> fromBot of its virtual session there
    activeRelays,  \* the hub's: handle -> the routes it has, none or one
    faults,        \* links lost and bots restarted so far
    steady,        \* history: relays of leaves with their link up ever since
    rough          \* history: a relay was refused, its session closed or its target cut off

relayVars == <<open, relaying, virtual, activeRelays, faults, steady, rough>>
vars == <<linkVars, relayVars>>

Init ==
    /\ LinkInit
    /\ open = [b \in Bot |-> {}]
    /\ relaying = [b \in Bot |-> [h \in Handle |-> None]]
    /\ virtual = [b \in Bot |-> [h \in Handle |-> None]]
    /\ activeRelays = [h \in Handle |-> {}]
    /\ faults = 0
    /\ steady = {}
    /\ rough = FALSE

(* Frames.  An input also carries, as history, who typed it and the bot its   *)
(* session was relayed to.                                                  *)
RelayRequest(h, from, to) == [type |-> "RELAY_REQUEST", handle |-> h, from |-> from, to |-> to]
RelayInput(h, from, to) == [type |-> "RELAY_INPUT", handle |-> h, from |-> from, to |-> to]
RelayEnd(h) == [type |-> "RELAY_END", handle |-> h]

-----------------------------------------------------------------------------
(* Users                                                                    *)

Room == FoldFunction(LAMBDA ch, n : n + Len(ch), 0, toHub)
            + FoldFunction(LAMBDA ch, n : n + Len(ch), 0, toLeaf) < MaxFrames

(* sendFrame and the sendFrame of wirePartyLine: the hub sends to one leaf or *)
(* to all, a leaf to the hub.                                                *)
SendsTo(b, to, frame) ==
    /\ toLeaf' = IF b = Hub THEN HubSends(toLeaf, to, frame) ELSE toLeaf
    /\ toHub' = IF b = Hub THEN toHub ELSE LeafSends(toHub, b, frame)
SendsOut(b, frame) ==
    /\ toLeaf' = IF b = Hub THEN HubBroadcasts(toLeaf, frame, Hub) ELSE toLeaf
    /\ toHub' = IF b = Hub THEN toHub ELSE LeafSends(toHub, b, frame)

KeepRelaying(b, h) == relaying  \* mutant
ExitRelay(b, h) == [relaying EXCEPT ![b][h] = None]

OpenSession(b, h) ==
    /\ b \in Homes[h] /\ h \notin open[b]
    /\ open' = [open EXCEPT ![b] = @ \cup {h}]
    /\ UNCHANGED <<linkVars, relaying, virtual, activeRelays, faults, steady, rough>>

(* A session ends by .quit, its socket or its idle timer: nobody is told.     *)
CloseSession(b, h) ==
    /\ h \in open[b]
    /\ open' = [open EXCEPT ![b] = @ \ {h}]
    /\ relaying' = ExitRelay(b, h)
    /\ steady' = steady \ {<<b, h>>}
    /\ rough' = (rough \/ relaying[b][h] # None)
    /\ UNCHANGED <<linkVars, virtual, activeRelays, faults>>

(* .relay: only the hub looks whether the target is there.                   *)
Relay(b, h, to) ==
    /\ h \in open[b] /\ relaying[b][h] = None /\ Room
    /\ to # b \/ SelfRelay
    /\ b = Hub => to \in Leaf /\ hubUp[to]
    /\ relaying' = [relaying EXCEPT ![b][h] = to]
    /\ SendsTo(b, to, RelayRequest(h, b, to))
    /\ steady' = IF b \in Leaf /\ leafUp[b] /\ hubUp[b] THEN steady \cup {<<b, h>>} ELSE steady
    /\ UNCHANGED <<leafUp, hubUp, open, virtual, activeRelays, faults, rough>>

(* onLine in relay mode: a line goes to the target.                          *)
Type(b, h) ==
    LET to == relaying[b][h] IN
    /\ to # None /\ Room
    /\ SendsTo(b, to, RelayInput(h, b, to))
    /\ UNCHANGED <<leafUp, hubUp, relayVars>>

(* .relay end and .quit in relay mode.                                       *)
EndRelay(b, h) ==
    /\ relaying[b][h] # None /\ Room
    /\ relaying' = ExitRelay(b, h)
    /\ SendsOut(b, RelayEnd(h))
    /\ steady' = steady \ {<<b, h>>}
    /\ UNCHANGED <<leafUp, hubUp, open, virtual, activeRelays, faults, rough>>

-----------------------------------------------------------------------------
(* The hub reads a frame of leaf l: routeRelayFrame, then handleRelayFrame    *)
(* as every bot has it, so the hub also acts as a target.                    *)

HubReads(l, type) == hubUp[l] /\ toHub[l] # <<>> /\ Head(toHub[l]).type = type

HubRequest(l) ==
    LET frame == Head(toHub[l])
        h == frame.handle
        there == frame.to \in Leaf /\ hubUp[frame.to]
        routed == IF there THEN HubSends(toLeaf, frame.to, frame)
                  ELSE HubSends(toLeaf, l, RelayEnd(h))
    IN
    /\ HubReads(l, "RELAY_REQUEST")
    /\ toHub' = Take(toHub, l)
    /\ activeRelays' = IF there THEN [activeRelays EXCEPT ![h] = {[origin |-> l, target |-> frame.to]}]
                       ELSE activeRelays
    /\ \/ /\ toLeaf' = routed
          /\ virtual' = [virtual EXCEPT ![Hub][h] = l]
          /\ rough' = (rough \/ ~there)
       \/ /\ toLeaf' = HubBroadcasts(routed, RelayEnd(h), Hub)
          /\ rough' = TRUE
          /\ UNCHANGED virtual
    /\ UNCHANGED <<leafUp, hubUp, open, relaying, faults, steady>>

HubInput(l) ==
    LET frame == Head(toHub[l]) IN
    /\ HubReads(l, "RELAY_INPUT")
    /\ toHub' = Take(toHub, l)
    /\ toLeaf' = [b \in Leaf |-> IF \E r \in activeRelays[frame.handle] : r.target = b
                                 THEN HubSends(toLeaf, b, frame)[b] ELSE toLeaf[b]]
    /\ UNCHANGED <<leafUp, hubUp, relayVars>>

(* Where the end of a relay goes that comes from one side of it.             *)
ToOrigin(r, from) == r.origin  \* mutant
ToTarget(r, from) == r.target  \* mutant
OtherSide(r, from) == IF from = r.origin THEN r.target ELSE r.origin

HubEnd(l) ==
    LET h == Head(toHub[l]).handle IN
    /\ HubReads(l, "RELAY_END")
    /\ toHub' = Take(toHub, l)
    /\ toLeaf' = [b \in Leaf |-> IF \E r \in activeRelays[h] : OtherSide(r, l) = b
                                 THEN HubSends(toLeaf, b, RelayEnd(h))[b] ELSE toLeaf[b]]
    /\ activeRelays' = [activeRelays EXCEPT ![h] = {}]
    /\ virtual' = [virtual EXCEPT ![Hub][h] = None]
    /\ relaying' = ExitRelay(Hub, h)
    /\ UNCHANGED <<leafUp, hubUp, open, faults, steady, rough>>

-----------------------------------------------------------------------------
(* Leaf l reads a frame: handleRelayFrame.                                   *)

LeafReads(l, type) == leafUp[l] /\ toLeaf[l] # <<>> /\ Head(toLeaf[l]).type = type

LeafRequest(l) ==
    LET frame == Head(toLeaf[l])
        h == frame.handle
    IN
    /\ LeafReads(l, "RELAY_REQUEST")
    /\ toLeaf' = Take(toLeaf, l)
    /\ \/ /\ virtual' = [virtual EXCEPT ![l][h] = frame.from]
          /\ UNCHANGED <<toHub, rough>>
       \/ /\ toHub' = LeafSends(toHub, l, RelayEnd(h))
          /\ rough' = TRUE
          /\ UNCHANGED virtual
    /\ UNCHANGED <<leafUp, hubUp, open, relaying, activeRelays, faults, steady>>

LeafInput(l) ==
    /\ LeafReads(l, "RELAY_INPUT")
    /\ toLeaf' = Take(toLeaf, l)
    /\ UNCHANGED <<leafUp, hubUp, toHub, relayVars>>

LeafEnd(l) ==
    LET h == Head(toLeaf[l]).handle IN
    /\ LeafReads(l, "RELAY_END")
    /\ toLeaf' = Take(toLeaf, l)
    /\ virtual' = [virtual EXCEPT ![l][h] = None]
    /\ relaying' = ExitRelay(l, h)
    /\ steady' = steady \ {<<l, h>>}
    /\ UNCHANGED <<leafUp, hubUp, toHub, open, activeRelays, faults, rough>>

-----------------------------------------------------------------------------
(* Links and processes                                                      *)

Fresh == [h \in Handle |-> None]

(* The first side to lose a link is a fault, the other follows.             *)
Lost(l) ==
    /\ IF leafUp[l] /\ hubUp[l] THEN faults < MaxFaults /\ faults' = faults + 1
       ELSE UNCHANGED faults
    /\ steady' = {r \in steady : r[1] # l}
    /\ rough' = (rough \/ virtual[l] # Fresh \/ toLeaf[l] # <<>>
                    \/ \E h \in Handle : \E r \in activeRelays[h] : r.target = l)

Connect(l) == LinkUp(l) /\ UNCHANGED relayVars

LeafDisconnects(l) ==
    /\ LeafLoses(l)
    /\ Lost(l)
    /\ UNCHANGED <<open, relaying, virtual, activeRelays>>

(* cleanupLeafState, of its relays: the other side is told.                  *)
OriginOnly(r, l) == l = r.origin  \* mutant
Involves(r, l) == l \in {r.origin, r.target}

(* onLeafClose, the heartbeat's timeout, disconnectLeaf.                     *)
HubDisconnects(l) ==
    LET gone == {h \in Handle : \E r \in activeRelays[h] : Involves(r, l)}
        endsFor(b) == {RelayEnd(h) : h \in {g \in gone : \E r \in activeRelays[g] : OtherSide(r, l) = b}}
    IN
    /\ hubUp[l]
    /\ hubUp' = [hubUp EXCEPT ![l] = FALSE]
    /\ toHub' = [toHub EXCEPT ![l] = <<>>]
    /\ toLeaf' = [b \in Leaf |-> IF b # l /\ hubUp[b] /\ leafUp[b]
                                 THEN toLeaf[b] \o SetToSeq(endsFor(b)) ELSE toLeaf[b]]
    /\ activeRelays' = [h \in Handle |-> IF h \in gone THEN {} ELSE activeRelays[h]]
    /\ Lost(l)
    /\ UNCHANGED <<leafUp, open, relaying, virtual>>

LeafRestarts(l) ==
    /\ faults < MaxFaults /\ faults' = faults + 1
    /\ leafUp' = [leafUp EXCEPT ![l] = FALSE]
    /\ toLeaf' = [toLeaf EXCEPT ![l] = <<>>]
    /\ open' = [open EXCEPT ![l] = {}]
    /\ relaying' = [relaying EXCEPT ![l] = Fresh]
    /\ virtual' = [virtual EXCEPT ![l] = Fresh]
    /\ steady' = {r \in steady : r[1] # l}
    /\ rough' = (rough \/ relaying[l] # Fresh \/ virtual[l] # Fresh \/ toLeaf[l] # <<>>)
    /\ UNCHANGED <<hubUp, toHub, activeRelays>>

HubRestarts ==
    /\ faults < MaxFaults /\ faults' = faults + 1
    /\ hubUp' = [l \in Leaf |-> FALSE]
    /\ toHub' = [l \in Leaf |-> <<>>]
    /\ open' = [open EXCEPT ![Hub] = {}]
    /\ relaying' = [relaying EXCEPT ![Hub] = Fresh]
    /\ virtual' = [virtual EXCEPT ![Hub] = Fresh]
    /\ activeRelays' = [h \in Handle |-> {}]
    /\ steady' = {}
    /\ rough' = TRUE
    /\ UNCHANGED <<leafUp, toLeaf>>

-----------------------------------------------------------------------------
Next ==
    \/ \E b \in Bot, h \in Handle :
        \/ OpenSession(b, h) \/ CloseSession(b, h) \/ Type(b, h) \/ EndRelay(b, h)
        \/ \E to \in Bot : Relay(b, h, to)
    \/ \E l \in Leaf :
        \/ HubRequest(l) \/ HubInput(l) \/ HubEnd(l)
        \/ LeafRequest(l) \/ LeafInput(l) \/ LeafEnd(l)
        \/ Connect(l) \/ LeafDisconnects(l) \/ HubDisconnects(l) \/ LeafRestarts(l)
    \/ HubRestarts

Spec == Init /\ [][Next]_vars

-----------------------------------------------------------------------------
TypeOK ==
    /\ open \in [Bot -> SUBSET Handle]
    /\ relaying \in [Bot -> [Handle -> Bot \cup {None}]]
    /\ virtual \in [Bot -> [Handle -> Bot \cup {None}]]
    /\ \A h \in Handle : Cardinality(activeRelays[h]) <= 1
    /\ \A b \in Bot, h \in Handle : relaying[b][h] # None => h \in open[b]
    /\ \A r \in steady : relaying[r[1]][r[2]] # None

(* The hub's routes lead only to leaves that are registered, whichever side   *)
(* of a relay leaves and in whatever order (routeRelayFrame,                *)
(* cleanupLeafState).                                                       *)
RoutesLive ==
    \A h \in Handle : \A r \in activeRelays[h] : {r.origin, r.target} \subseteq {l \in Leaf : hubUp[l]}

(* Nobody is left typing into nothing: when a user's session on a leaf is in  *)
(* relay mode and the leaf has kept its link meanwhile, its request is on its *)
(* way, the hub has its route, or the end of the relay is on its way back,    *)
(* whatever the target, its link or its permissions do (cleanupLeafState,     *)
(* routeRelayFrame, handleRelayFrame).                                       *)
NotStuck ==
    \A b \in Leaf, h \in Handle : <<b, h>> \in steady =>
        \/ RelayRequest(h, b, relaying[b][h]) \in Range(toHub[b])
        \/ [origin |-> b, target |-> relaying[b][h]] \in activeRelays[h]
        \/ RelayEnd(h) \in Range(toLeaf[b])

(* No virtual session is left behind: one on a leaf belongs to a user who is  *)
(* relayed there, or its end is on its way, whoever else relays, ends or      *)
(* loses the link of his bot.  It takes that no relay was refused, no session *)
(* closed in relay mode and no target cut off: of these the code tells the    *)
(* target nothing (routeRelayFrame, cleanupLeafState, wirePartyLine).        *)
Paired ==
    ~rough => \A l \in Leaf, h \in Handle : virtual[l][h] # None =>
        LET from == virtual[l][h] IN
        \/ relaying[from][h] = l
        \/ RelayEnd(h) \in Range(toLeaf[l])
        \/ from \in Leaf /\ RelayEnd(h) \in Range(toHub[from])
        \/ from \in Leaf /\ hubUp[from] /\ ~leafUp[from]

=============================================================================
