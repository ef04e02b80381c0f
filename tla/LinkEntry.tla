----------------------------- MODULE LinkEntry ------------------------------
(* A leaf at the hub's door and what it is then told: the connections that
   LinkAuth admits carry the link that LinkSharing speaks over (handleHello, the
   heartbeat, disconnectLeaf and onLeafClose in botlink-hub.ts, BotLinkLeaf.onFrame
   and onSyncRequest in bot.ts).

   The registry is by the leaf's name and has a life of its own: the entry may be
   gone while the connection is not, and the close event of a connection removes
   the entry of whichever connection has the name then.

   A behaviour looks at one of three things, so that TLC need not walk their
   product: who comes in ("door"), what becomes of the users, what of the bans.
   The link goes up and down in all of them.                                   *)
EXTENDS LinkAuth, LinkSharing

CONSTANT Home   \* the leaf's address when the door is not what is looked at
ASSUME LinkEntryAssumption == Home \in Ip

VARIABLES
  entry,     \* the connection that the hub's leaves names, as a set of one or none
  focus
entryVars == <<authVars, sharingVars, entry, focus>>

Init ==
  /\ focus \in {"door", "users", "bans"}
  /\ AuthInit /\ SharingInit /\ entry = {}
  /\ focus # "users" => hubUsers = [h \in Handle |-> NoUser]
  /\ focus # "door" => ~dual

AtDoor == focus = "door" /\ UNCHANGED <<sharingVars, entry, focus>>
Inside(f) == focus = f /\ UNCHANGED <<authVars, entry, focus>>

Linked == entry # {}

\* A connection comes; away from the door one at a time, and from the leaf.
Arrives(c, ip) ==
  /\ focus = "door" \/ (ip = Home /\ \A d \in Conn : conns[d].st = "free")
  /\ Admit(c, ip)
  /\ UNCHANGED <<sharingVars, entry, focus>>

\* A leaf whose name is linked already is refused (DUPLICATE).
Enters(c) == ~Linked /\ Accepted(c) /\ LinkUp /\ entry' = {c} /\ UNCHANGED focus

\* leaves.delete(botname): whichever connection has the name is sent nothing more.
Unregisters == entry' = {} /\ IF Linked THEN LinkDown ELSE UNCHANGED sharingVars

\* The close event, which may come long after the entry was removed, or replaced.
Leaves(c) ==
  /\ CloseEvent(c)
  /\ IF conns[c].st = "in" THEN Unregisters ELSE UNCHANGED <<sharingVars, entry>>
  /\ UNCHANGED focus

\* The heartbeat gives the leaf up; the connection's close event is still to come.
HubHeartbeat == Linked /\ Unregisters /\ UNCHANGED <<authVars, focus>>

\* A command; to what is shared no other than the heartbeat.
DisconnectLeaf ==
  /\ focus = "door"
  /\ \E c \in Conn : entry = {c} /\ LetGo(c)
  /\ Unregisters /\ UNCHANGED focus

LeafComesBack ==
  /\ focus # "door" /\ LeafRestart /\ entry' = {}
  /\ IF Linked THEN \E c \in Conn : entry = {c} /\ CloseEvent(c) ELSE UNCHANGED authVars
  /\ UNCHANGED focus

HubComesBack == HubRestart /\ HubCrash /\ entry' = {} /\ UNCHANGED focus

Next ==
  \/ \E c \in Conn, ip \in Ip : Arrives(c, ip)
  \/ \E c \in Conn : Enters(c) \/ Leaves(c)
  \/ \E c \in Conn : AtDoor /\ (Shut(c) \/ BadPassword(c) \/ Refused(c))
  \/ AtDoor /\ \E d \in {0, 1} : (\E ip \in Ip : ManualBan(ip, d)) \/ (\E r \in Cidr : ManualRangeBan(r, d))
  \/ AtDoor /\ \E x \in Ip \cup Cidr, seen \in BOOLEAN : Unban(x, seen)
  \/ AtDoor /\ Tick
  \/ HubHeartbeat \/ DisconnectLeaf
  \/ LeafComesBack
  \/ HubComesBack
  \/ Inside("users") /\ (HubCommand \/ LeafCommand \/ HubReceives)
  \/ Inside("bans") /\ (BanCommand \/ BanEnds \/ LiftExpiredBans \/ CarriedOut
                          \/ OthersUnban \/ OthersBan \/ OpsChange)
  \/ focus # "door" /\ Inside(focus) /\ LeafReceives

Spec == Init /\ [][Next]_entryVars
==============================================================================
