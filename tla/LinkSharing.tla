---------------------------- MODULE LinkSharing -----------------------------
(* What a hub shares with a leaf: the users of the bot (permissions.ts,
   botlink-sync.ts, .adduser .deluser .flags) and the bans of a channel
   (botlink-sharing.ts; .ban, .unban, !ban, !unban, !kickban at the hub), with the hub's own ban list behind it
   (ban-store.ts, bans.ts, sticky.ts) and the channel that list is about.

   Frames travel in order and are lost when the link goes down.  The mode commands
   of the hub wait in out; the server carries them out in order if the hub has ops
   then.  A user's record and its flags are one value; the leaf's channel has the
   setting shared.                                                             *)
EXTENDS Naturals, FiniteSets, Sequences, SequencesExt

CONSTANTS
  Handle,      \* handles of users
  Value,       \* what a user's record may say: masks, flags
  Mask, Valid, \* ban masks; those isValidMask accepts
  MaxFrames,   \* bound: frames under way when something else happens
  MaxChanges   \* bound: changes by users

ASSUME LinkSharingAssumption ==
  /\ Valid \subseteq Mask /\ {MaxFrames, MaxChanges} \subseteq Nat
  /\ IsFiniteSet(Handle) /\ IsFiniteSet(Mask)

VARIABLES
  up,        \* the leaf is registered at the hub and connected
  toLeaf, toHub,   \* frames under way
  hubUsers, leafUsers,   \* permissions of the two bots
  bans,      \* banStore of the hub: what it knows of each mask
  shared,    \* sharedBanList of the leaf
  ops,       \* the hub's bot has ops in the channel
  banned,    \* masks the channel bans
  out,       \* mode commands sent
  changes,
  strayUsers,\* history: handles changed where the other side could not hear of it
  strayBans, \* history: masks changed on the hub without a frame the leaf gets
  drift      \* history: masks whose ban the hub could not set or lift
sharingVars == <<up, toLeaf, toHub, hubUsers, leafUsers, bans, shared, ops, banned, out,
                 changes, strayUsers, strayBans, drift>>
users == <<hubUsers, leafUsers, strayUsers>>
chan == <<bans, ops, banned, out, drift>>

----------------------------------------------------------------------------
NoUser == "nobody"
NoBan == [expires |-> "no", sticky |-> FALSE]
Ban(expires, sticky) == [expires |-> expires, sticky |-> sticky]
Known(m) == bans[m] # NoBan

F(type, x, v) == [type |-> type, x |-> x, v |-> v]
UserFrame(f) == f.type \in {"ADDUSER", "SETFLAGS", "DELUSER"}

SharingInit ==
  /\ up = FALSE /\ toLeaf = <<>> /\ toHub = <<>>
  /\ hubUsers \in [Handle -> Value \cup {NoUser}]
  /\ leafUsers = [h \in Handle |-> NoUser]
  /\ strayUsers = Handle
  /\ bans = [m \in Mask |-> NoBan] /\ shared = {} /\ strayBans = {}
  /\ ops = TRUE /\ banned = {} /\ out = <<>> /\ drift = {}
  /\ changes = 0

\* A frame to the leaf, if it is there; else h, or m, is changed behind its back.
Broadcast(f) == toLeaf' = IF up THEN Append(toLeaf, f) ELSE toLeaf
Noted(stray, x) == IF up THEN stray \ {x} ELSE stray \cup {x}

----------------------------------------------------------------------------
(* Users *)

\* The operations of permissions.ts; those that find a user that they should not,
\* or none where they should, throw and change nothing.
HasUser(us, h) == us[h] # NoUser
AddUser(us, h, v) == IF HasUser(us, h) THEN us ELSE [us EXCEPT ![h] = v]
RemoveUser(us, h) == [us EXCEPT ![h] = NoUser]
SetFlags(us, h, v) == IF HasUser(us, h) THEN [us EXCEPT ![h] = v] ELSE us
SyncUser(us, h, v) == [us EXCEPT ![h] = v]

\* mutant: a user that is known is left as it is.
AppliedIfNew(us, f) ==
  IF f.type = "DELUSER" THEN RemoveUser(us, f.x) ELSE AddUser(us, f.x, f.v)
Applied(us, f) ==
  IF f.type = "DELUSER" THEN RemoveUser(us, f.x) ELSE SyncUser(us, f.x, f.v)

\* What .adduser, .deluser and .flags may do with us; an error changes nothing.
Legal(us, type, h) == (type = "ADDUSER") = ~HasUser(us, h)
Commands == {F(type, h, v) : type \in {"ADDUSER", "SETFLAGS"}, h \in Handle, v \in Value}
              \cup {F("DELUSER", h, NoUser) : h \in Handle}
Executed(us, c) ==
  CASE c.type = "ADDUSER" -> AddUser(us, c.x, c.v)
    [] c.type = "DELUSER" -> RemoveUser(us, c.x)
    [] c.type = "SETFLAGS" -> SetFlags(us, c.x, c.v)

HubExecutes(c) ==
  IF Legal(hubUsers, c.type, c.x)
  THEN /\ hubUsers' = Executed(hubUsers, c)
       /\ Broadcast(c)
       /\ strayUsers' = Noted(strayUsers, c.x)
       /\ UNCHANGED leafUsers
  ELSE UNCHANGED <<toLeaf, users>>

Change == changes < MaxChanges /\ changes' = changes + 1
Room == Len(toLeaf) <= MaxFrames /\ Len(toHub) <= MaxFrames /\ Len(out) <= MaxFrames

HubCommand ==
  /\ Change /\ Room
  /\ \E c \in Commands : Legal(hubUsers, c.type, c.x) /\ HubExecutes(c)
  /\ UNCHANGED <<up, toHub, shared, strayBans, chan>>

\* At the leaf a known user's command goes to the hub while the link is up; else,
\* and always from the REPL, the leaf executes it.
LeafCommand ==
  /\ Change /\ Room
  /\ \E c \in Commands, relayed \in BOOLEAN :
       IF relayed
       THEN up /\ toHub' = Append(toHub, c) /\ UNCHANGED users
       ELSE /\ Legal(leafUsers, c.type, c.x)
            /\ leafUsers' = Executed(leafUsers, c)
            /\ strayUsers' = strayUsers \cup {c.x}
            /\ UNCHANGED <<toHub, hubUsers>>
  /\ UNCHANGED <<up, toLeaf, shared, strayBans, chan>>

\* Refused when the user has no session at the leaf, or no flags at the hub.
HubReceives ==
  /\ toHub # <<>> /\ toHub' = Tail(toHub)
  /\ HubExecutes(Head(toHub)) \/ UNCHANGED <<toLeaf, users>>
  /\ UNCHANGED <<up, shared, strayBans, chan, changes>>

----------------------------------------------------------------------------
(* The link *)

UserFrames == SetToSeq({F("ADDUSER", h, hubUsers[h]) : h \in {x \in Handle : hubUsers[x] # NoUser}})

\* WELCOME and the state sent with it.  No ban is: the hub's own list of shared bans
\* is filled by frames of leaves only, and no leaf sends any.
LinkUp ==
  /\ ~up /\ up' = TRUE
  /\ toLeaf' = UserFrames
  /\ strayUsers' = {h \in strayUsers : hubUsers[h] = NoUser}
  /\ UNCHANGED <<toHub, hubUsers, leafUsers, shared, strayBans, chan, changes>>

\* The frames under way are lost; lost is what else the leaf's list of bans loses.
Cut(lost) ==
  LET Lost(ofUser) == {f.x : f \in {g \in Range(toLeaf) : UserFrame(g) = ofUser}}
  IN  /\ up' = FALSE /\ toLeaf' = <<>> /\ toHub' = <<>>
      /\ shared' = shared \ lost
      /\ strayUsers' = strayUsers \cup Lost(TRUE)
      /\ strayBans' = strayBans \cup Lost(FALSE) \cup lost
      /\ UNCHANGED <<hubUsers, leafUsers, changes>>
LinkDown == up /\ Cut({}) /\ UNCHANGED chan

\* The leaf's process restarts: the shared bans are in memory only.
LeafRestart == Cut(shared) /\ UNCHANGED chan

\* The hub's does: its users and its ban list are in the database, the commands it
\* has not sent and its ops are gone.
HubCrash ==
  /\ Cut({})
  /\ out' = <<>> /\ ops' = FALSE /\ drift' = drift \cup {c.mask : c \in Range(out)}
  /\ UNCHANGED <<bans, banned>>

\* isValidMask: a leaf takes no ban without a ! and an @, or of everybody.
SharedAfter(s, f) ==
  IF f.type = "CHAN_BAN_ADD" THEN s \cup ({f.x} \cap Valid) ELSE s \ {f.x}

LeafReceives ==
  /\ toLeaf # <<>> /\ toLeaf' = Tail(toLeaf)
  /\ LET f == Head(toLeaf)
     IN  IF UserFrame(f) THEN leafUsers' = Applied(leafUsers, f) /\ UNCHANGED shared
                         ELSE shared' = SharedAfter(shared, f) /\ UNCHANGED leafUsers
  /\ UNCHANGED <<up, toHub, hubUsers, strayUsers, strayBans, chan, changes>>

----------------------------------------------------------------------------
(* Bans of the channel *)

Mode(sign, m) == [sign |-> sign, mask |-> m, had |-> ops]
Send(sign, m) == out' = Append(out, Mode(sign, m))
\* A command sent without ops is refused, whatever the list says.
Unable(m) == drift' = IF ops THEN drift \ {m} ELSE drift \cup {m}

\* .ban and .unban do not look whether the bot has ops.
HubBans(m, expires) ==
  /\ bans' = [bans EXCEPT ![m] = Ban(expires, @.sticky)]
  /\ Send("+", m) /\ Unable(m)
  /\ Broadcast(F("CHAN_BAN_ADD", m, "-")) /\ strayBans' = Noted(strayBans, m)
  /\ UNCHANGED <<ops, banned>>
HubUnbans(m) ==
  /\ bans' = [bans EXCEPT ![m] = NoBan]
  /\ Send("-", m) /\ Unable(m)
  /\ Broadcast(F("CHAN_BAN_DEL", m, "-")) /\ strayBans' = Noted(strayBans, m)
  /\ UNCHANGED <<ops, banned>>
\* !ban, !kickban and !unban (chanmod) do look, and tell no leaf.
PluginBans(m, expires) ==
  /\ ops /\ bans' = [bans EXCEPT ![m] = Ban(expires, @.sticky)]
  /\ Send("+", m) /\ Unable(m)
  /\ strayBans' = strayBans \cup {m}
  /\ UNCHANGED <<toLeaf, ops, banned>>
PluginUnbans(m) ==
  /\ ops /\ bans' = [bans EXCEPT ![m] = NoBan]
  /\ Send("-", m) /\ Unable(m)
  /\ strayBans' = strayBans \cup {m}
  /\ UNCHANGED <<toLeaf, ops, banned>>
HubSticks(m, sticky) ==
  /\ Known(m) /\ bans' = [bans EXCEPT ![m].sticky = sticky]
  /\ UNCHANGED <<toLeaf, strayBans, ops, banned, out, drift>>

BanCommand ==
  /\ Change /\ Room
  /\ \E m \in Mask :
       \/ \E expires \in {"never", "later"} : HubBans(m, expires)
       \/ \E expires \in {"never", "later"} : PluginBans(m, expires)
       \/ HubUnbans(m) \/ PluginUnbans(m)
       \/ \E sticky \in BOOLEAN : HubSticks(m, sticky)
  /\ UNCHANGED <<up, toHub, users, shared>>

\* Time: a ban runs out; the minute's timer lifts what has.
BanEnds ==
  /\ \E m \in Mask : bans[m].expires = "later" /\ bans' = [bans EXCEPT ![m].expires = "past"]
  /\ UNCHANGED <<up, toLeaf, toHub, users, shared, strayBans, ops, banned, out, drift, changes>>
Due == {m \in Mask : bans[m].expires = "past"}
LiftExpiredBans ==
  /\ Room /\ ops /\ Due # {}
  /\ bans' = [m \in Mask |-> IF m \in Due THEN NoBan ELSE bans[m]]
  /\ out' = out \o SetToSeq({Mode("-", m) : m \in Due})
  /\ strayBans' = strayBans \cup Due
  /\ drift' = drift \ Due
  /\ UNCHANGED <<up, toLeaf, toHub, users, shared, ops, banned, changes>>

\* The server: the oldest command is carried out, or refused.
CarriedOut ==
  /\ out # <<>>
  /\ LET c == Head(out)
     IN  IF ops THEN /\ banned' = IF c.sign = "+" THEN banned \cup {c.mask} ELSE banned \ {c.mask}
                     /\ UNCHANGED drift
                ELSE /\ drift' = IF c.had THEN drift \cup {c.mask} ELSE drift
                     /\ UNCHANGED banned
  /\ out' = Tail(out)
  /\ UNCHANGED <<up, toLeaf, toHub, users, bans, shared, strayBans, ops, changes>>

\* Another op lifts a ban: a sticky one is set again; or sets one the hub has not.
Sticky(m) == bans[m].sticky
SetAgain(m) == IF Sticky(m) /\ ops THEN Send("+", m) /\ UNCHANGED drift
               ELSE drift' = drift \cup {m} /\ UNCHANGED out
OthersUnban ==
  /\ Change /\ Room
  /\ \E m \in banned : banned' = banned \ {m} /\ SetAgain(m)
  /\ UNCHANGED <<up, toLeaf, toHub, users, bans, shared, strayBans, ops>>
OthersBan ==
  /\ Change
  /\ \E m \in Mask \ banned : banned' = banned \cup {m} /\ drift' = drift \cup {m}
  /\ UNCHANGED <<up, toLeaf, toHub, users, bans, shared, strayBans, ops, out>>
OpsChange ==
  /\ ops' = ~ops
  /\ UNCHANGED <<up, toLeaf, toHub, users, bans, shared, strayBans, banned, out, drift, changes>>

----------------------------------------------------------------------------
SharingTypeOK ==
  /\ hubUsers \in [Handle -> Value \cup {NoUser}] /\ leafUsers \in [Handle -> Value \cup {NoUser}]
  /\ shared \subseteq Valid /\ banned \subseteq Mask /\ strayUsers \subseteq Handle
  /\ \A m \in Mask : bans[m].expires = "no" => bans[m] = NoBan

\* What is under way is read in order, so of all there is about one user or mask, the
\* last alone decides.  Newest: the last item of q in T, as a set; Silent: none is.
Silent(q, T) == \A i \in DOMAIN q : q[i] \notin T
Newest(q, T) ==
  {q[i] : i \in {k \in DOMAIN q : q[k] \in T /\ \A j \in DOMAIN q : j > k => q[j] \notin T}}

FramesOf(h) == [type : {"ADDUSER", "SETFLAGS", "DELUSER"}, x : {h}, v : Value \cup {NoUser}]
BanFrames(m) == [type : {"CHAN_BAN_ADD", "CHAN_BAN_DEL"}, x : {m}, v : {"-"}]
ModesOf(m) == [sign : {"+", "-"}, mask : {m}, had : BOOLEAN]

\* Once the leaf has read what is under way, it knows each user as the hub does,
\* but for those changed on one side while the other could not hear of it.
UsersFollow ==
  \A h \in Handle \ strayUsers :
    /\ Silent(toLeaf, FramesOf(h)) => leafUsers[h] = hubUsers[h]
    /\ \A f \in Newest(toLeaf, FramesOf(h)) : f.v = hubUsers[h]

\* The same of the bans the leaf lists as shared and the hub's own list, as far as
\* a leaf takes them.
BansFollow ==
  \A m \in Mask \ strayBans :
    /\ Silent(toLeaf, BanFrames(m)) => (m \in shared <=> Known(m) /\ m \in Valid)
    /\ \A f \in Newest(toLeaf, BanFrames(m)) : m \in Valid => (f.type = "CHAN_BAN_ADD" <=> Known(m))

\* Once the server has carried out what the bot sent, the channel bans the masks of
\* the list and no other, but for those that others changed, unless they are sticky,
\* or that a command was, or is to be, refused for.
BansEnforced ==
  \A m \in Mask \ drift :
    /\ Silent(out, ModesOf(m)) => (m \in banned <=> Known(m))
    /\ \A c \in Newest(out, ModesOf(m)) : c.had /\ (c.sign = "+" <=> Known(m))

SharingHolds == SharingTypeOK /\ UsersFollow /\ BansFollow /\ BansEnforced
==============================================================================
