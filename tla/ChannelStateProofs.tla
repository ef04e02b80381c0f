------------------------- MODULE ChannelStateProofs -------------------------
(* Proofs about ChannelState: for any users, channels, nicks, hosts, accounts and
   keys, and any number of messages on their way, what the bot has is what the
   server last told it, but for what history marks as old; and a channel's picture
   follows the channel (Replica).

   The inductive invariant speaks of views: what the bot may know, as of the last
   message it read (seen), as of each message on its way, and as of now (Truth).
   Linked says that each message is a true account of how the view before it
   becomes the view after it (Tells); then the handlers are judged one by one, with
   nothing of the server left but the two views of their message.               *)
EXTENDS ChannelState, FunctionTheorems, SequenceTheorems, TLAPS

Standing == Accounts \cup {NoAccount}
Views == [chans : [Channels -> Pictures \cup {Nothing}],
          accts : [Nicks -> Standing \cup {"unseen"}]]

There(v, c) == v.chans[c] # Nothing
In(v, c, n) == v.chans[c].users[n]

\* Who is seen in a channel has an account, or is known to have none.
Coherent(v) ==
  \A c \in Channels, n \in Nicks :
    There(v, c) /\ In(v, c, n) # Absent => v.accts[n] # "unseen"

View(v) == v \in Views /\ Coherent(v)

----------------------------------------------------------------------------
(* What a message says of the views before and after it. *)

MyNick == Home[Me]

\* Nobody's account is another, though some may be in or out of sight now.
AccountsKeep(s, t) ==
  \A x \in Nicks :
    s.accts[x] # "unseen" /\ t.accts[x] # "unseen" => s.accts[x] = t.accts[x]
OtherChannels(s, t, c) == \A d \in Channels \ {c} : t.chans[d] = s.chans[d]
\* The channel's modes, and its users but n, are the same.
RestOf(s, t, c, n) ==
  /\ There(s, c) /\ There(t, c)
  /\ t.chans[c].modes = s.chans[c].modes
  /\ \A x \in Nicks \ {n} : In(t, c, x) = In(s, c, x)

TellsJoin(m, s, t) ==
  /\ m.chan \in Channels /\ m.nick \in Nicks /\ m.host \in Hosts /\ m.account \in Standing
  /\ t.accts[m.nick] = m.account /\ AccountsKeep(s, t)
  /\ OtherChannels(s, t, m.chan) /\ There(t, m.chan)
  /\ In(t, m.chan, m.nick) = [host |-> m.host, modes |-> {}]
  /\ IF m.nick = MyNick THEN ~There(s, m.chan) ELSE RestOf(s, t, m.chan, m.nick)

TellsPart(m, s, t) ==
  /\ m.chan \in Channels /\ m.nick \in Nicks
  /\ \A x \in Nicks : t.accts[x] \in {"unseen", s.accts[x]}
  /\ OtherChannels(s, t, m.chan)
  /\ IF m.nick = MyNick THEN ~There(t, m.chan)
     ELSE RestOf(s, t, m.chan, m.nick) /\ In(t, m.chan, m.nick) = Absent

TellsQuit(m, s, t) ==
  /\ m.nick \in Nicks \ {MyNick}
  /\ t.accts[m.nick] = "unseen"
  /\ \A x \in Nicks : t.accts[x] \in {"unseen", s.accts[x]}
  /\ \A c \in Channels :
       IF There(s, c) THEN RestOf(s, t, c, m.nick) /\ In(t, c, m.nick) = Absent
       ELSE ~There(t, c)

TellsNick(m, s, t) ==
  /\ m.nick \in Nicks \ {MyNick} /\ m.new \in Nicks \ {MyNick, m.nick}
  /\ s.accts[m.new] = "unseen" /\ t.accts[m.nick] = "unseen"
  /\ t.accts[m.new] = s.accts[m.nick]
  /\ \A x \in Nicks \ {m.nick, m.new} : t.accts[x] = s.accts[x]
  /\ \A c \in Channels :
       IF There(s, c)
       THEN /\ There(t, c) /\ t.chans[c].modes = s.chans[c].modes
            /\ In(t, c, m.new) = In(s, c, m.nick) /\ In(t, c, m.nick) = Absent
            /\ \A x \in Nicks \ {m.nick, m.new} : In(t, c, x) = In(s, c, x)
       ELSE ~There(t, c)

ModesSet(old, m) ==
  IF m.mode = "k" THEN [flags |-> old.flags, key |-> IF m.adds THEN m.param ELSE ""]
  ELSE [flags |-> IF m.adds THEN old.flags \cup {m.mode} ELSE old.flags \ {m.mode},
        key |-> old.key]

TellsMode(m, s, t) ==
  /\ m.chan \in Channels /\ m.mode \in Prefix \cup Flags \cup {"k"} /\ m.adds \in BOOLEAN
  /\ t.accts = s.accts /\ OtherChannels(s, t, m.chan)
  /\ There(s, m.chan) /\ There(t, m.chan)
  /\ LET c == m.chan IN
     \/ /\ m.mode \in Prefix /\ m.param \in Nicks
        /\ RestOf(s, t, c, m.param) /\ In(s, c, m.param) # Absent
        /\ In(t, c, m.param) =
             [host |-> In(s, c, m.param).host,
              modes |-> IF m.adds THEN In(s, c, m.param).modes \cup {m.mode}
                        ELSE In(s, c, m.param).modes \ {m.mode}]
     \/ /\ m.mode \in Flags \cup {"k"}
        /\ \A x \in Nicks : In(t, c, x) = In(s, c, x)
        /\ t.chans[c].modes = ModesSet(s.chans[c].modes, m)

\* The list of NAMES or WHO is the users of the channel.
Lists(m, s) ==
  /\ \A x \in Range(m.list) :
       /\ x.nick \in Nicks /\ x.host \in Hosts /\ x.modes \in SUBSET Prefix
       /\ In(s, m.chan, x.nick) = [host |-> x.host, modes |-> x.modes]
  /\ \A n \in Nicks :
       In(s, m.chan, n) # Absent => \E x \in Range(m.list) : x.nick = n
TellsList(m, s, t) == m.chan \in Channels /\ t = s /\ There(s, m.chan) /\ Lists(m, s)

TellsModes(m, s, t) ==
  m.chan \in Channels /\ t = s /\ There(s, m.chan) /\ m.modes = s.chans[m.chan].modes

TellsAccount(m, s, t) ==
  /\ m.nick \in Nicks /\ m.account \in Standing /\ t.chans = s.chans
  /\ s.accts[m.nick] # "unseen" /\ t.accts[m.nick] = m.account
  /\ \A x \in Nicks \ {m.nick} : t.accts[x] = s.accts[x]
  /\ m.kind = "PRIVMSG" => t = s

TellsHost(m, s, t) ==
  /\ m.nick \in Nicks /\ m.host \in Hosts /\ t.accts = s.accts
  /\ \A c \in Channels :
       IF There(s, c)
       THEN /\ RestOf(s, t, c, m.nick)
            /\ In(t, c, m.nick) = IF In(s, c, m.nick) = Absent THEN Absent
                                  ELSE [host |-> m.host, modes |-> In(s, c, m.nick).modes]
       ELSE ~There(t, c)

Tells(m, s, t) ==
  \/ m.kind = "JOIN" /\ TellsJoin(m, s, t)
  \/ m.kind \in {"PART", "KICK"} /\ TellsPart(m, s, t)
  \/ m.kind = "QUIT" /\ TellsQuit(m, s, t)
  \/ m.kind = "NICK" /\ TellsNick(m, s, t)
  \/ m.kind = "MODE" /\ TellsMode(m, s, t)
  \/ m.kind \in {"NAMES", "WHO"} /\ TellsList(m, s, t)
  \/ m.kind = "MODEIS" /\ TellsModes(m, s, t)
  \/ m.kind \in {"ACCOUNT", "PRIVMSG"} /\ TellsAccount(m, s, t)
  \/ m.kind = "CHGHOST" /\ TellsHost(m, s, t)

----------------------------------------------------------------------------
(* The inductive invariant. *)

\* The view the i-th message of w follows on, the first one on v.
Before(w, v, i) == IF i = 1 THEN v ELSE w[i - 1].after
After(w, v) == Before(w, v, Len(w) + 1)

\* w leads from the view v to the view now, message by message.
Linked(w, v, now) ==
  /\ w \in Seq(Range(w)) /\ View(v) /\ After(w, v) = now
  /\ \A i \in 1 .. Len(w) :
       View(w[i].after) /\ Tells(w[i].m, Before(w, v, i), w[i].after)

OwnJoin(m) == m.kind = "JOIN" /\ m.nick = MyNick
NamesOf(m, c) == m.kind = "NAMES" /\ m.chan = c

Plain(m) == ~OwnJoin(m) /\ m.kind # "NAMES"

\* NAMES comes right after the bot's own JOIN, and at no other time.
Announced(w) ==
  \A i \in 1 .. Len(w) :
    /\ OwnJoin(w[i].m) => i < Len(w) /\ NamesOf(w[i + 1].m, w[i].m.chan)
    /\ w[i].m.kind = "NAMES" /\ i > 1 =>
         OwnJoin(w[i - 1].m) /\ NamesOf(w[i].m, w[i - 1].m.chan)
AwaitsNames ==
  /\ \A c \in Channels :
       IF c \in synced THEN There(seen, c)
       ELSE There(seen, c) => wire # <<>> /\ NamesOf(Head(wire).m, c)
  /\ wire # <<>> /\ Head(wire).m.kind = "NAMES" => Head(wire).m.chan \notin synced

ServerTypes ==
  /\ nick \in [People -> Nicks] /\ IsInjective(nick) /\ nick[Me] = MyNick
  /\ host \in [People -> Hosts] /\ acct \in [People -> Standing]
  /\ chan \in [Channels -> ChanModes]
  /\ DOMAIN on = Channels
  /\ \A c \in Channels : Members(c) \subseteq People /\ on[c] \in [Members(c) -> SUBSET Prefix]

UserInfo == [host : Hosts, modes : SUBSET Prefix, account : Standing \cup {Unknown}]
UsersType(us) == DOMAIN us \subseteq Nicks /\ us \in [DOMAIN us -> UserInfo]
ChannelInfo(ch) ==
  ch = [users |-> ch.users, modes |-> ch.modes] /\ ch.modes \in ChanModes /\ UsersType(ch.users)

BotTypes ==
  /\ channels = [c \in Channels |-> channels[c]]
  /\ \A c \in Channels : ChannelInfo(channels[c])
  /\ DOMAIN accounts \subseteq Nicks /\ accounts \in [DOMAIN accounts -> Standing]
  /\ left \in [Channels -> SUBSET Nicks] /\ stale \in [Channels -> SUBSET Nicks]
  /\ synced \subseteq Channels /\ known \subseteq Channels /\ orphan \subseteq DOMAIN accounts

\* What the bot has of accounts and channels, against the view v.
AccountsAsOf(v) == \A n \in DOMAIN accounts \ orphan : accounts[n] = v.accts[n]

\* us has of the nick x what p and a say of his record and account, but for lf, whose
\* records are old, and st, whose accounts are.
Right(us, lf, st, x, p, a) ==
  /\ x \in DOMAIN us \ lf => p = [host |-> us[x].host, modes |-> us[x].modes]
  /\ x \in DOMAIN us \ (lf \cup st) => us[x].account \in {Unknown, a}
  /\ x \notin lf \cup DOMAIN us => p = Absent

\* Before NAMES came somebody may be missing.
Waiting(us, lf, st, x, p, a) ==
  /\ x \in DOMAIN us \ lf => p = [host |-> us[x].host, modes |-> us[x].modes]
  /\ x \in DOMAIN us \ st => us[x].account \in {Unknown, a}

RecordsAsOf(v) ==
  \A c \in Channels : There(v, c) =>
    /\ \A x \in Nicks :
         IF c \in synced
         THEN Right(channels[c].users, left[c], stale[c], x, In(v, c, x), v.accts[x])
         ELSE Waiting(channels[c].users, left[c], stale[c], x, In(v, c, x), v.accts[x])
    /\ c \in known => channels[c].modes = v.chans[c].modes

BotAsOf(v) == BotTypes /\ AccountsAsOf(v) /\ RecordsAsOf(v)

IInv ==
  /\ ServerTypes /\ Linked(wire, seen, Truth) /\ Announced(wire) /\ AwaitsNames
  /\ BotAsOf(seen)

----------------------------------------------------------------------------
(* Truth, as a view of the server. *)

Meets(mem, u) == \E c \in Channels : u \in DOMAIN mem[c] /\ Me \in DOMAIN mem[c]

\* The view v shows the server p.
Server == [nick |-> nick, host |-> host, acct |-> acct, on |-> on, chan |-> chan]

ShowsChannel(p, v, c) ==
  /\ There(v, c) /\ v.chans[c].modes = p.chan[c]
  /\ \A u \in DOMAIN p.on[c] : In(v, c, p.nick[u]) = [host |-> p.host[u], modes |-> p.on[c][u]]
  /\ \A n \in Nicks : (\A u \in DOMAIN p.on[c] : p.nick[u] # n) => In(v, c, n) = Absent

ShowsAccounts(p, v) ==
  /\ \A u \in People : v.accts[p.nick[u]] = IF Meets(p.on, u) THEN p.acct[u] ELSE "unseen"
  /\ \A n \in Nicks : (\A u \in People : p.nick[u] # n) => v.accts[n] = "unseen"

Shows(p, v) ==
  /\ v \in Views
  /\ \A c \in Channels :
       IF Me \in DOMAIN p.on[c] THEN ShowsChannel(p, v, c) ELSE ~There(v, c)
  /\ ShowsAccounts(p, v)

\* Nobody else has u's nick.
LEMMA NickIsOne ==
  ASSUME ServerTypes, NEW u \in People, NEW w \in People, nick[u] = nick[w]
  PROVE  u = w
  BY DEF ServerTypes, IsInjective

LEMMA PictureShows ==
  ASSUME ServerTypes, NEW c \in Channels, Me \in Members(c)
  PROVE  /\ Picture(c) \in Pictures /\ Picture(c) # Nothing
         /\ Picture(c).modes = chan[c]
         /\ \A u \in Members(c) :
              Picture(c).users[nick[u]] = [host |-> host[u], modes |-> on[c][u]]
         /\ \A n \in Nicks :
              (\A u \in Members(c) : nick[u] # n) => Picture(c).users[n] = Absent
<1> DEFINE at(n) == IF \E u \in Members(c) : nick[u] = n
                    THEN Record(CHOOSE u \in Members(c) : nick[u] = n, c) ELSE Absent
           us == [n \in Nicks |-> at(n)]
<1>1. Picture(c) = [users |-> us, modes |-> chan[c]]
  BY DEF Picture
<1>2. Members(c) \subseteq People /\ on[c] \in [Members(c) -> SUBSET Prefix]
  BY DEF ServerTypes
<1>3. ASSUME NEW u \in Members(c)
      PROVE  at(nick[u]) = [host |-> host[u], modes |-> on[c][u]] /\ at(nick[u]) \in Records
  <2>1. PICK w \in Members(c) : nick[w] = nick[u] /\ w = CHOOSE x \in Members(c) : nick[x] = nick[u]
    OBVIOUS
  <2>2. w = u
    BY <1>2, <2>1, NickIsOne
  <2>3. at(nick[u]) = Record(u, c)
    BY <2>1, <2>2
  <2> QED
    BY <1>2, <2>3 DEF Record, Records, ServerTypes
<1>4. \A n \in Nicks : at(n) \in Records \cup {Absent}
  <2> TAKE n \in Nicks
  <2>1. CASE \E u \in Members(c) : nick[u] = n
    <3>1. PICK u \in Members(c) : nick[u] = n
      BY <2>1
    <3>2. at(nick[u]) \in Records
      BY <1>3
    <3> QED
      BY <3>1, <3>2
  <2>2. CASE ~ \E u \in Members(c) : nick[u] = n
    BY <2>2
  <2> QED
    BY <2>1, <2>2
<1>5. us \in [Nicks -> Records \cup {Absent}]
  BY <1>4
<1>6. \A u \in Members(c) : us[nick[u]] = at(nick[u])
  BY <1>2 DEF ServerTypes
<1>7. \A n \in Nicks : (\A u \in Members(c) : nick[u] # n) => us[n] = Absent
  OBVIOUS
<1> HIDE DEF us, at
<1>8. Picture(c) \in Pictures
  BY <1>1, <1>5 DEF Pictures, ServerTypes
<1> QED
  BY <1>1, <1>3, <1>6, <1>7, <1>8, ChannelStateAssumption

LEMMA IdentityShows ==
  ASSUME ServerTypes
  PROVE  /\ \A u \in People : Identity(nick[u]) = IF Sees(u) THEN acct[u] ELSE "unseen"
         /\ \A n \in Nicks : (\A u \in People : nick[u] # n) => Identity(n) = "unseen"
         /\ \A n \in Nicks : Identity(n) \in Standing \cup {"unseen"}
<1>1. ASSUME NEW u \in People
      PROVE  Identity(nick[u]) = IF Sees(u) THEN acct[u] ELSE "unseen"
  <2>1. \A w \in People : nick[w] = nick[u] => w = u
    BY NickIsOne
  <2>2. (CHOOSE w \in People : nick[w] = nick[u]) = u
    BY <2>1
  <2> QED
    BY <2>1, <2>2 DEF Identity
<1>2. \A n \in Nicks : (\A u \in People : nick[u] # n) => Identity(n) = "unseen"
  BY DEF Identity
<1> QED
  BY <1>1, <1>2 DEF ServerTypes

LEMMA TruthShows == ServerTypes => Shows(Server, Truth)
<1> SUFFICES ASSUME ServerTypes PROVE Shows(Server, Truth)
  OBVIOUS
<1> DEFINE v == Truth
<1>1. v.chans = [c \in Channels |-> Picture(c)] /\ v.accts = [n \in Nicks |-> Identity(n)]
  BY DEF Truth
<1>2. v = [chans |-> v.chans, accts |-> v.accts]
  BY DEF Truth
<1>3. \A c \in Channels : v.chans[c] = Picture(c)
  BY <1>1
<1>4. \A n \in Nicks : v.accts[n] = Identity(n)
  BY <1>1
<1> HIDE DEF v
<1>5. \A c \in Channels : Picture(c) \in Pictures \cup {Nothing}
  BY PictureShows DEF Picture
<1>6. v \in Views
  BY <1>1, <1>2, <1>5, IdentityShows DEF Views
<1>7. ASSUME NEW c \in Channels
      PROVE  IF Me \in DOMAIN Server.on[c] THEN ShowsChannel(Server, v, c)
             ELSE ~There(v, c)
  <2>1. CASE Me \in DOMAIN on[c]
    BY <2>1, <1>3, PictureShows DEF Members, ShowsChannel, There, In, Server
  <2>2. CASE Me \notin DOMAIN on[c]
    BY <2>2, <1>3 DEF Picture, Members, There, Server
  <2> QED
    BY <2>1, <2>2 DEF Server
<1>8. \A u \in People : Meets(on, u) <=> Sees(u)
  BY DEF Meets, Sees, Members
<1>9. \A u \in People : nick[u] \in Nicks
  BY DEF ServerTypes
<1>10. ShowsAccounts(Server, v)
  BY <1>4, <1>8, <1>9, IdentityShows DEF ShowsAccounts, Server
<1> QED
  BY <1>6, <1>7, <1>10 DEF Shows, v

\* What shows the server is a view.
LEMMA ShownIsView ==
  ASSUME NEW p, p.acct \in [People -> Standing], NEW v, Shows(p, v),
         \A c \in Channels : DOMAIN p.on[c] \subseteq People
  PROVE  View(v)
<1>1. ASSUME NEW c \in Channels, NEW n \in Nicks, There(v, c), In(v, c, n) # Absent
      PROVE  v.accts[n] # "unseen"
  <2>1. Me \in DOMAIN p.on[c] /\ ShowsChannel(p, v, c)
    BY <1>1 DEF Shows
  <2>2. PICK u \in DOMAIN p.on[c] : p.nick[u] = n
    BY <1>1, <2>1 DEF ShowsChannel
  <2>3. v.accts[n] = p.acct[u]
    BY <2>1, <2>2 DEF Shows, ShowsAccounts, Meets
  <2> QED
    BY <2>2, <2>3, ChannelStateAssumption DEF Standing, NoAccount
<1> QED
  BY <1>1 DEF View, Coherent, Shows

LEMMA TruthIsView == ServerTypes => View(Truth)
  BY TruthShows, ShownIsView DEF ServerTypes, Members, Server

LEMMA TruthShowsNext ==
  ServerTypes' => Shows(Server', Truth') /\ View(Truth')
<1>1. ServerTypes => (Shows(Server, Truth) /\ View(Truth))
  BY TruthShows, TruthIsView
<1>2. (ServerTypes => (Shows(Server, Truth) /\ View(Truth)))'
  BY <1>1, PTL
<1> QED
  BY <1>2

----------------------------------------------------------------------------
(* Each change of the server is told as it is. *)

\* What the server may be.
IsServer(p) ==
  /\ p.nick \in [People -> Nicks] /\ (\A u, w \in People : p.nick[u] = p.nick[w] => u = w)
  /\ p.nick[Me] = MyNick
  /\ p.host \in [People -> Hosts] /\ p.acct \in [People -> Standing]
  /\ p.chan \in [Channels -> ChanModes]
  /\ \A c \in Channels : DOMAIN p.on[c] \subseteq People /\ p.on[c] \in [DOMAIN p.on[c] -> SUBSET Prefix]

LEMMA ServerIs == ServerTypes => IsServer(Server)
  BY DEF ServerTypes, IsServer, IsInjective, Members, Server

LEMMA ServerIsNext == ServerTypes' => IsServer(Server')
<1>1. (ServerTypes => IsServer(Server))'
  BY ServerIs, PTL
<1> QED
  BY <1>1

\* The server before and after a change, with a view of each.
Turns(p, q, s, t) == IsServer(p) /\ IsServer(q) /\ Shows(p, s) /\ Shows(q, t)

\* The user called n in channel c is the same before and after, if any.
SameUser(p, q, c, n) ==
  \A u \in People :
    /\ u \in DOMAIN p.on[c] /\ p.nick[u] = n <=> u \in DOMAIN q.on[c] /\ q.nick[u] = n
    /\ u \in DOMAIN p.on[c] /\ p.nick[u] = n => p.host[u] = q.host[u] /\ p.on[c][u] = q.on[c][u]

LEMMA UserKept ==
  ASSUME NEW p, NEW q, NEW s, NEW t, Turns(p, q, s, t), NEW c \in Channels, NEW n \in Nicks,
         Me \in DOMAIN p.on[c], Me \in DOMAIN q.on[c], SameUser(p, q, c, n)
  PROVE  In(t, c, n) = In(s, c, n)
<1>1. ShowsChannel(p, s, c) /\ ShowsChannel(q, t, c)
  BY DEF Turns, Shows
<1>2. DOMAIN p.on[c] \subseteq People /\ DOMAIN q.on[c] \subseteq People
  BY DEF Turns, IsServer
<1>3. CASE \E u \in DOMAIN p.on[c] : p.nick[u] = n
  <2>1. PICK u \in DOMAIN p.on[c] : p.nick[u] = n
    BY <1>3
  <2>2. u \in DOMAIN q.on[c] /\ q.nick[u] = n /\ p.host[u] = q.host[u] /\ p.on[c][u] = q.on[c][u]
    BY <1>2, <2>1 DEF SameUser
  <2> QED
    BY <1>1, <2>1, <2>2 DEF ShowsChannel
<1>4. CASE ~ \E u \in DOMAIN p.on[c] : p.nick[u] = n
  <2>1. ~ \E u \in DOMAIN q.on[c] : q.nick[u] = n
    BY <1>2, <1>4 DEF SameUser
  <2> QED
    BY <1>1, <1>4, <2>1 DEF ShowsChannel
<1> QED
  BY <1>3, <1>4

LEMMA ChannelKept ==
  ASSUME NEW p, NEW q, NEW s, NEW t, Turns(p, q, s, t), NEW c \in Channels,
         Me \in DOMAIN p.on[c] <=> Me \in DOMAIN q.on[c],
         Me \in DOMAIN p.on[c] => p.chan[c] = q.chan[c] /\ \A n \in Nicks : SameUser(p, q, c, n)
  PROVE  t.chans[c] = s.chans[c]
<1>1. CASE Me \in DOMAIN p.on[c]
  <2>1. ShowsChannel(p, s, c) /\ ShowsChannel(q, t, c)
    BY <1>1 DEF Turns, Shows
  <2>2. s.chans[c] \in Pictures /\ t.chans[c] \in Pictures
    BY <2>1 DEF Turns, Shows, ShowsChannel, There, Views
  <2>3. \A n \in Nicks : t.chans[c].users[n] = s.chans[c].users[n]
    BY <1>1, UserKept DEF In
  <2>4. t.chans[c].users = s.chans[c].users
    BY <2>2, <2>3 DEF Pictures
  <2> QED
    BY <1>1, <2>1, <2>2, <2>4 DEF ShowsChannel, Pictures
<1>2. CASE Me \notin DOMAIN p.on[c]
  BY <1>2 DEF Turns, Shows, There
<1> QED
  BY <1>1, <1>2

\* The user called n, if any, has the same account and is as much in sight as before.
SamePerson(p, q, n) ==
  \A u \in People :
    /\ p.nick[u] = n <=> q.nick[u] = n
    /\ p.nick[u] = n => (Meets(p.on, u) <=> Meets(q.on, u)) /\ (Meets(p.on, u) => p.acct[u] = q.acct[u])

LEMMA AccountKept ==
  ASSUME NEW p, NEW q, NEW s, NEW t, Turns(p, q, s, t), NEW n \in Nicks, SamePerson(p, q, n)
  PROVE  t.accts[n] = s.accts[n]
<1>1. ShowsAccounts(p, s) /\ ShowsAccounts(q, t)
  BY DEF Turns, Shows
<1>2. CASE \E u \in People : p.nick[u] = n
  BY <1>1, <1>2 DEF ShowsAccounts, SamePerson
<1>3. CASE ~ \E u \in People : p.nick[u] = n
  BY <1>1, <1>3 DEF ShowsAccounts, SamePerson
<1> QED
  BY <1>2, <1>3

\* What the bot cannot see changes nothing it may know.
LEMMA NothingTold ==
  ASSUME NEW p, NEW q, NEW s, NEW t, Turns(p, q, s, t),
         \A c \in Channels :
           /\ Me \in DOMAIN p.on[c] <=> Me \in DOMAIN q.on[c]
           /\ Me \in DOMAIN p.on[c] => p.chan[c] = q.chan[c] /\ \A n \in Nicks : SameUser(p, q, c, n),
         \A n \in Nicks : t.accts[n] = s.accts[n]
  PROVE  t = s
<1>1. \A c \in Channels : t.chans[c] = s.chans[c]
  BY ChannelKept
<1>2. s \in Views /\ t \in Views
  BY DEF Turns, Shows
<1>3. s.chans \in [Channels -> Pictures \cup {Nothing}] /\ t.chans \in [Channels -> Pictures \cup {Nothing}]
  BY <1>2 DEF Views
<1>4. s.accts \in [Nicks -> Standing \cup {"unseen"}] /\ t.accts \in [Nicks -> Standing \cup {"unseen"}]
  BY <1>2 DEF Views
<1>5. t.chans = s.chans
  BY <1>1, <1>3
<1>6. t.accts = s.accts
  BY <1>4
<1> QED
  BY <1>2, <1>5, <1>6 DEF Views

\* Somebody joins: the bot sees it if it is there itself, or is the one who joins.
LEMMA JoinTold ==
  ASSUME NEW p, NEW q, NEW s, NEW t, Turns(p, q, s, t),
         NEW u \in People, NEW c \in Channels, u \notin DOMAIN p.on[c],
         q.nick = p.nick, q.host = p.host, q.acct = p.acct, q.chan = p.chan,
         \A d \in Channels \ {c} : q.on[d] = p.on[d],
         q.on[c] = [w \in DOMAIN p.on[c] \cup {u} |-> IF w = u THEN {} ELSE p.on[c][w]]
  PROVE  IF Me \in DOMAIN q.on[c]
         THEN TellsJoin([kind |-> "JOIN", chan |-> c, nick |-> p.nick[u], host |-> p.host[u],
                         account |-> p.acct[u]], s, t)
         ELSE t = s
<1>1. DOMAIN q.on[c] = DOMAIN p.on[c] \cup {u} /\ q.on[c][u] = {}
  OBVIOUS
<1>2. \A d \in Channels \ {c} : DOMAIN q.on[d] = DOMAIN p.on[d]
  OBVIOUS
<1>3. \A w \in DOMAIN p.on[c] : q.on[c][w] = p.on[c][w]
  OBVIOUS
<1>4. \A w \in People : Meets(p.on, w) => Meets(q.on, w)
  BY <1>1, <1>2 DEF Meets
<1>5. ShowsAccounts(p, s) /\ ShowsAccounts(q, t)
  BY DEF Turns, Shows
<1>6. \A w, x \in People : p.nick[w] = p.nick[x] => w = x
  BY DEF Turns, IsServer
<1>7. OtherChannels(s, t, c)
  BY <1>2, ChannelKept DEF OtherChannels, SameUser
<1>8. \A n \in Nicks \ {p.nick[u]} : SameUser(p, q, c, n)
  BY <1>1, <1>3 DEF SameUser
<1>9. CASE Me \in DOMAIN q.on[c]
  <2>1. Meets(q.on, u)
    BY <1>1, <1>9 DEF Meets
  <2>2. t.accts[p.nick[u]] = p.acct[u]
    BY <1>5, <2>1 DEF ShowsAccounts
  <2>3. ASSUME NEW n \in Nicks, s.accts[n] # "unseen" PROVE t.accts[n] = s.accts[n]
    <3>1. PICK w \in People : p.nick[w] = n
      BY <1>5, <2>3 DEF ShowsAccounts
    <3>2. Meets(p.on, w) /\ s.accts[n] = p.acct[w]
      BY <1>5, <2>3, <3>1 DEF ShowsAccounts
    <3> QED
      BY <1>4, <1>5, <3>1, <3>2 DEF ShowsAccounts
  <2>4. ShowsChannel(q, t, c)
    BY <1>9 DEF Turns, Shows
  <2>5. In(t, c, p.nick[u]) = [host |-> p.host[u], modes |-> {}]
    BY <1>1, <2>4 DEF ShowsChannel
  <2>6. ASSUME p.nick[u] # MyNick PROVE RestOf(s, t, c, p.nick[u])
    <3>1. u # Me
      BY <2>6 DEF Turns, IsServer
    <3>2. Me \in DOMAIN p.on[c]
      BY <1>1, <1>9, <3>1
    <3>3. ShowsChannel(p, s, c)
      BY <3>2 DEF Turns, Shows
    <3>4. \A n \in Nicks \ {p.nick[u]} : In(t, c, n) = In(s, c, n)
      BY <1>8, <1>9, <3>2, UserKept
    <3> QED
      BY <2>4, <3>3, <3>4 DEF ShowsChannel, RestOf
  <2>7. p.nick[u] \in Nicks /\ p.host[u] \in Hosts /\ p.acct[u] \in Standing
    BY DEF Turns, IsServer
  <2>8. ASSUME p.nick[u] = MyNick PROVE ~There(s, c)
    <3>1. u = Me
      BY <1>6, <2>8, ChannelStateAssumption DEF Turns, IsServer, People
    <3> QED
      BY <3>1 DEF Turns, Shows
  <2> QED
    BY <1>7, <1>9, <2>2, <2>3, <2>4, <2>5, <2>6, <2>7, <2>8 DEF TellsJoin, AccountsKeep, ShowsChannel
<1>10. CASE Me \notin DOMAIN q.on[c]
  <2>1. \A w \in People : Meets(p.on, w) <=> Meets(q.on, w)
    BY <1>1, <1>2, <1>10 DEF Meets
  <2>2. \A n \in Nicks : t.accts[n] = s.accts[n]
    BY <2>1, AccountKept DEF SamePerson
  <2>3. \A d \in Channels : Me \in DOMAIN p.on[d] <=> Me \in DOMAIN q.on[d]
    BY <1>1, <1>2, <1>10
  <2>4. \A d \in Channels : Me \in DOMAIN p.on[d] => \A n \in Nicks : SameUser(p, q, d, n)
    BY <1>1, <1>2, <1>10 DEF SameUser
  <2> QED
    BY <1>10, <2>2, <2>3, <2>4, NothingTold
<1> QED
  BY <1>9, <1>10

\* Somebody leaves a channel by himself or is kicked.
LEMMA PartTold ==
  ASSUME NEW p, NEW q, NEW s, NEW t, Turns(p, q, s, t),
         NEW u \in People, NEW c \in Channels, u \in DOMAIN p.on[c], NEW kind,
         q.nick = p.nick, q.host = p.host, q.acct = p.acct, q.chan = p.chan,
         \A d \in Channels \ {c} : q.on[d] = p.on[d],
         q.on[c] = Restrict(p.on[c], DOMAIN p.on[c] \ {u})
  PROVE  IF Me \in DOMAIN p.on[c]
         THEN TellsPart([kind |-> kind, chan |-> c, nick |-> p.nick[u]], s, t)
         ELSE t = s
<1>1. DOMAIN q.on[c] = DOMAIN p.on[c] \ {u} /\ \A w \in DOMAIN q.on[c] : q.on[c][w] = p.on[c][w]
  BY DEF Restrict
<1>2. \A d \in Channels \ {c} : DOMAIN q.on[d] = DOMAIN p.on[d]
  OBVIOUS
<1>4. \A w \in People : Meets(q.on, w) => Meets(p.on, w)
  BY <1>1, <1>2 DEF Meets
<1>5. ShowsAccounts(p, s) /\ ShowsAccounts(q, t)
  BY DEF Turns, Shows
<1>6. \A w, x \in People : p.nick[w] = p.nick[x] => w = x
  BY DEF Turns, IsServer
<1>7. OtherChannels(s, t, c)
  BY <1>2, ChannelKept DEF OtherChannels, SameUser
<1>8. \A n \in Nicks \ {p.nick[u]} : SameUser(p, q, c, n)
  BY <1>1 DEF SameUser
<1>9. CASE Me \in DOMAIN p.on[c]
  <2>3. ASSUME NEW n \in Nicks, t.accts[n] # "unseen" PROVE t.accts[n] = s.accts[n]
    <3>1. PICK w \in People : p.nick[w] = n
      BY <1>5, <2>3 DEF ShowsAccounts
    <3>2. Meets(q.on, w) /\ t.accts[n] = p.acct[w]
      BY <1>5, <2>3, <3>1 DEF ShowsAccounts
    <3> QED
      BY <1>4, <1>5, <3>1, <3>2 DEF ShowsAccounts
  <2>4. p.nick[u] \in Nicks /\ p.nick[Me] = MyNick /\ Me \in People
    BY DEF Turns, IsServer, People
  <2>5. CASE u = Me
    <3>1. ~There(t, c)
      BY <1>1, <2>5 DEF Turns, Shows
    <3> QED
      BY <1>7, <1>9, <2>3, <2>4, <2>5, <3>1 DEF TellsPart
  <2>6. CASE u # Me
    <3>1. p.nick[u] # MyNick
      BY <1>6, <2>4, <2>6
    <3>2. Me \in DOMAIN q.on[c]
      BY <1>1, <1>9, <2>6
    <3>3. ShowsChannel(p, s, c) /\ ShowsChannel(q, t, c)
      BY <1>9, <3>2 DEF Turns, Shows
    <3>4. \A n \in Nicks \ {p.nick[u]} : In(t, c, n) = In(s, c, n)
      BY <1>8, <1>9, <3>2, UserKept
    <3>5. \A w \in DOMAIN q.on[c] : q.nick[w] # p.nick[u]
      BY <1>1, <1>6 DEF Turns, IsServer
    <3>6. In(t, c, p.nick[u]) = Absent
      BY <2>4, <3>3, <3>5 DEF ShowsChannel
    <3> QED
      BY <1>7, <1>9, <2>3, <2>4, <3>1, <3>3, <3>4, <3>6 DEF TellsPart, RestOf, ShowsChannel
  <2> QED
    BY <2>5, <2>6
<1>10. CASE Me \notin DOMAIN p.on[c]
  <2>1. \A w \in People : Meets(p.on, w) <=> Meets(q.on, w)
    BY <1>1, <1>2, <1>10 DEF Meets
  <2>2. \A n \in Nicks : t.accts[n] = s.accts[n]
    BY <2>1, AccountKept DEF SamePerson
  <2>3. \A d \in Channels : Me \in DOMAIN p.on[d] <=> Me \in DOMAIN q.on[d]
    BY <1>1, <1>2, <1>10
  <2>4. \A d \in Channels : Me \in DOMAIN p.on[d] => \A n \in Nicks : SameUser(p, q, d, n)
    BY <1>1, <1>2, <1>10 DEF SameUser
  <2> QED
    BY <1>10, <2>2, <2>3, <2>4, NothingTold
<1> QED
  BY <1>9, <1>10

\* Somebody quits, and is back under a nick n, unidentified and nowhere.
LEMMA QuitTold ==
  ASSUME NEW p, NEW q, NEW s, NEW t, Turns(p, q, s, t), NEW u \in Users, NEW n \in Nicks,
         n = p.nick[u] \/ \A w \in People : p.nick[w] # n,
         q.nick = [p.nick EXCEPT ![u] = n], q.acct = [p.acct EXCEPT ![u] = NoAccount],
         q.host = p.host, q.chan = p.chan,
         \A c \in Channels : q.on[c] = Restrict(p.on[c], DOMAIN p.on[c] \ {u})
  PROVE  IF Meets(p.on, u) THEN TellsQuit([kind |-> "QUIT", nick |-> p.nick[u]], s, t)
         ELSE t = s
<1> USE DEF People
<1>1. \A c \in Channels : /\ DOMAIN q.on[c] = DOMAIN p.on[c] \ {u}
                          /\ \A w \in DOMAIN q.on[c] : q.on[c][w] = p.on[c][w]
  <2> TAKE c \in Channels
  <2>1. q.on[c] = [w \in DOMAIN p.on[c] \ {u} |-> p.on[c][w]]
    BY DEF Restrict
  <2> QED
    BY <2>1
<1>2. u \in People /\ u # Me /\ Me \in People
  BY ChannelStateAssumption
<1>3. /\ p.nick \in [People -> Nicks] /\ p.acct \in [People -> Standing]
      /\ \A w, x \in People : p.nick[w] = p.nick[x] => w = x
      /\ \A w, x \in People : q.nick[w] = q.nick[x] => w = x
      /\ p.nick[Me] = MyNick
  BY DEF Turns, IsServer
<1>4. \A w \in People \ {u} : q.nick[w] = p.nick[w] /\ q.acct[w] = p.acct[w]
  BY <1>3
<1>5. q.nick[u] = n
  BY <1>2, <1>3
<1>6. ~Meets(q.on, u) /\ \A w \in People \ {u} : Meets(q.on, w) <=> Meets(p.on, w)
  BY <1>1, <1>2 DEF Meets
<1>7. ShowsAccounts(p, s) /\ ShowsAccounts(q, t)
  BY DEF Turns, Shows
<1>8. ASSUME NEW x \in Nicks, t.accts[x] # "unseen" PROVE t.accts[x] = s.accts[x]
  <2>1. PICK w \in People : q.nick[w] = x
    BY <1>7, <1>8 DEF ShowsAccounts
  <2>2. Meets(q.on, w) /\ t.accts[x] = q.acct[w]
    BY <1>7, <1>8, <2>1 DEF ShowsAccounts
  <2>3. w # u
    BY <1>6, <2>2
  <2> QED
    BY <1>4, <1>6, <1>7, <2>1, <2>2, <2>3 DEF ShowsAccounts
<1>9. ASSUME NEW c \in Channels, NEW x \in Nicks, x # p.nick[u] PROVE SameUser(p, q, c, x)
  BY <1>1, <1>4, <1>9 DEF SameUser, Turns, IsServer
<1>10. CASE Meets(p.on, u)
  <2>1. t.accts[p.nick[u]] = "unseen"
    <3>1. \A w \in People : q.nick[w] = p.nick[u] => w = u
      BY <1>3, <1>4
    <3> QED
      BY <1>2, <1>3, <1>6, <1>7, <3>1 DEF ShowsAccounts
  <2>2. ASSUME NEW c \in Channels, There(s, c)
        PROVE  RestOf(s, t, c, p.nick[u]) /\ In(t, c, p.nick[u]) = Absent
    <3>1. Me \in DOMAIN p.on[c] /\ Me \in DOMAIN q.on[c]
      BY <1>1, <1>2, <2>2 DEF Turns, Shows
    <3>2. ShowsChannel(p, s, c) /\ ShowsChannel(q, t, c)
      BY <3>1 DEF Turns, Shows
    <3>3. \A x \in Nicks \ {p.nick[u]} : In(t, c, x) = In(s, c, x)
      BY <1>9, <3>1, UserKept
    <3>4. \A w \in DOMAIN q.on[c] : q.nick[w] # p.nick[u]
      BY <1>1, <1>2, <1>3, <1>4 DEF Turns, IsServer
    <3>5. In(t, c, p.nick[u]) = Absent
      BY <1>2, <1>3, <3>2, <3>4 DEF ShowsChannel
    <3> QED
      BY <3>2, <3>3, <3>5 DEF RestOf, ShowsChannel
  <2>3. \A c \in Channels : ~There(s, c) => ~There(t, c)
    BY <1>1, <1>2 DEF Turns, Shows, ShowsChannel
  <2>4. p.nick[u] \in Nicks /\ p.nick[u] # MyNick
    BY <1>2, <1>3
  <2> QED
    BY <1>8, <1>10, <2>1, <2>2, <2>3, <2>4 DEF TellsQuit
<1>11. CASE ~Meets(p.on, u)
  <2>1. \A c \in Channels : Me \in DOMAIN p.on[c] => u \notin DOMAIN p.on[c]
    BY <1>11 DEF Meets
  <2>2. \A c \in Channels : Me \in DOMAIN p.on[c] <=> Me \in DOMAIN q.on[c]
    BY <1>1, <1>2
  <2>3. \A c \in Channels : Me \in DOMAIN p.on[c] => \A x \in Nicks : SameUser(p, q, c, x)
    BY <1>1, <1>4, <2>1 DEF SameUser
  <2>4. ASSUME NEW x \in Nicks PROVE t.accts[x] = s.accts[x]
    <3>1. CASE s.accts[x] = "unseen"
      BY <1>8, <3>1
    <3>2. CASE s.accts[x] # "unseen"
      <4>1. PICK w \in People : p.nick[w] = x
        BY <1>7, <3>2 DEF ShowsAccounts
      <4>2. Meets(p.on, w) /\ s.accts[x] = p.acct[w]
        BY <1>7, <3>2, <4>1 DEF ShowsAccounts
      <4>3. w # u
        BY <1>11, <4>2
      <4>4. Meets(q.on, w) /\ q.nick[w] = x /\ q.acct[w] = p.acct[w]
        BY <1>4, <1>6, <4>1, <4>2, <4>3
      <4> QED
        BY <1>7, <4>2, <4>4 DEF ShowsAccounts
    <3> QED
      BY <3>1, <3>2
  <2> QED
    BY <1>11, <2>2, <2>3, <2>4, NothingTold
<1> QED
  BY <1>10, <1>11

\* Somebody takes a free nick.
LEMMA NickTold ==
  ASSUME NEW p, NEW q, NEW s, NEW t, Turns(p, q, s, t), NEW u \in Users, NEW n \in Nicks,
         \A w \in People : p.nick[w] # n,
         q.nick = [p.nick EXCEPT ![u] = n], q.acct = p.acct, q.host = p.host,
         q.chan = p.chan, q.on = p.on
  PROVE  IF Meets(p.on, u)
         THEN TellsNick([kind |-> "NICK", nick |-> p.nick[u], new |-> n], s, t)
         ELSE t = s
<1> USE DEF People
<1>2. u \in People /\ u # Me /\ Me \in People
  BY ChannelStateAssumption
<1>3. /\ p.nick \in [People -> Nicks]
      /\ \A w, x \in People : p.nick[w] = p.nick[x] => w = x
      /\ p.nick[Me] = MyNick
      /\ \A c \in Channels : DOMAIN p.on[c] \subseteq People
  BY DEF Turns, IsServer
<1>4. \A w \in People \ {u} : q.nick[w] = p.nick[w]
  BY <1>3
<1>5. q.nick[u] = n
  BY <1>2, <1>3
<1>7. ShowsAccounts(p, s) /\ ShowsAccounts(q, t)
  BY DEF Turns, Shows
<1>8. ASSUME NEW x \in Nicks \ {p.nick[u], n} PROVE SamePerson(p, q, x)
  BY <1>2, <1>4, <1>5 DEF SamePerson
<1>9. ASSUME NEW c \in Channels, NEW x \in Nicks \ {p.nick[u], n} PROVE SameUser(p, q, c, x)
  BY <1>2, <1>4, <1>5 DEF SameUser
<1>12. \A x \in Nicks \ {p.nick[u], n} : t.accts[x] = s.accts[x]
  BY <1>8, AccountKept
<1>13. s.accts[n] = "unseen"
  BY <1>7 DEF ShowsAccounts
<1>14. t.accts[p.nick[u]] = "unseen"
  <2>1. \A w \in People : q.nick[w] # p.nick[u]
    BY <1>2, <1>3, <1>4, <1>5
  <2> QED
    BY <1>2, <1>3, <1>7, <2>1 DEF ShowsAccounts
<1>15. t.accts[n] = s.accts[p.nick[u]]
  BY <1>2, <1>5, <1>7 DEF ShowsAccounts
<1>10. CASE Meets(p.on, u)
  <2>2. ASSUME NEW c \in Channels, There(s, c)
        PROVE  /\ There(t, c) /\ t.chans[c].modes = s.chans[c].modes
               /\ In(t, c, n) = In(s, c, p.nick[u]) /\ In(t, c, p.nick[u]) = Absent
               /\ \A x \in Nicks \ {p.nick[u], n} : In(t, c, x) = In(s, c, x)
    <3>1. Me \in DOMAIN p.on[c]
      BY <2>2 DEF Turns, Shows
    <3>2. ShowsChannel(p, s, c) /\ ShowsChannel(q, t, c)
      BY <3>1 DEF Turns, Shows
    <3>3. \A x \in Nicks \ {p.nick[u], n} : In(t, c, x) = In(s, c, x)
      BY <1>9, <3>1, UserKept
    <3>4. \A w \in DOMAIN q.on[c] : q.nick[w] # p.nick[u]
      BY <1>2, <1>3, <1>4, <1>5
    <3>5. In(t, c, p.nick[u]) = Absent
      BY <1>2, <1>3, <3>2, <3>4 DEF ShowsChannel
    <3>6. CASE u \in DOMAIN p.on[c]
      <4>1. In(s, c, p.nick[u]) = [host |-> p.host[u], modes |-> p.on[c][u]]
        BY <3>2, <3>6 DEF ShowsChannel
      <4>2. In(t, c, q.nick[u]) = [host |-> q.host[u], modes |-> q.on[c][u]]
        BY <3>2, <3>6 DEF ShowsChannel
      <4>3. There(t, c) /\ t.chans[c].modes = s.chans[c].modes
        BY <3>2 DEF ShowsChannel
      <4> QED
        BY <1>5, <3>3, <3>5, <4>1, <4>2, <4>3
    <3>7. CASE u \notin DOMAIN p.on[c]
      <4>1. \A w \in DOMAIN p.on[c] : p.nick[w] # p.nick[u]
        BY <1>2, <1>3, <3>7
      <4>2. \A w \in DOMAIN q.on[c] : q.nick[w] # n
        BY <1>3, <1>4, <3>7
      <4> QED
        BY <1>2, <1>3, <3>2, <3>3, <3>5, <4>1, <4>2 DEF ShowsChannel
    <3> QED
      BY <3>6, <3>7
  <2>3. \A c \in Channels : ~There(s, c) => ~There(t, c)
    BY DEF Turns, Shows, ShowsChannel
  <2>4. p.nick[u] \in Nicks \ {MyNick} /\ n \in Nicks \ {MyNick, p.nick[u]}
    BY <1>2, <1>3
  <2> QED
    BY <1>10, <1>12, <1>13, <1>14, <1>15, <2>2, <2>3, <2>4 DEF TellsNick
<1>11. CASE ~Meets(p.on, u)
  <2>1. \A c \in Channels : Me \in DOMAIN p.on[c] => u \notin DOMAIN p.on[c]
    BY <1>11 DEF Meets
  <2>3. \A c \in Channels : Me \in DOMAIN p.on[c] => \A x \in Nicks : SameUser(p, q, c, x)
    BY <1>4, <2>1 DEF SameUser
  <2>4. s.accts[p.nick[u]] = "unseen"
    BY <1>2, <1>7, <1>11 DEF ShowsAccounts
  <2>5. \A x \in Nicks : t.accts[x] = s.accts[x]
    BY <1>12, <1>13, <1>14, <1>15, <2>4
  <2> QED
    BY <1>11, <2>3, <2>5, NothingTold
<1> QED
  BY <1>10, <1>11

\* A user's prefix mode in a channel is given or taken.
LEMMA UserModeTold ==
  ASSUME NEW p, NEW q, NEW s, NEW t, Turns(p, q, s, t),
         NEW u \in People, NEW c \in Channels, NEW x \in Prefix, NEW adds \in BOOLEAN,
         u \in DOMAIN p.on[c],
         q.nick = p.nick, q.acct = p.acct, q.host = p.host, q.chan = p.chan,
         \A d \in Channels \ {c} : q.on[d] = p.on[d],
         q.on[c] = [p.on[c] EXCEPT ![u] = IF adds THEN @ \cup {x} ELSE @ \ {x}]
  PROVE  IF Me \in DOMAIN p.on[c]
         THEN TellsMode([kind |-> "MODE", chan |-> c, mode |-> x, adds |-> adds,
                         param |-> p.nick[u]], s, t)
         ELSE t = s
<1>1. /\ DOMAIN q.on[c] = DOMAIN p.on[c]
      /\ \A w \in DOMAIN p.on[c] \ {u} : q.on[c][w] = p.on[c][w]
      /\ q.on[c][u] = IF adds THEN p.on[c][u] \cup {x} ELSE p.on[c][u] \ {x}
  OBVIOUS
<1>2. \A d \in Channels : DOMAIN q.on[d] = DOMAIN p.on[d]
  BY <1>1
<1>3. /\ \A w, y \in People : p.nick[w] = p.nick[y] => w = y
      /\ \A d \in Channels : DOMAIN p.on[d] \subseteq People
      /\ p.nick[u] \in Nicks
  BY DEF Turns, IsServer
<1>4. \A w \in People : Meets(p.on, w) <=> Meets(q.on, w)
  BY <1>2 DEF Meets
<1>5. \A n \in Nicks : t.accts[n] = s.accts[n]
  BY <1>4, AccountKept DEF SamePerson
<1>6. s \in Views /\ t \in Views
  BY DEF Turns, Shows
<1>7. t.accts = s.accts
  <2>1. s.accts \in [Nicks -> Standing \cup {"unseen"}] /\ t.accts \in [Nicks -> Standing \cup {"unseen"}]
    BY <1>6 DEF Views
  <2> QED
    BY <1>5, <2>1
<1>8. OtherChannels(s, t, c)
  BY <1>2, ChannelKept DEF OtherChannels, SameUser
<1>9. \A n \in Nicks \ {p.nick[u]} : SameUser(p, q, c, n)
  BY <1>1 DEF SameUser
<1>10. CASE Me \in DOMAIN p.on[c]
  <2>1. ShowsChannel(p, s, c) /\ ShowsChannel(q, t, c)
    BY <1>2, <1>10 DEF Turns, Shows
  <2>2. \A n \in Nicks \ {p.nick[u]} : In(t, c, n) = In(s, c, n)
    BY <1>2, <1>9, <1>10, UserKept
  <2>3. In(s, c, p.nick[u]) = [host |-> p.host[u], modes |-> p.on[c][u]]
    BY <2>1 DEF ShowsChannel
  <2>4. In(t, c, p.nick[u]) = [host |-> p.host[u], modes |-> q.on[c][u]]
    BY <1>1, <2>1 DEF ShowsChannel
  <2>5. RestOf(s, t, c, p.nick[u])
    BY <2>1, <2>2 DEF RestOf, ShowsChannel
  <2>6. In(s, c, p.nick[u]) # Absent
    <3>1. p.host[u] \in Hosts /\ p.on[c][u] \in SUBSET Prefix
      BY DEF Turns, IsServer
    <3>2. In(s, c, p.nick[u]) \in Records
      BY <2>3, <3>1 DEF Records
    <3> QED
      BY <3>2, ChannelStateAssumption
  <2>7. There(s, c) /\ There(t, c)
    BY <2>1 DEF ShowsChannel
  <2>8. In(t, c, p.nick[u]) =
          [host |-> In(s, c, p.nick[u]).host,
           modes |-> IF adds THEN In(s, c, p.nick[u]).modes \cup {x}
                     ELSE In(s, c, p.nick[u]).modes \ {x}]
    BY <1>1, <2>3, <2>4
  <2> QED
    BY <1>3, <1>7, <1>8, <1>10, <2>5, <2>6, <2>7, <2>8 DEF TellsMode
<1>11. CASE Me \notin DOMAIN p.on[c]
  <2>1. \A d \in Channels : Me \in DOMAIN p.on[d] => \A n \in Nicks : SameUser(p, q, d, n)
    BY <1>2, <1>11 DEF SameUser
  <2> QED
    BY <1>2, <1>5, <1>11, <2>1, NothingTold
<1> QED
  BY <1>10, <1>11

\* The modes of a channel change, by the message m: a flag or the key.
ModesTurn(p, q, c, m) ==
  /\ m.kind = "MODE" /\ m.chan = c /\ m.mode \in Flags \cup {"k"} /\ m.adds \in BOOLEAN
  /\ q.nick = p.nick /\ q.acct = p.acct /\ q.host = p.host /\ q.on = p.on
  /\ \A d \in Channels \ {c} : q.chan[d] = p.chan[d]
  /\ q.chan[c] = ModesSet(p.chan[c], m)

LEMMA ChanModeTold ==
  ASSUME NEW p, NEW q, NEW s, NEW t, Turns(p, q, s, t), NEW c \in Channels,
         NEW m, ModesTurn(p, q, c, m)
  PROVE  IF Me \in DOMAIN p.on[c] THEN TellsMode(m, s, t) ELSE t = s
<1>1. /\ m.kind = "MODE" /\ m.chan = c /\ m.mode \in Flags \cup {"k"} /\ m.adds \in BOOLEAN
      /\ q.nick = p.nick /\ q.acct = p.acct /\ q.host = p.host /\ q.on = p.on
  BY DEF ModesTurn
<1>2. \A d \in Channels \ {c} : q.chan[d] = p.chan[d]
  BY DEF ModesTurn
<1>3. q.chan[c] = ModesSet(p.chan[c], m)
  BY DEF ModesTurn
<1>4. \A n \in Nicks : SamePerson(p, q, n)
  BY <1>1 DEF SamePerson
<1>5. \A n \in Nicks : t.accts[n] = s.accts[n]
  BY <1>4, AccountKept
<1>6. s \in Views /\ t \in Views
  BY DEF Turns, Shows
<1>7. t.accts = s.accts
  <2>1. s.accts \in [Nicks -> Standing \cup {"unseen"}] /\ t.accts \in [Nicks -> Standing \cup {"unseen"}]
    BY <1>6 DEF Views
  <2> QED
    BY <1>5, <2>1
<1>9. \A d \in Channels, n \in Nicks : SameUser(p, q, d, n)
  BY <1>1 DEF SameUser
<1>8. OtherChannels(s, t, c)
  BY <1>1, <1>2, <1>9, ChannelKept DEF OtherChannels
<1>10. CASE Me \in DOMAIN p.on[c]
  <2>1. ShowsChannel(p, s, c) /\ ShowsChannel(q, t, c)
    BY <1>1, <1>10 DEF Turns, Shows
  <2>2. \A n \in Nicks : In(t, c, n) = In(s, c, n)
    BY <1>1, <1>9, <1>10, UserKept
  <2> QED
    BY <1>1, <1>3, <1>7, <1>8, <1>10, <2>1, <2>2 DEF TellsMode, ShowsChannel
<1>11. CASE Me \notin DOMAIN p.on[c]
  <2>1. \A d \in Channels : Me \in DOMAIN p.on[d] => p.chan[d] = q.chan[d]
    BY <1>1, <1>2, <1>11
  <2> QED
    BY <1>1, <1>5, <1>9, <1>11, <2>1, NothingTold
<1> QED
  BY <1>10, <1>11

\* Somebody identifies, or no longer is identified.
LEMMA LoginTold ==
  ASSUME NEW p, NEW q, NEW s, NEW t, Turns(p, q, s, t), NEW u \in People, NEW a \in Standing,
         q.nick = p.nick, q.host = p.host, q.on = p.on, q.chan = p.chan,
         q.acct = [p.acct EXCEPT ![u] = a]
  PROVE  IF Meets(p.on, u)
         THEN TellsAccount([kind |-> "ACCOUNT", nick |-> p.nick[u], account |-> a], s, t)
         ELSE t = s
<1>1. /\ p.acct \in [People -> Standing] /\ p.nick[u] \in Nicks
      /\ \A w, y \in People : p.nick[w] = p.nick[y] => w = y
  BY DEF Turns, IsServer
<1>2. q.acct[u] = a /\ \A w \in People \ {u} : q.acct[w] = p.acct[w]
  BY <1>1
<1>3. \A c \in Channels, n \in Nicks : SameUser(p, q, c, n)
  BY DEF SameUser
<1>4. \A c \in Channels : t.chans[c] = s.chans[c]
  BY <1>3, ChannelKept
<1>5. t.chans = s.chans
  <2>1. s.chans \in [Channels -> Pictures \cup {Nothing}] /\ t.chans \in [Channels -> Pictures \cup {Nothing}]
    BY DEF Turns, Shows, Views
  <2> QED
    BY <1>4, <2>1
<1>6. ShowsAccounts(p, s) /\ ShowsAccounts(q, t)
  BY DEF Turns, Shows
<1>10. \A n \in Nicks \ {p.nick[u]} : SamePerson(p, q, n)
  BY <1>2 DEF SamePerson
<1>7. \A n \in Nicks \ {p.nick[u]} : t.accts[n] = s.accts[n]
  BY <1>10, AccountKept
<1>8. CASE Meets(p.on, u)
  <2>1. s.accts[p.nick[u]] = p.acct[u] /\ t.accts[p.nick[u]] = a
    BY <1>2, <1>6, <1>8 DEF ShowsAccounts
  <2>2. p.acct[u] # "unseen"
    BY <1>1, ChannelStateAssumption DEF Standing, NoAccount
  <2> QED
    BY <1>1, <1>5, <1>7, <1>8, <2>1, <2>2 DEF TellsAccount
<1>9. CASE ~Meets(p.on, u)
  <2>1. s.accts[p.nick[u]] = "unseen" /\ t.accts[p.nick[u]] = "unseen"
    BY <1>6, <1>9 DEF ShowsAccounts
  <2>2. \A n \in Nicks : t.accts[n] = s.accts[n]
    BY <1>7, <2>1
  <2> QED
    BY <1>3, <1>9, <2>2, NothingTold
<1> QED
  BY <1>8, <1>9

\* Somebody's host changes.
LEMMA HostTold ==
  ASSUME NEW p, NEW q, NEW s, NEW t, Turns(p, q, s, t), NEW u \in People, NEW h \in Hosts,
         q.nick = p.nick, q.acct = p.acct, q.on = p.on, q.chan = p.chan,
         q.host = [p.host EXCEPT ![u] = h]
  PROVE  IF Meets(p.on, u)
         THEN TellsHost([kind |-> "CHGHOST", nick |-> p.nick[u], host |-> h], s, t)
         ELSE t = s
<1>1. /\ p.host \in [People -> Hosts] /\ p.nick[u] \in Nicks
      /\ \A w, y \in People : p.nick[w] = p.nick[y] => w = y
      /\ \A c \in Channels : DOMAIN p.on[c] \subseteq People /\ p.on[c] \in [DOMAIN p.on[c] -> SUBSET Prefix]
  BY DEF Turns, IsServer
<1>2. q.host[u] = h /\ \A w \in People \ {u} : q.host[w] = p.host[w]
  BY <1>1
<1>3. \A n \in Nicks : t.accts[n] = s.accts[n]
  BY AccountKept DEF SamePerson
<1>4. t.accts = s.accts
  <2>1. s.accts \in [Nicks -> Standing \cup {"unseen"}] /\ t.accts \in [Nicks -> Standing \cup {"unseen"}]
    BY DEF Turns, Shows, Views
  <2> QED
    BY <1>3, <2>1
<1>5. \A c \in Channels, n \in Nicks \ {p.nick[u]} : SameUser(p, q, c, n)
  BY <1>2 DEF SameUser
<1>6. CASE Meets(p.on, u)
  <2>1. ASSUME NEW c \in Channels, There(s, c)
        PROVE  /\ RestOf(s, t, c, p.nick[u])
               /\ In(t, c, p.nick[u]) = IF In(s, c, p.nick[u]) = Absent THEN Absent
                                        ELSE [host |-> h, modes |-> In(s, c, p.nick[u]).modes]
    <3>1. Me \in DOMAIN p.on[c]
      BY <2>1 DEF Turns, Shows
    <3>2. ShowsChannel(p, s, c) /\ ShowsChannel(q, t, c)
      BY <3>1 DEF Turns, Shows
    <3>3. \A n \in Nicks \ {p.nick[u]} : In(t, c, n) = In(s, c, n)
      BY <1>5, <3>1, UserKept
    <3>4. RestOf(s, t, c, p.nick[u])
      BY <3>2, <3>3 DEF RestOf, ShowsChannel
    <3>5. CASE u \in DOMAIN p.on[c]
      <4>1. In(s, c, p.nick[u]) = [host |-> p.host[u], modes |-> p.on[c][u]]
        BY <3>2, <3>5 DEF ShowsChannel
      <4>2. In(t, c, p.nick[u]) = [host |-> h, modes |-> p.on[c][u]]
        BY <1>2, <3>2, <3>5 DEF ShowsChannel
      <4>3. In(s, c, p.nick[u]) \in Records
        BY <1>1, <3>5, <4>1 DEF Records
      <4> QED
        BY <3>4, <4>1, <4>2, <4>3, ChannelStateAssumption
    <3>6. CASE u \notin DOMAIN p.on[c]
      <4>1. \A w \in DOMAIN p.on[c] : p.nick[w] # p.nick[u]
        BY <1>1, <3>6
      <4>2. In(s, c, p.nick[u]) = Absent
        BY <1>1, <3>2, <4>1 DEF ShowsChannel
      <4>3. In(t, c, p.nick[u]) = Absent
        BY <1>1, <3>2, <4>1 DEF ShowsChannel
      <4> QED
        BY <3>4, <4>2, <4>3
    <3> QED
      BY <3>5, <3>6
  <2>2. \A c \in Channels : ~There(s, c) => ~There(t, c)
    BY DEF Turns, Shows, ShowsChannel
  <2> QED
    BY <1>1, <1>4, <1>6, <2>1, <2>2 DEF TellsHost
<1>7. CASE ~Meets(p.on, u)
  <2>1. \A c \in Channels : Me \in DOMAIN p.on[c] => u \notin DOMAIN p.on[c]
    BY <1>7 DEF Meets
  <2>2. \A c \in Channels : Me \in DOMAIN p.on[c] => \A n \in Nicks : SameUser(p, q, c, n)
    BY <1>2, <2>1 DEF SameUser
  <2> QED
    BY <1>3, <1>7, <2>2, NothingTold
<1> QED
  BY <1>6, <1>7

----------------------------------------------------------------------------
(* The messages on their way. *)

Told(m, v) == [m |-> m, after |-> v]

LEMMA LinkedAppend ==
  ASSUME NEW w, NEW v, NEW now, NEW m, NEW next, Linked(w, v, now), Tells(m, now, next), View(next)
  PROVE  Linked(Append(w, Told(m, next)), v, next)
<1> DEFINE x == Told(m, next)
           w2 == Append(w, x)
<1>1. w \in Seq(Range(w)) /\ Len(w) \in Nat
  BY DEF Linked
<1>2. x.m = m /\ x.after = next
  BY DEF Told
<1> HIDE DEF x
<1>3. w \in Seq(Range(w) \cup {x})
  BY <1>1
<1>4. /\ w2 \in Seq(Range(w) \cup {x}) /\ Len(w2) = Len(w) + 1
      /\ w2[Len(w) + 1] = x /\ \A i \in 1 .. Len(w) : w2[i] = w[i]
  BY <1>3
<1>5. w2 \in Seq(Range(w2))
  BY <1>4, SeqOfRange
<1> HIDE DEF w2
<1>6. After(w2, v) = next
  BY <1>1, <1>2, <1>4 DEF After, Before
<1>7. ASSUME NEW i \in 1 .. Len(w2)
      PROVE  View(w2[i].after) /\ Tells(w2[i].m, Before(w2, v, i), w2[i].after)
  <2>1. CASE i = Len(w) + 1
    <3>1. Before(w2, v, i) = After(w, v)
      BY <1>1, <1>4, <2>1 DEF After, Before
    <3> QED
      BY <1>2, <1>4, <2>1, <3>1 DEF Linked
  <2>2. CASE i # Len(w) + 1
    <3>1. i \in 1 .. Len(w) /\ (i # 1 => i - 1 \in 1 .. Len(w))
      BY <1>1, <1>4, <2>2
    <3>2. Before(w2, v, i) = Before(w, v, i) /\ w2[i] = w[i]
      BY <1>4, <3>1 DEF Before
    <3> QED
      BY <3>1, <3>2 DEF Linked
  <2> QED
    BY <2>1, <2>2
<1> QED
  BY <1>5, <1>6, <1>7 DEF Linked, w2, x

LEMMA LinkedTail ==
  ASSUME NEW w, NEW v, NEW now, Linked(w, v, now), w # <<>>
  PROVE  /\ Tells(Head(w).m, v, Head(w).after)
         /\ Linked(Tail(w), Head(w).after, now)
<1>1. w \in Seq(Range(w)) /\ Len(w) \in Nat \ {0} /\ Head(w) = w[1]
  BY DEF Linked
<1>2. /\ Tail(w) \in Seq(Range(w)) /\ Len(Tail(w)) = Len(w) - 1
      /\ \A i \in 1 .. Len(w) - 1 : Tail(w)[i] = w[i + 1]
  BY <1>1
<1>3. 1 \in 1 .. Len(w)
  BY <1>1
<1>4. Tells(w[1].m, v, w[1].after) /\ View(w[1].after)
  BY <1>3 DEF Linked, Before
<1> DEFINE u == Tail(w)
<1>5. u \in Seq(Range(u))
  BY <1>2, SeqOfRange
<1> HIDE DEF u
<1>6. Len(u) = Len(w) - 1 /\ \A i \in 1 .. Len(w) - 1 : u[i] = w[i + 1]
  BY <1>2 DEF u
<1>7. After(u, w[1].after) = now
  <2>1. After(w, v) = w[Len(w)].after
    BY <1>1 DEF After, Before
  <2>2. CASE Len(w) = 1
    BY <1>6, <2>1, <2>2 DEF After, Before, Linked
  <2>3. CASE Len(w) # 1
    <3>1. Len(w) - 1 \in 1 .. Len(w) - 1
      BY <1>1, <2>3
    <3>2. After(u, w[1].after) = u[Len(w) - 1].after
      BY <1>1, <1>6, <2>3 DEF After, Before
    <3> QED
      BY <1>1, <1>6, <2>1, <3>1, <3>2 DEF Linked
  <2> QED
    BY <2>2, <2>3
<1>8. ASSUME NEW i \in 1 .. Len(u)
      PROVE  View(u[i].after) /\ Tells(u[i].m, Before(u, w[1].after, i), u[i].after)
  <2>1. i \in 1 .. Len(w) - 1 /\ i + 1 \in 1 .. Len(w) /\ u[i] = w[i + 1]
    BY <1>1, <1>6
  <2>2. Before(u, w[1].after, i) = Before(w, v, i + 1)
    <3>1. CASE i = 1
      BY <3>1 DEF Before
    <3>2. CASE i # 1
      <4>1. i - 1 \in 1 .. Len(w) - 1
        BY <1>1, <2>1, <3>2
      <4>2. u[i - 1] = w[i]
        BY <1>1, <1>6, <2>1, <4>1
      <4> QED
        BY <2>1, <3>2, <4>2 DEF Before
    <3> QED
      BY <3>1, <3>2
  <2> QED
    BY <2>1, <2>2 DEF Linked
<1> QED
  BY <1>1, <1>4, <1>5, <1>7, <1>8 DEF Linked, u

LEMMA AnnouncedAppend ==
  ASSUME NEW w, NEW v, NEW now, NEW x, Linked(w, v, now), Announced(w), Plain(x.m)
  PROVE  Announced(Append(w, x))
<1>1. w \in Seq(Range(w) \cup {x}) /\ Len(w) \in Nat
  BY DEF Linked
<1>2. /\ Len(Append(w, x)) = Len(w) + 1 /\ Append(w, x)[Len(w) + 1] = x
      /\ \A i \in 1 .. Len(w) : Append(w, x)[i] = w[i]
  BY <1>1
<1> QED
  BY <1>1, <1>2 DEF Announced, Plain

LEMMA AnnouncedJoin ==
  ASSUME NEW w, NEW v, NEW now, NEW x, NEW y, Linked(w, v, now), Announced(w),
         OwnJoin(x.m), NamesOf(y.m, x.m.chan)
  PROVE  Announced(Append(Append(w, x), y))
<1>1. w \in Seq(Range(w) \cup {x, y}) /\ Len(w) \in Nat
  BY DEF Linked
<1> DEFINE w1 == Append(w, x)
           w2 == Append(w1, y)
<1>2. /\ w1 \in Seq(Range(w) \cup {x, y}) /\ Len(w1) = Len(w) + 1 /\ w1[Len(w) + 1] = x
      /\ \A i \in 1 .. Len(w) : w1[i] = w[i]
  BY <1>1
<1> HIDE DEF w1
<1>3. /\ Len(w2) = Len(w1) + 1 /\ w2[Len(w1) + 1] = y
      /\ \A i \in 1 .. Len(w1) : w2[i] = w1[i]
  BY <1>2
<1> HIDE DEF w2
<1>4. /\ Len(w2) = Len(w) + 2 /\ w2[Len(w) + 1] = x /\ w2[Len(w) + 2] = y
      /\ \A i \in 1 .. Len(w) : w2[i] = w[i]
  BY <1>1, <1>2, <1>3
<1>5. ~OwnJoin(y.m)
  BY DEF OwnJoin, NamesOf
<1>6. ASSUME NEW i \in 1 .. Len(w2), OwnJoin(w2[i].m)
      PROVE  i < Len(w2) /\ NamesOf(w2[i + 1].m, w2[i].m.chan)
  <2>1. CASE i = Len(w) + 2
    BY <1>4, <1>5, <1>6, <2>1
  <2>2. CASE i = Len(w) + 1
    BY <1>1, <1>4, <2>2
  <2>3. CASE i \in 1 .. Len(w)
    <3>1. i < Len(w) /\ NamesOf(w[i + 1].m, w[i].m.chan)
      BY <1>4, <1>6, <2>3 DEF Announced
    <3> QED
      BY <1>1, <1>4, <2>3, <3>1
  <2> QED
    BY <1>1, <1>4, <2>1, <2>2, <2>3
<1>7. ASSUME NEW i \in 1 .. Len(w2), w2[i].m.kind = "NAMES", i > 1
      PROVE  OwnJoin(w2[i - 1].m) /\ NamesOf(w2[i].m, w2[i - 1].m.chan)
  <2>1. CASE i = Len(w) + 2
    <3>1. i - 1 = Len(w) + 1
      BY <1>1, <2>1
    <3> QED
      BY <1>4, <2>1, <3>1
  <2>2. CASE i = Len(w) + 1
    BY <1>4, <1>7, <2>2 DEF OwnJoin
  <2>3. CASE i \in 1 .. Len(w)
    <3>1. i - 1 \in 1 .. Len(w)
      BY <1>1, <1>7, <2>3
    <3> QED
      BY <1>4, <1>7, <2>3, <3>1 DEF Announced
  <2> QED
    BY <1>1, <1>4, <2>1, <2>2, <2>3
<1> QED
  BY <1>6, <1>7 DEF Announced, w1, w2

LEMMA AnnouncedTail ==
  ASSUME NEW w, NEW v, NEW now, Linked(w, v, now), Announced(w), w # <<>>
  PROVE  /\ Announced(Tail(w))
         /\ OwnJoin(Head(w).m) => Tail(w) # <<>> /\ NamesOf(Head(Tail(w)).m, Head(w).m.chan)
         /\ Tail(w) # <<>> /\ Head(Tail(w)).m.kind = "NAMES" =>
              OwnJoin(Head(w).m) /\ NamesOf(Head(Tail(w)).m, Head(w).m.chan)
<1>1. w \in Seq(Range(w)) /\ Len(w) \in Nat \ {0} /\ Head(w) = w[1]
  BY DEF Linked
<1>2. /\ Tail(w) \in Seq(Range(w)) /\ Len(Tail(w)) = Len(w) - 1
      /\ \A i \in 1 .. Len(w) - 1 : Tail(w)[i] = w[i + 1]
  BY <1>1
<1>3. ASSUME NEW i \in 1 .. Len(w) - 1, OwnJoin(Tail(w)[i].m)
      PROVE  i < Len(w) - 1 /\ NamesOf(Tail(w)[i + 1].m, Tail(w)[i].m.chan)
  <2>1. i + 1 \in 1 .. Len(w) /\ Tail(w)[i] = w[i + 1]
    BY <1>1, <1>2
  <2>2. i + 1 < Len(w) /\ NamesOf(w[i + 1 + 1].m, w[i + 1].m.chan)
    BY <1>3, <2>1 DEF Announced
  <2>3. i + 1 \in 1 .. Len(w) - 1
    BY <1>1, <2>2
  <2>4. Tail(w)[i + 1] = w[i + 1 + 1]
    BY <1>2, <2>3
  <2> QED
    BY <1>1, <2>1, <2>2, <2>4
<1>4. ASSUME OwnJoin(Head(w).m) PROVE Tail(w) # <<>> /\ NamesOf(Head(Tail(w)).m, Head(w).m.chan)
  <2>1. 1 < Len(w) /\ NamesOf(w[1 + 1].m, w[1].m.chan)
    BY <1>1, <1>4 DEF Announced
  <2>2. Len(Tail(w)) # 0 /\ Tail(w)[1] = w[1 + 1]
    BY <1>1, <1>2, <2>1
  <2>3. Tail(w) # <<>> /\ Head(Tail(w)) = Tail(w)[1]
    <3>1. PICK u \in Seq(Range(w)) : u = Tail(w)
      BY <1>2
    <3>2. Len(u) # 0
      BY <2>2, <3>1
    <3>3. u # <<>>
      BY <3>2, EmptySeq
    <3>4. Head(u) = u[1]
      BY <3>3
    <3> QED
      BY <3>1, <3>3, <3>4
  <2> QED
    BY <1>1, <2>1, <2>2, <2>3
<1>5. ASSUME Tail(w) # <<>>, Head(Tail(w)).m.kind = "NAMES"
      PROVE  OwnJoin(Head(w).m) /\ NamesOf(Head(Tail(w)).m, Head(w).m.chan)
  <2>1. PICK u \in Seq(Range(w)) : u = Tail(w)
    BY <1>2
  <2>2. Head(u) = u[1] /\ Len(u) \in Nat /\ Len(u) # 0
    BY <1>5, <2>1, EmptySeq
  <2>3. 1 \in 1 .. Len(w) - 1 /\ 2 \in 1 .. Len(w)
    BY <1>1, <1>2, <2>1, <2>2
  <2>4. Head(Tail(w)) = w[2]
    BY <1>2, <2>1, <2>2, <2>3
  <2> QED
    BY <1>1, <1>5, <2>3, <2>4 DEF Announced
<1>6. ASSUME NEW i \in 1 .. Len(w) - 1, Tail(w)[i].m.kind = "NAMES", i > 1
      PROVE  OwnJoin(Tail(w)[i - 1].m) /\ NamesOf(Tail(w)[i].m, Tail(w)[i - 1].m.chan)
  <2>1. i + 1 \in 1 .. Len(w) /\ Tail(w)[i] = w[i + 1] /\ i + 1 > 1
    BY <1>1, <1>2
  <2>2. i - 1 \in 1 .. Len(w) - 1 /\ i - 1 + 1 = i
    BY <1>1, <1>6
  <2>3. Tail(w)[i - 1] = w[i]
    BY <1>2, <2>2
  <2>4. OwnJoin(w[i + 1 - 1].m) /\ NamesOf(w[i + 1].m, w[i + 1 - 1].m.chan)
    BY <1>6, <2>1 DEF Announced
  <2>5. i + 1 - 1 = i
    OBVIOUS
  <2> QED
    BY <2>1, <2>3, <2>4, <2>5
<1> QED
  BY <1>2, <1>3, <1>4, <1>5, <1>6 DEF Announced

\* What Change puts on the wire.
Telling(messages, v) == [i \in DOMAIN messages |-> [m |-> messages[i], after |-> v]]

LEMMA OneMessage ==
  ASSUME NEW w, w \in Seq(Range(w)), NEW m, NEW v
  PROVE  w \o Telling(<<m>>, v) = Append(w, Told(m, v))
<1>1. PICK x : x = Told(m, v)
  OBVIOUS
<1>2. Telling(<<m>>, v) = <<x>>
  BY <1>1 DEF Telling, Told
<1>3. w \in Seq(Range(w) \cup {x}) /\ x \in Range(w) \cup {x}
  OBVIOUS
<1>4. Append(w, x) = w \o <<x>>
  BY <1>3, AppendIsConcat
<1> QED
  BY <1>1, <1>2, <1>4

LEMMA TwoMessages ==
  ASSUME NEW w, w \in Seq(Range(w)), NEW m, NEW n, NEW v
  PROVE  w \o Telling(<<m, n>>, v) = Append(Append(w, Told(m, v)), Told(n, v))
<1>1. PICK x : x = Told(m, v)
  OBVIOUS
<1>2. PICK y : y = Told(n, v)
  OBVIOUS
<1>3. Telling(<<m, n>>, v) = <<x, y>>
  BY <1>1, <1>2 DEF Telling, Told
<1> DEFINE S == Range(w) \cup {x, y}
<1>4. w \in Seq(S) /\ x \in S /\ y \in S
  OBVIOUS
<1> HIDE DEF S
<1>5. Append(Append(w, x), y) = w \o <<x, y>>
  BY <1>4
<1> QED
  BY <1>1, <1>2, <1>3, <1>5

\* The server changes and tells of it in one message, if the bot is to hear of it.
LEMMA ToldInOne ==
  ASSUME IInv, ServerTypes', NEW m, NEW heard \in BOOLEAN, Change(heard, <<m>>),
         IF heard THEN Tells(m, Truth, Truth') /\ Plain(m) ELSE Truth' = Truth
  PROVE  IInv'
<1>1. Linked(wire, seen, Truth) /\ Announced(wire) /\ wire \in Seq(Range(wire))
  BY DEF IInv, Linked
<1>2. View(Truth')
  BY TruthShowsNext
<1>3. PICK old : old = Truth
  OBVIOUS
<1>4. PICK new : new = Truth'
  OBVIOUS
<1>5. BotAsOf(seen)' /\ seen' = seen /\ synced' = synced
  BY DEF IInv, Change, bot, history, BotAsOf, BotTypes, AccountsAsOf, RecordsAsOf
<1>6. /\ Linked(wire', seen, Truth') /\ Announced(wire')
      /\ wire # <<>> => wire' # <<>> /\ Head(wire') = Head(wire)
      /\ wire = <<>> /\ wire' # <<>> => Head(wire').m = m /\ Plain(m)
  <2>1. CASE heard
    <3>1. wire' = wire \o Telling(<<m>>, new)
      BY <1>4, <2>1 DEF Change, Telling
    <3>2. PICK x : x = Told(m, new)
      OBVIOUS
    <3>3. wire' = Append(wire, x)
      BY <1>1, <3>1, <3>2, OneMessage
    <3>4. Linked(Append(wire, x), seen, new)
      BY <1>1, <1>2, <1>3, <1>4, <2>1, <3>2, LinkedAppend
    <3>5. x.m = m
      BY <3>2 DEF Told
    <3>6. Announced(Append(wire, x))
      BY <1>1, <1>3, <2>1, <3>5, AnnouncedAppend
    <3>7. wire \in Seq(Range(wire) \cup {x}) /\ x \in Range(wire) \cup {x}
      BY <1>1
    <3>8. wire # <<>> => Append(wire, x) # <<>> /\ Head(Append(wire, x)) = Head(wire)
      BY <3>7, HeadTailAppend, AppendProperties
    <3>9. wire = <<>> => Head(Append(wire, x)) = x
      BY <3>7, HeadTailAppend
    <3> QED
      BY <1>4, <2>1, <3>3, <3>4, <3>5, <3>6, <3>8, <3>9
  <2>2. CASE ~heard
    BY <1>1, <2>2 DEF Change
  <2> QED
    BY <2>1, <2>2
<1>7. AwaitsNames'
  BY <1>5, <1>6 DEF IInv, AwaitsNames, Plain
<1> QED
  BY <1>5, <1>6, <1>7 DEF IInv

\* The bot joins a channel: JOIN, and NAMES right after it.
LEMMA ToldInTwo ==
  ASSUME IInv, ServerTypes', NEW m, NEW n, Change(TRUE, <<m, n>>), OwnJoin(m),
         Tells(m, Truth, Truth'), Tells(n, Truth', Truth'), NamesOf(n, m.chan)
  PROVE  IInv'
<1>1. Linked(wire, seen, Truth) /\ Announced(wire) /\ wire \in Seq(Range(wire))
  BY DEF IInv, Linked
<1>2. View(Truth')
  BY TruthShowsNext
<1>3. PICK old : old = Truth
  OBVIOUS
<1>4. PICK new : new = Truth'
  OBVIOUS
<1>5. BotAsOf(seen)' /\ seen' = seen /\ synced' = synced
  BY DEF IInv, Change, bot, history, BotAsOf, BotTypes, AccountsAsOf, RecordsAsOf
<1>6. PICK x : x = Told(m, new)
  OBVIOUS
<1>7. PICK y : y = Told(n, new)
  OBVIOUS
<1>8. wire' = wire \o Telling(<<m, n>>, new)
  BY <1>4 DEF Change, Telling
<1>9. PICK w1 : w1 = Append(wire, x)
  OBVIOUS
<1>10. wire' = Append(w1, y)
  BY <1>1, <1>6, <1>7, <1>8, <1>9, TwoMessages
<1>11. Linked(w1, seen, new)
  BY <1>1, <1>2, <1>3, <1>4, <1>6, <1>9, LinkedAppend
<1>12. Linked(wire', seen, new)
  BY <1>2, <1>4, <1>7, <1>10, <1>11, LinkedAppend
<1>13. NamesOf(y.m, x.m.chan)
  BY <1>6, <1>7 DEF Told
<1>14. Announced(wire')
  <2>1. OwnJoin(x.m)
    BY <1>6 DEF Told
  <2> QED
    BY <1>1, <1>3, <1>9, <1>10, <1>13, <2>1, AnnouncedJoin
<1>15. wire \in Seq(Range(wire) \cup {x, y})
  BY <1>1
<1>16. w1 \in Seq(Range(wire) \cup {x, y}) /\ (wire # <<>> => w1 # <<>> /\ Head(w1) = Head(wire))
  BY <1>9, <1>15, HeadTailAppend, AppendProperties
<1>17. wire # <<>> => wire' # <<>> /\ Head(wire') = Head(wire)
  BY <1>10, <1>16, HeadTailAppend, AppendProperties
<1>18. wire = <<>> => Head(wire').m = m
  <2>1. wire = <<>> => w1 # <<>> /\ Head(w1) = x
    BY <1>9, <1>15, HeadTailAppend, AppendProperties
  <2>2. w1 # <<>> => Head(wire') = Head(w1)
    BY <1>10, <1>16, HeadTailAppend
  <2> QED
    BY <1>6, <2>1, <2>2 DEF Told
<1>19. AwaitsNames'
  BY <1>5, <1>17, <1>18 DEF IInv, AwaitsNames, OwnJoin
<1> QED
  BY <1>4, <1>5, <1>12, <1>14, <1>19 DEF IInv

LEMMA ServerTurns ==
  ASSUME ServerTypes, ServerTypes'
  PROVE  Turns(Server, Server', Truth, Truth')
  BY ServerIs, ServerIsNext, TruthShows, TruthShowsNext DEF Turns

\* NAMES and WHO list the channel as it is.
LEMMA ListTold ==
  ServerTypes =>
    \A c \in Channels : Me \in Members(c) =>
      /\ NamesOf(NamesReply(c), c) /\ There(Truth, c) /\ Lists(NamesReply(c), Truth)
<1> SUFFICES ASSUME ServerTypes, NEW c \in Channels, Me \in Members(c)
             PROVE  /\ NamesOf(NamesReply(c), c) /\ There(Truth, c)
                    /\ Lists(NamesReply(c), Truth)
  OBVIOUS
<1> DEFINE entry(u) == [nick |-> nick[u], host |-> host[u], modes |-> on[c][u]]
<1>1. ShowsChannel(Server, Truth, c)
  BY TruthShows DEF Shows, Server, Members
<1>2. PICK m : m = NamesReply(c)
  OBVIOUS
<1>3. m.kind = "NAMES" /\ m.chan = c /\ m.list = [u \in Members(c) |-> entry(u)]
  BY <1>2 DEF NamesReply
<1>4. \A x : x \in Range(m.list) <=> \E u \in Members(c) : x = entry(u)
  BY <1>3 DEF Range
<1>5. PICK v : v = Truth
  OBVIOUS
<1>6. /\ There(v, c)
      /\ \A u \in Members(c) : In(v, c, nick[u]) = [host |-> host[u], modes |-> on[c][u]]
      /\ \A n \in Nicks : (\A u \in Members(c) : nick[u] # n) => In(v, c, n) = Absent
  BY <1>1, <1>5 DEF ShowsChannel, Server, Members
<1>7. \A u \in Members(c) : nick[u] \in Nicks /\ host[u] \in Hosts /\ on[c][u] \in SUBSET Prefix
  BY DEF ServerTypes
<1>8. \A x \in Range(m.list) :
        /\ x.nick \in Nicks /\ x.host \in Hosts /\ x.modes \in SUBSET Prefix
        /\ In(v, m.chan, x.nick) = [host |-> x.host, modes |-> x.modes]
  <2> TAKE x \in Range(m.list)
  <2>1. PICK u \in Members(c) : x = entry(u)
    BY <1>4
  <2>2. x.nick = nick[u] /\ x.host = host[u] /\ x.modes = on[c][u]
    BY <2>1
  <2> QED
    BY <1>3, <1>6, <1>7, <2>2
<1>9. ASSUME NEW n \in Nicks, In(v, m.chan, n) # Absent PROVE \E x \in Range(m.list) : x.nick = n
  <2>1. PICK u \in Members(c) : nick[u] = n
    BY <1>3, <1>6, <1>9
  <2>2. entry(u) \in Range(m.list) /\ entry(u).nick = n
    BY <1>4, <2>1
  <2> QED
    BY <2>2
<1> QED
  BY <1>2, <1>3, <1>5, <1>6, <1>8, <1>9 DEF NamesOf, Lists

LEMMA ListToldNext ==
  ServerTypes' =>
    \A c \in Channels : Me \in Members(c)' =>
      /\ NamesOf(NamesReply(c)', c) /\ There(Truth', c) /\ Lists(NamesReply(c)', Truth')
<1> DEFINE Listed == \A c \in Channels : Me \in Members(c) =>
          /\ NamesOf(NamesReply(c), c) /\ There(Truth, c) /\ Lists(NamesReply(c), Truth)
<1>1. ServerTypes => Listed
  BY ListTold
<1> HIDE DEF Listed
<1>2. (ServerTypes => Listed)'
  BY <1>1, PTL
<1> QED
  BY <1>2 DEF Listed

LEMMA JoinStep ==
  ASSUME IInv, NEW u \in People, NEW c \in Channels, Join(u, c)
  PROVE  IInv'
<1>1. /\ u \notin DOMAIN on[c] /\ UNCHANGED <<nick, host, acct, chan>>
      /\ on' = [on EXCEPT ![c] = [v \in DOMAIN on[c] \cup {u} |-> IF v = u THEN {} ELSE on[c][v]]]
  BY DEF Join, Members
<1>2. ServerTypes /\ DOMAIN on = Channels
  BY DEF IInv, ServerTypes
<1>3. /\ \A d \in Channels \ {c} : on'[d] = on[d]
      /\ on'[c] = [v \in DOMAIN on[c] \cup {u} |-> IF v = u THEN {} ELSE on[c][v]]
      /\ DOMAIN on' = Channels
  BY <1>1, <1>2
<1>4. ServerTypes'
  <2>1. ASSUME NEW d \in Channels
        PROVE  DOMAIN on'[d] \subseteq People /\ on'[d] \in [DOMAIN on'[d] -> SUBSET Prefix]
    <3>1. DOMAIN on[d] \subseteq People /\ on[d] \in [DOMAIN on[d] -> SUBSET Prefix]
      BY <1>2 DEF ServerTypes, Members
    <3>2. CASE d = c
      BY <1>3, <3>1, <3>2
    <3>3. CASE d # c
      BY <1>3, <3>1, <3>3
    <3> QED
      BY <3>2, <3>3
  <2> QED
    BY <1>1, <1>2, <1>3, <2>1 DEF ServerTypes, Members
<1>5. PICK p : p = Server
  OBVIOUS
<1>6. PICK q : q = Server'
  OBVIOUS
<1>7. PICK s : s = Truth
  OBVIOUS
<1>8. PICK t : t = Truth'
  OBVIOUS
<1>9. Turns(p, q, s, t)
  BY <1>2, <1>4, <1>5, <1>6, <1>7, <1>8, ServerTurns
<1>10. /\ p.nick = nick /\ p.host = host /\ p.acct = acct /\ p.chan = chan /\ p.on = on
       /\ q.nick = p.nick /\ q.host = p.host /\ q.acct = p.acct /\ q.chan = p.chan /\ q.on = on'
  BY <1>1, <1>5, <1>6 DEF Server
<1>11. PICK m : m = [kind |-> "JOIN", chan |-> c, nick |-> nick[u], host |-> host[u],
                     account |-> acct[u]]
  OBVIOUS
<1>17. /\ u \notin DOMAIN p.on[c] /\ \A d \in Channels \ {c} : q.on[d] = p.on[d]
       /\ q.on[c] = [v \in DOMAIN p.on[c] \cup {u} |-> IF v = u THEN {} ELSE p.on[c][v]]
  BY <1>1, <1>3, <1>10
<1>12. IF Me \in DOMAIN q.on[c] THEN TellsJoin(m, s, t) ELSE t = s
  BY <1>9, <1>10, <1>11, <1>17, JoinTold
<1>13. m.kind = "JOIN" /\ m.nick = nick[u] /\ m.chan = c
  BY <1>11
<1>14. nick[Me] = MyNick /\ Me \in People
  BY <1>2 DEF ServerTypes, People
<1>15. CASE u = Me
  <2>1. Me \in Members(c)'
    BY <1>3, <1>15 DEF Members
  <2>2. PICK n : n = NamesReply(c)'
    OBVIOUS
  <2>3. Change(TRUE, <<m, n>>)
    BY <1>11, <1>15, <2>1, <2>2 DEF Join, Change
  <2>4. NamesOf(n, m.chan) /\ There(t, c) /\ Lists(n, t)
    BY <1>4, <1>8, <1>13, <2>1, <2>2, ListToldNext
  <2>5. Tells(m, s, t)
    BY <1>10, <1>12, <1>13, <2>1 DEF Tells, Members
  <2>6. Tells(n, t, t)
    BY <1>13, <2>4 DEF Tells, TellsList, NamesOf
  <2>7. OwnJoin(m)
    BY <1>13, <1>14, <1>15 DEF OwnJoin
  <2> QED
    BY <1>4, <1>7, <1>8, <2>3, <2>4, <2>5, <2>6, <2>7, ToldInTwo
<1>16. CASE u # Me
  <2>1. PICK heard \in BOOLEAN : heard <=> Me \in Members(c)'
    <3>1. CASE Me \in Members(c)'
      BY <3>1
    <3>2. CASE Me \notin Members(c)'
      BY <3>2
    <3> QED
      BY <3>1, <3>2
  <2>2. Change(heard, <<m>>)
    BY <1>11, <1>16, <2>1 DEF Join, Change
  <2>3. Plain(m)
    BY <1>2, <1>13, <1>14, <1>16, NickIsOne DEF OwnJoin, Plain
  <2>4. IF heard THEN Tells(m, s, t) ELSE t = s
    BY <1>10, <1>12, <1>13, <2>1 DEF Tells, Members
  <2> QED
    BY <1>4, <1>7, <1>8, <2>2, <2>3, <2>4, ToldInOne
<1> QED
  BY <1>15, <1>16

\* PART and KICK.
LEMMA PartStep ==
  ASSUME IInv, NEW u \in People, NEW c \in Channels, NEW kind \in {"PART", "KICK"}, Part(u, c, kind)
  PROVE  IInv'
<1>1. u \in DOMAIN on[c] /\ on' = [on EXCEPT ![c] = Restrict(@, DOMAIN on[c] \ {u})]
      /\ UNCHANGED <<nick, host, acct, chan>>
  BY DEF Part, Leave, Members
<1>2. ServerTypes
  BY DEF IInv
<1>3. /\ \A d \in Channels \ {c} : on'[d] = on[d]
      /\ on'[c] = Restrict(on[c], DOMAIN on[c] \ {u}) /\ DOMAIN on' = Channels
  BY <1>1, <1>2 DEF ServerTypes
<1>4. ServerTypes'
  <2>1. ASSUME NEW d \in Channels
        PROVE  DOMAIN on'[d] \subseteq People /\ on'[d] \in [DOMAIN on'[d] -> SUBSET Prefix]
    <3>1. DOMAIN on[d] \subseteq People /\ on[d] \in [DOMAIN on[d] -> SUBSET Prefix]
      BY <1>2 DEF ServerTypes, Members
    <3>2. CASE d = c
      BY <1>1, <1>3, <3>1, <3>2 DEF Restrict
    <3>3. CASE d # c
      BY <1>3, <3>1, <3>3
    <3> QED
      BY <3>2, <3>3
  <2> QED
    BY <1>1, <1>2, <1>3, <2>1 DEF ServerTypes, Members, IsInjective, People, Standing
<1>5. PICK p : p = Server
  OBVIOUS
<1>6. PICK q : q = Server'
  OBVIOUS
<1>7. PICK s : s = Truth
  OBVIOUS
<1>8. PICK t : t = Truth'
  OBVIOUS
<1>9. Turns(p, q, s, t)
  BY <1>2, <1>4, <1>5, <1>6, <1>7, <1>8, ServerTurns
<1>10. /\ p.nick = nick /\ p.host = host /\ p.acct = acct /\ p.chan = chan /\ p.on = on
       /\ q.nick = nick' /\ q.host = host' /\ q.acct = acct' /\ q.chan = chan' /\ q.on = on'
  BY <1>5, <1>6 DEF Server
<1>11. PICK m : m = [kind |-> kind, chan |-> c, nick |-> nick[u]]
  OBVIOUS
<1>12. m.kind = kind /\ m.chan = c
  BY <1>11
<1>13. PICK heard \in BOOLEAN : heard <=> Me \in Members(c)
  <2>1. CASE Me \in Members(c)
    BY <2>1
  <2>2. CASE ~(Me \in Members(c))
    BY <2>2
  <2> QED
    BY <2>1, <2>2
<1>14. Change(heard, <<m>>)
  BY <1>11, <1>13 DEF Part, Leave, Members, Change
<1>15. /\ u \in DOMAIN p.on[c] /\ \A d \in Channels \ {c} : q.on[d] = p.on[d]
       /\ q.on[c] = Restrict(p.on[c], DOMAIN p.on[c] \ {u})
       /\ q.nick = p.nick /\ q.host = p.host /\ q.acct = p.acct /\ q.chan = p.chan
  BY <1>1, <1>3, <1>10
<1>16. IF Me \in DOMAIN p.on[c] THEN TellsPart(m, s, t) ELSE t = s
  BY <1>9, <1>10, <1>11, <1>15, PartTold
<1>17. Plain(m)
  BY <1>12 DEF OwnJoin, Plain
<1>18. IF heard THEN Tells(m, s, t) ELSE t = s
  BY <1>10, <1>12, <1>13, <1>16 DEF Tells, Members, Meets, Sees
<1> QED
  BY <1>4, <1>7, <1>8, <1>14, <1>17, <1>18, ToldInOne

\* QUIT.
LEMMA QuitStep ==
  ASSUME IInv, NEW u \in Users, NEW n \in Nicks, Quit(u, n)
  PROVE  IInv'
<1>1. /\ n = nick[u] \/ n \notin Range(nick)
      /\ on' = [c \in Channels |-> Restrict(on[c], DOMAIN on[c] \ {u})]
      /\ nick' = [nick EXCEPT ![u] = n] /\ acct' = [acct EXCEPT ![u] = NoAccount]
      /\ UNCHANGED <<host, chan>>
  BY DEF Quit, Members
<1>2. ServerTypes
  BY DEF IInv
<1>3. /\ \A c \in Channels : on'[c] = Restrict(on[c], DOMAIN on[c] \ {u})
      /\ DOMAIN on' = Channels /\ u \in People /\ u # Me /\ Me \in People
      /\ n = nick[u] \/ \A w \in People : nick[w] # n
  BY <1>1, <1>2, ChannelStateAssumption DEF ServerTypes, People, Range
<1>4. ServerTypes'
  <2>1. ASSUME NEW d \in Channels
        PROVE  DOMAIN on'[d] \subseteq People /\ on'[d] \in [DOMAIN on'[d] -> SUBSET Prefix]
    <3>1. DOMAIN on[d] \subseteq People /\ on[d] \in [DOMAIN on[d] -> SUBSET Prefix]
      BY <1>2 DEF ServerTypes, Members
    <3>2. on'[d] = [w \in DOMAIN on[d] \ {u} |-> on[d][w]]
      BY <1>3 DEF Restrict
    <3> QED
      BY <3>1, <3>2
  <2> QED
    BY <1>1, <1>2, <1>3, <2>1 DEF ServerTypes, Members, IsInjective, People, Standing
<1>5. PICK p : p = Server
  OBVIOUS
<1>6. PICK q : q = Server'
  OBVIOUS
<1>7. PICK s : s = Truth
  OBVIOUS
<1>8. PICK t : t = Truth'
  OBVIOUS
<1>9. Turns(p, q, s, t)
  BY <1>2, <1>4, <1>5, <1>6, <1>7, <1>8, ServerTurns
<1>10. /\ p.nick = nick /\ p.host = host /\ p.acct = acct /\ p.chan = chan /\ p.on = on
       /\ q.nick = nick' /\ q.host = host' /\ q.acct = acct' /\ q.chan = chan' /\ q.on = on'
  BY <1>5, <1>6 DEF Server
<1>11. PICK m : m = [kind |-> "QUIT", nick |-> nick[u]]
  OBVIOUS
<1>12. m.kind = "QUIT" /\ m.nick = nick[u]
  BY <1>11
<1>13. PICK heard \in BOOLEAN : heard <=> Sees(u)
  <2>1. CASE Sees(u)
    BY <2>1
  <2>2. CASE ~(Sees(u))
    BY <2>2
  <2> QED
    BY <2>1, <2>2
<1>14. Change(heard, <<m>>)
  BY <1>11, <1>13 DEF Quit, Members, Change
<1>15. /\ n = p.nick[u] \/ \A w \in People : p.nick[w] # n
       /\ q.nick = [p.nick EXCEPT ![u] = n] /\ q.acct = [p.acct EXCEPT ![u] = NoAccount]
       /\ q.host = p.host /\ q.chan = p.chan
       /\ \A c \in Channels : q.on[c] = Restrict(p.on[c], DOMAIN p.on[c] \ {u})
  BY <1>1, <1>3, <1>10
<1>16. IF Meets(p.on, u) THEN TellsQuit(m, s, t) ELSE t = s
  BY <1>9, <1>10, <1>11, <1>15, QuitTold
<1>17. Plain(m)
  BY <1>12 DEF OwnJoin, Plain
<1>18. IF heard THEN Tells(m, s, t) ELSE t = s
  BY <1>10, <1>12, <1>13, <1>16 DEF Tells, Members, Meets, Sees
<1> QED
  BY <1>4, <1>7, <1>8, <1>14, <1>17, <1>18, ToldInOne

\* NICK.
LEMMA ChangeNickStep ==
  ASSUME IInv, NEW u \in Users, NEW n \in Nicks, ChangeNick(u, n)
  PROVE  IInv'
<1>1. n \notin Range(nick) /\ nick' = [nick EXCEPT ![u] = n]
      /\ UNCHANGED <<host, acct, on, chan>>
  BY DEF ChangeNick
<1>2. ServerTypes
  BY DEF IInv
<1>3. /\ u \in People /\ u # Me /\ Me \in People
      /\ \A w \in People : nick[w] # n
  BY <1>1, <1>2, ChannelStateAssumption DEF ServerTypes, People, Range
<1>4. ServerTypes'
  BY <1>1, <1>2, <1>3 DEF ServerTypes, Members, IsInjective, People, Standing
<1>5. PICK p : p = Server
  OBVIOUS
<1>6. PICK q : q = Server'
  OBVIOUS
<1>7. PICK s : s = Truth
  OBVIOUS
<1>8. PICK t : t = Truth'
  OBVIOUS
<1>9. Turns(p, q, s, t)
  BY <1>2, <1>4, <1>5, <1>6, <1>7, <1>8, ServerTurns
<1>10. /\ p.nick = nick /\ p.host = host /\ p.acct = acct /\ p.chan = chan /\ p.on = on
       /\ q.nick = nick' /\ q.host = host' /\ q.acct = acct' /\ q.chan = chan' /\ q.on = on'
  BY <1>5, <1>6 DEF Server
<1>11. PICK m : m = [kind |-> "NICK", nick |-> nick[u], new |-> n]
  OBVIOUS
<1>12. m.kind = "NICK" /\ m.nick = nick[u]
  BY <1>11
<1>13. PICK heard \in BOOLEAN : heard <=> Sees(u)
  <2>1. CASE Sees(u)
    BY <2>1
  <2>2. CASE ~(Sees(u))
    BY <2>2
  <2> QED
    BY <2>1, <2>2
<1>14. Change(heard, <<m>>)
  BY <1>11, <1>13 DEF ChangeNick, Change
<1>15. /\ \A w \in People : p.nick[w] # n
       /\ q.nick = [p.nick EXCEPT ![u] = n] /\ q.acct = p.acct /\ q.on = p.on
       /\ q.host = p.host /\ q.chan = p.chan
  BY <1>1, <1>3, <1>10
<1>16. IF Meets(p.on, u) THEN TellsNick(m, s, t) ELSE t = s
  BY <1>9, <1>10, <1>11, <1>15, NickTold
<1>17. Plain(m)
  BY <1>12 DEF OwnJoin, Plain
<1>18. IF heard THEN Tells(m, s, t) ELSE t = s
  BY <1>10, <1>12, <1>13, <1>16 DEF Tells, Members, Meets, Sees
<1> QED
  BY <1>4, <1>7, <1>8, <1>14, <1>17, <1>18, ToldInOne

\* MODE of a user.
LEMMA UserModeStep ==
  ASSUME IInv, NEW u \in People, NEW c \in Channels, NEW x \in Prefix, UserMode(u, c, x)
  PROVE  IInv'
<1>1. u \in DOMAIN on[c] /\ UNCHANGED <<nick, host, acct, chan>>
      /\ on' = [on EXCEPT ![c][u] = IF x \notin on[c][u] THEN @ \cup {x} ELSE @ \ {x}]
  BY DEF UserMode, Members
<1>2. ServerTypes
  BY DEF IInv
<1>3. /\ \A d \in Channels \ {c} : on'[d] = on[d]
      /\ on'[c] = [on[c] EXCEPT ![u] = IF x \notin on[c][u] THEN @ \cup {x} ELSE @ \ {x}]
      /\ DOMAIN on' = Channels
  BY <1>1, <1>2 DEF ServerTypes
<1>4. ServerTypes'
  <2>1. ASSUME NEW d \in Channels
        PROVE  DOMAIN on'[d] \subseteq People /\ on'[d] \in [DOMAIN on'[d] -> SUBSET Prefix]
    <3>1. DOMAIN on[d] \subseteq People /\ on[d] \in [DOMAIN on[d] -> SUBSET Prefix]
      BY <1>2 DEF ServerTypes, Members
    <3>2. CASE d = c
      BY <1>1, <1>3, <3>1, <3>2
    <3>3. CASE d # c
      BY <1>3, <3>1, <3>3
    <3> QED
      BY <3>2, <3>3
  <2> QED
    BY <1>1, <1>2, <1>3, <2>1 DEF ServerTypes, Members, IsInjective, People, Standing
<1>5. PICK p : p = Server
  OBVIOUS
<1>6. PICK q : q = Server'
  OBVIOUS
<1>7. PICK s : s = Truth
  OBVIOUS
<1>8. PICK t : t = Truth'
  OBVIOUS
<1>9. Turns(p, q, s, t)
  BY <1>2, <1>4, <1>5, <1>6, <1>7, <1>8, ServerTurns
<1>10. /\ p.nick = nick /\ p.host = host /\ p.acct = acct /\ p.chan = chan /\ p.on = on
       /\ q.nick = nick' /\ q.host = host' /\ q.acct = acct' /\ q.chan = chan' /\ q.on = on'
  BY <1>5, <1>6 DEF Server
<1>11. PICK m : m = [kind |-> "MODE", chan |-> c, mode |-> x, adds |-> x \notin on[c][u], param |-> nick[u]]
  OBVIOUS
<1>12. m.kind = "MODE" /\ m.chan = c
  BY <1>11
<1>13. PICK heard \in BOOLEAN : heard <=> Me \in Members(c)
  <2>1. CASE Me \in Members(c)
    BY <2>1
  <2>2. CASE ~(Me \in Members(c))
    BY <2>2
  <2> QED
    BY <2>1, <2>2
<1>14. Change(heard, <<m>>)
  BY <1>11, <1>13 DEF UserMode, Members, Change
<1>15. /\ u \in DOMAIN p.on[c] /\ \A d \in Channels \ {c} : q.on[d] = p.on[d]
       /\ q.nick = p.nick /\ q.acct = p.acct /\ q.host = p.host /\ q.chan = p.chan
  BY <1>1, <1>3, <1>10
<1>19. PICK adds \in BOOLEAN : adds = (x \notin on[c][u])
  OBVIOUS
<1>20. q.on[c] = [p.on[c] EXCEPT ![u] = IF adds THEN @ \cup {x} ELSE @ \ {x}]
  BY <1>3, <1>10, <1>19
<1>16. IF Me \in DOMAIN p.on[c] THEN TellsMode(m, s, t) ELSE t = s
  <2>1. m = [kind |-> "MODE", chan |-> c, mode |-> x, adds |-> adds, param |-> p.nick[u]]
    BY <1>10, <1>11, <1>19
  <2> QED
    BY <1>9, <1>15, <1>20, <2>1, UserModeTold
<1>17. Plain(m)
  BY <1>12 DEF OwnJoin, Plain
<1>18. IF heard THEN Tells(m, s, t) ELSE t = s
  BY <1>10, <1>12, <1>13, <1>16 DEF Tells, Members, Meets, Sees
<1> QED
  BY <1>4, <1>7, <1>8, <1>14, <1>17, <1>18, ToldInOne

\* ACCOUNT.
LEMMA LoginStep ==
  ASSUME IInv, NEW u \in Users, NEW a \in Standing, Login(u, a)
  PROVE  IInv'
<1>1. UNCHANGED <<nick, host, on, chan>> /\ acct' = [acct EXCEPT ![u] = a]
  BY DEF Login
<1>2. ServerTypes
  BY DEF IInv
<1>3. u \in People /\ acct' \in [People -> Standing]
  BY <1>1, <1>2 DEF ServerTypes, People
<1>4. ServerTypes'
  BY <1>1, <1>2, <1>3 DEF ServerTypes, Members, IsInjective, People, Standing
<1>5. PICK p : p = Server
  OBVIOUS
<1>6. PICK q : q = Server'
  OBVIOUS
<1>7. PICK s : s = Truth
  OBVIOUS
<1>8. PICK t : t = Truth'
  OBVIOUS
<1>9. Turns(p, q, s, t)
  BY <1>2, <1>4, <1>5, <1>6, <1>7, <1>8, ServerTurns
<1>10. /\ p.nick = nick /\ p.host = host /\ p.acct = acct /\ p.chan = chan /\ p.on = on
       /\ q.nick = nick' /\ q.host = host' /\ q.acct = acct' /\ q.chan = chan' /\ q.on = on'
  BY <1>5, <1>6 DEF Server
<1>11. PICK m : m = [kind |-> "ACCOUNT", nick |-> nick[u], account |-> a]
  OBVIOUS
<1>12. m.kind = "ACCOUNT" /\ m.nick = nick[u]
  BY <1>11
<1>13. PICK heard \in BOOLEAN : heard <=> Sees(u)
  <2>1. CASE Sees(u)
    BY <2>1
  <2>2. CASE ~(Sees(u))
    BY <2>2
  <2> QED
    BY <2>1, <2>2
<1>14. Change(heard, <<m>>)
  BY <1>11, <1>13 DEF Login, Change
<1>15. /\ q.acct = [p.acct EXCEPT ![u] = a]
       /\ q.nick = p.nick /\ q.host = p.host /\ q.on = p.on /\ q.chan = p.chan
  BY <1>1, <1>10
<1>16. IF Meets(p.on, u) THEN TellsAccount(m, s, t) ELSE t = s
  <2>1. m = [kind |-> "ACCOUNT", nick |-> p.nick[u], account |-> a]
    BY <1>10, <1>11
  <2>2. u \in People
    BY <1>3
  <2> QED
    BY <1>9, <1>15, <2>1, <2>2, LoginTold
<1>17. Plain(m)
  BY <1>12 DEF OwnJoin, Plain
<1>18. IF heard THEN Tells(m, s, t) ELSE t = s
  BY <1>10, <1>12, <1>13, <1>16 DEF Tells, Members, Meets, Sees
<1> QED
  BY <1>4, <1>7, <1>8, <1>14, <1>17, <1>18, ToldInOne

\* CHGHOST.
LEMMA ChangeHostStep ==
  ASSUME IInv, NEW u \in Users, NEW h \in Hosts, ChangeHost(u, h)
  PROVE  IInv'
<1>1. UNCHANGED <<nick, acct, on, chan>> /\ host' = [host EXCEPT ![u] = h]
  BY DEF ChangeHost
<1>2. ServerTypes
  BY DEF IInv
<1>3. u \in People /\ host' \in [People -> Hosts]
  BY <1>1, <1>2 DEF ServerTypes, People
<1>4. ServerTypes'
  BY <1>1, <1>2, <1>3 DEF ServerTypes, Members, IsInjective, People, Standing
<1>5. PICK p : p = Server
  OBVIOUS
<1>6. PICK q : q = Server'
  OBVIOUS
<1>7. PICK s : s = Truth
  OBVIOUS
<1>8. PICK t : t = Truth'
  OBVIOUS
<1>9. Turns(p, q, s, t)
  BY <1>2, <1>4, <1>5, <1>6, <1>7, <1>8, ServerTurns
<1>10. /\ p.nick = nick /\ p.host = host /\ p.acct = acct /\ p.chan = chan /\ p.on = on
       /\ q.nick = nick' /\ q.host = host' /\ q.acct = acct' /\ q.chan = chan' /\ q.on = on'
  BY <1>5, <1>6 DEF Server
<1>11. PICK m : m = [kind |-> "CHGHOST", nick |-> nick[u], host |-> h]
  OBVIOUS
<1>12. m.kind = "CHGHOST" /\ m.nick = nick[u]
  BY <1>11
<1>13. PICK heard \in BOOLEAN : heard <=> Sees(u)
  <2>1. CASE Sees(u)
    BY <2>1
  <2>2. CASE ~(Sees(u))
    BY <2>2
  <2> QED
    BY <2>1, <2>2
<1>14. Change(heard, <<m>>)
  BY <1>11, <1>13 DEF ChangeHost, Change
<1>15. /\ q.host = [p.host EXCEPT ![u] = h]
       /\ q.nick = p.nick /\ q.acct = p.acct /\ q.on = p.on /\ q.chan = p.chan
  BY <1>1, <1>10
<1>16. IF Meets(p.on, u) THEN TellsHost(m, s, t) ELSE t = s
  <2>1. m = [kind |-> "CHGHOST", nick |-> p.nick[u], host |-> h]
    BY <1>10, <1>11
  <2>2. u \in People
    BY <1>3
  <2> QED
    BY <1>9, <1>15, <2>1, <2>2, HostTold
<1>17. Plain(m)
  BY <1>12 DEF OwnJoin, Plain
<1>18. IF heard THEN Tells(m, s, t) ELSE t = s
  BY <1>10, <1>12, <1>13, <1>16 DEF Tells, Members, Meets, Sees
<1> QED
  BY <1>4, <1>7, <1>8, <1>14, <1>17, <1>18, ToldInOne

\* MODE of a channel.
LEMMA ChanModeStep ==
  ASSUME IInv, NEW c \in Channels, NEW m, m.kind = "MODE", m.chan = c,
         m.mode \in Flags \cup {"k"}, m.adds \in BOOLEAN, m.param \in Keys \cup {""},
         UNCHANGED <<nick, host, acct, on>>, chan' = [chan EXCEPT ![c] = ModesSet(chan[c], m)],
         NEW heard \in BOOLEAN, heard <=> Me \in Members(c), Change(heard, <<m>>)
  PROVE  IInv'
<1>1. UNCHANGED <<nick, host, acct, on>> /\ chan' = [chan EXCEPT ![c] = ModesSet(chan[c], m)]
  OBVIOUS
<1>2. ServerTypes
  BY DEF IInv
<1>3. chan \in [Channels -> ChanModes]
  BY <1>2 DEF ServerTypes
<1>4. ServerTypes'
  <2>1. ModesSet(chan[c], m) \in ChanModes
    <3>1. chan[c].flags \in SUBSET Flags /\ chan[c].key \in Keys \cup {""}
      BY <1>3 DEF ChanModes
    <3>2. m.mode # "k" => m.mode \in Flags
      OBVIOUS
    <3> QED
      BY <3>1, <3>2 DEF ModesSet, ChanModes
  <2>2. chan' \in [Channels -> ChanModes]
    BY <1>1, <1>3, <2>1
  <2> QED
    BY <1>1, <1>2, <2>2 DEF ServerTypes, Members, IsInjective
<1>5. PICK p : p = Server
  OBVIOUS
<1>6. PICK q : q = Server'
  OBVIOUS
<1>7. PICK s : s = Truth
  OBVIOUS
<1>8. PICK t : t = Truth'
  OBVIOUS
<1>9. Turns(p, q, s, t)
  BY <1>2, <1>4, <1>5, <1>6, <1>7, <1>8, ServerTurns
<1>10. /\ p.nick = nick /\ p.host = host /\ p.acct = acct /\ p.chan = chan /\ p.on = on
       /\ q.nick = nick' /\ q.host = host' /\ q.acct = acct' /\ q.chan = chan' /\ q.on = on'
  BY <1>5, <1>6 DEF Server
<1>11. q.nick = p.nick /\ q.host = p.host /\ q.acct = p.acct /\ q.on = p.on
  BY <1>1, <1>10
<1>12. \A d \in Channels \ {c} : q.chan[d] = p.chan[d]
  BY <1>1, <1>3, <1>10
<1>13. q.chan[c] = ModesSet(p.chan[c], m)
  BY <1>1, <1>3, <1>10
<1>14. IF Me \in DOMAIN p.on[c] THEN TellsMode(m, s, t) ELSE t = s
  <2>1. ModesTurn(p, q, c, m)
    BY <1>11, <1>12, <1>13 DEF ModesTurn
  <2> QED
    BY ONLY <1>9, <2>1, ChanModeTold
<1>15. Plain(m)
  BY DEF OwnJoin, Plain
<1>16. IF heard THEN Tells(m, s, t) ELSE t = s
  BY <1>10, <1>14 DEF Tells, Members
<1> QED
  BY <1>4, <1>7, <1>8, <1>15, <1>16, ToldInOne

LEMMA FlagSet ==
  ASSUME NEW old, old = [flags |-> old.flags, key |-> old.key], NEW new
  PROVE  [old EXCEPT !.flags = new] = [flags |-> new, key |-> old.key]
  OBVIOUS

LEMMA KeySet ==
  ASSUME NEW old, old = [flags |-> old.flags, key |-> old.key], NEW new
  PROVE  [old EXCEPT !.key = new] = [flags |-> old.flags, key |-> new]
  OBVIOUS

LEMMA FlagModeStep ==
  ASSUME IInv, NEW c \in Channels, NEW f \in Flags, FlagMode(c, f)
  PROVE  IInv'
<1>1. PICK old : old = chan[c]
  OBVIOUS
<1>2. old = [flags |-> old.flags, key |-> old.key] /\ chan \in [Channels -> ChanModes]
  BY <1>1 DEF IInv, ServerTypes, ChanModes
<1>3. PICK heard \in BOOLEAN : heard <=> Me \in Members(c)
  <2>1. CASE Me \in Members(c)
    BY <2>1
  <2>2. CASE Me \notin Members(c)
    BY <2>2
  <2> QED
    BY <2>1, <2>2
<1>4. PICK adds \in BOOLEAN : adds = (f \notin chan[c].flags)
  OBVIOUS
<1>5. PICK m : m = [kind |-> "MODE", chan |-> c, mode |-> f, adds |-> f \notin chan[c].flags, param |-> ""]
  OBVIOUS
<1>6. m.kind = "MODE" /\ m.chan = c /\ m.mode = f /\ m.adds = adds /\ m.param = "" /\ f # "k"
  BY <1>4, <1>5 DEF Flags
<1>7. Change(heard, <<m>>)
  BY <1>3, <1>5 DEF FlagMode, Change
<1>8. PICK new : new = IF adds THEN old.flags \cup {f} ELSE old.flags \ {f}
  OBVIOUS
<1>9. chan' = [chan EXCEPT ![c] = [old EXCEPT !.flags = new]]
  <2>1. chan' = [chan EXCEPT ![c].flags = IF adds THEN old.flags \cup {f} ELSE old.flags \ {f}]
    BY <1>1, <1>4 DEF FlagMode
  <2> QED
    BY <1>1, <1>8, <2>1
<1>10. [old EXCEPT !.flags = new] = [flags |-> new, key |-> old.key]
  BY <1>2, FlagSet
<1>11. ModesSet(old, m) = [flags |-> new, key |-> old.key]
  BY <1>6, <1>8 DEF ModesSet
<1>12. UNCHANGED <<nick, host, acct, on>>
  BY DEF FlagMode
<1>13. chan' = [chan EXCEPT ![c] = ModesSet(chan[c], m)]
  BY <1>1, <1>9, <1>10, <1>11
<1>14. m.mode \in Flags \cup {"k"} /\ m.adds \in BOOLEAN /\ m.param \in Keys \cup {""}
  BY <1>6
<1> QED
  BY <1>3, <1>6, <1>7, <1>12, <1>13, <1>14, ChanModeStep

LEMMA KeyModeStep ==
  ASSUME IInv, NEW c \in Channels, NEW k \in Keys \cup {""}, KeyMode(c, k)
  PROVE  IInv'
<1>1. PICK old : old = chan[c]
  OBVIOUS
<1>2. old = [flags |-> old.flags, key |-> old.key] /\ chan \in [Channels -> ChanModes]
  BY <1>1 DEF IInv, ServerTypes, ChanModes
<1>3. PICK heard \in BOOLEAN : heard <=> Me \in Members(c)
  <2>1. CASE Me \in Members(c)
    BY <2>1
  <2>2. CASE Me \notin Members(c)
    BY <2>2
  <2> QED
    BY <2>1, <2>2
<1>4. PICK adds \in BOOLEAN : adds = (k # "")
  OBVIOUS
<1>5. PICK m : m = [kind |-> "MODE", chan |-> c, mode |-> "k", adds |-> k # "", param |-> k]
  OBVIOUS
<1>6. m.kind = "MODE" /\ m.chan = c /\ m.mode = "k" /\ m.adds = adds /\ m.param = k
  BY <1>4, <1>5
<1>7. Change(heard, <<m>>)
  BY <1>3, <1>5 DEF KeyMode, Change
<1>9. chan' = [chan EXCEPT ![c] = [old EXCEPT !.key = k]]
  BY <1>1 DEF KeyMode
<1>10. [old EXCEPT !.key = k] = [flags |-> old.flags, key |-> k]
  BY <1>2, KeySet
<1>11. ModesSet(old, m) = [flags |-> old.flags, key |-> k]
  <2>1. (IF m.adds THEN m.param ELSE "") = k
    BY <1>4, <1>6
  <2> QED
    BY <1>6, <2>1 DEF ModesSet
<1>12. UNCHANGED <<nick, host, acct, on>>
  BY DEF KeyMode
<1>13. chan' = [chan EXCEPT ![c] = ModesSet(chan[c], m)]
  BY <1>1, <1>9, <1>10, <1>11
<1>14. m.mode \in Flags \cup {"k"} /\ m.adds \in BOOLEAN /\ m.param \in Keys \cup {""}
  BY <1>6
<1> QED
  BY <1>3, <1>6, <1>7, <1>12, <1>13, <1>14, ChanModeStep

LEMMA TruthStays == server' = server => Truth' = Truth
<1> SUFFICES ASSUME server' = server PROVE Truth' = Truth
  OBVIOUS
<1>1. nick' = nick /\ host' = host /\ acct' = acct /\ on' = on /\ chan' = chan
  BY DEF server
<1>2. \A c : Picture(c)' = Picture(c)
  BY <1>1 DEF Picture, Members, Record
<1>3. \A n : Identity(n)' = Identity(n)
  BY <1>1 DEF Identity, Sees, Members
<1> QED
  BY <1>2, <1>3 DEF Truth

\* Messages that change nothing.
LEMMA AnswerStep ==
  ASSUME IInv, NEW c \in Channels, Answer(c)
  PROVE  IInv'
<1>1. Me \in Members(c) /\ server' = server /\ Truth' = Truth
  BY TruthStays DEF Answer
<1>2. ServerTypes
  BY DEF IInv
<1>3. ServerTypes'
  BY <1>1, <1>2 DEF ServerTypes, server, Members, IsInjective
<1>4. ShowsChannel(Server, Truth, c) /\ ShowsAccounts(Server, Truth)
  BY <1>1, <1>2, TruthShows DEF Shows, Server, Members
<1>5. PICK v : v = Truth
  OBVIOUS
<1>6. ASSUME NEW u \in Members(c) \ {Me}, NEW m,
             m = [kind |-> "PRIVMSG", nick |-> nick[u], account |-> acct[u]], Change(TRUE, <<m>>)
      PROVE  IInv'
  <2>1. m.kind = "PRIVMSG" /\ m.nick = nick[u] /\ m.account = acct[u]
    BY <1>6
  <2>2. u \in People /\ nick[u] \in Nicks /\ acct[u] \in Standing
    BY <1>2 DEF ServerTypes
  <2>3. v.accts[nick[u]] = acct[u]
    BY <1>1, <1>4, <1>5, <2>2 DEF ShowsAccounts, Server, Meets, Members
  <2>4. "unseen" \notin Standing
    BY ChannelStateAssumption DEF Standing, NoAccount
  <2>5. TellsAccount(m, v, v)
    BY <2>1, <2>2, <2>3, <2>4 DEF TellsAccount
  <2>6. Tells(m, Truth, Truth') /\ Plain(m)
    BY <1>1, <1>5, <2>1, <2>5 DEF Tells, OwnJoin, Plain
  <2> QED
    BY <1>3, <1>6, <2>6, ToldInOne
<1>7. ASSUME NEW m, m = [NamesReply(c) EXCEPT !.kind = "WHO"], Change(TRUE, <<m>>)
      PROVE  IInv'
  <2>1. PICK r : r = NamesReply(c)
    OBVIOUS
  <2>2. NamesOf(r, c) /\ There(v, c) /\ Lists(r, v)
    BY <1>1, <1>2, <1>5, <2>1, ListTold
  <2>3. m.kind = "WHO" /\ m.chan = r.chan /\ m.list = r.list
    BY <1>7, <2>1 DEF NamesReply
  <2>4. TellsList(m, v, v)
    BY <2>2, <2>3 DEF TellsList, Lists, NamesOf
  <2>5. Tells(m, Truth, Truth') /\ Plain(m)
    BY <1>1, <1>5, <2>3, <2>4 DEF Tells, OwnJoin, Plain
  <2> QED
    BY <1>3, <1>7, <2>5, ToldInOne
<1>8. ASSUME NEW m, m = [kind |-> "MODEIS", chan |-> c, modes |-> chan[c]], Change(TRUE, <<m>>)
      PROVE  IInv'
  <2>1. m.kind = "MODEIS" /\ m.chan = c /\ m.modes = chan[c]
    BY <1>8
  <2>2. TellsModes(m, v, v)
    BY <1>4, <1>5, <2>1 DEF TellsModes, ShowsChannel, Server
  <2>3. Tells(m, Truth, Truth') /\ Plain(m)
    BY <1>1, <1>5, <2>1, <2>2 DEF Tells, OwnJoin, Plain
  <2> QED
    BY <1>3, <1>8, <2>3, ToldInOne
<1> QED
  BY <1>6, <1>7, <1>8 DEF Answer

----------------------------------------------------------------------------
(* The handlers: what they do to a table, and to the bot's knowledge of one nick. *)

\* What the bot has right of a nick it keeps having right, if nothing is new but the
\* account of one it does not see.
LEMMA RightStays ==
  ASSUME NEW x \in Nicks, NEW us, UsersType(us), NEW lf, NEW st, NEW p, NEW a,
         Right(us, lf, st, x, p, a),
         NEW us2, NEW lf2, NEW st2, NEW p2, NEW a2,
         x \in DOMAIN us2 <=> x \in DOMAIN us, x \in DOMAIN us => us2[x] = us[x],
         x \in lf2 <=> x \in lf, x \in st2 <=> x \in st, p2 = p, p # Absent => a2 = a
  PROVE  Right(us2, lf2, st2, x, p2, a2)
<1>1. ASSUME x \in DOMAIN us \ (lf \cup st) PROVE us[x].account \in {Unknown, a2}
  <2>1. p = [host |-> us[x].host, modes |-> us[x].modes]
    BY <1>1 DEF Right
  <2>2. us[x].host \in Hosts /\ us[x].modes \in SUBSET Prefix
    BY <1>1 DEF UsersType, UserInfo
  <2>3. p # Absent
    BY <2>1, <2>2, ChannelStateAssumption DEF Records
  <2> QED
    BY <1>1, <2>3 DEF Right
<1> QED
  BY <1>1 DEF Right

\* A handler that works on the users of one channel, or of each.
LEMMA OneChannel ==
  ASSUME BotTypes, NEW c \in Channels, NEW us, UsersType(us),
         channels' = [channels EXCEPT ![c].users = us]
  PROVE  /\ channels' = [d \in Channels |-> channels'[d]]
         /\ \A d \in Channels :
              /\ ChannelInfo(channels'[d]) /\ channels'[d].modes = channels[d].modes
              /\ channels'[d].users = IF d = c THEN us ELSE channels[d].users
<1>1. channels = [d \in Channels |-> channels[d]]
  BY DEF BotTypes
<1>2. \A d \in Channels : channels[d] = [users |-> channels[d].users, modes |-> channels[d].modes]
                          /\ ChannelInfo(channels[d])
  BY DEF BotTypes, ChannelInfo
<1>3. \A d \in Channels \ {c} : channels'[d] = channels[d]
  BY <1>1
<1>4. channels'[c] = [users |-> us, modes |-> channels[c].modes]
  BY <1>1, <1>2
<1>5. ChannelInfo(channels'[c])
  <2>1. PICK ch : ch = channels'[c]
    OBVIOUS
  <2>2. PICK modes \in ChanModes : modes = channels[c].modes
    BY <1>2 DEF ChannelInfo
  <2>3. ch = [users |-> us, modes |-> modes]
    BY <1>4, <2>1, <2>2
  <2> QED
    BY <2>1, <2>3 DEF ChannelInfo
<1> QED
  BY <1>1, <1>2, <1>3, <1>4, <1>5

LEMMA AllChannels ==
  ASSUME BotTypes, NEW users, \A c \in Channels : UsersType(users[c]),
         channels' = EachChannel(users)
  PROVE  /\ channels' = [d \in Channels |-> channels'[d]]
         /\ \A d \in Channels :
              /\ ChannelInfo(channels'[d]) /\ channels'[d].modes = channels[d].modes
              /\ channels'[d].users = users[d]
<1>1. ASSUME NEW d \in Channels
      PROVE  channels'[d] = [users |-> users[d], modes |-> channels[d].modes]
  <2>1. channels'[d] = [channels[d] EXCEPT !.users = users[d]]
    BY DEF EachChannel
  <2>2. channels[d] = [users |-> channels[d].users, modes |-> channels[d].modes]
    BY DEF BotTypes, ChannelInfo
  <2> QED
    BY <2>1, <2>2
<1>2. \A d \in Channels : channels[d].modes \in ChanModes
  BY DEF BotTypes, ChannelInfo
<1>3. channels' = [d \in Channels |-> channels'[d]]
  BY DEF EachChannel
<1> QED
  BY <1>1, <1>2, <1>3 DEF ChannelInfo

\* The bot reads m, after which t is what it may know.
Reads(m, t) == wire # <<>> /\ m = Head(wire).m /\ t = Head(wire).after /\ Deliver

LEMMA ReadsWhat ==
  ASSUME IInv, NEW m, NEW t, Reads(m, t)
  PROVE  /\ View(seen) /\ View(t) /\ Tells(m, seen, t) /\ seen' = t
         /\ UNCHANGED server /\ ServerTypes /\ nick[Me] = MyNick /\ BotAsOf(seen) /\ BotTypes
         /\ m.kind # "NAMES" => \A c \in Channels : There(seen, c) => c \in synced
         /\ m.kind = "NAMES" => m.chan \notin synced
<1>1. Linked(wire, seen, Truth) /\ ServerTypes /\ BotAsOf(seen) /\ AwaitsNames /\ wire # <<>>
  BY DEF IInv, Reads
<1>2. PICK now : now = Truth
  OBVIOUS
<1>3. View(seen)
  BY <1>1 DEF Linked
<1>4. Tells(Head(wire).m, seen, Head(wire).after) /\ Linked(Tail(wire), Head(wire).after, now)
  BY <1>1, <1>2, LinkedTail
<1>5. View(t) /\ Tells(m, seen, t)
  BY <1>4 DEF Reads, Linked
<1>6. seen' = t /\ UNCHANGED server
  BY DEF Reads, Deliver
<1>7. m.kind # "NAMES" => \A c \in Channels : There(seen, c) => c \in synced
  BY <1>1 DEF AwaitsNames, NamesOf, Reads
<1>8. m.kind = "NAMES" => m.chan \notin synced
  BY <1>1 DEF AwaitsNames, Reads
<1> QED
  BY <1>1, <1>3, <1>5, <1>6, <1>7, <1>8 DEF ServerTypes, BotAsOf

\* What the message does to history, apart from what is about accounts.
LEMMA ReadsHistory ==
  ASSUME IInv, NEW m, NEW t, Reads(m, t)
  PROVE  /\ left' \in [Channels -> SUBSET Nicks] /\ stale' \in [Channels -> SUBSET Nicks]
         /\ \A c \in Channels : left'[c] = LeftAfter(c, m) /\ stale'[c] = StaleAfter(c, m)
         /\ synced' \subseteq Channels /\ known' \subseteq Channels /\ orphan' \subseteq DOMAIN accounts'
<1>1. Tells(m, seen, t) /\ BotTypes
  BY ReadsWhat
<1>2. /\ left' = [c \in Channels |-> LeftAfter(c, m)] /\ stale' = [c \in Channels |-> StaleAfter(c, m)]
      /\ orphan' \subseteq DOMAIN accounts'
  BY DEF Reads, Deliver
<1>3. ASSUME NEW c \in Channels PROVE LeftAfter(c, m) \subseteq Nicks /\ StaleAfter(c, m) \subseteq Nicks
  <2>1. m.kind = "NICK" => m.new \in Nicks
    BY <1>1 DEF Tells, TellsNick
  <2>2. left[c] \subseteq Nicks /\ stale[c] \subseteq Nicks /\ DOMAIN channels[c].users \subseteq Nicks
    BY <1>1 DEF BotTypes, ChannelInfo, UsersType
  <2>3. LeftAfter(c, m) \subseteq Nicks
    BY <2>1, <2>2 DEF LeftAfter
  <2>4. StaleAfter(c, m) \subseteq Nicks
    BY <2>1, <2>2 DEF StaleAfter
  <2> QED
    BY <2>3, <2>4
<1>4. synced' \subseteq Channels /\ known' \subseteq Channels
  <2>1. m.kind \in {"NAMES", "MODEIS"} => m.chan \in Channels
    BY <1>1 DEF Tells, TellsList, TellsModes
  <2>2. synced \subseteq Channels /\ known \subseteq Channels
    BY <1>1 DEF BotTypes
  <2>3. synced' \subseteq synced \cup (IF m.kind = "NAMES" THEN {m.chan} ELSE {})
    BY DEF Reads, Deliver
  <2>4. known' \subseteq known \cup (IF m.kind = "MODEIS" THEN {m.chan} ELSE {})
    BY DEF Reads, Deliver
  <2> QED
    BY <2>1, <2>2, <2>3, <2>4
<1> QED
  BY <1>2, <1>3, <1>4

OwnPart(m) == m.kind \in {"PART", "KICK"} /\ m.nick = MyNick

\* Where the bot is only its own JOIN, PART and KICK change.
LEMMA WhereItIs ==
  ASSUME NEW m, NEW s, NEW t, Tells(m, s, t), NEW c \in Channels
  PROVE  /\ ~OwnJoin(m) /\ ~OwnPart(m) => (There(t, c) <=> There(s, c))
         /\ OwnJoin(m) => m.chan \in Channels /\ ~There(s, m.chan) /\ There(t, m.chan)
         /\ OwnPart(m) => m.chan \in Channels /\ ~There(t, m.chan)
         /\ (OwnJoin(m) \/ OwnPart(m)) /\ m.chan # c => (There(t, c) <=> There(s, c))
<1>1. CASE m.kind = "JOIN"
  BY <1>1 DEF Tells, TellsJoin, OwnJoin, OwnPart, RestOf, OtherChannels, There
<1>2. CASE m.kind \in {"PART", "KICK"}
  BY <1>2 DEF Tells, TellsPart, OwnJoin, OwnPart, RestOf, OtherChannels, There
<1>3. CASE m.kind = "QUIT"
  BY <1>3 DEF Tells, TellsQuit, OwnJoin, OwnPart, RestOf
<1>4. CASE m.kind = "NICK"
  BY <1>4 DEF Tells, TellsNick, OwnJoin, OwnPart
<1>5. CASE m.kind = "MODE"
  BY <1>5 DEF Tells, TellsMode, OwnJoin, OwnPart, OtherChannels, There
<1>6. CASE m.kind \in {"NAMES", "WHO"}
  BY <1>6 DEF Tells, TellsList, OwnJoin, OwnPart
<1>7. CASE m.kind = "MODEIS"
  BY <1>7 DEF Tells, TellsModes, OwnJoin, OwnPart
<1>8. CASE m.kind \in {"ACCOUNT", "PRIVMSG"}
  BY <1>8 DEF Tells, TellsAccount, OwnJoin, OwnPart, There
<1>9. CASE m.kind = "CHGHOST"
  BY <1>9 DEF Tells, TellsHost, OwnJoin, OwnPart, RestOf
<1> QED
  BY <1>1, <1>2, <1>3, <1>4, <1>5, <1>6, <1>7, <1>8, <1>9 DEF Tells

LEMMA AwaitsNext ==
  ASSUME IInv, NEW m, NEW t, Reads(m, t)
  PROVE  AwaitsNames'
<1>1. /\ Tells(m, seen, t) /\ seen' = t /\ nick[Me] = MyNick
      /\ m.kind # "NAMES" => \A c \in Channels : There(seen, c) => c \in synced
      /\ wire' = Tail(wire) /\ wire # <<>> /\ m = Head(wire).m
  BY ReadsWhat DEF Reads, Deliver
<1>2. \A c \in Channels : c \in synced => There(seen, c)
  BY DEF IInv, AwaitsNames
<1>3. PICK now : now = Truth
  OBVIOUS
<1>4. Linked(wire, seen, now) /\ Announced(wire)
  BY <1>3 DEF IInv
<1>5. /\ OwnJoin(m) => wire' # <<>> /\ NamesOf(Head(wire').m, m.chan)
      /\ wire' # <<>> /\ Head(wire').m.kind = "NAMES" =>
           OwnJoin(m) /\ NamesOf(Head(wire').m, m.chan)
  BY <1>1, <1>4, AnnouncedTail
<1>6. synced' = CASE m.kind = "NAMES" -> synced \cup {m.chan}
                  [] m.kind \in {"PART", "KICK"} /\ m.nick = MyNick -> synced \ {m.chan}
                  [] OTHER -> synced
  BY <1>1 DEF Reads, Deliver, Own
<1>7. ASSUME NEW c \in Channels
      PROVE  IF c \in synced' THEN There(t, c)
             ELSE There(t, c) => wire' # <<>> /\ NamesOf(Head(wire').m, c)
  <2>1. CASE OwnJoin(m)
    <3>1. synced' = synced
      BY <1>6, <2>1 DEF OwnJoin
    <3>2. m.kind # "NAMES"
      BY <2>1 DEF OwnJoin
    <3> QED
      BY <1>1, <1>2, <1>5, <2>1, <3>1, <3>2, WhereItIs
  <2>2. CASE OwnPart(m)
    <3>1. synced' = synced \ {m.chan} /\ m.kind # "NAMES" /\ ~OwnJoin(m)
      BY <1>6, <2>2 DEF OwnPart, OwnJoin
    <3> QED
      BY <1>1, <1>2, <2>2, <3>1, WhereItIs
  <2>3. CASE m.kind = "NAMES"
    <3>1. synced' = synced \cup {m.chan} /\ t = seen /\ There(seen, m.chan)
      BY <1>1, <1>6, <2>3 DEF Tells, TellsList
    <3>2. c # m.chan => ~NamesOf(m, c)
      BY DEF NamesOf
    <3>3. c \notin synced /\ There(seen, c) => NamesOf(m, c)
      BY <1>1 DEF IInv, AwaitsNames
    <3> QED
      BY <1>2, <3>1, <3>2, <3>3
  <2>4. CASE ~OwnJoin(m) /\ ~OwnPart(m) /\ m.kind # "NAMES"
    <3>1. synced' = synced
      BY <1>6, <2>4 DEF OwnPart
    <3> QED
      BY <1>1, <1>2, <2>4, <3>1, WhereItIs
  <2> QED
    BY <2>1, <2>2, <2>3, <2>4
<1>8. ASSUME wire' # <<>>, Head(wire').m.kind = "NAMES" PROVE Head(wire').m.chan \notin synced'
  <2>1. OwnJoin(m) /\ Head(wire').m.chan = m.chan
    BY <1>5, <1>8 DEF NamesOf
  <2>2. synced' = synced /\ m.chan \in Channels
    BY <1>1, <1>6, <2>1 DEF OwnJoin, Tells, TellsJoin
  <2> QED
    BY <1>1, <1>2, <2>1, <2>2, WhereItIs
<1> QED
  BY <1>1, <1>7, <1>8 DEF AwaitsNames

\* The bot's records after a message, channel by channel and nick by nick.
LEMMA RecordsFollowAll ==
  ASSUME IInv, NEW m, NEW t, Reads(m, t), ~OwnJoin(m), m.kind # "NAMES",
         \A c \in Channels, x \in Nicks :
           There(seen, c) /\ There(t, c)
           /\ (\A y \in Nicks :
                 Right(channels[c].users, left[c], stale[c], y, In(seen, c, y), seen.accts[y]))
           => Right(channels'[c].users, left'[c], stale'[c], x, In(t, c, x), t.accts[x]),
         \A c \in Channels :
           There(seen, c) /\ There(t, c) /\ c \in known'
           /\ (c \in known => channels[c].modes = seen.chans[c].modes)
           => channels'[c].modes = t.chans[c].modes
  PROVE  RecordsAsOf(seen)'
<1>1. /\ Tells(m, seen, t) /\ seen' = t /\ nick[Me] = MyNick /\ RecordsAsOf(seen)
      /\ \A c \in Channels : There(seen, c) => c \in synced
  BY ReadsWhat DEF BotAsOf
<1>2. ASSUME NEW c \in Channels, There(t, c)
      PROVE  There(seen, c) /\ c \in synced'
  <2>1. There(seen, c) /\ (OwnPart(m) => m.chan # c)
    BY <1>1, <1>2, WhereItIs
  <2>2. c \in synced
    BY <1>1, <2>1
  <2> QED
    BY <1>1, <2>1, <2>2 DEF Reads, Deliver, Own, OwnPart
<1>3. ASSUME NEW c \in Channels, There(t, c)
      PROVE  /\ \A x \in Nicks :
                  Right(channels'[c].users, left'[c], stale'[c], x, In(t, c, x), t.accts[x])
             /\ c \in known' => channels'[c].modes = t.chans[c].modes
  <2>1. There(seen, c) /\ c \in synced
    BY <1>1, <1>2, <1>3
  <2>2. /\ \A x \in Nicks :
             Right(channels[c].users, left[c], stale[c], x, In(seen, c, x), seen.accts[x])
        /\ c \in known => channels[c].modes = seen.chans[c].modes
    BY <1>1, <2>1 DEF RecordsAsOf
  <2> QED
    BY <1>3, <2>1, <2>2
<1> QED
  BY <1>1, <1>2, <1>3 DEF RecordsAsOf

\* The same, when what is right of a nick depends on what was right of it only.
LEMMA RecordsFollow ==
  ASSUME IInv, NEW m, NEW t, Reads(m, t), ~OwnJoin(m), m.kind # "NAMES",
         \A c \in Channels, x \in Nicks :
           There(seen, c) /\ There(t, c)
           /\ Right(channels[c].users, left[c], stale[c], x, In(seen, c, x), seen.accts[x])
           => Right(channels'[c].users, left'[c], stale'[c], x, In(t, c, x), t.accts[x]),
         \A c \in Channels :
           There(seen, c) /\ There(t, c) /\ c \in known'
           /\ (c \in known => channels[c].modes = seen.chans[c].modes)
           => channels'[c].modes = t.chans[c].modes
  PROVE  RecordsAsOf(seen)'
<1>1. \A c \in Channels, x \in Nicks :
        There(seen, c) /\ There(t, c)
        /\ (\A y \in Nicks :
              Right(channels[c].users, left[c], stale[c], y, In(seen, c, y), seen.accts[y]))
        => Right(channels'[c].users, left'[c], stale'[c], x, In(t, c, x), t.accts[x])
  OBVIOUS
<1> QED
  BY <1>1, RecordsFollowAll

LEMMA TypesFollow ==
  ASSUME IInv, NEW m, NEW t, Reads(m, t),
         channels' = [c \in Channels |-> channels'[c]],
         \A c \in Channels : ChannelInfo(channels'[c]),
         DOMAIN accounts' \subseteq Nicks, accounts' \in [DOMAIN accounts' -> Standing]
  PROVE  BotTypes'
<1>1. /\ left' \in [Channels -> SUBSET Nicks] /\ stale' \in [Channels -> SUBSET Nicks]
      /\ synced' \subseteq Channels /\ known' \subseteq Channels /\ orphan' \subseteq DOMAIN accounts'
  BY ReadsHistory
<1> QED
  BY <1>1 DEF BotTypes

\* A message that is about no account leaves them as they are, or out of sight.
LEMMA AccountsFollow ==
  ASSUME IInv, NEW m, NEW t, Reads(m, t), accounts' = accounts, Doubtful(m) = orphan,
         \A x \in Nicks : t.accts[x] \in {"unseen", seen.accts[x]}
  PROVE  /\ AccountsAsOf(seen)'
         /\ DOMAIN accounts' \subseteq Nicks /\ accounts' \in [DOMAIN accounts' -> Standing]
<1>1. /\ seen' = t /\ AccountsAsOf(seen)
      /\ DOMAIN accounts \subseteq Nicks /\ accounts \in [DOMAIN accounts -> Standing]
  BY ReadsWhat DEF BotAsOf, BotTypes
<1>2. orphan' = DOMAIN accounts \cap (orphan \cup OutOfSight(t))
  BY <1>1 DEF Reads, Deliver
<1>3. ASSUME NEW n \in DOMAIN accounts \ orphan' PROVE accounts[n] = t.accts[n]
  <2>1. n \notin orphan /\ n \in Nicks /\ t.accts[n] # "unseen"
    BY <1>1, <1>2, <1>3 DEF OutOfSight
  <2> QED
    BY <1>1, <1>3, <2>1 DEF AccountsAsOf
<1> QED
  BY <1>1, <1>3 DEF AccountsAsOf

\* Where the account of a nick in a channel may not have changed, it has not.
LEMMA SeenKeeps ==
  ASSUME NEW s, NEW t, View(s), View(t), NEW c \in Channels, There(s, c), There(t, c),
         NEW x \in Nicks, In(t, c, x) = In(s, c, x), In(s, c, x) # Absent,
         s.accts[x] # "unseen" /\ t.accts[x] # "unseen" => s.accts[x] = t.accts[x]
  PROVE  t.accts[x] = s.accts[x]
  BY DEF View, Coherent

LEMMA PartRead ==
  ASSUME IInv, NEW m, NEW t, Reads(m, t), m.kind \in {"PART", "KICK"}
  PROVE  BotAsOf(seen)'
<1>1. /\ TellsPart(m, seen, t) /\ View(seen) /\ View(t) /\ BotTypes /\ seen' = t
      /\ nick[Me] = MyNick
  BY ReadsWhat DEF Tells
<1>2. PICK c \in Channels : c = m.chan
  BY <1>1 DEF TellsPart
<1>3. PICK n \in Nicks : n = m.nick
  BY <1>1 DEF TellsPart
<1>4. PICK us : us = Without(channels[c].users, n)
  OBVIOUS
<1>5. channels' = [channels EXCEPT ![c].users = us] /\ accounts' = accounts
  BY <1>2, <1>3, <1>4 DEF Reads, Deliver, Handle, OnKick, OnPart, b
<1>6. UsersType(channels[c].users)
  BY <1>1 DEF BotTypes, ChannelInfo
<1>7. /\ DOMAIN us = DOMAIN channels[c].users \ {n} /\ us = [x \in DOMAIN us |-> us[x]]
      /\ \A x \in DOMAIN us : us[x] = channels[c].users[x]
  <2>1. PICK old : old = channels[c].users
    OBVIOUS
  <2>2. us = Without(old, n)
    BY <1>4, <2>1
  <2>3. /\ DOMAIN us = DOMAIN old \ {n} /\ us = [x \in DOMAIN us |-> us[x]]
        /\ \A x \in DOMAIN us : us[x] = old[x]
    BY <2>2 DEF Without, Restrict
  <2> QED
    BY <2>1, <2>3
<1>8. UsersType(us)
  BY <1>6, <1>7 DEF UsersType
<1>9. /\ channels' = [d \in Channels |-> channels'[d]]
      /\ \A d \in Channels :
           /\ ChannelInfo(channels'[d]) /\ channels'[d].modes = channels[d].modes
           /\ channels'[d].users = IF d = c THEN us ELSE channels[d].users
  BY <1>1, <1>5, <1>8, OneChannel
<1>10. Doubtful(m) = orphan
  BY DEF Doubtful
<1>11. /\ AccountsAsOf(seen)'
       /\ DOMAIN accounts' \subseteq Nicks /\ accounts' \in [DOMAIN accounts' -> Standing]
  BY <1>1, <1>5, <1>10, AccountsFollow DEF TellsPart
<1>12. BotTypes'
  BY <1>9, <1>11, TypesFollow
<1>13. /\ \A d \in Channels : left'[d] = IF d = c THEN left[d] \ {n} ELSE left[d]
       /\ \A d \in Channels : stale'[d] = stale[d]
       /\ known' = known
  BY <1>2, <1>3, ReadsHistory DEF LeftAfter, StaleAfter, Reads, Deliver
<1>14. ASSUME NEW d \in Channels, NEW x \in Nicks, There(seen, d), There(t, d),
              Right(channels[d].users, left[d], stale[d], x, In(seen, d, x), seen.accts[x])
       PROVE  Right(channels'[d].users, left'[d], stale'[d], x, In(t, d, x), t.accts[x])
  <2>1. CASE d = c /\ x = n
    <3>1. In(t, c, n) = Absent
      BY <1>1, <1>2, <1>3, <1>14, <2>1 DEF TellsPart
    <3> QED
      BY <1>7, <1>9, <2>1, <3>1 DEF Right
  <2>2. CASE d # c \/ x # n
    <3>1. In(t, d, x) = In(seen, d, x)
      BY <1>1, <1>2, <1>3, <1>14, <2>2 DEF TellsPart, RestOf, OtherChannels, In
    <3>2. In(seen, d, x) # Absent => t.accts[x] = seen.accts[x]
      BY <1>1, <1>14, <3>1, SeenKeeps DEF TellsPart
    <3>3. UsersType(channels[d].users)
      BY <1>1 DEF BotTypes, ChannelInfo
    <3>4. /\ x \in DOMAIN channels'[d].users <=> x \in DOMAIN channels[d].users
          /\ x \in DOMAIN channels[d].users => channels'[d].users[x] = channels[d].users[x]
          /\ x \in left'[d] <=> x \in left[d]
          /\ x \in stale'[d] <=> x \in stale[d]
      BY <1>7, <1>9, <1>13, <2>2
    <3> QED
      BY <1>14, <3>1, <3>2, <3>3, <3>4, RightStays
  <2> QED
    BY <2>1, <2>2
<1>15. ASSUME NEW d \in Channels, There(seen, d), There(t, d), d \in known => channels[d].modes = seen.chans[d].modes
       PROVE  d \in known' => channels'[d].modes = t.chans[d].modes
  BY <1>1, <1>2, <1>9, <1>13, <1>15 DEF TellsPart, RestOf, OtherChannels
<1>16. ~OwnJoin(m) /\ m.kind # "NAMES"
  BY DEF OwnJoin
<1>17. RecordsAsOf(seen)'
  BY <1>14, <1>15, <1>16, RecordsFollow
<1> QED
  BY <1>11, <1>12, <1>17 DEF BotAsOf

\* Somebody joins; the bot itself too, when all it has of the channel becomes old.
LEMMA JoinAccounts ==
  ASSUME IInv, NEW m, NEW t, Reads(m, t), m.kind = "JOIN"
  PROVE  /\ AccountsAsOf(seen)'
         /\ DOMAIN accounts' \subseteq Nicks /\ accounts' \in [DOMAIN accounts' -> Standing]
<1>1. /\ TellsJoin(m, seen, t) /\ seen' = t /\ AccountsAsOf(seen)
      /\ DOMAIN accounts \subseteq Nicks /\ accounts \in [DOMAIN accounts -> Standing]
  BY ReadsWhat DEF Tells, BotAsOf, BotTypes
<1>2. PICK n \in Nicks : n = m.nick
  BY <1>1 DEF TellsJoin
<1>3. PICK a \in Standing : a = m.account
  BY <1>1 DEF TellsJoin
<1>4. accounts' = With(accounts, n, a)
  BY <1>2, <1>3 DEF Reads, Deliver, Handle, OnJoin
<1>5. /\ DOMAIN accounts' = DOMAIN accounts \cup {n} /\ accounts'[n] = a
      /\ accounts' = [x \in DOMAIN accounts' |-> accounts'[x]]
      /\ \A x \in DOMAIN accounts \ {n} : accounts'[x] = accounts[x]
  BY <1>4 DEF With
<1>6. orphan' = DOMAIN accounts' \cap ((orphan \ {n}) \cup OutOfSight(t))
  BY <1>1, <1>2 DEF Reads, Deliver, Doubtful
<1>7. ASSUME NEW x \in DOMAIN accounts' \ orphan' PROVE accounts'[x] = t.accts[x]
  <2>1. CASE x = n
    BY <1>1, <1>2, <1>3, <1>5, <2>1 DEF TellsJoin
  <2>2. CASE x # n
    <3>1. x \in DOMAIN accounts /\ x \notin orphan /\ x \in Nicks /\ t.accts[x] # "unseen"
      BY <1>1, <1>5, <1>6, <1>7, <2>2 DEF OutOfSight
    <3>2. accounts[x] = seen.accts[x] /\ accounts[x] # "unseen"
      BY <1>1, <3>1, ChannelStateAssumption DEF AccountsAsOf, Standing, NoAccount
    <3> QED
      BY <1>1, <1>2, <1>5, <2>2, <3>1, <3>2 DEF TellsJoin, AccountsKeep
  <2> QED
    BY <2>1, <2>2
<1> QED
  BY <1>1, <1>5, <1>7 DEF AccountsAsOf

LEMMA JoinRead ==
  ASSUME IInv, NEW m, NEW t, Reads(m, t), m.kind = "JOIN"
  PROVE  BotAsOf(seen)'
<1>1. /\ TellsJoin(m, seen, t) /\ View(seen) /\ View(t) /\ BotTypes /\ seen' = t
      /\ nick[Me] = MyNick /\ BotAsOf(seen) /\ Tells(m, seen, t)
  BY ReadsWhat DEF Tells
<1>2. PICK c \in Channels : c = m.chan
  BY <1>1 DEF TellsJoin
<1>3. PICK n \in Nicks : n = m.nick
  BY <1>1 DEF TellsJoin
<1>4. PICK old : old = channels[c].users
  OBVIOUS
<1>5. PICK new : new = [host |-> m.host, modes |-> {}, account |-> m.account]
  OBVIOUS
<1>6. PICK us : us = With(old, n, new)
  OBVIOUS
<1>7. channels' = [channels EXCEPT ![c].users = us]
  BY <1>2, <1>3, <1>4, <1>5, <1>6 DEF Reads, Deliver, Handle, OnJoin
<1>8. UsersType(old) /\ new \in UserInfo
  BY <1>1, <1>4, <1>5 DEF BotTypes, ChannelInfo, TellsJoin, UserInfo
<1>9. /\ DOMAIN us = DOMAIN old \cup {n} /\ us[n] = new /\ us = [x \in DOMAIN us |-> us[x]]
      /\ \A x \in DOMAIN old \ {n} : us[x] = old[x]
  BY <1>6 DEF With
<1>10. UsersType(us)
  BY <1>8, <1>9 DEF UsersType
<1>11. /\ channels' = [d \in Channels |-> channels'[d]]
       /\ \A d \in Channels :
            /\ ChannelInfo(channels'[d]) /\ channels'[d].modes = channels[d].modes
            /\ channels'[d].users = IF d = c THEN us ELSE channels[d].users
  BY <1>1, <1>7, <1>10, OneChannel
<1>12. /\ AccountsAsOf(seen)'
       /\ DOMAIN accounts' \subseteq Nicks /\ accounts' \in [DOMAIN accounts' -> Standing]
  BY JoinAccounts
<1>13. BotTypes'
  BY <1>11, <1>12, TypesFollow
<1>14. /\ In(t, c, n) = [host |-> new.host, modes |-> new.modes] /\ new.account = t.accts[n]
       /\ AccountsKeep(seen, t) /\ OtherChannels(seen, t, c)
  BY <1>1, <1>2, <1>3, <1>5 DEF TellsJoin
<1>15. synced' = synced
  BY DEF Reads, Deliver
<1>19. \A d \in Channels :
         /\ left'[d] = IF d # c THEN left[d]
                       ELSE IF n = MyNick THEN DOMAIN old \ {n} ELSE left[c] \ {n}
         /\ stale'[d] = IF d # c THEN stale[d]
                        ELSE IF n = MyNick THEN DOMAIN old \ {n} ELSE stale[c] \ {n}
  <2> TAKE d \in Channels
  <2>1. left'[d] = LeftAfter(d, m) /\ stale'[d] = StaleAfter(d, m)
    BY ReadsHistory
  <2> QED
    BY <1>1, <1>2, <1>3, <1>4, <2>1 DEF LeftAfter, StaleAfter, Own
<1>16. ASSUME NEW d \in Channels, NEW x \in Nicks, d # c \/ (x # n /\ n # MyNick), There(seen, d), There(t, d),
              Right(channels[d].users, left[d], stale[d], x, In(seen, d, x), seen.accts[x])
       PROVE  Right(channels'[d].users, left'[d], stale'[d], x, In(t, d, x), t.accts[x])
  <2>1. In(t, d, x) = In(seen, d, x)
    BY <1>1, <1>2, <1>3, <1>16 DEF TellsJoin, RestOf, OtherChannels, In
  <2>2. In(seen, d, x) # Absent => t.accts[x] = seen.accts[x]
    BY <1>1, <1>14, <1>16, <2>1, SeenKeeps DEF AccountsKeep
  <2>3. UsersType(channels[d].users)
    BY <1>1 DEF BotTypes, ChannelInfo
  <2>4. /\ x \in DOMAIN channels'[d].users <=> x \in DOMAIN channels[d].users
        /\ x \in DOMAIN channels[d].users => channels'[d].users[x] = channels[d].users[x]
    BY <1>4, <1>9, <1>11, <1>16
  <2>5. /\ x \in left'[d] <=> x \in left[d]
        /\ x \in stale'[d] <=> x \in stale[d]
    BY <1>16, <1>19
  <2> QED
    BY <1>16, <2>1, <2>2, <2>3, <2>4, <2>5, RightStays
<1>17. CASE n # MyNick
  <2>1. ASSUME There(seen, c), There(t, c)
        PROVE  Right(channels'[c].users, left'[c], stale'[c], n, In(t, c, n), t.accts[n])
    <3>1. channels'[c].users = us
      BY <1>11
    <3> QED
      BY <1>9, <1>14, <3>1 DEF Right
  <2>2. ASSUME NEW d \in Channels, There(seen, d), There(t, d),
               d \in known => channels[d].modes = seen.chans[d].modes
        PROVE  d \in known' => channels'[d].modes = t.chans[d].modes
    <3>1. known' = known
      BY <1>1, <1>3, <1>17 DEF Reads, Deliver, Own
    <3> QED
      BY <1>1, <1>2, <1>3, <1>11, <1>17, <2>2, <3>1 DEF TellsJoin, RestOf, OtherChannels
  <2>3. ~OwnJoin(m) /\ m.kind # "NAMES"
    BY <1>3, <1>17 DEF OwnJoin
  <2>4. ASSUME NEW d \in Channels, NEW x \in Nicks, There(seen, d), There(t, d),
               Right(channels[d].users, left[d], stale[d], x, In(seen, d, x), seen.accts[x])
        PROVE  Right(channels'[d].users, left'[d], stale'[d], x, In(t, d, x), t.accts[x])
    BY <1>16, <1>17, <2>1, <2>4
  <2> QED
    BY <1>12, <1>13, <2>2, <2>3, <2>4, RecordsFollow DEF BotAsOf
<1>18. CASE n = MyNick
  <2>1. ~There(seen, c) /\ There(t, c)
    BY <1>1, <1>2, <1>3, <1>18 DEF TellsJoin
  <2>2. c \notin synced
    BY <2>1 DEF IInv, AwaitsNames
  <2>3. known' = known \ {c}
    BY <1>1, <1>2, <1>3, <1>18 DEF Reads, Deliver, Own
  <2>4. left'[c] = DOMAIN old \ {n} /\ stale'[c] = DOMAIN old \ {n}
    BY <1>18, <1>19
  <2>5. ASSUME NEW x \in Nicks
        PROVE  Waiting(channels'[c].users, left'[c], stale'[c], x, In(t, c, x), t.accts[x])
    <3>1. channels'[c].users = us
      BY <1>11
    <3> QED
      BY <1>9, <1>14, <2>4, <3>1 DEF Waiting
  <2>6. ASSUME NEW d \in Channels, d # c, There(t, d)
        PROVE  /\ d \in synced
               /\ \A x \in Nicks :
                    Right(channels'[d].users, left'[d], stale'[d], x, In(t, d, x), t.accts[x])
               /\ d \in known => channels'[d].modes = t.chans[d].modes
    <3>1. t.chans[d] = seen.chans[d] /\ There(seen, d)
      BY <1>14, <2>6 DEF OtherChannels, There
    <3>2. d \in synced
      BY <3>1, ReadsWhat
    <3>3. /\ \A x \in Nicks :
               Right(channels[d].users, left[d], stale[d], x, In(seen, d, x), seen.accts[x])
          /\ d \in known => channels[d].modes = seen.chans[d].modes
      BY <1>1, <3>1, <3>2 DEF BotAsOf, RecordsAsOf
    <3>4. channels'[d].modes = channels[d].modes
      BY <1>11
    <3> QED
      BY <1>16, <2>6, <3>1, <3>2, <3>3, <3>4
  <2>7. RecordsAsOf(seen)'
    BY <1>1, <1>15, <2>2, <2>3, <2>5, <2>6 DEF RecordsAsOf
  <2> QED
    BY <1>12, <1>13, <2>7 DEF BotAsOf
<1> QED
  BY <1>17, <1>18

LEMMA QuitRead ==
  ASSUME IInv, NEW m, NEW t, Reads(m, t), m.kind = "QUIT"
  PROVE  BotAsOf(seen)'
<1>1. /\ TellsQuit(m, seen, t) /\ View(seen) /\ View(t) /\ BotTypes /\ seen' = t
      /\ BotAsOf(seen)
  BY ReadsWhat DEF Tells
<1>2. PICK n \in Nicks : n = m.nick
  BY <1>1 DEF TellsQuit
<1>3. PICK users : users = [c \in Channels |-> Without(channels[c].users, n)]
  OBVIOUS
<1>4. channels' = EachChannel(users) /\ accounts' = Without(accounts, n)
  BY <1>2, <1>3 DEF Reads, Deliver, Handle, OnQuit
<1>5. ASSUME NEW c \in Channels
      PROVE  /\ DOMAIN users[c] = DOMAIN channels[c].users \ {n} /\ UsersType(users[c])
             /\ \A x \in DOMAIN users[c] : users[c][x] = channels[c].users[x]
  <2>1. PICK old : old = channels[c].users
    OBVIOUS
  <2>2. PICK us : us = users[c]
    OBVIOUS
  <2>3. us = Without(old, n)
    BY <1>3, <2>1, <2>2
  <2>4. /\ DOMAIN us = DOMAIN old \ {n} /\ us = [x \in DOMAIN us |-> us[x]]
        /\ \A x \in DOMAIN us : us[x] = old[x]
    BY <2>3 DEF Without, Restrict
  <2>5. UsersType(old)
    BY <1>1, <2>1 DEF BotTypes, ChannelInfo
  <2>6. UsersType(us)
    BY <2>4, <2>5 DEF UsersType
  <2> QED
    BY <2>1, <2>2, <2>4, <2>6
<1>6. /\ channels' = [d \in Channels |-> channels'[d]]
      /\ \A d \in Channels :
           /\ ChannelInfo(channels'[d]) /\ channels'[d].modes = channels[d].modes
           /\ channels'[d].users = users[d]
  BY <1>1, <1>4, <1>5, AllChannels
<1>7. /\ DOMAIN accounts' = DOMAIN accounts \ {n} /\ accounts' = [x \in DOMAIN accounts' |-> accounts'[x]]
      /\ \A x \in DOMAIN accounts' : accounts'[x] = accounts[x]
  BY <1>4 DEF Without, Restrict
<1>8. DOMAIN accounts' \subseteq Nicks /\ accounts' \in [DOMAIN accounts' -> Standing]
  BY <1>1, <1>7 DEF BotTypes
<1>9. AccountsAsOf(seen)'
  <2>1. orphan' = DOMAIN accounts' \cap (orphan \cup OutOfSight(t))
    BY <1>1 DEF Reads, Deliver, Doubtful
  <2>2. ASSUME NEW x \in DOMAIN accounts' \ orphan' PROVE accounts'[x] = t.accts[x]
    <3>1. x \in DOMAIN accounts \ orphan /\ x \in Nicks /\ t.accts[x] # "unseen"
      BY <1>7, <1>8, <2>1, <2>2 DEF OutOfSight
    <3> QED
      BY <1>1, <1>7, <2>2, <3>1 DEF BotAsOf, AccountsAsOf, TellsQuit
  <2> QED
    BY <1>1, <2>2 DEF AccountsAsOf
<1>10. BotTypes'
  BY <1>6, <1>8, TypesFollow
<1>11. \A d \in Channels : left'[d] = left[d] \ {n} /\ stale'[d] = stale[d]
  <2> TAKE d \in Channels
  <2>1. left'[d] = LeftAfter(d, m) /\ stale'[d] = StaleAfter(d, m)
    BY ReadsHistory
  <2> QED
    BY <1>2, <2>1 DEF LeftAfter, StaleAfter
<1>12. ASSUME NEW d \in Channels, NEW x \in Nicks, There(seen, d), There(t, d),
              Right(channels[d].users, left[d], stale[d], x, In(seen, d, x), seen.accts[x])
       PROVE  Right(channels'[d].users, left'[d], stale'[d], x, In(t, d, x), t.accts[x])
  <2>1. CASE x = n
    <3>1. In(t, d, n) = Absent
      BY <1>1, <1>2, <1>12 DEF TellsQuit
    <3> QED
      BY <1>5, <1>6, <2>1, <3>1 DEF Right
  <2>2. CASE x # n
    <3>1. In(t, d, x) = In(seen, d, x)
      BY <1>1, <1>2, <1>12, <2>2 DEF TellsQuit, RestOf
    <3>2. In(seen, d, x) # Absent => t.accts[x] = seen.accts[x]
      BY <1>1, <1>12, <3>1, SeenKeeps DEF TellsQuit
    <3>3. UsersType(channels[d].users)
      BY <1>1 DEF BotTypes, ChannelInfo
    <3>4. /\ x \in DOMAIN channels'[d].users <=> x \in DOMAIN channels[d].users
          /\ x \in DOMAIN channels[d].users => channels'[d].users[x] = channels[d].users[x]
          /\ x \in left'[d] <=> x \in left[d]
          /\ x \in stale'[d] <=> x \in stale[d]
      BY <1>5, <1>6, <1>11, <2>2
    <3> QED
      BY <1>12, <3>1, <3>2, <3>3, <3>4, RightStays
  <2> QED
    BY <2>1, <2>2
<1>13. ASSUME NEW d \in Channels, There(seen, d), There(t, d), d \in known => channels[d].modes = seen.chans[d].modes
       PROVE  d \in known' => channels'[d].modes = t.chans[d].modes
  <2>1. known' = known
    BY DEF Reads, Deliver
  <2> QED
    BY <1>1, <1>6, <1>13, <2>1 DEF TellsQuit, RestOf
<1>14. ~OwnJoin(m) /\ m.kind # "NAMES"
  BY DEF OwnJoin
<1>15. RecordsAsOf(seen)'
  BY <1>12, <1>13, <1>14, RecordsFollow
<1> QED
  BY <1>9, <1>10, <1>15 DEF BotAsOf

\* A nick is another's from now on, or nobody's before.
Moved(us, n, new) == IF n \in DOMAIN us THEN With(Without(us, n), new, us[n]) ELSE us

IsTable(f) == f = [x \in DOMAIN f |-> f[x]]

IsMoved(vs, us, n, new) ==
  /\ IsTable(vs) /\ n \notin DOMAIN vs
  /\ n \in DOMAIN us => DOMAIN vs = (DOMAIN us \ {n}) \cup {new} /\ vs[new] = us[n]
  /\ n \notin DOMAIN us => vs = us
  /\ \A x \in DOMAIN us \ {n, new} : x \in DOMAIN vs /\ vs[x] = us[x]

LEMMA MovedIs ==
  ASSUME NEW us, IsTable(us), NEW n, NEW new, n # new
  PROVE  IsMoved(Moved(us, n, new), us, n, new)
<1>1. PICK vs : vs = Moved(us, n, new)
  OBVIOUS
<1>2. CASE n \in DOMAIN us
  <2>1. PICK rest : rest = Without(us, n)
    OBVIOUS
  <2>2. DOMAIN rest = DOMAIN us \ {n} /\ \A x \in DOMAIN rest : rest[x] = us[x]
    BY <2>1 DEF Without, Restrict
  <2>3. vs = With(rest, new, us[n])
    BY <1>1, <1>2, <2>1 DEF Moved
  <2>4. IsMoved(vs, us, n, new)
    BY <1>2, <2>2, <2>3 DEF With, IsTable, IsMoved
  <2> QED
    BY <1>1, <2>4
<1>3. CASE n \notin DOMAIN us
  BY <1>3 DEF Moved, IsMoved
<1> QED
  BY <1>2, <1>3

LEMMA MovedTyped ==
  ASSUME NEW us, UsersType(us), NEW n \in Nicks, NEW new \in Nicks, n # new
  PROVE  UsersType(Moved(us, n, new))
<1>1. IsTable(us)
  BY DEF UsersType, IsTable
<1>2. PICK vs : vs = Moved(us, n, new)
  OBVIOUS
<1>3. IsMoved(vs, us, n, new)
  BY <1>1, <1>2, MovedIs
<1>4. \A x \in DOMAIN vs : x \in Nicks /\ vs[x] \in UserInfo
  BY <1>3 DEF UsersType, IsMoved
<1>5. UsersType(vs)
  BY <1>3, <1>4 DEF UsersType, IsMoved, IsTable
<1> QED
  BY <1>2, <1>5

LEMMA NickAccounts ==
  ASSUME IInv, NEW m, NEW t, Reads(m, t), m.kind = "NICK"
  PROVE  /\ AccountsAsOf(seen)'
         /\ DOMAIN accounts' \subseteq Nicks /\ accounts' \in [DOMAIN accounts' -> Standing]
<1>1. /\ TellsNick(m, seen, t) /\ seen' = t /\ AccountsAsOf(seen)
      /\ DOMAIN accounts \subseteq Nicks /\ accounts \in [DOMAIN accounts -> Standing]
  BY ReadsWhat DEF Tells, BotAsOf, BotTypes
<1>2. PICK n \in Nicks : n = m.nick
  BY <1>1 DEF TellsNick
<1>3. PICK new \in Nicks : new = m.new
  BY <1>1 DEF TellsNick
<1>4. accounts' = Moved(accounts, n, new) /\ n # new
  BY <1>1, <1>2, <1>3 DEF Reads, Deliver, Handle, OnNick, Moved, TellsNick
<1>5. IsTable(accounts)
  BY <1>1 DEF IsTable
<1>6. IsMoved(accounts', accounts, n, new)
  BY <1>4, <1>5, MovedIs
<1>7. DOMAIN accounts' \subseteq Nicks /\ accounts' \in [DOMAIN accounts' -> Standing]
  <2>1. \A x \in DOMAIN accounts' : x \in Nicks /\ accounts'[x] \in Standing
    BY <1>1, <1>6 DEF IsMoved
  <2> QED
    BY <1>6, <2>1 DEF IsMoved, IsTable
<1>8. orphan' = DOMAIN accounts' \cap
        ((IF n \in DOMAIN accounts /\ n \notin orphan THEN orphan \ {new}
          ELSE (orphan \ {n}) \cup {new}) \cup OutOfSight(t))
  BY <1>1, <1>2, <1>3 DEF Reads, Deliver, Doubtful
<1>9. ASSUME NEW x \in DOMAIN accounts' \ orphan' PROVE accounts'[x] = t.accts[x]
  <2>1. CASE x = new
    <3>1. n \in DOMAIN accounts \ orphan
      BY <1>8, <1>9, <2>1
    <3> QED
      BY <1>1, <1>2, <1>3, <1>6, <2>1, <3>1 DEF AccountsAsOf, TellsNick, IsMoved
  <2>2. CASE x # new
    <3>1. x # n /\ x \in DOMAIN accounts \ orphan /\ x \in Nicks
      BY <1>1, <1>6, <1>8, <1>9, <2>2 DEF IsMoved
    <3> QED
      BY <1>1, <1>2, <1>3, <1>6, <2>2, <3>1 DEF AccountsAsOf, TellsNick, IsMoved
  <2> QED
    BY <2>1, <2>2
<1> QED
  BY <1>1, <1>7, <1>9 DEF AccountsAsOf

LEMMA NickRead ==
  ASSUME IInv, NEW m, NEW t, Reads(m, t), m.kind = "NICK"
  PROVE  BotAsOf(seen)'
<1>1. /\ TellsNick(m, seen, t) /\ View(seen) /\ View(t) /\ BotTypes /\ seen' = t
  BY ReadsWhat DEF Tells
<1>2. PICK n \in Nicks : n = m.nick
  BY <1>1 DEF TellsNick
<1>3. PICK new \in Nicks : new = m.new
  BY <1>1 DEF TellsNick
<1>4. n # new
  BY <1>1, <1>2, <1>3 DEF TellsNick
<1>5. PICK users : users = [c \in Channels |-> Moved(channels[c].users, n, new)]
  OBVIOUS
<1>6. channels' = EachChannel(users)
  BY <1>2, <1>3, <1>5 DEF Reads, Deliver, Handle, OnNick, Moved
<1>7. ASSUME NEW c \in Channels
      PROVE  UsersType(users[c]) /\ IsMoved(users[c], channels[c].users, n, new)
  <2>1. UsersType(channels[c].users) /\ IsTable(channels[c].users)
    BY <1>1 DEF BotTypes, ChannelInfo, UsersType, IsTable
  <2>2. users[c] = Moved(channels[c].users, n, new)
    BY <1>5
  <2> QED
    BY <1>4, <2>1, <2>2, MovedIs, MovedTyped
<1>8. /\ channels' = [d \in Channels |-> channels'[d]]
      /\ \A d \in Channels :
           /\ ChannelInfo(channels'[d]) /\ channels'[d].modes = channels[d].modes
           /\ channels'[d].users = users[d]
  BY <1>1, <1>6, <1>7, AllChannels
<1>9. /\ AccountsAsOf(seen)'
      /\ DOMAIN accounts' \subseteq Nicks /\ accounts' \in [DOMAIN accounts' -> Standing]
  BY NickAccounts
<1>10. BotTypes'
  BY <1>8, <1>9, TypesFollow
<1>11. ASSUME NEW d \in Channels
       PROVE  /\ left'[d] = IF n \in left[d] THEN (left[d] \ {n}) \cup {new}
                           ELSE IF n \in DOMAIN channels[d].users THEN left[d] \ {new} ELSE left[d]
              /\ n \in DOMAIN channels[d].users =>
                   stale'[d] = IF n \in stale[d] THEN (stale[d] \ {n}) \cup {new} ELSE stale[d] \ {new}
              /\ n \notin DOMAIN channels[d].users => stale'[d] = stale[d]
  <2>1. left'[d] = LeftAfter(d, m) /\ stale'[d] = StaleAfter(d, m)
    BY ReadsHistory
  <2> QED
    BY <1>2, <1>3, <2>1 DEF LeftAfter, StaleAfter
<1>12. ASSUME NEW d \in Channels, NEW x \in Nicks, There(seen, d), There(t, d),
              \A y \in Nicks :
                Right(channels[d].users, left[d], stale[d], y, In(seen, d, y), seen.accts[y])
       PROVE  Right(channels'[d].users, left'[d], stale'[d], x, In(t, d, x), t.accts[x])
  <2>1. PICK us : us = channels[d].users
    OBVIOUS
  <2>2. PICK vs : vs = channels'[d].users
    OBVIOUS
  <2>3. IsMoved(vs, us, n, new) /\ UsersType(us)
    BY <1>1, <1>7, <1>8, <2>1, <2>2 DEF BotTypes, ChannelInfo
  <2>4. /\ In(t, d, new) = In(seen, d, n) /\ In(t, d, n) = Absent
        /\ t.accts[new] = seen.accts[n]
    BY <1>1, <1>2, <1>3, <1>12 DEF TellsNick
  <2>5. /\ Right(us, left[d], stale[d], n, In(seen, d, n), seen.accts[n])
        /\ Right(us, left[d], stale[d], new, In(seen, d, new), seen.accts[new])
        /\ Right(us, left[d], stale[d], x, In(seen, d, x), seen.accts[x])
    BY <1>12, <2>1
  <2>6. CASE x = n
    BY <2>2, <2>3, <2>4, <2>6 DEF Right, IsMoved
  <2>7. CASE x = new /\ n \in DOMAIN us
    <3>1. (new \in left'[d] <=> n \in left[d]) /\ (new \in stale'[d] <=> n \in stale[d])
      BY <1>4, <1>11, <2>1, <2>7
    <3>2. new \in DOMAIN vs /\ vs[new] = us[n]
      BY <2>3, <2>7 DEF IsMoved
    <3> QED
      BY <2>2, <2>4, <2>5, <2>7, <3>1, <3>2 DEF Right
  <2>8. CASE x = new /\ n \notin DOMAIN us /\ n \in left[d]
    <3>1. new \in left'[d]
      BY <1>11, <2>8
    <3> QED
      BY <2>8, <3>1 DEF Right
  <2>9. CASE x = new /\ n \notin DOMAIN us /\ n \notin left[d]
    <3>1. vs = us /\ left'[d] = left[d] /\ stale'[d] = stale[d]
      BY <1>11, <2>1, <2>3, <2>9 DEF IsMoved
    <3>2. In(t, d, new) = Absent
      BY <2>4, <2>5, <2>9 DEF Right
    <3>3. new \notin DOMAIN us \ left[d]
      <4>1. SUFFICES ASSUME new \in DOMAIN us \ left[d] PROVE FALSE
        OBVIOUS
      <4>2. In(seen, d, new) \in Records
        BY <2>3, <2>5, <4>1 DEF Right, UsersType, UserInfo, Records
      <4>3. In(seen, d, new) # Absent
        BY <4>2, ChannelStateAssumption
      <4>4. seen.accts[new] # "unseen"
        BY <1>1, <1>12, <4>3 DEF View, Coherent
      <4> QED
        BY <1>1, <1>3, <4>4 DEF TellsNick
    <3> QED
      BY <2>2, <2>9, <3>1, <3>2, <3>3 DEF Right
  <2>10. CASE x # n /\ x # new
    <3>1. In(t, d, x) = In(seen, d, x) /\ t.accts[x] = seen.accts[x]
      BY <1>1, <1>2, <1>3, <1>12, <2>10 DEF TellsNick
    <3>2. /\ x \in DOMAIN vs <=> x \in DOMAIN us
          /\ x \in DOMAIN us => vs[x] = us[x]
      BY <2>3, <2>10 DEF IsMoved
    <3>3. x \in left'[d] <=> x \in left[d]
      BY <1>11, <2>10
    <3>4. x \in stale'[d] <=> x \in stale[d]
      BY <1>11, <2>10
    <3> QED
      BY <2>2, <2>3, <2>5, <3>1, <3>2, <3>3, <3>4, RightStays
  <2> QED
    BY <2>6, <2>7, <2>8, <2>9, <2>10
<1>13. ASSUME NEW d \in Channels, There(seen, d), There(t, d), d \in known => channels[d].modes = seen.chans[d].modes
       PROVE  d \in known' => channels'[d].modes = t.chans[d].modes
  <2>1. known' = known
    BY DEF Reads, Deliver
  <2> QED
    BY <1>1, <1>8, <1>13, <2>1 DEF TellsNick
<1>14. ~OwnJoin(m) /\ m.kind # "NAMES"
  BY DEF OwnJoin
<1>15. RecordsAsOf(seen)'
  BY <1>12, <1>13, <1>14, RecordsFollowAll
<1> QED
  BY <1>9, <1>10, <1>15 DEF BotAsOf

\* A handler that works on the modes of one channel.
LEMMA OneModes ==
  ASSUME BotTypes, NEW c \in Channels, NEW md \in ChanModes,
         channels' = [channels EXCEPT ![c].modes = md]
  PROVE  /\ channels' = [d \in Channels |-> channels'[d]]
         /\ \A d \in Channels :
              /\ ChannelInfo(channels'[d]) /\ channels'[d].users = channels[d].users
              /\ channels'[d].modes = IF d = c THEN md ELSE channels[d].modes
<1>1. channels = [d \in Channels |-> channels[d]]
  BY DEF BotTypes
<1>2. \A d \in Channels : channels[d] = [users |-> channels[d].users, modes |-> channels[d].modes]
                          /\ ChannelInfo(channels[d])
  BY DEF BotTypes, ChannelInfo
<1>3. \A d \in Channels \ {c} : channels'[d] = channels[d]
  BY <1>1
<1>4. channels'[c] = [users |-> channels[c].users, modes |-> md]
  BY <1>1, <1>2
<1>5. ChannelInfo(channels'[c])
  <2>1. PICK ch : ch = channels'[c]
    OBVIOUS
  <2>2. PICK us : us = channels[c].users
    OBVIOUS
  <2>3. ch = [users |-> us, modes |-> md] /\ UsersType(us)
    BY <1>2, <1>4, <2>1, <2>2 DEF ChannelInfo
  <2> QED
    BY <2>1, <2>3 DEF ChannelInfo
<1> QED
  BY <1>1, <1>2, <1>3, <1>4, <1>5

\* A message of which the bot's users and history of them learn nothing.
LEMMA UsersFollow ==
  ASSUME IInv, NEW m, NEW t, Reads(m, t), ~OwnJoin(m), m.kind # "NAMES",
         \A d \in Channels :
           /\ channels'[d].users = channels[d].users
           /\ left'[d] = left[d] /\ stale'[d] = stale[d],
         t.accts = seen.accts,
         \A d \in Channels : There(seen, d) /\ There(t, d) =>
           /\ \A x \in Nicks : In(t, d, x) = In(seen, d, x)
           /\ d \in known' /\ (d \in known => channels[d].modes = seen.chans[d].modes)
              => channels'[d].modes = t.chans[d].modes
  PROVE  RecordsAsOf(seen)'
<1>1. ASSUME NEW d \in Channels, NEW x \in Nicks, There(seen, d), There(t, d),
             Right(channels[d].users, left[d], stale[d], x, In(seen, d, x), seen.accts[x])
      PROVE  Right(channels'[d].users, left'[d], stale'[d], x, In(t, d, x), t.accts[x])
  BY <1>1
<1> QED
  BY <1>1, RecordsFollow

\* A message that says what the bot is to know already, or something of modes.
LEMMA ModesIsRead ==
  ASSUME IInv, NEW m, NEW t, Reads(m, t), m.kind = "MODEIS"
  PROVE  BotAsOf(seen)'
<1>1. TellsModes(m, seen, t) /\ View(seen) /\ BotTypes
  BY ReadsWhat DEF Tells
<1>2. PICK c \in Channels : c = m.chan
  BY <1>1 DEF TellsModes
<1>3. PICK md \in ChanModes : md = m.modes /\ md = seen.chans[c].modes
  BY <1>1, <1>2 DEF TellsModes, View, Views, There, Pictures
<1>4. channels' = [channels EXCEPT ![c].modes = md] /\ accounts' = accounts
  BY <1>2, <1>3 DEF Reads, Deliver, Handle, OnChannelInfo, b
<1>5. /\ channels' = [d \in Channels |-> channels'[d]]
      /\ \A d \in Channels :
           /\ ChannelInfo(channels'[d]) /\ channels'[d].users = channels[d].users
           /\ channels'[d].modes = IF d = c THEN md ELSE channels[d].modes
  BY <1>1, <1>4, OneModes
<1>6. Doubtful(m) = orphan
  BY DEF Doubtful
<1>7. /\ AccountsAsOf(seen)'
      /\ DOMAIN accounts' \subseteq Nicks /\ accounts' \in [DOMAIN accounts' -> Standing]
  BY <1>1, <1>4, <1>6, AccountsFollow DEF TellsModes
<1>8. BotTypes'
  BY <1>5, <1>7, TypesFollow
<1>9. ASSUME NEW d \in Channels PROVE left'[d] = left[d] /\ stale'[d] = stale[d]
  <2>1. left'[d] = LeftAfter(d, m) /\ stale'[d] = StaleAfter(d, m)
    BY ReadsHistory
  <2> QED
    BY <2>1 DEF LeftAfter, StaleAfter
<1>10. known' = known \cup {c}
  BY <1>2 DEF Reads, Deliver
<1>11. ~OwnJoin(m) /\ m.kind # "NAMES"
  BY DEF OwnJoin
<1>12. RecordsAsOf(seen)'
  BY <1>1, <1>2, <1>3, <1>5, <1>9, <1>10, <1>11, UsersFollow DEF TellsModes
<1> QED
  BY <1>7, <1>8, <1>12 DEF BotAsOf

LEMMA ChanModeRead ==
  ASSUME IInv, NEW m, NEW t, Reads(m, t), m.kind = "MODE", m.mode \notin Prefix
  PROVE  BotAsOf(seen)'
<1>1. TellsMode(m, seen, t) /\ View(seen) /\ View(t) /\ BotTypes
  BY ReadsWhat DEF Tells
<1>2. PICK c \in Channels : c = m.chan
  BY <1>1 DEF TellsMode
<1>3. /\ m.mode \in Flags \cup {"k"} /\ There(t, c)
      /\ t.chans[c].modes = ModesSet(seen.chans[c].modes, m)
  BY <1>1, <1>2 DEF TellsMode
<1>4. PICK old \in ChanModes : old = channels[c].modes
  BY <1>1 DEF BotTypes, ChannelInfo
<1>5. old = [flags |-> old.flags, key |-> old.key]
      /\ old.flags \in SUBSET Flags /\ old.key \in Keys \cup {""}
  BY DEF ChanModes
<1>6. PICK md : md = ModesSet(old, m)
  OBVIOUS
<1>7. md \in ChanModes
  <2>1. CASE m.mode = "k"
    <3>1. t.chans[c].modes \in ChanModes
      BY <1>1, <1>3 DEF View, Views, There, Pictures
    <3>2. PICK key : key = IF m.adds THEN m.param ELSE ""
      OBVIOUS
    <3>3. t.chans[c].modes = [flags |-> seen.chans[c].modes.flags, key |-> key]
      BY <1>3, <2>1, <3>2 DEF ModesSet
    <3>4. key \in Keys \cup {""}
      <4>1. PICK now \in ChanModes : now = t.chans[c].modes
        BY <3>1
      <4>2. now.key = key
        BY <3>3, <4>1
      <4> QED
        BY <4>2 DEF ChanModes
    <3> QED
      BY <1>5, <1>6, <2>1, <3>2, <3>4 DEF ModesSet, ChanModes
  <2>2. CASE m.mode # "k"
    <3>1. m.mode \in Flags
      BY <1>3, <2>2
    <3> QED
      BY <1>5, <1>6, <2>2, <3>1 DEF ModesSet, ChanModes
  <2> QED
    BY <2>1, <2>2
<1>8. channels' = [channels EXCEPT ![c].modes = md] /\ accounts' = accounts
  <2>1. CASE m.mode = "k"
    <3>1. PICK key : key = IF m.adds THEN m.param ELSE ""
      OBVIOUS
    <3>2. channels' = [channels EXCEPT ![c] = [channels[c] EXCEPT !.modes.key = key]] /\ accounts' = accounts
      BY <1>2, <2>1, <3>1 DEF Reads, Deliver, Handle, OnMode, b, Prefix
    <3>3. [old EXCEPT !.key = key] = [flags |-> old.flags, key |-> key]
      BY <1>5, KeySet
    <3>4. md = [flags |-> old.flags, key |-> key]
      BY <1>6, <2>1, <3>1 DEF ModesSet
    <3> QED
      BY <1>4, <3>2, <3>3, <3>4
  <2>2. CASE m.mode # "k"
    <3>1. PICK flags : flags = IF m.adds THEN old.flags \cup {m.mode} ELSE old.flags \ {m.mode}
      OBVIOUS
    <3>2. channels' = [channels EXCEPT ![c] = [channels[c] EXCEPT !.modes.flags = flags]] /\ accounts' = accounts
      BY <1>2, <1>4, <2>2, <3>1 DEF Reads, Deliver, Handle, OnMode, b
    <3>3. [old EXCEPT !.flags = flags] = [flags |-> flags, key |-> old.key]
      BY <1>5, FlagSet
    <3>4. md = [flags |-> flags, key |-> old.key]
      BY <1>6, <2>2, <3>1 DEF ModesSet
    <3> QED
      BY <1>4, <3>2, <3>3, <3>4
  <2> QED
    BY <2>1, <2>2
<1>9. /\ channels' = [d \in Channels |-> channels'[d]]
      /\ \A d \in Channels :
           /\ ChannelInfo(channels'[d]) /\ channels'[d].users = channels[d].users
           /\ channels'[d].modes = IF d = c THEN md ELSE channels[d].modes
  BY <1>1, <1>7, <1>8, OneModes
<1>10. Doubtful(m) = orphan
  BY DEF Doubtful
<1>11. /\ AccountsAsOf(seen)'
       /\ DOMAIN accounts' \subseteq Nicks /\ accounts' \in [DOMAIN accounts' -> Standing]
  BY <1>1, <1>8, <1>10, AccountsFollow DEF TellsMode
<1>12. BotTypes'
  BY <1>9, <1>11, TypesFollow
<1>13. ASSUME NEW d \in Channels PROVE left'[d] = left[d] /\ stale'[d] = stale[d]
  <2>1. left'[d] = LeftAfter(d, m) /\ stale'[d] = StaleAfter(d, m)
    BY ReadsHistory
  <2> QED
    BY <2>1 DEF LeftAfter, StaleAfter
<1>14. known' = known
  BY DEF Reads, Deliver
<1>15. ~OwnJoin(m) /\ m.kind # "NAMES"
  BY DEF OwnJoin
<1>16. ASSUME NEW d \in Channels, There(seen, d), There(t, d)
       PROVE  /\ \A x \in Nicks : In(t, d, x) = In(seen, d, x)
              /\ d \in known' /\ (d \in known => channels[d].modes = seen.chans[d].modes)
                 => channels'[d].modes = t.chans[d].modes
  <2>1. CASE d = c
    BY <1>1, <1>2, <1>3, <1>4, <1>6, <1>9, <1>14, <2>1 DEF TellsMode
  <2>2. CASE d # c
    BY <1>1, <1>2, <1>9, <1>14, <2>2 DEF TellsMode, OtherChannels, In
  <2> QED
    BY <2>1, <2>2
<1>17. t.accts = seen.accts
  BY <1>1 DEF TellsMode
<1>18. RecordsAsOf(seen)'
  BY <1>9, <1>13, <1>15, <1>16, <1>17, UsersFollow
<1> QED
  BY <1>11, <1>12, <1>18 DEF BotAsOf

LEMMA UserModeRead ==
  ASSUME IInv, NEW m, NEW t, Reads(m, t), m.kind = "MODE", m.mode \in Prefix
  PROVE  BotAsOf(seen)'
<1>1. /\ TellsMode(m, seen, t) /\ View(seen) /\ View(t) /\ BotTypes /\ seen' = t
  BY ReadsWhat DEF Tells
<1>2. PICK c \in Channels : c = m.chan
  BY <1>1 DEF TellsMode
<1>3. /\ m.param \in Nicks /\ RestOf(seen, t, c, m.param) /\ In(seen, c, m.param) # Absent
      /\ In(t, c, m.param) =
           [host |-> In(seen, c, m.param).host,
            modes |-> IF m.adds THEN In(seen, c, m.param).modes \cup {m.mode}
                      ELSE In(seen, c, m.param).modes \ {m.mode}]
      /\ OtherChannels(seen, t, c) /\ t.accts = seen.accts
  BY <1>1, <1>2 DEF TellsMode, Prefix, Flags
<1>4. PICK n \in Nicks : n = m.param
  BY <1>3
<1>5. PICK old : old = channels[c].users
  OBVIOUS
<1>6. UsersType(old)
  BY <1>1, <1>5 DEF BotTypes, ChannelInfo
<1>7. PICK modes : modes = IF m.adds THEN old[n].modes \cup {m.mode} ELSE old[n].modes \ {m.mode}
  OBVIOUS
<1>8. PICK us : us = IF n \in DOMAIN old THEN [old EXCEPT ![n] = [old[n] EXCEPT !.modes = modes]] ELSE old
  OBVIOUS
<1>9. channels' = [channels EXCEPT ![c].users = us] /\ accounts' = accounts
  <2>1. CASE n \in DOMAIN old
    BY <1>2, <1>4, <1>5, <1>7, <1>8, <2>1 DEF Reads, Deliver, Handle, OnMode, b
  <2>2. CASE n \notin DOMAIN old
    <3>1. channels' = [channels EXCEPT ![c] = channels[c]] /\ accounts' = accounts
      BY <1>2, <1>4, <1>5, <2>2 DEF Reads, Deliver, Handle, OnMode, b
    <3>2. channels[c] = [users |-> old, modes |-> channels[c].modes]
      BY <1>1, <1>5 DEF BotTypes, ChannelInfo
    <3>3. [channels[c] EXCEPT !.users = old] = channels[c]
      BY <3>2
    <3> QED
      BY <1>8, <2>2, <3>1, <3>3
  <2> QED
    BY <2>1, <2>2
<1>10. /\ DOMAIN us = DOMAIN old /\ \A x \in DOMAIN old \ {n} : us[x] = old[x]
       /\ n \in DOMAIN old =>
            us[n] = [host |-> old[n].host, modes |-> modes, account |-> old[n].account]
       /\ UsersType(us)
  <2>1. CASE n \in DOMAIN old
    <3>1. PICK r \in UserInfo : r = old[n]
      BY <1>6, <2>1 DEF UsersType
    <3>2. modes \in SUBSET Prefix
      BY <1>7, <3>1 DEF UserInfo
    <3>3. PICK r2 : r2 = [host |-> r.host, modes |-> modes, account |-> r.account]
      OBVIOUS
    <3>4. r2 \in UserInfo
      BY <3>1, <3>2, <3>3 DEF UserInfo
    <3>5. [r EXCEPT !.modes = modes] = r2
      BY <3>1, <3>3 DEF UserInfo
    <3>6. us = [old EXCEPT ![n] = r2]
      BY <1>8, <2>1, <3>1, <3>5
    <3> QED
      BY <1>6, <2>1, <3>1, <3>3, <3>4, <3>6 DEF UsersType
  <2>2. CASE n \notin DOMAIN old
    BY <1>6, <1>8, <2>2
  <2> QED
    BY <2>1, <2>2
<1>11. /\ channels' = [d \in Channels |-> channels'[d]]
       /\ \A d \in Channels :
            /\ ChannelInfo(channels'[d]) /\ channels'[d].modes = channels[d].modes
            /\ channels'[d].users = IF d = c THEN us ELSE channels[d].users
  BY <1>1, <1>9, <1>10, OneChannel
<1>12. Doubtful(m) = orphan
  BY DEF Doubtful
<1>13. /\ AccountsAsOf(seen)'
       /\ DOMAIN accounts' \subseteq Nicks /\ accounts' \in [DOMAIN accounts' -> Standing]
  BY <1>3, <1>9, <1>12, AccountsFollow
<1>14. BotTypes'
  BY <1>11, <1>13, TypesFollow
<1>15. ASSUME NEW d \in Channels PROVE left'[d] = left[d] /\ stale'[d] = stale[d]
  <2>1. left'[d] = LeftAfter(d, m) /\ stale'[d] = StaleAfter(d, m)
    BY ReadsHistory
  <2> QED
    BY <2>1 DEF LeftAfter, StaleAfter
<1>16. ASSUME NEW d \in Channels, NEW x \in Nicks, There(seen, d), There(t, d),
              Right(channels[d].users, left[d], stale[d], x, In(seen, d, x), seen.accts[x])
       PROVE  Right(channels'[d].users, left'[d], stale'[d], x, In(t, d, x), t.accts[x])
  <2>1. CASE d = c /\ x = n
    <3>1. PICK p : p = In(seen, c, n)
      OBVIOUS
    <3>2. PICK p2 : p2 = In(t, c, n)
      OBVIOUS
    <3>3. p # Absent /\ p2 = [host |-> p.host, modes |-> IF m.adds THEN p.modes \cup {m.mode} ELSE p.modes \ {m.mode}]
      BY <1>3, <1>4, <3>1, <3>2
    <3>4. Right(old, left[c], stale[c], n, p, seen.accts[n])
      BY <1>5, <1>16, <2>1, <3>1
    <3>5. n \in DOMAIN old \ left[c] => p2 = [host |-> us[n].host, modes |-> us[n].modes]
      <4>1. SUFFICES ASSUME n \in DOMAIN old \ left[c]
                     PROVE  p2 = [host |-> us[n].host, modes |-> us[n].modes]
        OBVIOUS
      <4>2. p.host = old[n].host /\ p.modes = old[n].modes
        BY <3>4, <4>1 DEF Right
      <4>3. p2 = [host |-> old[n].host, modes |-> modes]
        BY <1>7, <3>3, <4>2
      <4> QED
        BY <1>10, <4>1, <4>3
    <3>6. n \in DOMAIN old \ (left[c] \cup stale[c]) => us[n].account \in {Unknown, t.accts[n]}
      BY <1>3, <1>10, <3>4 DEF Right
    <3>7. n \in left[c] \cup DOMAIN old
      BY <3>3, <3>4 DEF Right
    <3>8. channels'[c].users = us
      BY <1>11
    <3> QED
      BY <1>10, <1>15, <2>1, <3>2, <3>5, <3>6, <3>7, <3>8 DEF Right
  <2>2. CASE d # c \/ x # n
    <3>1. In(t, d, x) = In(seen, d, x)
      BY <1>3, <1>4, <2>2 DEF RestOf, OtherChannels, In
    <3>2. UsersType(channels[d].users)
      BY <1>1 DEF BotTypes, ChannelInfo
    <3>3. /\ x \in DOMAIN channels'[d].users <=> x \in DOMAIN channels[d].users
          /\ x \in DOMAIN channels[d].users => channels'[d].users[x] = channels[d].users[x]
          /\ x \in left'[d] <=> x \in left[d]
          /\ x \in stale'[d] <=> x \in stale[d]
      BY <1>5, <1>10, <1>11, <1>15, <2>2
    <3> QED
      BY <1>3, <1>16, <3>1, <3>2, <3>3, RightStays
  <2> QED
    BY <2>1, <2>2
<1>17. ASSUME NEW d \in Channels, There(seen, d), There(t, d), d \in known => channels[d].modes = seen.chans[d].modes
       PROVE  d \in known' => channels'[d].modes = t.chans[d].modes
  <2>1. known' = known
    BY DEF Reads, Deliver
  <2> QED
    BY <1>3, <1>11, <1>17, <2>1 DEF RestOf, OtherChannels
<1>18. ~OwnJoin(m) /\ m.kind # "NAMES"
  BY DEF OwnJoin
<1>19. RecordsAsOf(seen)'
  BY <1>16, <1>17, <1>18, RecordsFollow
<1> QED
  BY <1>13, <1>14, <1>19 DEF BotAsOf

LEMMA HostRead ==
  ASSUME IInv, NEW m, NEW t, Reads(m, t), m.kind = "CHGHOST"
  PROVE  BotAsOf(seen)'
<1>1. /\ TellsHost(m, seen, t) /\ View(seen) /\ View(t) /\ BotTypes /\ seen' = t
  BY ReadsWhat DEF Tells
<1>2. PICK n \in Nicks : n = m.nick
  BY <1>1 DEF TellsHost
<1>3. PICK h \in Hosts : h = m.host
  BY <1>1 DEF TellsHost
<1>4. PICK users : users = [c \in Channels |-> IF n \in DOMAIN channels[c].users
                                               THEN [channels[c].users EXCEPT ![n].host = h]
                                               ELSE channels[c].users]
  OBVIOUS
<1>5. channels' = EachChannel(users) /\ accounts' = accounts
  BY <1>2, <1>3, <1>4 DEF Reads, Deliver, Handle, OnUserUpdated, b
<1>6. ASSUME NEW c \in Channels
      PROVE  /\ DOMAIN users[c] = DOMAIN channels[c].users /\ UsersType(users[c])
             /\ \A x \in DOMAIN users[c] \ {n} : users[c][x] = channels[c].users[x]
             /\ n \in DOMAIN users[c] =>
                  users[c][n] = [host |-> h, modes |-> channels[c].users[n].modes,
                                 account |-> channels[c].users[n].account]
  <2>1. PICK old : old = channels[c].users
    OBVIOUS
  <2>2. PICK us : us = users[c]
    OBVIOUS
  <2>3. UsersType(old)
    BY <1>1, <2>1 DEF BotTypes, ChannelInfo
  <2>4. CASE n \in DOMAIN old
    <3>1. PICK r \in UserInfo : r = old[n]
      BY <2>3, <2>4 DEF UsersType
    <3>2. PICK r2 : r2 = [host |-> h, modes |-> r.modes, account |-> r.account]
      OBVIOUS
    <3>3. r2 \in UserInfo
      BY <3>1, <3>2 DEF UserInfo
    <3>4. [r EXCEPT !.host = h] = r2
      BY <3>1, <3>2 DEF UserInfo
    <3>5. us = [old EXCEPT ![n] = r2]
      BY <1>4, <2>1, <2>2, <2>4, <3>1, <3>4
    <3> QED
      BY <2>1, <2>2, <2>3, <2>4, <3>1, <3>2, <3>3, <3>5 DEF UsersType
  <2>5. CASE n \notin DOMAIN old
    BY <1>4, <2>1, <2>2, <2>3, <2>5
  <2> QED
    BY <2>4, <2>5
<1>7. /\ channels' = [d \in Channels |-> channels'[d]]
      /\ \A d \in Channels :
           /\ ChannelInfo(channels'[d]) /\ channels'[d].modes = channels[d].modes
           /\ channels'[d].users = users[d]
  BY <1>1, <1>5, <1>6, AllChannels
<1>8. Doubtful(m) = orphan
  BY DEF Doubtful
<1>9. /\ AccountsAsOf(seen)'
      /\ DOMAIN accounts' \subseteq Nicks /\ accounts' \in [DOMAIN accounts' -> Standing]
  BY <1>1, <1>5, <1>8, AccountsFollow DEF TellsHost
<1>10. BotTypes'
  BY <1>7, <1>9, TypesFollow
<1>11. ASSUME NEW d \in Channels PROVE left'[d] = left[d] /\ stale'[d] = stale[d]
  <2>1. left'[d] = LeftAfter(d, m) /\ stale'[d] = StaleAfter(d, m)
    BY ReadsHistory
  <2> QED
    BY <2>1 DEF LeftAfter, StaleAfter
<1>12. ASSUME NEW d \in Channels, NEW x \in Nicks, There(seen, d), There(t, d),
              Right(channels[d].users, left[d], stale[d], x, In(seen, d, x), seen.accts[x])
       PROVE  Right(channels'[d].users, left'[d], stale'[d], x, In(t, d, x), t.accts[x])
  <2>1. CASE x = n
    <3>1. PICK p : p = In(seen, d, n)
      OBVIOUS
    <3>2. PICK p2 : p2 = In(t, d, n)
      OBVIOUS
    <3>3. p2 = IF p = Absent THEN Absent ELSE [host |-> h, modes |-> p.modes]
      BY <1>1, <1>2, <1>3, <1>12, <3>1, <3>2 DEF TellsHost
    <3>4. PICK old : old = channels[d].users
      OBVIOUS
    <3>5. PICK us : us = channels'[d].users
      OBVIOUS
    <3>6. Right(old, left[d], stale[d], n, p, seen.accts[n]) /\ t.accts = seen.accts
      BY <1>1, <1>12, <2>1, <3>1, <3>4 DEF TellsHost
    <3>7. /\ DOMAIN us = DOMAIN old
          /\ n \in DOMAIN us => us[n] = [host |-> h, modes |-> old[n].modes, account |-> old[n].account]
      BY <1>6, <1>7, <3>4, <3>5
    <3>8. n \in DOMAIN us \ left[d] => p2 = [host |-> us[n].host, modes |-> us[n].modes]
      <4>1. SUFFICES ASSUME n \in DOMAIN us \ left[d]
                     PROVE  p2 = [host |-> us[n].host, modes |-> us[n].modes]
        OBVIOUS
      <4>2. UsersType(old)
        BY <1>1, <3>4 DEF BotTypes, ChannelInfo
      <4>3. p = [host |-> old[n].host, modes |-> old[n].modes]
        BY <3>6, <3>7, <4>1 DEF Right
      <4>4. p \in Records
        BY <3>7, <4>1, <4>2, <4>3 DEF UsersType, UserInfo, Records
      <4>5. p2 = [host |-> h, modes |-> old[n].modes]
        BY <3>3, <4>3, <4>4, ChannelStateAssumption
      <4> QED
        BY <3>7, <4>1, <4>5
    <3>9. n \in DOMAIN us \ (left[d] \cup stale[d]) => us[n].account \in {Unknown, t.accts[n]}
      BY <3>6, <3>7 DEF Right
    <3>10. n \notin left[d] \cup DOMAIN us => p2 = Absent
      BY <3>3, <3>6, <3>7 DEF Right
    <3> QED
      BY <1>11, <2>1, <3>2, <3>5, <3>8, <3>9, <3>10 DEF Right
  <2>2. CASE x # n
    <3>1. In(t, d, x) = In(seen, d, x) /\ t.accts = seen.accts
      BY <1>1, <1>2, <1>12, <2>2 DEF TellsHost, RestOf
    <3>2. UsersType(channels[d].users)
      BY <1>1 DEF BotTypes, ChannelInfo
    <3>3. /\ x \in DOMAIN channels'[d].users <=> x \in DOMAIN channels[d].users
          /\ x \in DOMAIN channels[d].users => channels'[d].users[x] = channels[d].users[x]
          /\ x \in left'[d] <=> x \in left[d]
          /\ x \in stale'[d] <=> x \in stale[d]
      <4>1. channels'[d].users = users[d]
        BY <1>7
      <4>2. DOMAIN users[d] = DOMAIN channels[d].users
        BY <1>6
      <4>3. x \in DOMAIN users[d] => users[d][x] = channels[d].users[x]
        BY <1>6, <2>2
      <4> QED
        BY <1>11, <4>1, <4>2, <4>3
    <3> QED
      BY <1>12, <3>1, <3>2, <3>3, RightStays
  <2> QED
    BY <2>1, <2>2
<1>13. ASSUME NEW d \in Channels, There(seen, d), There(t, d), d \in known => channels[d].modes = seen.chans[d].modes
       PROVE  d \in known' => channels'[d].modes = t.chans[d].modes
  <2>1. known' = known
    BY DEF Reads, Deliver
  <2> QED
    BY <1>1, <1>7, <1>13, <2>1 DEF TellsHost, RestOf
<1>14. ~OwnJoin(m) /\ m.kind # "NAMES"
  BY DEF OwnJoin
<1>15. RecordsAsOf(seen)'
  BY <1>12, <1>13, <1>14, RecordsFollow
<1> QED
  BY <1>9, <1>10, <1>15 DEF BotAsOf

\* ACCOUNT, and the account-tag of a line if it says something new.
LEMMA AccountRead ==
  ASSUME IInv, NEW m, NEW t, Reads(m, t),
         m.kind = "ACCOUNT" \/ (m.kind = "PRIVMSG" /\ ~SameAgain(m))
  PROVE  BotAsOf(seen)'
<1>1. /\ TellsAccount(m, seen, t) /\ View(seen) /\ View(t) /\ BotTypes /\ seen' = t
      /\ AccountsAsOf(seen)
  BY ReadsWhat DEF Tells, BotAsOf
<1>2. PICK n \in Nicks : n = m.nick
  BY <1>1 DEF TellsAccount
<1>3. PICK a \in Standing : a = m.account
  BY <1>1 DEF TellsAccount
<1>4. PICK users : users = [c \in Channels |-> IF n \in DOMAIN channels[c].users
                                               THEN [channels[c].users EXCEPT ![n].account = a]
                                               ELSE channels[c].users]
  OBVIOUS
<1>5. channels' = EachChannel(users) /\ accounts' = With(accounts, n, a)
  BY <1>2, <1>3, <1>4 DEF Reads, Deliver, Handle, OnTag, OnAccount, Known
<1>6. ASSUME NEW c \in Channels
      PROVE  /\ DOMAIN users[c] = DOMAIN channels[c].users /\ UsersType(users[c])
             /\ \A x \in DOMAIN users[c] \ {n} : users[c][x] = channels[c].users[x]
             /\ n \in DOMAIN users[c] =>
                  users[c][n] = [host |-> channels[c].users[n].host,
                                 modes |-> channels[c].users[n].modes, account |-> a]
  <2>1. PICK old : old = channels[c].users
    OBVIOUS
  <2>2. PICK us : us = users[c]
    OBVIOUS
  <2>3. UsersType(old)
    BY <1>1, <2>1 DEF BotTypes, ChannelInfo
  <2>4. CASE n \in DOMAIN old
    <3>1. PICK r \in UserInfo : r = old[n]
      BY <2>3, <2>4 DEF UsersType
    <3>2. PICK r2 : r2 = [host |-> r.host, modes |-> r.modes, account |-> a]
      OBVIOUS
    <3>3. r2 \in UserInfo
      BY <3>1, <3>2 DEF UserInfo
    <3>4. [r EXCEPT !.account = a] = r2
      BY <3>1, <3>2 DEF UserInfo
    <3>5. us = [old EXCEPT ![n] = r2]
      BY <1>4, <2>1, <2>2, <2>4, <3>1, <3>4
    <3> QED
      BY <2>1, <2>2, <2>3, <2>4, <3>1, <3>2, <3>3, <3>5 DEF UsersType
  <2>5. CASE n \notin DOMAIN old
    BY <1>4, <2>1, <2>2, <2>3, <2>5
  <2> QED
    BY <2>4, <2>5
<1>7. /\ channels' = [d \in Channels |-> channels'[d]]
      /\ \A d \in Channels :
           /\ ChannelInfo(channels'[d]) /\ channels'[d].modes = channels[d].modes
           /\ channels'[d].users = users[d]
  BY <1>1, <1>5, <1>6, AllChannels
<1>8. /\ DOMAIN accounts' = DOMAIN accounts \cup {n} /\ accounts'[n] = a
      /\ accounts' = [x \in DOMAIN accounts' |-> accounts'[x]]
      /\ \A x \in DOMAIN accounts \ {n} : accounts'[x] = accounts[x]
  BY <1>5 DEF With
<1>9. DOMAIN accounts' \subseteq Nicks /\ accounts' \in [DOMAIN accounts' -> Standing]
  BY <1>1, <1>8 DEF BotTypes
<1>10. AccountsAsOf(seen)'
  <2>1. orphan' = DOMAIN accounts' \cap ((orphan \ {n}) \cup OutOfSight(t))
    BY <1>1, <1>2 DEF Reads, Deliver, Doubtful
  <2>2. ASSUME NEW x \in DOMAIN accounts' \ orphan' PROVE accounts'[x] = t.accts[x]
    <3>1. CASE x = n
      BY <1>1, <1>2, <1>3, <1>8, <3>1 DEF TellsAccount
    <3>2. CASE x # n
      <4>1. x \in DOMAIN accounts \ orphan /\ x \in Nicks
        BY <1>8, <1>9, <2>1, <2>2, <3>2
      <4> QED
        BY <1>1, <1>2, <1>8, <3>2, <4>1 DEF AccountsAsOf, TellsAccount
    <3> QED
      BY <3>1, <3>2
  <2> QED
    BY <1>1, <2>2 DEF AccountsAsOf
<1>11. BotTypes'
  BY <1>7, <1>9, TypesFollow
<1>12. ASSUME NEW d \in Channels PROVE left'[d] = left[d] /\ stale'[d] = stale[d] \ {n}
  <2>1. left'[d] = LeftAfter(d, m) /\ stale'[d] = StaleAfter(d, m)
    BY ReadsHistory
  <2>2. LeftAfter(d, m) = left[d]
    BY DEF LeftAfter
  <2>3. StaleAfter(d, m) = stale[d] \ {n}
    BY <1>2 DEF StaleAfter
  <2> QED
    BY <2>1, <2>2, <2>3
<1>13. ASSUME NEW d \in Channels, NEW x \in Nicks, There(seen, d), There(t, d),
              Right(channels[d].users, left[d], stale[d], x, In(seen, d, x), seen.accts[x])
       PROVE  Right(channels'[d].users, left'[d], stale'[d], x, In(t, d, x), t.accts[x])
  <2>1. channels'[d].users = users[d]
    BY <1>7
  <2>2. DOMAIN users[d] = DOMAIN channels[d].users
    BY <1>6
  <2>3. In(t, d, x) = In(seen, d, x)
    BY <1>1 DEF TellsAccount, In
  <2>4. CASE x = n
    <3>1. n \in DOMAIN users[d] =>
            users[d][n] = [host |-> channels[d].users[n].host,
                           modes |-> channels[d].users[n].modes, account |-> a]
      BY <1>6
    <3>2. t.accts[n] = a
      BY <1>1, <1>2, <1>3 DEF TellsAccount
    <3> QED
      BY <1>12, <1>13, <2>1, <2>2, <2>3, <2>4, <3>1, <3>2 DEF Right
  <2>5. CASE x # n
    <3>1. x \in DOMAIN users[d] => users[d][x] = channels[d].users[x]
      BY <1>6, <2>5
    <3>2. UsersType(channels[d].users)
      BY <1>1 DEF BotTypes, ChannelInfo
    <3>3. x \in left'[d] <=> x \in left[d]
      BY <1>12
    <3>4. x \in stale'[d] <=> x \in stale[d]
      BY <1>12, <2>5
    <3>5. t.accts[x] = seen.accts[x]
      BY <1>1, <1>2, <2>5 DEF TellsAccount
    <3> QED
      BY <1>13, <2>1, <2>2, <2>3, <3>1, <3>2, <3>3, <3>4, <3>5, RightStays
  <2> QED
    BY <2>4, <2>5
<1>14. ASSUME NEW d \in Channels, There(seen, d), There(t, d), d \in known => channels[d].modes = seen.chans[d].modes
       PROVE  d \in known' => channels'[d].modes = t.chans[d].modes
  <2>1. known' = known
    BY DEF Reads, Deliver
  <2> QED
    BY <1>1, <1>7, <1>14, <2>1 DEF TellsAccount
<1>15. ~OwnJoin(m) /\ m.kind # "NAMES"
  BY DEF OwnJoin
<1>16. RecordsAsOf(seen)'
  BY <1>13, <1>14, <1>15, RecordsFollow
<1> QED
  BY <1>10, <1>11, <1>16 DEF BotAsOf

LEMMA TagRead ==
  ASSUME IInv, NEW m, NEW t, Reads(m, t), m.kind = "PRIVMSG", SameAgain(m)
  PROVE  BotAsOf(seen)'
<1>1. /\ TellsAccount(m, seen, t) /\ BotTypes /\ seen' = t /\ t = seen /\ AccountsAsOf(seen)
  BY ReadsWhat DEF Tells, BotAsOf, TellsAccount
<1>2. channels' = channels /\ accounts' = accounts
  BY DEF Reads, Deliver, Handle, OnTag, b
<1>3. DOMAIN accounts' \subseteq Nicks /\ accounts' \in [DOMAIN accounts' -> Standing]
  BY <1>1, <1>2 DEF BotTypes
<1>4. BotTypes'
  BY <1>1, <1>2, <1>3, TypesFollow DEF BotTypes
<1>5. AccountsAsOf(seen)'
  <2>1. orphan' = DOMAIN accounts \cap ((orphan \ {m.nick}) \cup OutOfSight(t))
    BY <1>1, <1>2 DEF Reads, Deliver, Doubtful
  <2>2. ASSUME NEW x \in DOMAIN accounts \ orphan' PROVE accounts[x] = t.accts[x]
    <3>1. CASE x = m.nick
      BY <1>1, <3>1 DEF TellsAccount, SameAgain
    <3>2. CASE x # m.nick
      BY <1>1, <2>1, <2>2, <3>2 DEF AccountsAsOf
    <3> QED
      BY <3>1, <3>2
  <2> QED
    BY <1>1, <1>2, <2>2 DEF AccountsAsOf
<1>6. ASSUME NEW d \in Channels PROVE left'[d] = left[d] /\ stale'[d] = stale[d]
  <2>1. left'[d] = LeftAfter(d, m) /\ stale'[d] = StaleAfter(d, m)
    BY ReadsHistory
  <2> QED
    BY <2>1 DEF LeftAfter, StaleAfter
<1>7. ~OwnJoin(m) /\ m.kind # "NAMES"
  BY DEF OwnJoin
<1>8. known' = known
  BY DEF Reads, Deliver
<1>9. RecordsAsOf(seen)'
  BY <1>1, <1>2, <1>6, <1>7, <1>8, UsersFollow
<1> QED
  BY <1>4, <1>5, <1>9 DEF BotAsOf

\* What a list says of one nick.
LEMMA ListEntry ==
  ASSUME NEW m, NEW s, Lists(m, s), NEW n, n \in {x.nick : x \in Range(m.list)}
  PROVE  \E e \in Range(m.list) :
           /\ e = CHOOSE x \in Range(m.list) : x.nick = n
           /\ n \in Nicks /\ e.host \in Hosts /\ e.modes \in SUBSET Prefix
           /\ In(s, m.chan, n) = [host |-> e.host, modes |-> e.modes]
           /\ In(s, m.chan, n) # Absent
           /\ \A y \in Range(m.list) : y.nick = n => y.modes = e.modes
<1>1. PICK e : e = CHOOSE x \in Range(m.list) : x.nick = n
  OBVIOUS
<1>2. e \in Range(m.list) /\ e.nick = n
  BY <1>1
<1>3. /\ n \in Nicks /\ e.host \in Hosts /\ e.modes \in SUBSET Prefix
      /\ In(s, m.chan, n) = [host |-> e.host, modes |-> e.modes]
  BY <1>2 DEF Lists
<1>4. [host |-> e.host, modes |-> e.modes] \in Records
  BY <1>3 DEF Records
<1>5. In(s, m.chan, n) # Absent
  BY <1>3, <1>4, ChannelStateAssumption
<1>6. ASSUME NEW y \in Range(m.list), y.nick = n PROVE y.modes = e.modes
  <2>1. In(s, m.chan, n) = [host |-> y.host, modes |-> y.modes]
    BY <1>6 DEF Lists
  <2> QED
    BY <1>3, <2>1
<1> QED
  BY <1>1, <1>2, <1>3, <1>5, <1>6

\* WHO: what it says of a host the bot has already, but where its record is old.
LEMMA WhoRead ==
  ASSUME IInv, NEW m, NEW t, Reads(m, t), m.kind = "WHO"
  PROVE  BotAsOf(seen)'
<1>1. /\ TellsList(m, seen, t) /\ View(seen) /\ BotTypes /\ t = seen /\ Lists(m, seen)
  BY ReadsWhat DEF Tells, TellsList
<1>2. PICK c \in Channels : c = m.chan
  BY <1>1 DEF TellsList
<1>3. PICK old : old = channels[c].users
  OBVIOUS
<1>4. PICK H : H = [n \in DOMAIN old |-> IF \E x \in Range(m.list) : x.nick = n
                                       THEN (CHOOSE x \in Range(m.list) : x.nick = n).host
                                       ELSE old[n].host]
  OBVIOUS
<1>5. PICK us : us = [n \in DOMAIN old |-> [old[n] EXCEPT !.host = H[n]]]
  OBVIOUS
<1>6. UsersType(old)
  BY <1>1, <1>3 DEF BotTypes, ChannelInfo
<1>7. ASSUME NEW n \in DOMAIN old
      PROVE  /\ old[n] \in UserInfo /\ n \in Nicks
             /\ H[n] \in Hosts
             /\ H[n] # old[n].host => H[n] = In(seen, c, n).host
  <2>1. old[n] \in UserInfo /\ n \in Nicks
    BY <1>6 DEF UsersType
  <2>2. CASE \E x \in Range(m.list) : x.nick = n
    <3>1. n \in {x.nick : x \in Range(m.list)}
      BY <2>2
    <3>2. PICK e \in Range(m.list) :
            /\ e = CHOOSE x \in Range(m.list) : x.nick = n
            /\ e.host \in Hosts
            /\ In(seen, m.chan, n) = [host |-> e.host, modes |-> e.modes]
      BY <1>1, <3>1, ListEntry
    <3>3. H[n] = e.host
      BY <1>4, <2>2, <3>2
    <3> QED
      BY <1>2, <2>1, <3>2, <3>3
  <2>3. CASE ~\E x \in Range(m.list) : x.nick = n
    <3>1. H[n] = old[n].host
      BY <1>4, <2>3
    <3> QED
      BY <2>1, <3>1 DEF UserInfo
  <2> QED
    BY <2>2, <2>3
<1>8. ASSUME NEW n \in DOMAIN old
      PROVE  us[n] = [host |-> H[n], modes |-> old[n].modes, account |-> old[n].account]
  BY <1>5, <1>7 DEF UserInfo
<1>9. UsersType(us)
  <2>1. DOMAIN us = DOMAIN old /\ us = [n \in DOMAIN us |-> us[n]]
    BY <1>5
  <2>2. \A n \in DOMAIN us : us[n] \in UserInfo
    BY <1>7, <1>8, <2>1 DEF UserInfo
  <2> QED
    BY <1>6, <2>1, <2>2 DEF UsersType
<1>10. channels' = [channels EXCEPT ![c].users = us] /\ accounts' = accounts
  <2>1. us = [n \in DOMAIN old |->
                IF \E x \in Range(m.list) : x.nick = n
                THEN [old[n] EXCEPT !.host = (CHOOSE x \in Range(m.list) : x.nick = n).host]
                ELSE old[n]]
    <3>1. ASSUME NEW n \in DOMAIN old
          PROVE  us[n] = IF \E x \in Range(m.list) : x.nick = n
                         THEN [old[n] EXCEPT !.host = (CHOOSE x \in Range(m.list) : x.nick = n).host]
                         ELSE old[n]
      <4>1. CASE \E x \in Range(m.list) : x.nick = n
        BY <1>4, <1>5, <4>1
      <4>2. CASE ~\E x \in Range(m.list) : x.nick = n
        <5>1. H[n] = old[n].host /\ old[n] \in UserInfo
          BY <1>4, <1>7, <4>2
        <5>2. us[n] = old[n]
          BY <1>5, <5>1 DEF UserInfo
        <5> QED
          BY <4>2, <5>2
      <4> QED
        BY <4>1, <4>2
    <3> QED
      BY <1>5, <3>1
  <2> QED
    BY <1>2, <1>3, <2>1 DEF Reads, Deliver, Handle, OnWholist, b
<1>11. /\ channels' = [d \in Channels |-> channels'[d]]
       /\ \A d \in Channels :
            /\ ChannelInfo(channels'[d]) /\ channels'[d].modes = channels[d].modes
            /\ channels'[d].users = IF d = c THEN us ELSE channels[d].users
  BY <1>1, <1>9, <1>10, OneChannel
<1>12. Doubtful(m) = orphan
  BY DEF Doubtful
<1>13. /\ AccountsAsOf(seen)'
       /\ DOMAIN accounts' \subseteq Nicks /\ accounts' \in [DOMAIN accounts' -> Standing]
  BY <1>1, <1>10, <1>12, AccountsFollow
<1>14. BotTypes'
  BY <1>11, <1>13, TypesFollow
<1>15. ASSUME NEW d \in Channels PROVE left'[d] = left[d] /\ stale'[d] = stale[d]
  <2>1. left'[d] = LeftAfter(d, m) /\ stale'[d] = StaleAfter(d, m)
    BY ReadsHistory
  <2> QED
    BY <2>1 DEF LeftAfter, StaleAfter
<1>16. ASSUME NEW d \in Channels, NEW x \in Nicks, There(seen, d), There(t, d),
              Right(channels[d].users, left[d], stale[d], x, In(seen, d, x), seen.accts[x])
       PROVE  Right(channels'[d].users, left'[d], stale'[d], x, In(t, d, x), t.accts[x])
  <2>1. CASE d # c
    BY <1>1, <1>11, <1>15, <1>16, <2>1
  <2>2. CASE d = c
    <3>1. PICK p : p = In(seen, c, x)
      OBVIOUS
    <3>2. Right(old, left[c], stale[c], x, p, seen.accts[x])
      BY <1>3, <1>16, <2>2, <3>1
    <3>3. DOMAIN us = DOMAIN old
      BY <1>5
    <3>4. ASSUME x \in DOMAIN us \ left[c] PROVE p = [host |-> us[x].host, modes |-> us[x].modes]
      <4>1. p = [host |-> old[x].host, modes |-> old[x].modes]
        BY <3>2, <3>3, <3>4 DEF Right
      <4>2. x \in DOMAIN old /\ p.host = old[x].host
        BY <3>3, <3>4, <4>1
      <4>3. H[x] = old[x].host
        BY <1>7, <3>1, <4>2
      <4> QED
        BY <1>8, <3>3, <3>4, <4>1, <4>3
    <3>5. ASSUME x \in DOMAIN us \ (left[c] \cup stale[c])
          PROVE  us[x].account \in {Unknown, seen.accts[x]}
      BY <1>8, <3>2, <3>3, <3>5 DEF Right
    <3>6. x \notin left[c] \cup DOMAIN us => p = Absent
      BY <3>2, <3>3 DEF Right
    <3>7. Right(us, left[c], stale[c], x, p, seen.accts[x])
      BY <3>4, <3>5, <3>6 DEF Right
    <3> QED
      BY <1>1, <1>11, <1>15, <2>2, <3>1, <3>7
  <2> QED
    BY <2>1, <2>2
<1>17. known' = known /\ ~OwnJoin(m) /\ m.kind # "NAMES"
  BY DEF Reads, Deliver, OwnJoin
<1>18. RecordsAsOf(seen)'
  BY <1>1, <1>11, <1>16, <1>17, RecordsFollow
<1> QED
  BY <1>13, <1>14, <1>18 DEF BotAsOf

\* NAMES: after it nobody is missing, and whose modes it gave is no longer old.
LEMMA NamesRead ==
  ASSUME IInv, NEW m, NEW t, Reads(m, t), m.kind = "NAMES"
  PROVE  BotAsOf(seen)'
<1>1. /\ TellsList(m, seen, t) /\ View(seen) /\ BotTypes /\ t = seen /\ Lists(m, seen)
      /\ seen' = t /\ RecordsAsOf(seen) /\ m.chan \notin synced
  BY ReadsWhat DEF Tells, TellsList, BotAsOf
<1>2. PICK c \in Channels : c = m.chan
  BY <1>1 DEF TellsList
<1>3. PICK old : old = channels[c].users
  OBVIOUS
<1>4. PICK named : named = {x.nick : x \in Range(m.list)}
  OBVIOUS
<1>5. PICK E : E = [n \in named |-> CHOOSE x \in Range(m.list) : x.nick = n]
  OBVIOUS
<1>6. ASSUME NEW n \in named
      PROVE  /\ n \in Nicks /\ E[n].host \in Hosts /\ E[n].modes \in SUBSET Prefix
             /\ In(seen, c, n) = [host |-> E[n].host, modes |-> E[n].modes]
             /\ \A y \in Range(m.list) : y.nick = n => y.modes = E[n].modes
  <2>1. PICK e \in Range(m.list) :
           /\ e = CHOOSE x \in Range(m.list) : x.nick = n
           /\ n \in Nicks /\ e.host \in Hosts /\ e.modes \in SUBSET Prefix
           /\ In(seen, m.chan, n) = [host |-> e.host, modes |-> e.modes]
           /\ \A y \in Range(m.list) : y.nick = n => y.modes = e.modes
    BY <1>1, <1>4, <1>6, ListEntry
  <2>2. E[n] = e
    BY <1>5, <2>1
  <2> QED
    BY <1>2, <2>1, <2>2
<1>7. \A n \in Nicks : In(seen, c, n) # Absent => n \in named
  BY <1>1, <1>2, <1>4 DEF Lists
<1> DEFINE Entry(n) == CHOOSE x \in Range(m.list) : x.nick = n
<1>8. PICK us : us = [n \in DOMAIN old \cup named |->
           IF n \notin named THEN old[n]
           ELSE IF n \notin DOMAIN old
                THEN [host |-> Entry(n).host, modes |-> Entry(n).modes, account |-> Unknown]
           ELSE [old[n] EXCEPT !.host = Entry(n).host,
                               !.modes = IF Entry(n).modes = {} THEN @ ELSE Entry(n).modes]]
  OBVIOUS
<1>9. \A n \in named : Entry(n) = E[n]
  BY <1>5
<1>12. channels' = [channels EXCEPT ![c].users = us] /\ accounts' = accounts
  <2>1. us = [n \in DOMAIN channels[m.chan].users \cup {x.nick : x \in Range(m.list)} |->
           IF n \notin {x.nick : x \in Range(m.list)} THEN channels[m.chan].users[n]
           ELSE IF n \notin DOMAIN channels[m.chan].users
                THEN [host |-> Entry(n).host, modes |-> Entry(n).modes, account |-> Unknown]
           ELSE [channels[m.chan].users[n] EXCEPT
                   !.host = Entry(n).host,
                   !.modes = IF Entry(n).modes = {} THEN @ ELSE Entry(n).modes]]
    BY <1>2, <1>3, <1>4, <1>8
  <2>2. channels' = Handle(m).channels /\ accounts' = Handle(m).accounts /\ Handle(m) = OnUserlist(m)
    BY DEF Reads, Deliver, Handle
  <2>3. Handle(m).channels = [channels EXCEPT ![m.chan].users = us] /\ Handle(m).accounts = accounts
    BY <2>1, <2>2 DEF OnUserlist, b
  <2> QED
    BY <1>2, <2>2, <2>3
<1> HIDE DEF Entry
<1>22. UsersType(old)
  BY <1>1, <1>3 DEF BotTypes, ChannelInfo
<1>10. /\ DOMAIN us = DOMAIN old \cup named
       /\ \A n \in DOMAIN old \ named : us[n] = old[n]
       /\ \A n \in named \ DOMAIN old :
            us[n] = [host |-> E[n].host, modes |-> E[n].modes, account |-> Unknown]
       /\ \A n \in named \cap DOMAIN old :
            us[n] = [host |-> E[n].host,
                     modes |-> IF E[n].modes = {} THEN old[n].modes ELSE E[n].modes,
                     account |-> old[n].account]
  <2>1. ASSUME NEW n \in named \cap DOMAIN old
        PROVE  us[n] = [host |-> E[n].host,
                        modes |-> IF E[n].modes = {} THEN old[n].modes ELSE E[n].modes,
                        account |-> old[n].account]
    <3>1. old[n] \in UserInfo
      BY <1>22 DEF UsersType
    <3>2. us[n] = [old[n] EXCEPT !.host = E[n].host,
                                 !.modes = IF E[n].modes = {} THEN @ ELSE E[n].modes]
      BY <1>8, <1>9
    <3>3. CASE E[n].modes = {}
      BY <3>1, <3>2, <3>3 DEF UserInfo
    <3>4. CASE E[n].modes # {}
      BY <3>1, <3>2, <3>4 DEF UserInfo
    <3> QED
      BY <3>3, <3>4
  <2>2. /\ DOMAIN us = DOMAIN old \cup named
        /\ \A n \in DOMAIN old \ named : us[n] = old[n]
    BY <1>8
  <2>3. \A n \in named \ DOMAIN old :
          us[n] = [host |-> E[n].host, modes |-> E[n].modes, account |-> Unknown]
    BY <1>8, <1>9
  <2> QED
    BY <2>1, <2>2, <2>3
<1>11. UsersType(us)
  <2>1. us = [n \in DOMAIN us |-> us[n]]
    BY <1>8
  <2>2. ASSUME NEW n \in DOMAIN us PROVE us[n] \in UserInfo /\ n \in Nicks
    <3>1. CASE n \in DOMAIN old \ named
      BY <1>22, <1>10, <3>1 DEF UsersType
    <3>2. CASE n \in named \ DOMAIN old
      BY <1>6, <1>10, <3>2 DEF UserInfo
    <3>3. CASE n \in named \cap DOMAIN old
      <4>1. old[n].modes \in SUBSET Prefix /\ old[n].account \in Standing \cup {Unknown}
        BY <1>22, <3>3 DEF UsersType, UserInfo
      <4>2. PICK md \in SUBSET Prefix : md = IF E[n].modes = {} THEN old[n].modes ELSE E[n].modes
        BY <1>6, <3>3, <4>1
      <4>3. us[n] = [host |-> E[n].host, modes |-> md, account |-> old[n].account]
        BY <1>10, <3>3, <4>2
      <4> QED
        BY <1>6, <3>3, <4>1, <4>3 DEF UserInfo
    <3> QED
      BY <1>10, <3>1, <3>2, <3>3
  <2> QED
    BY <2>1, <2>2 DEF UsersType
<1>13. /\ channels' = [d \in Channels |-> channels'[d]]
       /\ \A d \in Channels :
            /\ ChannelInfo(channels'[d]) /\ channels'[d].modes = channels[d].modes
            /\ channels'[d].users = IF d = c THEN us ELSE channels[d].users
  BY <1>1, <1>11, <1>12, OneChannel
<1>14. Doubtful(m) = orphan
  BY DEF Doubtful
<1>15. /\ AccountsAsOf(seen)'
       /\ DOMAIN accounts' \subseteq Nicks /\ accounts' \in [DOMAIN accounts' -> Standing]
  BY <1>1, <1>12, <1>14, AccountsFollow
<1>16. BotTypes'
  BY <1>13, <1>15, TypesFollow
<1>17. ASSUME NEW d \in Channels
       PROVE  /\ d # c => left'[d] = left[d]
              /\ stale'[d] = stale[d]
              /\ \A x : x \in left'[c] <=>
                   x \in left[c] /\ ~(\E y \in Range(m.list) : y.nick = x /\ y.modes # {})
  <2>1. \A e \in Channels : left'[e] = LeftAfter(e, m) /\ stale'[e] = StaleAfter(e, m)
    BY ReadsHistory
  <2>2. left'[c] = left[c] \ {x.nick : x \in {y \in Range(m.list) : y.modes # {}}}
    BY <1>2, <2>1 DEF LeftAfter
  <2>3. d # c => left'[d] = left[d]
    BY <1>2, <2>1 DEF LeftAfter
  <2>4. stale'[d] = stale[d]
    BY <2>1 DEF StaleAfter
  <2> QED
    BY <2>2, <2>3, <2>4
<1>18. known' = known /\ synced' = synced \cup {c}
  BY <1>2 DEF Reads, Deliver
<1>19. ASSUME NEW x \in Nicks, There(seen, c)
       PROVE  Right(us, left'[c], stale[c], x, In(seen, c, x), seen.accts[x])
  <2>1. PICK p : p = In(seen, c, x)
    OBVIOUS
  <2>2. PICK a : a = seen.accts[x]
    OBVIOUS
  <2>3. Waiting(old, left[c], stale[c], x, p, a)
    BY <1>1, <1>2, <1>3, <1>19, <2>1, <2>2 DEF RecordsAsOf
  <2>4. CASE x \in named /\ x \in DOMAIN old
    <3>1. PICK e : e = E[x]
      OBVIOUS
    <3>2. p = [host |-> e.host, modes |-> e.modes]
      BY <1>6, <2>1, <2>4, <3>1
    <3>3. us[x] = [host |-> e.host, modes |-> IF e.modes = {} THEN old[x].modes ELSE e.modes,
                   account |-> old[x].account]
      BY <1>10, <2>4, <3>1
    <3>4. x \in left'[c] <=> x \in left[c] /\ e.modes = {}
      <4>1. PICK y \in Range(m.list) : y.nick = x
        BY <1>4, <2>4
      <4> QED
        BY <1>6, <1>17, <2>4, <3>1, <4>1
    <3>5. ASSUME x \notin left'[c] PROVE p = [host |-> us[x].host, modes |-> us[x].modes]
      <4>1. CASE e.modes = {}
        <5>1. p = [host |-> old[x].host, modes |-> old[x].modes]
          BY <2>3, <2>4, <3>4, <3>5, <4>1 DEF Waiting
        <5>2. old[x].modes = {}
          BY <3>2, <4>1, <5>1
        <5> QED
          BY <3>2, <3>3, <4>1, <5>2
      <4>2. CASE e.modes # {}
        BY <3>2, <3>3, <4>2
      <4> QED
        BY <4>1, <4>2
    <3>6. x \notin stale[c] => us[x].account \in {Unknown, a}
      BY <2>3, <2>4, <3>3 DEF Waiting
    <3>7. x \in DOMAIN us
      BY <1>10, <2>4
    <3> QED
      BY <2>1, <2>2, <3>5, <3>6, <3>7 DEF Right
  <2>5. CASE x \in named /\ x \notin DOMAIN old
    <3>1. p = [host |-> E[x].host, modes |-> E[x].modes]
      BY <1>6, <2>1, <2>5
    <3>2. us[x] = [host |-> E[x].host, modes |-> E[x].modes, account |-> Unknown]
      BY <1>10, <2>5
    <3>3. x \in DOMAIN us
      BY <1>10, <2>5
    <3> QED
      BY <2>1, <2>2, <3>1, <3>2, <3>3 DEF Right
  <2>6. CASE x \notin named
    <3>1. p = Absent
      BY <1>7, <2>1, <2>6
    <3>2. x \in DOMAIN us <=> x \in DOMAIN old
      BY <1>10, <2>6
    <3>3. x \in DOMAIN old => us[x] = old[x] /\ old[x] \in UserInfo
      BY <1>22, <1>10, <2>6 DEF UsersType
    <3>4. x \in left'[c] <=> x \in left[c]
      BY <1>4, <1>17, <2>6
    <3>5. x \in DOMAIN us => x \in left'[c]
      <4>1. SUFFICES ASSUME x \in DOMAIN old, x \notin left[c] PROVE FALSE
        BY <3>2, <3>4
      <4>2. p = [host |-> old[x].host, modes |-> old[x].modes]
        BY <2>3, <4>1 DEF Waiting
      <4>3. p \in Records
        BY <3>3, <4>1, <4>2 DEF UserInfo, Records
      <4> QED
        BY <3>1, <4>3, ChannelStateAssumption
    <3> QED
      BY <2>1, <3>1, <3>5 DEF Right
  <2> QED
    BY <2>4, <2>5, <2>6
<1>20. ASSUME NEW d \in Channels, There(seen, d)
       PROVE  /\ \A x \in Nicks :
                   IF d \in synced'
                   THEN Right(channels'[d].users, left'[d], stale'[d], x, In(seen, d, x), seen.accts[x])
                   ELSE Waiting(channels'[d].users, left'[d], stale'[d], x, In(seen, d, x), seen.accts[x])
              /\ d \in known' => channels'[d].modes = seen.chans[d].modes
  <2>1. d \in known' => channels'[d].modes = seen.chans[d].modes
    BY <1>1, <1>13, <1>18, <1>20 DEF RecordsAsOf
  <2>2. CASE d = c
    BY <1>13, <1>17, <1>18, <1>19, <1>20, <2>1, <2>2
  <2>3. CASE d # c
    <3>1. channels'[d].users = channels[d].users /\ left'[d] = left[d] /\ stale'[d] = stale[d]
      BY <1>13, <1>17, <2>3
    <3>2. d \in synced' <=> d \in synced
      BY <1>18, <2>3
    <3> QED
      BY <1>1, <1>20, <2>1, <3>1, <3>2 DEF RecordsAsOf
  <2> QED
    BY <2>2, <2>3
<1>21. RecordsAsOf(seen)'
  BY <1>1, <1>20 DEF RecordsAsOf
<1> QED
  BY <1>15, <1>16, <1>21 DEF BotAsOf

LEMMA DeliverStep ==
  ASSUME IInv, Deliver
  PROVE  IInv'
<1>1. PICK m : m = Head(wire).m
  OBVIOUS
<1>2. PICK t : t = Head(wire).after
  OBVIOUS
<1>3. Reads(m, t)
  BY <1>1, <1>2 DEF Reads, Deliver
<1>4. /\ Tells(m, seen, t) /\ seen' = t /\ UNCHANGED server /\ ServerTypes
  BY <1>3, ReadsWhat
<1>5. BotAsOf(seen)'
  <2>1. CASE m.kind = "JOIN"
    BY <1>3, <2>1, JoinRead
  <2>2. CASE m.kind \in {"PART", "KICK"}
    BY <1>3, <2>2, PartRead
  <2>3. CASE m.kind = "QUIT"
    BY <1>3, <2>3, QuitRead
  <2>4. CASE m.kind = "NICK"
    BY <1>3, <2>4, NickRead
  <2>5. CASE m.kind = "MODE" /\ m.mode \in Prefix
    BY <1>3, <2>5, UserModeRead
  <2>6. CASE m.kind = "MODE" /\ m.mode \notin Prefix
    BY <1>3, <2>6, ChanModeRead
  <2>7. CASE m.kind = "NAMES"
    BY <1>3, <2>7, NamesRead
  <2>8. CASE m.kind = "WHO"
    BY <1>3, <2>8, WhoRead
  <2>9. CASE m.kind = "MODEIS"
    BY <1>3, <2>9, ModesIsRead
  <2>10. CASE m.kind = "ACCOUNT" \/ (m.kind = "PRIVMSG" /\ ~SameAgain(m))
    BY <1>3, <2>10, AccountRead
  <2>11. CASE m.kind = "PRIVMSG" /\ SameAgain(m)
    BY <1>3, <2>11, TagRead
  <2>12. CASE m.kind = "CHGHOST"
    BY <1>3, <2>12, HostRead
  <2> QED
    BY <1>4, <2>1, <2>2, <2>3, <2>4, <2>5, <2>6, <2>7, <2>8, <2>9, <2>10, <2>11, <2>12 DEF Tells
<1>6. Truth' = Truth
  BY <1>4, TruthStays
<1>7. ServerTypes'
  BY <1>4 DEF ServerTypes, server, Members, IsInjective
<1>8. AwaitsNames'
  BY <1>3, AwaitsNext
<1>9. PICK now : now = Truth
  OBVIOUS
<1>10. Linked(wire, seen, now) /\ Announced(wire) /\ wire # <<>> /\ wire' = Tail(wire)
  BY <1>9 DEF IInv, Deliver
<1>11. Linked(Tail(wire), t, now)
  BY <1>2, <1>10, LinkedTail
<1>12. Announced(Tail(wire))
  BY <1>10, AnnouncedTail
<1> QED
  BY <1>4, <1>5, <1>6, <1>7, <1>8, <1>9, <1>10, <1>11, <1>12 DEF IInv

----------------------------------------------------------------------------
(* The rest: beginning and end of a connection, and the link's picture. *)

\* Who is in no channel may know nothing.
LEMMA UnseenIsView == View(Unseen) /\ \A c \in Channels : ~There(Unseen, c)
  BY DEF View, Views, Coherent, Unseen, There

LEMMA NowhereIsUnseen ==
  (\A c \in Channels : Me \notin Members(c)) => Truth = Unseen
<1> SUFFICES ASSUME \A c \in Channels : Me \notin Members(c) PROVE Truth = Unseen
  OBVIOUS
<1>1. \A c \in Channels : Picture(c) = Nothing
  BY DEF Picture
<1>2. \A u : ~Sees(u)
  BY DEF Sees
<1>3. \A n : Identity(n) = "unseen"
  BY <1>2 DEF Identity
<1> QED
  BY <1>1, <1>3 DEF Truth, Unseen

LEMMA NowhereIsUnseenNext ==
  (\A c \in Channels : Me \notin Members(c)') => Truth' = Unseen
<1>1. ((\A c \in Channels : Me \notin Members(c)) => Truth = Unseen)'
  BY NowhereIsUnseen, PTL
<1>2. Unseen' = Unseen
  BY DEF Unseen
<1> QED
  BY <1>1, <1>2

LEMMA NothingLinked ==
  ASSUME NEW v, View(v)
  PROVE  Linked(<<>>, v, v) /\ Announced(<<>>)
<1>1. Len(<<>>) = 0 /\ <<>> \in Seq(Range(<<>>))
  OBVIOUS
<1> QED
  BY <1>1 DEF Linked, Announced, After, Before

LEMMA InitIsRight == Init => IInv
<1> SUFFICES ASSUME Init PROVE IInv
  OBVIOUS
<1>1. PICK there \in [Channels -> SUBSET Users] : on = [c \in Channels |-> [u \in there[c] |-> Prefix]]
  BY DEF Init
<1>2. \A c \in Channels : Members(c) = there[c] /\ on[c] = [u \in Members(c) |-> Prefix]
  BY <1>1 DEF Members
<1>3. \A c \in Channels : Me \notin Members(c) /\ Members(c) \subseteq People
  BY <1>1, <1>2, ChannelStateAssumption DEF People
<1>4. ServerTypes
  <2>1. nick \in [People -> Nicks] /\ IsInjective(nick) /\ nick[Me] = MyNick
    BY ChannelStateAssumption DEF Init, MyNick
  <2>2. host \in [People -> Hosts] /\ acct \in [People -> Standing]
    BY ChannelStateAssumption DEF Init, Standing
  <2>3. chan \in [Channels -> ChanModes]
    BY DEF Init, ChanModes, NoModes
  <2>4. DOMAIN on = Channels
    BY <1>1
  <2>5. \A c \in Channels : on[c] \in [Members(c) -> SUBSET Prefix]
    BY <1>2
  <2> QED
    BY <1>3, <2>1, <2>2, <2>3, <2>4, <2>5 DEF ServerTypes
<1>5. Truth = Unseen
  BY <1>3, NowhereIsUnseen
<1>6. PICK v : v = Unseen
  OBVIOUS
<1>7. View(v) /\ \A c \in Channels : ~There(v, c)
  BY <1>6, UnseenIsView
<1>8. wire = <<>> /\ seen = v /\ synced = {} /\ accounts = <<>>
  BY <1>6 DEF Init
<1>9. Linked(wire, seen, Truth) /\ Announced(wire)
  BY <1>5, <1>6, <1>7, <1>8, NothingLinked
<1>10. AwaitsNames
  BY <1>7, <1>8 DEF AwaitsNames
<1>11. BotTypes
  <2>1. \A c \in Channels : channels[c] = Empty
    BY DEF Init
  <2>2. ChannelInfo(Empty)
    BY DEF ChannelInfo, UsersType, Empty, NoModes, ChanModes
  <2>3. channels = [c \in Channels |-> channels[c]]
    BY DEF Init
  <2>4. \A c \in Channels : ChannelInfo(channels[c])
    BY <2>1, <2>2
  <2> QED
    BY <2>3, <2>4 DEF BotTypes, Init
<1>12. AccountsAsOf(seen) /\ RecordsAsOf(seen)
  BY <1>7, <1>8 DEF AccountsAsOf, RecordsAsOf
<1> QED
  BY <1>4, <1>9, <1>10, <1>11, <1>12 DEF IInv, BotAsOf

LEMMA ReconnectStep ==
  ASSUME IInv, Reconnect
  PROVE  IInv'
<1>1. /\ ServerTypes /\ BotTypes
      /\ on' = [c \in Channels |-> Restrict(on[c], Members(c) \ {Me})]
      /\ UNCHANGED <<nick, host, acct, chan, known, left, stale>>
      /\ wire' = <<>> /\ synced' = {} /\ orphan' = {}
      /\ channels' = Cleared.channels /\ accounts' = Cleared.accounts
  BY DEF Reconnect, IInv, BotAsOf
<1>2. ASSUME NEW c \in Channels
      PROVE  /\ Members(c)' = Members(c) \ {Me}
             /\ on'[c] \in [Members(c) \ {Me} -> SUBSET Prefix]
  <2>1. on'[c] = [u \in Members(c) \ {Me} |-> on[c][u]]
    BY <1>1 DEF Restrict
  <2>2. on[c] \in [Members(c) -> SUBSET Prefix]
    BY <1>1 DEF ServerTypes
  <2> QED
    BY <2>1, <2>2 DEF Members
<1>3. ServerTypes'
  <2>1. nick' \in [People -> Nicks] /\ IsInjective(nick)' /\ nick'[Me] = MyNick
    BY <1>1 DEF ServerTypes, IsInjective
  <2>2. DOMAIN on' = Channels
    BY <1>1
  <2>3. \A c \in Channels : Members(c)' \subseteq People /\ on'[c] \in [Members(c)' -> SUBSET Prefix]
    BY <1>1, <1>2 DEF ServerTypes
  <2> QED
    BY <1>1, <2>1, <2>2, <2>3 DEF ServerTypes
<1>4. Truth' = Unseen
  BY <1>2, NowhereIsUnseenNext
<1>5. PICK v : v = Unseen
  OBVIOUS
<1>6. View(v) /\ \A c \in Channels : ~There(v, c)
  BY <1>5, UnseenIsView
<1>7. seen' = v
  BY <1>5 DEF Reconnect
<1>8. Linked(wire', seen', Truth') /\ Announced(wire')
  BY <1>1, <1>4, <1>5, <1>6, <1>7, NothingLinked
<1>9. AwaitsNames'
  BY <1>1, <1>6, <1>7 DEF AwaitsNames
<1>10. /\ accounts' = <<>>
       /\ channels' = [c \in Channels |-> channels'[c]]
       /\ \A c \in Channels : ChannelInfo(channels'[c])
  <2>1. CASE accounts = <<>>
    BY <1>1, <2>1 DEF Cleared, b, BotTypes
  <2>2. CASE accounts # <<>>
    <3>1. PICK users : users = [c \in Channels |-> [n \in DOMAIN channels[c].users |->
                                  [channels[c].users[n] EXCEPT !.account = Unknown]]]
      OBVIOUS
    <3>2. channels' = EachChannel(users) /\ accounts' = <<>>
      BY <1>1, <2>2, <3>1 DEF Cleared
    <3>3. ASSUME NEW c \in Channels PROVE UsersType(users[c])
      <4>1. PICK old : old = channels[c].users
        OBVIOUS
      <4>2. UsersType(old)
        BY <1>1, <4>1 DEF BotTypes, ChannelInfo
      <4>3. users[c] = [n \in DOMAIN old |-> [old[n] EXCEPT !.account = Unknown]]
        BY <3>1, <4>1
      <4>4. \A n \in DOMAIN old : [old[n] EXCEPT !.account = Unknown] \in UserInfo
        BY <4>2 DEF UsersType, UserInfo
      <4> QED
        BY <4>2, <4>3, <4>4 DEF UsersType
    <3> QED
      BY <1>1, <3>2, <3>3, AllChannels
  <2> QED
    BY <2>1, <2>2
<1>11. BotTypes'
  BY <1>1, <1>10 DEF BotTypes
<1>12. AccountsAsOf(seen)' /\ RecordsAsOf(seen)'
  BY <1>6, <1>7, <1>10 DEF AccountsAsOf, RecordsAsOf
<1> QED
  BY <1>3, <1>8, <1>9, <1>11, <1>12 DEF IInv, BotAsOf

LEMMA InjectStep ==
  ASSUME IInv, NEW c \in Channels, InjectChannelSync(c)
  PROVE  IInv'
<1>1. /\ ServerTypes /\ BotTypes /\ AccountsAsOf(seen) /\ RecordsAsOf(seen)
      /\ channels' = [channels EXCEPT ![c] = Snapshot(c)]
      /\ left' = [left EXCEPT ![c] = Nicks] /\ stale' = [stale EXCEPT ![c] = {}]
      /\ known' = known \ {c}
      /\ server' = server /\ UNCHANGED <<wire, accounts, synced, seen, orphan>>
  BY DEF InjectChannelSync, IInv, BotAsOf
<1>2. Truth' = Truth
  BY <1>1, TruthStays
<1>3. ServerTypes'
  BY <1>1 DEF ServerTypes, server, Members, IsInjective
<1>4. AwaitsNames' /\ Linked(wire, seen, Truth)' /\ Announced(wire)'
  BY <1>1, <1>2 DEF IInv, AwaitsNames
<1>5. PICK ch : ch = Snapshot(c)
  OBVIOUS
<1>6. ChannelInfo(ch) /\ \A n \in DOMAIN ch.users : ch.users[n].account = Unknown
  <2> DEFINE Who(n) == CHOOSE u \in Members(c) : nick[u] = n
             us == [n \in {nick[u] : u \in Members(c)} |->
                      [host |-> host[Who(n)], modes |-> on[c][Who(n)], account |-> Unknown]]
  <2>1. ch = [users |-> us, modes |-> chan[c]]
    BY <1>5 DEF Snapshot
  <2>2. /\ Members(c) \subseteq People /\ on[c] \in [Members(c) -> SUBSET Prefix]
        /\ nick \in [People -> Nicks] /\ host \in [People -> Hosts] /\ chan \in [Channels -> ChanModes]
    BY <1>1 DEF ServerTypes
  <2>3. ASSUME NEW n \in {nick[u] : u \in Members(c)}
        PROVE  n \in Nicks /\ us[n] \in UserInfo /\ us[n].account = Unknown
    <3>1. PICK u : u = Who(n)
      OBVIOUS
    <3>2. u \in Members(c)
      BY <3>1
    <3> HIDE DEF Who
    <3>3. us[n] = [host |-> host[u], modes |-> on[c][u], account |-> Unknown]
      BY <3>1
    <3> QED
      BY <2>2, <3>2, <3>3 DEF UserInfo
  <2>4. DOMAIN us = {nick[u] : u \in Members(c)} /\ us = [n \in DOMAIN us |-> us[n]]
    OBVIOUS
  <2> HIDE DEF us
  <2>5. UsersType(us) /\ \A n \in DOMAIN us : us[n].account = Unknown
    BY <2>3, <2>4 DEF UsersType
  <2> QED
    BY <2>1, <2>2, <2>5 DEF ChannelInfo
<1>7. /\ channels' = [d \in Channels |-> channels'[d]]
      /\ \A d \in Channels : channels'[d] = IF d = c THEN ch ELSE channels[d]
  BY <1>1, <1>5 DEF BotTypes
<1>8. BotTypes'
  <2>1. \A d \in Channels : ChannelInfo(channels'[d])
    BY <1>1, <1>6, <1>7 DEF BotTypes
  <2>2. left' \in [Channels -> SUBSET Nicks] /\ stale' \in [Channels -> SUBSET Nicks]
    BY <1>1 DEF BotTypes
  <2> QED
    BY <1>1, <1>7, <2>1, <2>2 DEF BotTypes
<1>9. AccountsAsOf(seen)'
  BY <1>1 DEF AccountsAsOf
<1>10. /\ left'[c] = Nicks
       /\ \A d \in Channels \ {c} : left'[d] = left[d] /\ stale'[d] = stale[d]
  BY <1>1 DEF BotTypes
<1>11. ASSUME NEW d \in Channels, There(seen, d)
       PROVE  /\ \A x \in Nicks :
                   IF d \in synced
                   THEN Right(channels'[d].users, left'[d], stale'[d], x, In(seen, d, x), seen.accts[x])
                   ELSE Waiting(channels'[d].users, left'[d], stale'[d], x, In(seen, d, x), seen.accts[x])
              /\ d \in known' => channels'[d].modes = seen.chans[d].modes
  <2>1. CASE d = c
    <3>1. d \notin known'
      BY <1>1, <2>1
    <3>2. ASSUME NEW x \in Nicks, NEW p, NEW a, NEW st
          PROVE  Right(ch.users, Nicks, st, x, p, a) /\ Waiting(ch.users, Nicks, st, x, p, a)
      BY <1>6 DEF Right, Waiting
    <3>3. channels'[d].users = ch.users /\ left'[d] = Nicks
      BY <1>7, <1>10, <2>1
    <3> QED
      BY <3>1, <3>2, <3>3
  <2>2. CASE d # c
    BY <1>1, <1>7, <1>10, <1>11, <2>2 DEF RecordsAsOf
  <2> QED
    BY <2>1, <2>2
<1>12. RecordsAsOf(seen)'
  BY <1>1, <1>11 DEF RecordsAsOf
<1> QED
  BY <1>3, <1>4, <1>8, <1>9, <1>12 DEF IInv, BotAsOf

----------------------------------------------------------------------------
(* The theorems. *)

LEMMA NextStep ==
  ASSUME IInv, Next
  PROVE  IInv'
<1>1. ASSUME NEW c \in Channels, NEW u \in People, Join(u, c) PROVE IInv'
  BY <1>1, JoinStep
<1>2. ASSUME NEW c \in Channels, NEW u \in People, NEW kind \in {"PART", "KICK"}, Part(u, c, kind)
      PROVE  IInv'
  BY <1>2, PartStep
<1>3. ASSUME NEW c \in Channels, NEW u \in People, NEW p \in Prefix, UserMode(u, c, p)
      PROVE  IInv'
  BY <1>3, UserModeStep
<1>4. ASSUME NEW c \in Channels, NEW f \in Flags, FlagMode(c, f) PROVE IInv'
  BY <1>4, FlagModeStep
<1>5. ASSUME NEW c \in Channels, NEW k \in Keys \cup {""}, KeyMode(c, k) PROVE IInv'
  BY <1>5, KeyModeStep
<1>6. ASSUME NEW c \in Channels, Answer(c) PROVE IInv'
  BY <1>6, AnswerStep
<1>7. ASSUME NEW c \in Channels, InjectChannelSync(c) PROVE IInv'
  BY <1>7, InjectStep
<1>8. ASSUME NEW u \in Users, NEW n \in Nicks, Quit(u, n) PROVE IInv'
  BY <1>8, QuitStep
<1>9. ASSUME NEW u \in Users, NEW n \in Nicks, ChangeNick(u, n) PROVE IInv'
  BY <1>9, ChangeNickStep
<1>10. ASSUME NEW u \in Users, NEW a \in Accounts \cup {NoAccount}, Login(u, a) PROVE IInv'
  BY <1>10, LoginStep DEF Standing
<1>11. ASSUME NEW u \in Users, NEW h \in Hosts, ChangeHost(u, h) PROVE IInv'
  BY <1>11, ChangeHostStep
<1>12. CASE Deliver
  BY <1>12, DeliverStep
<1>13. CASE Reconnect
  BY <1>13, ReconnectStep
<1> QED
  BY <1>1, <1>2, <1>3, <1>4, <1>5, <1>6, <1>7, <1>8, <1>9, <1>10, <1>11, <1>12, <1>13 DEF Next

LEMMA StutterStep ==
  ASSUME IInv, UNCHANGED vars
  PROVE  IInv'
<1>1. /\ nick' = nick /\ host' = host /\ acct' = acct /\ on' = on /\ chan' = chan /\ wire' = wire
      /\ channels' = channels /\ accounts' = accounts /\ synced' = synced /\ known' = known
      /\ seen' = seen /\ left' = left /\ stale' = stale /\ orphan' = orphan /\ server' = server
  BY DEF vars, server, bot, history
<1>2. Truth' = Truth
  BY <1>1, TruthStays
<1>3. ServerTypes'
  BY <1>1 DEF IInv, ServerTypes, Members, IsInjective
<1>4. (Linked(wire, seen, Truth) /\ Announced(wire) /\ AwaitsNames)'
  BY <1>1, <1>2 DEF IInv, AwaitsNames
<1>5. BotAsOf(seen)'
  BY <1>1 DEF IInv, BotAsOf, BotTypes, AccountsAsOf, RecordsAsOf
<1> QED
  BY <1>3, <1>4, <1>5 DEF IInv

(* What the server has yet to tell the bot leads, message by message, from what the bot
   was told to what is so, and what the bot has is right as of what it was told. *)
THEOREM LinkedHolds == Spec => []IInv
<1>1. IInv /\ [Next]_vars => IInv'
  BY NextStep, StutterStep
<1> QED
  BY <1>1, InitIsRight, PTL DEF Spec

LEMMA RightAccounts == IInv => AccountsTrue
<1> SUFFICES ASSUME IInv PROVE AccountsTrue
  OBVIOUS
<1>1. ServerTypes /\ BotTypes /\ AccountsAsOf(seen) /\ RecordsAsOf(seen) /\ AwaitsNames
  BY DEF IInv, BotAsOf
<1>2. \A c \in synced : c \in Channels /\ There(seen, c)
  BY <1>1 DEF BotTypes, AwaitsNames
<1>3. TypeOK
  <2>1. ASSUME NEW c \in Channels
        PROVE  /\ Members(c) \subseteq People
               /\ DOMAIN channels[c].users \subseteq Nicks
               /\ \A n \in DOMAIN channels[c].users : channels[c].users[n] \in UserInfo
               /\ channels[c].modes \in ChanModes
               /\ left[c] \cup stale[c] \subseteq Nicks
               /\ c \in synced => seen.chans[c] # Nothing
    <3>1. ChannelInfo(channels[c]) /\ left[c] \in SUBSET Nicks /\ stale[c] \in SUBSET Nicks
      BY <1>1 DEF BotTypes
    <3>2. Members(c) \subseteq People
      BY <1>1 DEF ServerTypes
    <3> QED
      BY <1>2, <3>1, <3>2 DEF ChannelInfo, UsersType, There
  <2>2. Range(accounts) \subseteq Accounts \cup {NoAccount}
    BY <1>1 DEF BotTypes, Range, Standing
  <2> QED
    BY <1>1, <2>1, <2>2 DEF TypeOK, ServerTypes, BotTypes, UserInfo, Standing
<1>4. \A n \in DOMAIN accounts \ orphan : accounts[n] = seen.accts[n]
  BY <1>1 DEF AccountsAsOf
<1>5. ASSUME NEW c \in synced, NEW n \in DOMAIN channels[c].users \ (left[c] \cup stale[c])
      PROVE  channels[c].users[n].account \in {Unknown, seen.accts[n]}
  <2>1. n \in Nicks
    BY <1>1, <1>2 DEF BotTypes, ChannelInfo, UsersType
  <2>2. Right(channels[c].users, left[c], stale[c], n, In(seen, c, n), seen.accts[n])
    BY <1>1, <1>2, <2>1 DEF RecordsAsOf
  <2> QED
    BY <2>2 DEF Right
<1> QED
  BY <1>3, <1>4, <1>5 DEF AccountsTrue

(* Whatever the server does and however late the bot hears of it, a user the bot sees has
   in the bot's map the account he had when it was last told; so has his record, or none. *)
THEOREM AccountsHold == Spec => []AccountsTrue
  BY LinkedHolds, RightAccounts, PTL

----------------------------------------------------------------------------
(* The picture of the watched channel follows the channel. *)

Of(v) == v.chans[Watched]
Pending(w) == [i \in DOMAIN w |-> Of(w[i].after)]

\* Held is what the watched channel was, as of the last message, once NAMES came.
LEMMA HeldIs ==
  IInv => Held = IF Watched \in synced THEN Of(seen) ELSE Nothing
<1> SUFFICES ASSUME IInv, Watched \in synced PROVE Held = Of(seen)
  BY DEF Held
<1>1. /\ View(seen) /\ There(seen, Watched) /\ RecordsAsOf(seen) /\ Watched \in Channels
      /\ BotTypes
  BY ChannelStateAssumption DEF IInv, Linked, AwaitsNames, BotAsOf
<1>2. PICK x \in Pictures : x = Of(seen)
  BY <1>1 DEF View, Views, There, Of
<1>3. x = [users |-> x.users, modes |-> x.modes] /\ x.users = [n \in Nicks |-> x.users[n]]
  BY DEF Pictures
<1>4. PICK us : us = channels[Watched].users
  OBVIOUS
<1>5. PICK lf : lf = left[Watched]
  OBVIOUS
<1>6. ASSUME NEW n \in Nicks
      PROVE  x.users[n] = IF n \in lf THEN x.users[n]
                          ELSE IF n \in DOMAIN us THEN [host |-> us[n].host, modes |-> us[n].modes]
                          ELSE Absent
  <2>1. PICK p : p = x.users[n]
    OBVIOUS
  <2>2. Right(us, lf, stale[Watched], n, p, seen.accts[n])
    BY <1>1, <1>2, <1>4, <1>5, <2>1 DEF RecordsAsOf, In, Of
  <2> QED
    BY <2>1, <2>2 DEF Right
<1>7. Watched \in known => channels[Watched].modes = x.modes
  BY <1>1, <1>2 DEF RecordsAsOf, Of
<1>8. Held = [users |-> [n \in Nicks |->
                           IF n \in lf THEN x.users[n]
                           ELSE IF n \in DOMAIN us THEN [host |-> us[n].host, modes |-> us[n].modes]
                           ELSE Absent],
              modes |-> IF Watched \in known THEN channels[Watched].modes ELSE x.modes]
  BY <1>2, <1>4, <1>5 DEF Held, Of
<1> QED
  BY <1>2, <1>3, <1>6, <1>7, <1>8

LEMMA HeldIsNext ==
  IInv' => Held' = IF Watched \in synced' THEN Of(seen') ELSE Nothing
<1>1. (IInv => Held = IF Watched \in synced THEN Of(seen) ELSE Nothing)'
  BY HeldIs, PTL
<1> QED
  BY <1>1 DEF Of

LEMMA PictureIs ==
  /\ Picture(Watched) = Of(Truth) /\ Picture(Watched)' = Of(Truth')
  BY ChannelStateAssumption DEF Truth, Of

\* The server tells of a change in one message or in two, or has nothing to tell.
Tellings ==
  /\ UNCHANGED <<bot, history>>
  /\ \/ wire' = wire
     \/ \E m : wire' = Append(wire, Told(m, Truth'))
     \/ \E m, n : wire' = Append(Append(wire, Told(m, Truth')), Told(n, Truth'))

LEMMA ChangeTells ==
  ASSUME IInv, NEW heard, NEW messages, Change(heard, messages),
         \/ \E m : messages = <<m>>
         \/ \E m, n : messages = <<m, n>>
  PROVE  Tellings
<1>1. wire \in Seq(Range(wire))
  BY DEF IInv, Linked
<1>2. PICK v : v = Truth'
  OBVIOUS
<1>3. UNCHANGED <<bot, history>> /\ (wire' = wire \/ wire' = wire \o Telling(messages, v))
  BY <1>2 DEF Change, Telling
<1>4. CASE \E m : messages = <<m>>
  <2>1. PICK m : messages = <<m>>
    BY <1>4
  <2>2. wire \o Telling(<<m>>, v) = Append(wire, Told(m, v))
    BY <1>1, OneMessage
  <2>3. wire' = wire \/ wire' = Append(wire, Told(m, v))
    BY <1>3, <2>1, <2>2
  <2> QED
    BY <1>2, <1>3, <2>3 DEF Tellings
<1>5. CASE \E m, n : messages = <<m, n>>
  <2>1. PICK m, n : messages = <<m, n>>
    BY <1>5
  <2>2. wire \o Telling(<<m, n>>, v) = Append(Append(wire, Told(m, v)), Told(n, v))
    BY <1>1, TwoMessages
  <2>3. wire' = wire \/ wire' = Append(Append(wire, Told(m, v)), Told(n, v))
    BY <1>3, <2>1, <2>2
  <2> QED
    BY <1>2, <1>3, <2>3 DEF Tellings
<1> QED
  BY <1>4, <1>5

LEMMA PendingAppend ==
  ASSUME NEW w, w \in Seq(Range(w)), NEW m, NEW v
  PROVE  /\ Pending(Append(w, Told(m, v))) = Append(Pending(w), Of(v))
         /\ Append(w, Told(m, v)) \in Seq(Range(Append(w, Told(m, v))))
         /\ Pending(w) \in Seq({Of(x.after) : x \in Range(w)})
<1>1. PICK x : x = Told(m, v)
  OBVIOUS
<1>2. x.after = v
  BY <1>1 DEF Told
<1>3. PICK w2 : w2 = Append(w, x)
  OBVIOUS
<1>4. w \in Seq(Range(w) \cup {x}) /\ Len(w) \in Nat /\ DOMAIN w = 1 .. Len(w)
  OBVIOUS
<1>5. /\ w2 \in Seq(Range(w) \cup {x}) /\ Len(w2) = Len(w) + 1 /\ w2[Len(w) + 1] = x
      /\ \A i \in 1 .. Len(w) : w2[i] = w[i]
  BY <1>3, <1>4
<1>6. w2 \in Seq(Range(w2)) /\ DOMAIN w2 = 1 .. Len(w) + 1
  BY <1>5, SeqOfRange
<1> DEFINE S == {Of(y.after) : y \in Range(w)}
<1>7. Pending(w) \in Seq(S) /\ Len(Pending(w)) = Len(w)
  <2>1. \A i \in 1 .. Len(w) : w[i] \in Range(w)
    BY <1>4
  <2>2. \A i \in 1 .. Len(w) : Of(w[i].after) \in S
    BY <2>1
  <2> HIDE DEF S
  <2> QED
    BY <1>4, <2>2 DEF Pending
<1>8. Pending(w2) = Append(Pending(w), Of(v))
  <2>1. PICK q : q = Pending(w)
    OBVIOUS
  <2>2. PICK y : y = Of(v)
    OBVIOUS
  <2>3. q \in Seq(S \cup {y}) /\ Len(q) = Len(w) /\ y \in S \cup {y}
    BY <1>7, <2>1
  <2> HIDE DEF S
  <2>4. \A i \in 1 .. Len(w) : q[i] = Of(w[i].after)
    BY <1>4, <2>1 DEF Pending
  <2>5. PICK z : z = Append(q, y)
    OBVIOUS
  <2>6. /\ z \in Seq(S \cup {y}) /\ Len(z) = Len(w) + 1
        /\ \A i \in 1 .. Len(w) + 1 : z[i] = IF i = Len(w) + 1 THEN y ELSE q[i]
    BY <1>4, <2>3, <2>5
  <2>7. z = [i \in 1 .. Len(w) + 1 |-> z[i]]
    BY <2>6
  <2>8. Pending(w2) = [i \in 1 .. Len(w) + 1 |-> Of(w2[i].after)]
    BY <1>6 DEF Pending
  <2>9. \A i \in 1 .. Len(w) + 1 : Of(w2[i].after) = z[i]
    BY <1>2, <1>4, <1>5, <2>2, <2>4, <2>6
  <2> QED
    BY <2>1, <2>2, <2>5, <2>7, <2>8, <2>9
<1> QED
  BY <1>1, <1>3, <1>6, <1>7, <1>8

LEMMA TellFollows ==
  ASSUME IInv, IInv', Tellings
  PROVE  [Copy!Next]_(Copy!vars)
<1>1. /\ Linked(wire, seen, Truth) /\ Linked(wire', seen, Truth')
      /\ View(Truth') /\ wire \in Seq(Range(wire))
  <2>1. Linked(wire, seen, Truth) /\ ServerTypes'
    BY DEF IInv
  <2>2. seen' = seen
    BY DEF Tellings, history
  <2> QED
    BY <2>1, <2>2, TruthShowsNext DEF IInv, Linked
<1>2. Held' = Held
  BY DEF Tellings, bot, history, Held
<1>3. PICK v : v = Truth'
  OBVIOUS
<1>4. Of(v) \in Pictures \cup {Nothing}
  BY <1>1, <1>3, ChannelStateAssumption DEF View, Views, Of
<1>5. PICK w : w = wire
  OBVIOUS
<1>6. CASE wire' = wire
  <2>1. Truth' = Truth
    BY <1>1, <1>6 DEF Linked
  <2> QED
    BY <1>2, <1>6, <2>1, PictureIs DEF Copy!vars
<1>7. ASSUME NEW m, wire' = Append(wire, Told(m, Truth'))
      PROVE  Copy!Next
  <2>1. Pending(wire') = Append(Pending(wire), Of(v))
    BY <1>1, <1>3, <1>7, PendingAppend
  <2>2. Copy!Tell
    BY <1>2, <1>3, <1>4, <2>1, PictureIs DEF Copy!Tell, Copy!States, Pending, Of
  <2> QED
    BY <2>2 DEF Copy!Next
<1>8. ASSUME NEW m, NEW n, wire' = Append(Append(wire, Told(m, Truth')), Told(n, Truth'))
      PROVE  Copy!Next
  <2>1. PICK w2 : w2 = Append(w, Told(m, v))
    OBVIOUS
  <2>2. Pending(w2) = Append(Pending(w), Of(v)) /\ w2 \in Seq(Range(w2))
        /\ Pending(w) \in Seq({Of(x.after) : x \in Range(w)})
    BY <1>1, <1>5, <2>1, PendingAppend
  <2>3. Pending(wire') = Append(Pending(w2), Of(v))
    BY <1>3, <1>5, <1>8, <2>1, <2>2, PendingAppend
  <2>4. Pending(wire') = Pending(wire) \o <<Of(v), Of(v)>>
    <3>1. PICK q : q = Pending(w)
      OBVIOUS
    <3>2. PICK y : y = Of(v)
      OBVIOUS
    <3> DEFINE S == {Of(x.after) : x \in Range(w)} \cup {y}
    <3>3. q \in Seq(S) /\ y \in S
      BY <2>2, <3>1
    <3> HIDE DEF S
    <3>4. Append(Append(q, y), y) = q \o <<y, y>>
      BY <3>3
    <3> QED
      BY <1>5, <2>2, <2>3, <3>1, <3>2, <3>4
  <2>5. Copy!Tell
    BY <1>2, <1>3, <1>4, <2>4, PictureIs DEF Copy!Tell, Copy!States, Pending, Of
  <2> QED
    BY <2>5 DEF Copy!Next
<1> QED
  BY <1>6, <1>7, <1>8 DEF Tellings

LEMMA LearnFollows ==
  ASSUME IInv, IInv', Deliver
  PROVE  Copy!Next
<1>1. PICK m : m = Head(wire).m
  OBVIOUS
<1>2. PICK t : t = Head(wire).after
  OBVIOUS
<1>3. Reads(m, t)
  BY <1>1, <1>2 DEF Reads, Deliver
<1>4. Tells(m, seen, t) /\ seen' = t /\ UNCHANGED server /\ nick[Me] = MyNick
  BY <1>3, ReadsWhat
<1>5. Truth' = Truth
  BY <1>4, TruthStays
<1>6. wire # <<>> /\ wire \in Seq(Range(wire)) /\ wire' = Tail(wire)
  BY DEF Deliver, IInv, Linked
<1>7. Pending(wire) # <<>> /\ Head(Pending(wire)) = Of(t) /\ Pending(wire') = Tail(Pending(wire))
  <2>1. PICK w : w = wire
    OBVIOUS
  <2>2. /\ w \in Seq(Range(w)) /\ Len(w) \in Nat \ {0} /\ DOMAIN w = 1 .. Len(w)
        /\ Head(w) = w[1]
    BY <1>6, <2>1
  <2>3. PICK u : u = Tail(w)
    OBVIOUS
  <2>4. /\ DOMAIN u = 1 .. Len(w) - 1 /\ \A i \in 1 .. Len(w) - 1 : u[i] = w[i + 1]
    BY <2>2, <2>3
  <2>5. PICK q : q = Pending(w)
    OBVIOUS
  <2> DEFINE S == {Of(x.after) : x \in Range(w)}
  <2>6. \A i \in 1 .. Len(w) : q[i] = Of(w[i].after)
    BY <2>2, <2>5 DEF Pending
  <2>7. q \in Seq(S) /\ Len(q) = Len(w)
    <3>1. \A i \in 1 .. Len(w) : Of(w[i].after) \in S
      BY <2>2
    <3> HIDE DEF S
    <3> QED
      BY <2>2, <2>5, <3>1 DEF Pending
  <2> HIDE DEF S
  <2>8. q # <<>> /\ Head(q) = Of(t)
    BY <1>2, <2>1, <2>2, <2>6, <2>7
  <2>9. PICK z : z = Tail(q)
    OBVIOUS
  <2>10. /\ z \in Seq(S) /\ Len(z) = Len(w) - 1
         /\ \A i \in 1 .. Len(w) - 1 : z[i] = q[i + 1]
    BY <2>2, <2>7, <2>9
  <2>11. z = [i \in 1 .. Len(w) - 1 |-> z[i]]
    BY <2>2, <2>10
  <2>12. \A i \in 1 .. Len(w) - 1 : z[i] = Of(u[i].after)
    BY <2>2, <2>4, <2>6, <2>10
  <2>13. Pending(u) = z
    BY <2>4, <2>11, <2>12 DEF Pending
  <2> QED
    BY <1>6, <2>1, <2>3, <2>5, <2>8, <2>9, <2>13
<1>8. Watched \notin synced' => Watched \notin synced \/ Of(t) = Nothing
  <2>1. SUFFICES ASSUME Watched \notin synced', Watched \in synced PROVE Of(t) = Nothing
    OBVIOUS
  <2>2. m.kind \in {"PART", "KICK"} /\ m.nick = MyNick /\ Watched = m.chan
    BY <1>3, <1>4, <2>1 DEF Reads, Deliver, Own
  <2>3. ~There(t, Watched)
    BY <1>4, <2>2 DEF Tells, TellsPart
  <2> QED
    BY <2>3 DEF There, Of
<1>9. Held' = Of(t) \/ (Held = Nothing /\ Held' = Nothing)
  BY <1>4, <1>8, HeldIs, HeldIsNext
<1>10. Picture(Watched)' = Picture(Watched)
  BY <1>5, PictureIs
<1>11. Copy!Learn
  BY <1>7, <1>9, <1>10 DEF Copy!Learn, Pending, Of
<1> QED
  BY <1>11 DEF Copy!Next

LEMMA CutOffFollows ==
  ASSUME IInv', Reconnect
  PROVE  Copy!Next
<1>1. wire' = <<>> /\ seen' = Unseen /\ synced' = {}
  BY DEF Reconnect
<1>2. Truth' = Unseen
  BY <1>1 DEF IInv, Linked, After, Before
<1>3. Of(Truth') = Nothing
  BY <1>2, ChannelStateAssumption DEF Of, Unseen
<1>4. Held' = Nothing
  BY <1>1, HeldIsNext
<1>5. Pending(wire') = <<>>
  BY <1>1 DEF Pending
<1>6. Copy!CutOff
  BY <1>3, <1>4, <1>5, PictureIs DEF Copy!CutOff, Pending, Of
<1> QED
  BY <1>6 DEF Copy!Next

LEMMA StepFollows ==
  ASSUME IInv, IInv', [Next]_vars
  PROVE  [Copy!Next]_(Copy!vars)
<1>1. ASSUME NEW c \in Channels, NEW u \in People, Join(u, c) PROVE Tellings
  BY <1>1, ChangeTells DEF Join
<1>2. ASSUME NEW c \in Channels, NEW u \in People, NEW kind \in {"PART", "KICK"}, Part(u, c, kind)
      PROVE  Tellings
  BY <1>2, ChangeTells DEF Part
<1>3. ASSUME NEW c \in Channels, NEW u \in People, NEW p \in Prefix, UserMode(u, c, p)
      PROVE  Tellings
  BY <1>3, ChangeTells DEF UserMode
<1>4. ASSUME NEW c \in Channels, NEW f \in Flags, FlagMode(c, f) PROVE Tellings
  BY <1>4, ChangeTells DEF FlagMode
<1>5. ASSUME NEW c \in Channels, NEW k \in Keys \cup {""}, KeyMode(c, k) PROVE Tellings
  BY <1>5, ChangeTells DEF KeyMode
<1>6. ASSUME NEW c \in Channels, Answer(c) PROVE Tellings
  BY <1>6, ChangeTells DEF Answer
<1>7. ASSUME NEW u \in Users, NEW n \in Nicks, Quit(u, n) PROVE Tellings
  BY <1>7, ChangeTells DEF Quit
<1>8. ASSUME NEW u \in Users, NEW n \in Nicks, ChangeNick(u, n) PROVE Tellings
  BY <1>8, ChangeTells DEF ChangeNick
<1>9. ASSUME NEW u \in Users, NEW a \in Accounts \cup {NoAccount}, Login(u, a) PROVE Tellings
  BY <1>9, ChangeTells DEF Login
<1>10. ASSUME NEW u \in Users, NEW h \in Hosts, ChangeHost(u, h) PROVE Tellings
  BY <1>10, ChangeTells DEF ChangeHost
<1>11. ASSUME server' = server, wire' = wire, synced' = synced, seen' = seen
       PROVE  UNCHANGED Copy!vars
  <2>1. Picture(Watched)' = Picture(Watched)
    BY <1>11, TruthStays, PictureIs
  <2>2. Held' = Held
    BY <1>11, HeldIs, HeldIsNext
  <2> QED
    BY <1>11, <2>1, <2>2 DEF Copy!vars
<1>12. ASSUME NEW c \in Channels, InjectChannelSync(c) PROVE UNCHANGED Copy!vars
  BY <1>11, <1>12 DEF InjectChannelSync
<1>13. CASE UNCHANGED vars
  BY <1>11, <1>13 DEF vars, history
<1>14. CASE Tellings
  BY <1>14, TellFollows
<1>15. CASE Deliver
  BY <1>15, LearnFollows
<1>16. CASE Reconnect
  BY <1>16, CutOffFollows
<1> QED
  BY <1>1, <1>2, <1>3, <1>4, <1>5, <1>6, <1>7, <1>8, <1>9, <1>10, <1>12, <1>13, <1>14, <1>15, <1>16
  DEF Next

LEMMA InitFollows == Init => Copy!Init
<1> SUFFICES ASSUME Init PROVE Copy!Init
  OBVIOUS
<1>1. IInv
  BY InitIsRight
<1>2. wire = <<>> /\ synced = {} /\ seen = Unseen
  BY DEF Init
<1>3. Truth = Unseen
  BY <1>1, <1>2 DEF IInv, Linked, After, Before
<1>4. Picture(Watched) = Nothing
  BY <1>3, ChannelStateAssumption, PictureIs DEF Of, Unseen
<1>5. Held = Nothing
  BY <1>1, <1>2, HeldIs
<1>6. Pending(wire) = <<>>
  BY <1>2 DEF Pending
<1> QED
  BY <1>4, <1>5, <1>6 DEF Copy!Init, Pending, Of

(* ChannelState implements Replica: whatever the server and the bot do, the bot's picture
   of a channel goes through the channel's states one by one, in their order. *)
THEOREM FollowsHolds == Spec => Follows
<1>1. IInv /\ IInv' /\ [Next]_vars => [Copy!Next]_(Copy!vars)
  BY StepFollows
<1> QED
  BY <1>1, InitFollows, LinkedHolds, PTL DEF Spec, Follows, Copy!Spec

=============================================================================
