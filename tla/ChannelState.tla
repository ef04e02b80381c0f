---------------------------- MODULE ChannelState ----------------------------
(* The bot's picture of its channels, src/core/channel-state.ts, against the
   server that tells it what happens.  The server (external) is the truth; what it
   tells travels in order, so the bot is always late, and it is told nothing of
   channels it is not on, nor of users it shares no channel with.

   The bot forgets nothing when it leaves a channel or loses its connection: the
   records it has are there when it comes back, and NAMES adds and updates but
   never removes, nor does it change the account of a record.  Three things on
   history say where that leaves old data: `left`, `stale` and `orphan`.

   One prefix mode, one flag and the key stand for all modes; the server has the
   capabilities irc-framework asks for (extended-join, account-notify, account-tag,
   chghost, multi-prefix, userhost-in-names).                                  *)
EXTENDS Integers, Sequences, FiniteSets, Functions, SequencesExt

CONSTANTS
  Me,          \* the bot
  Users,       \* the others
  Channels,
  Watched,     \* the channel whose refinement is checked
  Nicks, Home, \* Home: each one's first nick
  Hosts, FirstHost,
  Accounts,
  Keys,        \* channel keys
  Absent,      \* no record
  Nothing,     \* no picture
  MaxWire,     \* bound: messages on their way
  MaxChanges   \* bound: what the server does in all

People == Users \cup {Me}

Prefix == {"o"}
Records == [host : Hosts, modes : SUBSET Prefix]
Flags == {"i"}
ChanModes == [flags : SUBSET Flags, key : Keys \cup {""}]
Pictures == [users : [Nicks -> Records \cup {Absent}], modes : ChanModes]

ASSUME ChannelStateAssumption ==
  /\ Me \notin Users /\ Watched \in Channels
  /\ Home \in [People -> Nicks] /\ IsInjective(Home)
  /\ FirstHost \in Hosts
  /\ Absent \notin Records /\ Nothing \notin Pictures /\ "unseen" \notin Accounts
  /\ MaxWire \in Nat /\ MaxChanges \in Nat

VARIABLES
  nick, host, acct,   \* the server: who is who
  on,                 \* channel -> its members, each with its prefix modes
  chan,               \* channel -> its modes: the flag and the key
  wire,               \* what the server has told and the bot has not read
  changes,            \* bound
  channels,           \* ChannelState.channels
  accounts,           \* ChannelState.networkAccounts
  synced,             \* history: channels whose NAMES came since the bot joined
  known,              \* history: channels whose modes it was told since
  seen,               \* history: the truth as of the last message read
  left,               \* history: channel -> records from before the bot joined
  stale,              \* history: channel -> records whose account is from before
  orphan              \* history: entries of accounts whose nick went out of sight

server == <<nick, host, acct, on, chan>>
bot == <<channels, accounts>>
history == <<synced, known, seen, left, stale, orphan>>
vars == <<server, wire, changes, bot, history>>

----------------------------------------------------------------------------
(* The server. *)

NoAccount == "none"      \* known not to be identified
Unknown == "unknown"     \* no account data yet
NoModes == [flags |-> {}, key |-> ""]
Empty == [users |-> <<>>, modes |-> NoModes]

Members(c) == DOMAIN on[c]
Sees(u) == \E c \in Channels : {u, Me} \subseteq Members(c)
Record(u, c) == [host |-> host[u], modes |-> on[c][u]]

\* What the bot may know: of the channels it is on, and of whom it meets there.
Picture(c) ==
  IF Me \notin Members(c) THEN Nothing
  ELSE [users |-> [n \in Nicks |->
                     IF \E u \in Members(c) : nick[u] = n
                     THEN Record(CHOOSE u \in Members(c) : nick[u] = n, c) ELSE Absent],
        modes |-> chan[c]]
Identity(n) ==
  IF \E u \in People : nick[u] = n /\ Sees(u)
  THEN acct[CHOOSE u \in People : nick[u] = n] ELSE "unseen"
Truth == [chans |-> [c \in Channels |-> Picture(c)], accts |-> [n \in Nicks |-> Identity(n)]]

Unseen == [chans |-> [c \in Channels |-> Nothing], accts |-> [n \in Nicks |-> "unseen"]]

Init ==
  /\ nick = Home /\ host = [u \in People |-> FirstHost] /\ acct = [u \in People |-> NoAccount]
  /\ \E there \in [Channels -> SUBSET Users] :
       on = [c \in Channels |-> [u \in there[c] |-> Prefix]]
  /\ chan = [c \in Channels |-> NoModes]
  /\ wire = <<>> /\ changes = 0
  /\ channels = [c \in Channels |-> Empty] /\ accounts = <<>>
  /\ synced = {} /\ known = {} /\ seen = Unseen
  /\ left = [c \in Channels |-> {}] /\ stale = left /\ orphan = {}

\* A change of the server, and the messages about it if the bot is to hear of it.
Change(heard, messages) ==
  /\ changes < MaxChanges /\ changes' = changes + 1
  /\ IF heard
     THEN /\ Len(wire) + Len(messages) <= MaxWire
          /\ wire' = wire \o [i \in DOMAIN messages |-> [m |-> messages[i], after |-> Truth']]
     ELSE UNCHANGED wire
  /\ UNCHANGED <<bot, history>>

NamesReply(c) ==
  [kind |-> "NAMES", chan |-> c,
   list |-> [u \in Members(c) |-> [nick |-> nick[u], host |-> host[u], modes |-> on[c][u]]]]

Join(u, c) ==
  /\ u \notin Members(c)
  /\ on' = [on EXCEPT ![c] = [v \in Members(c) \cup {u} |-> IF v = u THEN {} ELSE on[c][v]]]
  /\ UNCHANGED <<nick, host, acct, chan>>
  /\ LET join == [kind |-> "JOIN", chan |-> c, nick |-> nick[u], host |-> host[u],
                  account |-> acct[u]]
     IN Change(Me \in Members(c)', IF u = Me THEN <<join, NamesReply(c)'>> ELSE <<join>>)

Leave(u, c) == [on EXCEPT ![c] = Restrict(@, Members(c) \ {u})]

\* PART, or KICK by someone else: the same to this component, in two messages.
Part(u, c, kind) ==
  /\ u \in Members(c)
  /\ on' = Leave(u, c)
  /\ UNCHANGED <<nick, host, acct, chan>>
  /\ Change(Me \in Members(c), <<[kind |-> kind, chan |-> c, nick |-> nick[u]]>>)

\* Gone, and back unidentified under a free nick.
Quit(u, n) ==
  /\ n = nick[u] \/ n \notin Range(nick)
  /\ on' = [c \in Channels |-> Restrict(on[c], Members(c) \ {u})]
  /\ nick' = [nick EXCEPT ![u] = n] /\ acct' = [acct EXCEPT ![u] = NoAccount]
  /\ UNCHANGED <<host, chan>>
  /\ Change(Sees(u), <<[kind |-> "QUIT", nick |-> nick[u]]>>)

ChangeNick(u, n) ==
  /\ n \notin Range(nick)
  /\ nick' = [nick EXCEPT ![u] = n]
  /\ UNCHANGED <<host, acct, on, chan>>
  /\ Change(Sees(u), <<[kind |-> "NICK", nick |-> nick[u], new |-> n]>>)

UserMode(u, c, p) ==
  /\ u \in Members(c)
  /\ LET adds == p \notin on[c][u] IN
     /\ on' = [on EXCEPT ![c][u] = IF adds THEN @ \cup {p} ELSE @ \ {p}]
     /\ UNCHANGED <<nick, host, acct, chan>>
     /\ Change(Me \in Members(c),
               <<[kind |-> "MODE", chan |-> c, mode |-> p, adds |-> adds, param |-> nick[u]]>>)

FlagMode(c, f) ==
  LET adds == f \notin chan[c].flags IN
  /\ chan' = [chan EXCEPT ![c].flags = IF adds THEN @ \cup {f} ELSE @ \ {f}]
  /\ UNCHANGED <<nick, host, acct, on>>
  /\ Change(Me \in Members(c),
            <<[kind |-> "MODE", chan |-> c, mode |-> f, adds |-> adds, param |-> ""]>>)

KeyMode(c, k) ==
  /\ k # chan[c].key
  /\ chan' = [chan EXCEPT ![c].key = k]
  /\ UNCHANGED <<nick, host, acct, on>>
  /\ Change(Me \in Members(c),
            <<[kind |-> "MODE", chan |-> c, mode |-> "k", adds |-> k # "", param |-> k]>>)

Login(u, a) ==
  /\ a # acct[u]
  /\ acct' = [acct EXCEPT ![u] = a]
  /\ UNCHANGED <<nick, host, on, chan>>
  /\ Change(Sees(u), <<[kind |-> "ACCOUNT", nick |-> nick[u], account |-> a]>>)

ChangeHost(u, h) ==
  /\ h # host[u]
  /\ host' = [host EXCEPT ![u] = h]
  /\ UNCHANGED <<nick, acct, on, chan>>
  /\ Change(Sees(u), <<[kind |-> "CHGHOST", nick |-> nick[u], host |-> h]>>)

\* Messages that change nothing at the server: a line with the account-tag, and the
\* answers to WHO and to MODE #channel.
Answer(c) ==
  /\ Me \in Members(c)
  /\ UNCHANGED server
  /\ \/ \E u \in Members(c) \ {Me} :
          Change(TRUE, <<[kind |-> "PRIVMSG", nick |-> nick[u], account |-> acct[u]]>>)
     \/ Change(TRUE, <<[NamesReply(c) EXCEPT !.kind = "WHO"]>>)
     \/ Change(TRUE, <<[kind |-> "MODEIS", chan |-> c, modes |-> chan[c]]>>)

----------------------------------------------------------------------------
(* The handlers, each a function of the bot's state b. *)

b == [channels |-> channels, accounts |-> accounts]
With(f, n, v) == [x \in DOMAIN f \cup {n} |-> IF x = n THEN v ELSE f[x]]
Without(f, n) == Restrict(f, DOMAIN f \ {n})

OnJoin(m) ==
  [channels |-> [channels EXCEPT ![m.chan].users =
                   With(@, m.nick, [host |-> m.host, modes |-> {}, account |-> m.account])],
   accounts |-> With(accounts, m.nick, m.account)]

OnPart(m) ==
  [b EXCEPT !.channels = [channels EXCEPT ![m.chan].users = Without(@, m.nick)]]

OnKick(m) == OnPart(m)

EachChannel(users) == [c \in Channels |-> [channels[c] EXCEPT !.users = users[c]]]

OnQuit(m) ==
  LET Drop(us) == Without(us, m.nick) IN
  [channels |-> EachChannel([c \in Channels |-> Drop(channels[c].users)]),
   accounts |-> Without(accounts, m.nick)]

\* mutant
OnNickKeeping(m) ==
  LET Copied(us) == IF m.nick \in DOMAIN us THEN With(us, m.new, us[m.nick]) ELSE us
  IN [channels |-> EachChannel([c \in Channels |-> Copied(channels[c].users)]),
      accounts |-> Copied(accounts)]

OnNick(m) ==
  LET Move(us) ==
        IF m.nick \in DOMAIN us THEN With(Without(us, m.nick), m.new, us[m.nick]) ELSE us
  IN [channels |-> EachChannel([c \in Channels |-> Move(channels[c].users)]),
      accounts |-> Move(accounts)]

OnMode(m) ==
  LET ch == channels[m.chan] IN
  [b EXCEPT !.channels = [channels EXCEPT ![m.chan] =
     IF m.mode \in Prefix
     THEN IF m.param \in DOMAIN ch.users
          THEN [ch EXCEPT !.users[m.param].modes =
                  IF m.adds THEN @ \cup {m.mode} ELSE @ \ {m.mode}]
          ELSE ch
     ELSE IF m.mode = "k" THEN [ch EXCEPT !.modes.key = IF m.adds THEN m.param ELSE ""]
     ELSE [ch EXCEPT !.modes.flags = IF m.adds THEN @ \cup {m.mode} ELSE @ \ {m.mode}]]]

\* NAMES adds who is missing; of the others it takes the host, and the modes if any.
OnUserlist(m) ==
  LET us == channels[m.chan].users
      Entry(n) == CHOOSE x \in Range(m.list) : x.nick = n
      named == {x.nick : x \in Range(m.list)}
  IN [b EXCEPT !.channels = [channels EXCEPT ![m.chan].users =
        [n \in DOMAIN us \cup named |->
           IF n \notin named THEN us[n]
           ELSE IF n \notin DOMAIN us
                THEN [host |-> Entry(n).host, modes |-> Entry(n).modes, account |-> Unknown]
           ELSE [us[n] EXCEPT !.host = Entry(n).host,
                              !.modes = IF Entry(n).modes = {} THEN @ ELSE Entry(n).modes]]]]

OnWholist(m) ==
  LET us == channels[m.chan].users IN
  [b EXCEPT !.channels = [channels EXCEPT ![m.chan].users =
     [n \in DOMAIN us |->
        IF \E x \in Range(m.list) : x.nick = n
        THEN [us[n] EXCEPT !.host = (CHOOSE x \in Range(m.list) : x.nick = n).host]
        ELSE us[n]]]]

OnChannelInfo(m) ==
  [b EXCEPT !.channels = [channels EXCEPT ![m.chan].modes = m.modes]]

Known(us, n, account) ==
  IF n \in DOMAIN us THEN [us EXCEPT ![n].account = account] ELSE us

\* mutant
OnLogin(m) ==
  LET Note(us) == Known(us, m.nick, m.account) IN
  [channels |-> EachChannel([c \in Channels |-> Note(channels[c].users)]),
   accounts |-> IF m.account = NoAccount THEN accounts ELSE With(accounts, m.nick, m.account)]

OnAccount(m) ==
  LET Note(us) == Known(us, m.nick, m.account) IN
  [channels |-> EachChannel([c \in Channels |-> Note(channels[c].users)]),
   accounts |-> With(accounts, m.nick, m.account)]

\* setAccountForNick(), from the account-tag of a line.
SameAgain(m) == m.nick \in DOMAIN accounts /\ accounts[m.nick] = m.account
OnTag(m) == IF SameAgain(m) THEN b ELSE OnAccount(m)

OnUserUpdated(m) ==
  LET Host(us) == IF m.nick \in DOMAIN us THEN [us EXCEPT ![m.nick].host = m.host] ELSE us
  IN [b EXCEPT !.channels = EachChannel([c \in Channels |-> Host(channels[c].users)])]

Handle(m) ==
  CASE m.kind = "JOIN" -> OnJoin(m)
    [] m.kind = "PART" -> OnPart(m)
    [] m.kind = "KICK" -> OnKick(m)
    [] m.kind = "QUIT" -> OnQuit(m)
    [] m.kind = "NICK" -> OnNick(m)
    [] m.kind = "MODE" -> OnMode(m)
    [] m.kind = "NAMES" -> OnUserlist(m)
    [] m.kind = "WHO" -> OnWholist(m)
    [] m.kind = "MODEIS" -> OnChannelInfo(m)
    [] m.kind = "ACCOUNT" -> OnAccount(m)
    [] m.kind = "PRIVMSG" -> OnTag(m)
    [] m.kind = "CHGHOST" -> OnUserUpdated(m)

----------------------------------------------------------------------------
(* History: what the message means for what is known to be old. *)

Own(m) == m.nick = nick[Me]

LeftAfter(c, m) ==
  LET moved == (left[c] \ {m.nick}) \cup {m.new} IN
  CASE m.kind = "JOIN" /\ m.chan = c ->
         IF Own(m) THEN DOMAIN channels[c].users \ {m.nick} ELSE left[c] \ {m.nick}
    [] m.kind \in {"PART", "KICK"} /\ m.chan = c -> left[c] \ {m.nick}
    [] m.kind = "QUIT" -> left[c] \ {m.nick}
    [] m.kind = "NICK" -> IF m.nick \in left[c] THEN moved
                          ELSE IF m.nick \in DOMAIN channels[c].users THEN left[c] \ {m.new}
                          ELSE left[c]
    [] m.kind = "NAMES" /\ m.chan = c ->
         left[c] \ {x.nick : x \in {y \in Range(m.list) : y.modes # {}}}
    [] OTHER -> left[c]

StaleAfter(c, m) ==
  CASE m.kind = "JOIN" /\ m.chan = c ->
         IF Own(m) THEN DOMAIN channels[c].users \ {m.nick} ELSE stale[c] \ {m.nick}
    [] m.kind = "NICK" /\ m.nick \in DOMAIN channels[c].users ->
         IF m.nick \in stale[c] THEN (stale[c] \ {m.nick}) \cup {m.new} ELSE stale[c] \ {m.new}
    [] m.kind = "ACCOUNT" \/ (m.kind = "PRIVMSG" /\ ~SameAgain(m)) -> stale[c] \ {m.nick}
    [] OTHER -> stale[c]

\* Of entries whose nick is out of sight the bot hears nothing; one it has for a nick
\* that somebody takes of whom it has none stays where it is.
Doubtful(m) ==
  CASE m.kind \in {"JOIN", "ACCOUNT", "PRIVMSG"} -> orphan \ {m.nick}
    [] m.kind = "NICK" -> IF m.nick \in DOMAIN accounts /\ m.nick \notin orphan
                          THEN orphan \ {m.new} ELSE (orphan \ {m.nick}) \cup {m.new}
    [] OTHER -> orphan

OutOfSight(after) == {n \in Nicks : after.accts[n] = "unseen"}

\* The bot reads the next message.
Deliver ==
  /\ wire # <<>> /\ wire' = Tail(wire)
  /\ LET m == Head(wire).m
         r == Handle(m)
     IN /\ channels' = r.channels /\ accounts' = r.accounts
        /\ seen' = Head(wire).after
        /\ left' = [c \in Channels |-> LeftAfter(c, m)]
        /\ stale' = [c \in Channels |-> StaleAfter(c, m)]
        /\ synced' = CASE m.kind = "NAMES" -> synced \cup {m.chan}
                       [] m.kind \in {"PART", "KICK"} /\ Own(m) -> synced \ {m.chan}
                       [] OTHER -> synced
        /\ known' = CASE m.kind = "MODEIS" -> known \cup {m.chan}
                      [] m.kind = "JOIN" /\ Own(m) -> known \ {m.chan}
                      [] OTHER -> known
        /\ orphan' = DOMAIN accounts' \cap (Doubtful(m) \cup OutOfSight(seen'))
  /\ UNCHANGED <<server, changes>>

\* clearNetworkAccounts()
Cleared ==
  IF accounts = <<>> THEN b
  ELSE LET Strip(us) == [n \in DOMAIN us |-> [us[n] EXCEPT !.account = Unknown]]
       IN [channels |-> EachChannel([c \in Channels |-> Strip(channels[c].users)]),
           accounts |-> <<>>]

\* The connection is lost, and the bot registers again before it hears anything.
Reconnect ==
  /\ changes < MaxChanges /\ changes' = changes + 1
  /\ on' = [c \in Channels |-> Restrict(on[c], Members(c) \ {Me})]
  /\ wire' = <<>>
  /\ channels' = Cleared.channels /\ accounts' = Cleared.accounts
  /\ synced' = {} /\ seen' = Unseen /\ orphan' = {}
  /\ UNCHANGED <<nick, host, acct, chan, known, left, stale>>

\* What the hub of the bot link sends of a channel: its own picture, taken as up to
\* date.
Snapshot(c) ==
  LET Who(n) == CHOOSE u \in Members(c) : nick[u] = n IN
  [users |-> [n \in {nick[u] : u \in Members(c)} |->
                [host |-> host[Who(n)], modes |-> on[c][Who(n)], account |-> Unknown]],
   modes |-> chan[c]]

\* On a leaf the hub's picture replaces the leaf's own.
InjectChannelSync(c) ==
  /\ changes < MaxChanges /\ changes' = changes + 1
  /\ channels' = [channels EXCEPT ![c] = Snapshot(c)]
  /\ left' = [left EXCEPT ![c] = Nicks] /\ stale' = [stale EXCEPT ![c] = {}]
  /\ known' = known \ {c}
  /\ UNCHANGED <<server, wire, accounts, synced, seen, orphan>>

Next ==
  \/ \E c \in Channels :
       \/ \E u \in People : \/ Join(u, c)
                            \/ \E kind \in {"PART", "KICK"} : Part(u, c, kind)
                            \/ \E p \in Prefix : UserMode(u, c, p)
       \/ \E f \in Flags : FlagMode(c, f)
       \/ \E k \in Keys \cup {""} : KeyMode(c, k)
       \/ Answer(c) \/ InjectChannelSync(c)
  \/ \E u \in Users : \/ \E n \in Nicks : Quit(u, n) \/ ChangeNick(u, n)
                      \/ \E a \in Accounts \cup {NoAccount} : Login(u, a)
                      \/ \E h \in Hosts : ChangeHost(u, h)
  \/ Deliver \/ Reconnect

Spec == Init /\ [][Next]_vars

----------------------------------------------------------------------------
TypeOK ==
  /\ nick \in [People -> Nicks] /\ IsInjective(nick)
  /\ host \in [People -> Hosts] /\ acct \in [People -> Accounts \cup {NoAccount}]
  /\ \A c \in Channels :
       /\ Members(c) \subseteq People
       /\ DOMAIN channels[c].users \subseteq Nicks
       /\ \A n \in DOMAIN channels[c].users :
            channels[c].users[n] \in [host : Hosts, modes : SUBSET Prefix,
                                      account : Accounts \cup {NoAccount, Unknown}]
       /\ channels[c].modes \in ChanModes
       /\ left[c] \cup stale[c] \subseteq Nicks
       /\ c \in synced => seen.chans[c] # Nothing
  /\ DOMAIN accounts \subseteq Nicks
  /\ Range(accounts) \subseteq Accounts \cup {NoAccount}
  /\ orphan \subseteq DOMAIN accounts

(* A user the bot can see has the account the bot has for his nick, or had it when the
   bot was last told, unless the entry is from a time when nobody in sight had that
   nick, or its nick was taken over.  The record of a channel has it too, or none,
   unless record or account is from before the bot joined.  Channels and accounts
   keep their types. *)
AccountsTrue ==
  /\ TypeOK
  /\ \A n \in DOMAIN accounts \ orphan : accounts[n] = seen.accts[n]
  /\ \A c \in synced : \A n \in DOMAIN channels[c].users \ (left[c] \cup stale[c]) :
       channels[c].users[n].account \in {Unknown, seen.accts[n]}

----------------------------------------------------------------------------
(* Refinement: a channel's picture, where it is not left over from before. *)

Held ==
  LET c == Watched IN
  IF c \notin synced THEN Nothing
  ELSE [users |-> [n \in Nicks |->
                     IF n \in left[c] THEN seen.chans[c].users[n]
                     ELSE IF n \in DOMAIN channels[c].users
                          THEN [host |-> channels[c].users[n].host,
                                modes |-> channels[c].users[n].modes]
                     ELSE Absent],
        modes |-> IF c \in known THEN channels[c].modes ELSE seen.chans[c].modes]

Copy == INSTANCE Replica WITH
  State <- Pictures,
  truth <- Picture(Watched),
  pending <- [i \in DOMAIN wire |-> wire[i].after.chans[Watched]],
  copy <- Held

(* The bot's picture of a channel goes through the states the channel was in at the
   server, in their order and none left out: users, hosts, prefix modes and the
   channel's modes once it has been told them. *)
Follows == Copy!Spec
============================================================================
