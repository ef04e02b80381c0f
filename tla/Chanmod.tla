------------------------------ MODULE Chanmod ------------------------------
(* The channel protection plugin (src/plugins/chanmod) in one channel: getting in
   and back in (join-recovery.ts, protection.ts), holding modes and ops
   (mode-enforce*.ts, auto-op.ts, stopnethack.ts), the takeover score and what it
   triggers (takeover-detect.ts, topic-recovery.ts), and its requests to ChanServ.

   Server and ChanServ answer the bot's commands one at a time and in their order;
   what they do reaches the bot at once, so the delay of the network is the wait
   of a command in out.  A timer fires at any time after it was set, and a time
   window ends at any time after it was opened: how long they are is left out,
   and two pending timers that do the same are one.

   A handler is a function from the world (channel, plugin and what is sent and
   scheduled) to the world; the handlers of one event run one after the other.

   friend has the master flag, foe has no flags; who joins with ops, or is given
   them by the server, has not asked the bot.                                 *)
EXTENDS ChanservAccess, FiniteSets

CONSTANTS
  den,          \* the channel
  Configs,      \* what bot.json, plugins.json and .chanset may say, and with each: what
                \* ChanServ knows (tier), what others may do (scene) and how often (budget)
  MaxOut,       \* bound: commands under way when somebody else acts
  MaxRejoins    \* max_rejoin_attempts

Users == {"friend", "foe"}
Configurations ==
  [start : {"in", "out"}, ops : SUBSET Users, services : {"atheme", "anope"}, tier : TierSet,
   settings : [Chans -> TierSet \cup {"unset"}],
   enforce : BOOLEAN, bitch : BOOLEAN, bans : BOOLEAN, protect : BOOLEAN, cycle : BOOLEAN,
   revenge : BOOLEAN, topic : BOOLEAN, verify : BOOLEAN, invite : BOOLEAN,
   punish : {"none", "deop", "akick"}, nethack : 0 .. 2,
   locks : SUBSET {"i", "k", "l", "s"}, scene : SUBSET STRING, budget : Nat]

ASSUME ChanmodAssumption ==
  den \in Chans /\ Configs \subseteq Configurations /\ {MaxOut, MaxRejoins} \subseteq Nat

VARIABLES
  config,   \* one of Configs
  chan,     \* the channel as the server has it
  bot,      \* the plugin's state
  out,      \* commands sent and not yet carried out
  timers,   \* callbacks scheduled
  acts,     \* hostile acts so far
  refused,  \* history: why the last attempt to get in was not followed by another
  early     \* history: the bot had ops when ChanServ carried out a RECOVER

chanmodVars == <<config, chan, bot, out, timers, acts, refused, early>>

----------------------------------------------------------------------------
Wanted == {"n"}              \* channel_modes "+n-s", no channel_key, no channel_limit
Unwanted == {"s"}
MaxEnforcements == 3
PunishMax == 2
\* thresholds of the takeover levels
Levels == <<3, 6, 10>>
MaxScore == 20               \* bound: the score is not counted further

Window == [n : 0 .. 3, open : BOOLEAN]
Shut == [n |-> 0, open |-> FALSE]
One == [n |-> 1, open |-> TRUE]
Tallied(w) == IF w.open THEN [w EXCEPT !.n = IF @ < 3 THEN @ + 1 ELSE 3] ELSE One

T(t, x) == [t |-> t, x |-> x]
C(cmd, x) == [cmd |-> cmd, x |-> x, modes |-> {}]

\* createState and the maps of join-recovery.
Start(settings) ==
  [acc |-> Seeded(settings), probed |-> FALSE,
   recovery |-> "none",       \* none, cooling, ready: recoveryState of the channel
   rejoins |-> Shut, unbanned |-> FALSE, locked |-> FALSE,
   score |-> 0, hot |-> FALSE, actors |-> {}, cleanup |-> FALSE, intent |-> {},
   cool |-> Shut, punish |-> Shut, cycles |-> Shut, cycling |-> FALSE,
   topic |-> "good", split |-> FALSE, before |-> {}, known |-> FALSE]

\* The bot is about to join for the first time, or has been an op for a while.
Told(settings) ==
  LET a == Seeded(settings)
  IN  IF config.tier = "none" \/ a.level[den] # "none" THEN a
      ELSE [a EXCEPT !.level[den] = config.tier, !.setting[den] = config.tier, !.auto = {den}]

ChanmodInit ==
  /\ config \in Configs
  /\ chan = [in |-> config.start = "in", users |-> Users,
             ops |-> config.ops \cup (IF config.start = "in" THEN {"bot"} ELSE {}), modes |-> Wanted,
             barred |-> FALSE, invited |-> FALSE, topic |-> "good"]
  /\ bot = [Start(config.settings) EXCEPT
              !.known = (config.start = "in"),
              !.acc = IF config.start = "in" THEN Told(config.settings) ELSE @]
  /\ out = IF config.start = "in" THEN <<>> ELSE <<C("JOIN", "-")>>
  /\ timers = {} /\ acts = 0
  /\ refused = "no" /\ early = FALSE

Now == [chan |-> chan, bot |-> bot, out |-> out, timers |-> timers, refused |-> refused]
Become(w) ==
  /\ chan' = w.chan /\ bot' = w.bot /\ out' = w.out
  /\ timers' = w.timers /\ refused' = w.refused

Ask(w, cmd, x) == [w EXCEPT !.out = Append(@, C(cmd, x))]
SetModes(w, cmd, modes) ==
  IF modes = {} THEN w
  ELSE [w EXCEPT !.out = Append(@, [cmd |-> cmd, x |-> "-", modes |-> modes])]
Later(w, t, x) == [w EXCEPT !.timers = @ \cup {T(t, x)}]
If(cond, w, else) == IF cond THEN w ELSE else

HasOps(w) == w.chan.in /\ "bot" \in w.chan.ops
Master(u) == u = "friend"
Can(w, what) == Capable(w.bot.acc, den, what, config.services)

\* markIntentional, wasIntentional: what the bot did itself is not undone.
Intended(w, u) == [w EXCEPT !.bot.intent = @ \cup {u}]

----------------------------------------------------------------------------
(* Requests to ChanServ *)

AthemeRequest(w, what, x) ==
  CASE what = "KEY" -> Ask(w, "KEYLESS", den)
    [] what = "RECOVER" -> [Ask(w, "RECOVER", den) EXCEPT !.bot.cleanup = TRUE]
    [] OTHER -> Ask(w, what, x)
\* No RECOVER here: ops are cleared, then the bot is let in, then opped.
AnopeRequest(w, what, x) ==
  CASE what = "KEY" -> [Ask(w, "GETKEY", den) EXCEPT !.bot.acc.getkey = @ \cup {den}]
    [] what = "RECOVER" -> Later(Ask(w, "CLEAROPS", den), "recoverUnban", den)
    [] OTHER -> Ask(w, what, x)
RequestFor(w, what, x) ==
  IF ~Can(w, what) THEN w
  ELSE IF config.services = "atheme" THEN AthemeRequest(w, what, x) ELSE AnopeRequest(w, what, x)
Request(w, what) == RequestFor(w, what, den)

\* verifyAccess and the marks that let the answers be read.
Probe(w) ==
  LET marked == [w EXCEPT !.bot.acc = MarkProbes(@, den, config.services)]
  IN  IF config.services = "atheme"
      THEN Ask(marked, "FLAGS", den)
      ELSE Ask(Ask(marked, "ACCESS", den), "INFO", den)

----------------------------------------------------------------------------
(* The takeover score *)

LevelOf(score) == Cardinality({i \in DOMAIN Levels : score >= Levels[i]})
ThreatLevel(w) == IF w.bot.hot THEN LevelOf(w.bot.score) ELSE 0

Escalate(w, level) ==
  LET op == Request(w, "OP")
      unban == If(level >= 2, Request(op, "UNBAN"), op)
  IN  If(level >= 3, Request(unban, "RECOVER"), unban)

Assess(w, points, actor) ==
  LET was == IF w.bot.hot THEN w.bot.score ELSE 0
      is == IF was + points > MaxScore THEN MaxScore ELSE was + points
      scored == [w EXCEPT !.bot.score = is, !.bot.hot = TRUE,
                          !.bot.actors = (IF w.bot.hot THEN @ ELSE {}) \cup {actor}]
  IN  IF LevelOf(is) > LevelOf(was) THEN Escalate(scored, LevelOf(is)) ELSE scored

TopicChanged(w) ==
  If(ThreatLevel(w) = 0, [w EXCEPT !.bot.topic = w.chan.topic], w)
RestoreTopic(w) ==
  If(config.topic /\ w.bot.topic # w.chan.topic, Ask(w, "TOPIC", w.bot.topic), w)

----------------------------------------------------------------------------
(* Getting in *)

JoinNow(w) == [Ask(w, "JOIN", "-") EXCEPT !.refused = "no"]

\* mutant: the reset set by the last join is not called off.
KeepsReset(w) == [w EXCEPT !.bot.recovery = IF @ = "none" THEN "ready" ELSE @]
\* The wait after a recovery: getOrCreateState also calls off the reset.
Recoverable(w) == [w EXCEPT !.timers = @ \ {T("reset", den)},
                            !.bot.recovery = IF @ = "none" THEN "ready" ELSE @]
Attempt(r, requested) ==
  IF r.bot.recovery = "cooling" THEN [r EXCEPT !.refused = "cooldown"]
  ELSE Later([requested EXCEPT !.bot.recovery = "cooling"], "join", den)

HandleBanned(w) ==
  LET r == Recoverable(w)
  IN  IF Can(w, "UNBAN") THEN Attempt(r, Request(Request(Request(r, "UNBAN"), "INVITE"), "KEY"))
      ELSE [w EXCEPT !.refused = "access"]
HandleInviteOnly(w) ==
  LET r == Recoverable(w)
  IN  IF Can(w, "INVITE") THEN Attempt(r, Request(r, "INVITE")) ELSE [w EXCEPT !.refused = "access"]
HandleFull(w) ==
  LET r == Recoverable(w)
  IN  IF Can(w, "INVITE") THEN Attempt(r, Request(r, "INVITE")) ELSE [w EXCEPT !.refused = "access"]
HandleBadKey(w) ==
  LET r == Recoverable(w)
  IN  IF Can(w, "KEY") THEN Attempt(r, Request(Request(r, "KEY"), "INVITE"))
      ELSE [w EXCEPT !.refused = "access"]

Recover(w, error) ==
  CASE error = "b" -> HandleBanned(w)
    [] error = "i" -> HandleInviteOnly(w)
    [] error = "l" -> HandleFull(w)
    [] error = "k" -> HandleBadKey(w)

JoinError(w, error) ==
  IF w.bot.acc.level[den] = "none" /\ w.bot.acc.setting[den] = "unset" /\ ~w.bot.probed
  THEN Later(Probe([w EXCEPT !.bot.probed = TRUE]), "probeWait", error)
  ELSE Recover(w, error)

\* The bot's own join: auto-op.ts, then join-recovery.ts.
SyncAccess(w) == [w EXCEPT !.bot.acc = ReadSetting(@, den)]
Entered(w) ==
  LET in == [w EXCEPT !.chan.in = TRUE, !.chan.invited = FALSE, !.bot.known = TRUE,
                      !.refused = "no"]
      probing == Probe(SyncAccess(If(config.enforce, Later(in, "sync", den), in)))
      known == [probing EXCEPT !.bot.probed = FALSE]
  IN  IF known.bot.recovery = "none" THEN known ELSE Later(known, "reset", den)

----------------------------------------------------------------------------
(* A kick of the bot *)

Kicked(w, by) ==
  LET scored == Assess(w, 4, by)
      seen == [scored EXCEPT !.bot.locked = {"i", "k"} \cap w.chan.modes # {}]
      helped == IF ~Can(seen, "UNBAN") THEN seen
                ELSE LET u == [Request(seen, "UNBAN") EXCEPT !.bot.unbanned = TRUE]
                     IN  If(seen.bot.locked, Request(u, "INVITE"), u)
  IN  IF helped.bot.rejoins.open /\ helped.bot.rejoins.n >= MaxRejoins
      THEN [helped EXCEPT !.refused = "suppressed"]
      ELSE Later([helped EXCEPT !.bot.rejoins = Tallied(@)], "rejoin", by)

\* mutant: the first attempt, too, is made only if the channel has no record.
RejoinIfUnknown(w, by) == If(w.bot.known, w, JoinNow(w))
\* The join of a channel record that is there is not tried a second time
\* (getChannel finds a channel the bot was in): see README.
Rejoin(w, by) ==
  LET back == [JoinNow(w) EXCEPT !.bot.unbanned = FALSE]
      op == Request(back, "OP")
  IN  If(config.revenge, Later(op, "revenge", by), op)

Revenge(w, u) ==
  IF u \notin w.chan.users \/ ~HasOps(w) \/ Master(u) THEN w
  ELSE Ask(Intended(w, u), "DEOP-", u)

----------------------------------------------------------------------------
(* Modes: an event is [by, sign, mode, who] *)

E(by, sign, mode, who) == [by |-> by, sign |-> sign, mode |-> mode, who |-> who]
Services(e) == e.by = "chanserv"
Enforced(w, e) == config.enforce /\ e.by \notin {"chanserv", "bot"} /\ HasOps(w)

Lockdown(w, e) ==
  If(e.sign = "+" /\ e.mode \in {"i", "s", "k"} /\ e.by \notin {"chanserv", "bot"},
     Assess(w, 1, e.by), w)
Reapply(w, e) ==
  If(e.sign = "-" /\ e.mode \in Wanted /\ Enforced(w, e), Later(w, "mode+", e.mode), w)
StripMode(w, e) ==
  If(e.sign = "+" /\ e.mode \in Unwanted /\ Enforced(w, e), Later(w, "mode-", e.mode), w)
StripKey(w, e) ==
  If(e.sign = "+" /\ e.mode = "k" /\ Enforced(w, e), Later(w, "mode-", "k"), w)
StripLimit(w, e) ==
  If(e.sign = "+" /\ e.mode = "l" /\ Enforced(w, e), Later(w, "mode-", "l"), w)

Sync(w) ==
  IF ~HasOps(w) THEN w
  ELSE LET missing == Wanted \ w.chan.modes
           extra == w.chan.modes \cap (Unwanted \cup {"k", "l"})
       IN  SetModes(SetModes(w, "MODE+", missing), "MODE-", extra)

Cycle(w) ==
  IF ~config.cycle \/ w.bot.cycling THEN w
  ELSE IF w.bot.cycles.open /\ w.bot.cycles.n + 1 >= MaxEnforcements
  THEN IF "i" \in w.chan.modes THEN [w EXCEPT !.bot.cycles = Tallied(@)]
       ELSE Later([w EXCEPT !.bot.cycles = Tallied(@), !.bot.cycling = TRUE], "cyclePart", den)
  ELSE [w EXCEPT !.bot.cycles = Tallied(@)]

BotDeopped(w, e) ==
  LET scored == If(Services(e), w, Assess(w, 3, e.by))
      helped == If(Can(scored, "OP"), Later(scored, "reop", den), scored)
  IN  Cycle(helped)

\* Regained ops start three callbacks of one delay, here one timer: mass re-op, hostile
\* response, topic.
\* mutant: the mark is used up, and the clean-up of RECOVER forgotten.
OppedWithoutCleanup(w) ==
  LET known == [w EXCEPT !.bot.cleanup = FALSE, !.bot.locked = FALSE]
  IN  If(ThreatLevel(w) >= 1,
         Later(known, IF ThreatLevel(w) >= 2 THEN "strikeBack" ELSE "regained", den), known)
BotOpped(w) ==
  LET clean == IF w.bot.cleanup THEN Later([w EXCEPT !.bot.cleanup = FALSE], "unlock", den) ELSE w
      known == [clean EXCEPT !.bot.locked = FALSE]
  IN  If(ThreatLevel(w) >= 1,
         Later(known, IF ThreatLevel(w) >= 2 THEN "strikeBack" ELSE "regained", den), known)

\* Bitch mode; what it handles goes no further.
Bitch(w, e) ==
  IF e.by \notin {"bot", "chanserv"} /\ HasOps(w) /\ ~Master(e.who)
  THEN Assess(Later(Intended(w, e.who), "deop", e.who), 2, e.by)
  ELSE w

BotBanned(w, e) ==
  If(e.sign = "+" /\ e.mode = "b" /\ e.who = "bot" /\ e.by \notin {"chanserv", "bot"},
     Request(Assess(w, 5, e.by), "UNBAN"), w)
EnforceBans(w, e) ==
  If(config.bans /\ e.sign = "+" /\ e.mode = "b" /\ e.who \in w.chan.users /\ HasOps(w),
     Ask(Intended(w, e.who), "KICK", e.who), w)

Punish(w, u) ==
  IF w.bot.punish.open /\ w.bot.punish.n >= PunishMax THEN w
  ELSE Ask(Intended([w EXCEPT !.bot.punish = Tallied(@)], u), "KICK", u)

UserDeopped(w, e) ==
  IF e.by = "bot" THEN w
  ELSE IF e.who \in w.bot.intent THEN [w EXCEPT !.bot.intent = @ \ {e.who}]
  ELSE IF ~(config.enforce \/ config.protect) \/ ~Master(e.who) THEN w
  ELSE IF w.bot.cool.open /\ w.bot.cool.n >= MaxEnforcements THEN Assess(w, 2, e.by)
  ELSE LET counted == [w EXCEPT !.bot.cool = Tallied(@)]
           reop == If(config.enforce, Later(counted, "op", e.who), counted)
           scored == If(Services(e), reop, Assess(reop, 2, e.by))
       IN  IF ~HasOps(w) THEN counted
           ELSE If(config.protect /\ ~Services(e) /\ ~Master(e.by), Punish(scored, e.by), scored)

\* stopnethack, bound to the same event after the rest.
Nethack(w, e) ==
  LET legitimate == IF config.nethack = 1 THEN Master(e.who) ELSE e.who \in w.bot.before
  IN  If(e.sign = "+" /\ e.mode = "o" /\ w.bot.split /\ e.who # "bot" /\ ~legitimate /\ HasOps(w),
         Later(Intended(w, e.who), "deop", e.who), w)

OnMode(w, e) ==
  LET kept == StripLimit(StripKey(StripMode(Reapply(Lockdown(w, e), e), e), e), e)
      Handled ==
        IF e.mode = "o" /\ e.who = "bot"
        THEN IF e.sign = "-" THEN BotDeopped(kept, e) ELSE BotOpped(kept)
        ELSE IF e.mode = "o" /\ e.sign = "+" THEN If(config.bitch, Bitch(kept, e), kept)
        ELSE IF e.mode = "o" THEN UserDeopped(kept, e)
        ELSE EnforceBans(BotBanned(kept, e), e)
  IN  Nethack(Handled, e)

----------------------------------------------------------------------------
(* Regained ops under threat *)

MassReop(w) ==
  LET up == {u \in w.chan.users \ w.chan.ops : Master(u)}
      down == {u \in w.chan.users \cap w.chan.ops : config.bitch /\ ~Master(u)}
      upped == If(up # {}, Ask(w, "OP+", CHOOSE u \in up : TRUE), w)
  IN  If(down # {}, Ask(upped, "DEOP-", CHOOSE u \in down : TRUE), upped)

Hostile(w) ==
  LET targets == {u \in w.bot.actors \cap w.chan.users : ~Master(u)}
  IN  IF targets = {} THEN w
      ELSE LET u == CHOOSE x \in targets : TRUE
           IN  CASE config.punish = "none" -> w
                 [] config.punish = "deop" ->
                      IF HasOps(w) THEN Ask(Intended(w, u), "DEOP-", u) ELSE RequestFor(w, "DEOP", u)
                 [] config.punish = "akick" ->
                      IF Can(w, "AKICK") THEN RequestFor(w, "AKICK", u)
                      ELSE Ask(Intended(w, u), "KICK", u)

\* A flagged user joins: ops at once, or when services vouch for the nick.
Flagged(w, u) == If(HasOps(w), Ask(w, "OP+", u), w)
AutoOp(w, u) == If(config.verify, Later(w, "verify", u), Flagged(w, u))

----------------------------------------------------------------------------
(* What the bot is told to do: !op, !deop, !kick, an invitation, .chanset *)

OrderOp(w, u) == If(HasOps(w), Ask(w, "OP+", u), w)
OrderDeop(w, u) == If(HasOps(w), Ask(Intended(w, u), "DEOP-", u), w)
OrderKick(w, u) == If(HasOps(w), Ask(w, "KICK", u), w)

\* The core follows every invitation into a configured channel, the plugin those of
\* masters, unless there is a record of the channel.
InviteCore(w) == JoinNow(w)
InvitePlugin(w, by) == If(config.invite /\ Master(by) /\ ~w.bot.known, JoinNow(w), w)
InvitedBy(w, by) == InvitePlugin(InviteCore([w EXCEPT !.chan.invited = TRUE]), by)

SetAccessSetting(w, tier) == [w EXCEPT !.bot.acc = Reset(@, den, tier)]

----------------------------------------------------------------------------
(* Timers *)

Fired(w, t) ==
  CASE t.t = "join" -> JoinNow(w)
    [] t.t = "rejoin" -> Rejoin(w, t.x)
    [] t.t = "revenge" -> Revenge(w, t.x)
    [] t.t = "reop" -> Request(w, "OP")
    [] t.t = "cyclePart" -> Later(Ask(w, "PART", "-"), "cycleJoin", den)
    [] t.t = "cycleJoin" -> [JoinNow(w) EXCEPT !.bot.cycling = FALSE, !.bot.cycles = Shut]
    [] t.t = "probeWait" ->
         IF w.bot.acc.level[den] = "none" THEN [w EXCEPT !.refused = "access"] ELSE Recover(w, t.x)
    [] t.t = "reset" -> [w EXCEPT !.bot.recovery = "none"]
    [] t.t = "sync" -> Sync(w)
    [] t.t = "mode+" -> SetModes(w, "MODE+", {t.x})
    [] t.t = "mode-" -> SetModes(w, "MODE-", {t.x})
    [] t.t = "unlock" -> SetModes(w, "MODE-", {"i", "m"})
    [] t.t = "op" -> Ask(w, "OP+", t.x)
    [] t.t = "deop" -> Ask(w, "DEOP-", t.x)
    [] t.t = "regained" -> RestoreTopic(MassReop(w))
    [] t.t = "strikeBack" -> RestoreTopic(Hostile(MassReop(w)))
    [] t.t = "recoverUnban" -> Later(Ask(Ask(w, "UNBAN", den), "INVITE", den), "recoverOp", den)
    [] t.t = "recoverOp" -> Ask(w, "OP", den)

Fire ==
  \E t \in timers :
    /\ t.t # "verify"
    /\ Become(Fired([Now EXCEPT !.timers = @ \ {t}], t))
    /\ UNCHANGED <<config, acts, early>>

\* The answer of NickServ: verified or not; ops are looked up after the await.
Verified ==
  \E t \in timers, ok \in BOOLEAN :
    /\ t.t = "verify"
    /\ LET w == [Now EXCEPT !.timers = @ \ {t}] IN Become(If(ok, Flagged(w, t.x), w))
    /\ UNCHANGED <<config, acts, early>>

\* A probe, or the wait for a key, times out; most answers come before that.
TimedOut ==
  /\ \/ bot.acc.pend # <<>> /\ bot' = [bot EXCEPT !.acc = ProbeTimeout(@, "pend", den)]
     \/ bot.acc.info # <<>> /\ bot' = [bot EXCEPT !.acc = ProbeTimeout(@, "info", den)]
     \/ bot.acc.getkey # {} /\ bot' = [bot EXCEPT !.acc.getkey = {}]
  /\ UNCHANGED <<config, chan, out, timers, acts, refused, early>>

\* A time window ends, not while a command is under way; the shortest back-off
\* also outlasts the wait before the join it was made for.
Lapse ==
  /\ out = <<>>
  /\ \/ bot.recovery = "cooling" /\ T("join", den) \notin timers
        /\ bot' = [bot EXCEPT !.recovery = "ready"]
     \/ bot.rejoins.open /\ bot' = [bot EXCEPT !.rejoins = Shut]
     \/ bot.hot /\ bot' = [bot EXCEPT !.hot = FALSE, !.score = 0]
     \/ bot.cool.open /\ bot' = [bot EXCEPT !.cool = Shut]
     \/ bot.punish.open /\ bot' = [bot EXCEPT !.punish = Shut]
     \/ bot.cycles.open /\ bot' = [bot EXCEPT !.cycles = Shut]
     \/ bot.intent # {} /\ bot' = [bot EXCEPT !.intent = {}]
     \/ bot.split /\ bot' = [bot EXCEPT !.split = FALSE, !.before = {}]
  /\ UNCHANGED <<config, chan, out, timers, acts, refused, early>>

\* The periodic check of the core joins only what was never joined.
PresenceCheck ==
  /\ ~bot.known /\ out = <<>> /\ timers = {}
  /\ Become(JoinNow(Now))
  /\ UNCHANGED <<config, acts, early>>

----------------------------------------------------------------------------
(* External: the server and ChanServ carry out what the bot sent *)

Blocked(x) ==
  {e \in {"b", "i", "l", "k"} :
     CASE e = "b" -> chan.barred
       [] e \in {"i", "l"} -> e \in chan.modes /\ ~chan.invited
       [] e = "k" -> /\ "k" \in chan.modes /\ x # "key"
                     /\ ~(chan.invited /\ config.services = "atheme")}

Head1 == Head(out)
Sent == [Now EXCEPT !.out = Tail(@)]
Carried(cmd) == out # <<>> /\ Head1.cmd = cmd

Join ==
  /\ Carried("JOIN")
  /\ IF chan.in THEN Become(Sent)
     ELSE IF Blocked(Head1.x) = {} THEN Become(Entered(Sent))
     ELSE \E e \in Blocked(Head1.x) : Become(JoinError(Sent, e))
  /\ UNCHANGED <<config, acts, early>>

Part ==
  /\ Carried("PART")
  /\ Become([Sent EXCEPT !.chan.in = FALSE, !.chan.ops = @ \ {"bot"}])
  /\ UNCHANGED <<config, acts, early>>

\* Commands that take ops.
Opping(w, by, u) ==
  IF u \in w.chan.ops \/ u \notin w.chan.users \cup {"bot"} THEN w
  ELSE OnMode([w EXCEPT !.chan.ops = @ \cup {u}], E(by, "+", "o", u))
Deopping(w, by, u) ==
  IF u \notin w.chan.ops THEN w
  ELSE LET gone == [w EXCEPT !.chan.ops = @ \ {u}]
       IN  If(w.chan.in \/ u = "bot", OnMode(gone, E(by, "-", "o", u)), gone)
Gone(w, u) == [w EXCEPT !.chan.users = @ \ {u}, !.chan.ops = @ \ {u}]

Effect(w, c) ==
  CASE c.cmd = "MODE+" -> [w EXCEPT !.chan.modes = @ \cup c.modes]
    [] c.cmd = "MODE-" -> [w EXCEPT !.chan.modes = @ \ c.modes]
    [] c.cmd = "OP+" -> Opping(w, "bot", c.x)
    [] c.cmd = "DEOP-" -> Deopping(w, "bot", c.x)
    [] c.cmd = "KICK" -> Gone(w, c.x)
    [] c.cmd = "TOPIC" -> TopicChanged([w EXCEPT !.chan.topic = c.x])
Operate ==
  /\ out # <<>> /\ Head1.cmd \in {"MODE+", "MODE-", "OP+", "DEOP-", "KICK", "TOPIC"}
  /\ Become(If(HasOps(Sent), Effect(Sent, Head1), Sent))
  /\ UNCHANGED <<config, acts, early>>

Allowed(tier) == AtLeast(config.tier, tier)

Service(w, c) ==
  CASE c.cmd = "OP" -> If(Allowed("op") /\ w.chan.in, Opping(w, "chanserv", "bot"), w)
    [] c.cmd = "UNBAN" -> If(Allowed("op"), [w EXCEPT !.chan.barred = FALSE], w)
    [] c.cmd = "INVITE" -> If(Allowed("op") /\ ~w.chan.in, InvitedBy(w, "chanserv"), w)
    [] c.cmd = "KEYLESS" -> If(Allowed("op"), [w EXCEPT !.chan.modes = @ \ {"k"}], w)
    [] c.cmd = "DEOP" -> If(Allowed("superop"), Deopping(w, "chanserv", c.x), w)
    [] c.cmd = "AKICK" -> If(Allowed("op"), Gone(w, c.x), w)
    [] c.cmd = "CLEAROPS" ->
         If(Allowed("founder"),
            Deopping(Deopping(Deopping(w, "chanserv", "bot"), "chanserv", "friend"), "chanserv", "foe"), w)
Serve ==
  /\ out # <<>>
  /\ Head1.cmd \in {"OP", "UNBAN", "INVITE", "KEYLESS", "DEOP", "AKICK", "CLEAROPS"}
  /\ Become(Service(Sent, Head1))
  /\ UNCHANGED <<config, acts, early>>

\* RECOVER takes everybody's ops, locks the channel and gives the bot ops.
RecoverDone ==
  /\ Carried("RECOVER")
  /\ IF ~Allowed("founder") THEN Become(Sent) /\ UNCHANGED early
     ELSE LET bare == Deopping(Deopping(Sent, "chanserv", "friend"), "chanserv", "foe")
              locked == [bare EXCEPT !.chan.modes = @ \cup {"i", "m"}, !.chan.barred = FALSE]
          IN  /\ Become(If(locked.chan.in, Opping(locked, "chanserv", "bot"), locked))
              /\ early' = (~bot.cleanup \/ "bot" \in chan.ops)
  /\ UNCHANGED <<config, acts>>

Answers(cmd) ==
  CASE cmd = "FLAGS" -> AthemeAnswers(den, config.tier)
    [] cmd = "ACCESS" -> AnopeList(den, config.tier)
    [] cmd = "INFO" -> AnopeInfo(den, config.tier)
    [] cmd = "GETKEY" -> {<<Line(IF "k" \in chan.modes THEN "key" ELSE "noKey", den, "none")>>}
\* The lines of one answer are read one after the other; a key that was waited for
\* is used at once.
Read(w, l) ==
  LET read == [w EXCEPT !.bot.acc = IF config.services = "atheme" THEN AthemeLine(@, l)
                                    ELSE AnopeLine(@, l)]
  IN  If(l.kind = "key" /\ den \in w.bot.acc.getkey,
         [Ask(read, "JOIN", "key") EXCEPT !.refused = "no"], read)
Answer ==
  /\ out # <<>> /\ Head1.cmd \in {"FLAGS", "ACCESS", "INFO", "GETKEY"}
  /\ \E answer \in Answers(Head1.cmd) :
       LET first == Read(Sent, answer[1])
       IN  Become(If(Len(answer) = 2, Read(first, answer[2]), first))
  /\ UNCHANGED <<config, acts, early>>

----------------------------------------------------------------------------
(* External: what others do; foe needs ops *)

Acting(what) ==
  /\ what \in config.scene
  /\ acts < config.budget /\ acts' = acts + 1 /\ Len(out) <= MaxOut
FoeActs(what) == Acting(what) /\ "foe" \in chan.ops /\ UNCHANGED <<config, early>>
Seen(w, e) == If(w.chan.in, OnMode(w, e), w)

KickBot ==
  /\ FoeActs("kick") /\ chan.in
  /\ Become(Kicked([Now EXCEPT !.chan.in = FALSE, !.chan.ops = @ \ {"bot"}], "foe"))
BanBot ==
  /\ FoeActs("ban") /\ ~chan.barred
  /\ Become(Seen([Now EXCEPT !.chan.barred = TRUE], E("foe", "+", "b", "bot")))
BanFriend ==
  /\ FoeActs("banFriend") /\ config.bans /\ "friend" \in chan.users
  /\ Become(Seen(Now, E("foe", "+", "b", "friend")))
Lock ==
  /\ FoeActs("lock")
  /\ \E m \in config.locks \ chan.modes :
       Become(Seen([Now EXCEPT !.chan.modes = @ \cup {m}], E("foe", "+", m, "-")))
Unlock ==
  /\ FoeActs("unlock") /\ "n" \in chan.modes
  /\ Become(Seen([Now EXCEPT !.chan.modes = @ \ {"n"}], E("foe", "-", "n", "-")))
Depose ==
  /\ FoeActs("depose")
  /\ \E u \in chan.ops \ {"foe"} : Become(Deopping(Now, "foe", u))
Vandalise ==
  /\ FoeActs("topic") /\ chan.topic = "good"
  /\ LET w == [Now EXCEPT !.chan.topic = "bad"] IN Become(If(chan.in, TopicChanged(w), w))

\* A netsplit, and the ops the server gives when it ends.
Netsplit ==
  /\ Acting("netsplit") /\ config.nethack > 0 /\ ~bot.split
  /\ Become([Now EXCEPT !.bot.split = TRUE,
                         !.bot.before = IF chan.in THEN chan.ops \cap chan.users ELSE {}])
  /\ UNCHANGED <<config, early>>
ServerOps ==
  /\ Acting("serverOps") /\ "foe" \in chan.users \ chan.ops
  /\ Become(Seen([Now EXCEPT !.chan.ops = @ \cup {"foe"}], E("server", "+", "o", "foe")))
  /\ UNCHANGED <<config, early>>

FriendReturns ==
  /\ Acting("friendReturns")
  /\ LET w == [Now EXCEPT !.chan.users = @ \cup {"friend"}, !.chan.ops = @ \ {"friend"}]
     IN  Become(If(chan.in, AutoOp(w, "friend"), w))
  /\ UNCHANGED <<config, early>>

\* A master has the bot do something, not to a master's harm.
Order ==
  /\ Acting("order") /\ "friend" \in chan.users /\ chan.in
  /\ \E u \in Users :
       \/ Become(OrderOp(Now, u))
       \/ ~Master(u) /\ (Become(OrderDeop(Now, u)) \/ Become(OrderKick(Now, u)))
  /\ UNCHANGED <<config, early>>
Invite ==
  /\ Acting("invite") /\ ~chan.in
  /\ \E u \in chan.ops : Become(InvitedBy(Now, u))
  /\ UNCHANGED <<config, early>>
Chanset ==
  /\ Acting("chanset")
  /\ \E tier \in TierSet \cup {"unset"} : Become(SetAccessSetting(Now, tier))
  /\ UNCHANGED <<config, early>>

ChanmodNext ==
  \/ Fire \/ Verified \/ TimedOut \/ Lapse \/ PresenceCheck
  \/ Join \/ Part \/ Operate \/ Serve \/ RecoverDone \/ Answer
  \/ KickBot \/ BanBot \/ BanFriend \/ Lock \/ Unlock \/ Depose \/ Vandalise
  \/ Netsplit \/ ServerOps \/ FriendReturns
  \/ Order \/ Invite \/ Chanset

Carries == Join \/ Part \/ Operate \/ Serve \/ RecoverDone \/ Answer

ChanmodSpec == ChanmodInit /\ [][ChanmodNext]_chanmodVars
ChanmodFairSpec == ChanmodSpec /\ WF_chanmodVars(Fire) /\ WF_chanmodVars(Verified) /\ WF_chanmodVars(Carries)

----------------------------------------------------------------------------
ChanmodTypeOK ==
  /\ config \in Configs
  /\ chan.in \in BOOLEAN /\ chan.users \subseteq Users
  /\ chan.ops \subseteq chan.users \cup (IF chan.in THEN {"bot"} ELSE {})
  /\ bot.acc \in AccessRecords
  /\ bot.recovery \in {"none", "cooling", "ready"}
  /\ {bot.rejoins, bot.cool, bot.punish, bot.cycles} \subseteq Window
  /\ bot.score \in 0 .. MaxScore /\ bot.intent \subseteq Users
  /\ refused \in {"no", "cooldown", "access", "suppressed"}

\* No command against a user with the master flag is ever sent, whatever was
\* scheduled before and whoever asked for it.  Two options are exceptions: a kick by
\* enforcebans, and stopnethack going by who had ops before the split, which takes
\* the ops the bot has just given.
FriendsSpared ==
  \A i \in DOMAIN out :
    out[i].cmd \in {"DEOP", "DEOP-", "KICK", "AKICK"} /\ out[i].x = "friend"
      => \/ out[i].cmd = "KICK" /\ config.bans
         \/ out[i].cmd = "DEOP-" /\ config.nethack = 2

\* cycleScheduled is set exactly while one of the two timers of a cycle runs.
OneCycle ==
  bot.cycling <=> (T("cyclePart", den) \in timers \/ T("cycleJoin", den) \in timers)

\* The back-off is not forgotten while the bot is refused entry.
StillWaiting == refused = "cooldown" => T("reset", den) \notin timers /\ bot.recovery # "none"

\* Once ChanServ has been heard, the bot does not reckon with more than it has.
Reckoned ==
  bot.known /\ bot.acc.pend = <<>> /\ bot.acc.info = <<>> /\ bot.acc.auto # {}
     => AtLeast(config.tier, bot.acc.level[den])

Restrained == ChanmodTypeOK /\ FriendsSpared /\ OneCycle /\ StillWaiting /\ Reckoned

\* However the bot was thrown out, it is again and again in the channel, or the
\* last attempt was given up for a reason the code has: cooldown, no access at
\* ChanServ, too many kicks.
Returns == []<>(chan.in \/ refused # "no")

\* The lock a RECOVER leaves behind does not stay, unless the bot's ops came
\* before the RECOVER was carried out.
RecoverUndone == []<>("m" \notin chan.modes \/ ~HasOps(Now) \/ early)
Quiet == <>[]((out = <<>> /\ timers = {}) \/ ~bot.known)
Settles == RecoverUndone /\ Quiet
==============================================================================
