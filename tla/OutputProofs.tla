---------------------------- MODULE OutputProofs ---------------------------
(***************************************************************************)
(* Proofs about what the bot sends: Chanmod, what the channel protection    *)
(* plugin asks for, for every configuration of the bot; and MessageQueue,   *)
(* how it gets out, for every set of targets, message cost, burst and depth *)
(* cap.                                                                    *)
(***************************************************************************)
EXTENDS MessageQueue, Chanmod, FiniteSetTheorems, SequenceTheorems, TLAPS

(* Names of channels, nicks, modes and topics.                             *)
Names ==
  Chans \cup Users \cup {"bot", "chanserv", "server", "-", "key"} \cup {"n", "s", "i", "k", "l", "m", "o", "b"}
    \cup {"good", "bad"}

(* What the bot has of ChanServ's answers is what ChanServ has, or less.    *)
Records ==
  [level : [Chans -> TierSet], auto : SUBSET {den}, setting : [Chans -> TierSet \cup {"unset"}],
   pend : Seq({den}), info : Seq({den}), active : {den, NoChan}, getkey : SUBSET Chans]
Accesses(cfg) ==
  {a \in Records : den \in a.auto => AtLeast(cfg.tier, a.level[den])}

(* The commands the bot sends: against no master, but for the two options,  *)
(* and only those its services have.                                       *)
Harmless ==
  {"JOIN", "PART", "OP", "UNBAN", "INVITE", "KEYLESS", "RECOVER", "CLEAROPS", "OP+", "TOPIC", "MODE+", "MODE-"}
Harmful == {"DEOP", "DEOP-", "KICK", "AKICK"}
Probing == {"FLAGS", "ACCESS", "INFO", "GETKEY"}
Commands(cfg) ==
  {c \in [cmd : Harmless \cup Harmful \cup Probing, x : Names, modes : SUBSET Names] :
     /\ c.cmd \in Harmful /\ c.x = "friend"
          => \/ c.cmd = "KICK" /\ cfg.bans
             \/ c.cmd = "DEOP-" /\ cfg.nethack = 2
     /\ c.cmd = "FLAGS" => cfg.services = "atheme"
     /\ c.cmd \in Probing \ {"FLAGS"} => cfg.services = "anope"}

(* The callbacks the bot schedules.                                        *)
CycleTimers == {"cyclePart", "cycleJoin"}
OtherTimers == {"join", "rejoin", "revenge", "reop", "probeWait", "sync", "mode+", "mode-",
                "unlock", "op", "deop", "regained", "strikeBack", "recoverUnban", "recoverOp", "verify"}
Callbacks(cfg) ==
  {t \in [t : CycleTimers \cup OtherTimers \cup {"reset"}, x : Names] :
     /\ t.t = "deop" /\ t.x = "friend" => cfg.nethack = 2
     /\ t.t = "probeWait" => t.x \in {"b", "i", "l", "k"}
     /\ t.t \in CycleTimers \cup {"reset"} => t.x = den}

ChannelRecords ==
  [in : BOOLEAN, users : SUBSET Users, ops : SUBSET (Users \cup {"bot"}), modes : SUBSET Names,
   barred : BOOLEAN, invited : BOOLEAN, topic : Names]
Bots(cfg) ==
  [acc : Accesses(cfg), probed : BOOLEAN, recovery : {"none", "cooling", "ready"},
   rejoins : Window, unbanned : BOOLEAN, locked : BOOLEAN,
   score : 0 .. MaxScore, hot : BOOLEAN, actors : SUBSET Names, cleanup : BOOLEAN,
   intent : SUBSET Users, cool : Window, punish : Window, cycles : Window, cycling : BOOLEAN,
   topic : Names, split : IF cfg.nethack > 0 THEN BOOLEAN ELSE {FALSE}, before : SUBSET Names,
   known : BOOLEAN]
Worlds(cfg) ==
  [chan : ChannelRecords, bot : Bots(cfg), out : Seq(Commands(cfg)),
   timers : SUBSET Callbacks(cfg), refused : {"no", "cooldown", "access", "suppressed"}]

(* The inductive invariant, of every world a handler takes or leaves: the    *)
(* bot is an op only in the channel, one timer of a cycle runs at a time,    *)
(* and no reset of the back-off runs while the bot waits.                    *)
OpsIn(w) == w.chan.ops \subseteq w.chan.users \cup (IF w.chan.in THEN {"bot"} ELSE {})
CycleIn(w) ==
  /\ w.bot.cycling <=> (T("cyclePart", den) \in w.timers \/ T("cycleJoin", den) \in w.timers)
  /\ ~(T("cyclePart", den) \in w.timers /\ T("cycleJoin", den) \in w.timers)
WaitIn(w) == w.refused = "cooldown" => T("reset", den) \notin w.timers /\ w.bot.recovery # "none"
Sound(cfg, w) == w \in Worlds(cfg) /\ OpsIn(w) /\ CycleIn(w) /\ WaitIn(w)
SoundNow == config \in Configs /\ Sound(config, Now)

----------------------------------------------------------------------------
(* What the bot knows of its access                                        *)

LEMMA Ranks ==
  /\ Rank("none") = 1 /\ Rank("op") = 2 /\ Rank("superop") = 3 /\ Rank("founder") = 4
<1>1. DOMAIN Tiers = {1, 2, 3, 4} /\ Tiers[1] = "none" /\ Tiers[2] = "op"
      /\ Tiers[3] = "superop" /\ Tiers[4] = "founder"
  BY DEF Tiers
<1> HIDE DEF Tiers
<1> QED BY <1>1, SMT DEF Rank

LEMMA Seeding ==
  ASSUME NEW cfg \in Configurations
  PROVE  Seeded(cfg.settings) \in Accesses(cfg)
BY ChanmodAssumption, EmptySeq DEF Seeded, Accesses, Records, Configurations, NoChan, TierSet

(* A new level takes the mark of a detected one away, unless it is the same. *)
LEMMA Setting_Access ==
  ASSUME NEW cfg, NEW a \in Accesses(cfg), NEW tier \in TierSet
  PROVE  SetAccess(a, den, tier) \in Accesses(cfg)
BY ChanmodAssumption DEF SetAccess, Accesses, Records

LEMMA Reset_Access ==
  ASSUME NEW cfg, NEW a \in Accesses(cfg), NEW tier \in TierSet \cup {"unset"}
  PROVE  Reset(a, den, tier) \in Accesses(cfg)
<1>1. [a EXCEPT !.setting[den] = tier] \in Accesses(cfg)
  BY ChanmodAssumption DEF Accesses, Records
<1>2. (IF tier = "unset" THEN "none" ELSE tier) \in TierSet
  BY DEF TierSet
<1> QED BY <1>1, <1>2, Setting_Access DEF Reset

LEMMA ReadSetting_Access ==
  ASSUME NEW cfg, NEW a \in Accesses(cfg)
  PROVE  ReadSetting(a, den) \in Accesses(cfg)
<1>1. a.setting[den] \in TierSet \cup {"unset"}
  BY ChanmodAssumption DEF Accesses, Records
<1>2. Setting(a, den) # "none" => a.setting[den] \in TierSet
  BY <1>1 DEF Setting
<1> QED BY <1>2, Setting_Access DEF ReadSetting

(* An answer of ChanServ is no more than ChanServ has.                       *)
LEMMA Answered_Access ==
  ASSUME NEW cfg \in Configurations, NEW a \in Accesses(cfg), NEW tier \in TierSet, AtLeast(cfg.tier, tier)
  PROVE  Answered(a, den, tier) \in Accesses(cfg)
<1>1. CASE a.level[den] = "none" /\ tier # "none"
  <2>1. Answered(a, den, tier) = [a EXCEPT !.level[den] = tier, !.auto = @ \cup {den}]
    BY <1>1 DEF Answered
  <2> DEFINE b == [a EXCEPT !.level[den] = tier]
             d == [b EXCEPT !.auto = @ \cup {den}]
  <2>2. b \in Records /\ b.level[den] = tier
    BY ChanmodAssumption DEF Accesses, Records
  <2>3. Answered(a, den, tier) = d
    BY <2>1
  <2> HIDE DEF b
  <2>4. d \in Records /\ d.level = b.level
    BY <2>2 DEF Records
  <2> HIDE DEF d
  <2> QED BY <2>2, <2>3, <2>4 DEF Accesses
<1>2. CASE ~(a.level[den] = "none" /\ tier # "none")
  BY <1>2, Setting_Access DEF Answered
<1> QED BY <1>1, <1>2

LEMMA Synced_Access ==
  ASSUME NEW cfg, NEW a \in Accesses(cfg)
  PROVE  Synced(a, den) \in Accesses(cfg)
<1>1. a.level[den] \in TierSet
  BY ChanmodAssumption DEF Accesses, Records
<1> QED BY <1>1, Reset_Access DEF Synced

LEMMA Unmarked_Seq ==
  ASSUME NEW probes \in Seq({den}), NEW c
  PROVE  Unmarked(probes, c) \in Seq({den})
<1>1. CASE Contains(probes, c)
  <2> DEFINE i == CHOOSE i \in DOMAIN probes : probes[i] = c
  <2>1. i \in 1 .. Len(probes) /\ Len(probes) \in Nat
    BY <1>1, LenProperties DEF Contains
  <2>2. Unmarked(probes, c) = SubSeq(probes, 1, i - 1) \o SubSeq(probes, i + 1, Len(probes))
    BY <1>1 DEF Unmarked, RemoveAt
  <2> HIDE DEF i
  <2>3. SubSeq(probes, 1, i - 1) \in Seq({den})
    BY <2>1, SubSeqProperties, SMT
  <2>4. SubSeq(probes, i + 1, Len(probes)) \in Seq({den})
    BY <2>1, SubSeqProperties, SMT
  <2> QED BY <2>2, <2>3, <2>4, ConcatProperties
<1> QED BY <1>1 DEF Unmarked

LEMMA Pending_Access ==
  ASSUME NEW cfg, NEW a \in Accesses(cfg), NEW s \in Seq({den})
  PROVE  /\ [a EXCEPT !.pend = s] \in Accesses(cfg)
         /\ [a EXCEPT !.info = s] \in Accesses(cfg)
BY DEF Accesses, Records

LEMMA Probes_Access ==
  ASSUME NEW cfg, NEW a \in Accesses(cfg)
  PROVE  a.pend \in Seq({den}) /\ a.info \in Seq({den})
BY DEF Accesses, Records

LEMMA Mark_Access ==
  ASSUME NEW cfg, NEW a \in Accesses(cfg), NEW services
  PROVE  MarkProbes(a, den, services) \in Accesses(cfg)
<1> DEFINE p == Marked(a.pend, den)
           i == IF services = "anope" THEN Marked(a.info, den) ELSE a.info
           b == [a EXCEPT !.pend = p]
<1>1. p \in Seq({den}) /\ i \in Seq({den})
  <2>1. ASSUME NEW s \in Seq({den}) PROVE Marked(s, den) \in Seq({den})
    BY AppendProperties DEF Marked
  <2> QED BY <2>1, Probes_Access
<1>2. b.info = a.info
  BY DEF Accesses, Records
<1>3. MarkProbes(a, den, services) = [b EXCEPT !.info = i]
  BY <1>2 DEF MarkProbes
<1> HIDE DEF p, i
<1>4. b \in Accesses(cfg)
  BY <1>1, Pending_Access
<1> HIDE DEF b
<1> QED BY <1>1, <1>3, <1>4, Pending_Access

LEMMA Timeout_Access ==
  ASSUME NEW cfg, NEW a \in Accesses(cfg), NEW kind
  PROVE  ProbeTimeout(a, kind, den) \in Accesses(cfg)
<1>1. Unmarked(a.pend, den) \in Seq({den}) /\ Unmarked(a.info, den) \in Seq({den})
  BY Pending_Access, Probes_Access, Unmarked_Seq
<1> QED BY <1>1, Pending_Access DEF ProbeTimeout

LEMMA Named_Access ==
  ASSUME NEW cfg \in Configurations, NEW a \in Accesses(cfg), NEW tier \in TierSet, AtLeast(cfg.tier, tier)
  PROVE  AnsweredNamed(a, den, tier) \in Accesses(cfg)
<1>1. [a EXCEPT !.pend = Unmarked(@, den)] \in Accesses(cfg)
  BY Pending_Access, Probes_Access, Unmarked_Seq
<1> QED BY <1>1, Answered_Access, Synced_Access DEF AnsweredNamed

LEMMA Oldest_Access ==
  ASSUME NEW cfg \in Configurations, NEW a \in Accesses(cfg), NEW tier \in TierSet, AtLeast(cfg.tier, tier)
  PROVE  AnsweredOldest(a, tier) \in Accesses(cfg)
<1>1. CASE a.pend # <<>>
  <2>1. Oldest(a) = den /\ Tail(a.pend) \in Seq({den})
    BY <1>1, Probes_Access, HeadTailProperties DEF Oldest
  <2>2. Consume(a) \in Accesses(cfg)
    BY <2>1, Pending_Access DEF Consume
  <2> QED BY <1>1, <2>1, <2>2, Answered_Access, Synced_Access DEF AnsweredOldest
<1> QED BY <1>1 DEF AnsweredOldest

(* What ChanServ answers is of a kind its services have, and names no tier   *)
(* but the one it has, or none.                                             *)
Truth(cfg, l) ==
  /\ l.chan = den /\ l.tier \in TierSet /\ (l.kind \in {"flags", "flagsFor", "entry", "end"} => AtLeast(cfg.tier, l.tier))
  /\ l.kind \in IF cfg.services = "atheme" THEN {"flags", "flagsFor", "notFound", "unregistered"}
                ELSE {"entry", "end", "unregistered", "header", "isFounder", "infoEnd", "key", "noKey"}
  /\ l.kind = "isFounder" => cfg.tier = "founder"

LEMMA LeastAccess ==
  ASSUME NEW cfg \in Configurations
  PROVE  AtLeast(cfg.tier, "none") /\ (cfg.tier = "founder" => AtLeast(cfg.tier, "founder"))
         /\ AtLeast(cfg.tier, cfg.tier)
<1>1. cfg.tier \in {"none", "op", "superop", "founder"}
  BY DEF Configurations, TierSet
<1> QED BY <1>1, Ranks DEF AtLeast

LEMMA Atheme_Access ==
  ASSUME NEW cfg \in Configurations, NEW a \in Accesses(cfg), NEW l, Truth(cfg, l), cfg.services = "atheme"
  PROVE  AthemeLine(a, l) \in Accesses(cfg)
<1>1. l.chan = den /\ l.tier \in TierSet /\ "none" \in TierSet
  BY DEF Truth, TierSet
<1>2. CASE l.kind = "flags"
  BY <1>1, <1>2, Oldest_Access DEF AthemeLine, Truth
<1>3. CASE l.kind = "flagsFor"
  BY <1>1, <1>3, Named_Access DEF AthemeLine, Truth
<1>4. CASE l.kind = "notFound"
  BY <1>1, <1>4, Named_Access, LeastAccess DEF AthemeLine
<1>5. CASE l.kind = "unregistered"
  BY <1>1, <1>5, Named_Access, LeastAccess DEF AthemeLine
<1> QED BY <1>2, <1>3, <1>4, <1>5 DEF Truth

LEMMA Anope_Access ==
  ASSUME NEW cfg \in Configurations, NEW a \in Accesses(cfg), NEW l, Truth(cfg, l), cfg.services = "anope"
  PROVE  AnopeLine(a, l) \in Accesses(cfg)
<1>1. l.chan = den /\ l.tier \in TierSet /\ "none" \in TierSet /\ "founder" \in TierSet
  BY DEF Truth, TierSet
<1>2. CASE l.kind \in {"entry", "end"}
  BY <1>1, <1>2, Oldest_Access DEF AnopeLine, Truth
<1>3. CASE l.kind = "unregistered"
  BY <1>1, <1>3, Named_Access, LeastAccess DEF AnopeLine
<1>4. CASE l.kind = "header"
  <2>1. [a EXCEPT !.active = l.chan] \in Accesses(cfg)
    BY <1>1 DEF Accesses, Records
  <2> QED BY <1>4, <2>1 DEF AnopeLine
<1>5. CASE l.kind \in {"isFounder", "infoEnd"} /\ a.active # NoChan
  <2> DEFINE b == [a EXCEPT !.info = Unmarked(@, a.active)]
             done == [b EXCEPT !.active = NoChan]
  <2>1. a.active = den
    BY <1>5 DEF Accesses, Records
  <2>2. b \in Accesses(cfg)
    BY Pending_Access, Probes_Access, Unmarked_Seq
  <2>3. AnopeLine(a, l) = IF l.kind = "infoEnd" THEN done ELSE Synced(Answered(done, den, "founder"), den)
    BY <1>5, <2>1 DEF AnopeLine
  <2> HIDE DEF b
  <2>4. done \in Accesses(cfg)
    BY <2>2 DEF Accesses, Records
  <2> HIDE DEF done
  <2>5. l.kind # "infoEnd" => AtLeast(cfg.tier, "founder")
    BY <1>5, LeastAccess DEF Truth
  <2> QED BY <1>1, <2>3, <2>4, <2>5, Answered_Access, Synced_Access
<1>6. CASE l.kind \in {"isFounder", "infoEnd"} /\ a.active = NoChan
  BY <1>6 DEF AnopeLine
<1>7. CASE l.kind \in {"key", "noKey"}
  <2>1. [a EXCEPT !.getkey = @ \ {l.chan}] \in Accesses(cfg)
    BY DEF Accesses, Records
  <2> QED BY <1>7, <2>1 DEF AnopeLine
<1> QED BY <1>2, <1>3, <1>4, <1>5, <1>6, <1>7 DEF Truth

----------------------------------------------------------------------------
(* Worlds                                                                  *)

Safe(w) == config \in Configs /\ Sound(config, w)

LEMMA Typed ==
  ASSUME NEW w, Safe(w)
  PROVE  /\ config \in Configurations
         /\ w \in Worlds(config) /\ w.chan \in ChannelRecords /\ w.bot \in Bots(config)
         /\ w.out \in Seq(Commands(config)) /\ w.timers \in SUBSET Callbacks(config)
         /\ w.bot.acc \in Accesses(config)
BY ChanmodAssumption DEF Safe, Sound, Worlds, Bots

(* What a handler leaves alone keeps the invariant: the channel, the marks   *)
(* of the cycle and of the back-off.                                       *)
LEMMA Kept ==
  ASSUME NEW w, Safe(w), NEW v, v \in Worlds(config), OpsIn(v),
         v.bot.cycling = w.bot.cycling, v.bot.recovery = w.bot.recovery, v.refused = w.refused,
         \A t \in {"cyclePart", "cycleJoin", "reset"} : T(t, den) \in v.timers <=> T(t, den) \in w.timers
  PROVE  Safe(v)
BY DEF Safe, Sound, CycleIn, WaitIn

LEMMA Out_Safe ==
  ASSUME NEW w, Safe(w), NEW s \in Seq(Commands(config))
  PROVE  /\ Safe([w EXCEPT !.out = s])
         /\ [w EXCEPT !.out = s].chan = w.chan /\ [w EXCEPT !.out = s].bot = w.bot
         /\ [w EXCEPT !.out = s].timers = w.timers /\ [w EXCEPT !.out = s].refused = w.refused
<1> DEFINE v == [w EXCEPT !.out = s]
<1>1. v \in Worlds(config) /\ v.chan = w.chan /\ v.bot = w.bot /\ v.timers = w.timers /\ v.refused = w.refused
  BY DEF Safe, Sound, Worlds
<1>2. OpsIn(v)
  BY <1>1 DEF Safe, Sound, OpsIn
<1> HIDE DEF v
<1>3. Safe(v)
  BY <1>1, <1>2, Kept
<1> QED BY <1>1, <1>3 DEF v

LEMMA Bot_Safe ==
  ASSUME NEW w, Safe(w), NEW b \in Bots(config), b.cycling = w.bot.cycling, b.recovery = w.bot.recovery
  PROVE  /\ Safe([w EXCEPT !.bot = b])
         /\ [w EXCEPT !.bot = b].chan = w.chan /\ [w EXCEPT !.bot = b].out = w.out /\ [w EXCEPT !.bot = b].bot = b
         /\ [w EXCEPT !.bot = b].timers = w.timers /\ [w EXCEPT !.bot = b].refused = w.refused
<1> DEFINE v == [w EXCEPT !.bot = b]
<1>1. v \in Worlds(config) /\ v.chan = w.chan /\ v.bot = b /\ v.out = w.out /\ v.timers = w.timers /\ v.refused = w.refused
  BY DEF Safe, Sound, Worlds
<1>2. OpsIn(v)
  BY <1>1 DEF Safe, Sound, OpsIn
<1> HIDE DEF v
<1>3. Safe(v)
  BY <1>1, <1>2, Kept
<1> QED BY <1>1, <1>3 DEF v

LEMMA Chan_Safe ==
  ASSUME NEW w, Safe(w), NEW c \in ChannelRecords, OpsIn([w EXCEPT !.chan = c])
  PROVE  /\ Safe([w EXCEPT !.chan = c])
         /\ [w EXCEPT !.chan = c].chan = c /\ [w EXCEPT !.chan = c].out = w.out /\ [w EXCEPT !.chan = c].bot = w.bot
         /\ [w EXCEPT !.chan = c].timers = w.timers /\ [w EXCEPT !.chan = c].refused = w.refused
<1> DEFINE v == [w EXCEPT !.chan = c]
<1>1. v \in Worlds(config) /\ v.chan = c /\ v.bot = w.bot /\ v.out = w.out /\ v.timers = w.timers /\ v.refused = w.refused
  BY DEF Safe, Sound, Worlds
<1>2. OpsIn(v)
  OBVIOUS
<1> HIDE DEF v
<1>3. Safe(v)
  BY <1>1, <1>2, Kept
<1> QED BY <1>1, <1>3 DEF v

LEMMA Ask_Safe ==
  ASSUME NEW w, Safe(w), NEW cmd, NEW x, C(cmd, x) \in Commands(config)
  PROVE  /\ Safe(Ask(w, cmd, x))
         /\ Ask(w, cmd, x).chan = w.chan /\ Ask(w, cmd, x).bot = w.bot
         /\ Ask(w, cmd, x).timers = w.timers /\ Ask(w, cmd, x).refused = w.refused
<1>1. Append(w.out, C(cmd, x)) \in Seq(Commands(config))
  BY Typed, AppendProperties
<1> QED BY <1>1, Out_Safe DEF Ask

LEMMA Modes_Safe ==
  ASSUME NEW w, Safe(w), NEW cmd \in {"MODE+", "MODE-"}, NEW modes \in SUBSET Names
  PROVE  Safe(SetModes(w, cmd, modes))
<1> DEFINE c == [cmd |-> cmd, x |-> "-", modes |-> modes]
<1>1. c \in Commands(config)
  <2>1. "-" \in Names
    BY DEF Names
  <2> QED BY <2>1 DEF Commands, Harmless, Harmful, Probing
<1> HIDE DEF c
<1>2. Append(w.out, c) \in Seq(Commands(config))
  BY <1>1, Typed, AppendProperties
<1> QED BY <1>2, Out_Safe DEF SetModes, c

LEMMA Timers_Safe ==
  ASSUME NEW w, Safe(w), NEW s \in SUBSET Callbacks(config),
         \A t \in {"cyclePart", "cycleJoin", "reset"} : T(t, den) \in s <=> T(t, den) \in w.timers
  PROVE  /\ Safe([w EXCEPT !.timers = s])
         /\ [w EXCEPT !.timers = s].chan = w.chan /\ [w EXCEPT !.timers = s].bot = w.bot
         /\ [w EXCEPT !.timers = s].out = w.out /\ [w EXCEPT !.timers = s].refused = w.refused
         /\ [w EXCEPT !.timers = s].timers = s
<1> DEFINE v == [w EXCEPT !.timers = s]
<1>1. v \in Worlds(config) /\ v.chan = w.chan /\ v.bot = w.bot /\ v.out = w.out /\ v.timers = s /\ v.refused = w.refused
  BY DEF Safe, Sound, Worlds
<1>2. OpsIn(v)
  BY <1>1 DEF Safe, Sound, OpsIn
<1> HIDE DEF v
<1>3. Safe(v)
  BY <1>1, <1>2, Kept
<1> QED BY <1>1, <1>3 DEF v

LEMMA Later_Safe ==
  ASSUME NEW w, Safe(w), NEW t \in OtherTimers, NEW x, T(t, x) \in Callbacks(config)
  PROVE  /\ Safe(Later(w, t, x))
         /\ Later(w, t, x).chan = w.chan /\ Later(w, t, x).bot = w.bot
         /\ Later(w, t, x).out = w.out /\ Later(w, t, x).refused = w.refused
<1>1. w.timers \cup {T(t, x)} \in SUBSET Callbacks(config)
  BY Typed
<1>2. \A r \in {"cyclePart", "cycleJoin", "reset"} : T(r, den) \in w.timers \cup {T(t, x)} <=> T(r, den) \in w.timers
  BY DEF OtherTimers, T
<1> QED BY <1>1, <1>2, Timers_Safe DEF Later

LEMMA Tallies == ASSUME NEW x \in Window PROVE Tallied(x) \in Window
BY DEF Tallied, Window, One

LEMMA Windows == Shut \in Window /\ One \in Window
BY DEF Window, Shut, One

(* Which commands and callbacks there are.                                 *)
LEMMA Harmless_Commands ==
  ASSUME NEW cmd \in Harmless, NEW x \in Names
  PROVE  C(cmd, x) \in Commands(config)
BY DEF Commands, C, Harmless, Harmful, Probing

LEMMA Harmful_Commands ==
  ASSUME NEW cmd \in Harmful, NEW x \in Names,
         \/ ~Master(x)
         \/ cmd = "KICK" /\ config.bans
         \/ cmd = "DEOP-" /\ config.nethack = 2
  PROVE  C(cmd, x) \in Commands(config)
BY DEF Commands, C, Harmful, Probing, Master

LEMMA Probing_Commands ==
  ASSUME NEW cmd \in Probing, NEW x \in Names,
         IF cmd = "FLAGS" THEN config.services = "atheme" ELSE config.services = "anope"
  PROVE  C(cmd, x) \in Commands(config)
BY DEF Commands, C, Harmful, Probing

LEMMA Free_Callbacks ==
  ASSUME NEW t \in OtherTimers \ {"deop", "probeWait"}, NEW x \in Names
  PROVE  T(t, x) \in Callbacks(config)
BY DEF OtherTimers, CycleTimers, Callbacks, T

LEMMA Deop_Callback ==
  ASSUME NEW x \in Names, Master(x) => config.nethack = 2
  PROVE  T("deop", x) \in Callbacks(config)
BY DEF OtherTimers, CycleTimers, Callbacks, T, Master

LEMMA Probe_Callback ==
  ASSUME NEW x \in {"b", "i", "l", "k"}
  PROVE  T("probeWait", x) \in Callbacks(config)
BY DEF OtherTimers, CycleTimers, Callbacks, T, Names

LEMMA Named ==
  /\ den \in Names /\ Users \subseteq Names /\ {"bot", "chanserv", "server", "-", "key"} \subseteq Names
  /\ {"n", "s", "i", "k", "l", "m", "o", "b", "good", "bad"} \subseteq Names
BY ChanmodAssumption DEF Names, Users

(* A field of the plugin's state, other than the marks of the cycle and of   *)
(* the back-off.                                                           *)
LEMMA Fields_Safe ==
  ASSUME NEW w, Safe(w)
  PROVE  /\ \A v \in Accesses(config) : Safe([w EXCEPT !.bot.acc = v])
         /\ \A v \in BOOLEAN : Safe([w EXCEPT !.bot.probed = v]) /\ Safe([w EXCEPT !.bot.unbanned = v])
              /\ Safe([w EXCEPT !.bot.locked = v]) /\ Safe([w EXCEPT !.bot.hot = v])
              /\ Safe([w EXCEPT !.bot.cleanup = v]) /\ Safe([w EXCEPT !.bot.known = v])
         /\ \A v \in Window : Safe([w EXCEPT !.bot.rejoins = v]) /\ Safe([w EXCEPT !.bot.cool = v])
              /\ Safe([w EXCEPT !.bot.punish = v]) /\ Safe([w EXCEPT !.bot.cycles = v])
         /\ \A v \in 0 .. MaxScore : Safe([w EXCEPT !.bot.score = v])
         /\ \A v \in SUBSET Names : Safe([w EXCEPT !.bot.actors = v]) /\ Safe([w EXCEPT !.bot.before = v])
         /\ \A v \in SUBSET Users : Safe([w EXCEPT !.bot.intent = v])
         /\ \A v \in Names : Safe([w EXCEPT !.bot.topic = v])
         /\ \A v \in IF config.nethack > 0 THEN BOOLEAN ELSE {FALSE} : Safe([w EXCEPT !.bot.split = v])
<1> DEFINE Fit(b) == b \in Bots(config) /\ b.cycling = w.bot.cycling /\ b.recovery = w.bot.recovery
<1>0. ASSUME NEW b, Fit(b) PROVE Safe([w EXCEPT !.bot = b])
  BY <1>0, Bot_Safe
<1>1. w.bot \in Bots(config)
  BY Typed
<1>2. ASSUME NEW v \in Accesses(config) PROVE Fit([w.bot EXCEPT !.acc = v])
  BY <1>1 DEF Bots
<1>3. ASSUME NEW v \in BOOLEAN
      PROVE  /\ Fit([w.bot EXCEPT !.probed = v])
             /\ Fit([w.bot EXCEPT !.unbanned = v])
             /\ Fit([w.bot EXCEPT !.locked = v])
             /\ Fit([w.bot EXCEPT !.hot = v])
             /\ Fit([w.bot EXCEPT !.cleanup = v])
             /\ Fit([w.bot EXCEPT !.known = v])
  <2>1. Fit([w.bot EXCEPT !.probed = v])
    BY <1>1 DEF Bots
  <2>2. Fit([w.bot EXCEPT !.unbanned = v])
    BY <1>1 DEF Bots
  <2>3. Fit([w.bot EXCEPT !.locked = v])
    BY <1>1 DEF Bots
  <2>4. Fit([w.bot EXCEPT !.hot = v])
    BY <1>1 DEF Bots
  <2>5. Fit([w.bot EXCEPT !.cleanup = v])
    BY <1>1 DEF Bots
  <2>6. Fit([w.bot EXCEPT !.known = v])
    BY <1>1 DEF Bots
  <2> QED BY <2>1, <2>2, <2>3, <2>4, <2>5, <2>6
<1>4. ASSUME NEW v \in Window
      PROVE  /\ Fit([w.bot EXCEPT !.rejoins = v])
             /\ Fit([w.bot EXCEPT !.cool = v])
             /\ Fit([w.bot EXCEPT !.punish = v])
             /\ Fit([w.bot EXCEPT !.cycles = v])
  <2>1. Fit([w.bot EXCEPT !.rejoins = v])
    BY <1>1 DEF Bots
  <2>2. Fit([w.bot EXCEPT !.cool = v])
    BY <1>1 DEF Bots
  <2>3. Fit([w.bot EXCEPT !.punish = v])
    BY <1>1 DEF Bots
  <2>4. Fit([w.bot EXCEPT !.cycles = v])
    BY <1>1 DEF Bots
  <2> QED BY <2>1, <2>2, <2>3, <2>4
<1>5. ASSUME NEW v \in 0 .. MaxScore PROVE Fit([w.bot EXCEPT !.score = v])
  BY <1>1 DEF Bots
<1>6. ASSUME NEW v \in SUBSET Names PROVE Fit([w.bot EXCEPT !.actors = v]) /\ Fit([w.bot EXCEPT !.before = v])
  BY <1>1 DEF Bots
<1>7. ASSUME NEW v \in SUBSET Users PROVE Fit([w.bot EXCEPT !.intent = v])
  BY <1>1 DEF Bots
<1>8. ASSUME NEW v \in Names PROVE Fit([w.bot EXCEPT !.topic = v])
  BY <1>1 DEF Bots
<1>9. ASSUME NEW v \in IF config.nethack > 0 THEN BOOLEAN ELSE {FALSE} PROVE Fit([w.bot EXCEPT !.split = v])
  BY <1>1 DEF Bots
<1> HIDE DEF Fit
<1> QED BY <1>0, <1>2, <1>3, <1>4, <1>5, <1>6, <1>7, <1>8, <1>9

----------------------------------------------------------------------------
(* Requests, the score and getting in                                      *)

LEMMA Cooling_Safe ==
  ASSUME NEW w, Safe(w)
  PROVE  Safe([w EXCEPT !.bot.recovery = "cooling"])
<1> DEFINE b == [w.bot EXCEPT !.recovery = "cooling"]
           v == [w EXCEPT !.bot = b]
<1>0. w.bot \in Bots(config)
  BY Typed
<1>1. b \in Bots(config) /\ b.cycling = w.bot.cycling /\ b.recovery = "cooling"
  BY <1>0 DEF Bots
<1> HIDE DEF b
<1>2. /\ v \in Worlds(config) /\ v.chan = w.chan /\ v.bot = b /\ v.timers = w.timers /\ v.refused = w.refused
  BY <1>1 DEF Safe, Sound, Worlds
<1> HIDE DEF v
<1>3. OpsIn(v) /\ CycleIn(v) /\ WaitIn(v)
  BY <1>1, <1>2 DEF Safe, Sound, OpsIn, CycleIn, WaitIn
<1> QED BY <1>2, <1>3 DEF Safe, Sound, b, v

(* Why the last attempt was not followed by another, but for the back-off.   *)
LEMMA Refused_Safe ==
  ASSUME NEW w, Safe(w), NEW r \in {"no", "access", "suppressed"}
  PROVE  Safe([w EXCEPT !.refused = r])
<1> DEFINE v == [w EXCEPT !.refused = r]
<1>1. v \in Worlds(config) /\ v.chan = w.chan /\ v.bot = w.bot /\ v.timers = w.timers /\ v.refused = r
  BY DEF Safe, Sound, Worlds
<1> HIDE DEF v
<1>2. OpsIn(v) /\ CycleIn(v) /\ WaitIn(v)
  BY <1>1 DEF Safe, Sound, OpsIn, CycleIn, WaitIn
<1> QED BY <1>1, <1>2 DEF Safe, Sound, v

LEMMA If_Safe ==
  ASSUME NEW w, Safe(w), NEW else, Safe(else), NEW cond
  PROVE  Safe(If(cond, w, else))
BY DEF If

LEMMA GetKey_Safe ==
  ASSUME NEW w, Safe(w), NEW s \in SUBSET Chans
  PROVE  Safe([w EXCEPT !.bot.acc.getkey = s])
<1>1. [w.bot.acc EXCEPT !.getkey = s] \in Accesses(config)
  BY Typed DEF Accesses, Records
<1> QED BY <1>1, Fields_Safe

What == {"OP", "UNBAN", "INVITE", "KEY", "RECOVER", "DEOP", "AKICK"}

LEMMA RequestFor_Safe ==
  ASSUME NEW w, Safe(w), NEW what \in What, NEW x \in Names, what \in {"DEOP", "AKICK"} => ~Master(x)
  PROVE  Safe(RequestFor(w, what, x))
<1>1. CASE what \notin {"KEY", "RECOVER"}
  <2>1. C(what, x) \in Commands(config)
    BY <1>1, Harmless_Commands, Harmful_Commands DEF What, Harmless, Harmful
  <2> QED BY <1>1, <2>1, Ask_Safe DEF RequestFor, AthemeRequest, AnopeRequest
<1>2. CASE what = "KEY"
  <2>1. CASE config.services = "atheme"
    <3>1. C("KEYLESS", den) \in Commands(config)
      BY Harmless_Commands, Named DEF Harmless
    <3> QED BY <1>2, <2>1, <3>1, Ask_Safe DEF RequestFor, AthemeRequest
  <2>2. CASE config.services # "atheme"
    <3>1. C("GETKEY", den) \in Commands(config)
      BY <2>2, Probing_Commands, Named, Typed DEF Probing, Configurations
    <3> DEFINE v == Ask(w, "GETKEY", den)
    <3>2. Safe(v)
      BY <3>1, Ask_Safe
    <3>3. v.bot.acc.getkey \cup {den} \in SUBSET Chans
      BY <3>2, Typed, ChanmodAssumption DEF Accesses, Records
    <3> HIDE DEF v
    <3>4. Safe([v EXCEPT !.bot.acc.getkey = @ \cup {den}])
      BY <3>2, <3>3, GetKey_Safe
    <3> QED BY <1>2, <2>2, <3>4 DEF RequestFor, AnopeRequest, v
  <2> QED BY <2>1, <2>2
<1>3. CASE what = "RECOVER"
  <2>1. C("RECOVER", den) \in Commands(config) /\ C("CLEAROPS", den) \in Commands(config)
    BY Harmless_Commands, Named DEF Harmless
  <2>2. T("recoverUnban", den) \in Callbacks(config) /\ "recoverUnban" \in OtherTimers
    BY Free_Callbacks, Named DEF OtherTimers
  <2>3. Safe(Ask(w, "RECOVER", den)) /\ Safe(Ask(w, "CLEAROPS", den))
    BY <2>1, Ask_Safe
  <2>4. Safe([Ask(w, "RECOVER", den) EXCEPT !.bot.cleanup = TRUE])
    BY <2>3, Fields_Safe
  <2>5. Safe(Later(Ask(w, "CLEAROPS", den), "recoverUnban", den))
    BY <2>2, <2>3, Later_Safe
  <2> QED BY <1>3, <2>4, <2>5 DEF RequestFor, AthemeRequest, AnopeRequest
<1> QED BY <1>1, <1>2, <1>3

LEMMA Request_Safe ==
  ASSUME NEW w, Safe(w), NEW what \in What \ {"DEOP", "AKICK"}
  PROVE  Safe(Request(w, what))
BY RequestFor_Safe, Named DEF Request

LEMMA Probe_Safe ==
  ASSUME NEW w, Safe(w)
  PROVE  Safe(Probe(w)) /\ Probe(w).refused = w.refused
<1> DEFINE v == [w EXCEPT !.bot.acc = MarkProbes(@, den, config.services)]
<1>1. Safe(v)
  BY Typed, Mark_Access, Fields_Safe
<1>2. v.refused = w.refused
  BY Typed DEF Worlds
<1>3. /\ config.services = "atheme" => C("FLAGS", den) \in Commands(config)
      /\ config.services # "atheme" => C("ACCESS", den) \in Commands(config) /\ C("INFO", den) \in Commands(config)
  BY Probing_Commands, Named, Typed DEF Probing, Configurations
<1>4. Probe(w) = IF config.services = "atheme" THEN Ask(v, "FLAGS", den) ELSE Ask(Ask(v, "ACCESS", den), "INFO", den)
  BY DEF Probe
<1> HIDE DEF v
<1>5. CASE config.services = "atheme"
  BY <1>1, <1>2, <1>3, <1>4, <1>5, Ask_Safe
<1>6. CASE config.services # "atheme"
  <2>1. Safe(Ask(v, "ACCESS", den)) /\ Ask(v, "ACCESS", den).refused = w.refused
    BY <1>1, <1>2, <1>3, <1>6, Ask_Safe
  <2> QED BY <1>3, <1>4, <1>6, <2>1, Ask_Safe
<1> QED BY <1>5, <1>6

LEMMA Escalate_Safe ==
  ASSUME NEW w, Safe(w), NEW level
  PROVE  Safe(Escalate(w, level))
<1> DEFINE op == Request(w, "OP")
           unban == If(level >= 2, Request(op, "UNBAN"), op)
<1>1. Safe(op)
  BY Request_Safe DEF What
<1>2. Safe(unban)
  BY <1>1, Request_Safe, If_Safe DEF What
<1> QED BY <1>2, Request_Safe, If_Safe DEF What, Escalate

LEMMA Assess_Safe ==
  ASSUME NEW w, Safe(w), NEW points \in Nat, NEW actor \in Names
  PROVE  Safe(Assess(w, points, actor))
<1> DEFINE was == IF w.bot.hot THEN w.bot.score ELSE 0
           is == IF was + points > MaxScore THEN MaxScore ELSE was + points
           actors == (IF w.bot.hot THEN w.bot.actors ELSE {}) \cup {actor}
           one == [w EXCEPT !.bot.score = is]
           two == [one EXCEPT !.bot.hot = TRUE]
           scored == [two EXCEPT !.bot.actors = actors]
<1>0. w.bot.score \in 0 .. MaxScore /\ w.bot.actors \in SUBSET Names
  <2>1. w.bot \in Bots(config)
    BY Typed
  <2> QED BY <2>1 DEF Bots
<1>1. was \in 0 .. MaxScore /\ is \in 0 .. MaxScore /\ actors \in SUBSET Names
  BY <1>0 DEF MaxScore
<1>2. [w EXCEPT !.bot.score = is, !.bot.hot = TRUE,
                !.bot.actors = (IF w.bot.hot THEN @ ELSE {}) \cup {actor}] = scored
  BY Typed DEF Worlds, Bots
<1>3. Assess(w, points, actor) = IF LevelOf(is) > LevelOf(was) THEN Escalate(scored, LevelOf(is)) ELSE scored
  BY <1>2 DEF Assess
<1> HIDE DEF was, is, actors
<1>4. Safe(one)
  BY <1>1, Fields_Safe
<1> HIDE DEF one
<1>5. Safe(two)
  BY <1>4, Fields_Safe
<1> HIDE DEF two
<1>6. Safe(scored)
  BY <1>1, <1>5, Fields_Safe
<1> HIDE DEF scored
<1> QED BY <1>3, <1>6, Escalate_Safe

LEMMA TopicChanged_Safe ==
  ASSUME NEW w, Safe(w)
  PROVE  Safe(TopicChanged(w))
<1>1. w.chan \in ChannelRecords
  BY Typed
<1>2. w.chan.topic \in Names
  BY <1>1 DEF ChannelRecords
<1>3. Safe([w EXCEPT !.bot.topic = w.chan.topic])
  BY <1>2, Fields_Safe
<1> QED BY <1>3, If_Safe DEF TopicChanged

LEMMA AskHarmless_Safe ==
  ASSUME NEW w, Safe(w), NEW cmd \in Harmless, NEW x \in Names
  PROVE  Safe(Ask(w, cmd, x))
BY Ask_Safe, Harmless_Commands

LEMMA RestoreTopic_Safe ==
  ASSUME NEW w, Safe(w)
  PROVE  Safe(RestoreTopic(w))
<1>1. w.bot \in Bots(config)
  BY Typed
<1>2. w.bot.topic \in Names
  BY <1>1 DEF Bots
<1>3. Safe(Ask(w, "TOPIC", w.bot.topic))
  BY <1>2, AskHarmless_Safe DEF Harmless
<1> QED BY <1>3, If_Safe DEF RestoreTopic

LEMMA JoinNow_Safe ==
  ASSUME NEW w, Safe(w)
  PROVE  Safe(JoinNow(w))
<1>1. Safe(Ask(w, "JOIN", "-"))
  BY AskHarmless_Safe, Named DEF Harmless
<1> QED BY <1>1, Refused_Safe DEF JoinNow

(* getOrCreateState: the reset is called off, so the bot may wait.           *)
LEMMA Recoverable_Safe ==
  ASSUME NEW w, Safe(w)
  PROVE  Safe(Recoverable(w)) /\ T("reset", den) \notin Recoverable(w).timers
<1> DEFINE s == w.timers \ {T("reset", den)}
           b == [w.bot EXCEPT !.recovery = IF @ = "none" THEN "ready" ELSE @]
           one == [w EXCEPT !.timers = s]
           v == [one EXCEPT !.bot = b]
<1>1. w.bot \in Bots(config) /\ w.timers \in SUBSET Callbacks(config) /\ w \in Worlds(config)
  BY Typed
<1>2. b \in Bots(config) /\ b.cycling = w.bot.cycling /\ b.recovery # "none"
  BY <1>1 DEF Bots
<1>3. /\ s \in SUBSET Callbacks(config) /\ T("reset", den) \notin s
      /\ T("cyclePart", den) \in s <=> T("cyclePart", den) \in w.timers
      /\ T("cycleJoin", den) \in s <=> T("cycleJoin", den) \in w.timers
  BY <1>1 DEF T
<1>4. Recoverable(w) = v
  BY <1>1 DEF Recoverable, Worlds
<1> HIDE DEF s, b
<1>5. one \in Worlds(config) /\ one.chan = w.chan /\ one.timers = s
  BY <1>1, <1>3 DEF Worlds
<1> HIDE DEF one
<1>6. v \in Worlds(config) /\ v.chan = w.chan /\ v.timers = s /\ v.bot = b
  BY <1>2, <1>5 DEF Worlds
<1> HIDE DEF v
<1>7. OpsIn(v) /\ CycleIn(v) /\ WaitIn(v)
  BY <1>2, <1>3, <1>6 DEF Safe, Sound, OpsIn, CycleIn, WaitIn
<1> QED BY <1>3, <1>4, <1>6, <1>7 DEF Safe, Sound

LEMMA Attempt_Safe ==
  ASSUME NEW r, Safe(r), T("reset", den) \notin r.timers, NEW requested, Safe(requested)
  PROVE  Safe(Attempt(r, requested))
<1>1. CASE r.bot.recovery = "cooling"
  <2> DEFINE v == [r EXCEPT !.refused = "cooldown"]
  <2>1. v \in Worlds(config) /\ v.chan = r.chan /\ v.bot = r.bot /\ v.timers = r.timers
    BY DEF Safe, Sound, Worlds
  <2> HIDE DEF v
  <2>2. OpsIn(v) /\ CycleIn(v) /\ WaitIn(v)
    BY <1>1, <2>1 DEF Safe, Sound, OpsIn, CycleIn, WaitIn
  <2>3. Safe(v)
    BY <2>1, <2>2 DEF Safe, Sound
  <2> QED BY <1>1, <2>3 DEF Attempt, v
<1>2. CASE r.bot.recovery # "cooling"
  <2>1. Safe([requested EXCEPT !.bot.recovery = "cooling"])
    BY Cooling_Safe
  <2>2. T("join", den) \in Callbacks(config) /\ "join" \in OtherTimers
    BY Free_Callbacks, Named DEF OtherTimers
  <2> QED BY <1>2, <2>1, <2>2, Later_Safe DEF Attempt
<1> QED BY <1>1, <1>2

LEMMA Recover_Safe ==
  ASSUME NEW w, Safe(w), NEW error \in {"b", "i", "l", "k"}
  PROVE  Safe(Recover(w, error))
<1> DEFINE r == Recoverable(w)
<1>1. Safe(r) /\ T("reset", den) \notin r.timers
  BY Recoverable_Safe
<1>2. Safe([w EXCEPT !.refused = "access"])
  BY Refused_Safe
<1>3. Safe(Request(r, "INVITE")) /\ Safe(Request(r, "UNBAN")) /\ Safe(Request(r, "KEY"))
  BY <1>1, Request_Safe DEF What
<1>4. Safe(Request(Request(r, "UNBAN"), "INVITE")) /\ Safe(Request(Request(r, "KEY"), "INVITE"))
  BY <1>3, Request_Safe DEF What
<1>5. Safe(Request(Request(Request(r, "UNBAN"), "INVITE"), "KEY"))
  BY <1>4, Request_Safe DEF What
<1>6. Safe(HandleBanned(w))
  BY <1>1, <1>2, <1>5, Attempt_Safe DEF HandleBanned
<1>7. Safe(HandleInviteOnly(w)) /\ Safe(HandleFull(w))
  BY <1>1, <1>2, <1>3, Attempt_Safe DEF HandleInviteOnly, HandleFull
<1>8. Safe(HandleBadKey(w))
  BY <1>1, <1>2, <1>4, Attempt_Safe DEF HandleBadKey
<1> QED BY <1>6, <1>7, <1>8 DEF Recover

LEMMA JoinError_Safe ==
  ASSUME NEW w, Safe(w), NEW error \in {"b", "i", "l", "k"}
  PROVE  Safe(JoinError(w, error))
<1>1. Safe([w EXCEPT !.bot.probed = TRUE])
  BY Fields_Safe
<1>2. Safe(Probe([w EXCEPT !.bot.probed = TRUE]))
  BY <1>1, Probe_Safe
<1>3. T("probeWait", error) \in Callbacks(config) /\ "probeWait" \in OtherTimers
  BY Probe_Callback DEF OtherTimers
<1>4. Safe(Later(Probe([w EXCEPT !.bot.probed = TRUE]), "probeWait", error))
  BY <1>2, <1>3, Later_Safe
<1> QED BY <1>4, Recover_Safe DEF JoinError

LEMMA Reset_Safe ==
  ASSUME NEW w, Safe(w), w.refused = "no"
  PROVE  Safe(Later(w, "reset", den))
<1> DEFINE s == w.timers \cup {T("reset", den)}
           v == [w EXCEPT !.timers = s]
<1>1. w.timers \in SUBSET Callbacks(config) /\ T("reset", den) \in Callbacks(config)
  BY Typed, Named DEF Callbacks, OtherTimers, CycleTimers, T
<1>2. /\ T("cyclePart", den) \in s <=> T("cyclePart", den) \in w.timers
      /\ T("cycleJoin", den) \in s <=> T("cycleJoin", den) \in w.timers
  BY DEF T
<1>3. v \in Worlds(config) /\ v.chan = w.chan /\ v.bot = w.bot /\ v.timers = s /\ v.refused = "no"
  BY <1>1 DEF Safe, Sound, Worlds
<1> HIDE DEF v, s
<1>4. OpsIn(v) /\ CycleIn(v) /\ WaitIn(v)
  BY <1>2, <1>3 DEF Safe, Sound, OpsIn, CycleIn, WaitIn
<1> QED BY <1>3, <1>4 DEF Safe, Sound, Later, v, s

LEMMA LaterFree_Safe ==
  ASSUME NEW w, Safe(w), NEW t \in OtherTimers \ {"deop", "probeWait"}, NEW x \in Names
  PROVE  Safe(Later(w, t, x))
BY Later_Safe, Free_Callbacks

LEMMA Entered_Safe ==
  ASSUME NEW w, Safe(w)
  PROVE  Safe(Entered(w))
<1> DEFINE c == [w.chan EXCEPT !.in = TRUE]
           d == [c EXCEPT !.invited = FALSE]
           one == [w EXCEPT !.chan = d]
           two == [one EXCEPT !.bot.known = TRUE]
           in == [two EXCEPT !.refused = "no"]
           Scheduled(v) == If(config.enforce, Later(v, "sync", den), v)
           Heard(v) == Probe(SyncAccess(Scheduled(v)))
           Known(v) == [Heard(v) EXCEPT !.bot.probed = FALSE]
           After(v) == IF Known(v).bot.recovery = "none" THEN Known(v) ELSE Later(Known(v), "reset", den)
<1>1. [w EXCEPT !.chan.in = TRUE, !.chan.invited = FALSE, !.bot.known = TRUE, !.refused = "no"] = in
  BY Typed DEF Worlds
<1>2. Entered(w) = After(in)
  <2>1. Entered(w) = After([w EXCEPT !.chan.in = TRUE, !.chan.invited = FALSE, !.bot.known = TRUE, !.refused = "no"])
    BY DEF Entered
  <2> HIDE DEF After, in
  <2> QED BY <1>1, <2>1
<1>3. d \in ChannelRecords /\ d.in = TRUE /\ d.users = w.chan.users /\ d.ops = w.chan.ops
  <2>1. w.chan \in ChannelRecords
    BY Typed
  <2>2. c \in ChannelRecords /\ c.in = TRUE /\ c.users = w.chan.users /\ c.ops = w.chan.ops
    BY <2>1 DEF ChannelRecords
  <2> HIDE DEF c
  <2> QED BY <2>2 DEF ChannelRecords
<1> HIDE DEF d
<1>4. Safe(one)
  <2>1. one.chan = d
    BY Typed DEF Worlds
  <2>2. OpsIn(one)
    BY <1>3, <2>1 DEF Safe, Sound, OpsIn
  <2> QED BY <1>3, <2>2, Chan_Safe
<1> HIDE DEF one
<1>5. Safe(two)
  BY <1>4, Fields_Safe
<1> HIDE DEF two
<1>6. Safe(in) /\ in.refused = "no"
  <2>1. two \in Worlds(config)
    BY <1>5, Typed
  <2>2. in.refused = "no"
    BY <2>1 DEF Worlds
  <2> QED BY <1>5, <2>2, Refused_Safe
<1> HIDE DEF in
<1> DEFINE scheduled == Scheduled(in)
           read == SyncAccess(scheduled)
           heard == Probe(read)
           known == [heard EXCEPT !.bot.probed = FALSE]
<1>7. After(in) = IF known.bot.recovery = "none" THEN known ELSE Later(known, "reset", den)
  OBVIOUS
<1> HIDE DEF After
<1>8. Safe(scheduled) /\ scheduled.refused = "no"
  <2>1. T("sync", den) \in Callbacks(config) /\ "sync" \in OtherTimers
    BY Free_Callbacks, Named DEF OtherTimers
  <2>2. Safe(Later(in, "sync", den)) /\ Later(in, "sync", den).refused = "no"
    BY <1>6, <2>1, Later_Safe
  <2> QED BY <1>6, <2>2 DEF If
<1> HIDE DEF scheduled
<1>9. Safe(read) /\ read.refused = "no"
  <2> DEFINE v == [scheduled EXCEPT !.bot.acc = ReadSetting(@, den)]
  <2>1. Safe(v)
    BY <1>8, Typed, ReadSetting_Access, Fields_Safe
  <2>2. scheduled \in Worlds(config)
    BY <1>8, Typed
  <2>3. v.refused = "no"
    BY <1>8, <2>2 DEF Worlds
  <2>4. read = v
    BY DEF SyncAccess
  <2> HIDE DEF v
  <2> QED BY <2>1, <2>3, <2>4
<1> HIDE DEF read
<1>10. Safe(heard) /\ heard.refused = "no"
  BY <1>9, Probe_Safe
<1> HIDE DEF heard
<1>11. Safe(known) /\ known.refused = "no"
  <2>1. Safe(known)
    BY <1>10, Fields_Safe
  <2>2. heard \in Worlds(config)
    BY <1>10, Typed
  <2>3. known.refused = "no"
    BY <1>10, <2>2 DEF Worlds
  <2> QED BY <2>1, <2>3
<1> HIDE DEF known
<1> QED BY <1>2, <1>7, <1>11, Reset_Safe

LEMMA Kicked_Safe ==
  ASSUME NEW w, Safe(w), NEW by \in Names
  PROVE  Safe(Kicked(w, by))
<1> DEFINE scored == Assess(w, 4, by)
           seen == [scored EXCEPT !.bot.locked = {"i", "k"} \cap w.chan.modes # {}]
           u == [Request(seen, "UNBAN") EXCEPT !.bot.unbanned = TRUE]
           helped == IF ~Can(seen, "UNBAN") THEN seen ELSE If(seen.bot.locked, Request(u, "INVITE"), u)
           counted == [helped EXCEPT !.bot.rejoins = Tallied(@)]
<1>1. Safe(scored)
  BY Assess_Safe
<1> HIDE DEF scored
<1>2. Safe(seen)
  BY <1>1, Fields_Safe
<1>3. Kicked(w, by) = IF helped.bot.rejoins.open /\ helped.bot.rejoins.n >= MaxRejoins
                      THEN [helped EXCEPT !.refused = "suppressed"] ELSE Later(counted, "rejoin", by)
  BY DEF Kicked, scored
<1> HIDE DEF seen
<1>4. Safe(Request(seen, "UNBAN"))
  BY <1>2, Request_Safe DEF What
<1>5. Safe(u)
  BY <1>4, Fields_Safe
<1> HIDE DEF u
<1>6. Safe(helped)
  BY <1>2, <1>5, Request_Safe, If_Safe DEF What
<1> HIDE DEF helped
<1>7. Safe(counted)
  <2>1. helped.bot \in Bots(config)
    BY <1>6, Typed
  <2>2. helped.bot.rejoins \in Window
    BY <2>1 DEF Bots
  <2> QED BY <1>6, <2>2, Tallies, Fields_Safe
<1> HIDE DEF counted
<1>8. Safe(Later(counted, "rejoin", by))
  BY <1>7, LaterFree_Safe DEF OtherTimers
<1> QED BY <1>3, <1>6, <1>8, Refused_Safe

LEMMA Rejoin_Safe ==
  ASSUME NEW w, Safe(w), NEW by \in Names
  PROVE  Safe(Rejoin(w, by))
<1> DEFINE back == [JoinNow(w) EXCEPT !.bot.unbanned = FALSE]
           op == Request(back, "OP")
<1>1. Safe(back)
  BY JoinNow_Safe, Fields_Safe
<1> HIDE DEF back
<1>2. Safe(op)
  BY <1>1, Request_Safe DEF What
<1>3. Safe(Later(op, "revenge", by))
  BY <1>2, LaterFree_Safe DEF OtherTimers
<1> QED BY <1>2, <1>3, If_Safe DEF Rejoin, back

LEMMA Intended_Safe ==
  ASSUME NEW w, Safe(w), NEW u \in Users
  PROVE  Safe(Intended(w, u)) /\ Intended(w, u).chan = w.chan
<1>1. w.bot \in Bots(config)
  BY Typed
<1>2. w.bot.intent \cup {u} \in SUBSET Users
  BY <1>1 DEF Bots
<1>3. Intended(w, u).chan = w.chan
  BY Typed DEF Worlds, Intended
<1> QED BY <1>2, <1>3, Fields_Safe DEF Intended

(* A command against one who is no master, marked as the bot's own deed.     *)
LEMMA AskHarm_Safe ==
  ASSUME NEW w, Safe(w), NEW cmd \in Harmful, NEW u \in Users,
         \/ ~Master(u)
         \/ cmd = "KICK" /\ config.bans
         \/ cmd = "DEOP-" /\ config.nethack = 2
  PROVE  Safe(Ask(w, cmd, u)) /\ Safe(Ask(Intended(w, u), cmd, u))
BY Intended_Safe, Ask_Safe, Harmful_Commands, Named

LEMMA Present ==
  ASSUME NEW w, Safe(w)
  PROVE  w.chan.users \subseteq Users /\ w.chan.ops \subseteq Users \cup {"bot"}
<1>1. w.chan \in ChannelRecords
  BY Typed
<1> QED BY <1>1 DEF ChannelRecords

LEMMA Revenge_Safe ==
  ASSUME NEW w, Safe(w), NEW u
  PROVE  Safe(Revenge(w, u))
BY AskHarm_Safe, Present DEF Revenge, Harmful

----------------------------------------------------------------------------
(* The handlers of a mode change: by the server only ops are given, and only *)
(* to a user.                                                              *)
Events ==
  {e \in [by : {"foe", "bot", "chanserv", "server"}, sign : {"+", "-"}, mode : Names, who : Users \cup {"bot", "-"}] :
     /\ e.mode = "o" => e.who # "-"
     /\ e.by = "server" => e.sign = "+"}

LEMMA Event ==
  ASSUME NEW e \in Events
  PROVE  /\ e.by \in Names /\ e.mode \in Names /\ e.who \in Names
         /\ e.mode = "o" /\ e.who # "bot" => e.who \in Users
         /\ e.sign = "-" /\ e.by \notin {"bot", "chanserv"} => e.by = "foe"
<1>1. e.by \in {"foe", "bot", "chanserv", "server"} /\ e.mode \in Names /\ e.who \in Users \cup {"bot", "-"}
      /\ (e.mode = "o" => e.who # "-") /\ (e.by = "server" => e.sign = "+") /\ "+" # "-"
  BY DEF Events
<1> QED BY <1>1, Named DEF Users

LEMMA Lockdown_Safe ==
  ASSUME NEW w, Safe(w), NEW e \in Events
  PROVE  Safe(Lockdown(w, e))
BY Event, Assess_Safe, If_Safe DEF Lockdown

LEMMA Reapply_Safe ==
  ASSUME NEW w, Safe(w), NEW e \in Events
  PROVE  Safe(Reapply(w, e))
<1>1. Safe(Later(w, "mode+", e.mode))
  BY Event, LaterFree_Safe DEF OtherTimers
<1> QED BY <1>1, If_Safe DEF Reapply

LEMMA Strip_Safe ==
  ASSUME NEW w, Safe(w), NEW e \in Events
  PROVE  Safe(StripMode(w, e)) /\ Safe(StripKey(w, e)) /\ Safe(StripLimit(w, e))
<1>1. Safe(Later(w, "mode-", e.mode)) /\ Safe(Later(w, "mode-", "k")) /\ Safe(Later(w, "mode-", "l"))
  BY Event, Named, LaterFree_Safe DEF OtherTimers
<1> QED BY <1>1, If_Safe DEF StripMode, StripKey, StripLimit

LEMMA Sync_Safe ==
  ASSUME NEW w, Safe(w)
  PROVE  Safe(Sync(w))
<1> DEFINE missing == Wanted \ w.chan.modes
           extra == w.chan.modes \cap (Unwanted \cup {"k", "l"})
<1>1. missing \in SUBSET Names /\ extra \in SUBSET Names
  BY Named DEF Wanted, Unwanted
<1>2. Safe(SetModes(w, "MODE+", missing))
  BY <1>1, Modes_Safe
<1>3. Safe(SetModes(SetModes(w, "MODE+", missing), "MODE-", extra))
  BY <1>1, <1>2, Modes_Safe
<1> QED BY <1>3 DEF Sync

(* cycleScheduled is set together with the timer.                           *)
LEMMA Cycle_Safe ==
  ASSUME NEW w, Safe(w)
  PROVE  Safe(Cycle(w))
<1> DEFINE counted == [w EXCEPT !.bot.cycles = Tallied(@)]
           b == [counted.bot EXCEPT !.cycling = TRUE]
           s == counted.timers \cup {T("cyclePart", den)}
           cycling == [counted EXCEPT !.bot = b]
           v == [cycling EXCEPT !.timers = s]
<1>1. w.bot \in Bots(config) /\ w \in Worlds(config)
  BY Typed
<1>2. w.bot.cycles \in Window
  BY <1>1 DEF Bots
<1>3. Safe(counted) /\ counted.bot.cycling = w.bot.cycling
  <2>1. Safe(counted)
    BY <1>2, Tallies, Fields_Safe
  <2>2. counted.bot = [w.bot EXCEPT !.cycles = Tallied(@)]
    BY <1>1 DEF Worlds
  <2>3. [w.bot EXCEPT !.cycles = Tallied(@)].cycling = w.bot.cycling
    BY <1>1 DEF Bots
  <2> HIDE DEF counted
  <2> QED BY <2>1, <2>2, <2>3
<1>4. Cycle(w) \in {w, counted} \/ (~w.bot.cycling /\ Cycle(w) = v)
  <2>1. [w EXCEPT !.bot.cycles = Tallied(@), !.bot.cycling = TRUE].timers = counted.timers
    BY <1>1 DEF Worlds
  <2>2. [w EXCEPT !.bot.cycles = Tallied(@), !.bot.cycling = TRUE] = cycling
    OBVIOUS
  <2>3. cycling.timers = counted.timers
    BY <2>1, <2>2
  <2>4. Later(cycling, "cyclePart", den) = v
    BY <2>3 DEF Later
  <2> HIDE DEF v
  <2> QED BY <2>2, <2>4 DEF Cycle
<1> HIDE DEF counted
<1>5. ASSUME ~w.bot.cycling PROVE Safe(v)
  <2>1. counted.bot \in Bots(config) /\ counted.timers \in SUBSET Callbacks(config) /\ counted \in Worlds(config)
    BY <1>3, Typed
  <2>2. b \in Bots(config) /\ b.cycling = TRUE /\ b.recovery = counted.bot.recovery
    BY <2>1 DEF Bots
  <2>3. T("cyclePart", den) \in Callbacks(config)
    BY Named DEF Callbacks, CycleTimers, OtherTimers, T
  <2>4. /\ s \in SUBSET Callbacks(config) /\ T("cyclePart", den) \in s
        /\ T("cycleJoin", den) \in s <=> T("cycleJoin", den) \in counted.timers
        /\ T("reset", den) \in s <=> T("reset", den) \in counted.timers
    BY <2>1, <2>3 DEF T
  <2> HIDE DEF b, s
  <2>5. cycling \in Worlds(config) /\ cycling.chan = counted.chan /\ cycling.bot = b /\ cycling.refused = counted.refused
    BY <2>1, <2>2 DEF Worlds
  <2> HIDE DEF cycling
  <2>6. v \in Worlds(config) /\ v.chan = counted.chan /\ v.bot = b /\ v.timers = s /\ v.refused = counted.refused
    BY <2>4, <2>5 DEF Worlds
  <2> HIDE DEF v
  <2>7. ~counted.bot.cycling
    BY <1>3, <1>5
  <2>8. OpsIn(v) /\ CycleIn(v) /\ WaitIn(v)
    BY <1>3, <2>2, <2>4, <2>6, <2>7 DEF Safe, Sound, OpsIn, CycleIn, WaitIn
  <2> QED BY <1>3, <2>6, <2>8 DEF Safe, Sound
<1> HIDE DEF v
<1> QED BY <1>3, <1>4, <1>5

LEMMA BotDeopped_Safe ==
  ASSUME NEW w, Safe(w), NEW e \in Events
  PROVE  Safe(BotDeopped(w, e))
<1> DEFINE scored == If(Services(e), w, Assess(w, 3, e.by))
           helped == If(Can(scored, "OP"), Later(scored, "reop", den), scored)
<1>1. Safe(scored)
  BY Event, Assess_Safe, If_Safe
<1> HIDE DEF scored
<1>2. Safe(Later(scored, "reop", den))
  BY <1>1, Named, LaterFree_Safe DEF OtherTimers
<1>3. Safe(helped)
  BY <1>1, <1>2, If_Safe
<1> QED BY <1>3, Cycle_Safe DEF BotDeopped, scored

LEMMA BotOpped_Safe ==
  ASSUME NEW w, Safe(w)
  PROVE  Safe(BotOpped(w))
<1> DEFINE clean == IF w.bot.cleanup THEN Later([w EXCEPT !.bot.cleanup = FALSE], "unlock", den) ELSE w
           known == [clean EXCEPT !.bot.locked = FALSE]
           t == IF ThreatLevel(w) >= 2 THEN "strikeBack" ELSE "regained"
<1>1. Safe([w EXCEPT !.bot.cleanup = FALSE])
  BY Fields_Safe
<1>2. Safe(clean)
  BY <1>1, Named, LaterFree_Safe DEF OtherTimers
<1>3. BotOpped(w) = If(ThreatLevel(w) >= 1, Later(known, t, den), known)
  BY DEF BotOpped
<1> HIDE DEF clean
<1>4. Safe(known)
  BY <1>2, Fields_Safe
<1> HIDE DEF known
<1>5. Safe(Later(known, t, den))
  BY <1>4, Named, LaterFree_Safe DEF OtherTimers
<1> QED BY <1>3, <1>4, <1>5, If_Safe

LEMMA Bitch_Safe ==
  ASSUME NEW w, Safe(w), NEW e \in Events, e.mode = "o", e.who # "bot"
  PROVE  Safe(Bitch(w, e))
<1>1. ASSUME ~Master(e.who)
      PROVE  Safe(Assess(Later(Intended(w, e.who), "deop", e.who), 2, e.by))
  <2>1. Safe(Intended(w, e.who))
    BY Event, Intended_Safe
  <2>2. T("deop", e.who) \in Callbacks(config) /\ "deop" \in OtherTimers
    BY <1>1, Event, Deop_Callback DEF OtherTimers
  <2>3. Safe(Later(Intended(w, e.who), "deop", e.who))
    BY <2>1, <2>2, Later_Safe
  <2> QED BY <2>3, Event, Assess_Safe
<1> QED BY <1>1 DEF Bitch

LEMMA Bans_Safe ==
  ASSUME NEW w, Safe(w), NEW e \in Events
  PROVE  Safe(BotBanned(w, e)) /\ Safe(EnforceBans(w, e))
<1>1. Safe(Request(Assess(w, 5, e.by), "UNBAN"))
  BY Event, Assess_Safe, Request_Safe DEF What
<1>2. config.bans /\ e.who \in w.chan.users => Safe(Ask(Intended(w, e.who), "KICK", e.who))
  BY Present, AskHarm_Safe DEF Harmful
<1> QED BY <1>1, <1>2 DEF BotBanned, EnforceBans, If

LEMMA Punish_Safe ==
  ASSUME NEW w, Safe(w), NEW u \in Users, ~Master(u)
  PROVE  Safe(Punish(w, u))
<1> DEFINE v == [w EXCEPT !.bot.punish = Tallied(@)]
<1>1. w.bot \in Bots(config)
  BY Typed
<1>2. w.bot.punish \in Window
  BY <1>1 DEF Bots
<1>3. Safe(v)
  BY <1>2, Tallies, Fields_Safe
<1>4. Punish(w, u) \in {w, Ask(Intended(v, u), "KICK", u)}
  BY DEF Punish
<1> HIDE DEF v
<1>5. Safe(Ask(Intended(v, u), "KICK", u))
  BY <1>3, AskHarm_Safe DEF Harmful
<1> QED BY <1>4, <1>5

LEMMA UserDeopped_Safe ==
  ASSUME NEW w, Safe(w), NEW e \in Events, e.sign = "-", e.mode = "o", e.who # "bot"
  PROVE  Safe(UserDeopped(w, e))
<1> DEFINE forgotten == [w EXCEPT !.bot.intent = @ \ {e.who}]
           counted == [w EXCEPT !.bot.cool = Tallied(@)]
           reop == If(config.enforce, Later(counted, "op", e.who), counted)
           scored == If(Services(e), reop, Assess(reop, 2, e.by))
           struck == If(config.protect /\ ~Services(e) /\ ~Master(e.by), Punish(scored, e.by), scored)
<1>1. w.bot \in Bots(config)
  BY Typed
<1>2. w.bot.cool \in Window /\ w.bot.intent \in SUBSET Users
  BY <1>1 DEF Bots
<1>3. Safe(forgotten) /\ Safe(counted)
  BY <1>2, Tallies, Fields_Safe
<1>4. Safe(Assess(w, 2, e.by))
  BY Event, Assess_Safe
<1>5. e.by = "bot" \/ UserDeopped(w, e) \in {w, forgotten, counted, struck, Assess(w, 2, e.by)}
  BY DEF UserDeopped
<1>6. e.by = "bot" => UserDeopped(w, e) = w
  BY DEF UserDeopped
<1> HIDE DEF forgotten, counted
<1>7. Safe(Later(counted, "op", e.who))
  BY <1>3, Event, LaterFree_Safe DEF OtherTimers
<1>8. Safe(reop)
  BY <1>3, <1>7, If_Safe
<1> HIDE DEF reop
<1>9. Safe(scored)
  BY <1>8, Event, Assess_Safe, If_Safe
<1> HIDE DEF scored
<1>10. e.by # "bot" => Safe(struck)
  <2>1. e.by # "bot" /\ ~Services(e) => e.by \in Users
    BY Event DEF Services, Users
  <2> QED BY <1>9, <2>1, Punish_Safe DEF If
<1> HIDE DEF struck
<1> QED BY <1>3, <1>4, <1>5, <1>6, <1>10

(* Only the snapshot of a netsplit, which takes the option, lets the bot go  *)
(* against a master.                                                       *)
LEMMA Nethack_Safe ==
  ASSUME NEW w, Safe(w), NEW e \in Events
  PROVE  Safe(Nethack(w, e))
<1>1. w.bot.split => config.nethack \in {1, 2}
  <2>1. w.bot \in Bots(config) /\ config \in Configurations
    BY Typed
  <2>2. w.bot.split \in IF config.nethack > 0 THEN BOOLEAN ELSE {FALSE}
    BY <2>1 DEF Bots
  <2>3. config.nethack \in 0 .. 2
    BY <2>1 DEF Configurations
  <2>4. CASE config.nethack > 0
    BY <2>3, <2>4
  <2>5. CASE ~(config.nethack > 0)
    <3>1. w.bot.split = FALSE
      BY <2>2, <2>5, Zenon
    <3> QED BY <3>1
  <2> QED BY <2>4, <2>5
<1>2. ASSUME e.mode = "o", e.who # "bot", w.bot.split,
             ~(IF config.nethack = 1 THEN Master(e.who) ELSE e.who \in w.bot.before)
      PROVE  Safe(Later(Intended(w, e.who), "deop", e.who))
  <2>1. Safe(Intended(w, e.who))
    BY <1>2, Event, Intended_Safe
  <2>2. T("deop", e.who) \in Callbacks(config) /\ "deop" \in OtherTimers
    BY <1>1, <1>2, Event, Deop_Callback DEF OtherTimers
  <2> QED BY <2>1, <2>2, Later_Safe
<1> QED BY <1>2 DEF Nethack, If

LEMMA OnMode_Safe ==
  ASSUME NEW w, Safe(w), NEW e \in Events
  PROVE  Safe(OnMode(w, e))
<1> DEFINE kept == StripLimit(StripKey(StripMode(Reapply(Lockdown(w, e), e), e), e), e)
           handled ==
             IF e.mode = "o" /\ e.who = "bot"
             THEN IF e.sign = "-" THEN BotDeopped(kept, e) ELSE BotOpped(kept)
             ELSE IF e.mode = "o" /\ e.sign = "+" THEN If(config.bitch, Bitch(kept, e), kept)
             ELSE IF e.mode = "o" THEN UserDeopped(kept, e)
             ELSE EnforceBans(BotBanned(kept, e), e)
<1>1. Safe(Reapply(Lockdown(w, e), e))
  BY Lockdown_Safe, Reapply_Safe
<1>2. Safe(StripKey(StripMode(Reapply(Lockdown(w, e), e), e), e))
  BY <1>1, Strip_Safe
<1>3. Safe(kept)
  BY <1>2, Strip_Safe
<1>4. OnMode(w, e) = Nethack(handled, e)
  BY DEF OnMode
<1> HIDE DEF kept
<1>5. e.sign \in {"+", "-"}
  BY DEF Events
<1>6. Safe(EnforceBans(BotBanned(kept, e), e))
  BY <1>3, Bans_Safe
<1>7. e.mode = "o" /\ e.who # "bot" => Safe(If(config.bitch, Bitch(kept, e), kept))
  BY <1>3, Bitch_Safe DEF If
<1>8. e.mode = "o" /\ e.who # "bot" /\ e.sign = "-" => Safe(UserDeopped(kept, e))
  BY <1>3, UserDeopped_Safe
<1>9. Safe(handled)
  BY <1>3, <1>5, <1>6, <1>7, <1>8, BotDeopped_Safe, BotOpped_Safe
<1> HIDE DEF handled
<1> QED BY <1>4, <1>9, Nethack_Safe

(* Regained ops, joins of users, what the bot is told, and the timers.      *)
LEMMA Flagged_Safe ==
  ASSUME NEW w, Safe(w), NEW u \in Names
  PROVE  Safe(Flagged(w, u))
BY AskHarmless_Safe, If_Safe DEF Flagged, Harmless

LEMMA AutoOp_Safe ==
  ASSUME NEW w, Safe(w), NEW u \in Names
  PROVE  Safe(AutoOp(w, u))
<1>1. Safe(Later(w, "verify", u))
  BY LaterFree_Safe DEF OtherTimers
<1> QED BY <1>1, Flagged_Safe, If_Safe DEF AutoOp

LEMMA MassReop_Safe ==
  ASSUME NEW w, Safe(w)
  PROVE  Safe(MassReop(w))
<1> DEFINE up == {u \in w.chan.users \ w.chan.ops : Master(u)}
           down == {u \in w.chan.users \cap w.chan.ops : config.bitch /\ ~Master(u)}
           x == CHOOSE u \in up : TRUE
           y == CHOOSE u \in down : TRUE
           upped == If(up # {}, Ask(w, "OP+", x), w)
<1>1. up # {} => x \in Users
  BY Present
<1>2. down # {} => y \in Users /\ ~Master(y)
  BY Present
<1>3. MassReop(w) = If(down # {}, Ask(upped, "DEOP-", y), upped)
  BY DEF MassReop
<1> HIDE DEF up, down, x, y
<1>4. Safe(upped)
  BY <1>1, Named, AskHarmless_Safe DEF If, Harmless
<1> HIDE DEF upped
<1> QED BY <1>2, <1>3, <1>4, AskHarm_Safe DEF If, Harmful

LEMMA Hostile_Safe ==
  ASSUME NEW w, Safe(w)
  PROVE  Safe(Hostile(w))
<1> DEFINE targets == {u \in w.bot.actors \cap w.chan.users : ~Master(u)}
           u == CHOOSE x \in targets : TRUE
<1>1. CASE targets = {}
  BY <1>1 DEF Hostile
<1>2. CASE targets # {}
  <2>1. u \in Users /\ ~Master(u)
    BY <1>2, Present
  <2>2. config.punish \in {"none", "deop", "akick"}
    BY Typed DEF Configurations
  <2>3. Hostile(w) = CASE config.punish = "none" -> w
                 [] config.punish = "deop" ->
                      IF HasOps(w) THEN Ask(Intended(w, u), "DEOP-", u) ELSE RequestFor(w, "DEOP", u)
                 [] config.punish = "akick" ->
                      IF Can(w, "AKICK") THEN RequestFor(w, "AKICK", u)
                      ELSE Ask(Intended(w, u), "KICK", u)
    BY <1>2 DEF Hostile
  <2> HIDE DEF u
  <2>4. Safe(Ask(Intended(w, u), "DEOP-", u)) /\ Safe(Ask(Intended(w, u), "KICK", u))
    BY <2>1, AskHarm_Safe DEF Harmful
  <2>5. Safe(RequestFor(w, "DEOP", u)) /\ Safe(RequestFor(w, "AKICK", u))
    BY <2>1, Named, RequestFor_Safe DEF What
  <2>6. CASE config.punish = "none"
    BY <2>3, <2>6
  <2>7. CASE config.punish = "deop"
    BY <2>3, <2>4, <2>5, <2>7
  <2>8. CASE config.punish = "akick"
    BY <2>3, <2>4, <2>5, <2>8
  <2> QED BY <2>2, <2>6, <2>7, <2>8
<1> QED BY <1>1, <1>2

LEMMA Orders_Safe ==
  ASSUME NEW w, Safe(w), NEW u \in Users
  PROVE  /\ Safe(OrderOp(w, u))
         /\ ~Master(u) => Safe(OrderDeop(w, u)) /\ Safe(OrderKick(w, u))
<1>1. Safe(Ask(w, "OP+", u))
  BY Named, AskHarmless_Safe DEF Harmless
<1>2. ~Master(u) => Safe(Ask(Intended(w, u), "DEOP-", u)) /\ Safe(Ask(w, "KICK", u))
  BY AskHarm_Safe DEF Harmful
<1> QED BY <1>1, <1>2 DEF OrderOp, OrderDeop, OrderKick, If

LEMMA Invited_Safe ==
  ASSUME NEW w, Safe(w), NEW by
  PROVE  Safe(InvitedBy(w, by))
<1> DEFINE c == [w.chan EXCEPT !.invited = TRUE]
           v == [w EXCEPT !.chan = c]
<1>1. w.chan \in ChannelRecords /\ w \in Worlds(config)
  BY Typed
<1>2. c \in ChannelRecords /\ c.users = w.chan.users /\ c.ops = w.chan.ops /\ c.in = w.chan.in
  BY <1>1 DEF ChannelRecords
<1> HIDE DEF c
<1>3. v.chan = c
  BY <1>1 DEF Worlds
<1>4. OpsIn(v)
  BY <1>2, <1>3 DEF Safe, Sound, OpsIn
<1>5. Safe(v)
  BY <1>2, <1>4, Chan_Safe
<1>6. InvitedBy(w, by) = InvitePlugin(InviteCore(v), by)
  BY DEF InvitedBy, c
<1> HIDE DEF v
<1>7. Safe(InviteCore(v))
  BY <1>5, JoinNow_Safe DEF InviteCore
<1> QED BY <1>6, <1>7, JoinNow_Safe, If_Safe DEF InvitePlugin

LEMMA SetAccess_Safe ==
  ASSUME NEW w, Safe(w), NEW tier \in TierSet \cup {"unset"}
  PROVE  Safe(SetAccessSetting(w, tier))
BY Typed, Reset_Access, Fields_Safe DEF SetAccessSetting

LEMMA Removed_Safe ==
  ASSUME NEW w, Safe(w), NEW t \in w.timers, t.t \in OtherTimers
  PROVE  Safe([w EXCEPT !.timers = @ \ {t}])
<1>1. w.timers \ {t} \in SUBSET Callbacks(config)
  BY Typed
<1>2. ASSUME NEW r \in {"cyclePart", "cycleJoin", "reset"} PROVE T(r, den) # t
  BY DEF OtherTimers, T
<1> QED BY <1>1, <1>2, Timers_Safe

(* The two timers of a cycle and the reset are what their marks are about,   *)
(* so that the timer going off is one step with what it does.               *)
LEMMA Marked_Timer ==
  ASSUME NEW w, Safe(w), NEW t \in w.timers
  PROVE  /\ t.t \in CycleTimers \cup OtherTimers \cup {"reset"} /\ t.x \in Names
         /\ t.t \in CycleTimers \cup {"reset"} => t = T(t.t, den)
         /\ t.t = "deop" => (t.x # "friend" \/ config.nethack = 2)
         /\ t.t = "probeWait" => t.x \in {"b", "i", "l", "k"}
<1>1. t \in Callbacks(config)
  BY Typed
<1> QED BY <1>1 DEF Callbacks, T

LEMMA CyclePart_Safe ==
  ASSUME NEW w, Safe(w), T("cyclePart", den) \in w.timers
  PROVE  Safe(Later(Ask([w EXCEPT !.timers = @ \ {T("cyclePart", den)}], "PART", "-"), "cycleJoin", den))
<1> DEFINE s == (w.timers \ {T("cyclePart", den)}) \cup {T("cycleJoin", den)}
           o == Append(w.out, C("PART", "-"))
           one == [w EXCEPT !.timers = @ \ {T("cyclePart", den)}]
           two == [one EXCEPT !.out = o]
           v == [two EXCEPT !.timers = s]
<1>1. w \in Worlds(config) /\ w.timers \in SUBSET Callbacks(config)
  BY Typed
<1>2. o \in Seq(Commands(config))
  BY Typed, Harmless_Commands, Named, AppendProperties DEF Harmless
<1>3. T("cycleJoin", den) \in Callbacks(config)
  BY Named DEF Callbacks, CycleTimers, OtherTimers, T
<1>4. /\ s \in SUBSET Callbacks(config) /\ T("cyclePart", den) \notin s /\ T("cycleJoin", den) \in s
      /\ T("reset", den) \in s <=> T("reset", den) \in w.timers
  BY <1>1, <1>3 DEF T
<1>5. one \in Worlds(config) /\ one.timers = w.timers \ {T("cyclePart", den)} /\ one.out = w.out
      /\ one.chan = w.chan /\ one.bot = w.bot /\ one.refused = w.refused
  BY <1>1 DEF Worlds
<1> HIDE DEF one, o
<1>6. two \in Worlds(config) /\ two.timers = w.timers \ {T("cyclePart", den)}
      /\ two.chan = w.chan /\ two.bot = w.bot /\ two.refused = w.refused
  BY <1>2, <1>5 DEF Worlds
<1>7. Ask(one, "PART", "-") = two
  BY <1>5 DEF Ask, o
<1> HIDE DEF two
<1>8. Later(Ask(one, "PART", "-"), "cycleJoin", den) = v
  BY <1>6, <1>7 DEF Later
<1> HIDE DEF s
<1>9. v \in Worlds(config) /\ v.timers = s /\ v.chan = w.chan /\ v.bot = w.bot /\ v.refused = w.refused
  BY <1>4, <1>6 DEF Worlds
<1> HIDE DEF v
<1>10. OpsIn(v) /\ CycleIn(v) /\ WaitIn(v)
  BY <1>4, <1>9 DEF Safe, Sound, OpsIn, CycleIn, WaitIn
<1> QED BY <1>8, <1>9, <1>10 DEF Safe, Sound, one

LEMMA CycleJoin_Safe ==
  ASSUME NEW w, Safe(w), T("cycleJoin", den) \in w.timers
  PROVE  Safe([JoinNow([w EXCEPT !.timers = @ \ {T("cycleJoin", den)}]) EXCEPT !.bot.cycling = FALSE, !.bot.cycles = Shut])
<1> DEFINE s == w.timers \ {T("cycleJoin", den)}
           o == Append(w.out, C("JOIN", "-"))
           c == [w.bot EXCEPT !.cycling = FALSE]
           b == [c EXCEPT !.cycles = Shut]
           one == [w EXCEPT !.timers = s]
           two == [one EXCEPT !.out = o]
           three == [two EXCEPT !.refused = "no"]
           v == [three EXCEPT !.bot = b]
<1>1. w \in Worlds(config) /\ w.timers \in SUBSET Callbacks(config) /\ w.bot \in Bots(config)
  BY Typed
<1>2. o \in Seq(Commands(config))
  BY Typed, Harmless_Commands, Named, AppendProperties DEF Harmless
<1>3. /\ s \in SUBSET Callbacks(config) /\ T("cycleJoin", den) \notin s
      /\ T("cyclePart", den) \in s <=> T("cyclePart", den) \in w.timers
  BY <1>1 DEF T
<1>4. c \in Bots(config) /\ c.cycling = FALSE
  BY <1>1 DEF Bots
<1>5. b \in Bots(config) /\ b.cycling = FALSE
  <2> HIDE DEF c
  <2> QED BY <1>4, Windows DEF Bots
<1>6. one \in Worlds(config) /\ one.timers = s /\ one.out = w.out /\ one.chan = w.chan /\ one.bot = w.bot
  BY <1>1 DEF Worlds
<1> HIDE DEF s, o
<1>7. two \in Worlds(config) /\ two.timers = s /\ two.chan = w.chan /\ two.bot = w.bot
  <2> HIDE DEF one
  <2> QED BY <1>2, <1>6 DEF Worlds
<1>8. three \in Worlds(config) /\ three.timers = s /\ three.chan = w.chan /\ three.bot = w.bot /\ three.refused = "no"
  <2> HIDE DEF two
  <2> QED BY <1>7 DEF Worlds
<1>9. JoinNow(one) = three
  <2>1. Ask(one, "JOIN", "-") = two
    BY <1>6 DEF Ask, o
  <2> HIDE DEF two, one
  <2> QED BY <2>1 DEF JoinNow
<1> HIDE DEF one, three
<1>10. [three EXCEPT !.bot.cycling = FALSE, !.bot.cycles = Shut] = v
  BY <1>8 DEF Worlds
<1> HIDE DEF b
<1>11. v \in Worlds(config) /\ v.timers = s /\ v.chan = w.chan /\ v.bot = b /\ v.refused = "no"
  BY <1>5, <1>8 DEF Worlds
<1>12. [JoinNow(one) EXCEPT !.bot.cycling = FALSE, !.bot.cycles = Shut] = v
  BY <1>9, <1>10
<1> HIDE DEF v
<1>13. OpsIn(v) /\ CycleIn(v) /\ WaitIn(v)
  BY <1>3, <1>5, <1>11 DEF Safe, Sound, OpsIn, CycleIn, WaitIn
<1>14. Safe(v)
  BY <1>11, <1>13 DEF Safe, Sound
<1> QED BY <1>12, <1>14 DEF one, s

LEMMA ResetFired_Safe ==
  ASSUME NEW w, Safe(w), T("reset", den) \in w.timers
  PROVE  Safe([[w EXCEPT !.timers = @ \ {T("reset", den)}] EXCEPT !.bot.recovery = "none"])
<1> DEFINE s == w.timers \ {T("reset", den)}
           b == [w.bot EXCEPT !.recovery = "none"]
           one == [w EXCEPT !.timers = s]
           v == [one EXCEPT !.bot = b]
<1>1. w \in Worlds(config) /\ w.timers \in SUBSET Callbacks(config) /\ w.bot \in Bots(config)
  BY Typed
<1>2. /\ s \in SUBSET Callbacks(config)
      /\ T("cyclePart", den) \in s <=> T("cyclePart", den) \in w.timers
      /\ T("cycleJoin", den) \in s <=> T("cycleJoin", den) \in w.timers
  BY <1>1 DEF T
<1>3. b \in Bots(config) /\ b.cycling = w.bot.cycling
  BY <1>1 DEF Bots
<1>4. one \in Worlds(config) /\ one.timers = s /\ one.chan = w.chan /\ one.bot = w.bot /\ one.refused = w.refused
  BY <1>1, <1>2 DEF Worlds
<1>5. [[w EXCEPT !.timers = @ \ {T("reset", den)}] EXCEPT !.bot.recovery = "none"] = v
  BY <1>4
<1> HIDE DEF s, b, one
<1>6. v \in Worlds(config) /\ v.timers = s /\ v.chan = w.chan /\ v.bot = b /\ v.refused = w.refused
  BY <1>3, <1>4 DEF Worlds
<1> HIDE DEF v
<1>7. w.refused # "cooldown"
  BY DEF Safe, Sound, WaitIn
<1>8. OpsIn(v) /\ CycleIn(v) /\ WaitIn(v)
  BY <1>2, <1>3, <1>6, <1>7 DEF Safe, Sound, OpsIn, CycleIn, WaitIn
<1> QED BY <1>5, <1>6, <1>8 DEF Safe, Sound

LEMMA Fired_Safe ==
  ASSUME NEW w, Safe(w), NEW t \in w.timers, t.t # "verify"
  PROVE  Safe(Fired([w EXCEPT !.timers = @ \ {t}], t))
<1> DEFINE v == [w EXCEPT !.timers = @ \ {t}]
<1>1. t.x \in Names
  BY Marked_Timer
<1>2. CASE t.t = "cyclePart"
  <2>1. t = T("cyclePart", den)
    BY <1>2, Marked_Timer DEF CycleTimers
  <2>2. Fired(v, t) = Later(Ask(v, "PART", "-"), "cycleJoin", den)
    BY <1>2 DEF Fired
  <2> QED BY <2>1, <2>2, CyclePart_Safe
<1>3. CASE t.t = "cycleJoin"
  <2>1. t = T("cycleJoin", den)
    BY <1>3, Marked_Timer DEF CycleTimers
  <2>2. Fired(v, t) = [JoinNow(v) EXCEPT !.bot.cycling = FALSE, !.bot.cycles = Shut]
    BY <1>3 DEF Fired
  <2> DEFINE u == [w EXCEPT !.timers = @ \ {T("cycleJoin", den)}]
  <2>3. Safe([JoinNow(u) EXCEPT !.bot.cycling = FALSE, !.bot.cycles = Shut])
    BY <2>1, CycleJoin_Safe
  <2>4. u = v
    BY <2>1
  <2>5. Safe(Fired(v, t))
    <3> HIDE DEF u, v
    <3> QED BY <2>2, <2>3, <2>4
  <2> QED BY <2>5
<1>4. CASE t.t = "reset"
  <2>1. t = T("reset", den)
    BY <1>4, Marked_Timer
  <2>2. Fired(v, t) = [v EXCEPT !.bot.recovery = "none"]
    BY <1>4 DEF Fired
  <2> DEFINE u == [w EXCEPT !.timers = @ \ {T("reset", den)}]
  <2>3. Safe([u EXCEPT !.bot.recovery = "none"])
    BY <2>1, ResetFired_Safe
  <2>4. u = v
    BY <2>1
  <2>5. Safe(Fired(v, t))
    <3> HIDE DEF u, v
    <3> QED BY <2>2, <2>3, <2>4
  <2> QED BY <2>5
<1>5. CASE t.t \in OtherTimers
  <2>1. Safe(v)
    BY <1>5, Removed_Safe
  <2> SUFFICES Safe(Fired(v, t))
    OBVIOUS
  <2> HIDE DEF v
  <2>2. CASE t.t = "join"
    BY <2>1, <2>2, JoinNow_Safe DEF Fired
  <2>3. CASE t.t = "rejoin"
    BY <1>1, <2>1, <2>3, Rejoin_Safe DEF Fired
  <2>4. CASE t.t = "revenge"
    BY <2>1, <2>4, Revenge_Safe DEF Fired
  <2>5. CASE t.t = "reop"
    BY <2>1, <2>5, Request_Safe DEF Fired, What
  <2>6. CASE t.t = "probeWait"
    <3>1. t.x \in {"b", "i", "l", "k"}
      BY <2>6, Marked_Timer
    <3>2. Fired(v, t) = IF v.bot.acc.level[den] = "none" THEN [v EXCEPT !.refused = "access"] ELSE Recover(v, t.x)
      BY <2>6 DEF Fired
    <3> QED BY <2>1, <3>1, <3>2, Recover_Safe, Refused_Safe
  <2>7. CASE t.t = "sync"
    BY <2>1, <2>7, Sync_Safe DEF Fired
  <2>8. CASE t.t = "mode+"
    BY <1>1, <2>1, <2>8, Modes_Safe DEF Fired
  <2>9. CASE t.t = "mode-"
    BY <1>1, <2>1, <2>9, Modes_Safe DEF Fired
  <2>10. CASE t.t = "unlock"
    BY <2>1, <2>10, Modes_Safe, Named DEF Fired
  <2>11. CASE t.t = "op"
    BY <1>1, <2>1, <2>11, AskHarmless_Safe DEF Fired, Harmless
  <2>12. CASE t.t = "deop"
    <3>1. ~Master(t.x) \/ config.nethack = 2
      BY <2>12, Marked_Timer DEF Master
    <3>2. C("DEOP-", t.x) \in Commands(config)
      BY <1>1, <3>1, Harmful_Commands DEF Harmful
    <3> QED BY <2>1, <2>12, <3>2, Ask_Safe DEF Fired
  <2>13. CASE t.t = "regained"
    BY <2>1, <2>13, MassReop_Safe, RestoreTopic_Safe DEF Fired
  <2>14. CASE t.t = "strikeBack"
    BY <2>1, <2>14, MassReop_Safe, Hostile_Safe, RestoreTopic_Safe DEF Fired
  <2>15. CASE t.t = "recoverUnban"
    <3>1. Safe(Ask(Ask(v, "UNBAN", den), "INVITE", den))
      BY <2>1, Named, AskHarmless_Safe DEF Harmless
    <3>2. Safe(Later(Ask(Ask(v, "UNBAN", den), "INVITE", den), "recoverOp", den))
      BY <3>1, Named, LaterFree_Safe DEF OtherTimers
    <3> QED BY <2>15, <3>2 DEF Fired
  <2>16. CASE t.t = "recoverOp"
    BY <2>1, <2>16, Named, AskHarmless_Safe DEF Fired, Harmless
  <2> QED BY <1>5, <2>2, <2>3, <2>4, <2>5, <2>6, <2>7, <2>8, <2>9, <2>10, <2>11, <2>12, <2>13, <2>14, <2>15, <2>16
        DEF OtherTimers
<1> QED BY <1>2, <1>3, <1>4, <1>5, Marked_Timer DEF CycleTimers

(* What others do to the channel, and what the bot makes of it.              *)
LEMMA ChanFields_Safe ==
  ASSUME NEW w, Safe(w)
  PROVE  /\ \A v \in SUBSET Names : Safe([w EXCEPT !.chan.modes = v]) /\ [w EXCEPT !.chan.modes = v].chan.in = w.chan.in
         /\ \A v \in BOOLEAN : Safe([w EXCEPT !.chan.barred = v]) /\ [w EXCEPT !.chan.barred = v].chan.in = w.chan.in
         /\ \A v \in Names : Safe([w EXCEPT !.chan.topic = v])
         /\ \A v : v \subseteq w.chan.users \cup (IF w.chan.in THEN {"bot"} ELSE {}) =>
              Safe([w EXCEPT !.chan.ops = v]) /\ [w EXCEPT !.chan.ops = v].chan.in = w.chan.in
<1> DEFINE Fit(c) == c \in ChannelRecords /\ c.users = w.chan.users /\ c.in = w.chan.in
<1>1. w.chan \in ChannelRecords /\ w \in Worlds(config) /\ OpsIn(w)
  BY Typed DEF Safe, Sound
<1>0. ASSUME NEW c, Fit(c), c.ops \subseteq w.chan.users \cup (IF w.chan.in THEN {"bot"} ELSE {})
      PROVE Safe([w EXCEPT !.chan = c]) /\ [w EXCEPT !.chan = c].chan.in = w.chan.in
  <2>1. [w EXCEPT !.chan = c].chan = c
    BY <1>1 DEF Worlds
  <2>2. OpsIn([w EXCEPT !.chan = c])
    BY <1>0, <2>1 DEF OpsIn
  <2> QED BY <1>0, <2>1, <2>2, Chan_Safe
<1>2. ASSUME NEW v \in SUBSET Names PROVE Fit([w.chan EXCEPT !.modes = v]) /\ [w.chan EXCEPT !.modes = v].ops = w.chan.ops
  BY <1>1 DEF ChannelRecords
<1>3. ASSUME NEW v \in BOOLEAN PROVE Fit([w.chan EXCEPT !.barred = v]) /\ [w.chan EXCEPT !.barred = v].ops = w.chan.ops
  BY <1>1 DEF ChannelRecords
<1>4. ASSUME NEW v \in Names PROVE Fit([w.chan EXCEPT !.topic = v]) /\ [w.chan EXCEPT !.topic = v].ops = w.chan.ops
  BY <1>1 DEF ChannelRecords
<1>5. ASSUME NEW v, v \subseteq w.chan.users \cup (IF w.chan.in THEN {"bot"} ELSE {})
      PROVE  Fit([w.chan EXCEPT !.ops = v]) /\ [w.chan EXCEPT !.ops = v].ops = v
  BY <1>1, <1>5 DEF ChannelRecords
<1>6. w.chan.ops \subseteq w.chan.users \cup (IF w.chan.in THEN {"bot"} ELSE {})
  BY <1>1 DEF OpsIn
<1> HIDE DEF Fit
<1>7. ASSUME NEW v \in SUBSET Names
      PROVE Safe([w EXCEPT !.chan.modes = v]) /\ [w EXCEPT !.chan.modes = v].chan.in = w.chan.in
  BY <1>0, <1>2, <1>6
<1>8. ASSUME NEW v \in BOOLEAN
      PROVE Safe([w EXCEPT !.chan.barred = v]) /\ [w EXCEPT !.chan.barred = v].chan.in = w.chan.in
  BY <1>0, <1>3, <1>6
<1>9. ASSUME NEW v \in Names PROVE Safe([w EXCEPT !.chan.topic = v])
  BY <1>0, <1>4, <1>6
<1>10. ASSUME NEW v, v \subseteq w.chan.users \cup (IF w.chan.in THEN {"bot"} ELSE {})
       PROVE  Safe([w EXCEPT !.chan.ops = v]) /\ [w EXCEPT !.chan.ops = v].chan.in = w.chan.in
  BY <1>0, <1>5, <1>10
<1> QED BY <1>7, <1>8, <1>9, <1>10

(* The bot leaves, or is made to: its ops go with it.                        *)
LEMMA Left_Safe ==
  ASSUME NEW w, Safe(w)
  PROVE  Safe([w EXCEPT !.chan.in = FALSE, !.chan.ops = @ \ {"bot"}])
<1> DEFINE c == [w.chan EXCEPT !.in = FALSE]
           d == [c EXCEPT !.ops = w.chan.ops \ {"bot"}]
           v == [w EXCEPT !.chan = d]
<1>1. w.chan \in ChannelRecords /\ w \in Worlds(config)
  BY Typed
<1>2. c \in ChannelRecords /\ c.in = FALSE /\ c.users = w.chan.users
  BY <1>1 DEF ChannelRecords
<1>3. d \in ChannelRecords /\ d.in = FALSE /\ d.users = w.chan.users /\ d.ops = w.chan.ops \ {"bot"}
  <2> HIDE DEF c
  <2> QED BY <1>1, <1>2 DEF ChannelRecords
<1>4. [w EXCEPT !.chan.in = FALSE, !.chan.ops = @ \ {"bot"}] = v
  BY <1>1 DEF Worlds
<1> HIDE DEF d
<1>5. v.chan = d
  BY <1>1 DEF Worlds
<1>6. OpsIn(v)
  BY <1>3, <1>5 DEF Safe, Sound, OpsIn
<1>7. Safe(v)
  BY <1>3, <1>6, Chan_Safe
<1> QED BY <1>4, <1>7

LEMMA Users_Safe ==
  ASSUME NEW w, Safe(w), NEW s \in SUBSET Users,
         NEW o, o \subseteq s \cup (IF w.chan.in THEN {"bot"} ELSE {})
  PROVE  /\ Safe([w EXCEPT !.chan.users = s, !.chan.ops = o])
         /\ [w EXCEPT !.chan.users = s, !.chan.ops = o].chan.in = w.chan.in
<1> DEFINE c == [w.chan EXCEPT !.users = s]
           d == [c EXCEPT !.ops = o]
           v == [w EXCEPT !.chan = d]
<1>1. w.chan \in ChannelRecords /\ w \in Worlds(config)
  BY Typed
<1>2. c \in ChannelRecords /\ c.in = w.chan.in /\ c.users = s
  BY <1>1 DEF ChannelRecords
<1>3. d \in ChannelRecords /\ d.in = w.chan.in /\ d.users = s /\ d.ops = o
  <2> HIDE DEF c
  <2> QED BY <1>2 DEF ChannelRecords
<1>4. [w EXCEPT !.chan.users = s, !.chan.ops = o] = v
  BY <1>1 DEF Worlds
<1> HIDE DEF d
<1>5. v.chan = d
  BY <1>1 DEF Worlds
<1>6. OpsIn(v)
  BY <1>3, <1>5 DEF OpsIn
<1>7. Safe(v)
  BY <1>3, <1>6, Chan_Safe
<1>8. v.chan.in = w.chan.in
  BY <1>3, <1>5
<1> HIDE DEF v
<1> QED BY <1>4, <1>7, <1>8

LEMMA Gone_Safe ==
  ASSUME NEW w, Safe(w), NEW u
  PROVE  Safe(Gone(w, u))
<1> DEFINE s == w.chan.users \ {u}
           o == w.chan.ops \ {u}
<1>1. s \in SUBSET Users /\ o \subseteq s \cup (IF w.chan.in THEN {"bot"} ELSE {})
  BY Present DEF Safe, Sound, OpsIn
<1>2. Gone(w, u) = [w EXCEPT !.chan.users = s, !.chan.ops = o]
  BY Typed DEF Gone, Worlds
<1> HIDE DEF s, o
<1>3. Safe([w EXCEPT !.chan.users = s, !.chan.ops = o])
  BY <1>1, Users_Safe
<1> QED BY <1>2, <1>3

LEMMA Opping_Safe ==
  ASSUME NEW w, Safe(w), NEW by \in {"bot", "chanserv"}, NEW u, u = "bot" => w.chan.in
  PROVE  Safe(Opping(w, by, u))
<1>1. CASE u \in w.chan.ops \/ u \notin w.chan.users \cup {"bot"}
  BY <1>1 DEF Opping
<1>2. CASE ~(u \in w.chan.ops \/ u \notin w.chan.users \cup {"bot"})
  <2> DEFINE v == [w EXCEPT !.chan.ops = @ \cup {u}]
  <2>1. w.chan.ops \cup {u} \subseteq w.chan.users \cup (IF w.chan.in THEN {"bot"} ELSE {})
    BY <1>2 DEF Safe, Sound, OpsIn
  <2>2. Safe(v)
    BY <2>1, ChanFields_Safe
  <2>3. u \in Users \cup {"bot"}
    BY <1>2, Present
  <2>4. E(by, "+", "o", u) \in Events
    BY <2>3, Named DEF E, Events, Users
  <2>5. Opping(w, by, u) = OnMode(v, E(by, "+", "o", u))
    BY <1>2 DEF Opping
  <2> HIDE DEF v
  <2> QED BY <2>2, <2>4, <2>5, OnMode_Safe
<1> QED BY <1>1, <1>2

LEMMA Deopping_Safe ==
  ASSUME NEW w, Safe(w), NEW by \in {"bot", "chanserv", "foe"}, NEW u
  PROVE  Safe(Deopping(w, by, u))
<1>1. CASE u \notin w.chan.ops
  BY <1>1 DEF Deopping
<1>2. CASE u \in w.chan.ops
  <2> DEFINE v == [w EXCEPT !.chan.ops = @ \ {u}]
  <2>1. w.chan.ops \ {u} \subseteq w.chan.users \cup (IF w.chan.in THEN {"bot"} ELSE {})
    BY DEF Safe, Sound, OpsIn
  <2>2. Safe(v)
    BY <2>1, ChanFields_Safe
  <2>3. u \in Users \cup {"bot"}
    BY <1>2, Present
  <2>4. E(by, "-", "o", u) \in Events
    BY <2>3, Named DEF E, Events, Users
  <2>5. Deopping(w, by, u) = If(w.chan.in \/ u = "bot", OnMode(v, E(by, "-", "o", u)), v)
    BY <1>2 DEF Deopping
  <2> HIDE DEF v
  <2> QED BY <2>2, <2>4, <2>5, OnMode_Safe, If_Safe
<1> QED BY <1>1, <1>2

LEMMA Effect_Safe ==
  ASSUME NEW w, Safe(w), HasOps(w), NEW c \in Commands(config),
         c.cmd \in {"MODE+", "MODE-", "OP+", "DEOP-", "KICK", "TOPIC"}
  PROVE  Safe(Effect(w, c))
<1>1. c.x \in Names /\ c.modes \in SUBSET Names
  BY DEF Commands
<1>2. w.chan \in ChannelRecords /\ w.chan.in
  BY Typed DEF HasOps
<1>3. CASE c.cmd = "MODE+"
  <2>1. w.chan.modes \cup c.modes \in SUBSET Names
    BY <1>1, <1>2 DEF ChannelRecords
  <2> QED BY <1>3, <2>1, ChanFields_Safe DEF Effect
<1>4. CASE c.cmd = "MODE-"
  <2>1. w.chan.modes \ c.modes \in SUBSET Names
    BY <1>1, <1>2 DEF ChannelRecords
  <2> QED BY <1>4, <2>1, ChanFields_Safe DEF Effect
<1>5. CASE c.cmd = "OP+"
  BY <1>2, <1>5, Opping_Safe DEF Effect
<1>6. CASE c.cmd = "DEOP-"
  BY <1>6, Deopping_Safe DEF Effect
<1>7. CASE c.cmd = "KICK"
  BY <1>7, Gone_Safe DEF Effect
<1>8. CASE c.cmd = "TOPIC"
  <2>1. Safe([w EXCEPT !.chan.topic = c.x])
    BY <1>1, ChanFields_Safe
  <2> QED BY <1>8, <2>1, TopicChanged_Safe DEF Effect
<1> QED BY <1>3, <1>4, <1>5, <1>6, <1>7, <1>8

LEMMA Service_Safe ==
  ASSUME NEW w, Safe(w), NEW c,
         c.cmd \in {"OP", "UNBAN", "INVITE", "KEYLESS", "DEOP", "AKICK", "CLEAROPS"}
  PROVE  Safe(Service(w, c))
<1>1. CASE c.cmd = "OP"
  BY <1>1, Opping_Safe DEF Service, If
<1>2. CASE c.cmd = "UNBAN"
  <2>1. Safe([w EXCEPT !.chan.barred = FALSE])
    BY ChanFields_Safe
  <2> QED BY <1>2, <2>1, If_Safe DEF Service
<1>3. CASE c.cmd = "INVITE"
  BY <1>3, Invited_Safe, If_Safe DEF Service
<1>4. CASE c.cmd = "KEYLESS"
  <2>1. w.chan \in ChannelRecords
    BY Typed
  <2>2. w.chan.modes \ {"k"} \in SUBSET Names
    BY <2>1 DEF ChannelRecords
  <2>3. Safe([w EXCEPT !.chan.modes = @ \ {"k"}])
    BY <2>2, ChanFields_Safe
  <2> QED BY <1>4, <2>3, If_Safe DEF Service
<1>5. CASE c.cmd = "DEOP"
  BY <1>5, Deopping_Safe, If_Safe DEF Service
<1>6. CASE c.cmd = "AKICK"
  BY <1>6, Gone_Safe, If_Safe DEF Service
<1>7. CASE c.cmd = "CLEAROPS"
  <2>1. Safe(Deopping(Deopping(w, "chanserv", "bot"), "chanserv", "friend"))
    BY Deopping_Safe
  <2>2. Safe(Deopping(Deopping(Deopping(w, "chanserv", "bot"), "chanserv", "friend"), "chanserv", "foe"))
    BY <2>1, Deopping_Safe
  <2> QED BY <1>7, <2>2, If_Safe DEF Service
<1> QED BY <1>1, <1>2, <1>3, <1>4, <1>5, <1>6, <1>7

(* A line of ChanServ is the truth about it.                                *)
LEMMA Truths ==
  ASSUME config \in Configurations, NEW c \in Commands(config), c.cmd \in Probing, NEW answer \in Answers(c.cmd)
  PROVE  Truth(config, answer[1]) /\ (Len(answer) = 2 => Truth(config, answer[2]))
<1>1. config.services \in {"atheme", "anope"} /\ config.tier \in {"none", "op", "superop", "founder"}
  BY DEF Configurations, TierSet
<1>2. IF c.cmd = "FLAGS" THEN config.services = "atheme" ELSE config.services = "anope"
  BY DEF Commands
<1>3. AtLeast(config.tier, "none") /\ AtLeast(config.tier, config.tier)
  BY LeastAccess
<1>4. CASE c.cmd = "FLAGS"
  BY <1>1, <1>2, <1>3, <1>4 DEF Answers, AthemeAnswers, Line, Truth, TierSet
<1>5. CASE c.cmd = "ACCESS"
  BY <1>1, <1>2, <1>3, <1>5 DEF Answers, AnopeList, Line, Truth, TierSet
<1>6. CASE c.cmd = "INFO"
  BY <1>1, <1>2, <1>3, <1>6 DEF Answers, AnopeInfo, Line, Truth, TierSet
<1>7. CASE c.cmd = "GETKEY"
  BY <1>1, <1>2, <1>3, <1>7 DEF Answers, Line, Truth, TierSet
<1> QED BY <1>4, <1>5, <1>6, <1>7 DEF Probing

LEMMA Read_Safe ==
  ASSUME NEW w, Safe(w), NEW l, Truth(config, l)
  PROVE  Safe(Read(w, l))
<1> DEFINE a == IF config.services = "atheme" THEN AthemeLine(w.bot.acc, l) ELSE AnopeLine(w.bot.acc, l)
           read == [w EXCEPT !.bot.acc = a]
<1>1. config \in Configurations /\ w.bot.acc \in Accesses(config)
  BY Typed
<1>2. config.services \in {"atheme", "anope"}
  BY <1>1 DEF Configurations
<1>3. a \in Accesses(config)
  BY <1>1, <1>2, Atheme_Access, Anope_Access
<1>4. Read(w, l) = If(l.kind = "key" /\ den \in w.bot.acc.getkey, [Ask(read, "JOIN", "key") EXCEPT !.refused = "no"], read)
  BY DEF Read
<1> HIDE DEF a
<1>5. Safe(read)
  BY <1>3, Fields_Safe
<1> HIDE DEF read
<1>6. Safe(Ask(read, "JOIN", "key"))
  BY <1>5, Named, AskHarmless_Safe DEF Harmless
<1>7. Safe([Ask(read, "JOIN", "key") EXCEPT !.refused = "no"])
  BY <1>6, Refused_Safe
<1> QED BY <1>4, <1>5, <1>7, If_Safe

LEMMA Took_Safe ==
  ASSUME Safe(Now), out # <<>>
  PROVE  Safe(Sent) /\ Head1 \in Commands(config) /\ Sent.chan = chan
<1>1. out \in Seq(Commands(config))
  BY Typed DEF Now
<1>2. Head(out) \in Commands(config) /\ Tail(out) \in Seq(Commands(config))
  BY <1>1, HeadTailProperties
<1>3. Sent = [Now EXCEPT !.out = Tail(out)] /\ Now.chan = chan
  BY DEF Sent, Now
<1> QED BY <1>2, <1>3, Out_Safe DEF Head1

----------------------------------------------------------------------------
(* The steps                                                               *)

LEMMA Became ==
  ASSUME NEW w, Safe(w), Become(w), config' = config
  PROVE  SoundNow'
<1>1. w \in Worlds(config) /\ config \in Configs /\ Sound(config, w)
  BY DEF Safe, Sound
<1>2. w = [chan |-> w.chan, bot |-> w.bot, out |-> w.out, timers |-> w.timers, refused |-> w.refused]
  BY <1>1 DEF Worlds
<1>3. Now' = w
  BY <1>2 DEF Now, Become
<1> QED BY <1>1, <1>3 DEF SoundNow

LEMMA BotBecame ==
  ASSUME Safe(Now), NEW b, Safe([Now EXCEPT !.bot = b]), bot' = b,
         UNCHANGED <<config, chan, out, timers, refused>>
  PROVE  SoundNow'
<1>1. Become([Now EXCEPT !.bot = b])
  BY DEF Become, Now
<1> QED BY <1>1, Became

LEMMA Fire_Sound == ASSUME SoundNow, Fire PROVE SoundNow'
<1>1. PICK t \in timers : t.t # "verify" /\ Become(Fired([Now EXCEPT !.timers = @ \ {t}], t)) /\ config' = config
  BY DEF Fire
<1>2. Safe(Now) /\ t \in Now.timers
  BY <1>1 DEF SoundNow, Safe, Now
<1>3. Safe(Fired([Now EXCEPT !.timers = @ \ {t}], t))
  BY <1>1, <1>2, Fired_Safe
<1> QED BY <1>1, <1>3, Became

LEMMA Verified_Sound == ASSUME SoundNow, Verified PROVE SoundNow'
<1>1. PICK t \in timers, ok \in BOOLEAN :
        /\ t.t = "verify" /\ config' = config
        /\ Become(If(ok, Flagged([Now EXCEPT !.timers = @ \ {t}], t.x), [Now EXCEPT !.timers = @ \ {t}]))
  BY DEF Verified
<1> DEFINE w == [Now EXCEPT !.timers = @ \ {t}]
<1>2. Safe(Now) /\ t \in Now.timers
  BY <1>1 DEF SoundNow, Safe, Now
<1>3. Safe(w) /\ t.x \in Names
  BY <1>1, <1>2, Removed_Safe, Marked_Timer DEF OtherTimers
<1>4. Become(If(ok, Flagged(w, t.x), w))
  BY <1>1
<1> HIDE DEF w
<1>5. Safe(If(ok, Flagged(w, t.x), w))
  BY <1>3, Flagged_Safe, If_Safe
<1> QED BY <1>1, <1>4, <1>5, Became

LEMMA TimedOut_Sound == ASSUME SoundNow, TimedOut PROVE SoundNow'
<1>1. Safe(Now) /\ Now.bot = bot
  BY DEF SoundNow, Safe, Now
<1>2. bot.acc \in Accesses(config)
  BY <1>1, Typed
<1>3. /\ Safe([Now EXCEPT !.bot = [bot EXCEPT !.acc = ProbeTimeout(@, "pend", den)]])
      /\ Safe([Now EXCEPT !.bot = [bot EXCEPT !.acc = ProbeTimeout(@, "info", den)]])
  BY <1>1, <1>2, Timeout_Access, Fields_Safe
<1>4. Safe([Now EXCEPT !.bot = [bot EXCEPT !.acc.getkey = {}]])
  BY <1>1, GetKey_Safe
<1>5. /\ UNCHANGED <<config, chan, out, timers, refused>>
      /\ bot' \in {[bot EXCEPT !.acc = ProbeTimeout(@, "pend", den)], [bot EXCEPT !.acc = ProbeTimeout(@, "info", den)],
                   [bot EXCEPT !.acc.getkey = {}]}
  BY DEF TimedOut
<1> QED BY <1>1, <1>3, <1>4, <1>5, BotBecame

LEMMA Lapse_Sound == ASSUME SoundNow, Lapse PROVE SoundNow'
<1>1. Safe(Now) /\ Now.bot = bot
  BY DEF SoundNow, Safe, Now
<1>2. Safe([Now EXCEPT !.bot = [bot EXCEPT !.recovery = "ready"]])
  <2> DEFINE b == [bot EXCEPT !.recovery = "ready"]
             v == [Now EXCEPT !.bot = b]
  <2>1. bot \in Bots(config)
    BY <1>1, Typed
  <2>2. b \in Bots(config) /\ b.cycling = bot.cycling /\ b.recovery = "ready"
    BY <2>1 DEF Bots
  <2> HIDE DEF b
  <2>3. v \in Worlds(config) /\ v.chan = Now.chan /\ v.bot = b /\ v.timers = Now.timers /\ v.refused = Now.refused
    BY <1>1, <2>2 DEF Safe, Sound, Worlds
  <2> HIDE DEF v
  <2>4. OpsIn(v) /\ CycleIn(v) /\ WaitIn(v)
    BY <1>1, <2>2, <2>3 DEF Safe, Sound, OpsIn, CycleIn, WaitIn
  <2> QED BY <1>1, <2>3, <2>4 DEF Safe, Sound, v, b
<1>3. /\ Safe([Now EXCEPT !.bot = [bot EXCEPT !.rejoins = Shut]]) /\ Safe([Now EXCEPT !.bot = [bot EXCEPT !.cool = Shut]])
      /\ Safe([Now EXCEPT !.bot = [bot EXCEPT !.punish = Shut]]) /\ Safe([Now EXCEPT !.bot = [bot EXCEPT !.cycles = Shut]])
      /\ Safe([Now EXCEPT !.bot = [bot EXCEPT !.intent = {}]])
  BY <1>1, Windows, Fields_Safe
<1>4. Safe([Now EXCEPT !.bot = [bot EXCEPT !.hot = FALSE, !.score = 0]])
  <2> DEFINE w == [Now EXCEPT !.bot = [bot EXCEPT !.hot = FALSE]]
  <2>1. Safe(w)
    BY <1>1, Fields_Safe
  <2>2. 0 \in 0 .. MaxScore
    BY DEF MaxScore
  <2>3. w.bot = [bot EXCEPT !.hot = FALSE] /\ [w EXCEPT !.bot = [w.bot EXCEPT !.score = 0]]
                                                = [Now EXCEPT !.bot = [bot EXCEPT !.hot = FALSE, !.score = 0]]
    BY DEF Now
  <2> HIDE DEF w
  <2> QED BY <2>1, <2>2, <2>3, Fields_Safe
<1>5. Safe([Now EXCEPT !.bot = [bot EXCEPT !.split = FALSE, !.before = {}]])
  <2> DEFINE w == [Now EXCEPT !.bot = [bot EXCEPT !.split = FALSE]]
  <2>1. Safe(w)
    <3>1. FALSE \in IF config.nethack > 0 THEN BOOLEAN ELSE {FALSE}
      OBVIOUS
    <3> QED BY <1>1, <3>1, Fields_Safe
  <2>2. w.bot = [bot EXCEPT !.split = FALSE] /\ [w EXCEPT !.bot = [w.bot EXCEPT !.before = {}]]
                                                = [Now EXCEPT !.bot = [bot EXCEPT !.split = FALSE, !.before = {}]]
    BY DEF Now
  <2> HIDE DEF w
  <2> QED BY <2>1, <2>2, Fields_Safe
<1>6. /\ UNCHANGED <<config, chan, out, timers, refused>>
      /\ \/ bot' \in {[bot EXCEPT !.recovery = "ready"], [bot EXCEPT !.rejoins = Shut], [bot EXCEPT !.cool = Shut]}
         \/ bot' \in {[bot EXCEPT !.punish = Shut], [bot EXCEPT !.cycles = Shut], [bot EXCEPT !.intent = {}]}
         \/ bot' \in {[bot EXCEPT !.hot = FALSE, !.score = 0], [bot EXCEPT !.split = FALSE, !.before = {}]}
  BY DEF Lapse
<1> QED BY <1>1, <1>2, <1>3, <1>4, <1>5, <1>6, BotBecame

LEMMA PresenceCheck_Sound == ASSUME SoundNow, PresenceCheck PROVE SoundNow'
<1>1. Safe(Now) /\ Become(JoinNow(Now)) /\ config' = config
  BY DEF SoundNow, Safe, PresenceCheck
<1> QED BY <1>1, JoinNow_Safe, Became

LEMMA Join_Sound == ASSUME SoundNow, Join PROVE SoundNow'
<1>1. Safe(Now) /\ out # <<>> /\ config' = config
  BY DEF SoundNow, Safe, Join, Carried
<1>2. Safe(Sent)
  BY <1>1, Took_Safe
<1>3. \/ Become(Sent) \/ Become(Entered(Sent))
      \/ \E e \in Blocked(Head1.x) : Become(JoinError(Sent, e))
  BY DEF Join
<1>4. Blocked(Head1.x) \subseteq {"b", "i", "l", "k"}
  BY DEF Blocked
<1>5. CASE \E e \in Blocked(Head1.x) : Become(JoinError(Sent, e))
  <2>1. PICK e \in {"b", "i", "l", "k"} : Become(JoinError(Sent, e))
    BY <1>4, <1>5
  <2>2. Safe(JoinError(Sent, e))
    BY <1>2, JoinError_Safe
  <2> QED BY <1>1, <2>1, <2>2, Became
<1> QED BY <1>1, <1>2, <1>3, <1>5, Entered_Safe, Became

LEMMA Part_Sound == ASSUME SoundNow, Part PROVE SoundNow'
<1>1. Safe(Now) /\ out # <<>> /\ config' = config
  BY DEF SoundNow, Safe, Part, Carried
<1>2. Safe([Sent EXCEPT !.chan.in = FALSE, !.chan.ops = @ \ {"bot"}])
  BY <1>1, Took_Safe, Left_Safe
<1>3. Become([Sent EXCEPT !.chan.in = FALSE, !.chan.ops = @ \ {"bot"}])
  BY DEF Part
<1> QED BY <1>1, <1>2, <1>3, Became

LEMMA Operate_Sound == ASSUME SoundNow, Operate PROVE SoundNow'
<1>1. Safe(Now) /\ out # <<>> /\ config' = config /\ Become(If(HasOps(Sent), Effect(Sent, Head1), Sent))
      /\ Head1.cmd \in {"MODE+", "MODE-", "OP+", "DEOP-", "KICK", "TOPIC"}
  BY DEF SoundNow, Safe, Operate
<1>2. Safe(Sent) /\ Head1 \in Commands(config)
  BY <1>1, Took_Safe
<1>3. HasOps(Sent) => Safe(Effect(Sent, Head1))
  BY <1>1, <1>2, Effect_Safe
<1>4. Safe(If(HasOps(Sent), Effect(Sent, Head1), Sent))
  BY <1>2, <1>3 DEF If
<1> QED BY <1>1, <1>4, Became

LEMMA Serve_Sound == ASSUME SoundNow, Serve PROVE SoundNow'
<1>1. Safe(Now) /\ out # <<>> /\ config' = config /\ Become(Service(Sent, Head1))
      /\ Head1.cmd \in {"OP", "UNBAN", "INVITE", "KEYLESS", "DEOP", "AKICK", "CLEAROPS"}
  BY DEF SoundNow, Safe, Serve
<1>2. Safe(Service(Sent, Head1))
  BY <1>1, Took_Safe, Service_Safe
<1> QED BY <1>1, <1>2, Became

LEMMA RecoverDone_Sound == ASSUME SoundNow, RecoverDone PROVE SoundNow'
<1> DEFINE bare == Deopping(Deopping(Sent, "chanserv", "friend"), "chanserv", "foe")
           one == [bare EXCEPT !.chan.modes = @ \cup {"i", "m"}]
           locked == [one EXCEPT !.chan.barred = FALSE]
<1>1. Safe(Now) /\ out # <<>> /\ config' = config
  BY DEF SoundNow, Safe, RecoverDone, Carried
<1>2. Safe(Sent)
  BY <1>1, Took_Safe
<1>3. Safe(bare)
  BY <1>2, Deopping_Safe
<1> DEFINE both == [bare EXCEPT !.chan.modes = @ \cup {"i", "m"}, !.chan.barred = FALSE]
<1>4. Become(Sent) \/ Become(If(both.chan.in, Opping(both, "chanserv", "bot"), both))
  BY DEF RecoverDone
<1>5. both = locked
  <2> HIDE DEF bare
  <2> QED BY <1>3, Typed DEF Worlds
<1> HIDE DEF bare, both
<1>6. Safe(one)
  <2>1. bare.chan \in ChannelRecords
    BY <1>3, Typed
  <2>2. bare.chan.modes \cup {"i", "m"} \in SUBSET Names
    BY <2>1, Named DEF ChannelRecords
  <2> QED BY <1>3, <2>2, ChanFields_Safe
<1> HIDE DEF one
<1>7. Safe(locked)
  BY <1>6, ChanFields_Safe
<1> HIDE DEF locked
<1>8. Safe(If(locked.chan.in, Opping(locked, "chanserv", "bot"), locked))
  BY <1>7, Opping_Safe DEF If
<1> QED BY <1>1, <1>2, <1>4, <1>5, <1>8, Became

LEMMA Answer_Sound == ASSUME SoundNow, Answer PROVE SoundNow'
<1>1. Safe(Now) /\ out # <<>> /\ config' = config /\ Head1.cmd \in Probing
  BY DEF SoundNow, Safe, Answer, Probing
<1>2. PICK answer \in Answers(Head1.cmd) :
        Become(If(Len(answer) = 2, Read(Read(Sent, answer[1]), answer[2]), Read(Sent, answer[1])))
  BY DEF Answer
<1>3. Safe(Sent) /\ Head1 \in Commands(config) /\ config \in Configurations
  BY <1>1, Took_Safe, Typed
<1>4. Truth(config, answer[1]) /\ (Len(answer) = 2 => Truth(config, answer[2]))
  BY <1>1, <1>2, <1>3, Truths
<1>5. Safe(Read(Sent, answer[1]))
  BY <1>3, <1>4, Read_Safe
<1>6. Safe(If(Len(answer) = 2, Read(Read(Sent, answer[1]), answer[2]), Read(Sent, answer[1])))
  BY <1>4, <1>5, Read_Safe DEF If
<1> QED BY <1>1, <1>2, <1>6, Became

(* What others do.                                                         *)
LEMMA Seen_Safe ==
  ASSUME NEW w, Safe(w), NEW e \in Events
  PROVE  Safe(Seen(w, e))
BY OnMode_Safe, If_Safe DEF Seen

LEMMA KickBot_Sound == ASSUME SoundNow, KickBot PROVE SoundNow'
<1> DEFINE w == [Now EXCEPT !.chan.in = FALSE, !.chan.ops = @ \ {"bot"}]
<1>1. Safe(Now) /\ config' = config /\ Become(Kicked(w, "foe"))
  BY DEF SoundNow, Safe, KickBot, FoeActs
<1>2. Safe(w)
  BY <1>1, Left_Safe
<1> HIDE DEF w
<1>3. Safe(Kicked(w, "foe"))
  BY <1>2, Kicked_Safe, Named DEF Users
<1> QED BY <1>1, <1>3, Became

LEMMA BanBot_Sound == ASSUME SoundNow, BanBot PROVE SoundNow'
<1> DEFINE w == [Now EXCEPT !.chan.barred = TRUE]
<1>1. Safe(Now) /\ config' = config /\ Become(Seen(w, E("foe", "+", "b", "bot")))
  BY DEF SoundNow, Safe, BanBot, FoeActs
<1>2. Safe(w)
  BY <1>1, ChanFields_Safe
<1>3. E("foe", "+", "b", "bot") \in Events
  BY Named DEF E, Events
<1> HIDE DEF w
<1> QED BY <1>1, <1>2, <1>3, Seen_Safe, Became

LEMMA BanFriend_Sound == ASSUME SoundNow, BanFriend PROVE SoundNow'
<1>1. Safe(Now) /\ config' = config /\ Become(Seen(Now, E("foe", "+", "b", "friend")))
  BY DEF SoundNow, Safe, BanFriend, FoeActs
<1>2. E("foe", "+", "b", "friend") \in Events
  BY Named DEF E, Events, Users
<1> QED BY <1>1, <1>2, Seen_Safe, Became

LEMMA Lock_Sound == ASSUME SoundNow, Lock PROVE SoundNow'
<1>1. Safe(Now) /\ config' = config
  BY DEF SoundNow, Safe, Lock, FoeActs
<1>2. PICK m \in config.locks :
        Become(Seen([Now EXCEPT !.chan.modes = @ \cup {m}], E("foe", "+", m, "-")))
  BY DEF Lock
<1> DEFINE w == [Now EXCEPT !.chan.modes = @ \cup {m}]
<1>3. m \in Names /\ m # "o"
  BY <1>1, Typed, Named DEF Configurations
<1>4. Safe(w)
  <2>1. Now.chan \in ChannelRecords
    BY <1>1, Typed
  <2>2. Now.chan.modes \cup {m} \in SUBSET Names
    BY <1>3, <2>1 DEF ChannelRecords
  <2> QED BY <1>1, <2>2, ChanFields_Safe
<1>5. E("foe", "+", m, "-") \in Events
  BY <1>3 DEF E, Events
<1>6. Become(Seen(w, E("foe", "+", m, "-")))
  BY <1>2
<1> HIDE DEF w
<1> QED BY <1>1, <1>4, <1>5, <1>6, Seen_Safe, Became

LEMMA Unlock_Sound == ASSUME SoundNow, Unlock PROVE SoundNow'
<1> DEFINE w == [Now EXCEPT !.chan.modes = @ \ {"n"}]
<1>1. Safe(Now) /\ config' = config /\ Become(Seen(w, E("foe", "-", "n", "-")))
  BY DEF SoundNow, Safe, Unlock, FoeActs
<1>2. Safe(w)
  <2>1. Now.chan \in ChannelRecords
    BY <1>1, Typed
  <2>2. Now.chan.modes \ {"n"} \in SUBSET Names
    BY <2>1 DEF ChannelRecords
  <2> QED BY <1>1, <2>2, ChanFields_Safe
<1>3. E("foe", "-", "n", "-") \in Events
  BY Named DEF E, Events
<1> HIDE DEF w
<1> QED BY <1>1, <1>2, <1>3, Seen_Safe, Became

LEMMA Depose_Sound == ASSUME SoundNow, Depose PROVE SoundNow'
<1>1. Safe(Now) /\ config' = config /\ \E u : Become(Deopping(Now, "foe", u))
  BY DEF SoundNow, Safe, Depose, FoeActs
<1>2. PICK u : Become(Deopping(Now, "foe", u))
  BY <1>1
<1> QED BY <1>1, <1>2, Deopping_Safe, Became

LEMMA Vandalise_Sound == ASSUME SoundNow, Vandalise PROVE SoundNow'
<1> DEFINE w == [Now EXCEPT !.chan.topic = "bad"]
<1>1. Safe(Now) /\ config' = config /\ Become(If(chan.in, TopicChanged(w), w))
  BY DEF SoundNow, Safe, Vandalise, FoeActs
<1>2. Safe(w)
  BY <1>1, Named, ChanFields_Safe
<1> HIDE DEF w
<1>3. Safe(If(chan.in, TopicChanged(w), w))
  BY <1>2, TopicChanged_Safe, If_Safe
<1> QED BY <1>1, <1>3, Became

LEMMA Netsplit_Sound == ASSUME SoundNow, Netsplit PROVE SoundNow'
<1> DEFINE s == IF chan.in THEN chan.ops \cap chan.users ELSE {}
           one == [Now EXCEPT !.bot.split = TRUE]
           v == [one EXCEPT !.bot.before = s]
<1>1. Safe(Now) /\ Now.chan = chan /\ config' = config /\ config.nethack > 0
      /\ Become([Now EXCEPT !.bot.split = TRUE, !.bot.before = s])
  BY DEF SoundNow, Safe, Netsplit, Now
<1>2. [Now EXCEPT !.bot.split = TRUE, !.bot.before = s] = v
  OBVIOUS
<1>3. s \in SUBSET Names
  BY <1>1, Present, Named
<1> HIDE DEF s
<1>4. Safe(one)
  <2>1. TRUE \in IF config.nethack > 0 THEN BOOLEAN ELSE {FALSE}
    BY <1>1
  <2> QED BY <1>1, <2>1, Fields_Safe
<1> HIDE DEF one
<1>5. Safe(v)
  BY <1>3, <1>4, Fields_Safe
<1> HIDE DEF v
<1> QED BY <1>1, <1>2, <1>5, Became

LEMMA ServerOps_Sound == ASSUME SoundNow, ServerOps PROVE SoundNow'
<1> DEFINE w == [Now EXCEPT !.chan.ops = @ \cup {"foe"}]
<1>1. Safe(Now) /\ Now.chan = chan /\ config' = config /\ "foe" \in chan.users
      /\ Become(Seen(w, E("server", "+", "o", "foe")))
  BY DEF SoundNow, Safe, ServerOps, Now
<1>2. Safe(w)
  <2>1. Now.chan.ops \cup {"foe"} \subseteq Now.chan.users \cup (IF Now.chan.in THEN {"bot"} ELSE {})
    BY <1>1 DEF Safe, Sound, OpsIn
  <2> QED BY <1>1, <2>1, ChanFields_Safe
<1>3. E("server", "+", "o", "foe") \in Events
  BY Named DEF E, Events, Users
<1> HIDE DEF w
<1> QED BY <1>1, <1>2, <1>3, Seen_Safe, Became

LEMMA FriendReturns_Sound == ASSUME SoundNow, FriendReturns PROVE SoundNow'
<1> DEFINE s == chan.users \cup {"friend"}
           o == chan.ops \ {"friend"}
           w == [Now EXCEPT !.chan.users = s, !.chan.ops = o]
<1>1. Safe(Now) /\ Now.chan = chan /\ config' = config
  BY DEF SoundNow, Safe, FriendReturns, Now
<1>2. Become(If(chan.in, AutoOp(w, "friend"), w))
  <2>1. [Now EXCEPT !.chan.users = @ \cup {"friend"}, !.chan.ops = @ \ {"friend"}] = w
    BY DEF Now
  <2> HIDE DEF w
  <2> QED BY <2>1 DEF FriendReturns
<1>3. s \in SUBSET Users /\ o \subseteq s \cup (IF Now.chan.in THEN {"bot"} ELSE {})
  BY <1>1, Present DEF Safe, Sound, OpsIn, Users
<1> HIDE DEF s, o
<1>4. Safe(w)
  BY <1>1, <1>3, Users_Safe
<1> HIDE DEF w
<1>5. Safe(If(chan.in, AutoOp(w, "friend"), w))
  BY <1>4, AutoOp_Safe, If_Safe, Named DEF Users
<1> QED BY <1>1, <1>2, <1>5, Became

LEMMA Order_Sound == ASSUME SoundNow, Order PROVE SoundNow'
<1>1. Safe(Now) /\ config' = config
  BY DEF SoundNow, Safe, Order
<1>2. PICK u \in Users :
       \/ Become(OrderOp(Now, u))
       \/ ~Master(u) /\ (Become(OrderDeop(Now, u)) \/ Become(OrderKick(Now, u)))
  BY DEF Order
<1> QED BY <1>1, <1>2, Orders_Safe, Became

LEMMA Invite_Sound == ASSUME SoundNow, Invite PROVE SoundNow'
<1>1. Safe(Now) /\ config' = config /\ \E u : Become(InvitedBy(Now, u))
  BY DEF SoundNow, Safe, Invite
<1>2. PICK u : Become(InvitedBy(Now, u))
  BY <1>1
<1> QED BY <1>1, <1>2, Invited_Safe, Became

LEMMA Chanset_Sound == ASSUME SoundNow, Chanset PROVE SoundNow'
<1>1. Safe(Now) /\ config' = config /\ \E tier \in TierSet \cup {"unset"} : Become(SetAccessSetting(Now, tier))
  BY DEF SoundNow, Safe, Chanset
<1>2. PICK tier \in TierSet \cup {"unset"} : Become(SetAccessSetting(Now, tier))
  BY <1>1
<1> QED BY <1>1, <1>2, SetAccess_Safe, Became

----------------------------------------------------------------------------
(* The theorems                                                            *)

LEMMA Told_Access ==
  ASSUME config \in Configurations
  PROVE  Told(config.settings) \in Accesses(config)
<1> DEFINE a == Seeded(config.settings)
           d == [a EXCEPT !.level[den] = config.tier]
           f == [d EXCEPT !.setting[den] = config.tier]
           g == [f EXCEPT !.auto = {den}]
<1>1. a \in Records /\ config.tier \in TierSet
  BY Seeding DEF Accesses, Configurations
<1>2. Told(config.settings) \in {a, g}
  BY DEF Told
<1>3. a \in Accesses(config)
  BY Seeding
<1> HIDE DEF a
<1>4. d \in Records /\ d.level[den] = config.tier
  BY <1>1, ChanmodAssumption DEF Records
<1> HIDE DEF d
<1>5. f \in Records /\ f.level[den] = config.tier
  BY <1>1, <1>4, ChanmodAssumption DEF Records
<1> HIDE DEF f
<1>6. g \in Records /\ g.level[den] = config.tier
  BY <1>5 DEF Records
<1>7. AtLeast(config.tier, config.tier)
  BY LeastAccess
<1> QED BY <1>2, <1>3, <1>6, <1>7 DEF Accesses

(* Every configuration starts within the invariant.                         *)
THEOREM ChanmodInitial == ChanmodInit => SoundNow
<1> SUFFICES ASSUME ChanmodInit PROVE SoundNow
  OBVIOUS
<1>1. config \in Configurations
  BY ChanmodAssumption DEF ChanmodInit
<1>2. Start(config.settings) \in Bots(config)
  <2>1. Seeded(config.settings) \in Accesses(config)
    BY <1>1, Seeding
  <2>2. 0 \in 0 .. MaxScore /\ "good" \in Names
    BY Named DEF MaxScore
  <2>3. FALSE \in IF config.nethack > 0 THEN BOOLEAN ELSE {FALSE}
    OBVIOUS
  <2> QED BY <2>1, <2>2, <2>3, Windows DEF Start, Bots
<1>3. bot \in Bots(config) /\ bot.cycling = FALSE
  <2> DEFINE s == Start(config.settings)
             k == config.start = "in"
             c == [s EXCEPT !.known = k]
             a == IF config.start = "in" THEN Told(config.settings) ELSE c.acc
  <2>1. s \in Bots(config) /\ s.cycling = FALSE
    BY <1>2 DEF Start
  <2>2. bot = [c EXCEPT !.acc = a]
    BY <2>1 DEF ChanmodInit, Bots
  <2>6. k \in BOOLEAN
    OBVIOUS
  <2> HIDE DEF s, k
  <2>3. c \in Bots(config) /\ c.cycling = FALSE
    BY <2>1, <2>6 DEF Bots
  <2>4. c.acc \in Accesses(config)
    BY <2>3 DEF Bots
  <2> HIDE DEF c
  <2>5. a \in Accesses(config)
    BY <1>1, <2>4, Told_Access
  <2> HIDE DEF a
  <2> QED BY <2>2, <2>3, <2>5 DEF Bots
<1>4. chan \in ChannelRecords /\ chan.ops \subseteq chan.users \cup (IF chan.in THEN {"bot"} ELSE {})
  BY <1>1, Named DEF ChanmodInit, ChannelRecords, Wanted, Configurations
<1>5. out \in Seq(Commands(config))
  <2>1. C("JOIN", "-") \in Commands(config)
    BY Named, Harmless_Commands DEF Harmless
  <2>2. <<C("JOIN", "-")>> \in Seq(Commands(config)) /\ <<>> \in Seq(Commands(config))
    BY <2>1
  <2> QED BY <2>2 DEF ChanmodInit
<1>6. timers = {} /\ refused = "no" /\ config \in Configs
  BY DEF ChanmodInit
<1>7. Now \in Worlds(config)
  BY <1>3, <1>4, <1>5, <1>6 DEF Now, Worlds
<1> QED BY <1>3, <1>4, <1>6, <1>7 DEF SoundNow, Sound, Now, OpsIn, CycleIn, WaitIn

(* Every step of the bot, the server, ChanServ and the others keeps it.      *)
THEOREM ChanmodInductive == SoundNow /\ [ChanmodNext]_chanmodVars => SoundNow'
<1>1. ASSUME SoundNow, UNCHANGED chanmodVars PROVE SoundNow'
  BY <1>1 DEF SoundNow, Now, chanmodVars
<1>2. ASSUME SoundNow, ChanmodNext PROVE SoundNow'
  <2>1. CASE Fire \/ Verified \/ TimedOut \/ Lapse \/ PresenceCheck
    BY <1>2, <2>1, Fire_Sound, Verified_Sound, TimedOut_Sound, Lapse_Sound, PresenceCheck_Sound
  <2>2. CASE Join \/ Part \/ Operate \/ Serve \/ RecoverDone \/ Answer
    BY <1>2, <2>2, Join_Sound, Part_Sound, Operate_Sound, Serve_Sound, RecoverDone_Sound, Answer_Sound
  <2>3. CASE KickBot \/ BanBot \/ BanFriend \/ Lock \/ Unlock \/ Depose \/ Vandalise
    BY <1>2, <2>3, KickBot_Sound, BanBot_Sound, BanFriend_Sound, Lock_Sound, Unlock_Sound, Depose_Sound, Vandalise_Sound
  <2>4. CASE Netsplit \/ ServerOps \/ FriendReturns \/ Order \/ Invite \/ Chanset
    BY <1>2, <2>4, Netsplit_Sound, ServerOps_Sound, FriendReturns_Sound, Order_Sound, Invite_Sound, Chanset_Sound
  <2> QED BY <1>2, <2>1, <2>2, <2>3, <2>4 DEF ChanmodNext
<1> QED BY <1>1, <1>2

LEMMA ChanmodTyped == SoundNow => ChanmodTypeOK
<1> SUFFICES ASSUME SoundNow PROVE ChanmodTypeOK
  OBVIOUS
<1>1. Safe(Now) /\ Now.chan = chan /\ Now.bot = bot /\ config \in Configs
  BY DEF SoundNow, Safe, Now
<1>2. chan \in ChannelRecords /\ bot \in Bots(config) /\ bot.acc \in Accesses(config)
  BY <1>1, Typed
<1>3. bot.acc \in AccessRecords
  <2>1. Seq({den}) \subseteq Seq(Chans)
    BY ChanmodAssumption, SeqMonotonic
  <2> QED BY <1>2, <2>1, ChanmodAssumption DEF Accesses, Records, AccessRecords
<1>4. refused \in {"no", "cooldown", "access", "suppressed"}
  <2>1. Now \in Worlds(config)
    BY <1>1, Typed
  <2> QED BY <2>1 DEF Worlds, Now
<1>5. chan.in \in BOOLEAN /\ chan.users \subseteq Users
  BY <1>2 DEF ChannelRecords
<1>6. chan.ops \subseteq chan.users \cup (IF chan.in THEN {"bot"} ELSE {})
  BY <1>1 DEF Safe, Sound, OpsIn
<1>7. /\ bot.recovery \in {"none", "cooling", "ready"} /\ bot.score \in 0 .. MaxScore /\ bot.intent \subseteq Users
      /\ {bot.rejoins, bot.cool, bot.punish, bot.cycles} \subseteq Window
  BY <1>2 DEF Bots
<1> QED BY <1>1, <1>3, <1>4, <1>5, <1>6, <1>7 DEF ChanmodTypeOK

(* No command against a master but for the two options, one timer of a cycle *)
(* at a time, the back-off kept while the bot is refused entry, and no more   *)
(* access reckoned with than ChanServ has.                                   *)
LEMMA ChanmodRestrained == SoundNow => Restrained
<1> SUFFICES ASSUME SoundNow PROVE Restrained
  OBVIOUS
<1>1. Safe(Now) /\ Now.out = out /\ Now.bot = bot /\ Now.timers = timers /\ Now.refused = refused
  BY DEF SoundNow, Safe, Now
<1>2. FriendsSpared
  <2>1. out \in Seq(Commands(config))
    BY <1>1, Typed
  <2>2. \A i \in DOMAIN out : out[i] \in Commands(config)
    BY <2>1, ElementOfSeq, LenProperties
  <2> QED BY <2>2 DEF FriendsSpared, Commands, Harmful
<1>3. OneCycle /\ StillWaiting
  BY <1>1 DEF Safe, Sound, CycleIn, WaitIn, OneCycle, StillWaiting
<1>4. Reckoned
  <2>1. bot.acc \in Accesses(config)
    BY <1>1, Typed
  <2> QED BY <2>1 DEF Accesses, Records, Reckoned
<1> QED BY <1>2, <1>3, <1>4, ChanmodTyped DEF Restrained

(* Restrained always holds, whatever the configuration and whatever others    *)
(* do (mode-enforce*.ts, protection.ts, join-recovery.ts, chanserv-notice*.ts). *)
THEOREM RestrainedAlways == ChanmodSpec => []Restrained
BY ChanmodInitial, ChanmodInductive, ChanmodRestrained, PTL DEF ChanmodSpec

----------------------------------------------------------------------------
(* MessageQueue                                                            *)

(* The inductive invariant.  Paid is WireRate with the credit still in the   *)
(* bucket counted in; it is what every send and every refill preserves.      *)
Paid == sent * Cost + Refilled <= Capacity + window
Inv == TypeOK /\ Consistent /\ IsFiniteSet(Pending) /\ Paid

USE ConstantsAssumption

(* The bucket holds at least one message and the configured burst.         *)
LEMMA CapacityFacts ==
    /\ Capacity \in Nat /\ Capacity >= Cost
    /\ Burst * Cost \in 0..Capacity
    /\ Cost \in Nat /\ Cost > 0
<1>1. Burst * Cost \in Nat
  BY SMT
<1> QED BY <1>1, SMT DEF Capacity, Greatest

(* What is pending after a message is appended to one sub-queue.           *)
LEMMA PendingAppend ==
    ASSUME NEW t \in Target, NEW id \in MsgId,
           subQueues \in [Target -> Seq(MsgId)],
           subQueues' = [subQueues EXCEPT ![t] = Append(@, id)],
           IsFiniteSet(Pending)
    PROVE  IsFiniteSet(Pending') /\ Cardinality(Pending') = Cardinality(Pending) + 1
<1> DEFINE x == <<t, Len(subQueues[t]) + 1>>
<1>1. \A u \in Target : DOMAIN subQueues'[u] =
          IF u = t THEN DOMAIN subQueues[u] \cup {Len(subQueues[t]) + 1}
          ELSE DOMAIN subQueues[u]
  <2>1. DOMAIN Append(subQueues[t], id) = 1..(Len(subQueues[t]) + 1)
    BY AppendProperties, subQueues[t] \in Seq(MsgId)
  <2>2. DOMAIN subQueues[t] = 1..Len(subQueues[t]) /\ Len(subQueues[t]) \in Nat
    BY LenProperties, subQueues[t] \in Seq(MsgId)
  <2>3. 1..(Len(subQueues[t]) + 1) = 1..Len(subQueues[t]) \cup {Len(subQueues[t]) + 1}
    BY <2>2
  <2>4. ASSUME NEW u \in Target, u # t PROVE subQueues'[u] = subQueues[u]
    BY <2>4, Zenon
  <2>5. subQueues'[t] = Append(subQueues[t], id)
    BY Zenon
  <2> QED BY <2>1, <2>2, <2>3, <2>4, <2>5, Zenon
<1>2. Pending' = Pending \cup {x}
  <2> DEFINE Slots(u) == {u} \X DOMAIN subQueues[u]
             SlotsNow(u) == {u} \X DOMAIN subQueues'[u]
  <2>2. \A u \in Target : SlotsNow(u) = IF u = t THEN Slots(u) \cup {x} ELSE Slots(u)
    BY <1>1
  <2>3. Pending = UNION {Slots(u) : u \in Target} /\ Pending' = UNION {SlotsNow(u) : u \in Target}
    BY DEF Pending
  <2> HIDE DEF x, Slots, SlotsNow
  <2>1. ASSUME NEW p PROVE p \in Pending' <=> p \in Pending \cup {x}
    <3>1. p \in Pending' <=> \E u \in Target : p \in SlotsNow(u)
      BY <2>3, Zenon
    <3>2. p \in Pending <=> \E u \in Target : p \in Slots(u)
      BY <2>3, Zenon
    <3> QED BY <3>1, <3>2, <2>2
  <2> QED BY <2>1, Zenon
<1>3. x \notin Pending
  <2>1. Len(subQueues[t]) + 1 \notin DOMAIN subQueues[t]
    BY LenProperties, subQueues[t] \in Seq(MsgId)
  <2> QED BY <2>1 DEF Pending
<1> QED BY <1>2, <1>3, FS_AddElement

(* What is pending after the first message of a sub-queue is taken.        *)
LEMMA PendingTail ==
    ASSUME NEW t \in Target,
           subQueues \in [Target -> Seq(MsgId)], subQueues[t] # <<>>,
           subQueues' = [subQueues EXCEPT ![t] = Tail(@)],
           IsFiniteSet(Pending)
    PROVE  IsFiniteSet(Pending') /\ Cardinality(Pending') = Cardinality(Pending) - 1
<1> DEFINE x == <<t, Len(subQueues[t])>>
<1>1. \A u \in Target : DOMAIN subQueues'[u] =
          IF u = t THEN DOMAIN subQueues[u] \ {Len(subQueues[t])}
          ELSE DOMAIN subQueues[u]
  <2>1. /\ Tail(subQueues[t]) \in Seq(MsgId)
        /\ Len(Tail(subQueues[t])) = Len(subQueues[t]) - 1
    BY HeadTailProperties, subQueues[t] \in Seq(MsgId)
  <2>2. DOMAIN subQueues[t] = 1..Len(subQueues[t]) /\ Len(subQueues[t]) \in Nat
    BY LenProperties, subQueues[t] \in Seq(MsgId)
  <2>3. DOMAIN Tail(subQueues[t]) = 1..(Len(subQueues[t]) - 1)
    BY <2>1, LenProperties
  <2>4. 1..(Len(subQueues[t]) - 1) = 1..Len(subQueues[t]) \ {Len(subQueues[t])}
    BY <2>2
  <2>5. ASSUME NEW u \in Target, u # t PROVE subQueues'[u] = subQueues[u]
    BY <2>5, Zenon
  <2>6. subQueues'[t] = Tail(subQueues[t])
    BY Zenon
  <2> QED BY <2>2, <2>3, <2>4, <2>5, <2>6, Zenon
<1>2. Pending' = Pending \ {x}
  <2> DEFINE Slots(u) == {u} \X DOMAIN subQueues[u]
             SlotsNow(u) == {u} \X DOMAIN subQueues'[u]
  <2>2. \A u \in Target : SlotsNow(u) = IF u = t THEN Slots(u) \ {x} ELSE Slots(u)
    BY <1>1
  <2>4. \A u \in Target : x \in Slots(u) => u = t
    OBVIOUS
  <2>3. Pending = UNION {Slots(u) : u \in Target} /\ Pending' = UNION {SlotsNow(u) : u \in Target}
    BY DEF Pending
  <2> HIDE DEF x, Slots, SlotsNow
  <2>1. ASSUME NEW p PROVE p \in Pending' <=> p \in Pending \ {x}
    <3>1. p \in Pending' <=> \E u \in Target : p \in SlotsNow(u)
      BY <2>3, Zenon
    <3>2. p \in Pending <=> \E u \in Target : p \in Slots(u)
      BY <2>3, Zenon
    <3> QED BY <3>1, <3>2, <2>2, <2>4
  <2> QED BY <2>1, Zenon
<1>3. x \in Pending
  <2>1. Len(subQueues[t]) \in DOMAIN subQueues[t]
    BY LenProperties, EmptySeq, subQueues[t] \in Seq(MsgId)
  <2> QED BY <2>1 DEF Pending
<1> QED BY <1>2, <1>3, FS_RemoveElement

-----------------------------------------------------------------------------
Lined == IsFiniteSet(Pending) /\ Consistent

LEMMA SuccType == \A id \in MsgId : Succ(id) \in MsgId
  BY SMT DEF MsgId, Succ

(* Whatever refill() and the send of one message do to the bucket, it stays  *)
(* within its capacity.                                                    *)
LEMMA RefilledType == TypeOK => Refilled \in 0..Capacity
  BY CapacityFacts, SMT DEF TypeOK, Refilled, Least

(* A new target enters at the tail of the rotation, the counter goes up.    *)
LEMMA EnqueueOrder ==
    ASSUME TypeOK, Lined, NEW t \in Target, NEW id \in MsgId,
           ~Full, EnqueueToSubQueue(t, id)
    PROVE  /\ subQueues' \in [Target -> Seq(MsgId)]
           /\ targetOrder' \in Seq(Target)
           /\ totalPending' \in Nat
           /\ rrIndex' \in Nat
           /\ Lined'
<1> USE DEF TypeOK, EnqueueToSubQueue
<1>1. subQueues' \in [Target -> Seq(MsgId)]
  BY AppendProperties
<1>2. targetOrder' \in Seq(Target)
  BY AppendProperties
<1>3. IsFiniteSet(Pending') /\ Cardinality(Pending') = Cardinality(Pending) + 1
  BY PendingAppend DEF Lined
<1>4. Counted'
  BY <1>3 DEF Lined, Consistent, Counted, Full
<1>5. /\ subQueues'[t] # <<>>
      /\ \A u \in Target \ {t} : subQueues'[u] = subQueues[u]
  <2>1. Append(subQueues[t], id) # <<>>
    BY AppendProperties, EmptySeq, subQueues[t] \in Seq(MsgId)
  <2>2. /\ subQueues'[t] = Append(subQueues[t], id)
        /\ \A u \in Target \ {t} : subQueues'[u] = subQueues[u]
    BY Zenon
  <2> QED BY <2>1, <2>2, Zenon
<1>6. ListedOnce' /\ ListedIffPending' /\ CursorInRange'
  <2> USE DEF Lined, Consistent, ListedOnce, ListedIffPending, CursorInRange
  <2>1. CASE subQueues[t] = <<>>
    <3>1. /\ DOMAIN targetOrder' = 1..(Len(targetOrder) + 1)
          /\ DOMAIN targetOrder = 1..Len(targetOrder)
          /\ Len(targetOrder) \in Nat
          /\ Len(targetOrder') = Len(targetOrder) + 1
          /\ \A i \in 1..Len(targetOrder) : targetOrder'[i] = targetOrder[i]
          /\ targetOrder'[Len(targetOrder) + 1] = t
      BY <2>1, AppendProperties, LenProperties
    <3>2. \A i \in DOMAIN targetOrder : targetOrder[i] # t
      BY <2>1
    <3>6. \A i \in DOMAIN targetOrder' : i \in DOMAIN targetOrder \/ i = Len(targetOrder) + 1
      BY <3>1
    <3>7. rrIndex' = rrIndex /\ rrIndex \in Nat
      OBVIOUS
    <3> HIDE DEF TypeOK, EnqueueToSubQueue
    <3>3. ListedOnce'
      <4> SUFFICES ASSUME NEW i \in DOMAIN targetOrder', NEW j \in DOMAIN targetOrder',
                          targetOrder'[i] = targetOrder'[j]
                   PROVE  i = j
        BY DEF ListedOnce
      <4> QED BY <3>1, <3>2, <3>6
    <3>4. ListedIffPending'
      <4> SUFFICES ASSUME NEW u \in Target
                   PROVE  subQueues'[u] # <<>> <=>
                              \E i \in DOMAIN targetOrder' : targetOrder'[i] = u
        BY DEF ListedIffPending
      <4>1. CASE u = t
        BY <4>1, <1>5, <3>1
      <4>2. CASE u # t
        <5>1. subQueues'[u] = subQueues[u]
          BY <4>2, <1>5
        <5> QED BY <4>2, <5>1, <3>1, <3>6
      <4> QED BY <4>1, <4>2
    <3>5. CursorInRange'
      BY <3>1, <3>7, EmptySeq
    <3> QED BY <3>3, <3>4, <3>5
  <2>2. CASE subQueues[t] # <<>>
    BY <2>2, <1>5
  <2> QED BY <2>1, <2>2
<1> QED BY <1>1, <1>2, <1>3, <1>4, <1>6 DEF Lined, Consistent

(* When messages are pending the cursor is on a target that has some, and    *)
(* that target is where the rotation lists it.                             *)
LEMMA CursorOnPending ==
    ASSUME TypeOK, Lined, totalPending > 0
    PROVE  LET t == targetOrder[rrIndex + 1] IN
           /\ Clamp(rrIndex, Len(targetOrder)) = rrIndex
           /\ rrIndex + 1 \in 1..Len(targetOrder)
           /\ t \in Target /\ subQueues[t] # <<>>
           /\ Position(t) = rrIndex + 1
<1> DEFINE t == targetOrder[rrIndex + 1]
<1> USE DEF TypeOK, Lined, Consistent
<1>1. targetOrder # <<>>
  <2>1. Pending # {}
    BY FS_EmptySet DEF Counted
  <2>2. PICK u \in Target : DOMAIN subQueues[u] # {}
    BY <2>1 DEF Pending
  <2>3. subQueues[u] # <<>>
    BY <2>2, EmptySeq, LenProperties, subQueues[u] \in Seq(MsgId)
  <2> QED BY <2>3 DEF ListedIffPending
<1>2. rrIndex < Len(targetOrder)
  BY <1>1, Zenon DEF CursorInRange
<1>3. /\ Len(targetOrder) \in Nat /\ rrIndex \in Nat
      /\ DOMAIN targetOrder = 1..Len(targetOrder)
  BY LenProperties
<1>4. rrIndex + 1 \in 1..Len(targetOrder)
  BY <1>2, <1>3
<1>5. t \in Target
  BY <1>4, ElementOfSeq
<1>6. subQueues[t] # <<>>
  BY <1>3, <1>4, <1>5 DEF ListedIffPending
<1>7. Position(t) = rrIndex + 1
  <2>1. \A i \in DOMAIN targetOrder : targetOrder[i] = t => i = rrIndex + 1
    BY <1>3, <1>4 DEF ListedOnce
  <2> QED BY <2>1, <1>3, <1>4 DEF Position
<1>8. Clamp(rrIndex, Len(targetOrder)) = rrIndex
  BY <1>2, <1>3 DEF Clamp
<1> QED BY <1>4, <1>5, <1>6, <1>7, <1>8

(* Popping a message keeps the queue in order, whether or not its target    *)
(* leaves the rotation.                                                    *)
LEMMA PopOrder ==
    ASSUME TypeOK, Lined, totalPending > 0, PopNext
    PROVE  /\ subQueues' \in [Target -> Seq(MsgId)]
           /\ targetOrder' \in Seq(Target)
           /\ totalPending' \in Nat
           /\ rrIndex' \in Nat
           /\ delivered' \in [Target -> MsgId]
           /\ Lined'
<1> DEFINE t == targetOrder[rrIndex + 1]
           n == Len(targetOrder)
<1>1. /\ rrIndex + 1 \in 1..n /\ n \in Nat
      /\ t \in Target /\ subQueues[t] # <<>>
      /\ Position(t) = rrIndex + 1
      /\ DOMAIN targetOrder = 1..n
      /\ rrIndex \in Nat
      /\ \A i \in 1..n : targetOrder[i] \in Target
  BY CursorOnPending, LenProperties, ElementOfSeq DEF TypeOK
<1>2. /\ subQueues' = [subQueues EXCEPT ![t] = Tail(@)]
      /\ totalPending' = totalPending - 1
      /\ Send(t, Head(subQueues[t]))
      /\ IF Len(subQueues[t]) = 1
         THEN targetOrder' = Without(t) /\ rrIndex' = CursorAfterRemoval(rrIndex, rrIndex)
         ELSE targetOrder' = targetOrder /\ rrIndex' = CursorAfterVisit(rrIndex)
  BY CursorOnPending, <1>1 DEF PopNext
<1>3. /\ Tail(subQueues[t]) \in Seq(MsgId)
      /\ Len(Tail(subQueues[t])) = Len(subQueues[t]) - 1
      /\ Head(subQueues[t]) \in MsgId
      /\ Len(subQueues[t]) \in Nat
  BY <1>1, HeadTailProperties, LenProperties, subQueues[t] \in Seq(MsgId) DEF TypeOK
<1>4. /\ subQueues' \in [Target -> Seq(MsgId)]
      /\ subQueues'[t] = Tail(subQueues[t])
      /\ \A u \in Target \ {t} : subQueues'[u] = subQueues[u]
  BY <1>1, <1>2, <1>3 DEF TypeOK
<1>5. delivered' \in [Target -> MsgId]
  BY <1>1, <1>2, <1>3 DEF Send, TypeOK
<1>6. IsFiniteSet(Pending') /\ Cardinality(Pending') = Cardinality(Pending) - 1
  BY <1>1, <1>2, PendingTail DEF Lined, TypeOK
<1>7. totalPending' \in Nat /\ Counted'
  BY <1>2, <1>6 DEF Lined, Consistent, Counted, TypeOK
<1>8. /\ targetOrder' \in Seq(Target) /\ rrIndex' \in Nat
      /\ ListedOnce' /\ ListedIffPending' /\ CursorInRange'
  <2>1. CASE Len(subQueues[t]) = 1
    <3>1. subQueues'[t] = <<>>
      <4>1. Len(Tail(subQueues[t])) = 0
        BY <2>1, <1>3
      <4>2. \A q \in Seq(MsgId) : q = <<>> <=> Len(q) = 0
        BY EmptySeq
      <4> QED BY <4>1, <4>2, <1>3, <1>4
    <3>2. targetOrder' =
              [i \in 1..(n - 1) |-> targetOrder[IF i < rrIndex + 1 THEN i ELSE i + 1]]
      BY <2>1, <1>1, <1>2 DEF Without
    <3>3. /\ targetOrder' \in Seq(Target) /\ Len(targetOrder') = n - 1
          /\ DOMAIN targetOrder' = 1..(n - 1)
      <4>1. n - 1 \in Nat
        BY <1>1
      <4>2. \A i \in 1..(n - 1) : targetOrder'[i] \in Target
        BY <1>1, <3>2
      <4>3. targetOrder' \in [1..(n - 1) -> Target]
        BY <3>2, <4>2
      <4> QED BY <4>1, <4>3, IsASeq, LenProperties
    <3>4. ListedOnce'
      BY <1>1, <3>2, <3>3 DEF Lined, Consistent, ListedOnce
    <3>5. ListedIffPending'
      <4> SUFFICES ASSUME NEW u \in Target
                   PROVE  subQueues'[u] # <<>> <=>
                              \E i \in 1..(n - 1) : targetOrder'[i] = u
        BY <3>3 DEF ListedIffPending
      <4>1. CASE u = t
        BY <4>1, <1>1, <3>1, <3>2 DEF Lined, Consistent, ListedOnce
      <4>2. CASE u # t
        <5>1. subQueues'[u] # <<>> <=> \E i \in 1..n : targetOrder[i] = u
          BY <4>2, <1>1, <1>4 DEF Lined, Consistent, ListedIffPending
        <5>2. ASSUME NEW i \in 1..n, targetOrder[i] = u
              PROVE  \E j \in 1..(n - 1) : targetOrder'[j] = u
          <6>1. i # rrIndex + 1
            BY <4>2, <5>2
          <6>2. CASE i < rrIndex + 1
            BY <1>1, <3>2, <5>2, <6>2
          <6>3. CASE i > rrIndex + 1
            <7>1. i - 1 \in 1..(n - 1) /\ targetOrder'[i - 1] = u
              BY <1>1, <3>2, <5>2, <6>3
            <7> QED BY <7>1
          <6> QED BY <1>1, <6>1, <6>2, <6>3
        <5>3. ASSUME NEW j \in 1..(n - 1), targetOrder'[j] = u
              PROVE  \E i \in 1..n : targetOrder[i] = u
          BY <1>1, <3>2, <5>3
        <5> QED BY <5>1, <5>2, <5>3
      <4> QED BY <4>1, <4>2
    <3>6. rrIndex' \in Nat /\ CursorInRange'
      <4>1. rrIndex' = IF rrIndex >= n - 1 THEN 0 ELSE rrIndex
        BY <2>1, <1>1, <1>2 DEF CursorAfterRemoval, Clamp
      <4>2. n - 1 = 0 => targetOrder' = <<>>
        BY <3>3, EmptySeq
      <4> QED BY <1>1, <3>3, <4>1, <4>2 DEF CursorInRange
    <3> QED BY <3>3, <3>4, <3>5, <3>6
  <2>2. CASE Len(subQueues[t]) # 1
    <3>1. subQueues'[t] # <<>>
      <4>1. subQueues[t] \in Seq(MsgId)
        BY <1>1 DEF TypeOK
      <4>2. \A q \in Seq(MsgId) : q = <<>> <=> Len(q) = 0
        BY EmptySeq
      <4>3. Len(Tail(subQueues[t])) # 0
        BY <2>2, <1>1, <1>3, <4>1, <4>2
      <4> QED BY <4>2, <4>3, <1>3, <1>4
    <3>2. targetOrder' = targetOrder /\ targetOrder' \in Seq(Target)
      BY <2>2, <1>2 DEF TypeOK
    <3>3. ListedOnce' /\ ListedIffPending'
      BY <1>1, <1>4, <3>1, <3>2 DEF Lined, Consistent, ListedOnce, ListedIffPending
    <3>4. rrIndex' \in Nat /\ CursorInRange'
      BY <2>2, <1>1, <1>2, <3>2 DEF CursorAfterVisit, Clamp, CursorInRange
    <3> QED BY <3>2, <3>3, <3>4
  <2> QED BY <2>1, <2>2
<1> QED BY <1>4, <1>5, <1>6, <1>7, <1>8 DEF Lined, Consistent

-----------------------------------------------------------------------------
(* The steps that change the queue.  In each, credit spent and credit left   *)
(* in the bucket together never exceed what time has paid for.              *)
LEMMA InitInv == Init => Inv
<1> SUFFICES ASSUME Init PROVE Inv
  OBVIOUS
<1> USE DEF Init
<1>1. TypeOK
  <2>1. <<>> \in Seq(MsgId) /\ <<>> \in Seq(Target)
    BY EmptySeq
  <2>2. 0 \in MsgId
    BY SMT DEF MsgId
  <2>3. budgetMs \in 0..Capacity /\ sinceRefill \in 0..Capacity
    BY CapacityFacts, SMT
  <2>4. /\ subQueues \in [Target -> Seq(MsgId)]
        /\ accepted \in [Target -> MsgId]
        /\ delivered \in [Target -> MsgId]
    BY <2>1, <2>2, Zenon
  <2>5. rrIndex \in Nat /\ totalPending \in Nat /\ window \in Nat /\ sent \in Nat
    BY SMT
  <2>6. stopped \in BOOLEAN
    BY Zenon
  <2> QED BY <2>1, <2>3, <2>4, <2>5, <2>6, Zenon DEF TypeOK
<1>2. Pending = {}
  <2>1. \A t \in Target : DOMAIN subQueues[t] = {}
    BY EmptySeq
  <2> QED BY <2>1 DEF Pending
<1>3. IsFiniteSet(Pending) /\ Cardinality(Pending) = 0
  BY <1>2, FS_EmptySet
<1>4. Consistent
  BY <1>3, EmptySeq DEF Consistent, ListedOnce, ListedIffPending, Counted, CursorInRange
<1>5. Paid
  <2>1. Refilled = Burst * Cost
    BY CapacityFacts DEF Refilled, Least
  <2> QED BY <2>1, CapacityFacts DEF Paid
<1> QED BY <1>1, <1>3, <1>4, <1>5 DEF Inv

LEMMA EnqueueInv == ASSUME Inv, NEW t \in Target, Enqueue(t) PROVE Inv'
<1> DEFINE id == Succ(accepted[t])
<1>1. id \in MsgId
  BY SuccType DEF Inv, TypeOK
<1>2. Refilled \in 0..Capacity
  BY RefilledType DEF Inv
<1>3. sinceRefill' = 0 /\ stopped' = stopped
  BY DEF Enqueue
<1>4. CASE SendsInline(Refilled) /\ budgetMs' = Refilled - Cost /\ Send(t, id)
           /\ accepted' = [accepted EXCEPT ![t] = id] /\ UNCHANGED queueVars
  <2>1. Consistent' /\ IsFiniteSet(Pending')
    BY <1>4 DEF Inv, queueVars, Consistent, ListedOnce, ListedIffPending, Counted,
                CursorInRange, Pending
  <2>2. budgetMs' \in 0..Capacity
    BY <1>2, <1>4, CapacityFacts DEF SendsInline
  <2>3. TypeOK'
    BY <1>1, <1>3, <1>4, <2>2, CapacityFacts DEF Inv, TypeOK, queueVars, Send, Capacity
  <2>4. Paid'
    <3>1. Refilled' = Refilled - Cost
      BY <1>2, <1>3, <1>4, <2>2, CapacityFacts DEF Refilled, Least, Capacity
    <3>2. (sent + 1) * Cost = sent * Cost + Cost /\ sent * Cost \in Nat
      BY CapacityFacts DEF Inv, TypeOK
    <3> QED BY <1>2, <1>4, <3>1, <3>2, CapacityFacts
            DEF Inv, TypeOK, Paid, Send, Capacity
  <2> QED BY <2>1, <2>3, <2>4 DEF Inv
<1>5. CASE /\ ~SendsInline(Refilled) /\ Full /\ budgetMs' = Refilled
           /\ UNCHANGED <<queueVars, observed>>
  <2>1. Consistent' /\ IsFiniteSet(Pending')
    BY <1>5 DEF Inv, queueVars, Consistent, ListedOnce, ListedIffPending, Counted,
                CursorInRange, Pending
  <2>2. TypeOK'
    BY <1>2, <1>3, <1>5, CapacityFacts DEF Inv, TypeOK, queueVars, observed, Capacity
  <2>3. Refilled' = Refilled
    BY <1>2, <1>3, <1>5, CapacityFacts DEF Refilled, Least, Capacity
  <2>4. Paid'
    BY <1>5, <2>3 DEF Inv, Paid, observed, Capacity
  <2> QED BY <2>1, <2>2, <2>4 DEF Inv
<1>6. CASE /\ ~SendsInline(Refilled) /\ ~Full /\ budgetMs' = Refilled
           /\ EnqueueToSubQueue(t, id) /\ accepted' = [accepted EXCEPT ![t] = id]
           /\ UNCHANGED <<delivered, window, sent>>
  <2>1. /\ subQueues' \in [Target -> Seq(MsgId)]
        /\ targetOrder' \in Seq(Target)
        /\ totalPending' \in Nat
        /\ rrIndex' \in Nat
        /\ IsFiniteSet(Pending') /\ Consistent'
    BY <1>1, <1>6, EnqueueOrder DEF Inv, Lined
  <2>2. TypeOK'
    <3>1. accepted' \in [Target -> MsgId']
      BY <1>1, <1>6 DEF Inv, TypeOK, MsgId
    <3>2. delivered' \in [Target -> MsgId'] /\ subQueues' \in [Target -> Seq(MsgId')]
      BY <1>6, <2>1 DEF Inv, TypeOK, MsgId
    <3> QED BY <1>2, <1>3, <1>6, <2>1, <3>1, <3>2, CapacityFacts DEF Inv, TypeOK, Capacity
  <2>3. Refilled' = Refilled
    BY <1>2, <1>3, <1>6, CapacityFacts DEF Refilled, Least, Capacity
  <2>4. Paid'
    BY <1>6, <2>3 DEF Inv, Paid, Capacity
  <2> QED BY <2>1, <2>2, <2>4 DEF Inv
<1> QED BY <1>4, <1>5, <1>6 DEF Enqueue

LEMMA DrainInv == ASSUME Inv, Drain PROVE Inv'
<1>1. Refilled \in 0..Capacity
  BY RefilledType DEF Inv
<1>2. totalPending > 0 /\ sinceRefill' = 0 /\ stopped' = stopped /\ accepted' = accepted
  BY DEF Drain
<1>3. CASE Refilled < Cost /\ budgetMs' = Refilled
           /\ UNCHANGED <<queueVars, delivered, window, sent>>
  <2>1. Consistent' /\ IsFiniteSet(Pending')
    BY <1>3 DEF Inv, queueVars, Consistent, ListedOnce, ListedIffPending, Counted,
                CursorInRange, Pending
  <2>2. TypeOK'
    BY <1>1, <1>2, <1>3, CapacityFacts DEF Inv, TypeOK, queueVars, Capacity
  <2>3. Refilled' = Refilled
    BY <1>1, <1>2, <1>3, CapacityFacts DEF Refilled, Least, Capacity
  <2>4. Paid'
    BY <1>3, <2>3 DEF Inv, Paid, Capacity
  <2> QED BY <2>1, <2>2, <2>4 DEF Inv
<1>4. CASE Refilled >= Cost /\ budgetMs' = Refilled - Cost /\ PopNext
  <2>1. /\ subQueues' \in [Target -> Seq(MsgId)]
        /\ targetOrder' \in Seq(Target)
        /\ totalPending' \in Nat
        /\ rrIndex' \in Nat
        /\ delivered' \in [Target -> MsgId]
        /\ IsFiniteSet(Pending') /\ Consistent'
    BY <1>2, <1>4, PopOrder DEF Inv, Lined
  <2>2. sent' = sent + 1 /\ window' = window
    BY <1>4 DEF PopNext, Send
  <2>3. budgetMs' \in 0..Capacity
    BY <1>1, <1>4, CapacityFacts
  <2>4. TypeOK'
    BY <1>2, <2>1, <2>2, <2>3, CapacityFacts DEF Inv, TypeOK, Capacity, MsgId
  <2>5. Paid'
    <3>1. Refilled' = Refilled - Cost
      BY <1>1, <1>2, <1>4, <2>3, CapacityFacts DEF Refilled, Least, Capacity
    <3>2. (sent + 1) * Cost = sent * Cost + Cost /\ sent * Cost \in Nat
      BY CapacityFacts DEF Inv, TypeOK
    <3> QED BY <1>1, <2>2, <3>1, <3>2, CapacityFacts DEF Inv, TypeOK, Paid, Capacity
  <2> QED BY <2>1, <2>4, <2>5 DEF Inv
<1> QED BY <1>3, <1>4 DEF Drain

(* clear() and flush() leave an empty queue, and a full or an old bucket.   *)
LEMMA EmptyQueueInv ==
    ASSUME Inv, EmptyQueue, BeginWindow, stopped' \in BOOLEAN, accepted' = accepted,
           budgetMs' \in 0..Capacity, sinceRefill' \in 0..Capacity
    PROVE  Inv'
<1> USE DEF EmptyQueue, BeginWindow
<1>1. TypeOK'
  <2>1. <<>> \in Seq(MsgId') /\ <<>> \in Seq(Target)
    BY EmptySeq
  <2> QED BY <2>1, CapacityFacts DEF Inv, TypeOK, Capacity, MsgId
<1>2. Pending' = {}
  <2>1. \A t \in Target : DOMAIN subQueues'[t] = {}
    BY EmptySeq
  <2> QED BY <2>1 DEF Pending
<1>3. IsFiniteSet(Pending') /\ Cardinality(Pending') = 0
  BY <1>2, FS_EmptySet
<1>4. Consistent'
  BY <1>3, EmptySeq DEF Consistent, ListedOnce, ListedIffPending, Counted, CursorInRange
<1>5. Paid'
  <2>1. Refilled' \in 0..Capacity
    <3>1. Capacity' = Capacity
      BY Zenon DEF Capacity
    <3>2. Refilled' = Least(Capacity, budgetMs' + sinceRefill')
      BY <3>1, Zenon DEF Refilled
    <3>3. \A a, b \in 0..Capacity : Least(Capacity, a + b) \in 0..Capacity
      BY CapacityFacts, SMT DEF Least
    <3> QED BY <3>1, <3>2, <3>3, Zenon
  <2> QED BY <2>1, CapacityFacts DEF Paid, Capacity
<1> QED BY <1>1, <1>3, <1>4, <1>5 DEF Inv

LEMMA TickInv == ASSUME Inv, Tick PROVE Inv'
<1> USE DEF Tick, queueVars
<1>1. Consistent' /\ IsFiniteSet(Pending')
  BY DEF Inv, Consistent, ListedOnce, ListedIffPending, Counted, CursorInRange, Pending
<1>2. sinceRefill' \in 0..Capacity /\ sinceRefill' <= sinceRefill + 1
  BY CapacityFacts DEF Inv, TypeOK, Least
<1>3. window' \in Nat /\ sent' \in Nat
  BY DEF Inv, TypeOK, BeginWindow
<1>4. TypeOK'
  BY <1>2, <1>3, CapacityFacts DEF Inv, TypeOK, Capacity, MsgId
<1>5. Refilled' \in 0..Capacity /\ Refilled' <= Refilled + 1
  BY <1>2, CapacityFacts DEF Inv, TypeOK, Refilled, Least, Capacity
<1>6. Refilled \in 0..Capacity
  BY RefilledType DEF Inv
<1>7. Paid'
  <2>1. CASE window' = window + 1 /\ sent' = sent
    <3>1. sent * Cost \in Nat
      BY CapacityFacts DEF Inv, TypeOK
    <3>2. Paid /\ window \in Nat
      BY DEF Inv, TypeOK
    <3>3. Capacity' = Capacity /\ Capacity \in Nat
      BY CapacityFacts DEF Capacity
    <3> QED BY <2>1, <3>1, <3>2, <3>3, <1>5, <1>6 DEF Paid
  <2>2. CASE window' = 0 /\ sent' = 0
    BY <2>2, <1>5, CapacityFacts DEF Paid, Capacity
  <2> QED BY <2>1, <2>2 DEF BeginWindow
<1> QED BY <1>1, <1>4, <1>7 DEF Inv

LEMMA ObserveInv == ASSUME Inv, Observe PROVE Inv'
<1> USE DEF Observe, BeginWindow, queueVars
<1>1. Consistent' /\ IsFiniteSet(Pending')
  BY DEF Inv, Consistent, ListedOnce, ListedIffPending, Counted, CursorInRange, Pending
<1>2. TypeOK'
  BY CapacityFacts DEF Inv, TypeOK, Capacity, MsgId
<1>3. Refilled' = Refilled /\ Refilled \in 0..Capacity
  BY RefilledType DEF Inv, Refilled, Least, Capacity
<1>4. Paid'
  BY <1>3, CapacityFacts DEF Paid, Capacity
<1> QED BY <1>1, <1>2, <1>4 DEF Inv

LEMMA StepInv == Inv /\ [Next]_vars => Inv'
<1> SUFFICES ASSUME Inv, [Next]_vars PROVE Inv'
  OBVIOUS
<1>1. ASSUME NEW t \in Target, Enqueue(t) PROVE Inv'
  BY <1>1, EnqueueInv
<1>2. CASE Drain
  BY <1>2, DrainInv
<1>3. CASE Clear
  <2>1. budgetMs' \in 0..Capacity /\ sinceRefill' \in 0..Capacity
    BY <1>3, CapacityFacts DEF Clear
  <2> QED BY <1>3, <2>1, EmptyQueueInv DEF Clear, Inv, TypeOK
<1>4. CASE Shutdown
  BY <1>4, EmptyQueueInv DEF Shutdown, Inv, TypeOK
<1>5. CASE Tick
  BY <1>5, TickInv
<1>6. CASE Observe
  BY <1>6, ObserveInv
<1>7. CASE UNCHANGED vars
  <2> USE <1>7 DEF vars, queueVars, observed
  <2>1. TypeOK'
    BY DEF Inv, TypeOK, Capacity, MsgId
  <2>2. Consistent' /\ IsFiniteSet(Pending')
    BY DEF Inv, Consistent, ListedOnce, ListedIffPending, Counted, CursorInRange, Pending
  <2>3. Refilled' = Refilled
    BY DEF Refilled, Capacity
  <2>4. Paid'
    BY <2>3 DEF Inv, Paid, Capacity
  <2> QED BY <2>1, <2>2, <2>4 DEF Inv
<1> QED BY <1>1, <1>2, <1>3, <1>4, <1>5, <1>6, <1>7 DEF Next

-----------------------------------------------------------------------------
(* Lined of the messages of one target                                      *)

(* One clause of Fifo, without the concatenation: from what was sent last, d, *)
(* the sub-queue q counts up to what was accepted last, a.                   *)
InOrder(d, q, a) ==
    IF q = <<>> THEN a = d
    ELSE /\ q[1] = Succ(d)
         /\ \A i \in 1..(Len(q) - 1) : q[i + 1] = Succ(q[i])
         /\ q[Len(q)] = a

LEMMA FifoIsInOrder ==
    ASSUME TypeOK
    PROVE  Fifo <=> \A t \in Target : InOrder(delivered[t], subQueues[t], accepted[t])
<1> SUFFICES ASSUME NEW t \in Target
             PROVE  LET all == <<delivered[t]>> \o subQueues[t] IN
                    (/\ \A i \in 1..(Len(all) - 1) : all[i + 1] = Succ(all[i])
                     /\ all[Len(all)] = accepted[t])
                    <=> InOrder(delivered[t], subQueues[t], accepted[t])
  BY DEF Fifo
<1> DEFINE d == delivered[t]
           q == subQueues[t]
           all == <<d>> \o q
<1>1. q \in Seq(MsgId) /\ Len(q) \in Nat /\ <<d>> \in Seq(MsgId) /\ Len(<<d>>) = 1
  BY LenProperties DEF TypeOK
<1>2. /\ Len(all) = Len(q) + 1 /\ all[1] = d
      /\ \A i \in 1..Len(q) : all[i + 1] = q[i]
  <2>1. /\ Len(all) = Len(<<d>>) + Len(q)
        /\ \A i \in 1..Len(all) : all[i] = IF i <= Len(<<d>>) THEN <<d>>[i] ELSE q[i - Len(<<d>>)]
    BY <1>1, ConcatProperties
  <2> HIDE DEF all
  <2>2. 1 \in 1..Len(all) /\ \A i \in 1..Len(q) : i + 1 \in 1..Len(all) /\ (i + 1) - 1 = i
    BY <2>1, <1>1
  <2> QED BY <2>1, <2>2, <1>1
<1>3. q = <<>> <=> Len(q) = 0
  BY <1>1, EmptySeq
<1> HIDE DEF d, q, all
<1>4. CASE q = <<>>
  BY <1>1, <1>2, <1>3, <1>4 DEF InOrder, d, q, all
<1>5. CASE q # <<>>
  <2>1. Len(q) >= 1
    BY <1>1, <1>3, <1>5
  <2>2. all[Len(all)] = q[Len(q)]
    BY <1>1, <1>2, <2>1
  <2>3. (\A i \in 1..(Len(all) - 1) : all[i + 1] = Succ(all[i]))
        <=> (q[1] = Succ(d) /\ \A i \in 1..(Len(q) - 1) : q[i + 1] = Succ(q[i]))
    <3>1. ASSUME \A i \in 1..(Len(all) - 1) : all[i + 1] = Succ(all[i])
          PROVE  q[1] = Succ(d) /\ \A i \in 1..(Len(q) - 1) : q[i + 1] = Succ(q[i])
      <4>1. 1 \in 1..(Len(all) - 1) /\ 1 \in 1..Len(q)
        BY <1>1, <1>2, <2>1
      <4>2. all[1 + 1] = Succ(all[1]) /\ all[1 + 1] = q[1]
        BY <3>1, <4>1, <1>2
      <4>3. ASSUME NEW i \in 1..(Len(q) - 1) PROVE q[i + 1] = Succ(q[i])
        <5>1. i + 1 \in 1..(Len(all) - 1) /\ i \in 1..Len(q) /\ i + 1 \in 1..Len(q)
          BY <1>1, <1>2
        <5> QED BY <5>1, <3>1, <1>2
      <4> QED BY <4>2, <4>3, <1>2
    <3>2. ASSUME q[1] = Succ(d), \A i \in 1..(Len(q) - 1) : q[i + 1] = Succ(q[i]),
                 NEW i \in 1..(Len(all) - 1)
          PROVE  all[i + 1] = Succ(all[i])
      <4>1. CASE i = 1
        BY <3>2, <4>1, <1>1, <1>2, <2>1
      <4>2. CASE i # 1
        <5>1. i - 1 \in 1..(Len(q) - 1) /\ i - 1 \in 1..Len(q) /\ i \in 1..Len(q) /\ (i - 1) + 1 = i
          BY <4>2, <1>1, <1>2
        <5>2. all[i + 1] = q[i] /\ all[i] = q[i - 1] /\ q[i] = Succ(q[i - 1])
          BY <5>1, <1>2, <3>2
        <5> QED BY <5>2
      <4> QED BY <4>1, <4>2
    <3> QED BY <3>1, <3>2
  <2> QED BY <1>5, <2>2, <2>3 DEF InOrder, d, q, all
<1> QED BY <1>4, <1>5

(* A message accepted behind the others, and the first one taken to be sent.  *)
LEMMA InOrderAppend ==
    ASSUME NEW q \in Seq(MsgId), NEW d \in MsgId, NEW a \in MsgId, InOrder(d, q, a)
    PROVE  InOrder(d, Append(q, Succ(a)), Succ(a))
<1> DEFINE n == Len(q)
           p == Append(q, Succ(a))
<1>1. /\ n \in Nat /\ Len(p) = n + 1 /\ p[n + 1] = Succ(a)
      /\ \A i \in 1..n : p[i] = q[i]
  BY SuccType, AppendProperties, LenProperties
<1>2. p # <<>> /\ (q = <<>> <=> n = 0)
  BY <1>1, SuccType, AppendProperties, EmptySeq
<1> HIDE DEF n, p
<1>3. CASE q = <<>>
  BY <1>1, <1>2, <1>3 DEF InOrder, p
<1>4. CASE q # <<>>
  <2>1. q[1] = Succ(d) /\ q[n] = a /\ \A i \in 1..(n - 1) : q[i + 1] = Succ(q[i])
    BY <1>4 DEF InOrder, n
  <2>2. n >= 1
    BY <1>1, <1>2, <1>4
  <2>3. \A i \in 1..n : p[i + 1] = Succ(p[i])
    <3> SUFFICES ASSUME NEW i \in 1..n PROVE p[i + 1] = Succ(p[i])
      OBVIOUS
    <3>1. CASE i = n
      BY <3>1, <2>1, <2>2, <1>1
    <3>2. CASE i # n
      <4>1. i \in 1..(n - 1) /\ i + 1 \in 1..n
        BY <3>2, <1>1
      <4> QED BY <4>1, <2>1, <1>1
    <3> QED BY <3>1, <3>2
  <2> QED BY <1>1, <1>2, <2>1, <2>2, <2>3 DEF InOrder, p
<1> QED BY <1>3, <1>4

LEMMA InOrderTail ==
    ASSUME NEW q \in Seq(MsgId), q # <<>>, NEW d, NEW a, InOrder(d, q, a)
    PROVE  InOrder(Head(q), Tail(q), a)
<1> DEFINE n == Len(q)
           p == Tail(q)
<1>1. /\ n \in Nat /\ Head(q) = q[1] /\ p \in Seq(MsgId) /\ Len(p) = n - 1
      /\ \A i \in 1..(n - 1) : p[i] = q[i + 1]
  BY HeadTailProperties, LenProperties
<1>2. n >= 1 /\ (p = <<>> <=> n = 1)
  <2>1. \A r \in Seq(MsgId) : r = <<>> <=> Len(r) = 0
    BY EmptySeq
  <2>2. n # 0 /\ (p = <<>> <=> n - 1 = 0)
    BY <1>1, <2>1
  <2> QED BY <1>1, <2>2
<1>3. q[n] = a /\ \A i \in 1..(n - 1) : q[i + 1] = Succ(q[i])
  BY DEF InOrder
<1> HIDE DEF n, p
<1>4. CASE n = 1
  BY <1>1, <1>2, <1>3, <1>4 DEF InOrder, p
<1>5. CASE n # 1
  <2>1. p[1] = Succ(q[1]) /\ p[n - 1] = a
    BY <1>1, <1>2, <1>3, <1>5
  <2>2. ASSUME NEW i \in 1..(n - 2) PROVE p[i + 1] = Succ(p[i])
    <3>1. i \in 1..(n - 1) /\ i + 1 \in 1..(n - 1)
      BY <1>1
    <3> QED BY <3>1, <1>1, <1>3
  <2> QED BY <1>1, <1>2, <1>5, <2>1, <2>2 DEF InOrder, p
<1> QED BY <1>4, <1>5

(* When the counter is zero every sub-queue is empty, so a message sent inline *)
(* overtakes none.                                                          *)
LEMMA NothingPending ==
    ASSUME TypeOK, Lined, totalPending = 0, NEW t \in Target
    PROVE  subQueues[t] = <<>>
<1>1. Pending = {}
  BY FS_EmptySet DEF Lined, Consistent, Counted
<1>2. subQueues[t] \in Seq(MsgId)
  BY DEF TypeOK
<1>3. ASSUME NEW i \in DOMAIN subQueues[t] PROVE FALSE
  <2>1. <<t, i>> \in {t} \X DOMAIN subQueues[t]
    OBVIOUS
  <2>2. <<t, i>> \in Pending
    BY <2>1, Zenon DEF Pending
  <2> QED BY <1>1, <2>2
<1>4. Len(subQueues[t]) = 0
  <2>1. DOMAIN subQueues[t] = 1..Len(subQueues[t]) /\ Len(subQueues[t]) \in Nat
    BY <1>2, LenProperties
  <2> QED BY <1>3, <2>1
<1> QED BY <1>2, <1>4, EmptySeq

LEMMA FifoStep ==
    ASSUME Inv, Inv', [Next]_vars,
           NEW t \in Target, InOrder(delivered[t], subQueues[t], accepted[t])
    PROVE  InOrder(delivered'[t], subQueues'[t], accepted'[t])
<1> DEFINE Same == UNCHANGED <<delivered[t], subQueues[t], accepted[t]>>
<1>a. /\ subQueues \in [Target -> Seq(MsgId)]
      /\ delivered \in [Target -> MsgId] /\ accepted \in [Target -> MsgId]
  BY DEF Inv, TypeOK
<1>b. Same => InOrder(delivered'[t], subQueues'[t], accepted'[t])
  BY Zenon
<1> HIDE DEF Same
<1>1. ASSUME NEW u \in Target, Enqueue(u)
      PROVE  InOrder(delivered'[t], subQueues'[t], accepted'[t])
  <2> DEFINE id == Succ(accepted[u])
  <2>1. CASE SendsInline(Refilled) /\ Send(u, id) /\ accepted' = [accepted EXCEPT ![u] = id]
             /\ subQueues' = subQueues
    <3>1. CASE u = t
      <4>1. subQueues'[t] = <<>>
        BY <2>1, NothingPending DEF SendsInline, Inv, Lined
      <4>2. delivered'[t] = id /\ accepted'[t] = id
        BY <2>1, <3>1, <1>a DEF Send
      <4> QED BY <4>1, <4>2 DEF InOrder
    <3>2. CASE u # t
      BY <2>1, <3>2, <1>a, <1>b DEF Send, Same
    <3> QED BY <3>1, <3>2
  <2>2. CASE UNCHANGED <<queueVars, observed>>
    BY <2>2, <1>b DEF Same, queueVars, observed
  <2>3. CASE EnqueueToSubQueue(u, id) /\ accepted' = [accepted EXCEPT ![u] = id]
             /\ delivered' = delivered
    <3>1. CASE u = t
      <4>1. /\ subQueues'[t] = Append(subQueues[t], Succ(accepted[t]))
            /\ accepted'[t] = Succ(accepted[t]) /\ delivered'[t] = delivered[t]
        BY <2>3, <3>1, <1>a DEF EnqueueToSubQueue
      <4> QED BY <4>1, <1>a, InOrderAppend
    <3>2. CASE u # t
      BY <2>3, <3>2, <1>a, <1>b DEF EnqueueToSubQueue, Same
    <3> QED BY <3>1, <3>2
  <2> QED BY <1>1, <2>1, <2>2, <2>3 DEF Enqueue, queueVars
<1>2. CASE Drain
  <2>1. CASE UNCHANGED <<queueVars, delivered, window, sent>>
    BY <1>2, <2>1, <1>b DEF Drain, queueVars, Same
  <2>2. CASE PopNext
    <3> DEFINE u == targetOrder[rrIndex + 1]
    <3>1. u \in Target /\ subQueues[u] # <<>> /\ Clamp(rrIndex, Len(targetOrder)) = rrIndex
      BY <1>2, CursorOnPending DEF Drain, Inv, Lined
    <3>2. /\ subQueues' = [subQueues EXCEPT ![u] = Tail(@)]
          /\ delivered' = [delivered EXCEPT ![u] = Head(subQueues[u])]
          /\ accepted' = accepted
      BY <1>2, <2>2, <3>1 DEF PopNext, Send, Drain
    <3>3. CASE u = t
      <4>1. /\ subQueues'[t] = Tail(subQueues[t])
            /\ delivered'[t] = Head(subQueues[t]) /\ accepted'[t] = accepted[t]
        BY <3>2, <3>3, <1>a
      <4> QED BY <4>1, <3>1, <3>3, <1>a, InOrderTail
    <3>4. CASE u # t
      BY <3>2, <3>4, <1>a, <1>b DEF Same
    <3> QED BY <3>3, <3>4
  <2> QED BY <1>2, <2>1, <2>2 DEF Drain
<1>3. CASE EmptyQueue /\ accepted' = accepted
  BY <1>3, <1>a DEF EmptyQueue, InOrder
<1>4. CASE UNCHANGED <<queueVars, accepted, delivered>>
  BY <1>4, <1>b DEF Same, queueVars
<1> QED BY <1>1, <1>2, <1>3, <1>4 DEF Next, Clear, Shutdown, Tick, Observe, vars, observed

(* Every variable has its type in every reachable state.                   *)
THEOREM TypeCorrect == Spec => []TypeOK
<1>1. Inv => TypeOK
  BY DEF Inv
<1> QED BY InitInv, StepInv, <1>1, PTL DEF Spec

(* The sub-queues, the rotation, the cursor and the counter of               *)
(* message-queue.ts agree in every reachable state, so drain() finds a        *)
(* message whenever the counter says there is one, and flush() ends.         *)
THEOREM QueueConsistent == Spec => []Consistent
<1>1. Inv => Consistent
  BY DEF Inv
<1> QED BY InitInv, StepInv, <1>1, PTL DEF Spec

(* The messages of a target leave message-queue.ts in the order they came and  *)
(* once each, whether a message goes inline, waits behind others or is cleared *)
(* with them, for any depth cap and any number of targets.                    *)
THEOREM FifoHolds == Spec => []Fifo
<1> DEFINE Ordered == \A t \in Target : InOrder(delivered[t], subQueues[t], accepted[t])
           IInv == Inv /\ Ordered
<1>1. Init => IInv
  <2> SUFFICES ASSUME Init PROVE Ordered
    BY InitInv
  <2> QED BY DEF Init, InOrder
<1>2. IInv /\ [Next]_vars => IInv'
  BY StepInv, FifoStep
<1>3. IInv => Fifo
  BY FifoIsInOrder DEF Inv
<1> QED BY <1>1, <1>2, <1>3, PTL DEF Spec

(* In any window of time on one connection the queue sends no more messages   *)
(* than the burst and that time pay for.                                    *)
THEOREM WireRateHolds == Spec => []WireRate
<1>1. Inv => WireRate
  <2> SUFFICES ASSUME Inv PROVE WireRate
    OBVIOUS
  <2>1. Refilled \in 0..Capacity
    BY RefilledType DEF Inv
  <2>2. sent * Cost \in Nat
    BY CapacityFacts DEF Inv, TypeOK
  <2> QED BY <2>1, <2>2, CapacityFacts DEF Inv, TypeOK, Paid, WireRate
<1> QED BY InitInv, StepInv, <1>1, PTL DEF Spec
=============================================================================
