--------------------------- MODULE ChanservAccess ---------------------------
(* What the channel protection plugin knows of its standing with ChanServ: the
   access tables of the two services backends (atheme-backend.ts and
   anope-backend.ts), the probes under way (chanserv-notice*.ts) and the setting
   chanserv_access the two keep in step with (index.ts).  All are functions on one
   record, used by Chanmod as the steps of its handlers.                       *)
EXTENDS Naturals, Sequences, SequencesExt

CONSTANT Chans   \* channels the bot asks ChanServ about

\* Access tiers, lowest first; unset is a chanserv_access that was never set.
Tiers == <<"none", "op", "superop", "founder">>
TierSet == {"none", "op", "superop", "founder"}
Rank(t) == CHOOSE i \in DOMAIN Tiers : Tiers[i] = t
AtLeast(actual, required) == Rank(actual) >= Rank(required)

\* pend and info are insertion ordered maps: channel probes of the FLAGS or ACCESS
\* kind, and of the INFO kind; active is the channel an INFO answer is about.
NoChan == "none"
AccessRecords ==
  [level : [Chans -> TierSet], auto : SUBSET Chans, setting : [Chans -> TierSet \cup {"unset"}],
   pend : Seq(Chans), info : Seq(Chans), active : Chans \cup {NoChan}, getkey : SUBSET Chans]

Setting(a, c) == IF a.setting[c] = "unset" THEN "none" ELSE a.setting[c]

\* The access levels are seeded from the settings when the plugin is loaded.
Seeded(settings) ==
  [level |-> [c \in Chans |-> IF settings[c] = "unset" THEN "none" ELSE settings[c]],
   auto |-> {}, setting |-> settings, pend |-> <<>>, info |-> <<>>, active |-> NoChan,
   getkey |-> {}]

SetAccess(a, c, tier) ==
  [a EXCEPT !.level[c] = tier,
            !.auto = IF tier # a.level[c] THEN @ \ {c} ELSE @]

\* On the bot's own join the setting, if any, takes the place of the level.
ReadSetting(a, c) ==
  IF Setting(a, c) = "none" THEN a ELSE SetAccess(a, c, a.setting[c])

\* An operator changes the setting, or takes it back to its default.
Reset(a, c, tier) ==
  SetAccess([a EXCEPT !.setting[c] = tier], c, IF tier = "unset" THEN "none" ELSE tier)

\* An answer that names a tier: detected where nothing is known, else it can
\* only take away.
Answered(a, c, actual) ==
  IF a.level[c] = "none"
  THEN IF actual = "none" THEN a
       ELSE [a EXCEPT !.level[c] = actual, !.auto = @ \cup {c}]
  ELSE IF AtLeast(actual, a.level[c]) THEN a ELSE SetAccess(a, c, actual)

\* A detected level is written to the setting, which sets the level again.
Synced(a, c) ==
  IF a.level[c] # "none" /\ c \in a.auto /\ Setting(a, c) # a.level[c]
  THEN Reset(a, c, a.level[c])
  ELSE a

----------------------------------------------------------------------------
Marked(probes, c) == IF Contains(probes, c) THEN probes ELSE Append(probes, c)
MarkProbes(a, c, services) ==
  [a EXCEPT !.pend = Marked(@, c),
            !.info = IF services = "anope" THEN Marked(@, c) ELSE @]
Unmarked(probes, c) ==
  IF Contains(probes, c) THEN RemoveAt(probes, CHOOSE i \in DOMAIN probes : probes[i] = c)
  ELSE probes
ProbeTimeout(a, kind, c) ==
  IF kind = "info" THEN [a EXCEPT !.info = Unmarked(@, c)] ELSE [a EXCEPT !.pend = Unmarked(@, c)]

\* Answers that do not name the channel go to the oldest probe.
Oldest(a) == Head(a.pend)
Consume(a) == [a EXCEPT !.pend = Tail(@)]

AnsweredOldest(a, tier) ==
  IF a.pend = <<>> THEN a ELSE Synced(Answered(Consume(a), Oldest(a), tier), Oldest(a))
AnsweredNamed(a, c, tier) ==
  Synced(Answered([a EXCEPT !.pend = Unmarked(@, c)], c, tier), c)

\* Lines of Atheme: "2 bot +flags", "Flags for bot in #c are +flags", "bot was not
\* found on the access list of #c", "the channel #c is not registered".
AthemeLine(a, l) ==
  CASE l.kind = "flags" -> AnsweredOldest(a, l.tier)
    [] l.kind = "flagsFor" -> AnsweredNamed(a, l.chan, l.tier)
    [] l.kind = "notFound" -> AnsweredNamed(a, l.chan, "none")
    [] l.kind = "unregistered" ->
         IF Contains(a.pend, l.chan) THEN AnsweredNamed(a, l.chan, "none") ELSE a

\* Lines of Anope: an entry of the bot in the access list and the end of that
\* list, the lines of INFO.  The answer to GETKEY ends what waits for a key; the
\* join it makes is Chanmod's.
AnopeLine(a, l) ==
  CASE l.kind \in {"entry", "end"} -> AnsweredOldest(a, l.tier)
    [] l.kind = "unregistered" ->
         IF Contains(a.pend, l.chan) THEN AnsweredNamed(a, l.chan, "none") ELSE a
    [] l.kind = "header" ->
         IF Contains(a.info, l.chan) THEN [a EXCEPT !.active = l.chan] ELSE a
    [] l.kind = "isFounder" ->
         IF a.active = NoChan THEN a
         ELSE LET c == a.active
                  done == [a EXCEPT !.info = Unmarked(@, c), !.active = NoChan]
              IN  Synced(Answered(done, c, "founder"), c)
    [] l.kind = "infoEnd" ->
         IF a.active = NoChan THEN a
         ELSE [a EXCEPT !.info = Unmarked(@, a.active), !.active = NoChan]
    [] l.kind \in {"key", "noKey"} -> [a EXCEPT !.getkey = @ \ {l.chan}]

----------------------------------------------------------------------------
\* External: the lines ChanServ answers a probe with, given the bot's real tier.
Line(kind, c, tier) == [kind |-> kind, chan |-> c, tier |-> tier]
AthemeAnswers(c, tier) ==
  IF tier = "none" THEN {<<Line("notFound", c, "none")>>, <<Line("unregistered", c, "none")>>}
  ELSE {<<Line("flags", c, tier)>>, <<Line("flagsFor", c, tier)>>}
AnopeList(c, tier) ==
  IF tier \in {"op", "superop"}
  THEN {<<Line("entry", c, tier), Line("end", c, "none")>>}
  ELSE {<<Line("end", c, "none")>>}
AnopeInfo(c, tier) ==
  IF tier = "founder"
  THEN {<<Line("header", c, tier), Line("isFounder", c, tier)>>}
  ELSE {<<Line("header", c, tier), Line("infoEnd", c, tier)>>}

\* What a request takes, by services.
AthemeNeeds(what) ==
  CASE what \in {"OP", "UNBAN", "INVITE", "KEY", "AKICK"} -> "op"
    [] what = "DEOP" -> "superop"
    [] what = "RECOVER" -> "founder"
AnopeNeeds(what) ==
  CASE what \in {"OP", "UNBAN", "INVITE", "KEY"} -> "op"
    [] what \in {"DEOP", "AKICK"} -> "superop"
    [] what = "RECOVER" -> "founder"
Capable(a, c, what, services) ==
  AtLeast(a.level[c], IF services = "atheme" THEN AthemeNeeds(what) ELSE AnopeNeeds(what))
==============================================================================
