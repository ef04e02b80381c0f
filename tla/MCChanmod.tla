----------------------------- MODULE MCChanmod ------------------------------
(* Chanmod for TLC: one channel and a few ways to configure the bot. *)
EXTENDS Chanmod

\* No option on; ChanServ knows the bot as an op, chanserv_access was never set.
Plain ==
  [start |-> "in", ops |-> Users, services |-> "atheme", tier |-> "op", settings |-> [c \in Chans |-> "unset"],
   enforce |-> FALSE, bitch |-> FALSE, bans |-> FALSE, protect |-> FALSE, cycle |-> FALSE,
   revenge |-> FALSE, topic |-> FALSE, punish |-> "none", nethack |-> 0, verify |-> FALSE,
   invite |-> FALSE, locks |-> {}, scene |-> {}, budget |-> 3]
Set(tier) == [c \in Chans |-> tier]

\* Getting in: a channel closed in every way, either kind of services.
Closed == [Plain EXCEPT !.start = "out", !.invite = TRUE, !.locks = {"i", "k", "l"}, !.scene = {"kick", "ban", "lock", "invite"}]
ClosedAnope == [Closed EXCEPT !.services = "anope", !.budget = 2]
\* Under attack: the bot is founder and answers.
Founder ==
  [Plain EXCEPT !.tier = "founder", !.settings = Set("founder"), !.punish = "deop",
                !.protect = TRUE, !.scene = {"ban", "depose"}]
Pretender == [Founder EXCEPT !.tier = "superop", !.scene = {"ban", "kick", "chanset"}]
FounderAnope ==
  [Plain EXCEPT !.services = "anope", !.tier = "founder", !.punish = "akick", !.revenge = TRUE,
                !.topic = TRUE, !.scene = {"kick", "ban", "topic"}, !.budget = 2]
\* Modes and ops held with an op's access, cycling when ops are lost.
Warden ==
  [Plain EXCEPT !.enforce = TRUE, !.bitch = TRUE, !.cycle = TRUE, !.locks = {"s"},
                !.scene = {"lock", "unlock", "depose", "serverOps", "order"}]
\* No help from ChanServ, everything the bot can do itself.
Alone ==
  [Plain EXCEPT !.tier = "none", !.settings = Set("none"), !.bans = TRUE, !.nethack = 1,
                !.verify = TRUE, !.ops = {"friend"}, !.budget = 4,
                !.scene = {"banFriend", "netsplit", "serverOps", "friendReturns", "depose"}]
AloneOps == [Alone EXCEPT !.nethack = 2, !.verify = FALSE, !.bans = FALSE]
Instances ==
  {Closed, ClosedAnope, Founder, Pretender, FounderAnope, Warden, Alone, AloneOps}
==============================================================================
