# HexBot in TLA+

A verification development of HexBot (`src/`, TypeScript on Node): an IRC bot with plugins,
permissions, DCC sessions and a hub-and-leaf link between bots. The modules here are translated
from the source; each definition that models code is tied to its lines by the `map` of
`PROJECT.json`.

## The system

One bot is one Node process with one event loop: handlers run to completion, and everything that
interleaves does so at an `await`, a timer, a socket event or between processes.

| component | state | operations | what is hard | what makes it correct |
|---|---|---|---|---|
| bot link, connections (`core/botlink-leaf.ts`, `-hub.ts`, `-protocol.ts`) | leaf: current wrapper, flags, reconnect timer; hub: registry of leaves | connect, HELLO/WELCOME, heartbeats, close, reconnect, disconnect | close events come late; the path may die silently; either side restarts | one link per leaf, registry entries are live, recovery |
| bot link, requests | pending commands, protection requests, routes keyed by reference | CMD, PROTECT_*, PARTY_WHOM and their answers, 10 s and 5 s timeouts | late answers, link loss, references of several leaves | an answer reaches the request it answers, every request ends |
| bot link, relay sessions | hub's routes by handle, virtual sessions, DCC relay mode | RELAY_REQUEST .. RELAY_END | both ends and the hub may vanish | input reaches the target only, no session is stuck |
| bot link, peer authentication (`core/botlink-auth.ts`) | failures and bans per IP, range bans, pending handshakes, bans in the database | admit, note, ban, unban, sweep, load | escalation, expiry, manual against automatic bans, slots released twice | a ban holds until it expires or is lifted, nobody is locked out |
| synchronisation (`core/botlink-sync.ts`, `-sharing.ts`, `permissions.ts`, `ban-store.ts`) | copies of permissions, channels, bans | sync on link, broadcasts of changes, expiry | changes while a leaf is away, commands carried out late or not | leaf, hub, database and channel differ only where the code lets them |
| message queue (`core/message-queue.ts`) | sub-queue per target, rotation, token bucket | enqueue, tick, clear, flush, stop | cursor arithmetic, fast path, refill | order, rate, fairness |
| dispatcher, plugin loader (`dispatcher.ts`, `plugin-loader.ts`, `plugin-api-factory.ts`) | binds, loaded plugins, what each registered | dispatch, bind, load, unload, reload | awaits in the middle of each | an unloaded plugin leaves nothing, a loaded one has its binds once, events reach their binds |
| services, DCC (`core/services.ts`, `core/dcc.ts`) | pending verifications, offers, ports, sessions | verify, offer, accept, close, shut down | awaits, timeouts, callers sharing one table | one verdict each, one offer or session a nick, ports given back |
| connection lifecycle (`core/connection-lifecycle.ts`, `bot.ts`, `sts.ts`) | startup promise, retry count, timers, STS policy | register, reconnect, STS upgrade, presence check, shutdown | errors before and after registration, two parties that retry | the bot comes back or exits, one attempt at a time, no plaintext under a policy |
| channel state (`core/channel-state.ts`, `isupport.ts`) | users and modes per channel, accounts per nick | JOIN, PART, KICK, NICK, MODE, NAMES, WHO, ACCOUNT | replies overlapping changes | follows the server |
| chanmod (`plugins/chanmod`) | recovery and takeover state per channel, timers, access at ChanServ | join recovery, mode enforcement, takeover response | timers and services' answers racing events | recovers, restrains itself, comes to rest |
| small ones: IRC bridge, flood plugin, memo, other plugins, stores, commands, utilities | | | | |

They interact by direct calls within a bot (dispatcher to plugins, plugins through the API to the
queue and the permissions), by an event bus, and by JSON frames on TCP between bots.

## Modules

| module | models |
|---|---|
| `BotLink`, `MCBotLink`, `BotLinkProofs` | the bot link's connections: leaves, hub, sockets |
| `Links` | what connections promise the code above them; `BotLink` implements it |
| `LinkChannels` | the link as the code above it sees it: up or down on each side, frames on their way |
| `LinkCommands`, `MCLinkCommands`, `LinkCommandsProofs` | requests over the link, and the hub's list of users |
| `RelaySessions`, `MCRelaySessions`, `RelaySessionsProofs` | relay sessions over the link |
| `LinkAuth` | who may begin a handshake with the hub |
| `LinkSharing` | users and bans on hub, leaf, database and channel |
| `LinkEntry`, `MCLinkEntry`, `LinkEntryProofs` | the two composed: a leaf at the door and what it is then told |
| `Admission` | what `verifyUser` promises: one verdict for each request |
| `Services` | asking NickServ who a nick is; implements `Admission` |
| `DccSessions`, `MCDccSessions`, `DccSessionsProofs` | DCC requests, offers and sessions, on `Services` and the event loop |
| `MessageQueue`, `MCMessageQueue`, `OutputProofs` | the output queue |
| `Plugins`, `MCPlugins`, `BotProofs` | dispatcher, plugin loader and what plugins register |
| `Lifecycle`, `MCLifecycle`, `BotProofs` | start, connection, retries, STS, shutdown, restart |
| `Replica` | what a copy kept by listening promises |
| `ChannelState`, `MCChannelState`, `ChannelStateProofs` | the bot's picture of channels and accounts; implements `Replica` |
| `ChanservAccess` | what the bot takes for its access at ChanServ |
| `Chanmod`, `MCChanmod`, `OutputProofs` | the channel protection plugin, on `ChanservAccess` |

A component's module declares its constants, with their assumptions, its variables and one action
per handler; its `MC` module names the values of small instances, which the `.cfg` files pick; its
`Proofs` module extends it (`BotProofs` and `OutputProofs` extend two each, which share no state: a bot's plugins and
its connection, what chanmod sends and how it gets out). `LinkCommands` and `RelaySessions` extend `LinkChannels`,
which stands for what `BotLink` establishes: a leaf has one link at a time, frames on it keep their order, and
each side finds out on its own that it is gone. `Links` says this of the two sides alone, `leafUp` and `hubUp`.
One behaviour of `BotLink` is left out above it (`Late`): the hub reads the HELLO of a connection its leaf has given
up. If the leaf has no link, that is a link lost at once; if it has a later one, which the hub has dropped, both
sides hold dead connections that look like a link until one of them finds out, and carry nothing.

### BotLink

A leaf's fields are per-leaf functions of the same name (`connected`, `connecting`,
`disconnecting`, `reconnectTimer`, `protocol`). A socket has an end on each side, and an end is
"open", "closing" or "closed": Node delivers the 'close' event of a destroyed socket later, in the
closing phase of the loop, and between `destroy()` and the event other frames and timers may run.
That gap is where this code's hazards are. Actions are the handlers: `ReconnectTimer` (`connect`),
`DialOk` (`onConnect`, `initProtocol` and the hub's accept), `Welcome`, `HandshakeError`,
`LeafOnClose`, `LeafHeartbeat`, `Reconnect`, `Disconnect` on the leaf; `Hello`,
`HandshakeTimeout`, `HubHeartbeat`, `HubOnClose`, `DisconnectLeaf` on the hub; `Partition`,
`LeafRestart`, `HubRestart`, `DialFail` are the environment. Time is abstract: a heartbeat may
expire exactly when the other side cannot be heard, which stands for link_timeout_ms being much
longer than a delivery. Which commands and faults may happen are constants, so that a property
that needs an assumption names it: `OneLink` holds unless "redial" (`.botlink reconnect` while an
attempt is pending) is allowed, and `Recovery` unless "lateWelcome" (the path dies between HELLO
and WELCOME) is: the code has no timer for that case. A refused password does not end the attempts
(`HandshakeError` schedules none, but the close event that follows does), against a comment in the
code; no property asks for it.

### LinkCommands

`counter` and `pending` are a bot's `cmdRefCounter` and `pendingCmds`/`pendingWhom`; `cmdRoutes` is
the hub's table of that name; `running` holds the commands between `executeCmdFrame`'s start and its
answer, which goes out on whatever link there is by then; `party` is the hub's `remotePartyUsers`
and `sessions` the DCC sessions the notices PARTY_JOIN and PARTY_PART are about. `Ask`, `AskWhom`
and `HubAsk` are `.bot` and relayed commands, `.whom`, and the hub's `sendCommandToBot`; `HubCmd`,
`HubResult`, `HubParty`, `LeafCmd` and `LeafAnswer` are the frame handlers; `Timeout` is a request's
timer. Requests carry an identity beside the reference (the bot, its counter and how often it was
restarted), which the code has not: `AnswerMatches` compares the two. Whether a command is known and
permitted is a choice, as is the rate limit, which counts as a fault because it drops the frame.

`AnswerMatches` holds while `.bot` routes commands for one leaf only, and for bots not restarted
themselves: references start at 1 on every leaf and after every restart. With `Routed` both leaves it
fails within a few steps: the second leaf's routed command overwrites the first one's entry of
`cmdRoutes` (`botlink-hub.ts:210`) and takes both answers.

### RelaySessions

`relaying` is the `relayTarget` of a DCC session, `activeRelays` the hub's table and `virtual` the
virtual sessions of `botlink-relay-handler.ts`. `Relay`, `Type`, `EndRelay`, `OpenSession` and
`CloseSession` are what users do; `HubRequest`, `HubInput` and `HubEnd` are `routeRelayFrame` followed
by the hub's own `handleRelayFrame`, as `onSteadyState` calls them; `LeafRequest`, `LeafInput` and
`LeafEnd` are `handleRelayFrame` on a leaf; `HubDisconnects` includes `cleanupLeafState`. Whether a
bot's permissions know the handle is a choice at every request. `steady` is history: the relays of a
leaf whose link has stayed up since the request; `rough` is history too: a relay was refused, a
session closed in relay mode or a target cut off, of which the code tells the target nothing, so
`Paired` is stated without them.

What the properties do not promise, because the code does not: a user with sessions on two leaves
can have only one relay (the hub has one route per handle, and `NotStuck` fails at once when `Homes`
gives a handle two leaves), `.relay` with the own bot ends itself (`SelfRelay`), and a relay started
by the hub's own user stays in relay mode when its target leaves (`NotStuck` is about leaves). What is typed to a
leaf runs on the hub too, since the hub takes every request it routes for one to itself, although the
documentation has it forwarded to the target (`docs/BOTLINK.md:191`).

### Services and DccSessions

A request is one call of `verifyUser`, `verdict` the promise it returned; `pending` and `method` are
the entries of the table by nick, `armed` the timers. `wire` carries queries to NickServ and notices
back, in order; a notice names a nick, so it may settle another request than the one it answers.
`Supports` says which of ACC and STATUS NickServ knows: "unknown command" makes `TryOther` put the
first pending request the other way. NickServ and the connection are external: answers come when
they like, or never.

`DccSessions` extends it with the callers. `offers` is `DCCManager.pending`, `used` the allocator's
set, `timed` and `idle` the timers of offers and sessions; a request's `phase` goes from "new" through
"verifying", "binding" (`listen` called) and "listening" to "open", or ends "over". `OnDccCtcp` makes
the checks, `Accept` is what follows `await`, with no check made again; `Listen` is the server's
'listening' or 'error', `Connect` its 'connection', and `Close` the one way out that `.quit`, the idle
timer, the socket's events and the shutdown share. `OthersAsk` stands for the dispatcher's gate and
auto-op, which share the table. `Shutdown` is `Bot.shutdown`: DCC first, then the services.

The event loop is part of the model, because the code relies on it: what promises resolved continues
(`Accept`) before the next timer or socket event, servers bind in the same turn, and only lines that
the IRC library hands over in one go come between (`LinesPerTick`). `crossed` is history: such a line
came between a promise and its continuation; `failed`: a server could not listen. `OneAtATime` and
`DetachCloses` are stated without them. With them they fail, since the code checks nothing after the
wait: two requests read in one packet both pass, the second session takes the first one's place in
the list, and neither `removeSession` nor the shutdown finds the first. `max_sessions` is not an
invariant either: offers are not counted.

A second caller's request replaces the first and refuses it, whatever NickServ says, although the
dispatcher's comment (`dispatcher.ts:313`) names other causes only; `TableAgrees` and `Admitted` hold
all the same.

### MessageQueue

The Map of sub-queues, `targetOrder`, `rrIndex`, `totalPending`, the bucket and the timer are the
variables; `Date.now() - lastRefill` is a clock that `Tick` advances and that stops at the bucket's
capacity, where it no longer matters. `Enqueue` has the three ways through `enqueue()` (inline,
dropped, queued), `Drain` is one tick, `Clear` and `Shutdown` are `clear()` and `flush()`+`stop()`
as the bot calls them. `window` and `sent` observe the wire for `WireRate`.

`NoStarvation`, what the comment at `message-queue.ts:22` says, fails with three targets: `removeTarget`
leaves the cursor where the removed slot was, so two targets that empty and come back at the tail in turn
keep it away from a third (run `MessageQueueStarves`). `NoStarvationByOne` is what the code does promise:
whoever waits is sent to unless two others leave the rotation and come back again and again, so that one
busy target, however much is queued for it, starves nobody (`message-queue.ts:12`).

### Plugins

A load that reaches init is a generation, and a bind is known by its generation and its place in the
plugin's plan, the sequence of API calls its init makes. `reg` is all a plugin can leave behind: the
dispatcher's array and timers, help, setting definitions, change listeners, listeners on the event
bus. A job is a console command or the loading at the start, and goes from one await to the next:
`StartLoad`, `ImportFails`, `Load` or `AlreadyLoaded`, `InitGoesOn`; `StartUnload`, `TeardownEnds`. A dispatch
is an event under way with the index of its bind; `Verified` and `HandlerEnds` are the two awaits in
`dispatch()`. It goes through the array it began with, which `bind` of a command and `unbindAll` replace
(`view` then keeps the old one) and `unbind` changes under its feet.

`owed`, `failed` and `crossed` are history, and each names what the code does not promise: a handler that
takes out its own bind makes its event skip the next one; an init that throws leaves its help entries,
settings and listeners; two jobs on one plugin both pass the duplicate check or both unload. Handlers of
an unloaded plugin may still be started from the old array. A reload drops the overrides of plugins.json
and the channel scope, contrary to `plugins` documentation (`docs/PLUGIN_API.md:43`), and a setting that
two plugins registered goes with the first of them.

### Lifecycle

`proc` is the process, `conn` the library's connection, `retryTimers` and `startupAttempt` the startup
retry of `registerConnectionEvents`, `expecting` and `reason` what the handlers share. `Registered`,
`DialFails`, `ConnectionLost`, `GivenUp`, `ReconnectTimer` are the library's events with the handlers they
call, `StartupRetry`, `PresenceCheck` the timers, `Signal` and `Stopped` the shutdown, `Restart` the
supervisor. The library (external) is taken to emit 'close' for every connection it loses, after
'reconnecting' when it will try again, which is how `tests/core/connection-lifecycle.test.ts` drives it.
If it emitted 'reconnecting' alone for its retries, the last 'close' would still be expected and the bot
would stay up and do nothing.

What the properties leave out, because the code does: a channel the bot was kicked from is not asked
again by the presence check, as the record it looks for is never removed (against the comment at
`connection-lifecycle.ts:472`), so `Joined` is about channels never entered; an STS upgrade in the
middle of a session changes the configuration but not the options the library was given, so
`PolicyHonoured` is about policies known at the start; and the QUIT of a graceful shutdown makes the
'close' handler exit before the database is closed.

### ChannelState and Replica

`Replica` is an original that changes, a list of what the listener has yet to be told, and a copy:
nothing is skipped or reordered, and before the first full report there is no copy. `ChannelState` has a
server (external) whose lines are on `wire` with the state they leave behind, and the handlers of
`channel-state.ts` as functions of the bot's state (`OnJoin`, `OnNick`, `OnUserlist`, ...). `Follows` is
the refinement: the picture of a channel (`Held`) goes through the server's states one by one, however
WHO, NAMES and MODE replies overlap with changes. A leaf's channel is replaced by the hub's snapshot
(`InjectChannelSync`), after which it is no longer held.

The bot forgets nothing when it leaves a channel, and NAMES never removes anyone: who left meanwhile is
a ghost, and stale prefix modes survive (`left`). NAMES corrects the modes of such a record if it lists
any, but never its account, which stays what it was before (`stale`) until somebody logs in, is seen with
another account, or joins. Renaming to a nick of which an account is on record leaves that entry
(`orphan`). `AccountsTrue` is stated without the three.

A record and the map of accounts may disagree: `onJoin` (`channel-state.ts:236`) and `onUserlist` (:395)
write one and not the other, and `setAccountForNick` (:214) returns early when the map is right already,
although it mirrors a change "so plugin code reading `user.accountName` sees the same value as the
dispatcher" (:220). An old record of a user who is back therefore keeps its old account: JOIN in one
channel updates the map, and the account-tag of his next line then changes nothing anywhere. The clause
of `AccountsTrue` about records is where this shows: without `stale` it is not invariant with two channels.

### Chanmod and ChanservAccess

`ChanservAccess` is what the bot takes for its access: the setting, the backend's levels, the probes it
waits for and how notices are matched with them, for Atheme and Anope. `Chanmod` is one channel: `chan`
is the server's, `bot` the plugin's state (join recovery, rejoins, threat score, back-offs, intentional
modes), `timers` the scheduled calls, `out` the bot's lines on their way to the server, which answers each
as it carries it out. Handlers are functions from one record of all of these to the next (`Kicked`, `JoinError`,
`BotDeopped`, `UserDeopped`, `Hostile`, ...), as one event runs several of them in a row; the actions are
`Fire` (a timer), `Verified` (NickServ's answer before auto-op), `Join` to `Answer` (the server or ChanServ
takes the next line), `Lapse` and `TimedOut` (windows that end), `PresenceCheck` (the core's), what foe and
server do in the channel, and what a master tells the bot: `Order` (!op, !deop, !kick), `Invite` (the core's
bind and the plugin's) and `Chanset` (chanserv_access). `MCChanmod` has eight configurations, so that options which never matter together are not multiplied.

`Restrained`: no master is kicked, banned or deopped (enforcement of bans and the deop of `nethack` 2
excepted, which do not look at flags), there is one cycle at a time, a back-off is not forgotten before
its time and the bot does not reckon with more access than it has. `Returns` and `Settles` are liveness. They leave out
what the code gives up: during a cooldown a refused recovery is never tried again (`refused`); the second
rejoin after a kick never happens, since the bot still finds the channel's record (`protection.ts:128`);
and when ops are back before ChanServ carries a RECOVER out, its +im stays (`early`), since the mark of
the clean-up has been consumed (`docs/CHANNEL_PROTECTION.md:108` promises otherwise). On Anope the "End
of access list" of a channel is taken for whatever probe is the oldest, and a founder known from INFO is
nobody until INFO answers again. Hostile response goes by the list of actors of a threat that may have
expired. The reset of a back-off fires though the bot was kicked meanwhile (against `join-recovery.ts:31`).

### LinkAuth, LinkSharing and LinkEntry

`tracker` is `authTracker`, `ranges` `manualCidrBans`, `store` the `linkBanStore`, `pending` the slots per
address; `Admit` is `admit()` with its sweep, `Shut`, `BadPassword`, `Refused`, `Accepted` and `CloseEvent`
the ways a handshake ends, `ManualBan`, `ManualRangeBan` and `Unban` the operators', `HubRestart` what
`loadPersistedBans` finds. `dual` is a socket that reports IPv4 addresses as `::ffff:a.b.c.d`, a form no
operator writes. The ways the code loosens a ban are the history `loosened`: an automatic ban takes the
place of a longer manual one, a ban written in dotted form does not meet the dual-stack form, and a range
over the limit of 500 waits in the database for a restart. A timeout or a first frame that is not HELLO
releases its slot twice (`doubled`), so that an address may have more handshakes open than the limit;
`SlotsCounted` says it never has fewer.

`LinkSharing` has users and bans on both sides: `hubUsers` and `leafUsers`, `bans` (the hub's database),
`banned` (the channel), `shared` (the leaf's list), and frames in both directions. Synchronisation is
upsert only, so users changed or removed while a leaf is away stay as they were there, and commands on
a leaf change the leaf alone: `strayUsers` and `drift` are history of that. `.unban` and `.ban` do not
look at the bot's ops, while lifting and chanmod's !ban and !unban do; of the latter two no leaf is
told. A lift whose -b is lost has forgotten the ban all the same, and an expired sticky ban is still
set again until it is lifted (`strayBans`). The hub's `.ban` tells the leaves but its own shared list
stays empty, so that CHAN_BAN_SYNC is never sent. A refused relayed command (the hub wants a session
and flags) is a choice.

`LinkEntry` composes them: `Enters` is the acceptance of a HELLO and the snapshot that follows,
`HubHeartbeat` a link timeout, `DisconnectLeaf` the command, `Leaves` the close event, `HubComesBack` a
restart with both databases. `entry` is the registry, apart from the connections: the heartbeat removes the
leaf's entry while the close event of its connection is still to come, and that event goes by the name
(`onLeafClose`) and removes the entry of a successor if there is one by then. `disconnectLeaf` takes the
event's handler back first (a behaviour that looks at the door alone has it: for what is shared it is no
other than the heartbeat). When the entry goes, what is under way goes with it (`Cut`): the hub drops the
frames of a leaf it has no entry for (`onSteadyState`), and what a leaf still reads afterwards it might as
well have read before; the changes made meanwhile count as made behind its back. A behaviour looks at one of
three things (`focus`: the door, the users, the bans), and the link goes up and down in all.

## Runs

| run | bounds | shows |
|---|---|---|
| `BotLinkSafety` | 2 leaves, 3 sockets, 1 hub slot, all faults | registry, capacity and link invariants |
| `BotLinkLive` | 1 leaf, 3 sockets, all faults but "lateWelcome", all commands but "redial" | `Recovery` |
| `LinkCommandsSafety` | 2 leaves, one of them gives `.bot`, 2 requests, 1 session, 1 fault | answers, requests and the hub's list |
| `RelaySafety` | 2 leaves, a user at home on a leaf and one on the hub, 1 fault, frames up to 2 | routes, relay modes, virtual sessions |
| `DccSafety` | 2 DCC requests of one nick, 2 other callers, 2 ports, 1 session, 2 lines in a tick | verification, offers, ports, sessions, shutdown, `Admission` |
| `MessageQueueRun` | 3 targets, cost 2, burst 1, depth 3, windows up to 2 | structure, order, rate, `NoStarvationByOne` |
| `MessageQueueStarves` | 3 targets, cost 2, burst 1, depth 3 | `NoStarvation` fails (a finding) |
| `PluginsSafety` | 2 plugins, 3 generations, 2 jobs, 1 event at a time | what is left, what is loaded, what events reach |
| `ChannelStateSafety` | the bot and 2 users, 1 channel, 3 lines on their way, 5 changes | accounts, and the refinement of `Replica` |
| `LifecycleRun` | 2 channels, 2 retries of either kind, 1 restart of the process | one life, never stuck, channels joined |
| `ChanmodRun` | 1 channel, 8 configurations, up to 4 deeds of others, 2 lines on their way | restraint, return, rest |
| `LinkEntryRun` | 2 addresses, 2 ranges, 2 connections, clock up to 3, 2 orders; 1 user, 2 masks, 3 changes | bans and slots, users and bans of hub and leaf |

Three sockets let a leaf have a live one beside two that are still closing, and with two leaves
either can hold a stale registry entry while the other competes for the slot. A depth of three over
three targets gives every shape of the rotation: removal before, at and behind the cursor. `Ids`
only has to exceed the depth, so that consecutive messages are told apart. A window as long as one message
costs is enough for a message too many to show; `WireRate` is proved for windows of any length.

Two requests are enough for answers to meet: every reference two bots can share appears among them.
One fault is a lost link, a restart or a dropped command, each followed by reconnection and by the
late answers of before. Two requests of one nick and a third caller about it let an entry be replaced
by either kind of caller; the second port is there for an offer to keep while the first one's port
goes to someone else, and one session is enough for the limit to be reached. Requests do not come
again: a later request of the nick is the second one, and every timer of the first may still run.
The bot stops in the end, hence no deadlock check in `DccSafety`. For relays two frames on their way before a user acts let an end, a request
and an input of one handle cross on both legs; what handlers send adds to that.

Fairness. Node runs every ready callback, so socket steps are weakly fair; timers (heartbeats,
reconnect) fire in every round of the loop but wait for pending close events, hence strong
fairness. For DCC, timers fire,
promises continue and servers start to listen or fail to; NickServ, the users and the network promise
nothing. In the queue the interval timer and the clock are weakly fair; nothing is assumed of the
callers. In `Lifecycle` the process's own steps and timers and the end of each attempt (TCP's, or the
library's registration timeout) are weakly fair, and the server lets the bot into a channel it asks for
again and again (strong), without which `Joined` says nothing of the code. In `Chanmod` timers fire, NickServ
answers or times out, and lines are carried out. No fairness is given to the environment.

## Theorems

`BotLinkProofs` proves, for any finite set of leaves, any set of sockets and all faults and
commands: `TypeCorrect`, `CapacityHolds`, `RegistryIsLive`, and, when "redial" is not among the
commands, `OneLinkHolds` and `AcceptedWhenConnected`. The inductive invariant `LinkInv` adds what
makes `OneLink` inductive: a socket belongs to the leaf that dialled it (`Owned`), the current
wrapper is a socket of that leaf (`Current`, `Held`), a pending timer or a live socket excludes an
attempt under way (`NoTimer`, `NoOverlap`), and on both sides together that a WELCOME on the way or
a steady-state leaf means the hub accepted that socket (`Welcomed`, `Marked`, `Unused`).

`OutputProofs` proves of `MessageQueue` `TypeCorrect`, `QueueConsistent`, `FifoHolds` and `WireRateHolds` for any
finite set of targets, cost, burst and depth. `Consistent` is inductive with the types; `WireRate` needs
`Paid`, which adds the remaining budget and the time not yet credited to the account. `Fifo` is proved in
the form `InOrder`, without the concatenation it is stated with: an empty sub-queue means that what was
accepted last was sent last, any other counts up from one to the other. The inline path keeps it because
`Consistent` makes every sub-queue empty when nothing is pending.

Of `Chanmod` it proves `RestrainedAlways`, for every configuration (`Configurations`: any combination of the options,
of what ChanServ gives and of how the channel starts), any channels and any number of deeds of others, of
rejoins and of lines on their way. The invariant `SoundNow` says of a world, the record handlers go from one to
the next of, what it may hold. `Commands`: the bot has nothing on its way against a master but what `bans` and
`nethack` 2 send, and asks only what its services understand. `Callbacks`: no timer will do otherwise. `Accesses`:
the level found out by probing is no more than ChanServ has. `OpsIn`, `CycleIn` and `WaitIn`: only one in the
channel is an op there, `cycling` goes with exactly one of a cycle's two timers, and no reset of the back-off is
scheduled while a refused bot waits. It is inductive, where `Restrained` is not, because a harm is seen coming when
its timer is set, and because a notice read is judged by what was asked: what ChanServ sends is true when sent
(`Truths`), and the oldest probe, for which the bot takes it, is of a channel of its own (`Atheme_Access`,
`Anope_Access`). As an event runs several handlers in a row, the argument is one lemma for each handler, that it leads from
a safe world to a safe one (`Recover_Safe`, `BotDeopped_Safe`, `Hostile_Safe`, ...), and one for each action, which puts
them together (`Fire_Sound`, `Join_Sound`, ...). A netsplit is only ever noticed with `nethack` on, which is in
`Bots` as the deop of `nethack` 2 depends on it.

`LinkCommandsProofs` proves, for any set of leaves and any number of requests, sessions, restarts
and lost links, `NoGhostsHold`, and `AnswersMatch` and `NothingForgotten` when no two leaves give routed
commands (`OneAsker`). That assumption is the one under which the code has the properties: references of
two leaves are the same, and the second routed command overwrites the first one's route (see above).
`Types` says of every request, command and answer which bot gave it its reference, in which life, and by
which channel it may travel, so that two with one reference on one side are the same one. `Listed` says
that a PARTY_JOIN on the way is followed by the PARTY_PART of its session if that is gone: it is what
makes the hub's list right after the last notice is read. `Faultless` says that both sides of a link agree
while nothing was lost, without which "on its way" would mean nothing.

`RelaySessionsProofs` proves, for any leaves, any finite set of handles and any number of faults and
frames on their way, `TypeCorrect` and `RoutesAreLive`, and `NobodyIsStuck` and `SessionsArePaired` for
users at home on one bot (`OneHome`) who do not relay to it. `NotStuck` is not inductive: a route may belong to an earlier
relay of the same handle, whose end is still on the channel. `Unstuck` therefore says which frame is
the last about the handle that the hub has yet to read (`EndsWith`, `Quiet`): the request itself, or
none once its route is there. `Homed` adds that requests travel from the home of their handle, so
that no other leaf's request or refusal touches the route. `Paired` needs the same knowledge of the
target's side: while nothing is `rough`, whoever has or is about to get a virtual session on a leaf is
bound to it (`Rightful`, `Bound`), that is, the hub has a route from his bot to that leaf, and his bot is in
relay mode towards it, or gone, or has its RELAY_END on the way; requests and ends of a handle alternate
on their channel, the last request being for the bot he is relayed to (`InTurn`); ends come from his home
and go elsewhere, and a leaf that one side has lost has no session left (`EndsAtHome`, `EndsAbroad`,
`CutOff`).

Connections and what is built on them meet in `Links`. `LinksComeAndGo` (`BotLinkProofs`) proves that `BotLink` implements
it, for any commands and faults and with "redial" too: a leaf's side is up when the hub has accepted the socket it
holds, the hub's when it has an entry, and each step changes them as a step of `Links` does. The invariant, `Wrapped`, is
the part of `LinkInv` that redialling does not break. `LinksTaken` (`LinkCommandsProofs`, `RelaySessionsProofs`) proves that
the two modules above take links as `Links` gives them, but for `Late`.

`DccSessionsProofs` proves, for any nicks, requests, ports and configuration and any number of lines
in a tick, `TypeCorrect`, `TablesAgree`, `OnlyOpenRegistered`, `PartyExact`, `PortsExact`, `OneEach`,
`DetachLeavesNone`, and with `VerificationRefines` that the whole implements `Admission` but for its
fairness. The argument: one lemma for each way a step can touch the table (`GrantStep`, `AskStep`,
`EntryGone` and what uses it), the sessions (`SessionStep`) and the offers (`OfferStep`), then one
for each invariant. `OneEach` needs `OneLive`: of all requests that may still get a session (asked,
verified, serving, open) a nick has one. It is inductive because a new request supersedes the one
that waits, because nothing verified is left over when a line is handled, and because every session
that is open is listed (`OpenRegistered`) and every server has its entry (`PortsAccounted`), so that
the check before the wait sees them. That the lowest free port exists uses that the naturals are well
founded.

`ChannelStateProofs` proves, for any users, channels, nicks, hosts, accounts and keys and any number of
changes and of lines on their way, `AccountsHold`, and with `FollowsHolds` that `ChannelState` implements
`Replica`. The invariant (`IInv`, `LinkedHolds`) speaks of views of the server: as of the last line the bot
has read, as of each line on its way, and as of now. `Linked` says that each line is a true account (`Tells`)
of how the view before it turns into the view after it; one lemma for each of the server's actions shows it
of the lines that action sends. `Announced` and `AwaitsNames` say that NAMES comes right after the bot's
own JOIN, so that no change falls between the two. With that the handlers are judged one by one against
two views, and the server's state no longer matters: once NAMES has come the records are `Right` as of the
view read, before it they are `Waiting` (users may be missing, but nothing is wrong). Right records give
`AccountsTrue`, and they determine what `Held` is (`HeldIs`), so that reading a line is a step of the copy
through the next state that is pending, or a stutter. The attempt to prove `AccountsTrue` as it was stated
before failed for a good reason, the old accounts above, and `stale` was added.

`BotProofs` proves of `Plugins`, for any plugins with any plans and awaits, any consoles, dispatches, events and
number of loads, `NothingLeftAlways`, `LoadedWorksAlways` and `DeliveredAlways`. None of the three is
inductive. `Loads` says that each init under way is of a load of its own and that whatever is registered was
made by a load that got as far (`Made`); `Single` that a plugin nobody contended for is one job's; `Recorded`
that what is recorded as loaded is a load of that plugin; `Loading` that an uncontended init has so far
registered its binds and finds none of an earlier load; `Debts` that a bind an event is owed is one it takes and,
while it is in the table, ahead of the event in the array it goes through. A piece of init, from one await to
the next, is a recursive function over the plan (`Ran`), and taking binds out of the array another (`Without`);
what they do for every plan and every array is shown by induction over the place reached (`RanGrows`: only the
calls made are added, and a bind goes only for a command bound to its mask; `WithoutItems`, `WithoutBehind`:
what is kept stays behind where an iteration is, if nothing up to there is taken out). The prover cannot
instantiate the library's induction theorems, which take an operator, so induction is a statement about sets of
numbers here (`Induction`, from the naturals being well founded), and that a recursive function is what its
equation says is proved from it (`Recursion`).

Of `Lifecycle` it proves `OneLifeAlways` for any channels, either setting of TLS and any number of retries
and starts. The invariant adds that no 'close' is ever left to be expected, that a process that is not
alive has neither connection nor timer, that being connected means being registered, and that the policy
of the start is the one `Connect` finds.

`LinkEntryProofs` proves `AuthAlways`, `AuthHolds` for any addresses, ranges, connections, limits and
lengths of bans. That bans hold is not inductive, as the sweep, the doubling and the restart each
rewrite the tracker: `IpBans` says that the tracker lasts as long as the row in the database, `RangeBans`
that a range in force is in memory as in the database, `DualLoose` that behind a dual-stack socket no row
of an address counts. Slots are counted by the cardinality of the handshakes open, one added or removed
at a time (`HandshakeEnds`). With `SharingAlways` it proves `SharingHolds`, for any finite sets of
users and masks and any number of changes and frames on their way. Agreement is stated by the last item under
way: the newest frame about a user or a mask, or the newest mode line about a mask, is what the other side will
hold, and where there is none (`Silent`) it holds it already. In that form it is inductive: a handler appends to
one channel or takes its head off, and either leaves the last item about anything else where it was.

Assumptions are those each module states of its constants, which TLC evaluates on every instance.

Only model-checked: `Recovery`, `NoStarvationByOne`, `NeverStuck`, `Joined`, `RequestsEnd`, `Returns` and `Settles`,
and of `Admitted` the fairness (liveness, which the prover does not reach; it has no ENABLED either). Every
invariant that a run checks is stated by a theorem.

## Not modelled

BSAY and PARTY_CHAT pass a line on; RELAY_ACCEPT and RELAY_OUTPUT are shown to the user: no state
depends on them. PROTECT_* frames have no caller in the source tree, and their references work as
those of commands do. Two sessions of one handle on one bot are left out of `RelaySessions`, and of
the runs of `LinkCommands` (the first to close removes the user from the hub's list).

Topics, away marks and channel limits in `ChannelState`; exempts and hostmasks in `LinkSharing`; in `Chanmod` the
change of its settings but for chanserv_access, the recovery of the nick, halfops, voices and more than one channel; the
per-user limit of commands (`floodCheck`) in `Plugins`. A crash in the middle of `saveToDb`, which deletes
all users before it writes them, loses them: no property could hold of it.

The flood plugin counts in one handler; the memo service has one request and one timer, and takes an answer
that comes after its timer for that of the next request; the bridge turns events into dispatches; greeter,
seen, topic, help, ctcp and 8ball answer an event from the key-value store: sequential code, for which unit
tests are the better means. `types.ts` declares types. The contents of frames, texts, parsing (of lines,
masks, CIDR ranges, ISUPPORT, configuration), logging, the database itself (a synchronous table) and the
REPL are left out.

## Plan

All components with concurrent behaviour are modelled. What would be worth adding: in `Chanmod`, two
channels at once, which share the probes of `ChanservAccess`; in `ChannelState`, the topic; the memo
service's late answers, on the sessions of `DccSessions`; matching of wildcards and splitting of modes as
pure algorithms against their definitions.
