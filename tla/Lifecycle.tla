------------------------------ MODULE Lifecycle ------------------------------
(* The bot's life on the IRC network: src/core/connection-lifecycle.ts with the
   parts of bot.ts, sts.ts and index.ts it works with.  irc-framework (external)
   keeps the connection, and after a registration dials again by itself; before one
   the bot does.  The supervisor (external) starts the process again after a fault.

   A message of the library and what follows it before the event loop goes on is
   one action.  The library is taken to emit 'close' after each lost connection,
   'reconnecting' before it when it will try again: so the tests drive it.        *)
EXTENDS Naturals, FiniteSets

CONSTANTS
  Channels,      \* the configured channels
  ConfigTls,     \* irc.tls in bot.json
  MaxRetries,    \* auto_reconnect_max_retries, 10 in the code
  MaxStartup,    \* maxStartupRetries, 10 in the code
  MaxStarts      \* bound: how often the supervisor starts the bot

ASSUME LifecycleAssumption ==
  /\ IsFiniteSet(Channels) /\ ConfigTls \in BOOLEAN
  /\ MaxRetries \in Nat \ {0} /\ MaxStartup \in Nat /\ MaxStarts \in Nat \ {0}

VARIABLES
  proc,        \* "booting", "starting": connect() awaited, "running", "stopping", "exited"
  starts,      \* bound: starts so far
  conn,        \* the library: "off", "waiting" to dial, "dialing", "registering", "up"
  retries,     \* the library: attempts since the last registration
  quitting,    \* the library: quit() was called
  wire,        \* the library: its options have TLS
  registered, expecting, reason, startupAttempt,   \* registerConnectionEvents()
  retryTimers, \* startup retries pending
  presence,    \* presenceTimer runs
  invites,     \* the core 'invite' bind is there
  tls,         \* config.irc.tls
  policy,      \* the STS record of the host: "none", "port" or "noport"
  bound,       \* history: the record there was when the process started
  beats, beat, \* index.ts: intervals that touch the health file, and the one it knows
  kept,        \* what there is of queued messages and learnt accounts of a session
  tracked,     \* channels ChannelState has
  inside,      \* the server: channels the bot is in
  asked        \* JOINs on their way

process == <<proc, starts>>
library == <<conn, retries, quitting, wire>>
handlers == <<registered, expecting, reason, startupAttempt, retryTimers, presence, invites>>
sts == <<tls, policy, bound>>
health == <<beats, beat>>
rooms == <<tracked, inside, asked>>
vars == <<process, library, handlers, sts, health, kept, rooms>>

----------------------------------------------------------------------------
Reasons == {"none", "plain", "throttled", "banned"}
Leftover == {"queue", "accounts"}

Fresh ==
  /\ conn' = "off" /\ retries' = 0 /\ quitting' = FALSE /\ wire' = FALSE
  /\ registered' = FALSE /\ expecting' = FALSE /\ reason' = "none" /\ startupAttempt' = 0
  /\ retryTimers' = 0 /\ presence' = FALSE /\ invites' = FALSE
  /\ beats' = 0 /\ beat' = FALSE
  /\ kept' = {}
  /\ tracked' = {} /\ inside' = {} /\ asked' = {}

Init ==
  /\ proc = "booting" /\ starts = 1
  /\ conn = "off" /\ retries = 0 /\ quitting = FALSE /\ wire = FALSE
  /\ registered = FALSE /\ expecting = FALSE /\ reason = "none" /\ startupAttempt = 0
  /\ retryTimers = 0 /\ presence = FALSE /\ invites = FALSE
  /\ tls = ConfigTls /\ policy \in {"none", "port", "noport"} /\ bound = policy
  /\ beats = 0 /\ beat = FALSE
  /\ kept = {}
  /\ tracked = {} /\ inside = {} /\ asked = {}

\* process.exit: nothing of the process is left.
Exit == proc' = "exited" /\ UNCHANGED <<starts, sts>> /\ Fresh

\* STSStore.get(): what the database has of a record now; it may have expired.
Stored(record) == {record, "none"}

\* The supervisor starts the bot again; only the database is as it was.
Restart ==
  /\ proc = "exited" /\ starts < MaxStarts
  /\ proc' = "booting" /\ starts' = starts + 1
  /\ tls' = ConfigTls /\ policy' \in Stored(policy) /\ bound' = policy'
  /\ Fresh

\* enforceSTS()
Refused == ~tls /\ policy = "noport"
Upgraded == tls \/ policy = "port"

Connect ==
  /\ proc = "booting"
  /\ IF Refused THEN Exit
     ELSE /\ proc' = "starting" /\ conn' = "dialing"
          /\ tls' = Upgraded /\ wire' = Upgraded /\ invites' = TRUE
          /\ UNCHANGED <<starts, retries, quitting, policy, bound, health, kept, rooms,
                         registered, expecting, reason, startupAttempt, retryTimers, presence>>

Alive == proc \in {"starting", "running", "stopping"}

----------------------------------------------------------------------------
(* index.ts *)

StartHeartbeat == beats' = beats + 1 /\ beat' = TRUE
\* mutant
ForgetHeartbeat == beats' = beats /\ beat' = FALSE
StopHeartbeat == beats' = (IF beat THEN beats - 1 ELSE beats) /\ beat' = FALSE

----------------------------------------------------------------------------
(* Messages of the library. *)

DialDone ==
  /\ Alive /\ conn = "dialing" /\ conn' = "registering"
  /\ UNCHANGED <<process, retries, quitting, wire, handlers, sts, health, kept, rooms>>

\* 'irc error': the server says why it is about to close.
ServerError(r) ==
  /\ Alive /\ conn \in {"registering", "up"} /\ reason = "none" /\ reason' = r
  /\ UNCHANGED <<process, library, registered, expecting, startupAttempt, retryTimers,
                 presence, invites, sts, health, kept, rooms>>

\* The sts cap of the server: none, to be forgotten, or with or without a port.
Directives == [forget : BOOLEAN, port : BOOLEAN]
Ingested(d) == IF d.forget THEN "none" ELSE IF d.port THEN "port" ELSE "noport"
Upgrades(d) == ~tls /\ d.port

\* 'registered'
Registered ==
  /\ Alive /\ conn = "registering" /\ conn' = "up" /\ retries' = 0
  /\ registered' = TRUE /\ expecting' = FALSE /\ reason' = "none" /\ startupAttempt' = 0
  /\ StartHeartbeat
  /\ \/ UNCHANGED <<tls, policy, quitting>>
     \/ \E d \in Directives :
          /\ policy' = Ingested(d)
          /\ tls' = (tls \/ d.port) /\ quitting' = (quitting \/ Upgrades(d))
  /\ asked' = Channels /\ presence' = TRUE
  /\ proc' = (IF proc = "starting" THEN "running" ELSE proc)
  /\ UNCHANGED <<starts, wire, bound, retryTimers, invites, kept, tracked, inside>>

\* 'close' when the library gave up.
Fatal ==
  IF registered THEN ~expecting ELSE reason = "banned" \/ startupAttempt >= MaxStartup

GivenUp ==
  IF Fatal THEN Exit
  ELSE /\ IF registered
          THEN expecting' = FALSE /\ UNCHANGED <<startupAttempt, reason, retryTimers>>
          ELSE /\ startupAttempt' = startupAttempt + 1 /\ reason' = "none"
               /\ retryTimers' = retryTimers + 1 /\ UNCHANGED expecting
       /\ StopHeartbeat
       /\ conn' = "off" /\ retries' = 0 /\ quitting' = FALSE /\ inside' = {} /\ asked' = {}
       /\ UNCHANGED <<wire, tracked, registered, presence, invites, process, sts, kept>>

\* mutant
ReconnectingExpected ==
  /\ expecting' = TRUE /\ reason' = "none" /\ kept' = {}
  /\ StopHeartbeat
  /\ UNCHANGED <<registered, startupAttempt, retryTimers, presence, invites, process, sts>>

\* The handlers of 'reconnecting' and then of 'close', which finds it expected.
Reconnecting ==
  /\ expecting' = FALSE /\ reason' = "none"
  /\ kept' = {}
  /\ StopHeartbeat
  /\ UNCHANGED <<registered, startupAttempt, retryTimers, presence, invites, process, sts>>

\* The library tries again only after a registration.
Tries == registered /\ retries < MaxRetries

Lost ==
  \/ /\ Tries
     /\ conn' = "waiting" /\ retries' = retries + 1 /\ quitting' = FALSE
     /\ inside' = {} /\ asked' = {} /\ UNCHANGED <<wire, tracked>>
     /\ Reconnecting
  \/ /\ ~Tries \/ conn = "up"
     /\ GivenUp

\* 'socket error': before the first registration it rejects the promise start() waits for.
DialFails ==
  /\ Alive /\ conn = "dialing"
  /\ IF registered THEN Lost ELSE Exit

ConnectionLost == Alive /\ conn \in {"registering", "up"} /\ Lost

ReconnectTimer ==
  /\ Alive /\ conn = "waiting" /\ conn' = "dialing"
  /\ UNCHANGED <<process, retries, quitting, wire, handlers, sts, health, kept, rooms>>

\* The retry at startup: client.connect() without options, so with the old ones.
StartupRetry ==
  /\ Alive /\ retryTimers > 0 /\ retryTimers' = retryTimers - 1
  /\ conn' = "dialing" /\ retries' = 0
  /\ UNCHANGED <<process, quitting, wire, registered, expecting, reason, startupAttempt,
                 presence, invites, sts, health, kept, rooms>>

----------------------------------------------------------------------------
(* Channels. *)

JoinAnswered(c) ==
  /\ conn = "up" /\ c \in asked /\ asked' = asked \ {c}
  /\ \/ inside' = inside \cup {c} /\ tracked' = tracked \cup {c}
     \/ c \notin inside /\ UNCHANGED <<inside, tracked>>
  /\ UNCHANGED <<process, library, handlers, sts, health, kept>>

\* Kicked: ChannelState keeps the channel.
Kicked(c) ==
  /\ conn = "up" /\ c \in inside /\ inside' = inside \ {c}
  /\ UNCHANGED <<process, library, handlers, sts, health, kept, tracked, asked>>

Invited(c) ==
  /\ conn = "up" /\ invites /\ c \notin inside /\ asked' = asked \cup {c}
  /\ UNCHANGED <<process, library, handlers, sts, health, kept, tracked, inside>>

Missing == Channels \ tracked

\* mutant
PresenceOnce ==
  /\ presence /\ presence' = FALSE
  /\ asked' = (IF conn = "up" THEN asked \cup Missing ELSE asked)
  /\ UNCHANGED <<process, library, registered, expecting, reason, startupAttempt, retryTimers,
                 invites, sts, health, kept, tracked, inside>>

PresenceCheck ==
  /\ presence
  /\ asked' = (IF conn = "up" THEN asked \cup Missing ELSE asked)
  /\ UNCHANGED <<process, library, handlers, sts, health, kept, tracked, inside>>

\* Messages are queued, accounts learnt.
Use(k) ==
  /\ conn = "up" /\ proc # "stopping" /\ kept' = kept \cup {k}
  /\ UNCHANGED <<process, library, handlers, sts, health, rooms>>

----------------------------------------------------------------------------
(* The shutdown. *)

Signal ==
  /\ proc \in {"starting", "running"}
  /\ IF conn # "up" THEN Exit
     ELSE /\ proc' = "stopping" /\ quitting' = TRUE
          /\ presence' = FALSE /\ invites' = FALSE
          /\ kept' = kept \ {"queue"}
          /\ StopHeartbeat
          /\ UNCHANGED <<starts, conn, retries, wire, registered, expecting, reason,
                         startupAttempt, retryTimers, sts, rooms>>

\* Half a second after the QUIT.
Stopped == proc = "stopping" /\ Exit

Next ==
  \/ Restart \/ Connect \/ DialDone \/ DialFails \/ Registered \/ ConnectionLost
  \/ ReconnectTimer \/ StartupRetry \/ PresenceCheck \/ Signal \/ Stopped
  \/ \E r \in Reasons \ {"none"} : ServerError(r)
  \/ \E c \in Channels : JoinAnswered(c) \/ Kicked(c) \/ Invited(c)
  \/ \E k \in Leftover : Use(k)

Spec == Init /\ [][Next]_vars

\* Timers fire, an attempt to connect comes to an end, the JOIN of a channel that lets
\* the bot in again and again is accepted in the end.
Accepted(c) == JoinAnswered(c) /\ c \in tracked'

FairSpec ==
  /\ Spec
  /\ WF_vars(Connect) /\ WF_vars(DialDone \/ DialFails)
  /\ WF_vars(conn = "registering" /\ (Registered \/ ConnectionLost))
  /\ WF_vars(ReconnectTimer) /\ WF_vars(StartupRetry) /\ WF_vars(Stopped)
  /\ WF_vars(PresenceCheck) /\ \A c \in Channels : SF_vars(Accepted(c))

----------------------------------------------------------------------------
TypeOK ==
  /\ proc \in {"booting", "starting", "running", "stopping", "exited"}
  /\ starts \in 1..MaxStarts
  /\ conn \in {"off", "waiting", "dialing", "registering", "up"}
  /\ retries \in 0..MaxRetries
  /\ reason \in Reasons /\ startupAttempt \in 0..MaxStartup
  /\ retryTimers \in Nat /\ beats \in Nat
  /\ {policy, bound} \subseteq {"none", "port", "noport"}
  /\ {quitting, wire, registered, expecting, presence, invites, tls, beat} \subseteq BOOLEAN
  /\ kept \subseteq Leftover
  /\ tracked \subseteq Channels /\ inside \subseteq tracked /\ asked \subseteq Channels

\* There is one attempt to connect at a time, whoever makes it: the retry at startup, or
\* the library.
OneAttempt ==
  /\ retryTimers + (IF conn = "off" THEN 0 ELSE 1) <= 1
  /\ Alive => retryTimers + (IF conn = "off" THEN 0 ELSE 1) = 1

\* The health file is touched while the bot is on the network and only then, by one timer.
Healthy ==
  /\ beats = (IF beat THEN 1 ELSE 0)
  /\ proc # "stopping" => (beat <=> conn = "up")

\* A message queued, or an account learnt, in one session is gone before the next.
NoLeftovers == conn # "up" => kept = {}

\* With an STS record at the start the bot never connects in plaintext.
PolicyHonoured == Alive /\ bound # "none" => wire

\* Retries, reconnects, restarts and the shutdown leave one attempt, one health timer,
\* nothing of an earlier session, and no plaintext under a policy.
OneLife == TypeOK /\ OneAttempt /\ Healthy /\ NoLeftovers /\ PolicyHonoured

\* Whatever is lost and refused, the bot is back on the network or its process exits, for
\* the supervisor to start it again: it never stays up doing nothing.
NeverStuck == []<>(conn = "up" \/ proc = "exited")

\* A configured channel that refused the bot when it connected is asked again until it
\* lets it in, as long as the connection lasts.
Joined ==
  \A c \in Channels :
    (conn = "up" /\ c \notin tracked) ~> (c \in tracked \/ conn # "up" \/ proc = "stopping")
=============================================================================
