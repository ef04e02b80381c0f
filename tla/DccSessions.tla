---------------------------- MODULE DccSessions -----------------------------
(***************************************************************************)
(* DCC CHAT: src/core/dcc.ts, with the verification of Services.            *)
(*                                                                         *)
(* Users ask by CTCP; a request that passes the checks is verified, is given  *)
(* a port to connect to, and becomes a session.  Everything runs on one event  *)
(* loop.  The IRC library hands over up to LinesPerTick lines before the      *)
(* promises they settled continue; whatever is promised then continues, and    *)
(* servers bind, before the next timer, socket event or line.                *)
(*                                                                         *)
(* Relay mode is RelaySessions' subject; what commands do, and who may ask     *)
(* (hostmask, flags), is left open.                                         *)
(***************************************************************************)
EXTENDS Services, Integers, FiniteSets

CONSTANTS
    Dcc,             \* the requests that are DCC requests
    Port,            \* config.port_range
    PortsContested,  \* whether other programs listen on ports of it, now and then
    MaxSessions,     \* config.max_sessions
    NickservVerify,  \* config.nickserv_verify
    LinesPerTick     \* lines the IRC library hands over in a row

ASSUME DccAssumption ==
    /\ Dcc \subseteq Request
    /\ IsFiniteSet(Dcc) /\ IsFiniteSet(Port)
    /\ Port \subseteq Nat \ {0}
    /\ MaxSessions \in Nat
    /\ NickservVerify \in BOOLEAN /\ PortsContested \in BOOLEAN
    /\ LinesPerTick \in Nat \ {0}

VARIABLES
    phase,     \* request -> how far it has come
    portOf,    \* request -> the port it was given, 0 before
    offers,    \* DCCManager.pending: port -> the offer on it
    used,      \* RangePortAllocator.used
    timed,     \* requests whose offer timer runs
    sessions,  \* nick -> its registered session
    sockets,   \* sessions whose socket has yet to report its end
    idle,      \* sessions whose idle timer runs
    party,     \* PARTY_JOIN less PARTY_PART told to the bot link
    batch,     \* lines handled in this tick whose promises have yet to continue
    crossed,   \* history: a line came between a promise and its continuation
    failed     \* history: a server failed to listen

offerVars == <<portOf, offers, used, timed, failed>>
sessionVars == <<sessions, sockets, idle, party>>
loopVars == <<batch, crossed>>
dccVars == <<phase, offerVars, sessionVars, loopVars>>
vars == <<serviceVars, dccVars>>

Init ==
    /\ ServicesInit
    /\ phase = [r \in Dcc |-> "new"]
    /\ portOf = [r \in Dcc |-> 0]
    /\ offers = [p \in Port |-> None]
    /\ used = {}
    /\ timed = {}
    /\ sessions = [n \in Nick |-> None]
    /\ sockets = {}
    /\ idle = {}
    /\ party = 0
    /\ batch = 0
    /\ crossed = FALSE /\ failed = FALSE

In(ph) == {r \in Dcc : phase[r] = ph}

-----------------------------------------------------------------------------
(* The event loop                                                           *)

Ready == {r \in In("verifying") : verdict[r] \in Verdict}

(* LinesPerTick: no line before what is ready has continued.                *)
Rest(n) == batch' = IF Ready' = {} THEN 0 ELSE n

(* A line may be one of the same tick.                                      *)
Line ==
    /\ attached /\ In("binding") = {} /\ batch < LinesPerTick
    /\ Rest(batch + 1)
    /\ crossed' = (crossed \/ Ready # {})

(* A timer, a socket or a signal.                                           *)
Event ==
    /\ Ready = {} /\ In("binding") = {}
    /\ Rest(LinesPerTick)
    /\ UNCHANGED crossed

(* What is ready continues, one after the other.                           *)
Microtask == Ready # {} /\ Rest(LinesPerTick) /\ UNCHANGED crossed

-----------------------------------------------------------------------------
(* Requests                                                                *)

Registered == {sessions[n] : n \in Nick} \ {None}

(* checkSessionLimit, checkNotAlreadyConnected: as of the CTCP, before the     *)
(* verification.                                                            *)
WithinLimit == Cardinality(Registered) < MaxSessions
NotInSession(n) == sessions[n] = None  \* mutant
NotConnected(n) ==
    /\ sessions[n] = None
    /\ \A p \in Port : offers[p] # None => About[offers[p]] # n

Admissible(n) == WithinLimit /\ NotConnected(n)

OnDccCtcp(r) ==
    /\ phase[r] = "new"
    /\ \/ /\ phase' = [phase EXCEPT ![r] = "over"]
          /\ UNCHANGED serviceVars
       \/ /\ Admissible(About[r])
          /\ phase' = [phase EXCEPT ![r] = "verifying"]
          /\ IF NickservVerify THEN VerifyUser(r) ELSE Grant(r)
    /\ UNCHANGED <<offerVars, sessionVars>>
    /\ Line

(* The dispatcher's gate or auto-op asks, about the same nick perhaps.       *)
OthersAsk(r) ==
    /\ VerifyUser(r)
    /\ UNCHANGED <<phase, offerVars, sessionVars>>
    /\ Line

Lowest(ports) == CHOOSE p \in ports : \A q \in ports : p <= q

NoTimer(r) == timed  \* mutant
StartTimer(r) == timed \cup {r}

(* acceptDccConnection, openDccServer: no check is made again.              *)
Accept(r) ==
    /\ r \in Ready
    /\ \/ /\ verdict[r] = "no" \/ Port \subseteq used
          /\ phase' = [phase EXCEPT ![r] = "over"]
          /\ UNCHANGED <<portOf, offers, used, timed>>
       \/ /\ verdict[r] = "yes" /\ ~ Port \subseteq used
          /\ LET p == Lowest(Port \ used) IN
             /\ phase' = [phase EXCEPT ![r] = "binding"]
             /\ portOf' = [portOf EXCEPT ![r] = p]
             /\ offers' = [offers EXCEPT ![p] = r]
             /\ used' = used \cup {p}
          /\ timed' = StartTimer(r)
    /\ UNCHANGED <<serviceVars, failed, sessionVars>>
    /\ Microtask

(* The offer's entry and port are given back.                              *)
Forget(r) == [offers EXCEPT ![portOf[r]] = None]
KeepPort(r) == used  \* mutant
Release(r) == used \ {portOf[r]}

Listeners(p) == {r \in In("listening") : portOf[r] = p}

(* server.listen: a port in use is an error, which gives the port back and     *)
(* leaves the offer's timer running.                                        *)
Listen(r) ==
    /\ Ready = {} /\ phase[r] = "binding"
    /\ \/ /\ Listeners(portOf[r]) = {}
          /\ phase' = [phase EXCEPT ![r] = "listening"]
          /\ UNCHANGED <<offers, used, failed>>
       \/ /\ PortsContested \/ Listeners(portOf[r]) # {}
          /\ phase' = [phase EXCEPT ![r] = "over"]
          /\ offers' = Forget(r)
          /\ used' = Release(r)
          /\ failed' = TRUE
    /\ UNCHANGED <<serviceVars, portOf, timed, sessionVars, loopVars>>

OfferTimeout(r) ==
    /\ r \in timed
    /\ timed' = timed \ {r}
    /\ phase' = [phase EXCEPT ![r] = IF @ = "listening" THEN "over" ELSE @]
    /\ offers' = Forget(r)
    /\ used' = Release(r)
    /\ UNCHANGED <<serviceVars, portOf, failed, sessionVars>>
    /\ Event

-----------------------------------------------------------------------------
(* Sessions                                                                *)

(* The server's 'connection' and openSession.                              *)
Connect(r) ==
    /\ phase[r] = "listening"
    /\ timed' = timed \ {r}
    /\ offers' = Forget(r)
    /\ used' = Release(r)
    /\ phase' = [phase EXCEPT ![r] = "open"]
    /\ sessions' = [sessions EXCEPT ![About[r]] = r]
    /\ sockets' = sockets \cup {r}
    /\ idle' = idle \cup {r}
    /\ party' = party + 1
    /\ UNCHANGED <<serviceVars, portOf, failed>>
    /\ Event

(* DCCSession.close and onClose: nothing if the session is closed already.     *)
(* removeSession goes by the nick.                                          *)
AgainAndAgain(r) == phase[r] \in {"open", "over"}  \* mutant
Closing(r) == phase[r] = "open"
StayRegistered(r) == sessions  \* mutant
RemoveSession(r) == [sessions EXCEPT ![About[r]] = None]
Close(r) ==
    IF Closing(r)
    THEN /\ phase' = [phase EXCEPT ![r] = "over"]
         /\ sessions' = RemoveSession(r)
         /\ party' = party - 1
    ELSE UNCHANGED <<phase, sessions, party>>

(* .quit: whatever else came in the same packet is still handled, and starts   *)
(* the idle timer again.                                                    *)
Quit(r) ==
    /\ phase[r] = "open" /\ r \in sockets
    /\ Close(r)
    /\ \/ idle' = idle \ {r}
       \/ idle' = idle
    /\ UNCHANGED <<serviceVars, offerVars, sockets>>
    /\ Event

IdleTimeout(r) ==
    /\ r \in idle
    /\ idle' = idle \ {r}
    /\ Close(r)
    /\ UNCHANGED <<serviceVars, offerVars, sockets>>
    /\ Event

(* 'close' of the socket, after the bot or the user ended it, or 'error'      *)
(* before it.                                                               *)
SocketEnds(r) ==
    /\ r \in sockets
    /\ \/ sockets' = sockets \ {r}
       \/ phase[r] = "open" /\ sockets' = sockets
    /\ idle' = IF Closing(r) THEN idle \ {r} ELSE idle
    /\ Close(r)
    /\ UNCHANGED <<serviceVars, offerVars>>
    /\ Event

NoOffers == {}  \* mutant
Offered == {offers[p] : p \in Port} \ {None}

(* DCCManager.detach and Services.detach, as Bot.shutdown calls them.         *)
Shutdown ==
    /\ phase' = [r \in Dcc |-> IF r \in Registered \cup Offered THEN "over" ELSE phase[r]]
    /\ sessions' = [n \in Nick |-> None]
    /\ idle' = idle \ Registered
    /\ party' = party - Cardinality(Registered)
    /\ timed' = timed \ Offered
    /\ offers' = [p \in Port |-> None]
    /\ used' = used \ {portOf[r] : r \in Offered}
    /\ Detach
    /\ UNCHANGED <<portOf, failed, sockets>>
    /\ Event

-----------------------------------------------------------------------------
(* Of Services, on the same loop                                           *)

Notice == OnNotice /\ UNCHANGED <<phase, offerVars, sessionVars>> /\ Line

VerifyTimeout(r) == Timeout(r) /\ UNCHANGED <<phase, offerVars, sessionVars>> /\ Event

Outside == NickServAnswers \/ ConnectionLost

Next ==
    \/ \E r \in Dcc :
          \/ OnDccCtcp(r) \/ Accept(r) \/ Listen(r) \/ OfferTimeout(r)
          \/ Connect(r) \/ Quit(r) \/ IdleTimeout(r) \/ SocketEnds(r)
    \/ \E r \in Request \ Dcc : OthersAsk(r)
    \/ Notice
    \/ \E r \in Request : VerifyTimeout(r)
    \/ Shutdown
    \/ Outside /\ UNCHANGED dccVars

(* Timers fire, promises continue and servers start to listen or fail to.      *)
Spec ==
    /\ Init /\ [][Next]_vars
    /\ \A r \in Request : WF_vars(VerifyTimeout(r))
    /\ \A r \in Dcc : WF_vars(Accept(r)) /\ WF_vars(Listen(r)) /\ WF_vars(OfferTimeout(r))

-----------------------------------------------------------------------------
(* The ports given out are of the range, the sessions DCC requests of ours.    *)
TypeOK ==
    /\ ServicesTypeOK
    /\ phase \in [Dcc -> {"new", "verifying", "binding", "listening", "open", "over"}]
    /\ portOf \in [Dcc -> Port \cup {0}]
    /\ offers \in [Port -> Dcc \cup {None}]
    /\ used \subseteq Port /\ timed \subseteq Dcc
    /\ sessions \in [Nick -> Dcc \cup {None}]
    /\ sockets \subseteq Dcc /\ idle \subseteq Dcc
    /\ party \in Int
    /\ batch \in 0..LinesPerTick
    /\ crossed \in BOOLEAN /\ failed \in BOOLEAN

(* A session in the console's list is open and is that of its nick, whatever    *)
(* order sessions of one nick open, close and are replaced in.               *)
RegisteredOpen ==
    \A n \in Nick : sessions[n] # None => phase[sessions[n]] = "open" /\ About[sessions[n]] = n

(* The bot link is told of each session that it opened and, once, that it       *)
(* closed, though .quit, the idle timer, the socket's end and the shutdown     *)
(* all close it.                                                            *)
PartyCounts == party = Cardinality(In("open"))

Serving == In("binding") \cup In("listening")

(* As long as no server failed to listen, exactly the ports of the servers      *)
(* are marked used, each for one, and each server has its entry.              *)
PortsAccounted ==
    ~failed => /\ used = {portOf[r] : r \in Serving}
               /\ \A r \in Serving : offers[portOf[r]] = r

(* The checks of a request hold when it is accepted, after NickServ's answer:    *)
(* a nick has one offer or session at most.  Not so if a line came between a    *)
(* promise and its continuation, or a server failed.                         *)
OneAtATime ==
    ~crossed /\ ~failed =>
        \A r, s \in Serving \cup In("open") : About[r] = About[s] => r = s

Closed == Serving \cup In("open") = {}

(* detach closes all sessions and servers, and a verification that outlasts     *)
(* it opens none.                                                           *)
DetachCloses == ~attached /\ ~crossed /\ ~failed => Closed

(* Every request is refused, or becomes a session, or its offer ends: a server   *)
(* does not listen for ever, even if its entry is gone.                       *)
RequestsEnd ==
    \A r \in Dcc : phase[r] \in {"verifying", "binding", "listening"}
                     ~> phase[r] \in {"open", "over"}
=============================================================================
