------------------------------ MODULE BotLink ------------------------------
(***************************************************************************)
(* The connection layer of the bot link: the leaf's connection state       *)
(* machine (src/core/botlink-leaf.ts), the hub's handshake, registry of    *)
(* leaves and heartbeat (src/core/botlink-hub.ts), and the socket wrapper   *)
(* both sides use (src/core/botlink-protocol.ts).                          *)
(*                                                                         *)
(* Every process runs one Node event loop.  destroy() on a socket sets its *)
(* flags at once but its 'close' event is delivered by the loop's closing   *)
(* phase, after the timers and the I/O of that iteration: between the two   *)
(* another socket's frame may be handled.  An end of a socket is therefore  *)
(* "open", "closing" (destroyed, event not yet delivered) or "closed".      *)
(* Timers do not run while a close event of the same process is pending.    *)
(*                                                                         *)
(* Time is abstract.  A heartbeat expires only when the other side cannot   *)
(* be heard (Deaf below); delays, backoff and ping sequence numbers are     *)
(* left out.  Frames that do not change the state of the connection (PING,  *)
(* PONG, SYNC_START..SYNC_END, BOTJOIN, BOTPART and everything relayed) are *)
(* left out too.                                                            *)
(***************************************************************************)
EXTENDS Naturals, Sequences, FiniteSets

CONSTANTS
    Leaf,        \* botnames of the leaves
    GoodLeaf,    \* the leaves configured with the hub's password
    Sock,        \* sockets that can exist at once (a bound; ids are reused)
    None,        \* no socket
    MaxLeaves,   \* config.max_leaves
    Commands,    \* operator commands that may be given, see Command below
    Faults,      \* environment events that may happen, see Fault below
    PromptEof    \* a FIN on a healthy path arrives within reconnect_delay_ms

Command == {"reconnect", "redial", "shutdown", "disconnectLeaf"}
Fault == {"partition", "lateWelcome", "leafRestart", "hubRestart", "refused"}

ASSUME ConstantsAssumption ==
    /\ GoodLeaf \subseteq Leaf
    /\ None \notin Sock \cup Leaf
    /\ MaxLeaves \in Nat \ {0}
    /\ IsFiniteSet(Leaf)
    /\ Commands \subseteq Command
    /\ Faults \subseteq Fault
    /\ PromptEof \in BOOLEAN

VARIABLES
    \* BotLinkLeaf, one per leaf.  pingTimer runs exactly while connected.
    connected, connecting, disconnecting, reconnectTimer,
    protocol,    \* this.protocol: the socket of the current wrapper, or None
    \* the sockets
    tcp,         \* "free", "dialing" (connect() called in this iteration),
                 \* "syn" (may complete), "open"
    owner,       \* the leaf that opened it, None while "free"
    up,          \* FALSE: the path is partitioned, nothing is delivered
    hello,       \* the HELLO frame is on its way to the hub
    toLeaf,      \* frames on their way to the leaf
    leafEnd, hubEnd,
    leafHandler, \* the leaf's protocol.onFrame: "handshake" or "steady"
    hubHandler,  \* the hub's: "handshake", "rejected" or "steady"
    \* BotLinkHub
    leaves       \* this.leaves: botname -> socket of its connection, or None

leafVars == <<connected, connecting, disconnecting, reconnectTimer, protocol>>
sockVars == <<tcp, owner, up, hello, toLeaf, leafEnd, hubEnd, leafHandler, hubHandler>>
vars == <<leafVars, sockVars, leaves>>

Frame == {"WELCOME", "AUTH_FAILED", "ERROR"}
End == {"open", "closing", "closed"}

Init ==
    /\ connected = [l \in Leaf |-> FALSE]
    /\ connecting = [l \in Leaf |-> FALSE]
    /\ disconnecting = [l \in Leaf |-> FALSE]
    /\ reconnectTimer = [l \in Leaf |-> TRUE]  \* stands for the connect() at start
    /\ protocol = [l \in Leaf |-> None]
    /\ tcp = [s \in Sock |-> "free"]
    /\ owner = [s \in Sock |-> None]
    /\ up = [s \in Sock |-> TRUE]
    /\ hello = [s \in Sock |-> FALSE]
    /\ toLeaf = [s \in Sock |-> <<>>]
    /\ leafEnd = [s \in Sock |-> "closed"]
    /\ hubEnd = [s \in Sock |-> "closed"]
    /\ leafHandler = [s \in Sock |-> "handshake"]
    /\ hubHandler = [s \in Sock |-> "handshake"]
    /\ leaves = [l \in Leaf |-> None]

-----------------------------------------------------------------------------
(* Sockets and the event loop                                              *)

LeafSocks(l) == {s \in Sock : tcp[s] # "free" /\ owner[s] = l}
LeafClosePending(l) == \E s \in LeafSocks(l) : leafEnd[s] = "closing"
HubClosePending == \E s \in Sock : hubEnd[s] = "closing"

(* BotLinkProtocol.close(): idempotent.                                    *)
Destroy(end, s) == [end EXCEPT ![s] = IF @ = "open" THEN "closing" ELSE @]
DestroyProtocol(l) ==
    leafEnd' = IF protocol[l] = None THEN leafEnd ELSE Destroy(leafEnd, protocol[l])

(* A socket both of whose ends are gone can be used again.                 *)
Recycle(s) ==
    /\ tcp[s] = "open" /\ leafEnd[s] = "closed" /\ hubEnd[s] = "closed"
    /\ tcp' = [tcp EXCEPT ![s] = "free"]
    /\ owner' = [owner EXCEPT ![s] = None]
    /\ up' = [up EXCEPT ![s] = TRUE]
    /\ hello' = [hello EXCEPT ![s] = FALSE]
    /\ toLeaf' = [toLeaf EXCEPT ![s] = <<>>]
    /\ leafHandler' = [leafHandler EXCEPT ![s] = "handshake"]
    /\ hubHandler' = [hubHandler EXCEPT ![s] = "handshake"]
    /\ UNCHANGED <<leafVars, leafEnd, hubEnd, leaves>>

-----------------------------------------------------------------------------
(* BotLinkLeaf                                                             *)

(* scheduleReconnect(), on the values its caller has just assigned.        *)
ScheduleReconnectWhileDialing(l, isDisconnecting, isConnecting) ==  \* mutant
    reconnectTimer' = [reconnectTimer EXCEPT ![l] = @ \/ ~isDisconnecting]
ScheduleReconnect(l, isDisconnecting, isConnecting) ==
    reconnectTimer' =
        [reconnectTimer EXCEPT ![l] = @ \/ ~(isDisconnecting \/ isConnecting)]

(* The part of connect() after its early return: dial a socket.            *)
Dial(l) ==
    \E s \in Sock :
        /\ tcp[s] = "free"
        /\ tcp' = [tcp EXCEPT ![s] = "dialing"]
        /\ owner' = [owner EXCEPT ![s] = l]
        /\ connecting' = [connecting EXCEPT ![l] = TRUE]

(* The reconnect timer fires: connect(), a no-op when already under way.   *)
ReconnectTimer(l) ==
    /\ reconnectTimer[l]
    /\ ~LeafClosePending(l)
    /\ PromptEof => \A s \in LeafSocks(l) :
                        tcp[s] = "open" /\ up[s] /\ leafEnd[s] # "open" => hubEnd[s] # "open"
    /\ reconnectTimer' = [reconnectTimer EXCEPT ![l] = FALSE]
    /\ IF connected[l] \/ connecting[l] \/ disconnecting[l]
       THEN UNCHANGED <<connecting, tcp, owner>>
       ELSE Dial(l)
    /\ UNCHANGED <<connected, disconnecting, protocol, leaves, up, hello,
                   toLeaf, leafEnd, hubEnd, leafHandler, hubHandler>>

(* The loop of the dialing leaf goes round: its pending close events have  *)
(* been delivered, and the new socket is polled for the first time.        *)
DialPolled(s) ==
    /\ tcp[s] = "dialing"
    /\ ~LeafClosePending(owner[s])
    /\ tcp' = [tcp EXCEPT ![s] = "syn"]
    /\ UNCHANGED <<leafVars, owner, up, hello, toLeaf, leafEnd, hubEnd, leafHandler,
                   hubHandler, leaves>>

(* onConnect and initProtocol: wrap the socket and send HELLO.  The hub    *)
(* accepts the connection (handleConnection) in the same step, once its     *)
(* pending close events are delivered: it reads the HELLO in a later        *)
(* iteration of its loop, so they come first in any case.                   *)
DialOk(s) ==
    LET l == owner[s] IN
    /\ tcp[s] = "syn"
    /\ ~HubClosePending
    /\ tcp' = [tcp EXCEPT ![s] = "open"]
    /\ connecting' = [connecting EXCEPT ![l] = FALSE]
    /\ protocol' = [protocol EXCEPT ![l] = s]
    /\ hello' = [hello EXCEPT ![s] = TRUE]
    /\ leafEnd' = [leafEnd EXCEPT ![s] = "open"]
    /\ hubEnd' = [hubEnd EXCEPT ![s] = "open"]
    /\ UNCHANGED <<connected, disconnecting, reconnectTimer, owner, up,
                   toLeaf, leafHandler, hubHandler, leaves>>

(* onError of a socket that never connected.                               *)
DialFail(s) ==
    LET l == owner[s] IN
    /\ "refused" \in Faults
    /\ tcp[s] = "syn"
    /\ tcp' = [tcp EXCEPT ![s] = "free"]
    /\ owner' = [owner EXCEPT ![s] = None]
    /\ connecting' = [connecting EXCEPT ![l] = FALSE]
    /\ ScheduleReconnect(l, disconnecting[l], FALSE)
    /\ UNCHANGED <<connected, disconnecting, protocol, up, hello, toLeaf,
                   leafEnd, hubEnd, leafHandler, hubHandler, leaves>>

LeafDelivers(s) == tcp[s] = "open" /\ up[s] /\ leafEnd[s] = "open" /\ toLeaf[s] # <<>>
PopToLeaf(s) == toLeaf' = [toLeaf EXCEPT ![s] = Tail(@)]

(* onFrame during the handshake, WELCOME.  The steady-state handler is     *)
(* installed on this.protocol, whichever socket that is by now.            *)
Welcome(s) ==
    LET l == owner[s] IN
    /\ LeafDelivers(s)
    /\ leafHandler[s] = "handshake" /\ Head(toLeaf[s]) = "WELCOME"
    /\ PopToLeaf(s)
    /\ connected' = [connected EXCEPT ![l] = TRUE]
    /\ leafHandler' = [t \in Sock |-> IF t = protocol[l] THEN "steady" ELSE leafHandler[t]]
    /\ UNCHANGED <<connecting, disconnecting, reconnectTimer, protocol, tcp,
                   owner, up, hello, leafEnd, hubEnd, hubHandler, leaves>>

(* onFrame during the handshake, ERROR: close this.protocol, and schedule a *)
(* reconnect unless the code is AUTH_FAILED.                                *)
HandshakeError(s) ==
    LET l == owner[s] code == Head(toLeaf[s]) IN
    /\ LeafDelivers(s)
    /\ leafHandler[s] = "handshake" /\ code \in {"AUTH_FAILED", "ERROR"}
    /\ PopToLeaf(s)
    /\ DestroyProtocol(l)
    /\ protocol' = [protocol EXCEPT ![l] = None]
    /\ IF code = "AUTH_FAILED"
       THEN UNCHANGED reconnectTimer
       ELSE ScheduleReconnect(l, disconnecting[l], connecting[l])
    /\ UNCHANGED <<connected, connecting, disconnecting, tcp, owner, up, hello, hubEnd,
                   leafHandler, hubHandler, leaves>>

(* onSteadyState: an ERROR is handed to the application, which ignores it. *)
SteadyFrame(s) ==
    /\ LeafDelivers(s)
    /\ leafHandler[s] = "steady"
    /\ PopToLeaf(s)
    /\ UNCHANGED <<leafVars, tcp, owner, up, hello, leafEnd, hubEnd, leafHandler,
                   hubHandler, leaves>>

(* The hub's FIN or RST is read.  A RST may overtake frames not yet read.  *)
LeafSeesEof(s) ==
    /\ tcp[s] = "open" /\ up[s] /\ leafEnd[s] = "open" /\ hubEnd[s] # "open"
    /\ leafEnd' = [leafEnd EXCEPT ![s] = "closing"]
    /\ UNCHANGED <<leafVars, tcp, owner, up, hello, toLeaf, hubEnd, leafHandler,
                   hubHandler, leaves>>

ForgetProtocolOnly(l) ==  \* mutant
    protocol' = [protocol EXCEPT ![l] = None] /\ UNCHANGED connected
ForgetLink(l) ==
    /\ connected' = [connected EXCEPT ![l] = FALSE]
    /\ protocol' = [protocol EXCEPT ![l] = None]

(* The 'close' event: onClose of this socket's wrapper, which resets the   *)
(* leaf's state whichever socket is current.                               *)
LeafOnClose(s) ==
    LET l == owner[s] IN
    /\ tcp[s] = "open" /\ leafEnd[s] = "closing"
    /\ leafEnd' = [leafEnd EXCEPT ![s] = "closed"]
    /\ ForgetLink(l)
    /\ ScheduleReconnect(l, disconnecting[l], connecting[l])
    /\ UNCHANGED <<connecting, disconnecting, tcp, owner, up, hello, toLeaf,
                   hubEnd, leafHandler, hubHandler, leaves>>

(* Both sides' heartbeats ping on the connection they hold: the leaf on     *)
(* this.protocol while connected, the hub on the registered connection.     *)
LeafSpeaks(s) == protocol[owner[s]] = s /\ connected[owner[s]] /\ leafEnd[s] = "open"
HubSpeaks(s) == leaves[owner[s]] = s /\ hubEnd[s] = "open"

(* Who is heard within link_timeout_ms: a healthy path delivers what is    *)
(* sent, and a FIN or a queued frame, well before that.                    *)
LeafHears(s) == up[s] /\ leafEnd[s] = "open" /\ leafHandler[s] = "steady"
                      /\ (HubSpeaks(s) \/ hubEnd[s] # "open")
HubHearsItself(s) == TRUE  \* mutant: its own pings count as activity
HubHears(s) == up[s] /\ (LeafSpeaks(s) \/ toLeaf[s] # <<>> \/ leafEnd[s] # "open")

(* The leaf's ping interval finds lastMessageAt older than link_timeout_ms. *)
LeafHeartbeat(l) ==
    /\ connected[l]
    /\ ~LeafClosePending(l)
    /\ \A s \in LeafSocks(l) : ~LeafHears(s)
    /\ protocol[l] # None
    /\ DestroyProtocol(l)
    /\ UNCHANGED <<leafVars, tcp, owner, up, hello, toLeaf, hubEnd, leafHandler,
                   hubHandler, leaves>>

(* reconnect(): the command .botlink reconnect.  It neither cancels an      *)
(* attempt under way nor clears the reconnect timer; "redial" lets it be    *)
(* given while one of them is pending.                                      *)
Reconnect(l) ==
    /\ "reconnect" \in Commands
    /\ "redial" \in Commands \/ (~reconnectTimer[l] /\ \A s \in LeafSocks(l) : tcp[s] = "open")
    /\ disconnecting' = [disconnecting EXCEPT ![l] = FALSE]
    /\ DestroyProtocol(l)
    /\ ForgetLink(l)
    /\ Dial(l)
    /\ UNCHANGED <<reconnectTimer, up, hello, toLeaf, hubEnd, leafHandler, hubHandler,
                   leaves>>

(* disconnect(): at shutdown.  It does not touch a socket still dialing.   *)
Disconnect(l) ==
    /\ "shutdown" \in Commands
    /\ ~disconnecting[l]
    /\ disconnecting' = [disconnecting EXCEPT ![l] = TRUE]
    /\ connecting' = [connecting EXCEPT ![l] = FALSE]
    /\ reconnectTimer' = [reconnectTimer EXCEPT ![l] = FALSE]
    /\ DestroyProtocol(l)
    /\ ForgetLink(l)
    /\ UNCHANGED <<tcp, owner, up, hello, toLeaf, hubEnd, leafHandler,
                   hubHandler, leaves>>

-----------------------------------------------------------------------------
(* BotLinkHub                                                              *)

Registered == {l \in Leaf : leaves[l] # None}
HubFullOffByOne == Cardinality(Registered) > MaxLeaves  \* mutant
HubFull == Cardinality(Registered) >= MaxLeaves

RegisterByName(l, s) == leaves' = [leaves EXCEPT ![l] = l]  \* mutant
Register(l, s) == leaves' = [leaves EXCEPT ![l] = s]

(* leaves.delete(botname), whichever connection the entry names by now.    *)
KeepEntry(l) == UNCHANGED leaves  \* mutant
Unregister(l) == leaves' = [leaves EXCEPT ![l] = None]

(* BotLinkProtocol.send(): a destroyed socket carries nothing more.         *)
SendToLeaf(s, frame) ==
    toLeaf' = [toLeaf EXCEPT ![s] = IF hubEnd[s] = "open" THEN Append(@, frame) ELSE @]

(* Send one frame and close the wrapper.                                   *)
HubRejects(s, frame) ==
    /\ SendToLeaf(s, frame)
    /\ hubEnd' = Destroy(hubEnd, s)

(* handleHello: password, duplicate name, capacity, then accept.           *)
Hello(s) ==
    LET l == owner[s] IN
    /\ tcp[s] = "open" /\ up[s] /\ hello[s]
    /\ hubEnd[s] = "open" /\ hubHandler[s] = "handshake"
    /\ hello' = [hello EXCEPT ![s] = FALSE]
    /\ \/ /\ l \notin GoodLeaf
          /\ HubRejects(s, "AUTH_FAILED")
          /\ hubHandler' = [hubHandler EXCEPT ![s] = "rejected"]
          /\ UNCHANGED leaves
       \/ /\ l \in GoodLeaf
          /\ leaves[l] # None \/ HubFull
          /\ HubRejects(s, "ERROR")
          /\ hubHandler' = [hubHandler EXCEPT ![s] = "rejected"]
          /\ UNCHANGED leaves
       \/ /\ l \in GoodLeaf
          /\ leaves[l] = None /\ ~HubFull
          /\ SendToLeaf(s, "WELCOME")
          /\ hubHandler' = [hubHandler EXCEPT ![s] = "steady"]
          /\ Register(l, s)
          /\ UNCHANGED hubEnd
    /\ UNCHANGED <<leafVars, tcp, owner, up, leafEnd, leafHandler>>

(* The handshake timer: no HELLO arrived in time.                          *)
HandshakeTimeout(s) ==
    /\ tcp[s] = "open" /\ hubEnd[s] = "open" /\ hubHandler[s] = "handshake"
    /\ ~(up[s] /\ hello[s])
    /\ ~HubClosePending
    /\ HubRejects(s, "ERROR")
    /\ UNCHANGED <<leafVars, tcp, owner, up, hello, leafEnd, leafHandler, hubHandler,
                   leaves>>

(* startHeartbeat's interval finds lastMessageAt older than link_timeout_ms *)
(* and removes the leaf; the wrapper's onClose stays installed.             *)
HubHeartbeat(l) ==
    LET s == leaves[l] IN
    /\ s # None
    /\ ~HubClosePending
    /\ ~HubHears(s)
    /\ Unregister(l)
    /\ HubRejects(s, "ERROR")
    /\ UNCHANGED <<leafVars, tcp, owner, up, hello, leafEnd, leafHandler, hubHandler>>

(* disconnectLeaf: the command .botlink disconnect.  onClose is set to null *)
(* first, so the close event does nothing.                                  *)
DisconnectLeaf(l) ==
    LET s == leaves[l] IN
    /\ "disconnectLeaf" \in Commands
    /\ s # None
    /\ SendToLeaf(s, "ERROR")
    /\ hubEnd' = [hubEnd EXCEPT ![s] = "closed"]
    /\ Unregister(l)
    /\ UNCHANGED <<leafVars, tcp, owner, up, hello, leafEnd, leafHandler, hubHandler>>

(* The leaf's FIN or RST is read.                                          *)
HubSeesEof(s) ==
    /\ tcp[s] = "open" /\ up[s] /\ hubEnd[s] = "open" /\ leafEnd[s] # "open"
    /\ hubEnd' = [hubEnd EXCEPT ![s] = "closing"]
    /\ UNCHANGED <<leafVars, tcp, owner, up, hello, toLeaf, leafEnd, leafHandler,
                   hubHandler, leaves>>

(* The 'close' event.  For a connection that completed its handshake it is *)
(* onLeafClose(botname), which finds the connection to remove by name.     *)
HubOnClose(s) ==
    /\ tcp[s] = "open" /\ hubEnd[s] = "closing"
    /\ hubEnd' = [hubEnd EXCEPT ![s] = "closed"]
    /\ IF hubHandler[s] = "steady" THEN Unregister(owner[s]) ELSE UNCHANGED leaves
    /\ UNCHANGED <<leafVars, tcp, owner, up, hello, toLeaf, leafEnd, leafHandler,
                   hubHandler>>

-----------------------------------------------------------------------------
(* The environment                                                         *)

(* The path of a socket goes dead without a FIN or RST to either side.     *)
(* "lateWelcome" lets that happen before the leaf has its WELCOME too: a    *)
(* leaf has no handshake timer, its heartbeat starts with the WELCOME.      *)
Partition(s) ==
    /\ "partition" \in Faults
    /\ tcp[s] = "open" /\ up[s]
    /\ "lateWelcome" \in Faults \/ leafHandler[s] = "steady"
    /\ up' = [up EXCEPT ![s] = FALSE]
    /\ UNCHANGED <<leafVars, tcp, owner, hello, toLeaf, leafEnd, hubEnd, leafHandler,
                   hubHandler, leaves>>

(* A leaf is restarted: disconnect() at shutdown, or the process dies.      *)
LeafRestart(l) ==
    /\ "leafRestart" \in Faults
    /\ connected' = [connected EXCEPT ![l] = FALSE]
    /\ connecting' = [connecting EXCEPT ![l] = FALSE]
    /\ disconnecting' = [disconnecting EXCEPT ![l] = FALSE]
    /\ reconnectTimer' = [reconnectTimer EXCEPT ![l] = TRUE]
    /\ protocol' = [protocol EXCEPT ![l] = None]
    /\ leafEnd' = [s \in Sock |-> IF s \in LeafSocks(l) THEN "closed" ELSE leafEnd[s]]
    /\ tcp' = [s \in Sock |-> IF s \in LeafSocks(l) /\ tcp[s] # "open" THEN "free" ELSE tcp[s]]
    /\ owner' = [s \in Sock |-> IF s \in LeafSocks(l) /\ tcp[s] # "open"
                                THEN None ELSE owner[s]]
    /\ UNCHANGED <<up, hello, toLeaf, hubEnd, leafHandler, hubHandler, leaves>>

(* The hub is restarted: close() at shutdown, or the process dies.         *)
HubRestart ==
    /\ "hubRestart" \in Faults
    /\ \E s \in Sock : hubEnd[s] # "closed"
    /\ hubEnd' = [s \in Sock |-> "closed"]
    /\ leaves' = [l \in Leaf |-> None]
    /\ UNCHANGED <<leafVars, tcp, owner, up, hello, toLeaf, leafEnd, leafHandler,
                   hubHandler>>

-----------------------------------------------------------------------------
LeafStep(l) ==
    ReconnectTimer(l) \/ LeafHeartbeat(l)

SockStep(s) ==
    \/ DialPolled(s) \/ DialOk(s) \/ Welcome(s) \/ HandshakeError(s) \/ SteadyFrame(s)
    \/ LeafSeesEof(s) \/ LeafOnClose(s)
    \/ Hello(s) \/ HandshakeTimeout(s) \/ HubSeesEof(s) \/ HubOnClose(s)
    \/ Recycle(s)

System ==
    \/ \E l \in Leaf : LeafStep(l) \/ HubHeartbeat(l)
    \/ \E s \in Sock : SockStep(s)

Environment ==
    \/ \E l \in Leaf : Reconnect(l) \/ Disconnect(l) \/ DisconnectLeaf(l) \/ LeafRestart(l)
    \/ \E s \in Sock : DialFail(s) \/ Partition(s)
    \/ HubRestart

Next == System \/ Environment

Spec == Init /\ [][Next]_vars

(* Node runs every ready callback; timers run in every iteration, though a *)
(* pending close event delays them, hence strong fairness.                 *)
Fairness ==
    /\ \A s \in Sock : WF_vars(SockStep(s))
    /\ \A l \in Leaf : SF_vars(LeafStep(l)) /\ SF_vars(HubHeartbeat(l))

FairSpec == Spec /\ Fairness

-----------------------------------------------------------------------------
TypeOK ==
    /\ connected \in [Leaf -> BOOLEAN]
    /\ connecting \in [Leaf -> BOOLEAN]
    /\ disconnecting \in [Leaf -> BOOLEAN]
    /\ reconnectTimer \in [Leaf -> BOOLEAN]
    /\ protocol \in [Leaf -> Sock \cup {None}]
    /\ tcp \in [Sock -> {"free", "dialing", "syn", "open"}]
    /\ owner \in [Sock -> Leaf \cup {None}]
    /\ up \in [Sock -> BOOLEAN]
    /\ hello \in [Sock -> BOOLEAN]
    /\ toLeaf \in [Sock -> Seq(Frame)]
    /\ leafEnd \in [Sock -> End]
    /\ hubEnd \in [Sock -> End]
    /\ leafHandler \in [Sock -> {"handshake", "steady"}]
    /\ hubHandler \in [Sock -> {"handshake", "rejected", "steady"}]
    /\ leaves \in [Leaf -> Sock \cup {None}]

(* Only leaves that know the password are registered, and never more than   *)
(* max_leaves of them (handleHello).                                        *)
Capacity ==
    /\ Registered \subseteq GoodLeaf
    /\ Cardinality(Registered) <= MaxLeaves

(* What the hub's registry points at is an accepted connection of that very *)
(* leaf whose close event has still to come, so an entry cannot outlive its *)
(* socket (handleHello, onLeafClose, startHeartbeat, disconnectLeaf).       *)
RegistryLive ==
    \A l \in Registered :
        LET s == leaves[l] IN
        tcp[s] = "open" /\ owner[s] = l /\ hubEnd[s] # "closed" /\ hubHandler[s] = "steady"

(* While nobody gives .botlink reconnect when an attempt or a timer is      *)
(* already pending, a leaf never has two sockets dialing or open at once,   *)
(* however errors, close events, timers and commands are interleaved        *)
(* (connect, scheduleReconnect, reconnect).                                 *)
Alive(s) == tcp[s] \in {"dialing", "syn"} \/ (tcp[s] = "open" /\ leafEnd[s] = "open")
OneLink ==
    \A s, t \in Sock :
        Alive(s) /\ Alive(t) /\ owner[s] = owner[t] => s = t

(* A leaf that believes it is connected holds a socket the hub accepted,    *)
(* with its steady-state handler installed (initProtocol).                  *)
ConnectedIsAccepted ==
    \A l \in Leaf : connected[l] =>
        /\ protocol[l] # None
        /\ leafHandler[protocol[l]] = "steady"
        /\ hubHandler[protocol[l]] = "steady"

(* Once the environment leaves the system alone, every leaf that may be     *)
(* linked ends up linked for good, from whatever mess of half-open, stale   *)
(* and partitioned sockets (scheduleReconnect, the two heartbeats).         *)
Linked(l) == connected[l] /\ protocol[l] # None /\ leaves[l] = protocol[l]
Recovery ==
    <>[][System]_vars =>
        \A l \in GoodLeaf : <>[](Linked(l) \/ disconnecting[l])

=============================================================================
