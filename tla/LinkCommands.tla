---------------------------- MODULE LinkCommands ----------------------------
(***************************************************************************)
(* Requests over the bot link: commands that run on another bot (CMD and     *)
(* CMD_RESULT: .bot, and commands registered with relayToHub), the party     *)
(* line that the hub keeps of the leaves' DCC users (PARTY_JOIN, PARTY_PART)  *)
(* and its listing (PARTY_WHOM).  src/core/botlink-leaf.ts, botlink-hub.ts,  *)
(* botlink-protocol.ts (executeCmdFrame) and commands/botlink-commands.ts.   *)
(*                                                                         *)
(* Every request carries a reference, and its answer is found by it.  The     *)
(* model also carries an identity with it, which the code does not have, to  *)
(* tell whether an answer belongs to the request it resolves.  Commands run   *)
(* asynchronously; how long, and the timers, are abstract.  Each leaf has one *)
(* user.                                                                    *)
(***************************************************************************)
EXTENDS LinkChannels, Functions

CONSTANTS
    Routed,       \* the leaves whose user gives .bot <another leaf>
    MaxRequests,  \* requests the bots make between them (a bound)
    MaxSessions,  \* leaf -> DCC sessions its user opens at once
    MaxFaults,    \* faults there may be (a bound)
    MaxFrames     \* sessions come and go while fewer frames are on their way (a bound)

Bot == Leaf \cup {Hub}

ASSUME ConstantsAssumption ==
    /\ Hub \notin Leaf
    /\ Routed \subseteq Leaf
    /\ MaxRequests \in Nat
    /\ MaxSessions \in [Leaf -> Nat]
    /\ MaxFaults \in Nat
    /\ MaxFrames \in Nat

VARIABLES
    counter,    \* bot -> cmdRefCounter
    pending,    \* bot -> requests it waits for: pendingCmds and pendingWhom
    running,    \* bot -> commands being executed
    cmdRoutes,  \* the hub's: who asked, by reference
    party,      \* the leaves whose user is in the hub's remotePartyUsers
    sessions,   \* leaf -> DCC sessions of its user
    faults,     \* links lost, bots restarted and commands dropped so far
    restarts    \* history: bot -> how often its process was restarted

cmdVars == <<counter, pending, running, cmdRoutes, party, sessions, faults, restarts>>
vars == <<linkVars, cmdVars>>

Init ==
    /\ LinkInit
    /\ counter = [b \in Bot |-> 0]
    /\ pending = [b \in Bot |-> {}]
    /\ running = [b \in Bot |-> {}]
    /\ cmdRoutes = {}
    /\ party = {}
    /\ sessions = [l \in Leaf |-> 0]
    /\ faults = 0
    /\ restarts = [b \in Bot |-> 0]

-----------------------------------------------------------------------------
Fault == faults < MaxFaults /\ faults' = faults + 1

(* References and the frames that carry them.  A leaf counts "1", "2", ...,  *)
(* the hub "hubcmd:1", ...                                                  *)
PlainRef(b, n) == <<"", n>>  \* mutant
RefOf(b, n) == <<IF b = Hub THEN "hubcmd:" ELSE "", n>>

Request(b) == [ref |-> RefOf(b, counter[b] + 1), id |-> <<b, counter[b] + 1, restarts[b]>>]
Cmd(req, to) == [type |-> "CMD", ref |-> req.ref, id |-> req.id, to |-> to]
Result(req) == [type |-> "CMD_RESULT", ref |-> req.ref, id |-> req.id]
Whom(req) == [type |-> "PARTY_WHOM", ref |-> req.ref, id |-> req.id]
WhomReply(req) == [type |-> "PARTY_WHOM_REPLY", ref |-> req.ref, id |-> req.id]
Notice(type) == [type |-> type]

(* relayCommand, requestWhom, sendCommandToBot: a new reference, and a timer. *)
Issue(b, req) ==
    /\ FoldFunction(+, 0, counter) < MaxRequests
    /\ counter' = [counter EXCEPT ![b] = @ + 1]
    /\ pending' = [pending EXCEPT ![b] = @ \cup {req}]

Ask(l, to) ==
    LET req == Request(l) IN
    /\ leafUp[l]
    /\ Issue(l, req)
    /\ toHub' = LeafSends(toHub, l, Cmd(req, to))
    /\ UNCHANGED <<leafUp, hubUp, toLeaf, running, cmdRoutes, party, sessions, faults, restarts>>

AskWhom(l) ==
    LET req == Request(l) IN
    /\ leafUp[l]
    /\ Issue(l, req)
    /\ toHub' = LeafSends(toHub, l, Whom(req))
    /\ UNCHANGED <<leafUp, hubUp, toLeaf, running, cmdRoutes, party, sessions, faults, restarts>>

HubAsk(to) ==
    LET req == Request(Hub) IN
    /\ hubUp[to]
    /\ Issue(Hub, req)
    /\ toLeaf' = HubSends(toLeaf, to, Cmd(req, to))
    /\ UNCHANGED <<leafUp, hubUp, toHub, running, cmdRoutes, party, sessions, faults, restarts>>

(* The timer of a request: it ends without an answer.                       *)
Timeout(b) ==
    \E req \in pending[b] :
        /\ pending' = [pending EXCEPT ![b] = @ \ {req}]
        /\ UNCHANGED <<linkVars, counter, running, cmdRoutes, party, sessions, faults, restarts>>

(* An answer with this reference resolves the request that waits under it.  *)
Waiting(b, ref) == {req \in pending[b] : req.ref = ref}
Resolve(b, ref) == pending' = [pending EXCEPT ![b] = @ \ Waiting(b, ref)]

-----------------------------------------------------------------------------
(* The hub reads a frame                                                    *)

HubReads(l, type) == hubUp[l] /\ toHub[l] # <<>> /\ Head(toHub[l]).type = type

RouteToTarget(ref, from, to) == {r \in cmdRoutes : r.ref # ref} \cup {[ref |-> ref, origin |-> to]}  \* mutant
RouteVia(ref, from, to) == {r \in cmdRoutes : r.ref # ref} \cup {[ref |-> ref, origin |-> from]}

(* onSteadyState and handleCmdRelay: the frame may exceed the rate limit, be *)
(* for another leaf, which may not be there, or be for the hub, which wants a *)
(* DCC session of the user and runs it, or refuses it (executeCmdFrame).     *)
HubCmd(l) ==
    LET frame == Head(toHub[l]) IN
    /\ HubReads(l, "CMD")
    /\ toHub' = Take(toHub, l)
    /\ \/ Fault /\ UNCHANGED <<toLeaf, running, cmdRoutes>>
       \/ /\ frame.to # Hub /\ ~hubUp[frame.to]
          /\ toLeaf' = HubSends(toLeaf, l, Result(frame))
          /\ UNCHANGED <<running, cmdRoutes, faults>>
       \/ /\ frame.to # Hub /\ hubUp[frame.to]
          /\ cmdRoutes' = RouteVia(frame.ref, l, frame.to)
          /\ toLeaf' = HubSends(toLeaf, frame.to, frame)
          /\ UNCHANGED <<running, faults>>
       \/ /\ frame.to = Hub
          /\ toLeaf' = HubSends(toLeaf, l, Result(frame))
          /\ UNCHANGED <<running, cmdRoutes, faults>>
       \/ /\ frame.to = Hub /\ l \in party
          /\ running' = [running EXCEPT ![Hub] = @ \cup {[from |-> l, req |-> frame]}]
          /\ UNCHANGED <<toLeaf, cmdRoutes, faults>>
    /\ UNCHANGED <<leafUp, hubUp, counter, pending, party, sessions, restarts>>

(* onSteadyState, CMD_RESULT: for the hub's own request, or by its route.    *)
HubResult(l) ==
    LET frame == Head(toHub[l])
        routes == {r \in cmdRoutes : r.ref = frame.ref}
    IN
    /\ HubReads(l, "CMD_RESULT")
    /\ toHub' = Take(toHub, l)
    /\ \/ /\ Waiting(Hub, frame.ref) # {}
          /\ Resolve(Hub, frame.ref)
          /\ UNCHANGED <<toLeaf, cmdRoutes>>
       \/ /\ Waiting(Hub, frame.ref) = {} /\ routes # {}
          /\ cmdRoutes' = cmdRoutes \ routes
          /\ \E r \in routes : toLeaf' = HubSends(toLeaf, r.origin, frame)
          /\ UNCHANGED pending
       \/ /\ Waiting(Hub, frame.ref) = {} /\ routes = {}
          /\ UNCHANGED <<toLeaf, pending, cmdRoutes>>
    /\ UNCHANGED <<leafUp, hubUp, counter, running, party, sessions, faults, restarts>>

(* handlePartyJoin, handlePartyPart, handlePartyWhom.                       *)
HubParty(l) ==
    /\ \/ HubReads(l, "PARTY_JOIN") /\ party' = party \cup {l} /\ UNCHANGED toLeaf
       \/ HubReads(l, "PARTY_PART") /\ party' = party \ {l} /\ UNCHANGED toLeaf
       \/ /\ HubReads(l, "PARTY_WHOM")
          /\ toLeaf' = HubSends(toLeaf, l, WhomReply(Head(toHub[l])))
          /\ UNCHANGED party
    /\ toHub' = Take(toHub, l)
    /\ UNCHANGED <<leafUp, hubUp, counter, pending, running, cmdRoutes, sessions, faults, restarts>>

-----------------------------------------------------------------------------
(* A leaf reads a frame                                                     *)

LeafReads(l, types) == leafUp[l] /\ toLeaf[l] # <<>> /\ Head(toLeaf[l]).type \in types

(* executeCmdFrame: unknown or not permitted, else run it.                   *)
LeafCmd(l) ==
    LET frame == Head(toLeaf[l]) IN
    /\ LeafReads(l, {"CMD"})
    /\ toLeaf' = Take(toLeaf, l)
    /\ \/ toHub' = LeafSends(toHub, l, Result(frame)) /\ UNCHANGED running
       \/ /\ running' = [running EXCEPT ![l] = @ \cup {[from |-> Hub, req |-> frame]}]
          /\ UNCHANGED toHub
    /\ UNCHANGED <<leafUp, hubUp, counter, pending, cmdRoutes, party, sessions, faults, restarts>>

LeafAnswer(l) ==
    /\ LeafReads(l, {"CMD_RESULT", "PARTY_WHOM_REPLY"})
    /\ toLeaf' = Take(toLeaf, l)
    /\ Resolve(l, Head(toLeaf[l]).ref)
    /\ UNCHANGED <<leafUp, hubUp, toHub, counter, running, cmdRoutes, party, sessions, faults, restarts>>

(* A command has run: the answer goes out on the link there is by now.       *)
Finish(b) ==
    \E cmd \in running[b] :
        /\ running' = [running EXCEPT ![b] = @ \ {cmd}]
        /\ IF b = Hub
           THEN toLeaf' = HubSends(toLeaf, cmd.from, Result(cmd.req)) /\ UNCHANGED toHub
           ELSE toHub' = LeafSends(toHub, b, Result(cmd.req)) /\ UNCHANGED toLeaf
        /\ UNCHANGED <<leafUp, hubUp, counter, pending, cmdRoutes, party, sessions, faults, restarts>>

-----------------------------------------------------------------------------
(* DCC sessions on the leaves (wirePartyLine).                              *)
SessionOpens(l) ==
    /\ sessions[l] < MaxSessions[l] /\ Len(toHub[l]) < MaxFrames
    /\ sessions' = [sessions EXCEPT ![l] = @ + 1]
    /\ toHub' = LeafSends(toHub, l, Notice("PARTY_JOIN"))
    /\ UNCHANGED <<leafUp, hubUp, toLeaf, counter, pending, running, cmdRoutes, party, faults, restarts>>

SessionCloses(l) ==
    /\ sessions[l] > 0 /\ Len(toHub[l]) < MaxFrames
    /\ sessions' = [sessions EXCEPT ![l] = @ - 1]
    /\ toHub' = LeafSends(toHub, l, Notice("PARTY_PART"))
    /\ UNCHANGED <<leafUp, hubUp, toLeaf, counter, pending, running, cmdRoutes, party, faults, restarts>>

-----------------------------------------------------------------------------
(* Links and processes                                                      *)

(* The first side to lose a link is a fault, the other follows.             *)
LinkFault(l) == IF leafUp[l] /\ hubUp[l] THEN Fault ELSE UNCHANGED faults

Connect(l) == LinkUp(l) /\ UNCHANGED cmdVars

LeafDisconnects(l) ==
    /\ LeafLoses(l)
    /\ LinkFault(l)
    /\ UNCHANGED <<counter, pending, running, cmdRoutes, party, sessions, restarts>>

(* cleanupLeafState, of its routes and its users.                           *)
CleanupRoutesOnly(l) ==  \* mutant
    cmdRoutes' = {r \in cmdRoutes : r.origin # l} /\ UNCHANGED party
CleanupLeafState(l) ==
    /\ cmdRoutes' = {r \in cmdRoutes : r.origin # l}
    /\ party' = party \ {l}

(* onLeafClose, the heartbeat's timeout, disconnectLeaf.                     *)
HubDisconnects(l) ==
    /\ hubUp[l]
    /\ hubUp' = [hubUp EXCEPT ![l] = FALSE]
    /\ toHub' = [toHub EXCEPT ![l] = <<>>]
    /\ CleanupLeafState(l)
    /\ LinkFault(l)
    /\ UNCHANGED <<leafUp, toLeaf, counter, pending, running, sessions, restarts>>

(* A leaf's process ends and starts again: its counter starts at 0.          *)
LeafRestarts(l) ==
    /\ leafUp' = [leafUp EXCEPT ![l] = FALSE]
    /\ toLeaf' = [toLeaf EXCEPT ![l] = <<>>]
    /\ counter' = [counter EXCEPT ![l] = 0]
    /\ pending' = [pending EXCEPT ![l] = {}]
    /\ running' = [running EXCEPT ![l] = {}]
    /\ sessions' = [sessions EXCEPT ![l] = 0]
    /\ Fault
    /\ restarts' = [restarts EXCEPT ![l] = @ + 1]
    /\ UNCHANGED <<hubUp, toHub, cmdRoutes, party>>

HubRestarts ==
    /\ hubUp' = [l \in Leaf |-> FALSE]
    /\ toHub' = [l \in Leaf |-> <<>>]
    /\ counter' = [counter EXCEPT ![Hub] = 0]
    /\ pending' = [pending EXCEPT ![Hub] = {}]
    /\ running' = [running EXCEPT ![Hub] = {}]
    /\ cmdRoutes' = {}
    /\ party' = {}
    /\ Fault
    /\ restarts' = [restarts EXCEPT ![Hub] = @ + 1]
    /\ UNCHANGED <<leafUp, toLeaf, sessions>>

-----------------------------------------------------------------------------
Next ==
    \/ \E l \in Leaf :
        \/ \E to \in {Hub} \cup (IF l \in Routed THEN Leaf \ {l} ELSE {}) : Ask(l, to)
        \/ AskWhom(l) \/ HubAsk(l)
        \/ HubCmd(l) \/ HubResult(l) \/ HubParty(l) \/ LeafCmd(l) \/ LeafAnswer(l)
        \/ SessionOpens(l) \/ SessionCloses(l)
        \/ Connect(l) \/ LeafDisconnects(l) \/ HubDisconnects(l) \/ LeafRestarts(l)
    \/ \E b \in Bot : Timeout(b) \/ Finish(b)
    \/ HubRestarts

Spec == Init /\ [][Next]_vars

-----------------------------------------------------------------------------
Answers(frames) == {f \in frames : f.type \in {"CMD_RESULT", "PARTY_WHOM_REPLY"}}

TypeOK ==
    /\ leafUp \in [Leaf -> BOOLEAN] /\ hubUp \in [Leaf -> BOOLEAN]
    /\ \A l \in Leaf : \A f \in Range(toHub[l]) :
        f.type \in {"CMD", "CMD_RESULT", "PARTY_WHOM", "PARTY_JOIN", "PARTY_PART"}
    /\ \A l \in Leaf : \A f \in Range(toLeaf[l]) :
        f.type \in {"CMD", "CMD_RESULT", "PARTY_WHOM_REPLY"}
    /\ counter \in [Bot -> Nat]
    /\ \A b \in Bot : \A p, q \in pending[b] : p.ref = q.ref => p = q
    /\ \A r, s \in cmdRoutes : r.ref = s.ref => r = s
    /\ party \subseteq Leaf
    /\ \A l \in Leaf : sessions[l] \in 0..MaxSessions[l]

(* An answer is only ever given to the request it answers: as long as .bot    *)
(* routes commands for the users of one leaf only, a bot that has not been    *)
(* restarted tells its requests apart by their references, however answers    *)
(* are delayed, timed out, routed or cut off by a lost link or a restart of   *)
(* the others (relayCommand, handleCmdRelay, onSteadyState).                  *)
Incoming(b) ==
    IF b = Hub THEN UNION {Range(toHub[l]) : l \in Leaf} ELSE Range(toLeaf[b])
AnswerMatches ==
    \A b \in Bot : restarts[b] = 0 =>
        \A f \in Answers(Incoming(b)), req \in pending[b] :
            f.ref = req.ref => f.id = req.id

(* A request is never forgotten: while nothing is lost, a bot that waits has  *)
(* its command or its answer somewhere on the way to it, at every step of the *)
(* way, so that no user waits for the timer (handleCmdRelay, cmdRoutes).      *)
OnItsWay(b, req) ==
    \/ \E l \in Leaf : \E f \in Range(toHub[l]) \cup Range(toLeaf[l]) :
        /\ f.type \notin {"PARTY_JOIN", "PARTY_PART"} /\ f.id = req.id
        /\ \/ b = Hub
           \/ f \in Range(toHub[b]) /\ f.type # "CMD_RESULT"
           \/ f \in Range(toLeaf[b]) /\ f.type # "CMD"
           \/ [ref |-> f.ref, origin |-> b] \in cmdRoutes
    \/ \E cmd \in UNION {running[c] : c \in Bot} :
        /\ cmd.req.id = req.id
        /\ b = Hub \/ cmd.from = b \/ [ref |-> req.ref, origin |-> b] \in cmdRoutes
NotForgotten ==
    faults = 0 => \A b \in Bot : \A req \in pending[b] : OnItsWay(b, req)

(* The hub lists nobody who is not there: a user it lists has a session, or   *)
(* the news that it ended is on its way, however links are lost and made      *)
(* again, until the leaf's end of the link is lost (cleanupLeafState); and     *)
(* requests, routes and the list keep their types.                           *)
NoGhosts ==
    /\ TypeOK
    /\ \A l \in party :
        /\ hubUp[l]
        /\ leafUp[l] => sessions[l] > 0 \/ Notice("PARTY_PART") \in Range(toHub[l])
=============================================================================
