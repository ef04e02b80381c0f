---------------------------- MODULE MessageQueue ----------------------------
(***************************************************************************)
(* The per-target output queue with flood protection                       *)
(* (src/core/message-queue.ts): a sub-queue per IRC target, drained         *)
(* round-robin by an interval timer, every message paid for from one        *)
(* integer-millisecond token bucket.                                       *)
(*                                                                         *)
(* A message is its number among the messages accepted for its target,      *)
(* counted modulo Ids.  The clock is Date.now() - lastRefill, which stops    *)
(* counting at the capacity of the bucket, where it no longer matters.  The  *)
(* last four variables only observe: the wire, and a window of time on it.  *)
(***************************************************************************)
EXTENDS Integers, Sequences, FiniteSets

CONSTANTS
    Target,      \* IRC targets, the untargeted '' among them
    Cost,        \* costMs
    Burst,       \* options.burst
    MaxDepth,    \* MAX_DEPTH
    Ids,         \* message numbers wrap here: more than can be queued
    MaxWindow    \* how long the observed window of time may get (a bound)

ASSUME ConstantsAssumption ==
    /\ IsFiniteSet(Target)
    /\ Cost \in Nat \ {0}
    /\ Burst \in Nat
    /\ MaxDepth \in Nat
    /\ Ids \in Nat /\ Ids > MaxDepth + 1
    /\ MaxWindow \in Nat

VARIABLES
    subQueues,     \* target -> its messages; <<>> where the Map has no entry
    targetOrder,   \* targets with pending messages, in insertion order
    rrIndex,       \* round-robin cursor, from 0
    totalPending,
    budgetMs,
    sinceRefill,   \* Date.now() - lastRefill
    stopped,       \* stop() was called
    accepted,      \* target -> number of the last message accepted
    delivered,     \* target -> number of the last message sent (or cleared)
    window,        \* milliseconds since the observed window began
    sent           \* messages sent in it

queueVars == <<subQueues, targetOrder, rrIndex, totalPending>>
observed == <<accepted, delivered, window, sent>>
vars == <<queueVars, budgetMs, sinceRefill, stopped, observed>>

Least(a, b) == IF a <= b THEN a ELSE b
Greatest(a, b) == IF a >= b THEN a ELSE b
Succ(id) == IF id = Ids - 1 THEN 0 ELSE id + 1

(* Room for one message at least, or drain() could never afford one.       *)
Capacity == Greatest(Cost, Burst * Cost)

Init ==
    /\ subQueues = [t \in Target |-> <<>>]
    /\ targetOrder = <<>>
    /\ rrIndex = 0
    /\ totalPending = 0
    /\ budgetMs = Burst * Cost
    /\ sinceRefill = 0
    /\ stopped = FALSE
    /\ accepted = [t \in Target |-> 0]
    /\ delivered = [t \in Target |-> 0]
    /\ window = 0
    /\ sent = 0

-----------------------------------------------------------------------------
(* refill(): what the budget becomes.                                      *)
RefilledUncapped == budgetMs + sinceRefill  \* mutant
Refilled == Least(Capacity, budgetMs + sinceRefill)

(* The send closure of message id runs.                                    *)
Send(t, id) ==
    /\ delivered' = [delivered EXCEPT ![t] = id]
    /\ sent' = sent + 1
    /\ UNCHANGED window

(* The fast path of enqueue is open.                                       *)
SendsInlineIfAffordable(budget) == budget >= Cost  \* mutant
SendsInlineUnpaid(budget) == totalPending = 0  \* mutant
SendsInline(budget) == totalPending = 0 /\ budget >= Cost

ListAgain(t, id) ==  \* mutant
    /\ subQueues' = [subQueues EXCEPT ![t] = Append(@, id)]
    /\ targetOrder' = Append(targetOrder, t)
    /\ totalPending' = totalPending + 1
    /\ UNCHANGED rrIndex
EnqueueToSubQueue(t, id) ==
    /\ subQueues' = [subQueues EXCEPT ![t] = Append(@, id)]
    /\ targetOrder' = IF subQueues[t] = <<>> THEN Append(targetOrder, t) ELSE targetOrder
    /\ totalPending' = totalPending + 1
    /\ UNCHANGED rrIndex

Full == totalPending >= MaxDepth

(* enqueue(): send inline, drop the message, or append it.                 *)
Enqueue(t) ==
    LET id == Succ(accepted[t]) IN
    /\ sinceRefill' = 0
    /\ \/ /\ SendsInline(Refilled)
          /\ budgetMs' = Refilled - Cost
          /\ Send(t, id)
          /\ accepted' = [accepted EXCEPT ![t] = id]
          /\ UNCHANGED queueVars
       \/ /\ ~SendsInline(Refilled) /\ Full
          /\ budgetMs' = Refilled
          /\ UNCHANGED <<queueVars, observed>>
       \/ /\ ~SendsInline(Refilled) /\ ~Full
          /\ budgetMs' = Refilled
          /\ EnqueueToSubQueue(t, id)
          /\ accepted' = [accepted EXCEPT ![t] = id]
          /\ UNCHANGED <<delivered, window, sent>>
    /\ UNCHANGED stopped

-----------------------------------------------------------------------------
(* removeTarget(): take the entry out of the rotation.                     *)
Position(t) == CHOOSE i \in DOMAIN targetOrder : targetOrder[i] = t
Without(t) ==
    [i \in 1..(Len(targetOrder) - 1) |->
        targetOrder[IF i < Position(t) THEN i ELSE i + 1]]

(* The cursor after the slot at idx (from 0) is gone, and after a visit     *)
(* that leaves messages behind.                                            *)
Clamp(cursor, size) == IF cursor >= size THEN 0 ELSE cursor
CursorAfterRemoval(cursor, idx) ==
    Clamp(IF cursor > idx THEN cursor - 1 ELSE cursor, Len(targetOrder) - 1)
StayOnTarget(cursor) == cursor  \* mutant
CursorAfterVisit(cursor) == Clamp(cursor + 1, Len(targetOrder))

PopNext ==
    LET cursor == Clamp(rrIndex, Len(targetOrder))
        t == targetOrder[cursor + 1]
    IN  /\ subQueues' = [subQueues EXCEPT ![t] = Tail(@)]
        /\ totalPending' = totalPending - 1
        /\ IF Len(subQueues[t]) = 1
           THEN /\ targetOrder' = Without(t)
                /\ rrIndex' = CursorAfterRemoval(cursor, Position(t) - 1)
           ELSE /\ rrIndex' = CursorAfterVisit(cursor)
                /\ UNCHANGED targetOrder
        /\ Send(t, Head(subQueues[t]))

(* drain(): one tick of the interval timer.                                *)
Drain ==
    /\ ~stopped
    /\ totalPending > 0
    /\ sinceRefill' = 0
    /\ \/ /\ Refilled < Cost
          /\ budgetMs' = Refilled
          /\ UNCHANGED <<queueVars, delivered, window, sent>>
       \/ /\ Refilled >= Cost
          /\ budgetMs' = Refilled - Cost
          /\ PopNext
    /\ UNCHANGED <<stopped, accepted>>

-----------------------------------------------------------------------------
EmptyQueue ==
    /\ subQueues' = [t \in Target |-> <<>>]
    /\ targetOrder' = <<>>
    /\ rrIndex' = 0
    /\ totalPending' = 0
    /\ delivered' = accepted

(* A window of time on the wire begins: it is on one connection, and ends   *)
(* before shutdown, so clear() and flush() begin a new one.                 *)
BeginWindow == window' = 0 /\ sent' = 0

(* clear(): irc-framework is about to reconnect.                           *)
Clear ==
    /\ EmptyQueue
    /\ BeginWindow
    /\ budgetMs' = Capacity
    /\ sinceRefill' = 0
    /\ UNCHANGED <<stopped, accepted>>

(* Bot.shutdown(): flush() sends everything at once, unpaid; then stop().   *)
Shutdown ==
    /\ ~stopped
    /\ EmptyQueue
    /\ BeginWindow
    /\ stopped' = TRUE
    /\ UNCHANGED <<budgetMs, sinceRefill, accepted>>

(* A millisecond passes.  A window that is long enough ends.               *)
Tick ==
    /\ sinceRefill' = Least(Capacity, sinceRefill + 1)
    /\ IF window < MaxWindow THEN window' = window + 1 /\ UNCHANGED sent ELSE BeginWindow
    /\ UNCHANGED <<queueVars, budgetMs, stopped, accepted, delivered>>

(* The observer may begin a window at any time.                            *)
Observe ==
    /\ BeginWindow
    /\ UNCHANGED <<queueVars, budgetMs, sinceRefill, stopped, accepted, delivered>>

Next == (\E t \in Target : Enqueue(t)) \/ Drain \/ Clear \/ Shutdown \/ Tick \/ Observe

Spec == Init /\ [][Next]_vars

(* The interval fires as long as it is not cleared, and time passes.       *)
FairSpec == Spec /\ WF_vars(Drain) /\ WF_vars(Tick)

-----------------------------------------------------------------------------
MsgId == 0..(Ids - 1)

TypeOK ==
    /\ subQueues \in [Target -> Seq(MsgId)]
    /\ targetOrder \in Seq(Target)
    /\ rrIndex \in Nat
    /\ totalPending \in Nat
    /\ budgetMs \in 0..Capacity
    /\ sinceRefill \in 0..Capacity
    /\ stopped \in BOOLEAN
    /\ accepted \in [Target -> MsgId]
    /\ delivered \in [Target -> MsgId]
    /\ window \in Nat
    /\ sent \in Nat

(* The four structures of the queue agree at every moment, whichever way    *)
(* targets come, empty and come back: the rotation lists each target with    *)
(* pending messages exactly once, the counter is their number, the cursor    *)
(* is on a slot, and the depth cap holds.  flush() would loop for ever on a  *)
(* counter that is too high (enqueueToSubQueue, popNext, removeTarget).      *)
Pending == UNION {{t} \X DOMAIN subQueues[t] : t \in Target}
ListedOnce == \A i, j \in DOMAIN targetOrder : targetOrder[i] = targetOrder[j] => i = j
ListedIffPending ==
    \A t \in Target :
        subQueues[t] # <<>> <=> \E i \in DOMAIN targetOrder : targetOrder[i] = t
Counted == totalPending = Cardinality(Pending) /\ totalPending <= MaxDepth
CursorInRange == rrIndex < Len(targetOrder) \/ (rrIndex = 0 /\ targetOrder = <<>>)
Consistent == ListedOnce /\ ListedIffPending /\ Counted /\ CursorInRange

(* Messages for one target stay in order and none is lost or sent twice: a   *)
(* sub-queue holds exactly what was accepted and not yet sent, in order, so  *)
(* the inline path cannot overtake it ("Messages for the same target stay in *)
(* arrival order").                                                        *)
Fifo ==
    \A t \in Target :
        LET all == <<delivered[t]>> \o subQueues[t] IN
        /\ \A i \in 1..(Len(all) - 1) : all[i + 1] = Succ(all[i])
        /\ all[Len(all)] = accepted[t]

(* In no stretch of time on one connection does the queue send more than its  *)
(* burst and what that time pays for, whichever targets and paths (inline or  *)
(* timer) the messages take ("the bot's wire output never exceeds rate").     *)
WireRate == sent * Cost <= Capacity + window

(* Whoever waits is sent to in the end ("the cursor advances one target per   *)
(* drain [...].  A target that re-appears goes to the tail, so bursty targets *)
(* don't monopolise the rotation", message-queue.ts:22).                     *)
Sends(t) == delivered'[t] # delivered[t]
Served(t) ==
    \/ []<>(subQueues[t] = <<>> \/ stopped)
    \/ []<><<Sends(t)>>_vars
NoStarvation == \A t \in Target : Served(t)

(* However much is queued for one target, no other starves ("a plugin that    *)
(* floods #busy can't starve #quiet", message-queue.ts:12): it takes two that *)
(* leave the rotation and come back again and again (popNext, removeTarget).  *)
ComesBack(t) == subQueues[t] = <<>> /\ subQueues'[t] # <<>>
NoStarvationByOne ==
    \A t \in Target :
        \/ Served(t)
        \/ \E s, r \in Target \ {t} :
              s # r /\ []<><<ComesBack(s)>>_vars /\ []<><<ComesBack(r)>>_vars

=============================================================================
