--------------------------- MODULE BotLinkProofs ---------------------------
(***************************************************************************)
(* Proofs about BotLink, for every set of leaves, sockets, commands and     *)
(* faults, and every max_leaves.                                           *)
(***************************************************************************)
EXTENDS BotLink, FiniteSetTheorems, SequenceTheorems, TLAPS

USE ConstantsAssumption

(* Frames queue up on their way to a leaf.                                 *)
LEMMA QueueFrame ==
    ASSUME TypeOK, NEW s \in Sock, NEW frame \in Frame, SendToLeaf(s, frame)
    PROVE  toLeaf' \in [Sock -> Seq(Frame)]
<1>1. toLeaf \in [Sock -> Seq(Frame)]
  BY DEF TypeOK
<1>2. Append(toLeaf[s], frame) \in Seq(Frame)
  BY <1>1, AppendProperties
<1> QED BY <1>1, <1>2 DEF SendToLeaf

(* What is on its way to the leaf on socket s after a send: one frame more,   *)
(* at the end, or nothing new.                                             *)
LEMMA QueuedFrames ==
    ASSUME TypeOK, NEW s \in Sock, NEW frame \in Frame, SendToLeaf(s, frame)
    PROVE  /\ \A t \in Sock \ {s} : toLeaf'[t] = toLeaf[t]
           /\ toLeaf[s] = <<>> /\ hubEnd[s] # "open" => toLeaf'[s] = <<>>
           /\ \A i \in DOMAIN toLeaf'[s] :
                  toLeaf'[s][i] = frame \/ \E j \in DOMAIN toLeaf[s] : toLeaf[s][j] = toLeaf'[s][i]
<1>1. toLeaf[s] \in Seq(Frame) /\ \A t \in Sock \ {s} : toLeaf'[t] = toLeaf[t]
  BY DEF TypeOK, SendToLeaf
<1>2. CASE hubEnd[s] = "open"
  <2>1. toLeaf'[s] = Append(toLeaf[s], frame)
    BY <1>2 DEF TypeOK, SendToLeaf
  <2>2. /\ DOMAIN toLeaf'[s] = 1..(Len(toLeaf[s]) + 1)
        /\ DOMAIN toLeaf[s] = 1..Len(toLeaf[s])
        /\ \A j \in 1..Len(toLeaf[s]) : toLeaf'[s][j] = toLeaf[s][j]
        /\ toLeaf'[s][Len(toLeaf[s]) + 1] = frame
        /\ Len(toLeaf[s]) \in Nat
    BY <1>1, <2>1, AppendProperties, LenProperties
  <2> QED BY <1>1, <1>2, <2>2
<1>3. CASE hubEnd[s] # "open"
  <2>1. toLeaf'[s] = toLeaf[s]
    BY <1>3 DEF TypeOK, SendToLeaf
  <2> QED BY <1>1, <2>1
<1> QED BY <1>2, <1>3

LEMMA PopFrame ==
    ASSUME TypeOK, NEW s \in Sock, LeafDelivers(s), PopToLeaf(s)
    PROVE  toLeaf' \in [Sock -> Seq(Frame)]
<1>1. toLeaf \in [Sock -> Seq(Frame)] /\ toLeaf[s] # <<>>
  BY DEF TypeOK, LeafDelivers
<1>2. Tail(toLeaf[s]) \in Seq(Frame)
  BY <1>1, HeadTailProperties
<1> QED BY <1>1, <1>2, Zenon DEF PopToLeaf

LEMMA DestroyType ==
    ASSUME NEW end \in [Sock -> End], NEW s
    PROVE  Destroy(end, s) \in [Sock -> End]
  BY DEF Destroy, End

LEMMA RejectType ==
    ASSUME TypeOK, NEW s \in Sock, NEW frame \in Frame, HubRejects(s, frame)
    PROVE  toLeaf' \in [Sock -> Seq(Frame)] /\ hubEnd' \in [Sock -> End]
  BY QueueFrame, DestroyType DEF HubRejects, TypeOK

LEMMA DestroyProtocolType ==
    ASSUME TypeOK, NEW l, DestroyProtocol(l)
    PROVE  leafEnd' \in [Sock -> End]
  BY DestroyType DEF DestroyProtocol, TypeOK

LEMMA DialType ==
    ASSUME TypeOK, NEW l \in Leaf, Dial(l)
    PROVE  /\ tcp' \in [Sock -> {"free", "dialing", "syn", "open"}]
           /\ owner' \in [Sock -> Leaf \cup {None}]
           /\ connecting' \in [Leaf -> BOOLEAN]
<1>1. PICK s \in Sock :
          /\ tcp' = [tcp EXCEPT ![s] = "dialing"]
          /\ owner' = [owner EXCEPT ![s] = l]
          /\ connecting' = [connecting EXCEPT ![l] = TRUE]
  BY DEF Dial
<1>2. tcp' \in [Sock -> {"free", "dialing", "syn", "open"}]
  BY <1>1 DEF TypeOK
<1>3. owner' \in [Sock -> Leaf \cup {None}]
  BY <1>1 DEF TypeOK
<1>4. connecting' \in [Leaf -> BOOLEAN]
  BY <1>1 DEF TypeOK
<1> QED BY <1>2, <1>3, <1>4

-----------------------------------------------------------------------------
LEMMA InitType == Init => TypeOK
<1> SUFFICES ASSUME Init PROVE TypeOK
  OBVIOUS
<1>1. <<>> \in Seq(Frame)
  BY EmptySeq
<1> QED BY <1>1, Zenon DEF Init, TypeOK, End

LEMMA StepType == TypeOK /\ [Next]_vars => TypeOK'
<1> SUFFICES ASSUME TypeOK, [Next]_vars PROVE TypeOK'
  OBVIOUS
<1>1. ASSUME NEW s \in Sock, SockStep(s) PROVE TypeOK'
  <2>1. CASE Recycle(s)
    BY <2>1, EmptySeq DEF Recycle, TypeOK, leafVars
  <2>2. CASE DialPolled(s)
    BY <2>2 DEF DialPolled, TypeOK, leafVars
  <2>3. CASE DialOk(s)
    BY <2>3 DEF DialOk, TypeOK, End
  <2>4. CASE Welcome(s)
    <3>1. toLeaf' \in [Sock -> Seq(Frame)]
      BY <2>4, PopFrame DEF Welcome
    <3> QED BY <2>4, <3>1 DEF Welcome, TypeOK
  <2>5. CASE HandshakeError(s)
    <3>1. toLeaf' \in [Sock -> Seq(Frame)] /\ leafEnd' \in [Sock -> End]
      BY <2>5, PopFrame, DestroyProtocolType DEF HandshakeError
    <3> QED BY <2>5, <3>1 DEF HandshakeError, ScheduleReconnect, TypeOK
  <2>6. CASE SteadyFrame(s)
    <3>1. toLeaf' \in [Sock -> Seq(Frame)]
      BY <2>6, PopFrame DEF SteadyFrame
    <3> QED BY <2>6, <3>1 DEF SteadyFrame, TypeOK, leafVars
  <2>7. CASE LeafSeesEof(s)
    BY <2>7 DEF LeafSeesEof, TypeOK, leafVars, End
  <2>8. CASE LeafOnClose(s)
    BY <2>8 DEF LeafOnClose, ForgetLink, ScheduleReconnect, TypeOK, End
  <2>9. CASE Hello(s)
    <3>1. toLeaf' \in [Sock -> Seq(Frame)]
      BY <2>9, RejectType, QueueFrame DEF Hello, Frame
    <3>2. hubEnd' \in [Sock -> End]
      BY <2>9, RejectType DEF Hello, Frame, TypeOK
    <3>3. leaves' \in [Leaf -> Sock \cup {None}]
      BY <2>9 DEF Hello, Register, TypeOK
    <3>4. hubHandler' \in [Sock -> {"handshake", "rejected", "steady"}]
      BY <2>9 DEF Hello, TypeOK
    <3> QED BY <2>9, <3>1, <3>2, <3>3, <3>4 DEF Hello, TypeOK, leafVars
  <2>10. CASE HandshakeTimeout(s)
    <3>1. toLeaf' \in [Sock -> Seq(Frame)] /\ hubEnd' \in [Sock -> End]
      BY <2>10, RejectType DEF HandshakeTimeout, Frame
    <3> QED BY <2>10, <3>1 DEF HandshakeTimeout, TypeOK, leafVars
  <2>11. CASE HubSeesEof(s)
    BY <2>11 DEF HubSeesEof, TypeOK, leafVars, End
  <2>12. CASE HubOnClose(s)
    BY <2>12 DEF HubOnClose, Unregister, TypeOK, leafVars, End
  <2> QED BY <1>1, <2>1, <2>2, <2>3, <2>4, <2>5, <2>6, <2>7, <2>8, <2>9, <2>10, <2>11,
             <2>12 DEF SockStep
<1>2. ASSUME NEW l \in Leaf, LeafStep(l) \/ HubHeartbeat(l) PROVE TypeOK'
  <2>1. CASE ReconnectTimer(l)
    <3>1. /\ tcp' \in [Sock -> {"free", "dialing", "syn", "open"}]
          /\ owner' \in [Sock -> Leaf \cup {None}]
          /\ connecting' \in [Leaf -> BOOLEAN]
      BY <1>2, <2>1, DialType DEF ReconnectTimer, TypeOK
    <3> QED BY <2>1, <3>1 DEF ReconnectTimer, TypeOK
  <2>2. CASE LeafHeartbeat(l)
    <3>1. leafEnd' \in [Sock -> End]
      BY <2>2, DestroyProtocolType DEF LeafHeartbeat
    <3> QED BY <2>2, <3>1 DEF LeafHeartbeat, TypeOK, leafVars
  <2>3. CASE HubHeartbeat(l)
    <3>1. leaves[l] \in Sock
      BY <2>3 DEF HubHeartbeat, TypeOK
    <3>2. toLeaf' \in [Sock -> Seq(Frame)] /\ hubEnd' \in [Sock -> End]
      BY <2>3, <3>1, RejectType DEF HubHeartbeat, Frame
    <3> QED BY <2>3, <3>2 DEF HubHeartbeat, Unregister, TypeOK, leafVars
  <2> QED BY <1>2, <2>1, <2>2, <2>3 DEF LeafStep
<1>3. CASE Environment
  <2>1. ASSUME NEW l \in Leaf, Reconnect(l) PROVE TypeOK'
    <3>1. leafEnd' \in [Sock -> End]
      BY <2>1, DestroyProtocolType DEF Reconnect
    <3>2. /\ tcp' \in [Sock -> {"free", "dialing", "syn", "open"}]
          /\ owner' \in [Sock -> Leaf \cup {None}]
          /\ connecting' \in [Leaf -> BOOLEAN]
      BY <2>1, DialType DEF Reconnect
    <3> QED BY <2>1, <3>1, <3>2 DEF Reconnect, ForgetLink, TypeOK
  <2>2. ASSUME NEW l \in Leaf, Disconnect(l) PROVE TypeOK'
    <3>1. leafEnd' \in [Sock -> End]
      BY <2>2, DestroyProtocolType DEF Disconnect
    <3> QED BY <2>2, <3>1 DEF Disconnect, ForgetLink, TypeOK
  <2>3. ASSUME NEW l \in Leaf, DisconnectLeaf(l) PROVE TypeOK'
    <3>1. leaves[l] \in Sock
      BY <2>3 DEF DisconnectLeaf, TypeOK
    <3>2. toLeaf' \in [Sock -> Seq(Frame)]
      BY <2>3, <3>1, QueueFrame DEF DisconnectLeaf, Frame
    <3> QED BY <2>3, <3>2 DEF DisconnectLeaf, Unregister, TypeOK, leafVars, End
  <2>4. ASSUME NEW l \in Leaf, LeafRestart(l) PROVE TypeOK'
    BY <2>4 DEF LeafRestart, TypeOK, End
  <2>5. ASSUME NEW s \in Sock, DialFail(s) PROVE TypeOK'
    BY <2>5 DEF DialFail, ScheduleReconnect, TypeOK
  <2>6. ASSUME NEW s \in Sock, Partition(s) PROVE TypeOK'
    BY <2>6 DEF Partition, TypeOK, leafVars
  <2>7. CASE HubRestart
    BY <2>7 DEF HubRestart, TypeOK, leafVars, End
  <2> QED BY <1>3, <2>1, <2>2, <2>3, <2>4, <2>5, <2>6, <2>7 DEF Environment
<1>4. CASE UNCHANGED vars
  BY <1>4 DEF vars, leafVars, sockVars, TypeOK
<1> QED BY <1>1, <1>2, <1>3, <1>4 DEF Next, System

-----------------------------------------------------------------------------
(* Entry l of the registry is as RegistryLive wants it.                    *)
Entry(l) ==
    LET s == leaves[l] IN
    s # None =>
        tcp[s] = "open" /\ owner[s] = l /\ hubEnd[s] # "closed" /\ hubHandler[s] = "steady"

LEMMA RegistryByEntry == RegistryLive <=> \A l \in Leaf : Entry(l)
  BY DEF RegistryLive, Registered, Entry

(* Destroying a socket does not deliver its close event.                   *)
LEMMA DestroyNotClosed ==
    ASSUME NEW end \in [Sock -> End], NEW s, NEW t \in Sock, end[t] # "closed"
    PROVE  Destroy(end, s)[t] # "closed"
  BY DEF Destroy, End

(* An entry stands while its socket is only written to, destroyed or cut,   *)
(* and its registration is not touched.                                    *)
LEMMA EntryStands ==
    ASSUME TypeOK, NEW l \in Leaf, Entry(l), leaves'[l] = leaves[l],
           leaves[l] # None =>
               LET s == leaves[l] IN
               tcp'[s] = tcp[s] /\ owner'[s] = owner[s] /\ hubHandler'[s] = hubHandler[s]
                   /\ (hubEnd[s] # "closed" => hubEnd'[s] # "closed")
    PROVE  Entry(l)'
  BY DEF Entry

LEMMA RegistryStep == TypeOK /\ RegistryLive /\ [Next]_vars => RegistryLive'
<1> SUFFICES ASSUME TypeOK, \A l \in Leaf : Entry(l), [Next]_vars, NEW l \in Leaf
             PROVE  Entry(l)'
  BY RegistryByEntry DEF RegistryLive, Registered, Entry
<1> DEFINE s == leaves[l]
<1>0. /\ Entry(l)
      /\ s \in Sock \cup {None}
      /\ s # None => s \in Sock
  BY DEF TypeOK
<1>1. ASSUME NEW t \in Sock, SockStep(t) PROVE Entry(l)'
  <2>1. CASE Recycle(t)
    <3>1. s # t
      BY <1>0, <2>1 DEF Recycle, Entry
    <3> QED BY <1>0, <2>1, <3>1, EntryStands DEF Recycle, TypeOK
  <2>2. CASE DialPolled(t)
    <3>1. s # t
      BY <1>0, <2>2 DEF DialPolled, Entry
    <3> QED BY <1>0, <2>2, <3>1, EntryStands DEF DialPolled, TypeOK
  <2>3. CASE DialOk(t)
    <3>1. s # t
      BY <1>0, <2>3 DEF DialOk, Entry
    <3> QED BY <1>0, <2>3, <3>1, EntryStands DEF DialOk, TypeOK
  <2>4. CASE Welcome(t) \/ HandshakeError(t) \/ SteadyFrame(t) \/ LeafSeesEof(t)
             \/ LeafOnClose(t)
    <3>1. UNCHANGED <<leaves, tcp, owner, hubHandler, hubEnd>>
      BY <2>4 DEF Welcome, HandshakeError, SteadyFrame, LeafSeesEof, LeafOnClose
    <3> QED BY <1>0, <3>1, EntryStands
  <2>5. CASE Hello(t)
    <3>1. s # t
      BY <1>0, <2>5 DEF Hello, Entry
    <3>2. UNCHANGED <<tcp, owner>>
      BY <2>5 DEF Hello
    <3>3. s # None => hubEnd'[s] = hubEnd[s] /\ hubHandler'[s] = hubHandler[s]
      BY <1>0, <2>5, <3>1 DEF Hello, HubRejects, Destroy, TypeOK
    <3>4. CASE leaves' = leaves \/ l # owner[t]
      <4>1. leaves'[l] = leaves[l]
        BY <2>5, <3>4 DEF Hello, Register, TypeOK
      <4> QED BY <1>0, <3>2, <3>3, <4>1, EntryStands
    <3>5. CASE leaves' # leaves /\ l = owner[t]
      <4>1. Register(l, t) /\ hubEnd' = hubEnd /\ hubHandler'[t] = "steady"
        BY <2>5, <3>5 DEF Hello, TypeOK
      <4>2. leaves'[l] = t /\ tcp[t] = "open" /\ hubEnd[t] = "open"
        BY <2>5, <4>1 DEF Hello, Register, TypeOK
      <4> QED BY <3>2, <3>5, <4>1, <4>2 DEF Entry
    <3> QED BY <3>4, <3>5
  <2>6. CASE HandshakeTimeout(t)
    <3>1. s # None => (hubEnd[s] # "closed" => hubEnd'[s] # "closed")
      <4>1. hubEnd' = Destroy(hubEnd, t)
        BY <2>6 DEF HandshakeTimeout, HubRejects
      <4> QED BY <1>0, <4>1, DestroyNotClosed DEF TypeOK
    <3> QED BY <1>0, <2>6, <3>1, EntryStands DEF HandshakeTimeout
  <2>7. CASE HubSeesEof(t)
    <3>1. s # None => (hubEnd[s] # "closed" => hubEnd'[s] # "closed")
      BY <1>0, <2>7 DEF HubSeesEof, TypeOK
    <3> QED BY <1>0, <2>7, <3>1, EntryStands DEF HubSeesEof
  <2>8. CASE HubOnClose(t)
    <3>1. CASE s = t \/ leaves'[l] # leaves[l]
      <4>1. leaves'[l] = None
        BY <1>0, <2>8, <3>1 DEF HubOnClose, Unregister, Entry, TypeOK
      <4> QED BY <4>1 DEF Entry
    <3>2. CASE s # t /\ leaves'[l] = leaves[l]
      BY <1>0, <2>8, <3>2, EntryStands DEF HubOnClose, TypeOK
    <3> QED BY <3>1, <3>2
  <2> QED BY <1>1, <2>1, <2>2, <2>3, <2>4, <2>5, <2>6, <2>7, <2>8 DEF SockStep
<1>2. ASSUME NEW k \in Leaf, LeafStep(k) \/ HubHeartbeat(k) PROVE Entry(l)'
  <2>1. CASE ReconnectTimer(k)
    <3>1. s # None => tcp'[s] = tcp[s] /\ owner'[s] = owner[s]
      BY <1>0, <2>1 DEF ReconnectTimer, Dial, Entry, TypeOK
    <3> QED BY <1>0, <2>1, <3>1, EntryStands DEF ReconnectTimer
  <2>2. CASE LeafHeartbeat(k)
    BY <1>0, <2>2, EntryStands DEF LeafHeartbeat
  <2>3. CASE HubHeartbeat(k)
    <3>1. s # None => (hubEnd[s] # "closed" => hubEnd'[s] # "closed")
      <4>1. hubEnd' = Destroy(hubEnd, leaves[k])
        BY <2>3 DEF HubHeartbeat, HubRejects
      <4> QED BY <1>0, <4>1, DestroyNotClosed DEF TypeOK
    <3>2. CASE l = k
      <4>1. leaves'[l] = None
        BY <2>3, <3>2 DEF HubHeartbeat, Unregister, TypeOK
      <4> QED BY <4>1 DEF Entry
    <3>3. CASE l # k
      <4>1. leaves'[l] = leaves[l]
        BY <2>3, <3>3 DEF HubHeartbeat, Unregister, TypeOK
      <4> QED BY <1>0, <2>3, <3>1, <4>1, EntryStands DEF HubHeartbeat
    <3> QED BY <3>2, <3>3
  <2> QED BY <1>2, <2>1, <2>2, <2>3 DEF LeafStep
<1>3. CASE Environment
  <2>1. ASSUME NEW k \in Leaf, Reconnect(k) PROVE Entry(l)'
    <3>1. s # None => tcp'[s] = tcp[s] /\ owner'[s] = owner[s]
      BY <1>0, <2>1 DEF Reconnect, Dial, Entry, TypeOK
    <3> QED BY <1>0, <2>1, <3>1, EntryStands DEF Reconnect
  <2>2. ASSUME NEW k \in Leaf, Disconnect(k) PROVE Entry(l)'
    BY <1>0, <2>2, EntryStands DEF Disconnect
  <2>3. ASSUME NEW k \in Leaf, DisconnectLeaf(k) PROVE Entry(l)'
    <3>1. CASE l = k
      <4>1. leaves'[l] = None
        BY <2>3, <3>1 DEF DisconnectLeaf, Unregister, TypeOK
      <4> QED BY <4>1 DEF Entry
    <3>2. CASE l # k
      <4>1. s # leaves[k]
        BY <1>0, <2>3, <3>2 DEF DisconnectLeaf, Entry
      <4>2. leaves'[l] = leaves[l] /\ (s # None => hubEnd'[s] = hubEnd[s])
        BY <1>0, <2>3, <3>2, <4>1 DEF DisconnectLeaf, Unregister, TypeOK
      <4> QED BY <1>0, <2>3, <4>2, EntryStands DEF DisconnectLeaf
    <3> QED BY <3>1, <3>2
  <2>4. ASSUME NEW k \in Leaf, LeafRestart(k) PROVE Entry(l)'
    <3>1. s # None => tcp'[s] = tcp[s] /\ owner'[s] = owner[s]
      BY <1>0, <2>4 DEF LeafRestart, LeafSocks, Entry, TypeOK
    <3> QED BY <1>0, <2>4, <3>1, EntryStands DEF LeafRestart
  <2>5. ASSUME NEW t \in Sock, DialFail(t) PROVE Entry(l)'
    <3>1. s # t
      BY <1>0, <2>5 DEF DialFail, Entry
    <3>2. s # None => tcp'[s] = tcp[s] /\ owner'[s] = owner[s]
      BY <1>0, <2>5, <3>1 DEF DialFail, TypeOK
    <3> QED BY <1>0, <2>5, <3>2, EntryStands DEF DialFail
  <2>6. ASSUME NEW t \in Sock, Partition(t) PROVE Entry(l)'
    BY <1>0, <2>6, EntryStands DEF Partition
  <2>7. CASE HubRestart
    BY <2>7 DEF HubRestart, Entry
  <2> QED BY <1>3, <2>1, <2>2, <2>3, <2>4, <2>5, <2>6, <2>7 DEF Environment
<1>4. CASE UNCHANGED vars
  BY <1>0, <1>4, EntryStands DEF vars, sockVars
<1> QED BY <1>1, <1>2, <1>3, <1>4 DEF Next, System

-----------------------------------------------------------------------------
(* The registry grows only in Hello, when it is not full, and only by a     *)
(* leaf that knows the password.                                           *)
LEMMA RegistryGrows ==
    ASSUME TypeOK, [Next]_vars
    PROVE  \/ Registered' \subseteq Registered
           \/ ~HubFull /\ \E l \in GoodLeaf \ Registered : Registered' = Registered \cup {l}
<1>1. CASE leaves' = leaves
  BY <1>1 DEF Registered
<1>2. ASSUME NEW l, Unregister(l) PROVE Registered' \subseteq Registered
  BY <1>2 DEF Unregister, Registered, TypeOK
<1>3. ASSUME NEW s \in Sock, Hello(s), leaves' # leaves
      PROVE  ~HubFull /\ \E l \in GoodLeaf \ Registered : Registered' = Registered \cup {l}
  <2>1. /\ owner[s] \in GoodLeaf /\ leaves[owner[s]] = None /\ ~HubFull
        /\ Register(owner[s], s)
    BY <1>3 DEF Hello
  <2>2. owner[s] \in Leaf \ Registered /\ s # None
    BY <2>1 DEF Registered
  <2>3. Registered' = Registered \cup {owner[s]}
    BY <2>1, <2>2 DEF Registered, Register, TypeOK
  <2> QED BY <2>1, <2>2, <2>3
<1>4. CASE HubRestart
  BY <1>4 DEF HubRestart, Registered
<1>5. \/ leaves' = leaves \/ HubRestart
      \/ \E s \in Sock : Hello(s)
      \/ \E l : Unregister(l)
  <2>1. ASSUME NEW s \in Sock, SockStep(s), ~Hello(s)
        PROVE  leaves' = leaves \/ \E l : Unregister(l)
    BY <2>1, Zenon DEF SockStep, Recycle, DialPolled, DialOk, Welcome, HandshakeError,
       SteadyFrame, LeafSeesEof, LeafOnClose, HandshakeTimeout, HubSeesEof, HubOnClose
  <2>2. ASSUME NEW l \in Leaf, LeafStep(l) \/ HubHeartbeat(l)
        PROVE  leaves' = leaves \/ \E k : Unregister(k)
    BY <2>2, Zenon DEF LeafStep, ReconnectTimer, LeafHeartbeat, HubHeartbeat
  <2>3. CASE Environment
    BY <2>3, Zenon DEF Environment, Reconnect, Disconnect, DisconnectLeaf, LeafRestart,
       DialFail, Partition
  <2>4. CASE UNCHANGED vars
    BY <2>4, Zenon DEF vars
  <2> QED BY <2>1, <2>2, <2>3, <2>4, Zenon DEF Next, System
<1> QED BY <1>1, <1>2, <1>3, <1>4, <1>5

LEMMA CapacityStep == TypeOK /\ Capacity /\ [Next]_vars => Capacity'
<1> SUFFICES ASSUME TypeOK, Capacity, [Next]_vars PROVE Capacity'
  OBVIOUS
<1>1. IsFiniteSet(Registered)
  BY FS_Subset DEF Registered
<1>2. CASE Registered' \subseteq Registered
  <2>1. Cardinality(Registered') <= Cardinality(Registered)
    BY <1>1, <1>2, FS_Subset
  <2>2. Cardinality(Registered) \in Nat /\ Cardinality(Registered') \in Nat
    BY <1>1, <1>2, FS_Subset, FS_CardinalityType
  <2> QED BY <1>2, <2>1, <2>2 DEF Capacity
<1>3. ASSUME ~HubFull, NEW l \in GoodLeaf \ Registered, Registered' = Registered \cup {l}
      PROVE  Capacity'
  <2>1. Cardinality(Registered') = Cardinality(Registered) + 1
    BY <1>1, <1>3, FS_AddElement
  <2>2. Cardinality(Registered) \in Nat
    BY <1>1, FS_CardinalityType
  <2> QED BY <1>3, <2>1, <2>2 DEF Capacity, HubFull
<1> QED BY <1>2, <1>3, RegistryGrows

LEMMA InitRegistry == Init => RegistryLive /\ Capacity
<1> SUFFICES ASSUME Init PROVE RegistryLive /\ Capacity
  OBVIOUS
<1>1. Registered = {}
  BY DEF Init, Registered
<1> QED BY <1>1, FS_EmptySet DEF RegistryLive, Capacity

-----------------------------------------------------------------------------
(***************************************************************************)
(* One link per leaf.  The inductive invariant behind OneLink and            *)
(* ConnectedIsAccepted, for operators who do not give .botlink reconnect      *)
(* while an attempt or a timer is pending.                                  *)
(***************************************************************************)
Dialing(s) == tcp[s] \in {"dialing", "syn"}
Holding(s) == tcp[s] = "open" /\ leafEnd[s] = "open"

Owned == \A s \in Sock : tcp[s] # "free" => owner[s] \in Leaf

(* A socket that is not open yet carries nothing.                          *)
Unused == \A s \in Sock : tcp[s] # "open" =>
    leafEnd[s] = "closed" /\ toLeaf[s] = <<>> /\ hubHandler[s] = "handshake"

(* this.protocol wraps an open socket of the leaf's own until its close      *)
(* event, and an open socket is the one it wraps.                           *)
Current == \A l \in Leaf : protocol[l] # None =>
    LET s == protocol[l] IN owner[s] = l /\ tcp[s] = "open" /\ leafEnd[s] # "closed"
Held == \A s \in Sock : Holding(s) => protocol[owner[s]] = s

(* The timer never runs beside a socket, and a leaf that dials knows it.    *)
NoTimer == \A s \in Sock : Alive(s) => ~reconnectTimer[owner[s]]
Marked == \A s \in Sock : Dialing(s) => connecting[owner[s]] \/ disconnecting[owner[s]]

(* By the time a new socket can open, the close event of the last one has    *)
(* been delivered.                                                         *)
NoOverlap == \A s, t \in Sock :
    leafEnd[s] = "closing" /\ (tcp[t] = "syn" \/ Holding(t)) => owner[s] # owner[t]

(* A WELCOME on its way comes from a hub that has accepted.                *)
Welcomed == \A s \in Sock :
    (\E i \in DOMAIN toLeaf[s] : toLeaf[s][i] = "WELCOME") => hubHandler[s] = "steady"

LeafSide == Owned /\ Current /\ Held /\ NoTimer /\ Marked /\ NoOverlap /\ OneLink
BothSides == Unused /\ ConnectedIsAccepted /\ Welcomed
LinkInv == TypeOK /\ RegistryLive /\ LeafSide /\ BothSides

LEMMA InitLink == Init => LinkInv
<1> SUFFICES ASSUME Init PROVE LinkInv
  OBVIOUS
<1>1. TypeOK /\ RegistryLive
  BY InitType, InitRegistry
<1>2. LeafSide
  BY DEF Init, LeafSide, Owned, Current, Held, NoTimer, Marked, NoOverlap, OneLink, Alive,
         Dialing, Holding
<1>3. BothSides
  BY EmptySeq DEF Init, BothSides, Unused, ConnectedIsAccepted, Welcomed
<1> QED BY <1>1, <1>2, <1>3 DEF LinkInv

(* What the hub does to a socket of its own does not disturb the leaf.       *)
leafSideVars == <<connected, connecting, disconnecting, reconnectTimer, protocol, tcp, owner,
                  leafEnd, leafHandler>>
LEMMA LeafSideStands == ASSUME LeafSide, UNCHANGED leafSideVars PROVE LeafSide'
  BY DEF leafSideVars, LeafSide, Owned, Current, Held, NoTimer, Marked, NoOverlap, OneLink,
         Alive, Dialing, Holding

LEMMA NoneIsNoSock == \A s \in Sock : s # None
  BY Zenon

(* destroy() on this.protocol, if there is one.                            *)
LEMMA DestroyProtocolEnds ==
    ASSUME TypeOK, NEW l \in Leaf, DestroyProtocol(l)
    PROVE  \A s \in Sock :
               leafEnd'[s] = IF s = protocol[l] /\ leafEnd[s] = "open"
                             THEN "closing" ELSE leafEnd[s]
<1>1. CASE protocol[l] = None
  <2>1. leafEnd' = leafEnd
    BY <1>1, Zenon DEF DestroyProtocol
  <2> QED BY <1>1, <2>1, NoneIsNoSock, Zenon
<1>2. CASE protocol[l] # None
  <2>1. leafEnd' = Destroy(leafEnd, protocol[l])
    BY <1>2, Zenon DEF DestroyProtocol
  <2> QED BY <2>1 DEF Destroy, TypeOK
<1> QED BY <1>1, <1>2

USE DEF LinkInv, LeafSide, BothSides, Owned, Unused, Current, Held, NoTimer, Marked,
        NoOverlap, OneLink, ConnectedIsAccepted, Welcomed, Alive, Dialing, Holding

(* NoOverlap is what DialPolled waits for.                                  *)
LEMMA DialPolledLink ==
    ASSUME LinkInv, TypeOK', NEW t \in Sock, DialPolled(t)
    PROVE  (LeafSide /\ BothSides)'
<1> USE DEF DialPolled, leafVars
<1>1. Owned' /\ Current' /\ Held'
  BY DEF TypeOK, End
<1>2. NoTimer' /\ Marked'
  BY DEF TypeOK, End
<1>3. NoOverlap'
  <2> SUFFICES ASSUME NEW s \in Sock, leafEnd[s] = "closing"
               PROVE  owner[s] # owner[t]
    BY DEF TypeOK, End
  <2>1. tcp[s] = "open"
    BY DEF TypeOK
  <2> QED BY <2>1 DEF LeafClosePending, LeafSocks
<1>4. OneLink'
  BY DEF TypeOK, End
<1>5. Unused' /\ ConnectedIsAccepted' /\ Welcomed'
  BY DEF TypeOK, End
<1> QED BY <1>1, <1>2, <1>3, <1>4, <1>5

(* DialOk needs NoOverlap and OneLink: nothing of the leaf's is open beside it. *)
LEMMA DialOkLink ==
    ASSUME LinkInv, TypeOK', NEW t \in Sock, DialOk(t)
    PROVE  (LeafSide /\ BothSides)'
<1> USE DEF DialOk
<1>1. Owned' /\ Current' /\ Held'
  BY DEF TypeOK, End
<1>2. NoTimer' /\ Marked'
  BY DEF TypeOK, End
<1>3. NoOverlap' /\ OneLink'
  BY DEF TypeOK, End
<1>4. Unused' /\ ConnectedIsAccepted' /\ Welcomed'
  BY DEF TypeOK, End
<1> QED BY <1>1, <1>2, <1>3, <1>4

LEMMA DialFailLink ==
    ASSUME LinkInv, TypeOK', NEW t \in Sock, DialFail(t)
    PROVE  (LeafSide /\ BothSides)'
<1> USE DEF DialFail, ScheduleReconnect
<1>1. Owned' /\ Current' /\ Held'
  BY DEF TypeOK, End
<1>2. NoTimer' /\ Marked'
  BY DEF TypeOK, End
<1>3. NoOverlap' /\ OneLink'
  BY DEF TypeOK, End
<1>4. Unused' /\ ConnectedIsAccepted' /\ Welcomed'
  BY DEF TypeOK, End
<1> QED BY <1>1, <1>2, <1>3, <1>4

(* The socket a WELCOME arrives on is the current one.                     *)
LEMMA WelcomeLink ==
    ASSUME LinkInv, TypeOK', NEW t \in Sock, Welcome(t)
    PROVE  (LeafSide /\ BothSides)'
<1> USE DEF Welcome, LeafDelivers, PopToLeaf
<1>1. Owned' /\ Current' /\ Held'
  BY DEF TypeOK, End
<1>2. NoTimer' /\ Marked'
  BY DEF TypeOK, End
<1>3. NoOverlap' /\ OneLink'
  BY DEF TypeOK, End
<1>4. ConnectedIsAccepted'
  <2>1. protocol[owner[t]] = t /\ owner[t] \in Leaf
    BY DEF TypeOK
  <2>2. hubHandler[t] = "steady"
    <3>1. toLeaf[t] \in Seq(Frame) /\ toLeaf[t] # <<>>
      BY DEF TypeOK
    <3>2. Head(toLeaf[t]) = toLeaf[t][1] /\ 1 \in DOMAIN toLeaf[t]
      BY <3>1, HeadTailProperties, EmptySeq, LenProperties
    <3> QED BY <3>2
  <2>3. leafHandler'[t] = "steady" /\ hubHandler' = hubHandler /\ protocol' = protocol
    BY <2>1
  <2>4. \A s \in Sock : leafHandler[s] = "steady" => leafHandler'[s] = "steady"
    BY DEF TypeOK
  <2>5. \A l \in Leaf \ {owner[t]} : connected'[l] = connected[l]
    BY DEF TypeOK
  <2> SUFFICES ASSUME NEW l \in Leaf, connected'[l]
               PROVE  /\ protocol[l] # None
                      /\ leafHandler'[protocol[l]] = "steady"
                      /\ hubHandler[protocol[l]] = "steady"
    BY <2>3
  <2>6. CASE l = owner[t]
    <3>1. t # None /\ protocol[l] = t
      BY <2>1, <2>6, NoneIsNoSock, Zenon
    <3> QED BY <2>2, <2>3, <3>1
  <2>7. CASE l # owner[t]
    <3>1. protocol[l] # None /\ protocol[l] \in Sock
      BY <2>5, <2>7 DEF TypeOK
    <3> QED BY <2>4, <2>5, <2>7, <3>1
  <2> QED BY <2>6, <2>7
<1>5. Unused' /\ Welcomed'
  BY DEF TypeOK, End
<1> QED BY <1>1, <1>2, <1>3, <1>4, <1>5

(* The error is closing the one socket the leaf holds when it sets the timer. *)
LEMMA HandshakeErrorLink ==
    ASSUME LinkInv, TypeOK', NEW t \in Sock, HandshakeError(t)
    PROVE  (LeafSide /\ BothSides)'
<1> USE DEF HandshakeError, LeafDelivers, PopToLeaf, ScheduleReconnect
<1>1. Owned' /\ Current' /\ Held'
  BY DEF DestroyProtocol, Destroy, TypeOK, End
<1>2. NoTimer' /\ Marked'
  <2>1. protocol[owner[t]] = t /\ owner[t] \in Leaf
    BY DEF TypeOK
  <2>2. leafEnd'[t] = "closing" /\ \A s \in Sock \ {t} : leafEnd'[s] = leafEnd[s]
    BY <2>1, DestroyProtocolEnds DEF TypeOK
  <2>3. \A s \in Sock : Alive(s)' => Alive(s) /\ s # t
    BY <2>2
  <2>4. \A l \in Leaf \ {owner[t]} : reconnectTimer'[l] = reconnectTimer[l]
    BY DEF TypeOK
  <2> QED BY <2>1, <2>3, <2>4
<1>3. NoOverlap' /\ OneLink'
  BY DEF DestroyProtocol, Destroy, TypeOK, End
<1>4. Unused' /\ ConnectedIsAccepted' /\ Welcomed'
  BY DEF DestroyProtocol, Destroy, TypeOK, End
<1> QED BY <1>1, <1>2, <1>3, <1>4

LEMMA LeafSeesEofLink ==
    ASSUME LinkInv, TypeOK', NEW t \in Sock, LeafSeesEof(t)
    PROVE  (LeafSide /\ BothSides)'
<1> USE DEF LeafSeesEof, leafVars
<1>1. Owned' /\ Current' /\ Held'
  BY DEF TypeOK, End
<1>2. NoTimer' /\ Marked'
  BY DEF TypeOK, End
<1>3. NoOverlap' /\ OneLink'
  BY DEF TypeOK, End
<1>4. Unused' /\ ConnectedIsAccepted' /\ Welcomed'
  BY DEF TypeOK, End
<1> QED BY <1>1, <1>2, <1>3, <1>4

(* A new socket, if any, is still dialing, so the timer is not set beside it. *)
LEMMA LeafOnCloseLink ==
    ASSUME LinkInv, TypeOK', NEW t \in Sock, LeafOnClose(t)
    PROVE  (LeafSide /\ BothSides)'
<1> USE DEF LeafOnClose, ForgetLink, ScheduleReconnect
<1>1. Owned' /\ Current' /\ Held'
  BY DEF TypeOK, End
<1>2. NoTimer' /\ Marked'
  BY DEF TypeOK, End
<1>3. NoOverlap' /\ OneLink'
  BY DEF TypeOK, End
<1>4. Unused' /\ ConnectedIsAccepted' /\ Welcomed'
  BY DEF TypeOK, End
<1> QED BY <1>1, <1>2, <1>3, <1>4

LEMMA RecycleLink ==
    ASSUME LinkInv, TypeOK', NEW t \in Sock, Recycle(t)
    PROVE  (LeafSide /\ BothSides)'
<1> USE DEF Recycle, leafVars
<1>1. Owned' /\ Current' /\ Held'
  BY DEF TypeOK, End
<1>2. NoTimer' /\ Marked'
  BY DEF TypeOK, End
<1>3. NoOverlap' /\ OneLink'
  BY DEF TypeOK, End
<1>4. Unused' /\ ConnectedIsAccepted' /\ Welcomed'
  BY DEF TypeOK, End
<1> QED BY <1>1, <1>2, <1>3, <1>4

LEMMA LeafHeartbeatLink ==
    ASSUME LinkInv, TypeOK', NEW l \in Leaf, LeafHeartbeat(l)
    PROVE  (LeafSide /\ BothSides)'
<1> USE DEF LeafHeartbeat, DestroyProtocol, Destroy, leafVars
<1>1. Owned' /\ Current' /\ Held'
  BY DEF TypeOK, End
<1>2. NoTimer' /\ Marked'
  BY DEF TypeOK, End
<1>3. NoOverlap' /\ OneLink'
  BY DEF TypeOK, End
<1>4. Unused' /\ ConnectedIsAccepted' /\ Welcomed'
  BY DEF TypeOK, End
<1> QED BY <1>1, <1>2, <1>3, <1>4

LEMMA DisconnectLink ==
    ASSUME LinkInv, TypeOK', NEW l \in Leaf, Disconnect(l)
    PROVE  (LeafSide /\ BothSides)'
<1> USE DEF Disconnect, DestroyProtocol, Destroy, ForgetLink
<1>1. Owned' /\ Current' /\ Held'
  BY DEF TypeOK, End
<1>2. NoTimer' /\ Marked'
  BY DEF TypeOK, End
<1>3. NoOverlap' /\ OneLink'
  BY DEF TypeOK, End
<1>4. Unused' /\ ConnectedIsAccepted' /\ Welcomed'
  BY DEF TypeOK, End
<1> QED BY <1>1, <1>2, <1>3, <1>4

LEMMA LeafRestartLink ==
    ASSUME LinkInv, TypeOK', NEW l \in Leaf, LeafRestart(l)
    PROVE  (LeafSide /\ BothSides)'
<1> USE DEF LeafRestart, LeafSocks
<1>1. Owned' /\ Current' /\ Held'
  BY DEF TypeOK, End
<1>2. NoTimer' /\ Marked'
  BY DEF TypeOK, End
<1>3. NoOverlap' /\ OneLink'
  BY DEF TypeOK, End
<1>4. Unused' /\ ConnectedIsAccepted' /\ Welcomed'
  BY DEF TypeOK, End
<1> QED BY <1>1, <1>2, <1>3, <1>4

(* The timer only runs when the leaf holds no socket, and the guard of         *)
(* connect() keeps it from dialing while it dials already.                   *)
LEMMA ReconnectTimerLink ==
    ASSUME LinkInv, TypeOK', NEW l \in Leaf, ReconnectTimer(l)
    PROVE  (LeafSide /\ BothSides)'
<1> USE DEF ReconnectTimer
<1>1. CASE connected[l] \/ connecting[l] \/ disconnecting[l]
  BY <1>1 DEF TypeOK
<1>2. CASE ~(connected[l] \/ connecting[l] \/ disconnecting[l])
  <2>1. PICK t \in Sock :
            /\ tcp[t] = "free"
            /\ tcp' = [tcp EXCEPT ![t] = "dialing"]
            /\ owner' = [owner EXCEPT ![t] = l]
            /\ connecting' = [connecting EXCEPT ![l] = TRUE]
    BY <1>2 DEF Dial
  <2>2. \A s \in Sock : owner[s] = l => ~Alive(s)
    OBVIOUS
  <2>3. Owned' /\ Current' /\ Held'
    BY <2>1 DEF TypeOK
  <2>4. NoTimer' /\ Marked'
    BY <2>1 DEF TypeOK
  <2>5. NoOverlap'
    BY <2>1 DEF TypeOK
  <2>6. OneLink'
    BY <2>1, <2>2 DEF TypeOK
  <2>7. BothSides'
    BY <2>1 DEF TypeOK
  <2> QED BY <2>3, <2>4, <2>5, <2>6, <2>7
<1> QED BY <1>1, <1>2

(* reconnect() destroys the one socket the leaf may hold before it dials.    *)
LEMMA ReconnectLink ==
    ASSUME LinkInv, TypeOK', NEW l \in Leaf, Reconnect(l), "redial" \notin Commands
    PROVE  (LeafSide /\ BothSides)'
<1> USE DEF Reconnect, ForgetLink
<1>1. PICK t \in Sock :
          /\ tcp[t] = "free"
          /\ tcp' = [tcp EXCEPT ![t] = "dialing"]
          /\ owner' = [owner EXCEPT ![t] = l]
          /\ connecting' = [connecting EXCEPT ![l] = TRUE]
  BY DEF Dial
<1>2. ~reconnectTimer[l] /\ \A s \in Sock : owner[s] = l /\ tcp[s] # "free" => tcp[s] = "open"
  BY DEF LeafSocks
<1>4. \A s \in Sock :
          leafEnd'[s] = IF s = protocol[l] /\ leafEnd[s] = "open" THEN "closing" ELSE leafEnd[s]
  BY DestroyProtocolEnds DEF TypeOK
<1>3. \A s \in Sock : owner[s] = l /\ tcp[s] # "free" => leafEnd'[s] # "open"
  <2> SUFFICES ASSUME NEW s \in Sock, owner[s] = l, tcp[s] # "free", leafEnd[s] = "open"
               PROVE  protocol[l] = s
    BY <1>4
  <2>1. tcp[s] = "open"
    BY <1>2
  <2> QED BY <2>1
<1>5. Owned' /\ Held'
  BY <1>1, <1>4 DEF TypeOK
<1>10. Current'
  BY <1>1, <1>4 DEF TypeOK
<1>6. NoTimer' /\ Marked'
  BY <1>1, <1>2, <1>4 DEF TypeOK
<1>7. NoOverlap'
  <2> SUFFICES ASSUME NEW s \in Sock, NEW u \in Sock, leafEnd'[s] = "closing",
                      tcp'[u] = "syn" \/ Holding(u)', owner'[s] = owner'[u]
               PROVE  FALSE
    OBVIOUS
  <2>1. u # t /\ s # t
    <3>1. leafEnd[t] = "closed" /\ tcp'[t] = "dialing"
      BY <1>1 DEF TypeOK
    <3>2. leafEnd'[t] = "closed"
      BY <1>4, <3>1
    <3> QED BY <3>1, <3>2
  <2>2. owner[s] = owner[u] /\ owner[u] # l
    BY <1>1, <1>2, <1>3, <2>1 DEF TypeOK
  <2>3. s # protocol[l] /\ u # protocol[l]
    <3>1. \A v \in Sock : v = protocol[l] => owner[v] = l
      BY NoneIsNoSock
    <3> QED BY <2>2, <3>1
  <2> QED BY <1>1, <1>4, <2>1, <2>2, <2>3 DEF TypeOK
<1>8. OneLink'
  BY <1>1, <1>2, <1>3, <1>4 DEF TypeOK
<1>9. BothSides'
  BY <1>1, <1>4 DEF TypeOK
<1> QED BY <1>5, <1>6, <1>7, <1>8, <1>9, <1>10

HIDE DEF LeafSide, Owned, Current, Held, NoTimer, Marked, NoOverlap, OneLink, Alive, Dialing,
         Holding

(* What the hub does leaves the leaf side alone.                           *)
LEMMA HubStepLink ==
    ASSUME LinkInv, TypeOK', NEW t \in Sock,
           Hello(t) \/ HandshakeTimeout(t) \/ HubSeesEof(t) \/ HubOnClose(t)
               \/ SteadyFrame(t) \/ Partition(t)
    PROVE  (LeafSide /\ BothSides)'
<1>1. LeafSide'
  BY LeafSideStands, Zenon DEF leafSideVars, leafVars, Hello, HandshakeTimeout, HubSeesEof,
     HubOnClose, SteadyFrame, Partition
<1>2. CASE Hello(t)
  <2>1. Unused' /\ ConnectedIsAccepted'
    BY <1>2 DEF Hello, HubRejects, SendToLeaf, Destroy, leafVars, TypeOK
  <2>2. Welcomed'
    <3> SUFFICES ASSUME NEW s \in Sock, NEW i \in DOMAIN toLeaf'[s],
                        toLeaf'[s][i] = "WELCOME"
                 PROVE  hubHandler'[s] = "steady"
      OBVIOUS
    <3>1. CASE s # t
      BY <1>2, <3>1 DEF Hello, HubRejects, SendToLeaf, TypeOK
    <3>2. CASE s = t
      <4>1. PICK frame \in Frame :
                /\ SendToLeaf(t, frame)
                /\ hubHandler'[t] = IF frame = "WELCOME" THEN "steady" ELSE "rejected"
        BY <1>2 DEF Hello, HubRejects, TypeOK, Frame
      <4>2. \A j \in DOMAIN toLeaf[t] : toLeaf[t][j] # "WELCOME"
        BY <1>2 DEF Hello
      <4>3. frame = "WELCOME"
        BY <3>2, <4>1, <4>2, QueuedFrames
      <4> QED BY <3>2, <4>1, <4>3
    <3> QED BY <3>1, <3>2
  <2> QED BY <1>1, <2>1, <2>2
<1>3. CASE HandshakeTimeout(t)
  BY <1>1, <1>3 DEF HandshakeTimeout, HubRejects, SendToLeaf, leafVars, TypeOK
<1>4. CASE HubSeesEof(t) \/ HubOnClose(t) \/ Partition(t)
  BY <1>1, <1>4 DEF HubSeesEof, HubOnClose, Partition, leafVars
<1>5. CASE SteadyFrame(t)
  BY <1>1, <1>5 DEF SteadyFrame, LeafDelivers, PopToLeaf, leafVars, TypeOK
<1> QED BY <1>2, <1>3, <1>4, <1>5


(* ... and the hub's commands and timers only touch registered sockets.      *)
LEMMA HubCommandLink ==
    ASSUME LinkInv, TypeOK', NEW l \in Leaf, HubHeartbeat(l) \/ DisconnectLeaf(l)
    PROVE  (LeafSide /\ BothSides)'
<1> DEFINE s == leaves[l]
<1>1. LeafSide'
  BY LeafSideStands, Zenon DEF leafSideVars, leafVars, HubHeartbeat, DisconnectLeaf
<1>2. s \in Sock /\ tcp[s] = "open"
  BY DEF HubHeartbeat, DisconnectLeaf, RegistryLive, Registered, TypeOK
<1>3. /\ SendToLeaf(s, "ERROR")
      /\ UNCHANGED <<connected, protocol, tcp, leafEnd, leafHandler, hubHandler>>
  BY Zenon DEF HubHeartbeat, DisconnectLeaf, HubRejects, leafVars
<1>4. Unused' /\ ConnectedIsAccepted'
  <2>1. \A t \in Sock : t = s \/ toLeaf'[t] = toLeaf[t]
    BY <1>2, <1>3 DEF SendToLeaf, TypeOK
  <2> QED BY <1>2, <1>3, <2>1
<1>5. Welcomed'
  <2> SUFFICES ASSUME NEW t \in Sock, NEW i \in DOMAIN toLeaf'[t],
                      toLeaf'[t][i] = "WELCOME"
               PROVE  hubHandler[t] = "steady"
    BY <1>3
  <2>1. \E j \in DOMAIN toLeaf[t] : toLeaf[t][j] = "WELCOME"
    BY <1>2, <1>3, QueuedFrames DEF Frame
  <2> QED BY <2>1
<1> QED BY <1>1, <1>4, <1>5

LEMMA HubRestartLink == ASSUME LinkInv, HubRestart PROVE (LeafSide /\ BothSides)'
<1>1. LeafSide'
  BY LeafSideStands, Zenon DEF leafSideVars, leafVars, HubRestart
<1>2. BothSides'
  BY DEF HubRestart, leafVars
<1> QED BY <1>1, <1>2

HIDE DEF LinkInv, BothSides, Unused, ConnectedIsAccepted, Welcomed

LEMMA StepLink ==
    ASSUME LinkInv, [Next]_vars, "redial" \notin Commands
    PROVE  LinkInv'
<1>1. TypeOK' /\ RegistryLive'
  BY StepType, RegistryStep DEF LinkInv
<1> SUFFICES (LeafSide /\ BothSides)'
  BY <1>1 DEF LinkInv
<1>2. ASSUME NEW s \in Sock, SockStep(s) PROVE (LeafSide /\ BothSides)'
  BY <1>1, <1>2, DialPolledLink, DialOkLink, WelcomeLink, HandshakeErrorLink, LeafSeesEofLink,
     LeafOnCloseLink, RecycleLink, HubStepLink, Zenon DEF SockStep
<1>3. ASSUME NEW l \in Leaf, LeafStep(l) \/ HubHeartbeat(l) PROVE (LeafSide /\ BothSides)'
  BY <1>1, <1>3, ReconnectTimerLink, LeafHeartbeatLink, HubCommandLink, Zenon DEF LeafStep
<1>4. CASE Environment
  <2>1. ASSUME NEW l \in Leaf, Reconnect(l) PROVE (LeafSide /\ BothSides)'
    BY <1>1, <2>1, ReconnectLink, Zenon
  <2>2. ASSUME NEW l \in Leaf, Disconnect(l) \/ DisconnectLeaf(l) \/ LeafRestart(l)
        PROVE  (LeafSide /\ BothSides)'
    BY <1>1, <2>2, DisconnectLink, HubCommandLink, LeafRestartLink, Zenon
  <2>3. ASSUME NEW s \in Sock, DialFail(s) \/ Partition(s) PROVE (LeafSide /\ BothSides)'
    BY <1>1, <2>3, DialFailLink, HubStepLink, Zenon
  <2> QED BY <1>4, <2>1, <2>2, <2>3, HubRestartLink, Zenon DEF Environment
<1>5. CASE UNCHANGED vars
  <2>1. LeafSide'
    <3>1. LeafSide /\ UNCHANGED leafSideVars
      BY <1>5 DEF LinkInv, leafSideVars, vars, leafVars, sockVars
    <3> QED BY <3>1, LeafSideStands, Zenon
  <2>2. BothSides'
    BY <1>5 DEF LinkInv, BothSides, Unused, ConnectedIsAccepted, Welcomed, vars, leafVars,
       sockVars
  <2> QED BY <2>1, <2>2
<1> QED BY <1>2, <1>3, <1>4, <1>5 DEF Next, System

-----------------------------------------------------------------------------
(* Every variable of the two state machines has its type.                  *)
THEOREM TypeCorrect == Spec => []TypeOK
  BY InitType, StepType, PTL DEF Spec

(* The hub registers only leaves that know the password, and never more of   *)
(* them than max_leaves, whatever the leaves, the network and the operators   *)
(* do (handleHello).                                                       *)
THEOREM CapacityHolds == Spec => []Capacity
<1>1. Init => TypeOK /\ Capacity
  BY InitType, InitRegistry
<1>2. TypeOK /\ Capacity /\ [Next]_vars => (TypeOK /\ Capacity)'
  BY StepType, CapacityStep
<1> QED BY <1>1, <1>2, PTL DEF Spec

(* An entry of the hub's registry is always an accepted connection of that    *)
(* leaf whose close event has still to come (handleHello, onLeafClose).      *)
THEOREM RegistryIsLive == Spec => []RegistryLive
<1>1. Init => TypeOK /\ RegistryLive
  BY InitType, InitRegistry
<1>2. TypeOK /\ RegistryLive /\ [Next]_vars => (TypeOK /\ RegistryLive)'
  BY StepType, RegistryStep
<1> QED BY <1>1, <1>2, PTL DEF Spec

(* Under operators who do not give .botlink reconnect while an attempt or a    *)
(* timer is pending, a leaf never has two sockets dialing or open at once,     *)
(* whatever else happens (connect, scheduleReconnect, reconnect).            *)
THEOREM OneLinkHolds == ASSUME "redial" \notin Commands PROVE Spec => []OneLink
<1>1. LinkInv => OneLink
  BY DEF LinkInv, LeafSide
<1>2. LinkInv /\ [Next]_vars => LinkInv'
  BY StepLink
<1> QED BY InitLink, <1>1, <1>2, PTL DEF Spec

(* Under the same operators, a leaf that believes it is connected holds a      *)
(* socket the hub accepted, with its steady-state handler installed           *)
(* (initProtocol).                                                         *)
THEOREM AcceptedWhenConnected ==
    ASSUME "redial" \notin Commands
    PROVE  Spec => []ConnectedIsAccepted
<1>1. LinkInv => ConnectedIsAccepted
  BY DEF LinkInv, BothSides
<1>2. LinkInv /\ [Next]_vars => LinkInv'
  BY StepLink
<1> QED BY InitLink, <1>1, <1>2, PTL DEF Spec

-----------------------------------------------------------------------------
(* The link as the code above sees it.  A leaf's side is up from the moment    *)
(* the hub accepts the socket it holds, although it learns so a WELCOME later:  *)
(* what the hub sends meanwhile comes behind the WELCOME.                     *)
LeafUp == [l \in Leaf |-> protocol[l] # None /\ hubHandler[protocol[l]] = "steady"]
HubUp == [l \in Leaf |-> leaves[l] # None]
L == INSTANCE Links WITH leafUp <- LeafUp, hubUp <- HubUp

(* What holds even of operators who redial: a socket not open is accepted by   *)
(* nobody, and this.protocol wraps an open one of its leaf's.                  *)
Unopened == \A s \in Sock : tcp[s] # "open" => hubHandler[s] = "handshake"
Wrapped == TypeOK /\ Owned /\ Unopened /\ Current

LEMMA InitWrapped == Init => Wrapped
  BY InitType DEF Init, Wrapped, Owned, Unopened, Current

LEMMA Ends ==
    ASSUME TypeOK, NEW l \in Leaf, DestroyProtocol(l)
    PROVE  \A s \in Sock : leafEnd'[s] = "closed" <=> leafEnd[s] = "closed"
  BY DEF DestroyProtocol, Destroy, TypeOK, End

LEMMA DialKeeps ==
    ASSUME Wrapped, NEW l \in Leaf, Dial(l)
    PROVE  \A s \in Sock : /\ tcp'[s] = "open" <=> tcp[s] = "open"
                           /\ tcp[s] = "open" => owner'[s] = owner[s]
                           /\ tcp'[s] # "free" => owner'[s] \in Leaf
  BY DEF Dial, Wrapped, TypeOK, Owned

LEMMA SockWrapped ==
    ASSUME Wrapped, NEW s \in Sock, SockStep(s) PROVE (Owned /\ Unopened /\ Current)'
<1> USE NoneIsNoSock
<1>1. CASE Recycle(s)
  BY <1>1 DEF Recycle, leafVars, Wrapped, TypeOK, Owned, Unopened, Current
<1>2. CASE DialPolled(s)
  BY <1>2 DEF DialPolled, leafVars, Wrapped, TypeOK, Owned, Unopened, Current
<1>3. CASE DialOk(s)
  BY <1>3 DEF DialOk, Wrapped, TypeOK, Owned, Unopened, Current
<1>4. CASE Welcome(s)
  BY <1>4 DEF Welcome, Wrapped, TypeOK, Owned, Unopened, Current
<1>5. CASE HandshakeError(s)
  <2>1. owner[s] \in Leaf
    BY <1>5 DEF HandshakeError, LeafDelivers, Wrapped, Owned
  <2>2. \A t \in Sock : leafEnd'[t] = "closed" <=> leafEnd[t] = "closed"
    BY <1>5, <2>1, Ends DEF HandshakeError, Wrapped
  <2> QED BY <1>5, <2>1, <2>2 DEF HandshakeError, Wrapped, TypeOK, Owned, Unopened, Current
<1>6. CASE SteadyFrame(s) \/ LeafSeesEof(s)
  BY <1>6 DEF SteadyFrame, LeafSeesEof, leafVars, Wrapped, TypeOK, Owned, Unopened, Current
<1>7. CASE LeafOnClose(s)
  BY <1>7 DEF LeafOnClose, ForgetLink, Wrapped, TypeOK, Owned, Unopened, Current
<1>8. CASE Hello(s)
  BY <1>8 DEF Hello, leafVars, Wrapped, TypeOK, Owned, Unopened, Current
<1>9. CASE HandshakeTimeout(s) \/ HubSeesEof(s) \/ HubOnClose(s)
  BY <1>9 DEF HandshakeTimeout, HubSeesEof, HubOnClose, leafVars, Wrapped, TypeOK, Owned, Unopened, Current
<1> QED BY <1>1, <1>2, <1>3, <1>4, <1>5, <1>6, <1>7, <1>8, <1>9 DEF SockStep

LEMMA LeafWrapped ==
    ASSUME Wrapped, NEW l \in Leaf,
           LeafStep(l) \/ HubHeartbeat(l) \/ Reconnect(l) \/ Disconnect(l) \/ DisconnectLeaf(l) \/ LeafRestart(l)
    PROVE  (Owned /\ Unopened /\ Current)'
<1> USE NoneIsNoSock
<1>1. CASE ReconnectTimer(l)
  <2>1. CASE Dial(l)
    BY <1>1, <2>1, DialKeeps DEF ReconnectTimer, Wrapped, TypeOK, Owned, Unopened, Current
  <2>2. CASE UNCHANGED <<connecting, tcp, owner>>
    BY <1>1, <2>2 DEF ReconnectTimer, Wrapped, TypeOK, Owned, Unopened, Current
  <2> QED BY <1>1, <2>1, <2>2 DEF ReconnectTimer
<1>2. CASE LeafHeartbeat(l)
  <2>1. \A t \in Sock : leafEnd'[t] = "closed" <=> leafEnd[t] = "closed"
    BY <1>2, Ends DEF LeafHeartbeat, Wrapped
  <2> QED BY <1>2, <2>1 DEF LeafHeartbeat, leafVars, Wrapped, TypeOK, Owned, Unopened, Current
<1>3. CASE HubHeartbeat(l) \/ DisconnectLeaf(l)
  BY <1>3 DEF HubHeartbeat, DisconnectLeaf, leafVars, Wrapped, TypeOK, Owned, Unopened, Current
<1>4. CASE Reconnect(l)
  <2>1. \A t \in Sock : leafEnd'[t] = "closed" <=> leafEnd[t] = "closed"
    BY <1>4, Ends DEF Reconnect, Wrapped
  <2> QED BY <1>4, <2>1, DialKeeps DEF Reconnect, ForgetLink, Wrapped, TypeOK, Owned, Unopened, Current
<1>5. CASE Disconnect(l)
  <2>1. \A t \in Sock : leafEnd'[t] = "closed" <=> leafEnd[t] = "closed"
    BY <1>5, Ends DEF Disconnect, Wrapped
  <2> QED BY <1>5, <2>1 DEF Disconnect, ForgetLink, Wrapped, TypeOK, Owned, Unopened, Current
<1>6. CASE LeafRestart(l)
  BY <1>6 DEF LeafRestart, LeafSocks, Wrapped, TypeOK, Owned, Unopened, Current
<1> QED BY <1>1, <1>2, <1>3, <1>4, <1>5, <1>6 DEF LeafStep

LEMMA StepWrapped == Wrapped /\ [Next]_vars => Wrapped'
<1> SUFFICES ASSUME Wrapped, [Next]_vars PROVE (Owned /\ Unopened /\ Current)'
  BY StepType DEF Wrapped
<1>1. CASE HubRestart
  BY <1>1 DEF HubRestart, leafVars, Wrapped, Owned, Unopened, Current
<1>2. ASSUME NEW s \in Sock, DialFail(s) \/ Partition(s) PROVE (Owned /\ Unopened /\ Current)'
  <2>1. CASE DialFail(s)
    BY <1>2, <2>1 DEF DialFail, leafVars, Wrapped, TypeOK, Owned, Unopened, Current
  <2>2. CASE Partition(s)
    BY <1>2, <2>2 DEF Partition, leafVars, Wrapped, TypeOK, Owned, Unopened, Current
  <2> QED BY <1>2, <2>1, <2>2
<1>3. CASE UNCHANGED vars
  BY <1>3 DEF vars, leafVars, sockVars, Wrapped, Owned, Unopened, Current
<1> QED BY <1>1, <1>2, <1>3, SockWrapped, LeafWrapped DEF Next, System, Environment

(* Steps that leave both sides as they are, or let the leaf forget its link.  *)
LEMMA NeitherSide ==
    ASSUME UNCHANGED <<protocol, hubHandler, leaves>> PROVE UNCHANGED L!sides
  BY DEF L!sides, LeafUp, HubUp

LEMMA LeafForgets ==
    ASSUME Wrapped, NEW l \in Leaf, protocol' = [protocol EXCEPT ![l] = None], UNCHANGED <<hubHandler, leaves>>
    PROVE  L!LeafLoses(l)
  BY DEF L!LeafLoses, LeafUp, HubUp, Wrapped, TypeOK

LEMMA HubForgets ==
    ASSUME Wrapped, NEW l \in Leaf, Unregister(l), UNCHANGED <<protocol, hubHandler>>
    PROVE  L!HubLoses(l)
  BY DEF L!HubLoses, Unregister, LeafUp, HubUp, Wrapped, TypeOK

LEMMA GreetedSides ==
    ASSUME Wrapped, NEW s \in Sock, Hello(s)
    PROVE  UNCHANGED L!sides \/ \E l \in Leaf : L!Up(l) \/ L!Late(l)
<1> DEFINE l == owner[s]
<1>1. hubHandler[s] = "handshake" /\ UNCHANGED protocol
  BY DEF Hello, leafVars
<1>2. CASE hubHandler' = [hubHandler EXCEPT ![s] = "rejected"] /\ UNCHANGED leaves
  <2>1. \A b \in Leaf : protocol[b] # None =>
            (hubHandler'[protocol[b]] = "steady" <=> hubHandler[protocol[b]] = "steady")
    BY <1>1, <1>2 DEF Wrapped, TypeOK
  <2> QED BY <1>1, <1>2, <2>1 DEF L!sides, LeafUp, HubUp
<1>3. CASE /\ hubHandler' = [hubHandler EXCEPT ![s] = "steady"]
           /\ l \in Leaf /\ leaves[l] = None /\ Register(l, s)
  <2>1. ~HubUp[l] /\ HubUp' = [HubUp EXCEPT ![l] = TRUE]
    BY <1>3, NoneIsNoSock DEF HubUp, Register, Wrapped, TypeOK
  <2>2. \A b \in Leaf \ {l} : LeafUp'[b] = LeafUp[b]
    BY <1>1, <1>3 DEF LeafUp, Wrapped, TypeOK, Current
  <2>3. CASE protocol[l] = s
    <3>1. ~LeafUp[l] /\ LeafUp'[l] = TRUE
      BY <1>1, <1>3, <2>3, NoneIsNoSock DEF LeafUp, Wrapped, TypeOK
    <3>2. LeafUp \in [Leaf -> BOOLEAN] /\ LeafUp' \in [Leaf -> BOOLEAN]
      BY DEF LeafUp
    <3>3. LeafUp' = [LeafUp EXCEPT ![l] = TRUE]
      BY <2>2, <3>1, <3>2
    <3> QED BY <1>3, <2>1, <3>1, <3>3 DEF L!Up
  <2>4. CASE protocol[l] # s
    <3>1. LeafUp'[l] = LeafUp[l]
      BY <1>1, <1>3, <2>4 DEF LeafUp, Wrapped, TypeOK
    <3>2. UNCHANGED LeafUp
      BY <2>2, <3>1 DEF LeafUp
    <3> QED BY <1>3, <2>1, <3>2 DEF L!Late
  <2> QED BY <2>3, <2>4
<1> QED BY <1>2, <1>3, ConstantsAssumption DEF Hello

LEMMA SockSides ==
    ASSUME Wrapped, NEW s \in Sock, SockStep(s)
    PROVE  UNCHANGED L!sides \/ \E l \in Leaf : L!Up(l) \/ L!LeafLoses(l) \/ L!HubLoses(l) \/ L!Late(l)
<1>1. CASE Recycle(s)
  <2>1. \A l \in Leaf : protocol[l] # s
    BY <1>1, NoneIsNoSock DEF Recycle, Wrapped, Current
  <2> QED BY <1>1, <2>1 DEF Recycle, leafVars, L!sides, LeafUp, HubUp, Wrapped, TypeOK
<1>2. CASE DialPolled(s) \/ Welcome(s) \/ SteadyFrame(s) \/ LeafSeesEof(s) \/ HandshakeTimeout(s) \/ HubSeesEof(s)
  BY <1>2, NeitherSide
     DEF DialPolled, Welcome, SteadyFrame, LeafSeesEof, HandshakeTimeout, HubSeesEof, leafVars
<1>3. CASE DialOk(s)
  <2>1. owner[s] \in Leaf /\ hubHandler[s] = "handshake"
    BY <1>3 DEF DialOk, Wrapped, Owned, Unopened
  <2>2. L!LeafLoses(owner[s])
    BY <1>3, <2>1 DEF DialOk, L!LeafLoses, LeafUp, HubUp, Wrapped, TypeOK
  <2> QED BY <2>1, <2>2
<1>4. CASE HandshakeError(s) \/ LeafOnClose(s)
  <2>1. owner[s] \in Leaf
    BY <1>4 DEF HandshakeError, LeafDelivers, LeafOnClose, Wrapped, Owned
  <2> QED BY <1>4, <2>1, LeafForgets DEF HandshakeError, LeafOnClose, ForgetLink
<1>5. CASE Hello(s)
  BY <1>5, GreetedSides
<1>6. CASE HubOnClose(s)
  <2>1. owner[s] \in Leaf
    BY <1>6 DEF HubOnClose, Wrapped, Owned
  <2> QED BY <1>6, <2>1, HubForgets, NeitherSide DEF HubOnClose, leafVars
<1> QED BY <1>1, <1>2, <1>3, <1>4, <1>5, <1>6 DEF SockStep

LEMMA LeafSides ==
    ASSUME Wrapped, NEW l \in Leaf,
           LeafStep(l) \/ HubHeartbeat(l) \/ Reconnect(l) \/ Disconnect(l) \/ DisconnectLeaf(l) \/ LeafRestart(l)
    PROVE  UNCHANGED L!sides \/ L!LeafLoses(l) \/ L!HubLoses(l)
<1>1. CASE LeafStep(l)
  BY <1>1, NeitherSide DEF LeafStep, ReconnectTimer, LeafHeartbeat, leafVars
<1>2. CASE HubHeartbeat(l) \/ DisconnectLeaf(l)
  BY <1>2, HubForgets DEF HubHeartbeat, DisconnectLeaf, leafVars
<1>3. CASE Reconnect(l) \/ Disconnect(l) \/ LeafRestart(l)
  BY <1>3, LeafForgets DEF Reconnect, Disconnect, LeafRestart, ForgetLink
<1> QED BY <1>1, <1>2, <1>3

(* Links come and go as the code above the connection layer takes it: a new    *)
(* one only when both sides are rid of the last, but for a HELLO that the hub   *)
(* reads when its leaf has given the connection up (handleHello, initProtocol). *)
THEOREM LinksComeAndGo == Spec => L!Spec
<1>1. Init => L!Init
  <2> SUFFICES ASSUME Init PROVE L!Init
    OBVIOUS
  <2>1. \A l \in Leaf : protocol[l] = None /\ leaves[l] = None
    BY DEF Init
  <2>2. LeafUp = [l \in Leaf |-> FALSE] /\ HubUp = [l \in Leaf |-> FALSE]
    BY <2>1, Zenon DEF LeafUp, HubUp
  <2> QED BY <2>2 DEF L!Init
<1>2. Wrapped /\ [Next]_vars => [L!Orderly \/ \E l \in Leaf : L!Late(l)]_L!sides
  <2> SUFFICES ASSUME Wrapped, [Next]_vars
               PROVE  UNCHANGED L!sides \/ L!Orderly \/ \E l \in Leaf : L!Late(l)
    OBVIOUS
  <2>1. CASE HubRestart
    <3>1. L!HubStops
      BY <2>1 DEF HubRestart, leafVars, L!HubStops, LeafUp, HubUp
    <3> QED BY <3>1 DEF L!Orderly
  <2>2. ASSUME NEW s \in Sock, DialFail(s) \/ Partition(s) PROVE UNCHANGED L!sides
    BY <2>2, NeitherSide DEF DialFail, Partition, leafVars
  <2>3. CASE UNCHANGED vars
    BY <2>3, NeitherSide DEF vars, leafVars, sockVars
  <2> QED BY <2>1, <2>2, <2>3, SockSides, LeafSides DEF Next, System, Environment, L!Orderly
<1> QED BY <1>1, <1>2, InitWrapped, StepWrapped, PTL DEF Spec, L!Spec
=============================================================================
