-------------------------- MODULE LinkEntryProofs ---------------------------
(***************************************************************************)
(* Proofs about who is let in by LinkEntry, for every set of addresses,       *)
(* ranges and connections, every limit, window and length of a ban, and about   *)
(* what a leaf is told, for every finite set of users and masks.              *)
(***************************************************************************)
EXTENDS LinkEntry, FiniteSetTheorems, TLAPS

USE LinkAuthAssumption, LinkEntryAssumption

(* What makes a ban hold: the tracker of a dotted address lasts as long as the row  *)
(* an operator wrote for it, a range that is in force is in memory as it is in the  *)
(* database, and behind a dual-stack socket no ban of an address is in force.        *)
InStore(x) == store[x] # NoRow /\ ~Lifted(store[x])
IpBans == \A x \in Ip \ loosened : InStore(x) => tracker[x].until >= InForce(store[x].until)
DualLoose == dual => \A x \in Ip : store[x] # NoRow => x \in loosened
RangeBans == \A r \in Cidr \ loosened : InStore(r) => ranges[r] = store[r]
Bans == IpBans /\ DualLoose /\ RangeBans
IInv == AuthTypeOK /\ SlotsCounted /\ Bans

-----------------------------------------------------------------------------
(* The operators                                                           *)

LEMMA Constants_ ==
    /\ MaxPending \in Nat \ {0} /\ MaxFailures \in Nat \ {0} /\ MaxBan \in Nat \ {0}
    /\ MaxNow \in Nat \ {0} /\ FailureWindow \in Nat /\ MaxRanges \in Nat
    /\ Forever \in Nat /\ Permanent \in Nat
BY DEF Forever, Permanent

LEMMA RecordTypes ==
    /\ NoTracker \in Trackers
    /\ \A at \in Nat : NewTracker(at) \in Trackers
    /\ NoRow \in Rows
    /\ now \in Nat => \A until \in Nat : Row(until) \in Rows
    /\ Idle \in [st : {"free", "pending", "shut", "done", "in"}, ip : Ip]
    /\ Idle.st = "free"
    /\ \A st \in {"free", "pending", "shut", "done", "in"} :
         Answered(st) \in [st : {"free", "pending", "shut", "done", "in"}, ip : Ip] /\ Answered(st).st = st
<1>1. (CHOOSE ip \in Ip : TRUE) \in Ip
  OBVIOUS
<1>2. NoTracker \in Trackers
  BY Constants_ DEF NoTracker, Trackers
<1>3. \A at \in Nat : NewTracker(at) \in Trackers
  BY Constants_ DEF NewTracker, Trackers
<1> QED BY <1>1, <1>2, <1>3, Constants_ DEF NoRow, Row, Rows, Idle, Answered

LEMMA BanIsFinite == \A t : BanLength(t) \in Nat
BY Constants_ DEF BanLength, Capped

LEMMA ForceIsNat == \A until \in Nat : InForce(until) \in Nat
BY Constants_ DEF InForce

(* A ban in the store that has not run out keeps its address out for now.     *)
LEMMA ForceLasts ==
    ASSUME AuthTypeOK, NEW x \in Ip \cup Cidr, ~Lifted(store[x])
    PROVE  InForce(store[x].until) > now
<1>1. store[x].until \in Nat /\ now \in 1 .. MaxNow
  BY DEF AuthTypeOK, Rows
<1> QED BY <1>1, Constants_ DEF Lifted, InForce, Permanent, Forever

-----------------------------------------------------------------------------
(* What follows from the invariant                                         *)

(* A ban that is in force keeps every address it is about from being admitted. *)
THEOREM BansFollowIInv == IInv => BansHold
<1> SUFFICES ASSUME IInv, NEW x \in (Ip \cup Cidr) \ loosened, InStore(x),
                    NEW ip \in (IF x \in Ip THEN {x} ELSE InRange(x)) \ Whitelist
             PROVE  ~Admitted(ip)
  BY DEF BansHold, InStore
<1>1. CASE x \in Ip
  <2>1. ip = x
    BY <1>1
  <2>2. tracker[x].until > now
    <3>1. tracker[x].until >= InForce(store[x].until) /\ InForce(store[x].until) > now
      BY <1>1, ForceLasts DEF IInv, Bans, IpBans, InStore
    <3>2. tracker[x].until \in Nat /\ InForce(store[x].until) \in Nat /\ now \in Nat
      BY <1>1, ForceIsNat DEF IInv, AuthTypeOK, Trackers, Rows
    <3> QED BY <3>1, <3>2
  <2>3. tracker[x].until \in Nat /\ now \in Nat
    BY <1>1 DEF IInv, AuthTypeOK, Trackers
  <2>4. ~Stale(tracker[x])
    BY <2>2, <2>3 DEF Stale
  <2>5. Swept[x] = tracker[x]
    BY <1>1, <2>4 DEF Swept
  <2> QED BY <2>1, <2>2, <2>5 DEF Admitted, Banned
<1>2. CASE x \notin Ip
  <2>1. x \in Cidr /\ ip \in InRange(x) /\ ranges[x] = store[x]
    BY <1>2 DEF IInv, Bans, RangeBans
  <2> QED BY <2>1 DEF Admitted, RangeBanned, InStore
<1> QED BY <1>1, <1>2

(* The invariant implies the property the run checks.                        *)
THEOREM Follows_ == IInv => AuthHolds
BY BansFollowIInv DEF IInv, AuthHolds

-----------------------------------------------------------------------------
(* Slots and handshakes                                                    *)

LEMMA OpenFinite ==
    ASSUME NEW ip
    PROVE  IsFiniteSet(Open(ip)) /\ Cardinality(Open(ip)) \in Nat
<1>1. Open(ip) \subseteq Conn
  BY DEF Open
<1> QED BY <1>1, FS_Subset, FS_CardinalityType

(* A handshake that ends gives its slot back, and no other.                  *)
LEMMA HandshakeEnds ==
    ASSUME IInv, NEW c \in Conn, conns[c].st = "pending", NEW k,
           k \in [st : {"free", "pending", "shut", "done", "in"}, ip : Ip], k.st # "pending",
           conns' = [conns EXCEPT ![c] = k], ReleasePending(conns[c].ip), doubled' = doubled
    PROVE  /\ conns' \in [Conn -> [st : {"free", "pending", "shut", "done", "in"}, ip : Ip]]
           /\ pending' \in [Ip -> 0 .. MaxPending]
           /\ SlotsCounted'
<1> DEFINE at == conns[c].ip
<1>t. /\ conns \in [Conn -> [st : {"free", "pending", "shut", "done", "in"}, ip : Ip]]
      /\ pending \in [Ip -> 0 .. MaxPending]
      /\ at \in Ip
  BY DEF IInv, AuthTypeOK
<1>1. /\ conns' \in [Conn -> [st : {"free", "pending", "shut", "done", "in"}, ip : Ip]]
      /\ conns'[c] = k
      /\ \A d \in Conn : d # c => conns'[d] = conns[d]
  BY <1>t
<1>2. pending' \in [Ip -> 0 .. MaxPending]
      /\ \A ip \in Ip : pending'[ip] = IF ip = at /\ ip \notin Whitelist /\ pending[ip] # 0
                                       THEN pending[ip] - 1 ELSE pending[ip]
  BY <1>t, Constants_ DEF ReleasePending
<1>3. ASSUME NEW ip \in Ip \ Whitelist
      PROVE  /\ pending'[ip] <= Cardinality(Open(ip)')
             /\ \/ pending'[ip] = Cardinality(Open(ip)')
                \/ ip \in doubled' \/ \E d \in Conn : conns'[d] = [st |-> "shut", ip |-> ip]
  <2>o. IsFiniteSet(Open(ip)) /\ Cardinality(Open(ip)) \in Nat
    BY OpenFinite
  <2>i. /\ pending[ip] <= Cardinality(Open(ip))
        /\ \/ pending[ip] = Cardinality(Open(ip))
           \/ ip \in doubled \/ \E d \in Conn : conns[d] = [st |-> "shut", ip |-> ip]
    BY DEF IInv, SlotsCounted
  <2>s. (\E d \in Conn : conns[d] = [st |-> "shut", ip |-> ip])
           => \E d \in Conn : conns'[d] = [st |-> "shut", ip |-> ip]
    <3> SUFFICES ASSUME NEW d \in Conn, conns[d] = [st |-> "shut", ip |-> ip]
                 PROVE  conns'[d] = [st |-> "shut", ip |-> ip]
      OBVIOUS
    <3>1. d # c
      OBVIOUS
    <3> QED BY <3>1, <1>1
  <2>p. pending[ip] \in Nat
    BY <1>t
  <2>1. CASE ip = at
    <3>1. Open(ip)' = Open(ip) \ {c} /\ c \in Open(ip)
      BY <1>1, <2>1 DEF Open
    <3>2. Cardinality(Open(ip)') = Cardinality(Open(ip)) - 1
      <4>1. Cardinality(Open(ip) \ {c}) =
                IF c \in Open(ip) THEN Cardinality(Open(ip)) - 1 ELSE Cardinality(Open(ip))
        BY <2>o, FS_RemoveElement
      <4> QED BY <3>1, <4>1
    <3>3. pending'[ip] = IF pending[ip] # 0 THEN pending[ip] - 1 ELSE 0
      BY <1>2, <2>1
    <3>4. Cardinality(Open(ip)) # 0
      BY <3>1, <2>o, FS_EmptySet
    <3> QED BY <2>i, <2>s, <2>o, <2>p, <3>2, <3>3, <3>4
  <2>2. CASE ip # at
    <3>1. Open(ip)' = Open(ip)
      BY <1>1, <2>2 DEF Open
    <3>2. pending'[ip] = pending[ip]
      BY <1>2, <2>2
    <3> QED BY <2>i, <2>s, <3>1, <3>2
  <2> QED BY <2>1, <2>2
<1> QED BY <1>1, <1>2, <1>3 DEF SlotsCounted

-----------------------------------------------------------------------------
(* Bans                                                                    *)

(* Bans hold through every step that writes none and shortens none.         *)
LEMMA BansKeep ==
    ASSUME Bans, UNCHANGED <<dual, now, store, ranges>>, loosened \subseteq loosened',
           AuthTypeOK, AuthTypeOK',
           \A x \in Ip \ loosened' : InStore(x) => tracker'[x].until >= tracker[x].until
    PROVE  Bans'
<1>1. \A x : InStore(x)' = InStore(x)
  BY DEF InStore, NoRow, Permanent, Lifted
<1>2. IpBans'
  <2> SUFFICES ASSUME NEW x \in Ip \ loosened', InStore(x)
               PROVE  tracker'[x].until >= InForce(store[x].until)
    BY <1>1 DEF IpBans, InForce, Permanent, Forever
  <2>1. tracker[x].until >= InForce(store[x].until) /\ tracker'[x].until >= tracker[x].until
    BY DEF Bans, IpBans
  <2>2. tracker[x].until \in Nat /\ tracker'[x].until \in Nat /\ InForce(store[x].until) \in Nat
    BY ForceIsNat DEF AuthTypeOK, Trackers, Rows
  <2> QED BY <2>1, <2>2
<1>3. DualLoose'
  BY DEF Bans, DualLoose, NoRow, Permanent
<1>4. RangeBans'
  BY <1>1 DEF Bans, RangeBans
<1> QED BY <1>2, <1>3, <1>4 DEF Bans
-----------------------------------------------------------------------------
(* One lemma for each step at the door                                     *)

LEMMA AdmitKeeps ==
    ASSUME IInv, NEW c \in Conn, NEW ip \in Ip, Admit(c, ip)
    PROVE  IInv'
<1> USE DEF Admit
<1>1. tracker' \in [Ip -> Trackers]
  BY RecordTypes DEF Swept, IInv, AuthTypeOK
<1>2. ranges' \in [Cidr -> Rows] /\ store' \in [Ip \cup Cidr -> Rows]
  BY RecordTypes DEF IInv, AuthTypeOK
<1>3. /\ conns' \in [Conn -> [st : {"free", "pending", "shut", "done", "in"}, ip : Ip]]
      /\ pending' \in [Ip -> 0 .. MaxPending] /\ SlotsCounted'
  <2>t. /\ conns \in [Conn -> [st : {"free", "pending", "shut", "done", "in"}, ip : Ip]]
        /\ pending \in [Ip -> 0 .. MaxPending]
    BY DEF IInv, AuthTypeOK
  <2>1. CASE ~Admitted(ip)
    <3>1. conns' = conns /\ pending' = pending /\ doubled' = doubled
      BY <2>1
    <3>2. SlotsCounted'
      BY <3>1 DEF IInv, SlotsCounted, Open
    <3> QED BY <2>t, <3>1, <3>2
  <2>2. CASE Admitted(ip)
    <3>1. /\ conns' = [conns EXCEPT ![c] = [st |-> "pending", ip |-> ip]]
          /\ pending' = [pending EXCEPT ![ip] = IF ip \in Whitelist THEN @ ELSE @ + 1]
      BY <2>2
    <3>2. ip \notin Whitelist => pending[ip] < MaxPending
      BY <2>2 DEF Admitted
    <3>3. /\ conns' \in [Conn -> [st : {"free", "pending", "shut", "done", "in"}, ip : Ip]]
          /\ conns'[c] = [st |-> "pending", ip |-> ip]
          /\ \A d \in Conn : d # c => conns'[d] = conns[d]
      BY <2>t, <3>1
    <3>4. /\ pending' \in [Ip -> 0 .. MaxPending]
          /\ \A a \in Ip : pending'[a] = IF a = ip /\ a \notin Whitelist THEN pending[a] + 1
                                          ELSE pending[a]
      <4>1. CASE ip \in Whitelist
        BY <2>t, <3>1, <4>1
      <4>2. CASE ip \notin Whitelist
        <5>1. pending[ip] + 1 \in 0 .. MaxPending
          BY <2>t, <3>2, <4>2, Constants_
        <5>2. pending' = [pending EXCEPT ![ip] = pending[ip] + 1]
          BY <3>1, <4>2
        <5> QED BY <2>t, <4>2, <5>1, <5>2
      <4> QED BY <4>1, <4>2
    <3>5. ASSUME NEW a \in Ip \ Whitelist
          PROVE  /\ pending'[a] <= Cardinality(Open(a)')
                 /\ \/ pending'[a] = Cardinality(Open(a)')
                    \/ a \in doubled' \/ \E d \in Conn : conns'[d] = [st |-> "shut", ip |-> a]
      <4>o. IsFiniteSet(Open(a)) /\ Cardinality(Open(a)) \in Nat /\ pending[a] \in Nat
        BY OpenFinite, <2>t
      <4>i. /\ pending[a] <= Cardinality(Open(a))
            /\ \/ pending[a] = Cardinality(Open(a))
               \/ a \in doubled \/ \E d \in Conn : conns[d] = [st |-> "shut", ip |-> a]
        BY DEF IInv, SlotsCounted
      <4>s. (\E d \in Conn : conns[d] = [st |-> "shut", ip |-> a])
               => \E d \in Conn : conns'[d] = [st |-> "shut", ip |-> a]
        <5> SUFFICES ASSUME NEW d \in Conn, conns[d] = [st |-> "shut", ip |-> a]
                     PROVE  conns'[d] = [st |-> "shut", ip |-> a]
          OBVIOUS
        <5>1. d # c
          OBVIOUS
        <5> QED BY <5>1, <3>3
      <4>d. doubled' = doubled
        OBVIOUS
      <4>1. CASE a = ip
        <5>1. Open(a)' = Open(a) \cup {c} /\ c \notin Open(a)
          BY <3>3, <4>1 DEF Open
        <5>2. Cardinality(Open(a)') = Cardinality(Open(a)) + 1
          BY <5>1, <4>o, FS_AddElement
        <5>3. pending'[a] = pending[a] + 1
          BY <3>4, <4>1
        <5> QED BY <4>i, <4>s, <4>o, <4>d, <5>2, <5>3
      <4>2. CASE a # ip
        <5>1. Open(a)' = Open(a)
          BY <3>3, <4>2 DEF Open
        <5>2. pending'[a] = pending[a]
          BY <3>4, <4>2
        <5> QED BY <4>i, <4>s, <4>d, <5>1, <5>2
      <4> QED BY <4>1, <4>2
    <3> QED BY <3>3, <3>4, <3>5 DEF SlotsCounted
  <2> QED BY <2>1, <2>2
<1>4. AuthTypeOK'
  BY <1>1, <1>2, <1>3 DEF IInv, AuthTypeOK
<1>5. IpBans'
  <2> SUFFICES ASSUME NEW x \in Ip \ loosened', InStore(x)'
               PROVE  tracker'[x].until >= InForce(store'[x].until)
    BY DEF IpBans, InForce, Permanent, Forever
  <2>1. store'[x] = store[x] /\ x \in Ip \ loosened
    BY DEF IInv, AuthTypeOK
  <2>2. InStore(x)
    BY <2>1 DEF InStore, NoRow, Permanent, Lifted
  <2>3. tracker[x].until >= InForce(store[x].until) /\ InForce(store[x].until) > now
    BY <2>1, <2>2, ForceLasts DEF IInv, Bans, IpBans, InStore
  <2>4. tracker[x].until \in Nat /\ InForce(store[x].until) \in Nat /\ now \in Nat
    BY ForceIsNat DEF IInv, AuthTypeOK, Trackers, Rows
  <2>5. ~Stale(tracker[x])
    BY <2>3, <2>4 DEF Stale
  <2>6. tracker'[x] = tracker[x]
    BY <2>5 DEF Swept
  <2> QED BY <2>1, <2>3, <2>6
<1>6. DualLoose'
  <2> SUFFICES ASSUME dual, NEW x \in Ip, store'[x] # NoRow PROVE x \in loosened
    BY DEF DualLoose, NoRow, Permanent
  <2>1. store'[x] = store[x]
    BY DEF IInv, AuthTypeOK
  <2> QED BY <2>1 DEF IInv, Bans, DualLoose
<1>7. RangeBans'
  <2> SUFFICES ASSUME NEW r \in Cidr \ loosened, InStore(r)' PROVE ranges'[r] = store'[r]
    BY DEF RangeBans
  <2>1. store'[r] # NoRow /\ ~(store'[r].until # Permanent /\ store'[r].until <= now)
    BY DEF InStore, NoRow, Permanent, Lifted
  <2>2. store'[r] = store[r] /\ ~Lifted(ranges[r])
    BY <2>1 DEF IInv, AuthTypeOK
  <2>3. ranges'[r] = ranges[r]
    BY <2>2
  <2>4. InStore(r)
    BY <2>1, <2>2 DEF InStore, Lifted
  <2> QED BY <2>2, <2>3, <2>4 DEF IInv, Bans, RangeBans
<1> QED BY <1>3, <1>4, <1>5, <1>6, <1>7 DEF IInv, Bans

(* Shut, Refused: the hub closes the connection and gives the slot back.     *)
LEMMA ClosedKeeps ==
    ASSUME IInv, NEW c \in Conn, conns[c].st = "pending", NEW k,
           k \in [st : {"free", "pending", "shut", "done", "in"}, ip : Ip], k.st # "pending",
           conns' = [conns EXCEPT ![c] = k], ReleasePending(conns[c].ip),
           UNCHANGED <<dual, now, tracker, ranges, store, orders, doubled, loosened>>
    PROVE  IInv'
<1>2. /\ conns' \in [Conn -> [st : {"free", "pending", "shut", "done", "in"}, ip : Ip]]
      /\ pending' \in [Ip -> 0 .. MaxPending] /\ SlotsCounted'
  BY HandshakeEnds
<1>3. AuthTypeOK /\ AuthTypeOK'
  BY <1>2 DEF IInv, AuthTypeOK
<1>4. \A x \in Ip : tracker[x].until >= tracker[x].until
  BY DEF IInv, AuthTypeOK, Trackers
<1>5. Bans'
  BY <1>3, <1>4, BansKeep DEF IInv
<1> QED BY <1>2, <1>3, <1>5 DEF IInv

LEMMA CloseEventKeeps ==
    ASSUME IInv, NEW c \in Conn, CloseEvent(c)
    PROVE  IInv'
<1> USE DEF CloseEvent
<1>t. /\ conns \in [Conn -> [st : {"free", "pending", "shut", "done", "in"}, ip : Ip]]
      /\ pending \in [Ip -> 0 .. MaxPending] /\ doubled \subseteq Ip
  BY DEF IInv, AuthTypeOK
<1>1. /\ conns' \in [Conn -> [st : {"free", "pending", "shut", "done", "in"}, ip : Ip]]
      /\ pending' \in [Ip -> 0 .. MaxPending] /\ SlotsCounted'
  <2>1. CASE conns[c].st = "pending"
    <3>1. ReleasePending(conns[c].ip) /\ doubled' = doubled
      BY <2>1
    <3>2. Idle.st # "pending" /\ Idle \in [st : {"free", "pending", "shut", "done", "in"}, ip : Ip]
      BY RecordTypes
    <3> QED BY <2>1, <3>1, <3>2, HandshakeEnds
  <2>2. CASE conns[c].st # "pending"
    <3>1. /\ conns' \in [Conn -> [st : {"free", "pending", "shut", "done", "in"}, ip : Ip]]
          /\ conns'[c] = Idle /\ Idle.st = "free"
          /\ \A d \in Conn : d # c => conns'[d] = conns[d]
      BY <1>t, RecordTypes
    <3>2. pending' \in [Ip -> 0 .. MaxPending]
          /\ \A a \in Ip : \/ pending'[a] = pending[a]
                           \/ conns[c].st = "shut" /\ a = conns[c].ip /\ pending[a] # 0
                                /\ pending'[a] = pending[a] - 1
      <4>1. CASE conns[c].st # "shut"
        <5>1. pending' = pending
          BY <2>2, <4>1
        <5>2. pending' \in [Ip -> 0 .. MaxPending]
          BY <1>t, <5>1
        <5>3. \A a \in Ip : pending'[a] = pending[a]
          BY <5>1
        <5> QED BY <5>2, <5>3
      <4>2. CASE conns[c].st = "shut"
        <5>1. ReleasePending(conns[c].ip) /\ conns[c].ip \in Ip
          BY <1>t, <4>2
        <5> DEFINE at == conns[c].ip
                   n == IF at \in Whitelist \/ pending[at] = 0 THEN pending[at] ELSE pending[at] - 1
        <5>2. pending' = [pending EXCEPT ![at] = n]
          BY <5>1 DEF ReleasePending
        <5>3. n \in 0 .. MaxPending /\ (n = pending[at] \/ (pending[at] # 0 /\ n = pending[at] - 1))
          BY <1>t, <5>1, Constants_
        <5> HIDE DEF n, CloseEvent
        <5>4. pending' \in [Ip -> 0 .. MaxPending]
          BY <1>t, <5>2, <5>3
        <5>5. \A a \in Ip : pending'[a] = IF a = at THEN n ELSE pending[a]
          BY <1>t, <5>2
        <5>6. ASSUME NEW a \in Ip
              PROVE  \/ pending'[a] = pending[a]
                     \/ conns[c].st = "shut" /\ a = at /\ pending[a] # 0 /\ pending'[a] = pending[a] - 1
          <6>1. CASE a = at
            BY <4>2, <5>3, <5>5, <6>1
          <6>2. CASE a # at
            BY <5>5, <6>2
          <6> QED BY <6>1, <6>2
        <5> QED BY <5>4, <5>6
      <4> QED BY <4>1, <4>2
    <3>3. ASSUME NEW a \in Ip \ Whitelist
          PROVE  /\ pending'[a] <= Cardinality(Open(a)')
                 /\ \/ pending'[a] = Cardinality(Open(a)')
                    \/ a \in doubled' \/ \E d \in Conn : conns'[d] = [st |-> "shut", ip |-> a]
      <4>o. Cardinality(Open(a)) \in Nat /\ pending[a] \in Nat
        BY OpenFinite, <1>t
      <4>1. Open(a)' = Open(a)
        BY <2>2, <3>1 DEF Open
      <4>i. /\ pending[a] <= Cardinality(Open(a))
            /\ \/ pending[a] = Cardinality(Open(a))
               \/ a \in doubled \/ \E d \in Conn : conns[d] = [st |-> "shut", ip |-> a]
        BY DEF IInv, SlotsCounted
      <4>2. pending'[a] <= Cardinality(Open(a))
        BY <3>2, <4>o, <4>i
      <4>3. CASE conns[c].st = "shut" /\ conns[c].ip = a
        <5>1. a \in doubled'
          BY <4>3
        <5> QED BY <4>1, <4>2, <5>1
      <4>4. CASE ~(conns[c].st = "shut" /\ conns[c].ip = a)
        <5>1. pending'[a] = pending[a]
          BY <3>2, <4>4
        <5>2. doubled \subseteq doubled'
          OBVIOUS
        <5>3. (\E d \in Conn : conns[d] = [st |-> "shut", ip |-> a])
                 => \E d \in Conn : conns'[d] = [st |-> "shut", ip |-> a]
          <6> SUFFICES ASSUME NEW d \in Conn, conns[d] = [st |-> "shut", ip |-> a]
                       PROVE  conns'[d] = [st |-> "shut", ip |-> a]
            OBVIOUS
          <6>1. d # c
            BY <4>4
          <6> QED BY <6>1, <3>1
        <5> QED BY <4>1, <4>2, <4>i, <5>1, <5>2, <5>3
      <4> QED BY <4>3, <4>4
    <3> QED BY <3>1, <3>2, <3>3 DEF SlotsCounted
  <2> QED BY <2>1, <2>2
<1>2. doubled' \subseteq Ip
  BY <1>t
<1>3. AuthTypeOK /\ AuthTypeOK'
  BY <1>1, <1>2 DEF IInv, AuthTypeOK
<1>4. \A x \in Ip : tracker[x].until >= tracker[x].until
  BY DEF IInv, AuthTypeOK, Trackers
<1>5. Bans'
  BY <1>3, <1>4, BansKeep DEF IInv
<1> QED BY <1>1, <1>3, <1>5 DEF IInv
(* What becomes of the slots is settled by the connections alone.            *)
LEMMA SlotsKeep ==
    ASSUME IInv, UNCHANGED <<conns, pending, doubled>>
    PROVE  SlotsCounted'
BY DEF IInv, SlotsCounted, Open

LEMMA AcceptedKeeps ==
    ASSUME IInv, NEW c \in Conn, Accepted(c)
    PROVE  IInv'
<1> USE DEF Accepted
<1> DEFINE k == Answered("in")
<1>1. /\ k \in [st : {"free", "pending", "shut", "done", "in"}, ip : Ip] /\ k.st # "pending"
      /\ conns' = [conns EXCEPT ![c] = k]
  BY RecordTypes
<1> HIDE DEF k
<1>2. /\ conns' \in [Conn -> [st : {"free", "pending", "shut", "done", "in"}, ip : Ip]]
      /\ pending' \in [Ip -> 0 .. MaxPending] /\ SlotsCounted'
  BY <1>1, HandshakeEnds
<1>3. /\ tracker' \in [Ip -> Trackers]
      /\ \A x \in Ip : tracker'[x].until = tracker[x].until
  <2> DEFINE ip == conns[c].ip
             t == [tracker[ip] EXCEPT !.failures = IF ip \in Whitelist THEN @ ELSE 0]
  <2>1. tracker \in [Ip -> Trackers] /\ ip \in Ip
    BY DEF IInv, AuthTypeOK
  <2>2. t \in Trackers /\ t.until = tracker[ip].until
    <3>1. CASE ip \in Whitelist
      BY <2>1, <3>1 DEF Trackers
    <3>2. CASE ip \notin Whitelist
      BY <2>1, <3>2, Constants_ DEF Trackers
    <3> QED BY <3>1, <3>2
  <2>3. tracker' = [tracker EXCEPT ![ip] = t]
    OBVIOUS
  <2> HIDE DEF t, ip, Accepted
  <2>4. tracker' \in [Ip -> Trackers]
    BY <2>1, <2>2, <2>3
  <2>5. \A x \in Ip : tracker'[x] = IF x = ip THEN t ELSE tracker[x]
    BY <2>1, <2>3
  <2> QED BY <2>2, <2>4, <2>5
<1>4. AuthTypeOK /\ AuthTypeOK'
  BY <1>2, <1>3 DEF IInv, AuthTypeOK
<1>5. \A x \in Ip : tracker'[x].until >= tracker[x].until
  BY <1>3 DEF IInv, AuthTypeOK, Trackers
<1>6. Bans'
  BY <1>4, <1>5, BansKeep DEF IInv
<1> QED BY <1>2, <1>4, <1>6 DEF IInv

(* The hub lets go of a connection that was let in: no slot is concerned.    *)
LEMMA LetGoKeeps ==
    ASSUME IInv, NEW c \in Conn, LetGo(c)
    PROVE  IInv'
<1> DEFINE k == Answered("done")
<1>1. /\ conns \in [Conn -> [st : {"free", "pending", "shut", "done", "in"}, ip : Ip]]
      /\ k \in [st : {"free", "pending", "shut", "done", "in"}, ip : Ip] /\ k.st = "done"
      /\ conns[c].st = "in" /\ conns' = [conns EXCEPT ![c] = k]
      /\ UNCHANGED <<dual, now, pending, tracker, ranges, store, orders, doubled, loosened>>
  BY RecordTypes DEF IInv, AuthTypeOK, LetGo
<1> HIDE DEF k
<1>2. /\ conns' \in [Conn -> [st : {"free", "pending", "shut", "done", "in"}, ip : Ip]]
      /\ conns'[c] = k /\ \A d \in Conn : d # c => conns'[d] = conns[d]
  BY <1>1
<1>3. AuthTypeOK /\ AuthTypeOK'
  BY <1>1, <1>2 DEF IInv, AuthTypeOK
<1>4. SlotsCounted'
  <2> SUFFICES ASSUME NEW ip \in Ip \ Whitelist
               PROVE  /\ Open(ip)' = Open(ip)
                      /\ \A d \in Conn : conns[d] = [st |-> "shut", ip |-> ip] => conns'[d] = conns[d]
    BY <1>1 DEF IInv, SlotsCounted
  <2>1. Open(ip)' = Open(ip)
    BY <1>1, <1>2 DEF Open
  <2>2. ASSUME NEW d \in Conn, conns[d] = [st |-> "shut", ip |-> ip] PROVE conns'[d] = conns[d]
    <3>1. d # c
      BY <1>1, <2>2
    <3> QED BY <1>2, <3>1
  <2> QED BY <2>1, <2>2
<1>5. \A x \in Ip : tracker[x].until >= tracker[x].until
  BY DEF IInv, AuthTypeOK, Trackers
<1>6. Bans'
  BY <1>1, <1>3, <1>5, BansKeep DEF IInv
<1> QED BY <1>3, <1>4, <1>6 DEF IInv

LEMMA NoteFailureType ==
    ASSUME AuthTypeOK, NEW ip \in Ip
    PROVE  NoteFailure(ip) \in Trackers
<1> DEFINE t == Tracked(ip, now)
           fresh == IF now - t.first > FailureWindow
                    THEN [t EXCEPT !.failures = 0, !.first = now] ELSE t
           f == fresh.failures + 1
<1>1. now \in Nat
  BY DEF AuthTypeOK
<1>2. t \in Trackers
  BY <1>1, RecordTypes DEF AuthTypeOK, Tracked
<1>0. 0 \in 0 .. MaxFailures - 1
  BY Constants_
<1> HIDE DEF t
<1>3. fresh \in Trackers
  <2>1. [t EXCEPT !.failures = 0, !.first = now] \in Trackers
    BY <1>0, <1>1, <1>2 DEF Trackers
  <2> QED BY <1>2, <2>1
<1> HIDE DEF fresh
<1>4. BanLength(t) \in Nat
  BY BanIsFinite
<1>5. f \in Nat /\ fresh.count + 1 \in Nat /\ now + BanLength(t) \in Nat
  BY <1>1, <1>3, <1>4, Constants_ DEF Trackers
<1>6. f < MaxFailures => [fresh EXCEPT !.failures = f] \in Trackers
  <2> SUFFICES ASSUME f < MaxFailures PROVE [fresh EXCEPT !.failures = f] \in Trackers
    OBVIOUS
  <2>1. f \in 0 .. MaxFailures - 1
    BY <1>5, Constants_
  <2> HIDE DEF f
  <2> QED BY <1>3, <2>1 DEF Trackers
<1>7. \A u, n \in Nat : [fresh EXCEPT !.failures = 0, !.until = u, !.count = n] \in Trackers
  BY <1>0, <1>3 DEF Trackers
<1>8. NoteFailure(ip) =
        IF f < MaxFailures THEN [fresh EXCEPT !.failures = f]
        ELSE [fresh EXCEPT !.failures = 0, !.until = now + BanLength(t), !.count = fresh.count + 1]
  BY DEF NoteFailure, t, fresh
<1> HIDE DEF f
<1> QED BY <1>5, <1>6, <1>7, <1>8

(* A failure may shorten a ban: the address is then among the loosened ones.  *)
LEMMA BadPasswordKeeps ==
    ASSUME IInv, NEW c \in Conn, BadPassword(c)
    PROVE  IInv'
<1> USE DEF BadPassword
<1> DEFINE k == Answered("done")
           ip == conns[c].ip
<1>1. /\ k \in [st : {"free", "pending", "shut", "done", "in"}, ip : Ip] /\ k.st # "pending"
      /\ conns' = [conns EXCEPT ![c] = k]
  BY RecordTypes
<1>i. ip \in Ip /\ tracker \in [Ip -> Trackers] /\ loosened \subseteq Ip \cup Cidr
  BY DEF IInv, AuthTypeOK
<1> HIDE DEF k
<1>2. /\ conns' \in [Conn -> [st : {"free", "pending", "shut", "done", "in"}, ip : Ip]]
      /\ pending' \in [Ip -> 0 .. MaxPending] /\ SlotsCounted'
  BY <1>1, HandshakeEnds
<1>3. tracker' \in [Ip -> Trackers] /\ \A x \in Ip \ {ip} : tracker'[x] = tracker[x]
  <2>1. CASE ip \in Whitelist
    BY <1>i, <2>1
  <2>2. CASE ip \notin Whitelist
    <3>1. NoteFailure(ip) \in Trackers
      BY <1>i, NoteFailureType DEF IInv
    <3>2. tracker' = [tracker EXCEPT ![ip] = NoteFailure(ip)]
      BY <2>2
    <3> QED BY <1>i, <3>1, <3>2
  <2> QED BY <2>1, <2>2
<1>4. /\ loosened' = IF tracker'[ip].until < tracker[ip].until THEN loosened \cup {ip} ELSE loosened
      /\ UNCHANGED <<dual, now, orders, ranges, store, doubled>>
  OBVIOUS
<1>5. loosened \subseteq loosened' /\ loosened' \subseteq Ip \cup Cidr
  BY <1>i, <1>4
<1>6. AuthTypeOK /\ AuthTypeOK'
  BY <1>2, <1>3, <1>4, <1>5 DEF IInv, AuthTypeOK
<1>7. \A x \in Ip \ loosened' : tracker'[x].until >= tracker[x].until
  <2> SUFFICES ASSUME NEW x \in Ip \ loosened' PROVE tracker'[x].until >= tracker[x].until
    OBVIOUS
  <2>1. tracker[x].until \in Nat /\ tracker'[x].until \in Nat
    BY <1>3, <1>i DEF Trackers
  <2>2. CASE x = ip
    <3>1. ~(tracker'[ip].until < tracker[ip].until)
      BY <2>2, <1>4
    <3> QED BY <2>1, <2>2, <3>1
  <2>3. CASE x # ip
    BY <2>1, <2>3, <1>3
  <2> QED BY <2>2, <2>3
<1>8. Bans'
  BY <1>4, <1>5, <1>6, <1>7, BansKeep DEF IInv
<1> QED BY <1>2, <1>6, <1>8 DEF IInv
-----------------------------------------------------------------------------
(* Operators, the clock and restarts                                       *)

(* A row for one address and its ban in the tracker, behind an ordinary socket.  *)
LEMMA ManualBanKeeps ==
    ASSUME IInv, NEW ip \in Ip, NEW d \in Nat, ManualBan(ip, d)
    PROVE  IInv'
<1> USE DEF ManualBan
<1>t. /\ dual \in BOOLEAN /\ now \in Nat /\ store \in [Ip \cup Cidr -> Rows]
      /\ tracker \in [Ip -> Trackers] /\ loosened \subseteq Ip \cup Cidr
  BY DEF IInv, AuthTypeOK
<1>u. Until(d) \in Nat /\ Row(Until(d)) \in Rows /\ InForce(Until(d)) \in Nat
  <2>1. Until(d) \in Nat
    BY <1>t, Constants_ DEF Until
  <2> QED BY <1>t, <2>1, RecordTypes, ForceIsNat
<1>1. SlotsCounted'
  BY SlotsKeep
<1>2. /\ store' \in [Ip \cup Cidr -> Rows] /\ store'[ip] = Row(Until(d))
      /\ \A x \in (Ip \cup Cidr) \ {ip} : store'[x] = store[x]
  BY <1>t, <1>u
<1> DEFINE t == [Tracked(ip, now) EXCEPT !.until = InForce(Until(d))]
<1>3. t \in Trackers /\ t.until = InForce(Until(d))
  <2>1. Tracked(ip, now) \in Trackers
    BY <1>t, RecordTypes DEF Tracked
  <2> QED BY <2>1, <1>u DEF Trackers
<1>4. tracker' = IF dual THEN tracker ELSE [tracker EXCEPT ![ip] = t]
  OBVIOUS
<1> HIDE DEF t
<1>5. /\ tracker' \in [Ip -> Trackers]
      /\ \A x \in Ip \ {ip} : tracker'[x] = tracker[x]
      /\ ~dual => tracker'[ip] = t
  <2>1. CASE dual
    <3>1. tracker' = tracker
      BY <1>4, <2>1
    <3> QED BY <1>t, <2>1, <3>1
  <2>2. CASE ~dual
    <3>1. tracker' = [tracker EXCEPT ![ip] = t]
      BY <1>4, <2>2
    <3> QED BY <1>t, <1>3, <3>1
  <2> QED BY <2>1, <2>2
<1>6. AuthTypeOK'
  BY <1>2, <1>5, <1>t DEF IInv, AuthTypeOK
<1>7. /\ dual => ip \in loosened'
      /\ \A x \in (Ip \cup Cidr) \ {ip} : x \in loosened' <=> x \in loosened
      /\ UNCHANGED <<dual, now, ranges>>
  OBVIOUS
<1> HIDE DEF ManualBan
<1>8. \A x \in (Ip \cup Cidr) \ {ip} : InStore(x)' => InStore(x)
  BY <1>2, <1>7 DEF InStore, NoRow, Permanent, Lifted
<1>9. IpBans'
  <2> SUFFICES ASSUME NEW x \in Ip \ loosened', InStore(x)'
               PROVE  tracker'[x].until >= InForce(store'[x].until)
    BY DEF IpBans, InForce, Permanent, Forever
  <2>1. CASE x = ip
    <3>1. tracker'[x].until = InForce(Until(d)) /\ store'[x].until = Until(d)
      BY <2>1, <1>2, <1>3, <1>5, <1>7 DEF Row
    <3> QED BY <3>1, <1>u
  <2>2. CASE x # ip
    <3>1. InStore(x) /\ x \in Ip \ loosened /\ tracker'[x] = tracker[x] /\ store'[x] = store[x]
      BY <2>2, <1>2, <1>5, <1>7, <1>8
    <3> QED BY <3>1 DEF IInv, Bans, IpBans
  <2> QED BY <2>1, <2>2
<1>10. DualLoose'
  <2> SUFFICES ASSUME dual', NEW x \in Ip, store'[x] # NoRow PROVE x \in loosened'
    BY DEF DualLoose, NoRow, Permanent
  <2>1. CASE x = ip
    BY <2>1, <1>7
  <2>2. CASE x # ip
    BY <2>2, <1>2, <1>7 DEF IInv, Bans, DualLoose
  <2> QED BY <2>1, <2>2
<1>11. RangeBans'
  <2> SUFFICES ASSUME NEW r \in Cidr \ loosened', InStore(r)' PROVE ranges'[r] = store'[r]
    BY DEF RangeBans
  <2>1. r # ip
    OBVIOUS
  <2> QED BY <2>1, <1>2, <1>7, <1>8 DEF IInv, Bans, RangeBans
<1> QED BY <1>1, <1>6, <1>9, <1>10, <1>11 DEF IInv, Bans

(* A range is in memory as in the database, or among the loosened ones.      *)
LEMMA ManualRangeBanKeeps ==
    ASSUME IInv, NEW q \in Cidr, NEW d \in Nat, ManualRangeBan(q, d)
    PROVE  IInv'
<1> DEFINE full == ranges[q] = NoRow /\ Cardinality({x \in Cidr : ranges[x] # NoRow}) >= MaxRanges
<1>0. /\ store' = [store EXCEPT ![q] = RangeRow(Until(d))]
      /\ ranges' = IF full THEN ranges ELSE [ranges EXCEPT ![q] = RangeRow(Until(d))]
      /\ loosened' = IF full THEN loosened \cup {q} ELSE loosened \ {q}
      /\ UNCHANGED <<dual, now, conns, pending, tracker, doubled>>
  BY DEF ManualRangeBan
<1> HIDE DEF full
<1>t. /\ now \in Nat /\ store \in [Ip \cup Cidr -> Rows] /\ ranges \in [Cidr -> Rows]
      /\ loosened \subseteq Ip \cup Cidr
  BY DEF IInv, AuthTypeOK
<1>u. RangeRow(Until(d)) \in Rows
  <2>1. Until(d) \in Nat
    BY <1>t, Constants_ DEF Until
  <2> QED BY <2>1 DEF RangeRow, Rows
<1>1. SlotsCounted'
  BY <1>0, SlotsKeep
<1>2. /\ store' \in [Ip \cup Cidr -> Rows] /\ store'[q] = RangeRow(Until(d))
      /\ \A x \in (Ip \cup Cidr) \ {q} : store'[x] = store[x]
  BY <1>0, <1>t, <1>u
<1>3. /\ ranges' \in [Cidr -> Rows]
      /\ \A r \in Cidr \ {q} : ranges'[r] = ranges[r]
      /\ q \in loosened' \/ ranges'[q] = RangeRow(Until(d))
  BY <1>0, <1>t, <1>u
<1>4. \A x \in (Ip \cup Cidr) \ {q} : x \in loosened' <=> x \in loosened
  BY <1>0
<1>5. loosened' \subseteq Ip \cup Cidr
  BY <1>0, <1>t
<1>6. AuthTypeOK'
  BY <1>0, <1>2, <1>3, <1>5 DEF IInv, AuthTypeOK
<1>8. \A x \in (Ip \cup Cidr) \ {q} : InStore(x)' => InStore(x)
  BY <1>0, <1>2 DEF InStore, NoRow, Permanent, Lifted
<1>9. IpBans'
  <2> SUFFICES ASSUME NEW x \in Ip \ loosened', InStore(x)'
               PROVE  tracker'[x].until >= InForce(store'[x].until)
    BY DEF IpBans, InForce, Permanent, Forever
  <2>1. x # q
    OBVIOUS
  <2>2. InStore(x) /\ x \in Ip \ loosened /\ tracker'[x] = tracker[x] /\ store'[x] = store[x]
    BY <2>1, <1>0, <1>2, <1>4, <1>8
  <2> QED BY <2>2 DEF IInv, Bans, IpBans
<1>10. DualLoose'
  <2> SUFFICES ASSUME dual', NEW x \in Ip, store'[x] # NoRow PROVE x \in loosened'
    BY DEF DualLoose, NoRow, Permanent
  <2>1. x # q
    OBVIOUS
  <2> QED BY <2>1, <1>0, <1>2, <1>4 DEF IInv, Bans, DualLoose
<1>11. RangeBans'
  <2> SUFFICES ASSUME NEW r \in Cidr \ loosened', InStore(r)' PROVE ranges'[r] = store'[r]
    BY DEF RangeBans
  <2>1. CASE r = q
    BY <2>1, <1>2, <1>3
  <2>2. CASE r # q
    BY <2>2, <1>2, <1>3, <1>4, <1>8 DEF IInv, Bans, RangeBans
  <2> QED BY <2>1, <2>2
<1> QED BY <1>1, <1>6, <1>9, <1>10, <1>11 DEF IInv, Bans

(* What is forgotten is forgotten in the database, or the tracker alone is.   *)
LEMMA UnbanKeeps ==
    ASSUME IInv, NEW x \in Ip \cup Cidr, NEW seen \in BOOLEAN, Unban(x, seen)
    PROVE  IInv'
<1>0. /\ seen => x \in Ip
      /\ store' = IF seen /\ dual THEN store ELSE [store EXCEPT ![x] = NoRow]
      /\ tracker' = IF x \in Ip /\ (seen \/ ~dual) THEN [tracker EXCEPT ![x] = NoTracker] ELSE tracker
      /\ ranges' = IF x \in Cidr THEN [ranges EXCEPT ![x] = NoRow] ELSE ranges
      /\ loosened' = IF store'[x] = NoRow THEN loosened \ {x} ELSE loosened
      /\ UNCHANGED <<dual, now, conns, pending, doubled>>
  BY DEF Unban
<1>t. /\ dual \in BOOLEAN /\ store \in [Ip \cup Cidr -> Rows] /\ ranges \in [Cidr -> Rows]
      /\ tracker \in [Ip -> Trackers] /\ loosened \subseteq Ip \cup Cidr
      /\ NoRow \in Rows /\ NoTracker \in Trackers
  BY RecordTypes DEF IInv, AuthTypeOK
<1>1. SlotsCounted'
  BY <1>0, SlotsKeep
<1>2. /\ store' \in [Ip \cup Cidr -> Rows]
      /\ \A y \in (Ip \cup Cidr) \ {x} : store'[y] = store[y]
      /\ store'[x] = NoRow \/ (dual /\ store'[x] = store[x] /\ x \in Ip)
  <2>1. CASE seen /\ dual
    <3>1. store' = store /\ x \in Ip
      BY <1>0, <2>1
    <3> QED BY <3>1, <2>1, <1>t
  <2>2. CASE ~(seen /\ dual)
    <3>1. store' = [store EXCEPT ![x] = NoRow]
      BY <1>0, <2>2
    <3> QED BY <3>1, <1>t
  <2> QED BY <2>1, <2>2
<1>3. /\ ranges' \in [Cidr -> Rows]
      /\ \A r \in Cidr \ {x} : ranges'[r] = ranges[r]
  BY <1>0, <1>t
<1>4. /\ tracker' \in [Ip -> Trackers]
      /\ \A y \in Ip \ {x} : tracker'[y] = tracker[y]
  BY <1>0, <1>t
<1>5. /\ loosened' \subseteq Ip \cup Cidr
      /\ \A y \in (Ip \cup Cidr) \ {x} : y \in loosened' <=> y \in loosened
      /\ store'[x] # NoRow => loosened' = loosened
  BY <1>0, <1>t
<1>6. AuthTypeOK'
  BY <1>0, <1>2, <1>3, <1>4, <1>5 DEF IInv, AuthTypeOK
<1>7. store'[x] # NoRow /\ x \in Ip => x \in loosened'
  BY <1>2, <1>5 DEF IInv, Bans, DualLoose
<1>8. \A y \in (Ip \cup Cidr) \ {x} : InStore(y)' => InStore(y)
  BY <1>0, <1>2 DEF InStore, NoRow, Permanent, Lifted
<1>n. \A y : InStore(y)' => store'[y] # NoRow
  BY DEF InStore, NoRow, Permanent
<1>9. IpBans'
  <2> SUFFICES ASSUME NEW y \in Ip \ loosened', InStore(y)'
               PROVE  tracker'[y].until >= InForce(store'[y].until)
    BY DEF IpBans, InForce, Permanent, Forever
  <2>1. y # x
    BY <1>7, <1>n
  <2>2. InStore(y) /\ y \in Ip \ loosened /\ tracker'[y] = tracker[y] /\ store'[y] = store[y]
    BY <2>1, <1>2, <1>4, <1>5, <1>8
  <2> QED BY <2>2 DEF IInv, Bans, IpBans
<1>10. DualLoose'
  <2> SUFFICES ASSUME dual', NEW y \in Ip, store'[y] # NoRow PROVE y \in loosened'
    BY DEF DualLoose, NoRow, Permanent
  <2>1. CASE y = x
    BY <2>1, <1>7
  <2>2. CASE y # x
    BY <2>2, <1>0, <1>2, <1>5 DEF IInv, Bans, DualLoose
  <2> QED BY <2>1, <2>2
<1>11. RangeBans'
  <2> SUFFICES ASSUME NEW r \in Cidr \ loosened', InStore(r)' PROVE ranges'[r] = store'[r]
    BY DEF RangeBans
  <2>1. r # x
    BY <1>2, <1>n
  <2> QED BY <2>1, <1>2, <1>3, <1>5, <1>8 DEF IInv, Bans, RangeBans
<1> QED BY <1>1, <1>6, <1>9, <1>10, <1>11 DEF IInv, Bans
(* Every connection is gone and every slot free; the bans come from the database. *)
LEMMA HubRestartKeeps ==
    ASSUME IInv, HubRestart
    PROVE  IInv'
<1>0. /\ conns' = [c \in Conn |-> Idle] /\ pending' = [ip \in Ip |-> 0]
      /\ tracker' = [ip \in Ip |->
           IF ~dual /\ store[ip] # NoRow /\ ~Lifted(store[ip])
           THEN [NewTracker(store[ip].at) EXCEPT !.until = InForce(store[ip].until)] ELSE NoTracker]
      /\ ranges' = [r \in Cidr |-> IF Lifted(store[r]) THEN NoRow ELSE store[r]]
      /\ doubled' = {} /\ loosened' = IF dual THEN loosened \cap Ip ELSE {}
      /\ UNCHANGED <<dual, now, store>>
  BY DEF HubRestart
<1>t. /\ dual \in BOOLEAN /\ now \in 1 .. MaxNow /\ store \in [Ip \cup Cidr -> Rows]
      /\ loosened \subseteq Ip \cup Cidr
      /\ NoRow \in Rows /\ NoTracker \in Trackers
      /\ Idle \in [st : {"free", "pending", "shut", "done", "in"}, ip : Ip] /\ Idle.st = "free"
  BY RecordTypes DEF IInv, AuthTypeOK
<1>1. SlotsCounted'
  <2> SUFFICES ASSUME NEW ip \in Ip \ Whitelist
               PROVE  pending'[ip] = 0 /\ Cardinality(Open(ip)') = 0
    BY DEF SlotsCounted
  <2>1. Open(ip)' = {}
    BY <1>0, <1>t DEF Open
  <2> QED BY <1>0, <2>1, FS_EmptySet
<1>2. /\ conns' \in [Conn -> [st : {"free", "pending", "shut", "done", "in"}, ip : Ip]]
      /\ pending' \in [Ip -> 0 .. MaxPending]
  BY <1>0, <1>t, Constants_
<1>3. \A ip \in Ip : LET t == [NewTracker(store[ip].at) EXCEPT !.until = InForce(store[ip].until)]
                     IN  t \in Trackers /\ t.until = InForce(store[ip].until)
  <2> SUFFICES ASSUME NEW ip \in Ip
               PROVE  LET t == [NewTracker(store[ip].at) EXCEPT !.until = InForce(store[ip].until)]
                      IN  t \in Trackers /\ t.until = InForce(store[ip].until)
    OBVIOUS
  <2>1. store[ip].at \in Nat /\ store[ip].until \in Nat
    BY <1>t DEF Rows
  <2>2. NewTracker(store[ip].at) \in Trackers /\ InForce(store[ip].until) \in Nat
    BY <2>1, RecordTypes, ForceIsNat
  <2> QED BY <2>2 DEF Trackers
<1>4. /\ tracker' \in [Ip -> Trackers]
      /\ \A x \in Ip : ~dual /\ InStore(x) => tracker'[x].until = InForce(store[x].until)
  BY <1>0, <1>t, <1>3 DEF InStore
<1>5. ranges' \in [Cidr -> Rows]
  BY <1>0, <1>t
<1>6. AuthTypeOK'
  <2>1. doubled' \subseteq Ip /\ loosened' \subseteq Ip \cup Cidr
    BY <1>0, <1>t
  <2> QED BY <1>0, <1>t, <1>2, <1>4, <1>5, <2>1 DEF AuthTypeOK
<1>8. \A x : InStore(x)' => InStore(x) /\ store[x] # NoRow
  BY <1>0 DEF InStore, NoRow, Permanent, Lifted
<1>9. IpBans'
  <2> SUFFICES ASSUME NEW x \in Ip \ loosened', InStore(x)'
               PROVE  tracker'[x].until >= InForce(store[x].until)
    BY <1>0 DEF IpBans, InForce, Permanent, Forever
  <2>1. InStore(x) /\ store[x] # NoRow
    BY <1>8
  <2>2. ~dual
    BY <2>1, <1>0 DEF IInv, Bans, DualLoose
  <2>3. InForce(store[x].until) \in Nat
    BY <1>t, ForceIsNat DEF Rows
  <2> QED BY <2>1, <2>2, <2>3, <1>4
<1>10. DualLoose'
  <2> SUFFICES ASSUME dual, NEW x \in Ip, store[x] # NoRow PROVE x \in loosened'
    BY <1>0 DEF DualLoose, NoRow, Permanent
  <2> QED BY <1>0 DEF IInv, Bans, DualLoose
<1>11. RangeBans'
  <2> SUFFICES ASSUME NEW r \in Cidr, InStore(r)' PROVE ranges'[r] = store'[r]
    BY DEF RangeBans
  <2>1. ~Lifted(store[r])
    BY <1>8 DEF InStore
  <2> QED BY <1>0, <2>1
<1> QED BY <1>1, <1>6, <1>9, <1>10, <1>11 DEF IInv, Bans

(* As time passes bans only end.                                            *)
LEMMA TickKeeps ==
    ASSUME IInv, Tick
    PROVE  IInv'
<1>0. /\ now < MaxNow /\ now' = now + 1
      /\ UNCHANGED <<dual, conns, pending, tracker, ranges, store, orders, doubled, loosened>>
  BY DEF Tick
<1>t. now \in 1 .. MaxNow /\ store \in [Ip \cup Cidr -> Rows]
  BY DEF IInv, AuthTypeOK
<1>1. SlotsCounted'
  BY <1>0, SlotsKeep
<1>2. now' \in 1 .. MaxNow
  BY <1>0, <1>t, Constants_
<1>3. AuthTypeOK'
  BY <1>0, <1>2 DEF IInv, AuthTypeOK
<1>4. \A x \in Ip \cup Cidr : InStore(x)' => InStore(x)
  <2> SUFFICES ASSUME NEW x \in Ip \cup Cidr, InStore(x)' PROVE InStore(x)
    OBVIOUS
  <2>1. store[x].until \in Nat
    BY <1>t DEF Rows
  <2> QED BY <1>0, <1>t, <2>1 DEF InStore, NoRow, Permanent, Lifted
<1>5. IpBans'
  BY <1>0, <1>4 DEF IInv, Bans, IpBans, InForce, Permanent, Forever
<1>6. DualLoose'
  BY <1>0 DEF IInv, Bans, DualLoose, NoRow, Permanent
<1>7. RangeBans'
  BY <1>0, <1>4 DEF IInv, Bans, RangeBans
<1> QED BY <1>1, <1>3, <1>5, <1>6, <1>7 DEF IInv, Bans

LEMMA StandsStill ==
    ASSUME IInv, UNCHANGED authVars
    PROVE  IInv'
<1>0. UNCHANGED <<dual, now, conns, pending, tracker, ranges, store, orders, doubled, loosened>>
  BY DEF authVars
<1>1. SlotsCounted'
  BY <1>0, SlotsKeep
<1>2. AuthTypeOK'
  BY <1>0 DEF IInv, AuthTypeOK
<1>3. Bans'
  BY <1>0 DEF IInv, Bans, IpBans, DualLoose, RangeBans, InStore, NoRow, Permanent, Lifted, InForce, Forever
<1> QED BY <1>1, <1>2, <1>3 DEF IInv

-----------------------------------------------------------------------------
(* The inductive invariant                                                 *)

(* The hub starts with no connection and no ban.                            *)
THEOREM Initial == Init => IInv
<1> SUFFICES ASSUME Init PROVE IInv
  OBVIOUS
<1>0. /\ dual \in BOOLEAN /\ now = 1 /\ conns = [c \in Conn |-> Idle]
      /\ pending = [ip \in Ip |-> 0] /\ tracker = [ip \in Ip |-> NoTracker]
      /\ ranges = [r \in Cidr |-> NoRow] /\ store = [x \in Ip \cup Cidr |-> NoRow]
      /\ doubled = {} /\ loosened = {}
  BY DEF Init, AuthInit
<1>1. AuthTypeOK
  <2>1. /\ NoRow \in Rows /\ NoTracker \in Trackers /\ 0 \in 0 .. MaxPending
        /\ Idle \in [st : {"free", "pending", "shut", "done", "in"}, ip : Ip]
    BY RecordTypes, Constants_
  <2>2. /\ pending \in [Ip -> 0 .. MaxPending] /\ tracker \in [Ip -> Trackers]
        /\ ranges \in [Cidr -> Rows] /\ store \in [Ip \cup Cidr -> Rows]
        /\ conns \in [Conn -> [st : {"free", "pending", "shut", "done", "in"}, ip : Ip]]
    BY <1>0, <2>1
  <2>3. now \in 1 .. MaxNow
    BY <1>0, Constants_
  <2> QED BY <1>0, <2>2, <2>3 DEF AuthTypeOK
<1>2. SlotsCounted
  <2> SUFFICES ASSUME NEW ip \in Ip \ Whitelist
               PROVE  pending[ip] = 0 /\ Cardinality(Open(ip)) = 0
    BY DEF SlotsCounted
  <2>1. Open(ip) = {}
    BY <1>0, RecordTypes DEF Open
  <2> QED BY <1>0, <2>1, FS_EmptySet
<1>3. Bans
  BY <1>0 DEF Bans, IpBans, DualLoose, RangeBans, InStore
<1> QED BY <1>1, <1>2, <1>3 DEF IInv

(* Every step of the composition keeps the invariant.                        *)
THEOREM Inductive == IInv /\ [Next]_entryVars => IInv'
<1> SUFFICES ASSUME IInv, [Next]_entryVars PROVE IInv'
  OBVIOUS
<1>1. CASE UNCHANGED entryVars
  <2>1. UNCHANGED authVars
    BY <1>1 DEF entryVars
  <2> QED BY <2>1, StandsStill
<1>2. CASE UNCHANGED authVars
  BY <1>2, StandsStill
<1>3. ASSUME NEW c \in Conn, NEW ip \in Ip, Arrives(c, ip) PROVE IInv'
  <2>1. Admit(c, ip)
    BY <1>3 DEF Arrives
  <2> QED BY <2>1, AdmitKeeps
<1>4. ASSUME NEW c \in Conn, Enters(c) PROVE IInv'
  <2>1. Accepted(c)
    BY <1>4 DEF Enters
  <2> QED BY <2>1, AcceptedKeeps
<1>5. ASSUME NEW c \in Conn, CloseEvent(c) PROVE IInv'
  BY <1>5, CloseEventKeeps
<1>6. ASSUME NEW c \in Conn, Shut(c) \/ Refused(c) PROVE IInv'
  <2>1. CASE Shut(c)
    <3> DEFINE k == [conns[c] EXCEPT !.st = "shut"]
    <3>1. /\ k \in [st : {"free", "pending", "shut", "done", "in"}, ip : Ip] /\ k.st # "pending"
          /\ conns' = [conns EXCEPT ![c] = k]
      BY <2>1 DEF Shut, IInv, AuthTypeOK
    <3> HIDE DEF k
    <3> QED BY <2>1, <3>1, ClosedKeeps DEF Shut
  <2>2. CASE Refused(c)
    <3> DEFINE k == Answered("done")
    <3>1. k \in [st : {"free", "pending", "shut", "done", "in"}, ip : Ip] /\ k.st # "pending"
      BY RecordTypes
    <3>2. conns' = [conns EXCEPT ![c] = k]
      BY <2>2 DEF Refused
    <3> HIDE DEF k
    <3> QED BY <2>2, <3>1, <3>2, ClosedKeeps DEF Refused
  <2> QED BY <1>6, <2>1, <2>2
<1>7. ASSUME NEW c \in Conn, BadPassword(c) PROVE IInv'
  BY <1>7, BadPasswordKeeps
<1>8. ASSUME NEW d \in {0, 1}, NEW ip \in Ip, ManualBan(ip, d) PROVE IInv'
  BY <1>8, ManualBanKeeps
<1>9. ASSUME NEW d \in {0, 1}, NEW r \in Cidr, ManualRangeBan(r, d) PROVE IInv'
  BY <1>9, ManualRangeBanKeeps
<1>10. ASSUME NEW x \in Ip \cup Cidr, NEW seen \in BOOLEAN, Unban(x, seen) PROVE IInv'
  BY <1>10, UnbanKeeps
<1>11. ASSUME Tick PROVE IInv'
  BY <1>11, TickKeeps
<1>12. ASSUME HubComesBack PROVE IInv'
  BY <1>12, HubRestartKeeps DEF HubComesBack
<1>13. ASSUME LeafComesBack PROVE IInv'
  BY <1>13, <1>2, <1>5 DEF LeafComesBack
<1>14. ASSUME NEW c \in Conn, Leaves(c) PROVE IInv'
  BY <1>14, <1>5 DEF Leaves
<1>15. ASSUME HubHeartbeat PROVE IInv'
  BY <1>15, <1>2 DEF HubHeartbeat
<1>16. ASSUME DisconnectLeaf PROVE IInv'
  BY <1>16, LetGoKeeps DEF DisconnectLeaf
<1>17. CASE Next
  BY <1>17, <1>2, <1>3, <1>4, <1>6, <1>7, <1>8, <1>9, <1>10, <1>11, <1>12, <1>13, <1>14, <1>15, <1>16
     DEF Next, AtDoor, Inside
<1> QED BY <1>1, <1>17

(* An operator's ban keeps its addresses out until it ends, restarts included, but  *)
(* for the three ways the code loosens one, and the slots of an address are those   *)
(* of its handshakes (handleConnection, handleHello, BotLinkAuthManager).           *)
THEOREM AuthAlways == Spec => []AuthHolds
<1>1. IInv => AuthHolds
  BY Follows_
<1> QED BY <1>1, Initial, Inductive, PTL DEF Spec
-----------------------------------------------------------------------------
(* What is shared: items under way                                         *)

BanFrameSet == UNION {BanFrames(m) : m \in Mask}
ModeSet == UNION {ModesOf(m) : m \in Mask}

(* Frames and commands are of their kinds, a leaf that is not linked has none under *)
(* way, and a mask is known with a time or not at all.                       *)
Sorted ==
  /\ up \in BOOLEAN /\ (~up => toLeaf = <<>>)
  /\ toLeaf \in Seq(Commands \cup BanFrameSet) /\ toHub \in Seq(Commands)
  /\ out \in Seq(ModeSet) /\ ops \in BOOLEAN
  /\ bans \in [Mask -> [expires : {"no", "never", "later", "past"}, sticky : BOOLEAN]]
SharingInv == Sorted /\ SharingHolds

LEMMA NewestOfNone == \A T : Silent(<<>>, T) /\ Newest(<<>>, T) = {}
BY DEF Silent, Newest

LEMMA NewestOfAppend ==
    ASSUME NEW S, NEW q \in Seq(S), NEW e \in S, NEW T
    PROVE  /\ Silent(Append(q, e), T) <=> Silent(q, T) /\ e \notin T
           /\ e \in T => Newest(Append(q, e), T) \subseteq {e}
           /\ e \notin T => Newest(Append(q, e), T) \subseteq Newest(q, T)
<1> DEFINE r == Append(q, e)
<1>1. /\ Len(q) \in Nat /\ DOMAIN q = 1 .. Len(q)
      /\ DOMAIN r = 1 .. Len(q) + 1 /\ r[Len(q) + 1] = e
      /\ \A i \in 1 .. Len(q) : r[i] = q[i]
  OBVIOUS
<1>2. Silent(r, T) <=> Silent(q, T) /\ e \notin T
  <2>1. ASSUME Silent(r, T) PROVE Silent(q, T) /\ e \notin T
    <3>1. Len(q) + 1 \in DOMAIN r /\ \A i \in DOMAIN q : i \in DOMAIN r
      BY <1>1
    <3> QED BY <2>1, <3>1, <1>1 DEF Silent
  <2>2. ASSUME Silent(q, T), e \notin T PROVE Silent(r, T)
    <3> SUFFICES ASSUME NEW i \in DOMAIN r PROVE r[i] \notin T
      BY DEF Silent
    <3>1. i = Len(q) + 1 \/ i \in DOMAIN q
      BY <1>1
    <3> QED BY <2>2, <3>1, <1>1 DEF Silent
  <2> QED BY <2>1, <2>2
<1>3. ASSUME NEW x \in Newest(r, T)
      PROVE  (e \in T => x = e) /\ (e \notin T => x \in Newest(q, T))
  <2>1. PICK i \in DOMAIN r : x = r[i] /\ r[i] \in T /\ \A j \in DOMAIN r : j > i => r[j] \notin T
    BY <1>3 DEF Newest
  <2>2. CASE i = Len(q) + 1
    BY <2>1, <2>2, <1>1
  <2>3. CASE i # Len(q) + 1
    <3>1. i \in DOMAIN q /\ Len(q) + 1 > i /\ Len(q) + 1 \in DOMAIN r
      BY <1>1, <2>3
    <3>2. e \notin T
      BY <2>1, <3>1, <1>1
    <3>3. \A j \in DOMAIN q : j > i => q[j] \notin T
      <4>1. \A j \in DOMAIN q : j \in DOMAIN r /\ r[j] = q[j]
        BY <1>1
      <4> QED BY <4>1, <2>1
    <3>4. x = q[i] /\ q[i] \in T
      BY <3>1, <1>1, <2>1
    <3> QED BY <3>1, <3>2, <3>3, <3>4 DEF Newest
  <2> QED BY <2>2, <2>3
<1> QED BY <1>2, <1>3

LEMMA NewestOfTail ==
    ASSUME NEW S, NEW q \in Seq(S), q # <<>>, NEW T
    PROVE  /\ Silent(Tail(q), T) /\ Head(q) \notin T => Silent(q, T)
           /\ Silent(Tail(q), T) /\ Head(q) \in T => Head(q) \in Newest(q, T)
           /\ Newest(Tail(q), T) \subseteq Newest(q, T)
           /\ Head(q) \in S /\ Tail(q) \in Seq(S)
<1> DEFINE r == Tail(q)
<1>1. /\ Len(q) \in Nat \ {0} /\ DOMAIN q = 1 .. Len(q) /\ DOMAIN r = 1 .. Len(q) - 1
      /\ \A i \in 1 .. Len(q) - 1 : r[i] = q[i + 1]
      /\ Head(q) = q[1] /\ Head(q) \in S /\ r \in Seq(S)
  OBVIOUS
<1>2. ASSUME Silent(r, T), NEW i \in DOMAIN q, i # 1 PROVE q[i] \notin T
  <2>1. i - 1 \in DOMAIN r /\ r[i - 1] = q[i]
    <3>1. i - 1 \in 1 .. Len(q) - 1 /\ (i - 1) + 1 = i
      BY <1>1, <1>2
    <3> QED BY <3>1, <1>1
  <2> QED BY <2>1, <1>2 DEF Silent
<1>3. Silent(r, T) /\ Head(q) \notin T => Silent(q, T)
  BY <1>1, <1>2 DEF Silent
<1>4. Silent(r, T) /\ Head(q) \in T => Head(q) \in Newest(q, T)
  <2> SUFFICES ASSUME Silent(r, T), Head(q) \in T PROVE Head(q) \in Newest(q, T)
    OBVIOUS
  <2>1. 1 \in DOMAIN q /\ \A j \in DOMAIN q : j > 1 => j # 1
    BY <1>1
  <2>2. \A j \in DOMAIN q : j > 1 => q[j] \notin T
    BY <2>1, <1>2
  <2> QED BY <2>1, <2>2, <1>1 DEF Newest
<1>5. ASSUME NEW x \in Newest(r, T) PROVE x \in Newest(q, T)
  <2>1. PICK i \in DOMAIN r : x = r[i] /\ r[i] \in T /\ \A j \in DOMAIN r : j > i => r[j] \notin T
    BY <1>5 DEF Newest
  <2>2. i + 1 \in DOMAIN q /\ x = q[i + 1] /\ q[i + 1] \in T
    BY <2>1, <1>1
  <2>3. ASSUME NEW j \in DOMAIN q, j > i + 1 PROVE q[j] \notin T
    <3>1. j - 1 \in 1 .. Len(q) - 1 /\ j - 1 > i /\ (j - 1) + 1 = j
      BY <1>1, <2>1, <2>3
    <3> QED BY <3>1, <2>1, <1>1
  <2> QED BY <2>2, <2>3 DEF Newest
<1> QED BY <1>1, <1>3, <1>4, <1>5

LEMMA NewestOfConcat ==
    ASSUME NEW S, NEW q \in Seq(S), NEW r \in Seq(S), NEW T
    PROVE  /\ Silent(q \o r, T) => Silent(q, T) /\ Silent(r, T)
           /\ \A x \in Newest(q \o r, T) : x \in Newest(r, T) \/ (x \in Newest(q, T) /\ Silent(r, T))
<1> DEFINE s == q \o r
           n == Len(q)
<1>1. /\ n \in Nat /\ Len(r) \in Nat /\ DOMAIN q = 1 .. n /\ DOMAIN r = 1 .. Len(r)
      /\ DOMAIN s = 1 .. n + Len(r)
      /\ \A i \in DOMAIN q : i \in DOMAIN s /\ s[i] = q[i]
      /\ \A i \in DOMAIN r : n + i \in DOMAIN s /\ s[n + i] = r[i]
  <2>1. /\ n \in Nat /\ Len(r) \in Nat /\ DOMAIN q = 1 .. n /\ DOMAIN r = 1 .. Len(r)
        /\ DOMAIN s = 1 .. n + Len(r)
    OBVIOUS
  <2>2. ASSUME NEW i \in DOMAIN q PROVE i \in DOMAIN s /\ s[i] = q[i]
    OBVIOUS
  <2>3. ASSUME NEW i \in DOMAIN r PROVE n + i \in DOMAIN s /\ s[n + i] = r[i]
    OBVIOUS
  <2> QED BY <2>1, <2>2, <2>3
<1>2. Silent(s, T) => Silent(q, T) /\ Silent(r, T)
  BY <1>1 DEF Silent
<1>3. ASSUME NEW x \in Newest(s, T)
      PROVE  x \in Newest(r, T) \/ (x \in Newest(q, T) /\ Silent(r, T))
  <2>1. PICK i \in DOMAIN s : x = s[i] /\ s[i] \in T /\ \A j \in DOMAIN s : j > i => s[j] \notin T
    BY <1>3 DEF Newest
  <2>2. CASE i \in DOMAIN q
    <3>1. ASSUME NEW j \in DOMAIN r PROVE r[j] \notin T
      <4>1. n + j > i
        BY <1>1, <2>2
      <4> QED BY <4>1, <1>1, <2>1
    <3>2. x \in Newest(q, T)
      BY <2>1, <2>2, <1>1 DEF Newest
    <3> QED BY <3>1, <3>2 DEF Silent
  <2>3. CASE i \notin DOMAIN q
    <3>1. i - n \in DOMAIN r /\ n + (i - n) = i
      BY <1>1, <2>1, <2>3
    <3>2. x = r[i - n] /\ r[i - n] \in T
      BY <3>1, <1>1, <2>1
    <3>3. ASSUME NEW j \in DOMAIN r, j > i - n PROVE r[j] \notin T
      <4>1. n + j > i
        BY <1>1, <2>1, <3>3
      <4> QED BY <4>1, <1>1, <2>1
    <3> QED BY <3>1, <3>2, <3>3 DEF Newest
  <2> QED BY <2>2, <2>3
<1> QED BY <1>2, <1>3

(* The sequence made of a finite set holds its elements.                     *)
LEMMA SeqOfSet ==
    ASSUME NEW S, IsFiniteSet(S)
    PROVE  /\ SetToSeq(S) \in Seq(S)
           /\ \A T : Silent(SetToSeq(S), T) => S \cap T = {}
           /\ \A T : Newest(SetToSeq(S), T) \subseteq S \cap T
<1> DEFINE n == Cardinality(S)
           q == SetToSeq(S)
<1>1. n \in Nat /\ ExistsBijection(1 .. n, S)
  BY FS_CardinalityType
<1>2. PICK f \in Bijection(1 .. n, S) : TRUE
  BY <1>1 DEF ExistsBijection
<1>3. f \in [1 .. n -> S] /\ IsInjective(f)
  BY <1>2 DEF Bijection, Injection, IsInjective
<1>4. q \in [1 .. n -> S] /\ IsInjective(q)
  BY <1>3 DEF SetToSeq
<1>5. q \in Seq(S)
  BY <1>1, <1>4
<1>6. \A x \in S : \E i \in DOMAIN q : q[i] = x
  <2>1. q \in Injection(1 .. n, S)
    BY <1>4 DEF Injection, IsInjective
  <2>2. Cardinality(1 .. n) = n
    BY <1>1, FS_Interval
  <2>3. q \in Surjection(1 .. n, S)
    BY <2>1, <2>2, FS_Injection
  <2> QED BY <2>3, <1>4 DEF Surjection
<1>7. ASSUME NEW T, Silent(q, T) PROVE S \cap T = {}
  BY <1>6, <1>7 DEF Silent
<1>8. ASSUME NEW T PROVE Newest(q, T) \subseteq S \cap T
  BY <1>4 DEF Newest
<1> QED BY <1>5, <1>7, <1>8
-----------------------------------------------------------------------------
(* Which item is about what                                                *)

LEMMA CommandShape ==
    ASSUME NEW c \in Commands
    PROVE  /\ c.x \in Handle /\ c.v \in Value \cup {NoUser} /\ UserFrame(c)
           /\ c.type \in {"ADDUSER", "SETFLAGS", "DELUSER"}
           /\ c.type = "DELUSER" => c.v = NoUser
           /\ c \in FramesOf(c.x)
           /\ \A h : c \in FramesOf(h) => h = c.x
           /\ \A m : c \notin BanFrames(m)
<1>1. c.x \in Handle /\ c.v \in Value \cup {NoUser} /\ c \in FramesOf(c.x)
      /\ c.type \in {"ADDUSER", "SETFLAGS", "DELUSER"} /\ (c.type = "DELUSER" => c.v = NoUser)
  BY DEF Commands, F, FramesOf
<1> QED BY <1>1 DEF FramesOf, BanFrames, UserFrame

LEMMA BanFrameShape ==
    ASSUME NEW f \in BanFrameSet
    PROVE  /\ f.x \in Mask /\ ~UserFrame(f) /\ f.type \in {"CHAN_BAN_ADD", "CHAN_BAN_DEL"}
           /\ f \in BanFrames(f.x)
           /\ \A m : f \in BanFrames(m) => m = f.x
           /\ \A h : f \notin FramesOf(h)
<1>1. PICK m \in Mask : f \in BanFrames(m)
  BY DEF BanFrameSet
<1> QED BY <1>1 DEF BanFrames, FramesOf, UserFrame

LEMMA BanFrameIs ==
    ASSUME NEW m \in Mask, NEW type \in {"CHAN_BAN_ADD", "CHAN_BAN_DEL"}
    PROVE  F(type, m, "-") \in BanFrameSet /\ F(type, m, "-").x = m /\ F(type, m, "-").type = type
BY DEF BanFrameSet, BanFrames, F

LEMMA ModeShape ==
    ASSUME NEW c \in ModeSet
    PROVE  /\ c.mask \in Mask /\ c.sign \in {"+", "-"} /\ c.had \in BOOLEAN
           /\ c \in ModesOf(c.mask)
           /\ \A m : c \in ModesOf(m) => m = c.mask
<1>1. PICK m \in Mask : c \in ModesOf(m)
  BY DEF ModeSet
<1> QED BY <1>1 DEF ModesOf

LEMMA ModeIs ==
    ASSUME Sorted, NEW m \in Mask, NEW sign \in {"+", "-"}
    PROVE  Mode(sign, m) \in ModeSet /\ Mode(sign, m).mask = m /\ Mode(sign, m).sign = sign
           /\ Mode(sign, m).had = ops
BY DEF ModeSet, ModesOf, Mode, Sorted

LEMMA BanIsKnown ==
    ASSUME Sorted, NEW expires \in {"never", "later", "past"}, NEW m \in Mask
    PROVE  /\ Ban(expires, bans[m].sticky) \in [expires : {"no", "never", "later", "past"}, sticky : BOOLEAN]
           /\ Ban(expires, bans[m].sticky) # NoBan
           /\ Ban(expires, bans[m].sticky).expires # "no"
           /\ NoBan \in [expires : {"no", "never", "later", "past"}, sticky : BOOLEAN]
BY DEF Sorted, Ban, NoBan

-----------------------------------------------------------------------------
(* What is under way grows and is read                                     *)

(* A command of the hub about a user, told to the leaf, keeps the users together.  *)
LEMMA HubExecutesKeeps ==
    ASSUME SharingInv, NEW c \in Commands, HubExecutes(c), UNCHANGED <<up, shared, strayBans, bans>>
    PROVE  /\ hubUsers' \in [Handle -> Value \cup {NoUser}] /\ leafUsers' = leafUsers
           /\ strayUsers' \subseteq Handle
           /\ toLeaf' \in Seq(Commands \cup BanFrameSet) /\ (~up => toLeaf' = <<>>)
           /\ UsersFollow' /\ BansFollow'
<1>s. /\ up \in BOOLEAN /\ (~up => toLeaf = <<>>) /\ toLeaf \in Seq(Commands \cup BanFrameSet)
      /\ hubUsers \in [Handle -> Value \cup {NoUser}] /\ leafUsers \in [Handle -> Value \cup {NoUser}]
      /\ strayUsers \subseteq Handle /\ UsersFollow /\ BansFollow
  BY DEF SharingInv, Sorted, SharingHolds, SharingTypeOK
<1>c. /\ c.x \in Handle /\ c.v \in Value \cup {NoUser}
      /\ c.type \in {"ADDUSER", "SETFLAGS", "DELUSER"} /\ (c.type = "DELUSER" => c.v = NoUser)
      /\ c \in FramesOf(c.x) /\ (\A h : c \in FramesOf(h) => h = c.x) /\ \A m : c \notin BanFrames(m)
  BY CommandShape
<1>1. CASE ~Legal(hubUsers, c.type, c.x)
  <2>1. UNCHANGED <<toLeaf, hubUsers, leafUsers, strayUsers>>
    BY <1>1 DEF HubExecutes, users
  <2> QED BY <2>1, <1>s DEF UsersFollow, BansFollow, Known
<1>2. CASE Legal(hubUsers, c.type, c.x)
  <2>1. /\ hubUsers' = Executed(hubUsers, c) /\ Broadcast(c)
        /\ strayUsers' = Noted(strayUsers, c.x) /\ leafUsers' = leafUsers
    BY <1>2 DEF HubExecutes
  <2>2. hubUsers' = [hubUsers EXCEPT ![c.x] = c.v]
    BY <1>2, <2>1, <1>c DEF Executed, Legal, AddUser, RemoveUser, SetFlags, HasUser
  <2>3. /\ hubUsers' \in [Handle -> Value \cup {NoUser}] /\ hubUsers'[c.x] = c.v
        /\ \A h \in Handle : h # c.x => hubUsers'[h] = hubUsers[h]
    BY <2>2, <1>c, <1>s
  <2>4. CASE ~up
    <3>1. toLeaf' = toLeaf /\ strayUsers' = strayUsers \cup {c.x}
      BY <2>1, <2>4 DEF Broadcast, Noted
    <3>2. UsersFollow'
      BY <3>1, <2>1, <2>3, <1>s DEF UsersFollow
    <3> QED BY <3>1, <3>2, <2>1, <2>3, <2>4, <1>s, <1>c DEF BansFollow, Known
  <2>5. CASE up
    <3>1. toLeaf' = Append(toLeaf, c) /\ strayUsers' = strayUsers \ {c.x}
      BY <2>1, <2>5 DEF Broadcast, Noted
    <3>2. c \in Commands \cup BanFrameSet
      OBVIOUS
    <3>a. \A T : /\ Silent(toLeaf', T) <=> Silent(toLeaf, T) /\ c \notin T
                 /\ c \in T => Newest(toLeaf', T) \subseteq {c}
                 /\ c \notin T => Newest(toLeaf', T) \subseteq Newest(toLeaf, T)
      BY <3>1, <3>2, <1>s, NewestOfAppend
    <3>3. UsersFollow'
      <4> SUFFICES ASSUME NEW h \in Handle \ strayUsers'
                   PROVE  /\ Silent(toLeaf', FramesOf(h)) => leafUsers'[h] = hubUsers'[h]
                          /\ \A f \in Newest(toLeaf', FramesOf(h)) : f.v = hubUsers'[h]
        BY DEF UsersFollow, FramesOf
      <4>1. CASE h = c.x
        BY <4>1, <3>a, <1>c, <2>3
      <4>2. CASE h # c.x
        <5>1. h \in Handle \ strayUsers /\ c \notin FramesOf(h) /\ hubUsers'[h] = hubUsers[h]
          BY <4>2, <3>1, <1>c, <2>3
        <5>2. /\ Silent(toLeaf, FramesOf(h)) => leafUsers[h] = hubUsers[h]
              /\ \A f \in Newest(toLeaf, FramesOf(h)) : f.v = hubUsers[h]
          BY <5>1, <1>s DEF UsersFollow
        <5> QED BY <5>1, <5>2, <3>a, <2>1
      <4> QED BY <4>1, <4>2
    <3>4. BansFollow'
      <4> SUFFICES ASSUME NEW m \in Mask \ strayBans
                   PROVE  /\ Silent(toLeaf', BanFrames(m)) => (m \in shared <=> Known(m) /\ m \in Valid)
                          /\ \A f \in Newest(toLeaf', BanFrames(m)) :
                               m \in Valid => (f.type = "CHAN_BAN_ADD" <=> Known(m))
        BY DEF BansFollow, BanFrames, Known
      <4>1. /\ Silent(toLeaf', BanFrames(m)) => Silent(toLeaf, BanFrames(m))
            /\ Newest(toLeaf', BanFrames(m)) \subseteq Newest(toLeaf, BanFrames(m))
        BY <3>a, <1>c
      <4> QED BY <4>1, <1>s DEF BansFollow
    <3>5. toLeaf' \in Seq(Commands \cup BanFrameSet)
      BY <3>1, <3>2, <1>s
    <3> QED BY <3>1, <3>3, <3>4, <3>5, <2>1, <2>3, <2>5, <1>s
  <2> QED BY <2>4, <2>5, <1>s
<1> QED BY <1>1, <1>2

(* A ban or its end, told to the leaf, keeps the lists together.             *)
LEMMA BroadcastKeeps ==
    ASSUME SharingInv, NEW m \in Mask, NEW type \in {"CHAN_BAN_ADD", "CHAN_BAN_DEL"},
           Broadcast(F(type, m, "-")), strayBans' = Noted(strayBans, m),
           Known(m)' <=> type = "CHAN_BAN_ADD", \A k \in Mask \ {m} : Known(k)' <=> Known(k),
           UNCHANGED <<up, users, shared>>
    PROVE  /\ toLeaf' \in Seq(Commands \cup BanFrameSet) /\ (~up => toLeaf' = <<>>)
           /\ UsersFollow' /\ BansFollow'
<1> DEFINE b == F(type, m, "-")
<1>s. /\ up \in BOOLEAN /\ (~up => toLeaf = <<>>) /\ toLeaf \in Seq(Commands \cup BanFrameSet)
      /\ UsersFollow /\ BansFollow /\ shared' = shared
      /\ UNCHANGED <<hubUsers, leafUsers, strayUsers>>
  BY DEF SharingInv, Sorted, SharingHolds, users
<1>b. b \in BanFrameSet /\ b.x = m /\ b.type = type
  BY BanFrameIs
<1>c. b \in BanFrames(m) /\ (\A k : b \in BanFrames(k) => k = m) /\ \A h : b \notin FramesOf(h)
  BY <1>b, BanFrameShape
<1>1. CASE ~up
  <2>1. toLeaf' = toLeaf /\ strayBans' = strayBans \cup {m}
    BY <1>1 DEF Broadcast, Noted
  <2>2. BansFollow'
    <3> SUFFICES ASSUME NEW k \in Mask \ strayBans'
                 PROVE  /\ Silent(toLeaf', BanFrames(k)) => (k \in shared' <=> Known(k)' /\ k \in Valid)
                        /\ \A f \in Newest(toLeaf', BanFrames(k)) :
                             k \in Valid => (f.type = "CHAN_BAN_ADD" <=> Known(k)')
      BY DEF BansFollow, BanFrames
    <3>1. k \in Mask \ strayBans /\ (Known(k)' <=> Known(k))
      BY <2>1
    <3> QED BY <3>1, <2>1, <1>s DEF BansFollow
  <2> QED BY <2>1, <2>2, <1>s, <1>1 DEF UsersFollow
<1>2. CASE up
  <2>1. toLeaf' = Append(toLeaf, b) /\ strayBans' = strayBans \ {m}
    BY <1>2 DEF Broadcast, Noted
  <2>2. b \in Commands \cup BanFrameSet
    BY <1>b
  <2>a. \A T : /\ Silent(toLeaf', T) <=> Silent(toLeaf, T) /\ b \notin T
               /\ b \in T => Newest(toLeaf', T) \subseteq {b}
               /\ b \notin T => Newest(toLeaf', T) \subseteq Newest(toLeaf, T)
    BY <2>1, <2>2, <1>s, NewestOfAppend
  <2>3. UsersFollow'
    <3> SUFFICES ASSUME NEW h \in Handle \ strayUsers
                 PROVE  /\ Silent(toLeaf', FramesOf(h)) => leafUsers[h] = hubUsers[h]
                        /\ \A f \in Newest(toLeaf', FramesOf(h)) : f.v = hubUsers[h]
      BY <1>s DEF UsersFollow, FramesOf
    <3>1. /\ Silent(toLeaf', FramesOf(h)) => Silent(toLeaf, FramesOf(h))
          /\ Newest(toLeaf', FramesOf(h)) \subseteq Newest(toLeaf, FramesOf(h))
      BY <2>a, <1>c
    <3> QED BY <3>1, <1>s DEF UsersFollow
  <2>4. BansFollow'
    <3> SUFFICES ASSUME NEW k \in Mask \ strayBans'
                 PROVE  /\ Silent(toLeaf', BanFrames(k)) => (k \in shared' <=> Known(k)' /\ k \in Valid)
                        /\ \A f \in Newest(toLeaf', BanFrames(k)) :
                             k \in Valid => (f.type = "CHAN_BAN_ADD" <=> Known(k)')
      BY DEF BansFollow, BanFrames
    <3>1. CASE k = m
      BY <3>1, <2>a, <1>b, <1>c
    <3>2. CASE k # m
      <4>1. k \in Mask \ strayBans /\ (Known(k)' <=> Known(k)) /\ b \notin BanFrames(k)
        BY <3>2, <2>1, <1>c
      <4>2. /\ Silent(toLeaf', BanFrames(k)) => Silent(toLeaf, BanFrames(k))
            /\ Newest(toLeaf', BanFrames(k)) \subseteq Newest(toLeaf, BanFrames(k))
        BY <4>1, <2>a
      <4> QED BY <4>1, <4>2, <1>s DEF BansFollow
    <3> QED BY <3>1, <3>2
  <2>5. toLeaf' \in Seq(Commands \cup BanFrameSet)
    BY <2>1, <2>2, <1>s
  <2> QED BY <2>3, <2>4, <2>5, <1>2, <1>s
<1> QED BY <1>1, <1>2, <1>s

(* A change of the list that no frame tells of is noted.                     *)
LEMMA UntoldKeeps ==
    ASSUME SharingInv, NEW X, strayBans' = strayBans \cup X,
           \A k \in Mask \ X : Known(k)' <=> Known(k), UNCHANGED <<toLeaf, shared>>
    PROVE  BansFollow'
<1> SUFFICES ASSUME NEW k \in Mask \ strayBans'
             PROVE  /\ Silent(toLeaf', BanFrames(k)) => (k \in shared' <=> Known(k)' /\ k \in Valid)
                    /\ \A f \in Newest(toLeaf', BanFrames(k)) :
                         k \in Valid => (f.type = "CHAN_BAN_ADD" <=> Known(k)')
  BY DEF BansFollow, BanFrames
<1>1. k \in Mask \ strayBans /\ (Known(k)' <=> Known(k))
  OBVIOUS
<1> QED BY <1>1 DEF SharingInv, SharingHolds, BansFollow

(* A command sent to the server keeps the channel to the list, if the bot has ops.  *)
LEMMA SendKeeps ==
    ASSUME SharingInv, NEW m \in Mask, NEW sign \in {"+", "-"}, Send(sign, m),
           (ops /\ drift' \in {drift, drift \ {m}}) \/ drift' = drift \cup {m},
           Known(m)' <=> sign = "+", \A k \in Mask \ {m} : Known(k)' <=> Known(k),
           banned' \ {m} = banned \ {m}
    PROVE  out' \in Seq(ModeSet) /\ BansEnforced'
<1> DEFINE c == Mode(sign, m)
<1>s. out \in Seq(ModeSet) /\ ops \in BOOLEAN /\ BansEnforced
  BY DEF SharingInv, Sorted, SharingHolds
<1>c. c \in ModeSet /\ c.mask = m /\ c.sign = sign /\ c.had = ops
  BY ModeIs DEF SharingInv
<1>m. c \in ModesOf(m) /\ \A k : c \in ModesOf(k) => k = m
  BY <1>c, ModeShape
<1>1. out' = Append(out, c)
  BY DEF Send
<1>a. \A T : /\ Silent(out', T) <=> Silent(out, T) /\ c \notin T
             /\ c \in T => Newest(out', T) \subseteq {c}
             /\ c \notin T => Newest(out', T) \subseteq Newest(out, T)
  BY <1>1, <1>c, <1>s, NewestOfAppend
<1>2. BansEnforced'
  <2> SUFFICES ASSUME NEW k \in Mask \ drift'
               PROVE  /\ Silent(out', ModesOf(k)) => (k \in banned' <=> Known(k)')
                      /\ \A d \in Newest(out', ModesOf(k)) : d.had /\ (d.sign = "+" <=> Known(k)')
    BY DEF BansEnforced, ModesOf
  <2>1. CASE k = m
    BY <2>1, <1>a, <1>m, <1>c, <1>s
  <2>2. CASE k # m
    <3>1. k \in Mask \ drift /\ (Known(k)' <=> Known(k)) /\ c \notin ModesOf(k)
          /\ (k \in banned' <=> k \in banned)
      BY <2>2, <1>m
    <3>2. /\ Silent(out', ModesOf(k)) => Silent(out, ModesOf(k))
          /\ Newest(out', ModesOf(k)) \subseteq Newest(out, ModesOf(k))
      BY <3>1, <1>a
    <3> QED BY <3>1, <3>2, <1>s DEF BansEnforced
  <2> QED BY <2>1, <2>2
<1> QED BY <1>1, <1>2, <1>c, <1>s

-----------------------------------------------------------------------------
(* The actions of the users                                                *)

LEMMA HubCommandKeeps ==
    ASSUME SharingInv, HubCommand PROVE SharingInv'
<1>1. PICK c \in Commands : Legal(hubUsers, c.type, c.x) /\ HubExecutes(c)
  BY DEF HubCommand
<1>2. UNCHANGED <<up, toHub, shared, strayBans, bans, ops, banned, out, drift>>
  BY DEF HubCommand, chan
<1>3. /\ hubUsers' \in [Handle -> Value \cup {NoUser}] /\ leafUsers' = leafUsers
      /\ strayUsers' \subseteq Handle
      /\ toLeaf' \in Seq(Commands \cup BanFrameSet) /\ (~up => toLeaf' = <<>>)
      /\ UsersFollow' /\ BansFollow'
  BY <1>1, <1>2, HubExecutesKeeps
<1>4. BansEnforced'
  BY <1>2 DEF SharingInv, SharingHolds, BansEnforced, Known
<1> QED BY <1>2, <1>3, <1>4 DEF SharingInv, Sorted, SharingHolds, SharingTypeOK

LEMMA LeafCommandKeeps ==
    ASSUME SharingInv, LeafCommand PROVE SharingInv'
<1>1. UNCHANGED <<up, toLeaf, shared, strayBans, bans, ops, banned, out, drift>>
  BY DEF LeafCommand, chan
<1>2. PICK c \in Commands :
        \/ up /\ toHub' = Append(toHub, c) /\ UNCHANGED users
        \/ /\ Legal(leafUsers, c.type, c.x)
           /\ leafUsers' = Executed(leafUsers, c)
           /\ strayUsers' = strayUsers \cup {c.x}
           /\ UNCHANGED <<toHub, hubUsers>>
  BY DEF LeafCommand
<1>3. BansFollow' /\ BansEnforced'
  BY <1>1 DEF SharingInv, SharingHolds, BansFollow, BansEnforced, Known
<1>4. CASE up /\ toHub' = Append(toHub, c) /\ UNCHANGED users
  <2>1. UNCHANGED <<hubUsers, leafUsers, strayUsers>>
    BY <1>4 DEF users
  <2>2. UsersFollow'
    BY <2>1, <1>1 DEF SharingInv, SharingHolds, UsersFollow
  <2>3. toHub' \in Seq(Commands)
    BY <1>4 DEF SharingInv, Sorted
  <2> QED BY <1>1, <1>3, <2>1, <2>2, <2>3 DEF SharingInv, Sorted, SharingHolds, SharingTypeOK
<1>5. CASE /\ Legal(leafUsers, c.type, c.x)
           /\ leafUsers' = Executed(leafUsers, c)
           /\ strayUsers' = strayUsers \cup {c.x}
           /\ UNCHANGED <<toHub, hubUsers>>
  <2>1. c.x \in Handle /\ c.v \in Value \cup {NoUser} /\ c.type \in {"ADDUSER", "SETFLAGS", "DELUSER"}
    BY CommandShape
  <2>2. leafUsers' \in {[leafUsers EXCEPT ![c.x] = c.v], [leafUsers EXCEPT ![c.x] = NoUser], leafUsers}
    BY <1>5, <2>1 DEF Executed, AddUser, RemoveUser, SetFlags
  <2>3. /\ leafUsers' \in [Handle -> Value \cup {NoUser}]
        /\ \A h \in Handle : h # c.x => leafUsers'[h] = leafUsers[h]
    BY <2>1, <2>2 DEF SharingInv, SharingHolds, SharingTypeOK
  <2>4. UsersFollow'
    <3> SUFFICES ASSUME NEW h \in Handle \ strayUsers'
                 PROVE  /\ Silent(toLeaf', FramesOf(h)) => leafUsers'[h] = hubUsers'[h]
                        /\ \A f \in Newest(toLeaf', FramesOf(h)) : f.v = hubUsers'[h]
      BY DEF UsersFollow, FramesOf
    <3>1. h \in Handle \ strayUsers /\ h # c.x
      BY <1>5
    <3> QED BY <3>1, <2>3, <1>1, <1>5 DEF SharingInv, SharingHolds, UsersFollow
  <2> QED BY <1>1, <1>3, <1>5, <2>1, <2>3, <2>4 DEF SharingInv, Sorted, SharingHolds, SharingTypeOK
<1> QED BY <1>2, <1>4, <1>5

LEMMA HubReceivesKeeps ==
    ASSUME SharingInv, HubReceives PROVE SharingInv'
<1>1. toHub # <<>> /\ toHub' = Tail(toHub) /\ (HubExecutes(Head(toHub)) \/ UNCHANGED <<toLeaf, users>>)
  BY DEF HubReceives
<1>2. UNCHANGED <<up, shared, strayBans, bans, ops, banned, out, drift>>
  BY DEF HubReceives, chan
<1>3. toHub' \in Seq(Commands) /\ Head(toHub) \in Commands
  BY <1>1, NewestOfTail DEF SharingInv, Sorted
<1>4. BansEnforced'
  BY <1>2 DEF SharingInv, SharingHolds, BansEnforced, Known
<1>5. CASE HubExecutes(Head(toHub))
  <2>1. /\ hubUsers' \in [Handle -> Value \cup {NoUser}] /\ leafUsers' = leafUsers
        /\ strayUsers' \subseteq Handle
        /\ toLeaf' \in Seq(Commands \cup BanFrameSet) /\ (~up => toLeaf' = <<>>)
        /\ UsersFollow' /\ BansFollow'
    BY <1>2, <1>3, <1>5, HubExecutesKeeps
  <2> QED BY <1>2, <1>3, <1>4, <2>1 DEF SharingInv, Sorted, SharingHolds, SharingTypeOK
<1>6. CASE UNCHANGED <<toLeaf, users>>
  <2>1. UNCHANGED <<toLeaf, hubUsers, leafUsers, strayUsers>>
    BY <1>6 DEF users
  <2>2. UsersFollow' /\ BansFollow'
    BY <2>1, <1>2 DEF SharingInv, SharingHolds, UsersFollow, BansFollow, Known
  <2> QED BY <1>2, <1>3, <1>4, <2>1, <2>2 DEF SharingInv, Sorted, SharingHolds, SharingTypeOK
<1> QED BY <1>1, <1>5, <1>6

-----------------------------------------------------------------------------
(* The actions of the link                                                 *)

(* What the leaf is told when it comes in says of each user what the hub knows.    *)
LEMMA LinkUpKeeps ==
    ASSUME SharingInv, LinkUp PROVE SharingInv'
<1> DEFINE known == {x \in Handle : hubUsers[x] # NoUser}
           frames == {F("ADDUSER", h, hubUsers[h]) : h \in known}
<1>1. /\ ~up /\ up' = TRUE /\ toLeaf' = SetToSeq(frames) /\ toLeaf = <<>>
      /\ strayUsers' = {h \in strayUsers : hubUsers[h] = NoUser}
      /\ UNCHANGED <<toHub, hubUsers, leafUsers, shared, strayBans, bans, ops, banned, out, drift>>
  BY DEF LinkUp, UserFrames, chan, SharingInv, Sorted
<1>2. frames \subseteq Commands
  <2> SUFFICES ASSUME NEW h \in known PROVE F("ADDUSER", h, hubUsers[h]) \in Commands
    OBVIOUS
  <2>1. hubUsers[h] \in Value
    BY DEF SharingInv, SharingHolds, SharingTypeOK
  <2> QED BY <2>1 DEF Commands
<1>3. IsFiniteSet(frames)
  <2> DEFINE f == [h \in known |-> F("ADDUSER", h, hubUsers[h])]
  <2>1. IsFiniteSet(known)
    BY LinkSharingAssumption, FS_Subset
  <2>2. f \in Surjection(known, frames)
    BY DEF Surjection
  <2> QED BY <2>1, <2>2, FS_Surjection
<1>4. /\ toLeaf' \in Seq(frames)
      /\ \A T : Silent(toLeaf', T) => frames \cap T = {}
      /\ \A T : Newest(toLeaf', T) \subseteq frames \cap T
  <2>1. /\ SetToSeq(frames) \in Seq(frames)
        /\ \A T : Silent(SetToSeq(frames), T) => frames \cap T = {}
        /\ \A T : Newest(SetToSeq(frames), T) \subseteq frames \cap T
    <3> HIDE DEF frames
    <3> QED BY <1>3, SeqOfSet
  <2> QED BY <2>1, <1>1
<1>5. toLeaf' \in Seq(Commands \cup BanFrameSet)
  <2> HIDE DEF frames
  <2> QED BY <1>2, <1>4
<1>6. UsersFollow'
  <2> SUFFICES ASSUME NEW h \in Handle \ strayUsers'
               PROVE  /\ Silent(toLeaf', FramesOf(h)) => leafUsers[h] = hubUsers[h]
                      /\ \A f \in Newest(toLeaf', FramesOf(h)) : f.v = hubUsers[h]
    BY <1>1 DEF UsersFollow, FramesOf
  <2>1. ASSUME NEW f \in Newest(toLeaf', FramesOf(h)) PROVE f.v = hubUsers[h]
    <3>1. f \in frames /\ f \in FramesOf(h)
      BY <1>4, <2>1
    <3> QED BY <3>1 DEF F, FramesOf
  <2>2. ASSUME Silent(toLeaf', FramesOf(h)) PROVE leafUsers[h] = hubUsers[h]
    <3>1. frames \cap FramesOf(h) = {}
      BY <1>4, <2>2
    <3>2. hubUsers[h] = NoUser
      <4>1. ASSUME hubUsers[h] # NoUser PROVE FALSE
        <5>1. F("ADDUSER", h, hubUsers[h]) \in frames
          BY <4>1
        <5>2. F("ADDUSER", h, hubUsers[h]) \in FramesOf(h)
          BY DEF F, FramesOf, SharingInv, SharingHolds, SharingTypeOK
        <5> QED BY <5>1, <5>2, <3>1
      <4> QED BY <4>1
    <3>3. h \notin strayUsers
      BY <3>2, <1>1
    <3>4. Silent(toLeaf, FramesOf(h))
      BY <1>1, NewestOfNone
    <3> QED BY <3>3, <3>4 DEF SharingInv, SharingHolds, UsersFollow
  <2> QED BY <2>1, <2>2
<1>7. BansFollow'
  <2> SUFFICES ASSUME NEW m \in Mask \ strayBans
               PROVE  /\ m \in shared <=> Known(m) /\ m \in Valid
                      /\ \A f \in Newest(toLeaf', BanFrames(m)) : FALSE
    BY <1>1 DEF BansFollow, BanFrames, Known
  <2>1. Silent(toLeaf, BanFrames(m))
    BY <1>1, NewestOfNone
  <2>2. ASSUME NEW f \in Newest(toLeaf', BanFrames(m)) PROVE FALSE
    <3>1. f \in Commands /\ f \in BanFrames(m)
      BY <1>2, <1>4, <2>2
    <3> QED BY <3>1, CommandShape
  <2> QED BY <2>1, <2>2 DEF SharingInv, SharingHolds, BansFollow
<1>8. BansEnforced'
  BY <1>1 DEF SharingInv, SharingHolds, BansEnforced, Known
<1> QED BY <1>1, <1>5, <1>6, <1>7, <1>8 DEF SharingInv, Sorted, SharingHolds, SharingTypeOK

(* What a link loses when it goes down is noted.                             *)
LEMMA CutKeeps ==
    ASSUME SharingInv, NEW lost, Cut(lost), bans' = bans
    PROVE  /\ up' = FALSE /\ toLeaf' = <<>> /\ toHub' = <<>>
           /\ hubUsers' = hubUsers /\ leafUsers' = leafUsers /\ shared' \subseteq shared
           /\ strayUsers' \subseteq Handle
           /\ UsersFollow' /\ BansFollow'
<1> DEFINE Lost(ofUser) == {f.x : f \in {g \in Range(toLeaf) : UserFrame(g) = ofUser}}
<1>1. /\ up' = FALSE /\ toLeaf' = <<>> /\ toHub' = <<>>
      /\ shared' = shared \ lost /\ strayUsers' = strayUsers \cup Lost(TRUE)
      /\ strayBans' = strayBans \cup Lost(FALSE) \cup lost
      /\ hubUsers' = hubUsers /\ leafUsers' = leafUsers
  BY DEF Cut
<1>2. \A f \in Range(toLeaf) : f \in Commands \cup BanFrameSet
  BY DEF SharingInv, Sorted, Range
<1>3. strayUsers' \subseteq Handle
  <2> SUFFICES ASSUME NEW f \in Range(toLeaf), UserFrame(f) PROVE f.x \in Handle
    BY <1>1 DEF SharingInv, SharingHolds, SharingTypeOK
  <2> QED BY <1>2, CommandShape, BanFrameShape
<1>4. UsersFollow'
  <2> SUFFICES ASSUME NEW h \in Handle \ strayUsers' PROVE leafUsers[h] = hubUsers[h]
    BY <1>1, NewestOfNone DEF UsersFollow, FramesOf
  <2>1. ASSUME NEW i \in DOMAIN toLeaf, toLeaf[i] \in FramesOf(h) PROVE FALSE
    <3>1. toLeaf[i] \in Range(toLeaf)
      BY DEF Range
    <3>2. toLeaf[i].x = h /\ UserFrame(toLeaf[i]) = TRUE
      BY <2>1 DEF FramesOf, UserFrame
    <3> QED BY <3>1, <3>2, <1>1
  <2> QED BY <2>1, <1>1 DEF SharingInv, SharingHolds, UsersFollow, Silent
<1>5. BansFollow'
  <2> SUFFICES ASSUME NEW m \in Mask \ strayBans' PROVE m \in shared' <=> Known(m) /\ m \in Valid
    BY <1>1, NewestOfNone DEF BansFollow, BanFrames, Known
  <2>1. ASSUME NEW i \in DOMAIN toLeaf, toLeaf[i] \in BanFrames(m) PROVE FALSE
    <3>1. toLeaf[i] \in Range(toLeaf)
      BY DEF Range
    <3>2. toLeaf[i].x = m /\ UserFrame(toLeaf[i]) = FALSE
      BY <2>1 DEF BanFrames, UserFrame
    <3> QED BY <3>1, <3>2, <1>1
  <2> QED BY <2>1, <1>1 DEF SharingInv, SharingHolds, BansFollow, Silent
<1> QED BY <1>1, <1>3, <1>4, <1>5

LEMMA LinkDownKeeps ==
    ASSUME SharingInv, LinkDown \/ LeafRestart PROVE SharingInv'
<1>1. PICK lost : Cut(lost)
  BY DEF LinkDown, LeafRestart
<1>2. UNCHANGED <<bans, ops, banned, out, drift>>
  BY DEF LinkDown, LeafRestart, chan
<1>3. /\ up' = FALSE /\ toLeaf' = <<>> /\ toHub' = <<>>
      /\ hubUsers' = hubUsers /\ leafUsers' = leafUsers /\ shared' \subseteq shared
      /\ strayUsers' \subseteq Handle
      /\ UsersFollow' /\ BansFollow'
  BY <1>1, <1>2, CutKeeps
<1>4. BansEnforced'
  BY <1>2 DEF SharingInv, SharingHolds, BansEnforced, Known
<1>5. toLeaf' \in Seq(Commands \cup BanFrameSet) /\ toHub' \in Seq(Commands)
  BY <1>3
<1> QED BY <1>2, <1>3, <1>4, <1>5 DEF SharingInv, Sorted, SharingHolds, SharingTypeOK

LEMMA HubCrashKeeps ==
    ASSUME SharingInv, HubCrash PROVE SharingInv'
<1>1. Cut({}) /\ UNCHANGED <<bans, banned>> /\ out' = <<>> /\ ops' = FALSE
      /\ drift' = drift \cup {c.mask : c \in Range(out)}
  BY DEF HubCrash
<1>3. /\ up' = FALSE /\ toLeaf' = <<>> /\ toHub' = <<>>
      /\ hubUsers' = hubUsers /\ leafUsers' = leafUsers /\ shared' \subseteq shared
      /\ strayUsers' \subseteq Handle
      /\ UsersFollow' /\ BansFollow'
  BY <1>1, CutKeeps
<1>4. BansEnforced'
  <2> SUFFICES ASSUME NEW m \in Mask \ drift' PROVE m \in banned <=> Known(m)
    BY <1>1, NewestOfNone DEF BansEnforced, ModesOf, Known
  <2>1. ASSUME NEW i \in DOMAIN out, out[i] \in ModesOf(m) PROVE FALSE
    <3>1. out[i] \in Range(out) /\ out[i].mask = m
      BY <2>1 DEF Range, ModesOf
    <3> QED BY <3>1, <1>1
  <2> QED BY <2>1, <1>1 DEF SharingInv, SharingHolds, BansEnforced, Silent
<1>5. toLeaf' \in Seq(Commands \cup BanFrameSet) /\ toHub' \in Seq(Commands) /\ out' \in Seq(ModeSet)
  BY <1>1, <1>3
<1> QED BY <1>1, <1>3, <1>4, <1>5 DEF SharingInv, Sorted, SharingHolds, SharingTypeOK

(* The oldest frame is read: a later one about the same user or mask decides.      *)
LEMMA LeafReceivesKeeps ==
    ASSUME SharingInv, LeafReceives PROVE SharingInv'
<1> DEFINE f == Head(toLeaf)
<1>s. /\ toLeaf \in Seq(Commands \cup BanFrameSet) /\ toLeaf # <<>> /\ toLeaf' = Tail(toLeaf)
      /\ leafUsers \in [Handle -> Value \cup {NoUser}] /\ shared \subseteq Valid
      /\ (~up => toLeaf = <<>>)
      /\ UNCHANGED <<up, toHub, hubUsers, strayUsers, strayBans, bans, ops, banned, out, drift>>
  BY DEF SharingInv, Sorted, SharingHolds, SharingTypeOK, LeafReceives, chan
<1>a. \A T : /\ Silent(toLeaf', T) /\ f \notin T => Silent(toLeaf, T)
             /\ Silent(toLeaf', T) /\ f \in T => f \in Newest(toLeaf, T)
             /\ Newest(toLeaf', T) \subseteq Newest(toLeaf, T)
  BY <1>s, NewestOfTail
<1>b. f \in Commands \cup BanFrameSet /\ toLeaf' \in Seq(Commands \cup BanFrameSet)
  BY <1>s, NewestOfTail
<1>4. BansEnforced'
  BY <1>s DEF SharingInv, SharingHolds, BansEnforced, Known
<1>1. CASE f \in Commands
  <2>c. /\ f.x \in Handle /\ f.v \in Value \cup {NoUser} /\ UserFrame(f)
        /\ (f.type = "DELUSER" => f.v = NoUser)
        /\ f \in FramesOf(f.x) /\ (\A h : f \in FramesOf(h) => h = f.x) /\ \A m : f \notin BanFrames(m)
    BY <1>1, CommandShape
  <2>1. shared' = shared /\ leafUsers' = Applied(leafUsers, f)
    BY <2>c DEF LeafReceives
  <2>2. leafUsers' = [leafUsers EXCEPT ![f.x] = f.v]
    BY <2>1, <2>c DEF Applied, RemoveUser, SyncUser
  <2>3. /\ leafUsers' \in [Handle -> Value \cup {NoUser}] /\ leafUsers'[f.x] = f.v
        /\ \A h \in Handle : h # f.x => leafUsers'[h] = leafUsers[h]
    BY <2>2, <2>c, <1>s
  <2>4. UsersFollow'
    <3> SUFFICES ASSUME NEW h \in Handle \ strayUsers
                 PROVE  /\ Silent(toLeaf', FramesOf(h)) => leafUsers'[h] = hubUsers[h]
                        /\ \A g \in Newest(toLeaf', FramesOf(h)) : g.v = hubUsers[h]
      BY <1>s DEF UsersFollow, FramesOf
    <3>1. /\ Silent(toLeaf, FramesOf(h)) => leafUsers[h] = hubUsers[h]
          /\ \A g \in Newest(toLeaf, FramesOf(h)) : g.v = hubUsers[h]
      BY DEF SharingInv, SharingHolds, UsersFollow
    <3>2. CASE h = f.x
      BY <3>1, <3>2, <2>3, <2>c, <1>a
    <3>3. CASE h # f.x
      BY <3>1, <3>3, <2>3, <2>c, <1>a
    <3> QED BY <3>2, <3>3
  <2>5. BansFollow'
    <3> SUFFICES ASSUME NEW m \in Mask \ strayBans
                 PROVE  /\ Silent(toLeaf', BanFrames(m)) => (m \in shared <=> Known(m) /\ m \in Valid)
                        /\ \A g \in Newest(toLeaf', BanFrames(m)) :
                             m \in Valid => (g.type = "CHAN_BAN_ADD" <=> Known(m))
      BY <1>s, <2>1 DEF BansFollow, BanFrames, Known
    <3> QED BY <1>a, <2>c DEF SharingInv, SharingHolds, BansFollow
  <2> QED BY <1>s, <1>b, <1>4, <2>1, <2>3, <2>4, <2>5 DEF SharingInv, Sorted, SharingHolds, SharingTypeOK
<1>2. CASE f \in BanFrameSet
  <2>c. /\ f.x \in Mask /\ ~UserFrame(f) /\ f.type \in {"CHAN_BAN_ADD", "CHAN_BAN_DEL"}
        /\ f \in BanFrames(f.x) /\ (\A m : f \in BanFrames(m) => m = f.x) /\ \A h : f \notin FramesOf(h)
    BY <1>2, BanFrameShape
  <2>1. leafUsers' = leafUsers /\ shared' = SharedAfter(shared, f)
    BY <2>c DEF LeafReceives
  <2>2. /\ shared' \subseteq Valid
        /\ f.x \in Valid => (f.x \in shared' <=> f.type = "CHAN_BAN_ADD")
        /\ \A m \in Mask : m # f.x => (m \in shared' <=> m \in shared)
    BY <2>1, <2>c, <1>s DEF SharedAfter
  <2>4. UsersFollow'
    <3> SUFFICES ASSUME NEW h \in Handle \ strayUsers
                 PROVE  /\ Silent(toLeaf', FramesOf(h)) => leafUsers[h] = hubUsers[h]
                        /\ \A g \in Newest(toLeaf', FramesOf(h)) : g.v = hubUsers[h]
      BY <1>s, <2>1 DEF UsersFollow, FramesOf
    <3> QED BY <1>a, <2>c DEF SharingInv, SharingHolds, UsersFollow
  <2>5. BansFollow'
    <3> SUFFICES ASSUME NEW m \in Mask \ strayBans
                 PROVE  /\ Silent(toLeaf', BanFrames(m)) => (m \in shared' <=> Known(m) /\ m \in Valid)
                        /\ \A g \in Newest(toLeaf', BanFrames(m)) :
                             m \in Valid => (g.type = "CHAN_BAN_ADD" <=> Known(m))
      BY <1>s DEF BansFollow, BanFrames, Known
    <3>1. /\ Silent(toLeaf, BanFrames(m)) => (m \in shared <=> Known(m) /\ m \in Valid)
          /\ \A g \in Newest(toLeaf, BanFrames(m)) : m \in Valid => (g.type = "CHAN_BAN_ADD" <=> Known(m))
      BY DEF SharingInv, SharingHolds, BansFollow
    <3>2. CASE m = f.x
      BY <3>1, <3>2, <2>2, <2>c, <1>a
    <3>3. CASE m # f.x
      BY <3>1, <3>3, <2>2, <2>c, <1>a
    <3> QED BY <3>2, <3>3
  <2> QED BY <1>s, <1>b, <1>4, <2>1, <2>2, <2>4, <2>5 DEF SharingInv, Sorted, SharingHolds, SharingTypeOK
<1> QED BY <1>b, <1>1, <1>2

-----------------------------------------------------------------------------
(* The actions of the bans                                                 *)

(* Unable leaves a mask adrift unless the bot has ops.                       *)
LEMMA UnableDrift ==
    ASSUME SharingInv, NEW m, Unable(m)
    PROVE  (ops /\ drift' \in {drift, drift \ {m}}) \/ drift' = drift \cup {m}
BY DEF Unable, SharingInv, Sorted

(* A record of the list is replaced: what is known of the other masks stays.       *)
LEMMA ListKeeps ==
    ASSUME Sorted, NEW m \in Mask,
           NEW b \in [expires : {"no", "never", "later", "past"}, sticky : BOOLEAN],
           bans' = [bans EXCEPT ![m] = b], b.expires = "no" => b = NoBan,
           \A k \in Mask : bans[k].expires = "no" => bans[k] = NoBan
    PROVE  /\ bans' \in [Mask -> [expires : {"no", "never", "later", "past"}, sticky : BOOLEAN]]
           /\ Known(m)' <=> b # NoBan
           /\ \A k \in Mask \ {m} : Known(k)' <=> Known(k)
           /\ \A k \in Mask : bans'[k].expires = "no" => bans'[k] = NoBan
<1>1. /\ bans' \in [Mask -> [expires : {"no", "never", "later", "past"}, sticky : BOOLEAN]]
      /\ bans'[m] = b /\ \A k \in Mask \ {m} : bans'[k] = bans[k]
  BY DEF Sorted
<1> QED BY <1>1 DEF Known, NoBan

(* What the four commands that ban and unban have in common.                 *)
LEMMA BansChangeKeeps ==
    ASSUME SharingInv, NEW m \in Mask, NEW sign \in {"+", "-"},
           NEW b \in [expires : {"no", "never", "later", "past"}, sticky : BOOLEAN],
           bans' = [bans EXCEPT ![m] = b], b.expires = "no" => b = NoBan,
           b # NoBan <=> sign = "+",
           Send(sign, m), Unable(m),
           \/ /\ Broadcast(F(IF sign = "+" THEN "CHAN_BAN_ADD" ELSE "CHAN_BAN_DEL", m, "-"))
              /\ strayBans' = Noted(strayBans, m)
           \/ toLeaf' = toLeaf /\ strayBans' = strayBans \cup {m},
           UNCHANGED <<ops, banned, up, toHub, users, shared>>
    PROVE  SharingInv'
<1>0. UNCHANGED <<hubUsers, leafUsers, strayUsers>>
  BY DEF users
<1>1. /\ bans' \in [Mask -> [expires : {"no", "never", "later", "past"}, sticky : BOOLEAN]]
      /\ Known(m)' <=> sign = "+"
      /\ \A k \in Mask \ {m} : Known(k)' <=> Known(k)
      /\ \A k \in Mask : bans'[k].expires = "no" => bans'[k] = NoBan
  BY ListKeeps DEF SharingInv, SharingHolds, SharingTypeOK
<1>2. out' \in Seq(ModeSet) /\ BansEnforced'
  BY <1>1, UnableDrift, SendKeeps
<1>3. /\ toLeaf' \in Seq(Commands \cup BanFrameSet) /\ (~up => toLeaf' = <<>>)
      /\ UsersFollow' /\ BansFollow'
  <2>1. CASE toLeaf' = toLeaf /\ strayBans' = strayBans \cup {m}
    <3>1. BansFollow'
      BY <2>1, <1>1, UntoldKeeps
    <3>2. UsersFollow'
      BY <2>1, <1>0 DEF SharingInv, SharingHolds, UsersFollow
    <3> QED BY <3>1, <3>2, <2>1 DEF SharingInv, Sorted
  <2>2. CASE /\ Broadcast(F(IF sign = "+" THEN "CHAN_BAN_ADD" ELSE "CHAN_BAN_DEL", m, "-"))
             /\ strayBans' = Noted(strayBans, m)
    <3> DEFINE type == IF sign = "+" THEN "CHAN_BAN_ADD" ELSE "CHAN_BAN_DEL"
    <3>1. type \in {"CHAN_BAN_ADD", "CHAN_BAN_DEL"} /\ (Known(m)' <=> type = "CHAN_BAN_ADD")
      BY <1>1
    <3>2. Broadcast(F(type, m, "-"))
      BY <2>2
    <3> HIDE DEF type
    <3> QED BY <3>1, <3>2, <2>2, <1>1, BroadcastKeeps
  <2> QED BY <2>1, <2>2
<1> QED BY <1>0, <1>1, <1>2, <1>3 DEF SharingInv, Sorted, SharingHolds, SharingTypeOK

LEMMA NoBanIs ==
    /\ NoBan \in [expires : {"no", "never", "later", "past"}, sticky : BOOLEAN]
    /\ NoBan.expires = "no"
BY DEF NoBan

LEMMA BanCommandKeeps ==
    ASSUME SharingInv, BanCommand PROVE SharingInv'
<1>0. UNCHANGED <<up, toHub, users, shared>> /\ Sorted
  BY DEF BanCommand, SharingInv
<1>1. ASSUME NEW m \in Mask, NEW expires \in {"never", "later"},
             HubBans(m, expires) \/ PluginBans(m, expires)
      PROVE  SharingInv'
  <2> DEFINE b == Ban(expires, bans[m].sticky)
  <2>1. /\ b \in [expires : {"no", "never", "later", "past"}, sticky : BOOLEAN]
        /\ b # NoBan /\ b.expires # "no"
    BY <1>0, BanIsKnown
  <2>2. /\ bans' = [bans EXCEPT ![m] = b] /\ Send("+", m) /\ Unable(m) /\ UNCHANGED <<ops, banned>>
        /\ \/ Broadcast(F("CHAN_BAN_ADD", m, "-")) /\ strayBans' = Noted(strayBans, m)
           \/ toLeaf' = toLeaf /\ strayBans' = strayBans \cup {m}
    BY <1>1 DEF HubBans, PluginBans
  <2> HIDE DEF b
  <2> QED BY <2>1, <2>2, <1>0, BansChangeKeeps
<1>2. ASSUME NEW m \in Mask, HubUnbans(m) \/ PluginUnbans(m) PROVE SharingInv'
  <2>1. /\ bans' = [bans EXCEPT ![m] = NoBan] /\ Send("-", m) /\ Unable(m) /\ UNCHANGED <<ops, banned>>
        /\ \/ Broadcast(F("CHAN_BAN_DEL", m, "-")) /\ strayBans' = Noted(strayBans, m)
           \/ toLeaf' = toLeaf /\ strayBans' = strayBans \cup {m}
    BY <1>2 DEF HubUnbans, PluginUnbans
  <2> QED BY <2>1, <1>0, NoBanIs, BansChangeKeeps
<1>3. ASSUME NEW m \in Mask, NEW sticky \in BOOLEAN, HubSticks(m, sticky) PROVE SharingInv'
  <2> DEFINE b == [bans[m] EXCEPT !.sticky = sticky]
  <2>1. bans' = [bans EXCEPT ![m] = b] /\ Known(m)
        /\ UNCHANGED <<toLeaf, strayBans, ops, banned, out, drift>>
    BY <1>3 DEF HubSticks
  <2>2. bans[m] \in [expires : {"no", "never", "later", "past"}, sticky : BOOLEAN] /\ bans[m].expires # "no"
    BY <2>1 DEF SharingInv, Sorted, SharingHolds, SharingTypeOK, Known
  <2>3. b \in [expires : {"no", "never", "later", "past"}, sticky : BOOLEAN] /\ b.expires # "no" /\ b # NoBan
    BY <2>2 DEF NoBan
  <2>4. /\ bans' \in [Mask -> [expires : {"no", "never", "later", "past"}, sticky : BOOLEAN]]
        /\ Known(m)' /\ \A k \in Mask \ {m} : Known(k)' <=> Known(k)
        /\ \A k \in Mask : bans'[k].expires = "no" => bans'[k] = NoBan
    <3> HIDE DEF b
    <3> QED BY <2>1, <2>3, <1>0, ListKeeps DEF SharingInv, SharingHolds, SharingTypeOK
  <2>5. \A k \in Mask : Known(k)' <=> Known(k)
    BY <2>1, <2>4
  <2>6. UsersFollow'
    BY <2>1, <1>0 DEF SharingInv, SharingHolds, UsersFollow, users
  <2>7. BansFollow'
    <3>1. strayBans' = strayBans \cup {}
      BY <2>1
    <3> QED BY <3>1, <2>1, <2>5, <1>0, UntoldKeeps
  <2>8. BansEnforced'
    <3> SUFFICES ASSUME NEW k \in Mask \ drift
                 PROVE  /\ Silent(out, ModesOf(k)) => (k \in banned <=> Known(k)')
                        /\ \A d \in Newest(out, ModesOf(k)) : d.had /\ (d.sign = "+" <=> Known(k)')
      BY <2>1 DEF BansEnforced, ModesOf
    <3> QED BY <2>5 DEF SharingInv, SharingHolds, BansEnforced
  <2> QED BY <1>0, <2>1, <2>4, <2>6, <2>7, <2>8 DEF SharingInv, Sorted, SharingHolds, SharingTypeOK, users
<1> QED BY <1>1, <1>2, <1>3 DEF BanCommand

(* Nothing that the three agreements are about has changed.                 *)
LEMMA AgreementStays ==
    ASSUME SharingInv, UNCHANGED <<toLeaf, users, shared, strayBans>>,
           \A k \in Mask : Known(k)' <=> Known(k)
    PROVE  UsersFollow' /\ BansFollow'
<1>1. UsersFollow'
  BY DEF SharingInv, SharingHolds, UsersFollow, users
<1>2. BansFollow'
  <2>1. strayBans' = strayBans \cup {}
    OBVIOUS
  <2> QED BY <2>1, UntoldKeeps
<1> QED BY <1>1, <1>2

LEMMA BanEndsKeeps ==
    ASSUME SharingInv, BanEnds PROVE SharingInv'
<1>0. UNCHANGED <<up, toLeaf, toHub, users, shared, strayBans, ops, banned, out, drift>>
  BY DEF BanEnds
<1>1. PICK m \in Mask : bans[m].expires = "later" /\ bans' = [bans EXCEPT ![m].expires = "past"]
  BY DEF BanEnds
<1> DEFINE b == [bans[m] EXCEPT !.expires = "past"]
<1>2. bans[m] \in [expires : {"no", "never", "later", "past"}, sticky : BOOLEAN]
  BY DEF SharingInv, Sorted
<1>3. b \in [expires : {"no", "never", "later", "past"}, sticky : BOOLEAN] /\ b.expires # "no" /\ b # NoBan
  BY <1>2 DEF NoBan
<1>4. /\ bans' \in [Mask -> [expires : {"no", "never", "later", "past"}, sticky : BOOLEAN]]
      /\ Known(m)' /\ \A k \in Mask \ {m} : Known(k)' <=> Known(k)
      /\ \A k \in Mask : bans'[k].expires = "no" => bans'[k] = NoBan
  <2>1. bans' = [bans EXCEPT ![m] = b]
    BY <1>1
  <2> HIDE DEF b
  <2> QED BY <2>1, <1>3, ListKeeps DEF SharingInv, SharingHolds, SharingTypeOK
<1>5. \A k \in Mask : Known(k)' <=> Known(k)
  <2>1. Known(m)
    BY <1>1 DEF Known, NoBan
  <2> QED BY <2>1, <1>4
<1>6. UsersFollow' /\ BansFollow'
  BY <1>0, <1>5, AgreementStays
<1>7. BansEnforced'
  <2> SUFFICES ASSUME NEW k \in Mask \ drift
               PROVE  /\ Silent(out, ModesOf(k)) => (k \in banned <=> Known(k)')
                      /\ \A d \in Newest(out, ModesOf(k)) : d.had /\ (d.sign = "+" <=> Known(k)')
    BY <1>0 DEF BansEnforced, ModesOf
  <2> QED BY <1>5 DEF SharingInv, SharingHolds, BansEnforced
<1> QED BY <1>0, <1>4, <1>6, <1>7 DEF SharingInv, Sorted, SharingHolds, SharingTypeOK, users

(* The minute's timer: one command lifts each ban that has run out.          *)
LEMMA LiftExpiredBansKeeps ==
    ASSUME SharingInv, LiftExpiredBans PROVE SharingInv'
<1> DEFINE S == {Mode("-", m) : m \in Due}
<1>0. /\ ops /\ bans' = [m \in Mask |-> IF m \in Due THEN NoBan ELSE bans[m]]
      /\ out' = out \o SetToSeq(S)
      /\ strayBans' = strayBans \cup Due /\ drift' = drift \ Due
      /\ UNCHANGED <<up, toLeaf, toHub, users, shared, ops, banned>>
  BY DEF LiftExpiredBans
<1>s. /\ Sorted /\ SharingTypeOK /\ BansEnforced /\ out \in Seq(ModeSet) /\ Due \subseteq Mask
  BY DEF SharingInv, SharingHolds, Sorted, Due
<1>1. /\ bans' \in [Mask -> [expires : {"no", "never", "later", "past"}, sticky : BOOLEAN]]
      /\ \A k \in Due : ~Known(k)'
      /\ \A k \in Mask \ Due : Known(k)' <=> Known(k)
      /\ \A k \in Mask : bans'[k].expires = "no" => bans'[k] = NoBan
  BY <1>0, <1>s, NoBanIs DEF Sorted, SharingTypeOK, Known
<1>2. UsersFollow' /\ BansFollow'
  <2>1. BansFollow'
    BY <1>0, <1>1, UntoldKeeps
  <2> QED BY <2>1, <1>0 DEF SharingInv, SharingHolds, UsersFollow, users
<1>3. S \subseteq ModeSet /\ \A m \in Due : Mode("-", m) \in ModesOf(m)
  <2> SUFFICES ASSUME NEW m \in Due PROVE Mode("-", m) \in ModeSet /\ Mode("-", m) \in ModesOf(m)
    OBVIOUS
  <2>1. m \in Mask
    BY <1>s
  <2> QED BY <2>1, <1>s, ModeIs, ModeShape
<1>4. IsFiniteSet(S)
  <2> DEFINE f == [m \in Due |-> Mode("-", m)]
  <2>1. IsFiniteSet(Due)
    BY <1>s, LinkSharingAssumption, FS_Subset
  <2>2. f \in Surjection(Due, S)
    BY DEF Surjection
  <2> QED BY <2>1, <2>2, FS_Surjection
<1>5. /\ SetToSeq(S) \in Seq(ModeSet)
      /\ \A T : Silent(SetToSeq(S), T) => S \cap T = {}
      /\ \A T : Newest(SetToSeq(S), T) \subseteq S \cap T
  <2> HIDE DEF S
  <2>1. /\ SetToSeq(S) \in Seq(S)
        /\ \A T : Silent(SetToSeq(S), T) => S \cap T = {}
        /\ \A T : Newest(SetToSeq(S), T) \subseteq S \cap T
    BY <1>4, SeqOfSet
  <2> QED BY <2>1, <1>3
<1>6. /\ out' \in Seq(ModeSet)
      /\ \A T : Silent(out', T) => Silent(out, T) /\ Silent(SetToSeq(S), T)
      /\ \A T : \A x \in Newest(out', T) :
           x \in Newest(SetToSeq(S), T) \/ (x \in Newest(out, T) /\ Silent(SetToSeq(S), T))
  <2> HIDE DEF S
  <2> QED BY <1>0, <1>5, <1>s, NewestOfConcat
<1>7. BansEnforced'
  <2> SUFFICES ASSUME NEW k \in Mask \ drift'
               PROVE  /\ Silent(out', ModesOf(k)) => (k \in banned <=> Known(k)')
                      /\ \A d \in Newest(out', ModesOf(k)) : d.had /\ (d.sign = "+" <=> Known(k)')
    BY <1>0 DEF BansEnforced, ModesOf
  <2>1. \A d \in S \cap ModesOf(k) : d.had /\ d.sign = "-" /\ k \in Due
    <3> SUFFICES ASSUME NEW m \in Due, Mode("-", m) \in ModesOf(k)
                 PROVE  Mode("-", m).had /\ Mode("-", m).sign = "-" /\ k \in Due
      OBVIOUS
    <3> QED BY <1>0 DEF Mode, ModesOf
  <2>2. CASE k \in Due
    <3>1. Mode("-", k) \in S \cap ModesOf(k)
      BY <2>2, <1>3
    <3>2. ~Silent(SetToSeq(S), ModesOf(k))
      BY <3>1, <1>5
    <3> HIDE DEF S
    <3>3. \A d \in Newest(out', ModesOf(k)) : d \in S \cap ModesOf(k)
      BY <3>2, <1>6, <1>5
    <3> QED BY <3>2, <3>3, <2>1, <2>2, <1>1, <1>6
  <2>3. CASE k \notin Due
    <3>1. S \cap ModesOf(k) = {}
      BY <2>1, <2>3
    <3>2. k \in Mask \ drift /\ (Known(k)' <=> Known(k))
      BY <2>3, <1>0, <1>1
    <3> HIDE DEF S
    <3>3. \A d \in Newest(out', ModesOf(k)) : d \in Newest(out, ModesOf(k))
      BY <3>1, <1>5, <1>6
    <3> QED BY <3>2, <3>3, <1>6, <1>s DEF BansEnforced
  <2> QED BY <2>2, <2>3
<1> QED BY <1>0, <1>1, <1>2, <1>6, <1>7, <1>s DEF SharingInv, Sorted, SharingHolds, SharingTypeOK, users

(* The oldest command is carried out or refused: a later one about the mask decides.   *)
LEMMA CarriedOutKeeps ==
    ASSUME SharingInv, CarriedOut PROVE SharingInv'
<1> DEFINE c == Head(out)
<1>0. UNCHANGED <<up, toLeaf, toHub, users, bans, shared, strayBans, ops>>
      /\ out # <<>> /\ out' = Tail(out)
  BY DEF CarriedOut
<1>s. /\ out \in Seq(ModeSet) /\ ops \in BOOLEAN /\ BansEnforced /\ banned \subseteq Mask
  BY DEF SharingInv, Sorted, SharingHolds, SharingTypeOK
<1>a. /\ \A T : /\ Silent(out', T) /\ c \notin T => Silent(out, T)
                /\ Silent(out', T) /\ c \in T => c \in Newest(out, T)
                /\ Newest(out', T) \subseteq Newest(out, T)
      /\ c \in ModeSet /\ out' \in Seq(ModeSet)
  BY <1>0, <1>s, NewestOfTail
<1>c. c.mask \in Mask /\ c.sign \in {"+", "-"} /\ c \in ModesOf(c.mask)
      /\ \A m : c \in ModesOf(m) => m = c.mask
  BY <1>a, ModeShape
<1>1. \/ /\ ops /\ drift' = drift
         /\ banned' = IF c.sign = "+" THEN banned \cup {c.mask} ELSE banned \ {c.mask}
      \/ /\ ~ops /\ banned' = banned
         /\ drift' = IF c.had THEN drift \cup {c.mask} ELSE drift
  BY <1>s DEF CarriedOut
<1>2. banned' \subseteq Mask
  BY <1>1, <1>s, <1>c
<1>3. BansEnforced'
  <2> SUFFICES ASSUME NEW k \in Mask \ drift'
               PROVE  /\ Silent(out', ModesOf(k)) => (k \in banned' <=> Known(k))
                      /\ \A d \in Newest(out', ModesOf(k)) : d.had /\ (d.sign = "+" <=> Known(k))
    BY <1>0 DEF BansEnforced, ModesOf, Known
  <2>1. k \in Mask \ drift
    BY <1>1
  <2>2. /\ Silent(out, ModesOf(k)) => (k \in banned <=> Known(k))
        /\ \A d \in Newest(out, ModesOf(k)) : d.had /\ (d.sign = "+" <=> Known(k))
    BY <2>1, <1>s DEF BansEnforced
  <2>3. ASSUME Silent(out', ModesOf(k)) PROVE k \in banned' <=> Known(k)
    <3>1. CASE k = c.mask
      <4>1. c.had /\ (c.sign = "+" <=> Known(k))
        BY <3>1, <2>2, <2>3, <1>a, <1>c
      <4> QED BY <3>1, <4>1, <1>1
    <3>2. CASE k # c.mask
      <4>1. k \in banned <=> Known(k)
        BY <3>2, <2>2, <2>3, <1>a, <1>c
      <4> QED BY <4>1, <3>2, <1>1
    <3> QED BY <3>1, <3>2
  <2> QED BY <2>2, <2>3, <1>a
<1>4. UsersFollow' /\ BansFollow'
  BY <1>0, AgreementStays DEF Known
<1> QED BY <1>0, <1>2, <1>3, <1>4, <1>a DEF SharingInv, Sorted, SharingHolds, SharingTypeOK, users

LEMMA OthersUnbanKeeps ==
    ASSUME SharingInv, OthersUnban PROVE SharingInv'
<1>0. UNCHANGED <<up, toLeaf, toHub, users, bans, shared, strayBans, ops>>
  BY DEF OthersUnban
<1>1. PICK m \in banned : banned' = banned \ {m} /\ SetAgain(m)
  BY DEF OthersUnban
<1>2. m \in Mask /\ banned' \subseteq Mask
  BY <1>1 DEF SharingInv, SharingHolds, SharingTypeOK
<1>3. UsersFollow' /\ BansFollow'
  BY <1>0, AgreementStays DEF Known
<1>4. out' \in Seq(ModeSet) /\ BansEnforced'
  <2>1. CASE Sticky(m) /\ ops
    <3>1. Send("+", m) /\ drift' = drift
      BY <1>1, <2>1 DEF SetAgain
    <3>2. Known(m)
      BY <2>1 DEF Sticky, Known, NoBan
    <3>3. banned' \ {m} = banned \ {m}
      BY <1>1
    <3>4. (Known(m)' <=> "+" = "+") /\ \A k \in Mask \ {m} : Known(k)' <=> Known(k)
      BY <3>2, <1>0 DEF Known
    <3> QED BY <3>1, <3>3, <3>4, <2>1, <1>2, SendKeeps
  <2>2. CASE ~(Sticky(m) /\ ops)
    <3>1. drift' = drift \cup {m} /\ out' = out
      BY <1>1, <2>2 DEF SetAgain
    <3>2. BansEnforced'
      <4> SUFFICES ASSUME NEW k \in Mask \ drift'
                   PROVE  /\ Silent(out, ModesOf(k)) => (k \in banned' <=> Known(k))
                          /\ \A d \in Newest(out, ModesOf(k)) : d.had /\ (d.sign = "+" <=> Known(k))
        BY <1>0, <3>1 DEF BansEnforced, ModesOf, Known
      <4>1. k \in Mask \ drift /\ (k \in banned' <=> k \in banned)
        BY <3>1, <1>1
      <4> QED BY <4>1 DEF SharingInv, SharingHolds, BansEnforced
    <3> QED BY <3>1, <3>2 DEF SharingInv, Sorted
  <2> QED BY <2>1, <2>2
<1> QED BY <1>0, <1>2, <1>3, <1>4 DEF SharingInv, Sorted, SharingHolds, SharingTypeOK, users

LEMMA OthersBanKeeps ==
    ASSUME SharingInv, OthersBan \/ OpsChange PROVE SharingInv'
<1>0. UNCHANGED <<up, toLeaf, toHub, users, bans, shared, strayBans, out>>
  BY DEF OthersBan, OpsChange
<1>1. ops' \in BOOLEAN /\ banned' \subseteq Mask
      /\ \A k \in Mask \ drift' : k \in Mask \ drift /\ (k \in banned' <=> k \in banned)
  <2>1. CASE OpsChange
    BY <2>1 DEF OpsChange, SharingInv, Sorted, SharingHolds, SharingTypeOK
  <2>2. CASE OthersBan
    BY <2>2 DEF OthersBan, SharingInv, Sorted, SharingHolds, SharingTypeOK
  <2> QED BY <2>1, <2>2
<1>2. UsersFollow' /\ BansFollow'
  BY <1>0, AgreementStays DEF Known
<1>3. BansEnforced'
  <2> SUFFICES ASSUME NEW k \in Mask \ drift'
               PROVE  /\ Silent(out, ModesOf(k)) => (k \in banned' <=> Known(k))
                      /\ \A d \in Newest(out, ModesOf(k)) : d.had /\ (d.sign = "+" <=> Known(k))
    BY <1>0 DEF BansEnforced, ModesOf, Known
  <2> QED BY <1>1 DEF SharingInv, SharingHolds, BansEnforced
<1> QED BY <1>0, <1>1, <1>2, <1>3 DEF SharingInv, Sorted, SharingHolds, SharingTypeOK, users

-----------------------------------------------------------------------------
(* What is shared: the inductive invariant                                 *)

(* Both bots start apart: nothing is said of any user, and no ban is known.        *)
THEOREM SharingInitial == Init => SharingInv
<1> SUFFICES ASSUME Init PROVE SharingInv
  OBVIOUS
<1>1. /\ up = FALSE /\ toLeaf = <<>> /\ toHub = <<>> /\ out = <<>> /\ ops = TRUE
      /\ hubUsers \in [Handle -> Value \cup {NoUser}] /\ leafUsers = [h \in Handle |-> NoUser]
      /\ strayUsers = Handle /\ bans = [m \in Mask |-> NoBan] /\ shared = {} /\ strayBans = {}
      /\ banned = {} /\ drift = {}
  BY DEF Init, SharingInit
<1>2. Sorted
  <2>1. bans \in [Mask -> [expires : {"no", "never", "later", "past"}, sticky : BOOLEAN]]
    BY <1>1, NoBanIs
  <2>2. /\ toLeaf \in Seq(Commands \cup BanFrameSet) /\ toHub \in Seq(Commands)
        /\ out \in Seq(ModeSet)
    BY <1>1
  <2> QED BY <1>1, <2>1, <2>2 DEF Sorted
<1>3. SharingTypeOK
  BY <1>1 DEF SharingTypeOK
<1>4. \A m \in Mask : ~Known(m)
  BY <1>1 DEF Known
<1>5. UsersFollow /\ BansFollow /\ BansEnforced
  BY <1>1, <1>4, NewestOfNone DEF UsersFollow, BansFollow, BansEnforced
<1> QED BY <1>2, <1>3, <1>5 DEF SharingInv, SharingHolds

LEMMA SharingStands ==
    ASSUME SharingInv, UNCHANGED sharingVars PROVE SharingInv'
<1>1. UNCHANGED <<up, toLeaf, toHub, hubUsers, leafUsers, bans, shared, ops, banned, out, changes,
                  strayUsers, strayBans, drift>>
  BY DEF sharingVars
<1>2. Sorted'
  BY <1>1 DEF SharingInv, Sorted
<1>3. SharingTypeOK' /\ UsersFollow' /\ BansFollow' /\ BansEnforced'
  BY <1>1 DEF SharingInv, SharingHolds, SharingTypeOK, UsersFollow, BansFollow, BansEnforced, Known
<1> QED BY <1>2, <1>3 DEF SharingInv, SharingHolds

(* Every step of the composition keeps it, whatever the door does.           *)
THEOREM SharingInductive == SharingInv /\ [Next]_entryVars => SharingInv'
<1> SUFFICES ASSUME SharingInv, [Next]_entryVars PROVE SharingInv'
  OBVIOUS
<1>1. CASE UNCHANGED entryVars
  <2>1. UNCHANGED sharingVars
    BY <1>1 DEF entryVars
  <2> QED BY <2>1, SharingStands
<1>2. CASE UNCHANGED sharingVars
  BY <1>2, SharingStands
<1>3. ASSUME NEW c \in Conn, NEW ip \in Ip, Arrives(c, ip) PROVE SharingInv'
  BY <1>3, <1>2 DEF Arrives
<1>4. ASSUME NEW c \in Conn, Enters(c) PROVE SharingInv'
  BY <1>4, LinkUpKeeps DEF Enters
<1>u. ASSUME Unregisters PROVE SharingInv'
  BY <1>u, <1>2, LinkDownKeeps DEF Unregisters
<1>5. ASSUME NEW c \in Conn, Leaves(c) PROVE SharingInv'
  BY <1>5, <1>2, <1>u DEF Leaves
<1>d. ASSUME HubHeartbeat \/ DisconnectLeaf PROVE SharingInv'
  BY <1>d, <1>u DEF HubHeartbeat, DisconnectLeaf
<1>6. ASSUME LeafComesBack PROVE SharingInv'
  BY <1>6, LinkDownKeeps DEF LeafComesBack
<1>7. ASSUME HubComesBack PROVE SharingInv'
  BY <1>7, HubCrashKeeps DEF HubComesBack
<1>8. ASSUME HubCommand \/ LeafCommand \/ HubReceives PROVE SharingInv'
  BY <1>8, HubCommandKeeps, LeafCommandKeeps, HubReceivesKeeps
<1>9. ASSUME BanCommand \/ BanEnds \/ LiftExpiredBans \/ CarriedOut \/ OthersUnban \/ OthersBan \/ OpsChange
      PROVE  SharingInv'
  BY <1>9, BanCommandKeeps, BanEndsKeeps, LiftExpiredBansKeeps, CarriedOutKeeps, OthersUnbanKeeps, OthersBanKeeps
<1>10. ASSUME LeafReceives PROVE SharingInv'
  BY <1>10, LeafReceivesKeeps
<1>11. CASE Next
  BY <1>11, <1>2, <1>3, <1>4, <1>5, <1>d, <1>6, <1>7, <1>8, <1>9, <1>10 DEF Next, AtDoor, Inside
<1> QED BY <1>1, <1>11

(* Once what is under way has been read and carried out, the leaf knows each user *)
(* as the hub does, its list of shared bans is the hub's list, and the channel bans *)
(* the masks of that list, but for what the code itself lets stray               *)
(* (PermissionSyncer, BanListSyncer, ban-commands.ts, sticky.ts).             *)
THEOREM SharingAlways == Spec => []SharingHolds
<1>1. SharingInv => SharingHolds
  BY DEF SharingInv
<1> QED BY <1>1, SharingInitial, SharingInductive, PTL DEF Spec
=============================================================================
