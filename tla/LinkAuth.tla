------------------------------ MODULE LinkAuth ------------------------------
(* Who may begin a handshake with the hub, and what becomes of it
   (BotLinkAuthManager in botlink-auth.ts, handleConnection and handleHello in
   botlink-hub.ts): bans of single addresses and of ranges, failures counted in a
   window, bans that double, the limit of handshakes under way per address, and the
   database that keeps the bans of the operators over a restart.

   The clock is the hub's; the durations are in its ticks.                     *)
EXTENDS Naturals, FiniteSets

CONSTANTS
  Ip,            \* remote addresses
  Whitelist,     \* those in auth_ip_whitelist
  Cidr,         \* CIDR ranges operators ban
  InRange(_),    \* the addresses of a range
  Conn,          \* connections open at the same time
  MaxPending,    \* max_pending_handshakes
  MaxFailures,   \* max_auth_failures
  FailureWindow, \* auth_window_ms
  BaseBan,       \* auth_ban_duration_ms
  MaxBan,        \* MAX_BAN_MS, also ESCALATED_STALE_MS: 24 h
  MaxRanges,     \* MAX_CIDR_BANS
  MaxOrders,     \* bound: commands of operators and restarts
  MaxNow         \* bound of the clock

ASSUME LinkAuthAssumption ==
  /\ IsFiniteSet(Conn) /\ Ip # {} /\ Ip \cap Cidr = {} /\ Whitelist \subseteq Ip
  /\ {MaxPending, MaxFailures, BaseBan, MaxBan, MaxNow} \subseteq Nat \ {0}
  /\ {FailureWindow, MaxRanges, MaxOrders} \subseteq Nat

VARIABLES
  dual,      \* the socket reports an address as ::ffff:a.b.c.d; operators write a.b.c.d
  now,       \* Date.now()
  conns,     \* the hub's end of each connection
  pending,   \* pendingHandshakes: slots taken per address
  tracker,   \* authTracker
  ranges,    \* manualCidrBans
  store,     \* linkBanStore, of addresses and ranges
  orders,    \* commands so far
  doubled,   \* history: addresses a slot of which was released twice
  loosened   \* history: banned addresses and ranges whose ban in the store is not in force
authVars == <<dual, now, conns, pending, tracker, ranges, store, orders, doubled, loosened>>

----------------------------------------------------------------------------
Forever == MaxNow + MaxBan + 1     \* Number.MAX_SAFE_INTEGER
Permanent == 0                     \* bannedUntil of a permanent ban in the store
Row(until) == [until |-> until, at |-> now]
RangeRow(until) == [until |-> until, at |-> 1]     \* when a range was banned nobody reads
NoRow == [until |-> Permanent, at |-> 0]
Lifted(row) == row.until # Permanent /\ row.until <= now
InForce(until) == IF until = Permanent THEN Forever ELSE until
NoTracker == [failures |-> 0, first |-> 0, until |-> 0, count |-> 0, kept |-> FALSE]
NewTracker(at) == [failures |-> 0, first |-> at, until |-> 0, count |-> 0, kept |-> TRUE]
Tracked(ip, at) == IF tracker[ip].kept THEN tracker[ip] ELSE NewTracker(at)
Idle == [st |-> "free", ip |-> CHOOSE ip \in Ip : TRUE]

\* A connection of which the HELLO has been answered: its address matters no more.
Answered(st) == [Idle EXCEPT !.st = st]

\* A connection: pending until its HELLO; shut when the hub has closed it before
\* that and the close event is to come; in when it was accepted; done when it was
\* refused, or when the hub has let go of the connection.
Open(ip) == {c \in Conn : conns[c].st = "pending" /\ conns[c].ip = ip}

AuthInit ==
  /\ dual \in BOOLEAN /\ now = 1 /\ conns = [c \in Conn |-> Idle]
  /\ pending = [ip \in Ip |-> 0] /\ tracker = [ip \in Ip |-> NoTracker]
  /\ ranges = [r \in Cidr |-> NoRow] /\ store = [x \in Ip \cup Cidr |-> NoRow]
  /\ orders = 0 /\ doubled = {} /\ loosened = {}

----------------------------------------------------------------------------
\* sweepStaleTrackers, at every admission.
Stale(t) ==
  /\ t.until < now /\ now - t.first > FailureWindow
  /\ t.count = 0 \/ now - t.until > MaxBan
\* mutant: the failure window alone decides.
SweptByWindow ==
  [ip \in Ip |-> IF tracker[ip].kept /\ now - tracker[ip].first > FailureWindow
                 THEN NoTracker ELSE tracker[ip]]
Swept == [ip \in Ip |-> IF tracker[ip].kept /\ Stale(tracker[ip]) THEN NoTracker ELSE tracker[ip]]

Banned(ip) == Swept[ip].until > now
RangeBanned(ip) ==
  \E r \in Cidr : ip \in InRange(r) /\ ranges[r] # NoRow /\ ~Lifted(ranges[r])
Admitted(ip) ==
  ip \in Whitelist \/ (~Banned(ip) /\ ~RangeBanned(ip) /\ pending[ip] < MaxPending)

Admit(c, ip) ==
  /\ conns[c].st = "free"
  /\ tracker' = Swept
  /\ ranges' = [r \in Cidr |-> IF Lifted(ranges[r]) THEN NoRow ELSE ranges[r]]
  /\ store' = [x \in DOMAIN store |->
                 IF x \in Cidr /\ Lifted(ranges[x]) THEN NoRow ELSE store[x]]
  /\ IF Admitted(ip)
     THEN /\ conns' = [conns EXCEPT ![c] = [st |-> "pending", ip |-> ip]]
          /\ pending' = [pending EXCEPT ![ip] = IF ip \in Whitelist THEN @ ELSE @ + 1]
     ELSE UNCHANGED <<conns, pending>>
  /\ UNCHANGED <<dual, now, orders, doubled, loosened>>

ReleasePending(ip) ==
  pending' = [pending EXCEPT ![ip] = IF ip \in Whitelist \/ @ = 0 THEN @ ELSE @ - 1]

\* The timer, or a first frame that is not HELLO: the hub closes the connection
\* and gives the slot back; the close event will give one back again.
Shut(c) ==
  /\ conns[c].st = "pending"
  /\ conns' = [conns EXCEPT ![c].st = "shut"]
  /\ ReleasePending(conns[c].ip)
  /\ UNCHANGED <<dual, now, tracker, ranges, store, orders, doubled, loosened>>

CloseEvent(c) ==
  /\ conns[c].st # "free"
  /\ conns' = [conns EXCEPT ![c] = Idle]
  /\ IF conns[c].st \in {"pending", "shut"} THEN ReleasePending(conns[c].ip)
                                            ELSE UNCHANGED pending
  /\ doubled' = IF conns[c].st = "shut" THEN doubled \cup {conns[c].ip} ELSE doubled
  /\ UNCHANGED <<dual, now, orders, tracker, ranges, store, loosened>>

\* The n-th ban lasts twice as long as the one before, at most MaxBan.
Capped(length) == IF length \in 0 .. MaxBan THEN length ELSE MaxBan
BanLength(t) == Capped(BaseBan * 2 ^ t.count)
NoteFailure(ip) ==
  LET t == Tracked(ip, now)
      fresh == IF now - t.first > FailureWindow THEN [t EXCEPT !.failures = 0, !.first = now] ELSE t
      f == fresh.failures + 1
  IN  IF f < MaxFailures THEN [fresh EXCEPT !.failures = f]
      ELSE [fresh EXCEPT !.failures = 0, !.until = now + BanLength(t), !.count = @ + 1]

\* An automatic ban takes the place of whatever ban the tracker held.
BadPassword(c) ==
  LET ip == conns[c].ip IN
  /\ conns[c].st = "pending"
  /\ conns' = [conns EXCEPT ![c] = Answered("done")]
  /\ ReleasePending(ip)
  /\ tracker' = IF ip \in Whitelist THEN tracker ELSE [tracker EXCEPT ![ip] = NoteFailure(ip)]
  /\ loosened' = IF tracker'[ip].until < tracker[ip].until THEN loosened \cup {ip} ELSE loosened
  /\ UNCHANGED <<dual, now, orders, ranges, store, doubled>>

\* The right password, but no name, a name that is linked, or a full hub.
Refused(c) ==
  /\ conns[c].st = "pending"
  /\ conns' = [conns EXCEPT ![c] = Answered("done")]
  /\ ReleasePending(conns[c].ip)
  /\ UNCHANGED <<dual, now, tracker, ranges, store, orders, doubled, loosened>>

Accepted(c) ==
  LET ip == conns[c].ip IN
  /\ conns[c].st = "pending"
  /\ conns' = [conns EXCEPT ![c] = Answered("in")]
  /\ ReleasePending(ip)
  /\ tracker' = [tracker EXCEPT ![ip].failures = IF ip \in Whitelist THEN @ ELSE 0]
  /\ UNCHANGED <<dual, now, ranges, store, orders, doubled, loosened>>

\* disconnectLeaf: the hub takes back onClose, so that the close event does nothing.
LetGo(c) ==
  /\ conns[c].st = "in"
  /\ conns' = [conns EXCEPT ![c] = Answered("done")]
  /\ UNCHANGED <<dual, now, pending, tracker, ranges, store, orders, doubled, loosened>>

----------------------------------------------------------------------------
(* Operators *)

Order == orders < MaxOrders /\ orders' = orders + 1
Until(duration) == IF duration = 0 THEN Permanent ELSE now + duration

\* What is written for an address goes to the tracker of the dotted form.
ManualBan(ip, duration) ==
  /\ Order
  /\ store' = [store EXCEPT ![ip] = Row(Until(duration))]
  /\ tracker' = IF dual THEN tracker
                ELSE [tracker EXCEPT ![ip] = [Tracked(ip, now) EXCEPT !.until = InForce(Until(duration))]]
  /\ loosened' = IF dual THEN loosened \cup {ip} ELSE loosened \ {ip}
  /\ UNCHANGED <<dual, now, conns, pending, ranges, doubled>>

\* At the limit a new range is written to the database only.
ManualRangeBan(r, duration) ==
  LET full == ranges[r] = NoRow /\ Cardinality({x \in Cidr : ranges[x] # NoRow}) >= MaxRanges IN
  /\ Order
  /\ store' = [store EXCEPT ![r] = RangeRow(Until(duration))]
  /\ ranges' = IF full THEN ranges ELSE [ranges EXCEPT ![r] = RangeRow(Until(duration))]
  /\ loosened' = IF full THEN loosened \cup {r} ELSE loosened \ {r}
  /\ UNCHANGED <<dual, now, conns, pending, tracker, doubled>>

\* seen: the address as a dual-stack socket reports it, which .botlink unban takes too.
Unban(x, seen) ==
  /\ Order /\ (seen => dual /\ x \in Ip)
  /\ store' = IF seen THEN store ELSE [store EXCEPT ![x] = NoRow]
  /\ tracker' = IF x \in Ip /\ (seen \/ ~dual) THEN [tracker EXCEPT ![x] = NoTracker] ELSE tracker
  /\ ranges' = IF x \in Cidr THEN [ranges EXCEPT ![x] = NoRow] ELSE ranges
  /\ loosened' = IF store'[x] = NoRow THEN loosened \ {x} ELSE loosened
  /\ UNCHANGED <<dual, now, conns, pending, doubled>>

\* The hub's process ends and comes back: only what operators wrote is left.
HubRestart ==
  /\ Order
  /\ conns' = [c \in Conn |-> Idle] /\ pending' = [ip \in Ip |-> 0]
  /\ tracker' = [ip \in Ip |->
       IF ~dual /\ store[ip] # NoRow /\ ~Lifted(store[ip])
       THEN [NewTracker(store[ip].at) EXCEPT !.until = InForce(store[ip].until)] ELSE NoTracker]
  /\ ranges' = [r \in Cidr |-> IF Lifted(store[r]) THEN NoRow ELSE store[r]]
  /\ doubled' = {} /\ loosened' = IF dual THEN loosened \cap Ip ELSE {}
  /\ UNCHANGED <<dual, now, store>>

Tick ==
  /\ now < MaxNow /\ now' = now + 1
  /\ UNCHANGED <<dual, conns, pending, tracker, ranges, store, orders, doubled, loosened>>

----------------------------------------------------------------------------
Trackers == [failures : 0 .. MaxFailures - 1, first : Nat, until : Nat, count : Nat, kept : BOOLEAN]
Rows == [until : Nat, at : Nat]

AuthTypeOK ==
  /\ dual \in BOOLEAN /\ now \in 1 .. MaxNow
  /\ conns \in [Conn -> [st : {"free", "pending", "shut", "done", "in"}, ip : Ip]]
  /\ pending \in [Ip -> 0 .. MaxPending] /\ tracker \in [Ip -> Trackers]
  /\ ranges \in [Cidr -> Rows] /\ store \in [Ip \cup Cidr -> Rows]
  /\ doubled \subseteq Ip /\ loosened \subseteq Ip \cup Cidr

\* An address never holds more slots than it has handshakes under way, and as long
\* as no slot of it was released twice exactly as many: nobody is locked out by
\* connections that are gone.
SlotsCounted ==
  \A ip \in Ip \ Whitelist :
    /\ pending[ip] <= Cardinality(Open(ip))
    /\ \/ pending[ip] = Cardinality(Open(ip))
       \/ ip \in doubled \/ \E c \in Conn : conns[c] = [st |-> "shut", ip |-> ip]

\* A ban an operator wrote is in force until it ends, a restart included, but for
\* the three ways the code loosens one: an automatic ban over it, an address written
\* in another form than the socket's, more ranges than the limit.
BansHold ==
  \A x \in (Ip \cup Cidr) \ loosened : store[x] # NoRow /\ ~Lifted(store[x]) =>
    \A ip \in (IF x \in Ip THEN {x} ELSE InRange(x)) \ Whitelist : ~Admitted(ip)

AuthHolds == AuthTypeOK /\ SlotsCounted /\ BansHold
==============================================================================
