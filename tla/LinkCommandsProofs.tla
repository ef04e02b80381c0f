-------------------------- MODULE LinkCommandsProofs --------------------------
(***************************************************************************)
(* Proofs about LinkCommands, for every set of leaves, any number of         *)
(* requests, sessions, lost links and restarts.                              *)
(***************************************************************************)
EXTENDS LinkCommands, SequenceTheorems, TLAPS

USE ConstantsAssumption

(* What the theorems about answers take for granted: .bot routes commands for *)
(* the users of one leaf at most.  References of two leaves may be the same,   *)
(* and the hub keeps one route for each reference.                           *)
OneAsker == \A a, b \in Routed : a = b

-----------------------------------------------------------------------------
(* Frames and what carries them                                             *)

Id == Bot \X Nat \X Nat
Ref == {"", "hubcmd:"} \X Nat
Frame ==
    [type : {"CMD"}, ref : Ref, id : Id, to : Bot]
        \cup [type : {"CMD_RESULT", "PARTY_WHOM", "PARTY_WHOM_REPLY"}, ref : Ref, id : Id]
        \cup [type : {"PARTY_JOIN", "PARTY_PART"}]

(* A request, a command or an answer has the reference its bot gave it, in    *)
(* this life of the bot or an earlier one; rs says how often each restarted.  *)
Named(x, rs) ==
    /\ x.id \in Id /\ x.ref = RefOf(x.id[1], x.id[2])
    /\ x.id[3] <= rs[x.id[1]]

Asks(b) == b = Hub \/ b \in Routed
SessionNews(f) == f.type \in {"PARTY_JOIN", "PARTY_PART"}

(* The frames a leaf may send and those it may get.                          *)
Upward(rs) ==
    [l \in Leaf |-> {f \in Frame :
        \/ SessionNews(f)
        \/ /\ f.type \in {"CMD", "PARTY_WHOM"} /\ Named(f, rs) /\ f.id[1] = l
           /\ f.type = "CMD" /\ f.to # Hub => f.to \in Leaf /\ l \in Routed
        \/ f.type = "CMD_RESULT" /\ Named(f, rs) /\ Asks(f.id[1])}]
Downward(rs) ==
    [l \in Leaf |-> {f \in Frame :
        \/ f.type = "CMD" /\ Named(f, rs) /\ Asks(f.id[1])
        \/ f.type \in {"CMD_RESULT", "PARTY_WHOM_REPLY"} /\ Named(f, rs)
           /\ (OneAsker => f.id[1] = l)}]

(* The commands a bot may be executing, and the requests it may wait for.    *)
Jobs(b, rs) ==
    {cmd \in [from : Bot, req : Frame] :
        /\ cmd.req.type = "CMD" /\ Named(cmd.req, rs)
        /\ IF b = Hub THEN cmd.from \in Leaf /\ cmd.req.id[1] = cmd.from
                      ELSE cmd.from = Hub /\ Asks(cmd.req.id[1])}
Requests(b, n, k) == {[ref |-> RefOf(b, i), id |-> <<b, i, k>>] : i \in 1..n}

Carries(ch, S) == ch \in [Leaf -> Seq(Frame)] /\ \A l \in Leaf : ch[l] \in Seq(S[l])

Types ==
    /\ leafUp \in [Leaf -> BOOLEAN] /\ hubUp \in [Leaf -> BOOLEAN]
    /\ Carries(toHub, Upward(restarts)) /\ Carries(toLeaf, Downward(restarts))
    /\ counter \in [Bot -> Nat] /\ restarts \in [Bot -> Nat]
    /\ pending \in [Bot -> SUBSET [ref : Ref, id : Id]]
    /\ \A b \in Bot : pending[b] \subseteq Requests(b, counter[b], restarts[b])
    /\ running \in [Bot -> SUBSET [from : Bot, req : Frame]]
    /\ \A b \in Bot : running[b] \subseteq Jobs(b, restarts)
    /\ cmdRoutes \subseteq [ref : {""} \X Nat, origin : Routed]
    /\ \A r, s \in cmdRoutes : r.ref = s.ref => r = s
    /\ party \subseteq Leaf
    /\ sessions \in [Leaf -> Nat] /\ \A l \in Leaf : sessions[l] <= MaxSessions[l]
    /\ faults \in Nat

(* The hub's list and the news on their way to it: a JOIN is followed by the   *)
(* PART of a session that is gone.                                           *)
PartFollows(ch, n) ==
    \A i \in 1..Len(ch) : ch[i].type = "PARTY_JOIN" =>
        n > 0 \/ \E j \in 1..Len(ch) : j > i /\ ch[j] = Notice("PARTY_PART")
Listed ==
    /\ \A l \in party :
        /\ hubUp[l]
        /\ leafUp[l] => sessions[l] > 0 \/ Notice("PARTY_PART") \in Range(toHub[l])
    /\ \A l \in Leaf : leafUp[l] /\ hubUp[l] => PartFollows(toHub[l], sessions[l])

(* As long as there was no fault both sides of a link agree that it is there,  *)
(* a leaf without a link is idle, and nothing is forgotten.                   *)
Faultless ==
    faults = 0 =>
        /\ leafUp = hubUp
        /\ \A b \in Bot : restarts[b] = 0
        /\ \A l \in Leaf : ~leafUp[l] =>
            pending[l] = {} /\ running[l] = {} /\ toHub[l] = <<>> /\ toLeaf[l] = <<>>

IInv == Types /\ Listed /\ Faultless /\ NotForgotten

-----------------------------------------------------------------------------
(* Channels                                                                 *)

LEMMA BotsAndLeaves ==
    /\ Hub \in Bot /\ Hub \notin Leaf /\ Leaf \subseteq Bot /\ Routed \subseteq Leaf
    /\ \A b \in Bot : b # Hub => b \in Leaf
    /\ \A b \in Bot : Asks(b) => b = Hub \/ (b \in Leaf /\ b \in Routed)
  BY DEF Bot, Asks

(* What a channel carries after a frame is sent and after one is read.        *)
LEMMA RangeAppend ==
    ASSUME NEW ch \in Seq(Frame), NEW f \in Frame
    PROVE  Range(Append(ch, f)) = Range(ch) \cup {f}
<1>1. /\ Append(ch, f) \in Seq(Frame) /\ Len(Append(ch, f)) = Len(ch) + 1 /\ Len(ch) \in Nat
      /\ \A i \in 1..Len(ch) : Append(ch, f)[i] = ch[i]
      /\ Append(ch, f)[Len(ch) + 1] = f
  BY AppendProperties, LenProperties
<1>2. /\ 1..Len(Append(ch, f)) = 1..Len(ch) \cup {Len(ch) + 1}
      /\ DOMAIN ch = 1..Len(ch) /\ DOMAIN Append(ch, f) = 1..Len(Append(ch, f))
  BY <1>1, LenProperties
<1>3. ASSUME NEW x PROVE x \in Range(Append(ch, f)) <=> x \in Range(ch) \cup {f}
  <2>1. x \in Range(Append(ch, f)) <=> \E i \in 1..Len(ch) \cup {Len(ch) + 1} : x = Append(ch, f)[i]
    BY <1>2 DEF Range
  <2>2. x \in Range(ch) <=> \E i \in 1..Len(ch) : x = ch[i]
    BY <1>2 DEF Range
  <2> QED BY <2>1, <2>2, <1>1
<1> QED BY <1>3, Zenon

LEMMA RangeTail ==
    ASSUME NEW ch \in Seq(Frame), ch # <<>>
    PROVE  Range(ch) = {Head(ch)} \cup Range(Tail(ch))
<1>1. /\ Tail(ch) \in Seq(Frame) /\ Len(Tail(ch)) = Len(ch) - 1 /\ Len(ch) \in Nat /\ Len(ch) > 0
      /\ Head(ch) = ch[1]
      /\ \A i \in 1..Len(Tail(ch)) : Tail(ch)[i] = ch[i + 1]
  BY HeadTailProperties, EmptySeq, LenProperties
<1>2. DOMAIN ch = 1..Len(ch) /\ DOMAIN Tail(ch) = 1..Len(Tail(ch))
  BY <1>1, LenProperties
<1>3. /\ \A x : x \in Range(ch) <=> \E i \in 1..Len(ch) : x = ch[i]
      /\ \A x : x \in Range(Tail(ch)) <=> \E i \in 1..Len(Tail(ch)) : x = Tail(ch)[i]
  BY <1>2 DEF Range
<1>4. \A i \in 1..Len(ch) : i = 1 \/ (i - 1 \in 1..Len(Tail(ch)) /\ (i - 1) + 1 = i)
  BY <1>1
<1>5. 1 \in 1..Len(ch) /\ \A i \in 1..Len(Tail(ch)) : i + 1 \in 1..Len(ch)
  BY <1>1
<1>6. ASSUME NEW x \in Range(ch) PROVE x \in {Head(ch)} \cup Range(Tail(ch))
  <2>1. PICK i \in 1..Len(ch) : x = ch[i]
    BY <1>3
  <2>2. i # 1 => i - 1 \in 1..Len(Tail(ch)) /\ Tail(ch)[i - 1] = x
    BY <2>1, <1>1, <1>4
  <2> QED BY <2>1, <2>2, <1>1, <1>3
<1>7. ASSUME NEW x \in {Head(ch)} \cup Range(Tail(ch)) PROVE x \in Range(ch)
  <2>1. x = Head(ch) => x \in Range(ch)
    BY <1>1, <1>3, <1>5
  <2>2. ASSUME x \in Range(Tail(ch)) PROVE x \in Range(ch)
    <3>1. PICK i \in 1..Len(Tail(ch)) : x = Tail(ch)[i]
      BY <2>2, <1>3
    <3>2. i + 1 \in 1..Len(ch) /\ x = ch[i + 1]
      BY <3>1, <1>1, <1>5
    <3> QED BY <3>2, <1>3
  <2> QED BY <2>1, <2>2
<1> QED BY <1>6, <1>7

LEMMA CarriedFrames ==
    ASSUME NEW S, NEW ch, Carries(ch, S), NEW l \in Leaf
    PROVE  /\ Range(ch[l]) \subseteq S[l] /\ Range(ch[l]) \subseteq Frame
           /\ ch[l] \in Seq(Frame) /\ ch[l] \in Seq(S[l])
<1>1. ch[l] \in Seq(Frame) /\ ch[l] \in Seq(S[l])
  BY DEF Carries
<1>2. DOMAIN ch[l] = 1..Len(ch[l])
  BY <1>1, LenProperties
<1>3. \A i \in 1..Len(ch[l]) : ch[l][i] \in S[l] /\ ch[l][i] \in Frame
  BY <1>1, ElementOfSeq
<1> QED BY <1>1, <1>2, <1>3 DEF Range

LEMMA SendsCarry ==
    ASSUME NEW S, NEW ch, Carries(ch, S), NEW f \in Frame, NEW b,
           b \in Leaf => f \in S[b]
    PROVE  /\ Carries(HubSends(ch, b, f), S)
           /\ b \in Leaf => Carries(LeafSends(ch, b, f), S)
           /\ b \in Leaf => LeafSends(ch, b, f) = HubSends(ch, b, f)
           /\ \A c \in Leaf : /\ HubSends(ch, b, f)[c] =
                                    IF c = b /\ leafUp[c] /\ hubUp[c] THEN Append(ch[c], f) ELSE ch[c]
                              /\ Range(HubSends(ch, b, f)[c]) =
                                    IF c = b /\ leafUp[c] /\ hubUp[c] THEN Range(ch[c]) \cup {f}
                                    ELSE Range(ch[c])
<1>1. \A c \in Leaf : ch[c] \in Seq(Frame) /\ ch[c] \in Seq(S[c])
  BY CarriedFrames
<1>2. ch \in [Leaf -> Seq(Frame)]
  BY DEF Carries
<1>3. \A c \in Leaf : HubSends(ch, b, f)[c] =
          IF c = b /\ leafUp[c] /\ hubUp[c] THEN Append(ch[c], f) ELSE ch[c]
  BY <1>2 DEF HubSends
<1>4. HubSends(ch, b, f) \in [Leaf -> Seq(Frame)]
  <2>1. \A c \in Leaf : Append(ch[c], f) \in Seq(Frame)
    BY <1>1, AppendProperties
  <2> QED BY <2>1, <1>2 DEF HubSends
<1>5. \A c \in Leaf : c = b => Append(ch[c], f) \in Seq(S[c])
  BY <1>1, AppendProperties
<1>6. Carries(HubSends(ch, b, f), S)
  BY <1>1, <1>3, <1>4, <1>5 DEF Carries
<1>7. b \in Leaf => LeafSends(ch, b, f) = HubSends(ch, b, f)
  BY DEF LeafSends, HubSends
<1>8. \A c \in Leaf : Range(Append(ch[c], f)) = Range(ch[c]) \cup {f}
  BY <1>1, RangeAppend
<1> QED BY <1>3, <1>6, <1>7, <1>8

LEMMA ReadsCarry ==
    ASSUME NEW S, NEW ch, Carries(ch, S), NEW l \in Leaf, ch[l] # <<>>
    PROVE  /\ Carries(Take(ch, l), S)
           /\ Head(ch[l]) \in S[l] /\ Head(ch[l]) \in Frame
           /\ \A c \in Leaf : /\ Take(ch, l)[c] = IF c = l THEN Tail(ch[c]) ELSE ch[c]
                              /\ c # l => Range(Take(ch, l)[c]) = Range(ch[c])
           /\ Range(ch[l]) = {Head(ch[l])} \cup Range(Take(ch, l)[l])
<1>1. \A c \in Leaf : ch[c] \in Seq(Frame) /\ ch[c] \in Seq(S[c])
  BY CarriedFrames
<1>2. ch \in [Leaf -> Seq(Frame)]
  BY DEF Carries
<1>3. Tail(ch[l]) \in Seq(Frame) /\ Head(ch[l]) \in Frame
  BY <1>1, HeadTailProperties
<1>4. Tail(ch[l]) \in Seq(S[l]) /\ Head(ch[l]) \in S[l]
  BY <1>1, HeadTailProperties
<1>5. /\ Take(ch, l) \in [Leaf -> Seq(Frame)]
      /\ \A c \in Leaf : Take(ch, l)[c] = IF c = l THEN Tail(ch[c]) ELSE ch[c]
  BY <1>2, <1>3 DEF Take
<1>6. Range(ch[l]) = {Head(ch[l])} \cup Range(Tail(ch[l]))
  BY <1>1, RangeTail
<1> QED BY <1>1, <1>3, <1>4, <1>5, <1>6 DEF Carries

LEMMA EmptiedCarries ==
    ASSUME NEW S, NEW ch, Carries(ch, S), NEW l
    PROVE  /\ Carries([ch EXCEPT ![l] = <<>>], S)
           /\ Carries([c \in Leaf |-> <<>>], S)
<1>1. \A c \in Leaf : <<>> \in Seq(S[c]) /\ <<>> \in Seq(Frame)
  BY EmptySeq
<1> QED BY <1>1 DEF Carries

(* Restarts leave what was named before named.                               *)
LEMMA CarriesMore ==
    ASSUME NEW rs \in [Bot -> Nat], NEW more \in [Bot -> Nat], \A b \in Bot : rs[b] <= more[b]
    PROVE  /\ \A x : Named(x, rs) => Named(x, more)
           /\ \A b \in Bot : Jobs(b, rs) \subseteq Jobs(b, more)
           /\ \A ch : Carries(ch, Upward(rs)) => Carries(ch, Upward(more))
           /\ \A ch : Carries(ch, Downward(rs)) => Carries(ch, Downward(more))
<1>1. ASSUME NEW x, Named(x, rs) PROVE Named(x, more)
  <2>1. x.id[1] \in Bot /\ x.id[3] \in Nat
    BY <1>1 DEF Named, Id
  <2> QED BY <1>1, <2>1 DEF Named
<1>2. \A b \in Bot : Jobs(b, rs) \subseteq Jobs(b, more)
  BY <1>1, Zenon DEF Jobs
<1>3. ASSUME NEW l \in Leaf
      PROVE  Upward(rs)[l] \subseteq Upward(more)[l] /\ Downward(rs)[l] \subseteq Downward(more)[l]
  BY <1>1, Zenon DEF Upward, Downward
<1>4. \A l \in Leaf : /\ Seq(Upward(rs)[l]) \subseteq Seq(Upward(more)[l])
                      /\ Seq(Downward(rs)[l]) \subseteq Seq(Downward(more)[l])
  BY <1>3, SeqMonotonic
<1> QED BY <1>1, <1>2, <1>4, Zenon DEF Carries

-----------------------------------------------------------------------------
(* Types                                                                    *)

(* The frames made from a request, a command or an answer carry its name.     *)
LEMMA FramesNamed ==
    ASSUME NEW x, x.ref \in Ref, x.id \in Id
    PROVE  /\ \A to \in Bot : /\ Cmd(x, to) \in Frame /\ Cmd(x, to).type = "CMD" /\ Cmd(x, to).to = to
                             /\ Cmd(x, to).id = x.id /\ Cmd(x, to).ref = x.ref
           /\ \A f \in {Result(x), Whom(x), WhomReply(x)} :
                f \in Frame /\ f.id = x.id /\ f.ref = x.ref
           /\ Result(x).type = "CMD_RESULT" /\ Whom(x).type = "PARTY_WHOM"
           /\ WhomReply(x).type = "PARTY_WHOM_REPLY"
           /\ \A rs, f : f.id = x.id /\ f.ref = x.ref /\ Named(x, rs) => Named(f, rs)
  BY DEF Frame, Cmd, Result, Whom, WhomReply, Named

LEMMA FrameFields ==
    /\ \A f \in Frame : ~SessionNews(f) => f.ref \in Ref /\ f.id \in Id
    /\ \A f \in Frame : f.type = "CMD" => f.to \in Bot
    /\ \A f \in Frame : f.type \in {"CMD", "CMD_RESULT", "PARTY_WHOM", "PARTY_WHOM_REPLY",
                                   "PARTY_JOIN", "PARTY_PART"}
    /\ \A t \in {"PARTY_JOIN", "PARTY_PART"} : Notice(t) \in Frame /\ Notice(t).type = t
    /\ \A f \in Frame : SessionNews(f) => f = Notice(f.type)
  BY DEF Frame, SessionNews, Notice

LEMMA NewRequest ==
    ASSUME Types, NEW b \in Bot
    PROVE  /\ Request(b).ref \in Ref /\ Request(b).id \in Id
           /\ Request(b) \in [ref : Ref, id : Id]
           /\ Request(b).id = <<b, counter[b] + 1, restarts[b]>>
           /\ Named(Request(b), restarts) /\ Request(b).id[1] = b
           /\ Request(b) \in Requests(b, counter[b] + 1, restarts[b])
<1>1. counter[b] \in Nat /\ restarts[b] \in Nat
  BY DEF Types
<1>2. RefOf(b, counter[b] + 1) \in Ref
  <2>1. counter[b] + 1 \in Nat /\ (IF b = Hub THEN "hubcmd:" ELSE "") \in {"", "hubcmd:"}
    BY <1>1
  <2> QED BY <2>1 DEF RefOf, Ref
<1>3. <<b, counter[b] + 1, restarts[b]>> \in Id
  BY <1>1 DEF Id
<1>4. Request(b) \in Requests(b, counter[b] + 1, restarts[b])
  BY <1>1 DEF Request, Requests
<1> QED BY <1>1, <1>2, <1>3, <1>4 DEF Request, Named

LEMMA IssueTypes ==
    ASSUME Types, NEW b \in Bot, Issue(b, Request(b)), restarts' = restarts
    PROVE  /\ counter' \in [Bot -> Nat] /\ pending' \in [Bot -> SUBSET [ref : Ref, id : Id]]
           /\ \A c \in Bot : pending'[c] \subseteq Requests(c, counter'[c], restarts'[c])
<1>1. /\ counter' = [counter EXCEPT ![b] = @ + 1]
      /\ pending' = [pending EXCEPT ![b] = @ \cup {Request(b)}]
  BY DEF Issue
<1>2. /\ counter \in [Bot -> Nat] /\ pending \in [Bot -> SUBSET [ref : Ref, id : Id]]
      /\ \A c \in Bot : pending[c] \subseteq Requests(c, counter[c], restarts[c])
  BY DEF Types
<1>3. counter' \in [Bot -> Nat] /\ pending' \in [Bot -> SUBSET [ref : Ref, id : Id]]
  BY <1>1, <1>2, NewRequest
<1>4. Requests(b, counter[b], restarts[b]) \subseteq Requests(b, counter[b] + 1, restarts[b])
  <2>1. 1..counter[b] \subseteq 1..(counter[b] + 1)
    BY <1>2
  <2> QED BY <2>1 DEF Requests
<1>5. ASSUME NEW c \in Bot PROVE pending'[c] \subseteq Requests(c, counter'[c], restarts'[c])
  <2>1. CASE c = b
    BY <2>1, <1>1, <1>2, <1>4, NewRequest
  <2>2. CASE c # b
    BY <2>2, <1>1, <1>2
  <2> QED BY <2>1, <2>2
<1> QED BY <1>3, <1>5

LEMMA FewerPending ==
    ASSUME Types, NEW b \in Bot, NEW S, pending' = [pending EXCEPT ![b] = @ \ S],
           UNCHANGED <<counter, restarts>>
    PROVE  /\ pending' \in [Bot -> SUBSET [ref : Ref, id : Id]]
           /\ \A c \in Bot : pending'[c] \subseteq Requests(c, counter'[c], restarts'[c])
           /\ \A c \in Bot : pending'[c] \subseteq pending[c]
<1>1. \A c \in Bot : pending'[c] \subseteq pending[c]
  BY DEF Types
<1> QED BY <1>1 DEF Types

LEMMA TypesInit == Init => Types
<1> SUFFICES ASSUME Init PROVE Types
  OBVIOUS
<1>1. Carries(toHub, Upward(restarts)) /\ Carries(toLeaf, Downward(restarts))
  <2>1. \A S : <<>> \in Seq(S)
    BY EmptySeq
  <2> QED BY <2>1 DEF Init, LinkInit, Carries
<1> QED BY <1>1 DEF Init, LinkInit, Types

(* What is on its way where, by the leaf that reads or is read.              *)
LEMMA UpwardFrame ==
    ASSUME NEW l \in Leaf, NEW f \in Upward(restarts)[l]
    PROVE  /\ f \in Frame /\ (~SessionNews(f) => f.ref \in Ref /\ f.id \in Id /\ Named(f, restarts))
           /\ f.type = "CMD" => f.id[1] = l /\ f.to \in Bot
           /\ f.type = "CMD" /\ f.to # Hub => f.to \in Leaf /\ l \in Routed
           /\ f.type = "CMD_RESULT" => Asks(f.id[1])
           /\ f.type = "PARTY_WHOM" => f.id[1] = l
           /\ f.type # "PARTY_WHOM_REPLY"
<1>1. f \in Frame
  BY DEF Upward
<1> QED BY <1>1, FrameFields DEF Upward, SessionNews

LEMMA DownwardFrame ==
    ASSUME NEW l \in Leaf, NEW f \in Downward(restarts)[l]
    PROVE  /\ f \in Frame /\ f.ref \in Ref /\ f.id \in Id /\ Named(f, restarts) /\ ~SessionNews(f)
           /\ f.type \in {"CMD", "CMD_RESULT", "PARTY_WHOM_REPLY"}
           /\ f.type = "CMD" => Asks(f.id[1])
           /\ f.type # "CMD" /\ OneAsker => f.id[1] = l
<1>1. f \in Frame
  BY DEF Downward
<1> QED BY <1>1, FrameFields DEF Downward, SessionNews

(* A leaf's reference is plain and the hub's is not.                          *)
LEMMA PlainRefs ==
    ASSUME NEW rs, NEW x, Named(x, rs)
    PROVE  /\ x.ref[1] = IF x.id[1] = Hub THEN "hubcmd:" ELSE ""
           /\ x.ref[2] = x.id[2]
<1> DEFINE kind == IF x.id[1] = Hub THEN "hubcmd:" ELSE ""
<1>1. x.ref = <<kind, x.id[2]>>
  BY DEF Named, RefOf
<1> HIDE DEF kind
<1>2. x.ref[1] = kind /\ x.ref[2] = x.id[2]
  BY <1>1
<1> QED BY <1>2 DEF kind

(* A route leads to the leaf whose request has the reference.                *)
LEMMA RouteLeads ==
    ASSUME Types, NEW r \in cmdRoutes, NEW x, Named(x, restarts), Asks(x.id[1]),
           r.ref = x.ref
    PROVE  r.origin \in Leaf /\ (OneAsker => r.origin = x.id[1])
<1>1. r \in [ref : {""} \X Nat, origin : Routed]
  BY DEF Types
<1>2. r.ref[1] = "" /\ r.origin \in Routed
  BY <1>1
<1>3. x.id[1] # Hub
  BY <1>2, PlainRefs
<1> QED BY <1>2, <1>3, BotsAndLeaves DEF OneAsker, Asks

LEMMA TypesStep == ASSUME Types, [Next]_vars PROVE Types'
<1> DEFINE U == Upward(restarts)
           D == Downward(restarts)
<1>a. /\ leafUp \in [Leaf -> BOOLEAN] /\ hubUp \in [Leaf -> BOOLEAN]
      /\ Carries(toHub, U) /\ Carries(toLeaf, D)
      /\ counter \in [Bot -> Nat] /\ restarts \in [Bot -> Nat]
      /\ pending \in [Bot -> SUBSET [ref : Ref, id : Id]]
      /\ \A b \in Bot : pending[b] \subseteq Requests(b, counter[b], restarts[b])
      /\ running \in [Bot -> SUBSET [from : Bot, req : Frame]]
      /\ \A b \in Bot : running[b] \subseteq Jobs(b, restarts)
      /\ cmdRoutes \subseteq [ref : {""} \X Nat, origin : Routed]
      /\ \A r, s \in cmdRoutes : r.ref = s.ref => r = s
      /\ party \subseteq Leaf
      /\ sessions \in [Leaf -> Nat] /\ \A l \in Leaf : sessions[l] <= MaxSessions[l]
      /\ faults \in Nat
  BY Zenon DEF Types
<1>b. ASSUME restarts' = restarts,
             leafUp' \in [Leaf -> BOOLEAN], hubUp' \in [Leaf -> BOOLEAN],
             Carries(toHub', U), Carries(toLeaf', D),
             counter' \in [Bot -> Nat], pending' \in [Bot -> SUBSET [ref : Ref, id : Id]],
             \A b \in Bot : pending'[b] \subseteq Requests(b, counter'[b], restarts'[b]),
             running' \in [Bot -> SUBSET [from : Bot, req : Frame]],
             \A b \in Bot : running'[b] \subseteq Jobs(b, restarts),
             cmdRoutes' \subseteq [ref : {""} \X Nat, origin : Routed],
             \A r, s \in cmdRoutes' : r.ref = s.ref => r = s,
             party' \subseteq Leaf,
             sessions' \in [Leaf -> Nat], \A l \in Leaf : sessions'[l] <= MaxSessions[l],
             faults' \in Nat
      PROVE  Types'
  <2>1. Upward(restarts') = U /\ Downward(restarts') = D /\ restarts' \in [Bot -> Nat]
        /\ \A b \in Bot : Jobs(b, restarts') = Jobs(b, restarts)
    BY <1>a, <1>b, Zenon
  <2> QED BY <2>1, <1>b, Zenon DEF Types, Carries
<1>c. Fault => faults' \in Nat
  <2>1. faults \in Nat
    BY <1>a
  <2> QED BY <2>1 DEF Fault
<1>d. /\ \A l \in Leaf : U[l] = Upward(restarts)[l]
      /\ \A l \in Leaf : D[l] = Downward(restarts)[l]
  OBVIOUS
<1>e. \A l \in Leaf : Notice("PARTY_JOIN") \in U[l] /\ Notice("PARTY_PART") \in U[l]
  BY FrameFields DEF Upward, SessionNews
<1>f. ASSUME NEW x, x.ref \in Ref, x.id \in Id, Named(x, restarts), NEW l \in Leaf
      PROVE  /\ x.id[1] = l => Result(x) \in D[l] /\ WhomReply(x) \in D[l] /\ Whom(x) \in U[l]
                                /\ Cmd(x, Hub) \in U[l]
             /\ x.id[1] = l /\ l \in Routed => \A to \in Leaf : Cmd(x, to) \in U[l]
             /\ Asks(x.id[1]) => Result(x) \in U[l] /\ \A to \in Bot : Cmd(x, to) \in D[l]
  <2>1. Hub \in Bot /\ Leaf \subseteq Bot
    BY BotsAndLeaves
  <2> DEFINE F == Frame
             Has(f) == f \in F /\ Named(f, restarts) /\ f.id = x.id
  <2>2. /\ \A to \in Bot : Has(Cmd(x, to)) /\ Cmd(x, to).type = "CMD" /\ Cmd(x, to).to = to
        /\ Has(Result(x)) /\ Has(WhomReply(x)) /\ Has(Whom(x))
        /\ Result(x).type = "CMD_RESULT" /\ Whom(x).type = "PARTY_WHOM"
        /\ WhomReply(x).type = "PARTY_WHOM_REPLY"
    BY <1>f, FramesNamed
  <2>3. ASSUME NEW f, Has(f)
        PROVE  /\ f.type \in {"CMD_RESULT", "PARTY_WHOM_REPLY"} /\ x.id[1] = l => f \in D[l]
               /\ f.type = "CMD" /\ Asks(x.id[1]) => f \in D[l]
               /\ f.type = "PARTY_WHOM" /\ x.id[1] = l => f \in U[l]
               /\ f.type = "CMD_RESULT" /\ Asks(x.id[1]) => f \in U[l]
               /\ f.type = "CMD" /\ x.id[1] = l /\ (f.to # Hub => f.to \in Leaf /\ l \in Routed)
                    => f \in U[l]
    BY <2>3 DEF Upward, Downward
  <2> HIDE DEF Has, F, U, D
  <2> QED BY <2>1, <2>2, <2>3
<1>g. /\ sessions \in [Leaf -> Nat] /\ \A l \in Leaf : sessions[l] <= MaxSessions[l]
      /\ MaxSessions \in [Leaf -> Nat]
  BY <1>a
<1> HIDE DEF U, D
<1>1. ASSUME NEW l \in Leaf, NEW to \in {Hub} \cup (IF l \in Routed THEN Leaf \ {l} ELSE {}), Ask(l, to)
      PROVE  Types'
  <2> DEFINE f == Cmd(Request(l), to)
  <2>1. l \in Bot /\ to \in Bot /\ (to = Hub \/ (to \in Leaf /\ l \in Routed))
    BY BotsAndLeaves
  <2>2. f \in Frame /\ f \in U[l]
    <3> DEFINE x == Request(l)
    <3>1. x.ref \in Ref /\ x.id \in Id /\ Named(x, restarts) /\ x.id[1] = l
      BY <2>1, NewRequest
    <3> HIDE DEF x
    <3>2. Cmd(x, to) \in Frame
      BY <3>1, <2>1, FramesNamed
    <3>3. Cmd(x, to) \in U[l]
      BY <3>1, <2>1, <1>f
    <3> QED BY <3>2, <3>3 DEF x
  <2> HIDE DEF f
  <2>3. Carries(LeafSends(toHub, l, f), U)
    BY <2>2, <1>a, SendsCarry
  <2>4. /\ toHub' = LeafSends(toHub, l, f) /\ Issue(l, Request(l))
        /\ UNCHANGED <<leafUp, hubUp, toLeaf, running, cmdRoutes, party, sessions, faults, restarts>>
    BY <1>1 DEF Ask, f
  <2> QED BY <2>1, <2>3, <2>4, <1>a, <1>b, IssueTypes
<1>2. ASSUME NEW l \in Leaf, AskWhom(l) PROVE Types'
  <2> DEFINE f == Whom(Request(l))
  <2>1. l \in Bot
    BY BotsAndLeaves
  <2>2. f \in Frame /\ f \in U[l]
    <3> DEFINE x == Request(l)
    <3>1. x.ref \in Ref /\ x.id \in Id /\ Named(x, restarts) /\ x.id[1] = l
      BY <2>1, NewRequest
    <3> HIDE DEF x
    <3>2. Whom(x) \in Frame /\ Whom(x) \in U[l]
      BY <3>1, <2>1, <1>f, FramesNamed
    <3> QED BY <3>2 DEF x
  <2> HIDE DEF f
  <2>3. Carries(LeafSends(toHub, l, f), U)
    BY <2>2, <1>a, SendsCarry
  <2>4. /\ toHub' = LeafSends(toHub, l, f) /\ Issue(l, Request(l))
        /\ UNCHANGED <<leafUp, hubUp, toLeaf, running, cmdRoutes, party, sessions, faults, restarts>>
    BY <1>2 DEF AskWhom, f
  <2> QED BY <2>1, <2>3, <2>4, <1>a, <1>b, IssueTypes
<1>3. ASSUME NEW to \in Leaf, HubAsk(to) PROVE Types'
  <2> DEFINE f == Cmd(Request(Hub), to)
  <2>1. Hub \in Bot /\ to \in Bot /\ Asks(Hub)
    BY BotsAndLeaves DEF Asks
  <2>2. f \in Frame /\ f \in D[to]
    <3> DEFINE x == Request(Hub)
    <3>1. x.ref \in Ref /\ x.id \in Id /\ Named(x, restarts) /\ x.id[1] = Hub
      BY <2>1, NewRequest
    <3> HIDE DEF x
    <3>2. Cmd(x, to) \in Frame /\ Cmd(x, to) \in D[to]
      BY <3>1, <2>1, <1>f, FramesNamed
    <3> QED BY <3>2 DEF x
  <2> HIDE DEF f
  <2>3. Carries(HubSends(toLeaf, to, f), D)
    BY <2>2, <1>a, SendsCarry
  <2>4. /\ toLeaf' = HubSends(toLeaf, to, f) /\ Issue(Hub, Request(Hub))
        /\ UNCHANGED <<leafUp, hubUp, toHub, running, cmdRoutes, party, sessions, faults, restarts>>
    BY <1>3 DEF HubAsk, f
  <2> QED BY <2>1, <2>3, <2>4, <1>a, <1>b, IssueTypes
<1>4. ASSUME NEW l \in Leaf, HubCmd(l) PROVE Types'
  <2> DEFINE f == Head(toHub[l])
  <2>1. /\ toHub' = Take(toHub, l) /\ toHub[l] # <<>> /\ f.type = "CMD"
        /\ UNCHANGED <<leafUp, hubUp, counter, pending, party, sessions, restarts>>
    BY <1>4 DEF HubCmd, HubReads
  <2>2. Carries(toHub', U) /\ f \in U[l]
    BY <2>1, <1>a, ReadsCarry
  <2>3. /\ f \in Frame /\ f.ref \in Ref /\ f.id \in Id /\ Named(f, restarts) /\ f.id[1] = l
        /\ f.to \in Bot /\ (f.to # Hub => f.to \in Leaf /\ l \in Routed)
    BY <2>1, <2>2, UpwardFrame DEF U, SessionNews
  <2>4. f.to # Hub => f \in D[f.to]
    BY <2>1, <2>3 DEF D, Downward, Asks
  <2> HIDE DEF f
  <2>5. Carries(HubSends(toLeaf, l, Result(f)), D)
    BY <2>3, <1>a, <1>f, SendsCarry, FramesNamed
  <2>6. f.to # Hub => Carries(HubSends(toLeaf, f.to, f), D)
    BY <2>3, <2>4, <1>a, SendsCarry
  <2>7. CASE Fault /\ UNCHANGED <<toLeaf, running, cmdRoutes>>
    BY <2>1, <2>2, <2>7, <1>a, <1>b, <1>c
  <2>8. CASE toLeaf' = HubSends(toLeaf, l, Result(f)) /\ UNCHANGED <<running, cmdRoutes, faults>>
    BY <2>1, <2>2, <2>5, <2>8, <1>a, <1>b
  <2>9. CASE /\ f.to # Hub /\ cmdRoutes' = RouteVia(f.ref, l, f.to)
             /\ toLeaf' = HubSends(toLeaf, f.to, f) /\ UNCHANGED <<running, faults>>
    <3>1. f.ref \in {""} \X Nat
      <4>1. f.ref[1] = "" /\ f.ref \in Ref
        BY <2>3, PlainRefs, BotsAndLeaves
      <4> QED BY <4>1 DEF Ref
    <3>2. /\ cmdRoutes' \subseteq [ref : {""} \X Nat, origin : Routed]
          /\ \A r, s \in cmdRoutes' : r.ref = s.ref => r = s
      <4> DEFINE new == [ref |-> f.ref, origin |-> l]
      <4>1. new \in [ref : {""} \X Nat, origin : Routed]
        BY <3>1, <2>3, <2>9
      <4>2. cmdRoutes' = {r \in cmdRoutes : r.ref # f.ref} \cup {new} /\ new.ref = f.ref
        BY <2>9 DEF RouteVia
      <4>3. /\ cmdRoutes \subseteq [ref : {""} \X Nat, origin : Routed]
            /\ \A r, s \in cmdRoutes : r.ref = s.ref => r = s
        BY <1>a
      <4> HIDE DEF new
      <4> QED BY <4>1, <4>2, <4>3
    <3> QED BY <3>2, <2>1, <2>2, <2>6, <2>9, <1>a, <1>b
  <2>10. CASE /\ f.to = Hub /\ running' = [running EXCEPT ![Hub] = @ \cup {[from |-> l, req |-> f]}]
              /\ UNCHANGED <<toLeaf, cmdRoutes, faults>>
    <3>1. [from |-> l, req |-> f] \in Jobs(Hub, restarts)
          /\ [from |-> l, req |-> f] \in [from : Bot, req : Frame]
      BY <2>1, <2>3, BotsAndLeaves DEF Jobs, f
    <3>2. /\ running' \in [Bot -> SUBSET [from : Bot, req : Frame]]
          /\ \A b \in Bot : running'[b] \subseteq Jobs(b, restarts)
      BY <3>1, <2>10, <1>a
    <3> QED BY <3>2, <2>1, <2>2, <2>10, <1>a, <1>b
  <2> QED BY <1>4, <2>7, <2>8, <2>9, <2>10 DEF HubCmd, f
<1>5. ASSUME NEW l \in Leaf, HubResult(l) PROVE Types'
  <2> DEFINE f == Head(toHub[l])
             routes == {r \in cmdRoutes : r.ref = f.ref}
  <2>1. /\ toHub' = Take(toHub, l) /\ toHub[l] # <<>> /\ f.type = "CMD_RESULT"
        /\ UNCHANGED <<leafUp, hubUp, counter, running, party, sessions, faults, restarts>>
    BY <1>5 DEF HubResult, HubReads
  <2>2. Carries(toHub', U) /\ f \in U[l]
    BY <2>1, <1>a, ReadsCarry
  <2>3. f \in Frame /\ f.ref \in Ref /\ f.id \in Id /\ Named(f, restarts) /\ Asks(f.id[1])
    BY <2>1, <2>2, UpwardFrame DEF U, SessionNews
  <2>4. \A r \in routes : r.origin \in Leaf /\ f \in D[r.origin]
    BY <2>1, <2>3, RouteLeads DEF D, Downward
  <2> HIDE DEF f
  <2>5. \A r \in routes : Carries(HubSends(toLeaf, r.origin, f), D)
    BY <2>3, <2>4, <1>a, SendsCarry
  <2>6. CASE Resolve(Hub, f.ref) /\ UNCHANGED <<toLeaf, cmdRoutes>>
    <3>1. pending' = [pending EXCEPT ![Hub] = @ \ Waiting(Hub, f.ref)] /\ Hub \in Bot
      BY <2>6, BotsAndLeaves DEF Resolve
    <3> QED BY <3>1, <2>1, <2>2, <2>6, <1>a, <1>b, FewerPending
  <2>7. CASE /\ cmdRoutes' = cmdRoutes \ routes /\ UNCHANGED pending
             /\ \E r \in routes : toLeaf' = HubSends(toLeaf, r.origin, f)
    <3>1. Carries(toLeaf', D)
      BY <2>5, <2>7
    <3>2. cmdRoutes' \subseteq cmdRoutes
      BY <2>7
    <3> QED BY <3>1, <3>2, <2>1, <2>2, <2>7, <1>a, <1>b
  <2>8. CASE UNCHANGED <<toLeaf, pending, cmdRoutes>>
    BY <2>1, <2>2, <2>8, <1>a, <1>b
  <2> QED BY <1>5, <2>6, <2>7, <2>8 DEF HubResult, f
<1>6. ASSUME NEW l \in Leaf, HubParty(l) PROVE Types'
  <2> DEFINE f == Head(toHub[l])
  <2>1. /\ toHub' = Take(toHub, l) /\ toHub[l] # <<>>
        /\ UNCHANGED <<leafUp, hubUp, counter, pending, running, cmdRoutes, sessions, faults, restarts>>
    BY <1>6 DEF HubParty, HubReads
  <2>2. Carries(toHub', U) /\ f \in U[l]
    BY <2>1, <1>a, ReadsCarry
  <2>3. party' \subseteq Leaf
    BY <1>6, <1>a DEF HubParty
  <2>4. Carries(toLeaf', D)
    <3>1. CASE UNCHANGED toLeaf
      BY <3>1, <1>a
    <3>2. CASE f.type = "PARTY_WHOM" /\ toLeaf' = HubSends(toLeaf, l, WhomReply(f))
      <4>1. f.ref \in Ref /\ f.id \in Id /\ Named(f, restarts) /\ f.id[1] = l
        BY <3>2, <2>2, UpwardFrame DEF U, SessionNews
      <4> HIDE DEF f
      <4> QED BY <4>1, <3>2, <1>a, <1>f, SendsCarry, FramesNamed
    <3> QED BY <1>6, <3>1, <3>2 DEF HubParty, HubReads
  <2> QED BY <2>1, <2>2, <2>3, <2>4, <1>a, <1>b
<1>7. ASSUME NEW l \in Leaf, LeafCmd(l) PROVE Types'
  <2> DEFINE f == Head(toLeaf[l])
  <2>1. /\ toLeaf' = Take(toLeaf, l) /\ toLeaf[l] # <<>> /\ f.type = "CMD"
        /\ UNCHANGED <<leafUp, hubUp, counter, pending, cmdRoutes, party, sessions, faults, restarts>>
    BY <1>7 DEF LeafCmd, LeafReads
  <2>2. Carries(toLeaf', D) /\ f \in D[l]
    BY <2>1, <1>a, ReadsCarry
  <2>3. f \in Frame /\ f.ref \in Ref /\ f.id \in Id /\ Named(f, restarts) /\ Asks(f.id[1])
    BY <2>1, <2>2, DownwardFrame DEF D
  <2> HIDE DEF f
  <2>4. CASE toHub' = LeafSends(toHub, l, Result(f)) /\ UNCHANGED running
    <3>1. Carries(toHub', U)
      BY <2>3, <2>4, <1>a, <1>f, SendsCarry, FramesNamed
    <3> QED BY <3>1, <2>1, <2>2, <2>4, <1>a, <1>b
  <2>5. CASE running' = [running EXCEPT ![l] = @ \cup {[from |-> Hub, req |-> f]}] /\ UNCHANGED toHub
    <3>1. [from |-> Hub, req |-> f] \in Jobs(l, restarts)
          /\ [from |-> Hub, req |-> f] \in [from : Bot, req : Frame]
      BY <2>1, <2>3, BotsAndLeaves DEF Jobs, f
    <3>2. /\ running' \in [Bot -> SUBSET [from : Bot, req : Frame]]
          /\ \A b \in Bot : running'[b] \subseteq Jobs(b, restarts)
      BY <3>1, <2>5, <1>a
    <3> QED BY <3>2, <2>1, <2>2, <2>5, <1>a, <1>b
  <2> QED BY <1>7, <2>4, <2>5 DEF LeafCmd, f
<1>8. ASSUME NEW l \in Leaf, LeafAnswer(l) PROVE Types'
  <2>1. /\ toLeaf' = Take(toLeaf, l) /\ toLeaf[l] # <<>> /\ l \in Bot
        /\ pending' = [pending EXCEPT ![l] = @ \ Waiting(l, Head(toLeaf[l]).ref)]
        /\ UNCHANGED <<leafUp, hubUp, toHub, counter, running, cmdRoutes, party, sessions, faults, restarts>>
    BY <1>8, BotsAndLeaves DEF LeafAnswer, LeafReads, Resolve
  <2>2. Carries(toLeaf', D)
    BY <2>1, <1>a, ReadsCarry
  <2> QED BY <2>1, <2>2, <1>a, <1>b, FewerPending
<1>9. ASSUME NEW b \in Bot, Timeout(b) PROVE Types'
  <2>1. PICK req \in pending[b] : /\ pending' = [pending EXCEPT ![b] = @ \ {req}]
                                  /\ UNCHANGED <<linkVars, counter, running, cmdRoutes, party, sessions, faults, restarts>>
    BY <1>9 DEF Timeout
  <2> QED BY <2>1, <1>a, <1>b, FewerPending DEF linkVars
<1>10. ASSUME NEW b \in Bot, Finish(b) PROVE Types'
  <2>1. PICK cmd \in running[b] :
            /\ running' = [running EXCEPT ![b] = @ \ {cmd}]
            /\ IF b = Hub
               THEN toLeaf' = HubSends(toLeaf, cmd.from, Result(cmd.req)) /\ UNCHANGED toHub
               ELSE toHub' = LeafSends(toHub, b, Result(cmd.req)) /\ UNCHANGED toLeaf
            /\ UNCHANGED <<leafUp, hubUp, counter, pending, cmdRoutes, party, sessions, faults, restarts>>
    BY <1>10 DEF Finish
  <2>2. cmd \in Jobs(b, restarts)
    BY <1>a
  <2>3. /\ cmd.req \in Frame /\ cmd.req.ref \in Ref /\ cmd.req.id \in Id /\ Named(cmd.req, restarts)
        /\ IF b = Hub THEN cmd.from \in Leaf /\ cmd.req.id[1] = cmd.from ELSE Asks(cmd.req.id[1])
    <3>1. cmd.req \in Frame /\ cmd.req.type = "CMD" /\ Named(cmd.req, restarts)
          /\ IF b = Hub THEN cmd.from \in Leaf /\ cmd.req.id[1] = cmd.from ELSE Asks(cmd.req.id[1])
      BY <2>2 DEF Jobs
    <3> QED BY <3>1, FrameFields DEF SessionNews
  <2>4. CASE b = Hub
    <3>1. Carries(toLeaf', D)
      <4> DEFINE x == cmd.req
      <4>1. Result(x) \in Frame /\ Result(x) \in D[cmd.from]
        BY <2>3, <2>4, <1>f, FramesNamed
      <4> HIDE DEF x
      <4>2. toLeaf' = HubSends(toLeaf, cmd.from, Result(x)) /\ Carries(toLeaf, D)
        BY <2>1, <2>4, <1>a DEF x
      <4> QED BY <4>1, <4>2, SendsCarry
    <3> QED BY <3>1, <2>1, <2>4, <1>a, <1>b
  <2>5. CASE b # Hub
    <3>1. Carries(toHub', U)
      <4> DEFINE x == cmd.req
      <4>1. b \in Leaf
        BY <2>5, BotsAndLeaves
      <4>2. Result(x) \in Frame /\ Result(x) \in U[b]
        BY <4>1, <2>3, <2>5, <1>f, FramesNamed
      <4> HIDE DEF x
      <4>3. toHub' = LeafSends(toHub, b, Result(x)) /\ Carries(toHub, U)
        BY <2>1, <2>5, <1>a DEF x
      <4> QED BY <4>1, <4>2, <4>3, SendsCarry
    <3> QED BY <3>1, <2>1, <2>5, <1>a, <1>b
  <2> QED BY <2>4, <2>5
<1>11. ASSUME NEW l \in Leaf, SessionOpens(l) PROVE Types'
  <2>1. Carries(toHub', U)
    BY <1>11, <1>a, <1>e, SendsCarry, FrameFields DEF SessionOpens
  <2>2. sessions' \in [Leaf -> Nat] /\ \A m \in Leaf : sessions'[m] <= MaxSessions[m]
    BY <1>11, <1>g DEF SessionOpens
  <2> QED BY <2>1, <2>2, <1>11, <1>a, <1>b DEF SessionOpens
<1>12. ASSUME NEW l \in Leaf, SessionCloses(l) PROVE Types'
  <2>1. Carries(toHub', U)
    BY <1>12, <1>a, <1>e, SendsCarry, FrameFields DEF SessionCloses
  <2>2. sessions' \in [Leaf -> Nat] /\ \A m \in Leaf : sessions'[m] <= MaxSessions[m]
    BY <1>12, <1>g DEF SessionCloses
  <2> QED BY <2>1, <2>2, <1>12, <1>a, <1>b DEF SessionCloses
<1>13. ASSUME NEW l \in Leaf, Connect(l) PROVE Types'
  BY <1>13, <1>a, <1>b, EmptiedCarries DEF Connect, LinkUp, cmdVars
<1>14. ASSUME NEW l \in Leaf, LeafDisconnects(l) PROVE Types'
  BY <1>14, <1>a, <1>b, <1>c, EmptiedCarries DEF LeafDisconnects, LeafLoses, LinkFault
<1>15. ASSUME NEW l \in Leaf, HubDisconnects(l) PROVE Types'
  BY <1>15, <1>a, <1>b, <1>c, EmptiedCarries DEF HubDisconnects, CleanupLeafState, LinkFault
<1>16. ASSUME NEW b \in Bot, restarts' = [restarts EXCEPT ![b] = @ + 1],
              counter' = [counter EXCEPT ![b] = 0], pending' = [pending EXCEPT ![b] = {}],
              running' = [running EXCEPT ![b] = {}], Fault,
              leafUp' \in [Leaf -> BOOLEAN], hubUp' \in [Leaf -> BOOLEAN],
              Carries(toHub', U), Carries(toLeaf', D),
              cmdRoutes' \subseteq cmdRoutes, party' \subseteq Leaf,
              sessions' \in [Leaf -> Nat], \A l \in Leaf : sessions'[l] <= MaxSessions[l]
       PROVE  Types'
  <2>1. restarts' \in [Bot -> Nat] /\ \A c \in Bot : restarts[c] <= restarts'[c]
    <3>1. restarts \in [Bot -> Nat] /\ restarts' = [restarts EXCEPT ![b] = @ + 1]
      BY <1>16, <1>a
    <3> QED BY <3>1
  <2>2. Carries(toHub', Upward(restarts')) /\ Carries(toLeaf', Downward(restarts'))
    <3>1. /\ \A ch : Carries(ch, Upward(restarts)) => Carries(ch, Upward(restarts'))
          /\ \A ch : Carries(ch, Downward(restarts)) => Carries(ch, Downward(restarts'))
      BY <2>1, <1>a, CarriesMore
    <3> QED BY <3>1, <1>16, Zenon DEF U, D
  <2>3. /\ counter' \in [Bot -> Nat] /\ pending' \in [Bot -> SUBSET [ref : Ref, id : Id]]
        /\ \A c \in Bot : pending'[c] \subseteq Requests(c, counter'[c], restarts'[c])
    BY <1>16, <1>a
  <2>4. /\ running' \in [Bot -> SUBSET [from : Bot, req : Frame]]
        /\ \A c \in Bot : running'[c] \subseteq Jobs(c, restarts')
    <3>1. \A c \in Bot : Jobs(c, restarts) \subseteq Jobs(c, restarts')
      BY <2>1, <1>a, CarriesMore
    <3> QED BY <3>1, <1>16, <1>a
  <2>5. /\ cmdRoutes' \subseteq [ref : {""} \X Nat, origin : Routed]
        /\ \A r, s \in cmdRoutes' : r.ref = s.ref => r = s
    BY <1>16, <1>a
  <2> QED BY <2>1, <2>2, <2>3, <2>4, <2>5, <1>16, <1>c, Zenon DEF Types, Carries
<1>17. ASSUME NEW l \in Leaf, LeafRestarts(l) PROVE Types'
  <2>1. l \in Bot /\ Carries(toLeaf', D) /\ Carries(toHub', U)
    BY <1>17, <1>a, EmptiedCarries, BotsAndLeaves DEF LeafRestarts
  <2>2. leafUp' \in [Leaf -> BOOLEAN] /\ hubUp' \in [Leaf -> BOOLEAN]
    BY <1>17, <1>a DEF LeafRestarts
  <2>3. sessions' \in [Leaf -> Nat] /\ \A m \in Leaf : sessions'[m] <= MaxSessions[m]
    BY <1>17, <1>g DEF LeafRestarts
  <2> QED BY <2>1, <2>2, <2>3, <1>16, <1>17, <1>a DEF LeafRestarts
<1>18. CASE HubRestarts
  <2>1. Hub \in Bot /\ Carries(toLeaf', D) /\ Carries(toHub', U)
    BY <1>18, <1>a, EmptiedCarries, BotsAndLeaves DEF HubRestarts
  <2>2. leafUp' \in [Leaf -> BOOLEAN] /\ hubUp' \in [Leaf -> BOOLEAN]
    BY <1>18, <1>a DEF HubRestarts
  <2> QED BY <2>1, <2>2, <1>16, <1>18, <1>a DEF HubRestarts
<1>19. CASE UNCHANGED vars
  BY <1>19, <1>a, <1>b DEF vars, linkVars, cmdVars
<1> QED
  BY <1>1, <1>2, <1>3, <1>4, <1>5, <1>6, <1>7, <1>8, <1>9, <1>10, <1>11, <1>12, <1>13, <1>14,
     <1>15, <1>17, <1>18, <1>19, Zenon DEF Next

-----------------------------------------------------------------------------
(* The hub's list                                                           *)

LEMMA PartAppend ==
    ASSUME NEW ch \in Seq(Frame), NEW f \in Frame, NEW n \in Nat, NEW m \in Nat, PartFollows(ch, n),
           \/ f = Notice("PARTY_PART") \/ m > 0
           \/ f.type # "PARTY_JOIN" /\ m = n
    PROVE  PartFollows(Append(ch, f), m)
<1>1. /\ Len(Append(ch, f)) = Len(ch) + 1 /\ Len(ch) \in Nat
      /\ \A i \in 1..Len(ch) : Append(ch, f)[i] = ch[i]
      /\ Append(ch, f)[Len(ch) + 1] = f
  BY AppendProperties, LenProperties
<1> DEFINE all == Append(ch, f)
           k == Len(ch)
           part == Notice("PARTY_PART")
<1>2. part.type # "PARTY_JOIN"
  BY DEF Notice
<1> HIDE DEF all, k, part
<1> SUFFICES ASSUME NEW i \in 1..Len(all), all[i].type = "PARTY_JOIN", ~(m > 0)
             PROVE  \E j \in 1..Len(all) : j > i /\ all[j] = part
  BY DEF PartFollows, all, part
<1>3. i \in 1..k \/ i = k + 1
  BY <1>1 DEF all, k
<1>4. CASE f = part
  <2>1. i \in 1..k
    BY <1>1, <1>2, <1>3, <1>4 DEF all, k
  <2>2. k + 1 \in 1..Len(all) /\ k + 1 > i /\ all[k + 1] = part
    BY <2>1, <1>1, <1>4 DEF all, k
  <2> QED BY <2>2
<1>5. CASE f.type # "PARTY_JOIN" /\ m = n
  <2>1. i \in 1..k /\ ch[i].type = "PARTY_JOIN"
    BY <1>1, <1>3, <1>5 DEF all, k
  <2>2. PICK j \in 1..k : j > i /\ ch[j] = part
    BY <2>1, <1>5 DEF PartFollows, k, part
  <2> QED BY <2>2, <1>1 DEF all, k
<1> QED BY <1>4, <1>5 DEF part

LEMMA PartTail ==
    ASSUME NEW ch \in Seq(Frame), ch # <<>>, NEW n \in Nat, PartFollows(ch, n)
    PROVE  /\ PartFollows(Tail(ch), n)
           /\ Head(ch).type = "PARTY_JOIN" => n > 0 \/ Notice("PARTY_PART") \in Range(Tail(ch))
<1> DEFINE rest == Tail(ch)
           k == Len(rest)
           part == Notice("PARTY_PART")
<1>1. /\ rest \in Seq(Frame) /\ k = Len(ch) - 1 /\ Len(ch) \in Nat /\ Len(ch) > 0
      /\ Head(ch) = ch[1] /\ DOMAIN rest = 1..k
      /\ \A i \in 1..k : rest[i] = ch[i + 1]
  BY HeadTailProperties, EmptySeq, LenProperties
<1>2. \A i \in 1..k : i + 1 \in 1..Len(ch)
  BY <1>1
<1>3. \A j \in 1..Len(ch) : j > 1 => j - 1 \in 1..k /\ (j - 1) + 1 = j
  BY <1>1
<1>4. \A i \in 1..Len(ch) : ch[i].type = "PARTY_JOIN" =>
          n > 0 \/ \E j \in 1..Len(ch) : j > i /\ ch[j] = part
  BY DEF PartFollows
<1> HIDE DEF rest, k, part
<1>5. \A i \in 1..k : rest[i].type = "PARTY_JOIN" => n > 0 \/ \E j \in 1..k : j > i /\ rest[j] = part
  <2> SUFFICES ASSUME NEW i \in 1..k, rest[i].type = "PARTY_JOIN", ~(n > 0)
               PROVE  \E j \in 1..k : j > i /\ rest[j] = part
    OBVIOUS
  <2>1. PICK j \in 1..Len(ch) : j > i + 1 /\ ch[j] = part
    BY <1>1, <1>2, <1>4
  <2>2. j - 1 \in 1..k /\ j - 1 > i /\ rest[j - 1] = part
    BY <2>1, <1>1, <1>3
  <2> QED BY <2>2
<1>6. ASSUME Head(ch).type = "PARTY_JOIN", ~(n > 0) PROVE part \in Range(rest)
  <2>1. 1 \in 1..Len(ch)
    BY <1>1
  <2>2. PICK j \in 1..Len(ch) : j > 1 /\ ch[j] = part
    BY <2>1, <1>1, <1>4, <1>6
  <2>3. j - 1 \in 1..k /\ rest[j - 1] = part
    BY <2>2, <1>1, <1>3
  <2> QED BY <2>3, <1>1 DEF Range
<1> QED BY <1>5, <1>6 DEF PartFollows, rest, k, part

(* Every step that leaves the links, the sessions and the list alone, and adds *)
(* to what a leaf has sent no news of sessions.                              *)
LEMMA ListedStands ==
    ASSUME Types, Listed, UNCHANGED <<leafUp, hubUp, party, sessions>>,
           \A l \in Leaf : \/ toHub'[l] = toHub[l]
                          \/ \E f \in Frame : ~SessionNews(f) /\ toHub'[l] = Append(toHub[l], f)
    PROVE  Listed'
<1>1. ASSUME NEW l \in Leaf, leafUp[l], hubUp[l] PROVE PartFollows(toHub'[l], sessions[l])
  <2>1. PartFollows(toHub[l], sessions[l]) /\ sessions[l] \in Nat /\ toHub[l] \in Seq(Frame)
    BY <1>1 DEF Listed, Types, Carries
  <2>2. ASSUME NEW f \in Frame, ~SessionNews(f), toHub'[l] = Append(toHub[l], f)
        PROVE  PartFollows(toHub'[l], sessions[l])
    BY <2>1, <2>2, PartAppend DEF SessionNews
  <2> QED BY <2>1, <2>2
<1>2. ASSUME NEW l \in Leaf PROVE Range(toHub[l]) \subseteq Range(toHub'[l])
  <2>1. toHub[l] \in Seq(Frame)
    BY DEF Types, Carries
  <2> QED BY <2>1, RangeAppend
<1> QED BY <1>1, <1>2 DEF Listed, Types

(* The hub reads a frame of l.                                               *)
LEMMA ListedReads ==
    ASSUME Types, Listed, NEW l \in Leaf, toHub[l] # <<>>, toHub' = Take(toHub, l), hubUp[l],
           UNCHANGED <<leafUp, hubUp, sessions>>,
           \/ Head(toHub[l]) = Notice("PARTY_PART") /\ party' = party \ {l}
           \/ Head(toHub[l]).type = "PARTY_JOIN" /\ party' = party \cup {l}
           \/ Head(toHub[l]) # Notice("PARTY_PART") /\ party' = party
    PROVE  Listed'
<1>1. /\ Carries(toHub, Upward(restarts)) /\ party \subseteq Leaf
      /\ \A m \in Leaf : sessions[m] \in Nat /\ toHub[m] \in Seq(Frame)
  BY DEF Types, Carries
<1>2. /\ \A m \in Leaf : toHub'[m] = IF m = l THEN Tail(toHub[m]) ELSE toHub[m]
      /\ Range(toHub[l]) = {Head(toHub[l])} \cup Range(toHub'[l])
  <2>1. toHub \in [Leaf -> Seq(Frame)]
    BY DEF Types, Carries
  <2>2. \A m \in Leaf : toHub'[m] = IF m = l THEN Tail(toHub[m]) ELSE toHub[m]
    BY <2>1 DEF Take
  <2>3. Range(toHub[l]) = {Head(toHub[l])} \cup Range(Tail(toHub[l]))
    BY <1>1, RangeTail
  <2> QED BY <2>2, <2>3
<1>3. ASSUME NEW m \in Leaf, leafUp[m], hubUp[m] PROVE PartFollows(toHub'[m], sessions[m])
  BY <1>1, <1>2, <1>3, PartTail DEF Listed
<1>4. ASSUME NEW m \in party', leafUp[m]
      PROVE  sessions[m] > 0 \/ Notice("PARTY_PART") \in Range(toHub'[m])
  <2>1. CASE m # l
    BY <2>1, <1>1, <1>2, <1>4 DEF Listed
  <2>2. CASE m = l /\ Head(toHub[l]).type = "PARTY_JOIN"
    <3>1. PartFollows(toHub[l], sessions[l])
      BY <2>2, <1>4 DEF Listed
    <3> QED BY <3>1, <2>2, <1>1, <1>2, PartTail
  <2>3. CASE m = l /\ Head(toHub[l]) # Notice("PARTY_PART") /\ party' = party
    BY <2>3, <1>2, <1>4 DEF Listed
  <2> QED BY <2>1, <2>2, <2>3, <1>4
<1> QED BY <1>3, <1>4 DEF Listed

LEMMA ListedStep == ASSUME Types, Listed, [Next]_vars PROVE Listed'
<1>a. /\ leafUp \in [Leaf -> BOOLEAN] /\ hubUp \in [Leaf -> BOOLEAN]
      /\ Carries(toHub, Upward(restarts)) /\ Carries(toLeaf, Downward(restarts))
      /\ toHub \in [Leaf -> Seq(Frame)] /\ \A l \in Leaf : toHub[l] \in Seq(Frame)
      /\ party \subseteq Leaf /\ sessions \in [Leaf -> Nat]
  BY DEF Types, Carries
<1>s. ASSUME NEW l \in Leaf, NEW f \in Frame, ~SessionNews(f), toHub' = LeafSends(toHub, l, f),
             UNCHANGED <<leafUp, hubUp, party, sessions>>
      PROVE  Listed'
  <2>1. \A m \in Leaf : toHub'[m] = toHub[m] \/ toHub'[m] = Append(toHub[m], f)
    BY <1>s, <1>a DEF LeafSends
  <2> QED BY <2>1, <1>s, ListedStands
<1>u. UNCHANGED <<leafUp, hubUp, toHub, party, sessions>> => Listed'
  BY ListedStands
<1>1. ASSUME NEW l \in Leaf, NEW to \in {Hub} \cup (IF l \in Routed THEN Leaf \ {l} ELSE {}), Ask(l, to)
      PROVE  Listed'
  <2> DEFINE x == Request(l)
  <2>1. l \in Bot /\ to \in Bot
    BY BotsAndLeaves
  <2>2. x.ref \in Ref /\ x.id \in Id
    BY <2>1, NewRequest
  <2>3. toHub' = LeafSends(toHub, l, Cmd(x, to)) /\ UNCHANGED <<leafUp, hubUp, party, sessions>>
    BY <1>1 DEF Ask
  <2> HIDE DEF x
  <2>4. Cmd(x, to) \in Frame /\ ~SessionNews(Cmd(x, to))
    BY <2>1, <2>2, FramesNamed DEF SessionNews
  <2> QED BY <2>3, <2>4, <1>s
<1>2. ASSUME NEW l \in Leaf, AskWhom(l) PROVE Listed'
  <2> DEFINE x == Request(l)
  <2>1. l \in Bot
    BY BotsAndLeaves
  <2>2. x.ref \in Ref /\ x.id \in Id
    BY <2>1, NewRequest
  <2>3. toHub' = LeafSends(toHub, l, Whom(x)) /\ UNCHANGED <<leafUp, hubUp, party, sessions>>
    BY <1>2 DEF AskWhom
  <2> HIDE DEF x
  <2>4. Whom(x) \in Frame /\ ~SessionNews(Whom(x))
    BY <2>2, FramesNamed DEF SessionNews
  <2> QED BY <2>3, <2>4, <1>s
<1>3. ASSUME NEW l \in Leaf, HubAsk(l) PROVE Listed'
  BY <1>3, <1>u DEF HubAsk
<1>4. ASSUME NEW l \in Leaf, HubCmd(l) PROVE Listed'
  <2>1. /\ toHub[l] # <<>> /\ hubUp[l] /\ toHub' = Take(toHub, l) /\ Head(toHub[l]).type = "CMD"
        /\ UNCHANGED <<leafUp, hubUp, party, sessions>>
    BY <1>4 DEF HubCmd, HubReads
  <2>2. Head(toHub[l]) # Notice("PARTY_PART")
    BY <2>1 DEF Notice
  <2> QED BY <2>1, <2>2, ListedReads
<1>5. ASSUME NEW l \in Leaf, HubResult(l) PROVE Listed'
  <2>1. /\ toHub[l] # <<>> /\ hubUp[l] /\ toHub' = Take(toHub, l) /\ Head(toHub[l]).type = "CMD_RESULT"
        /\ UNCHANGED <<leafUp, hubUp, party, sessions>>
    BY <1>5 DEF HubResult, HubReads
  <2>2. Head(toHub[l]) # Notice("PARTY_PART")
    BY <2>1 DEF Notice
  <2> QED BY <2>1, <2>2, ListedReads
<1>6. ASSUME NEW l \in Leaf, HubParty(l) PROVE Listed'
  <2>1. /\ toHub[l] # <<>> /\ hubUp[l] /\ toHub' = Take(toHub, l) /\ UNCHANGED <<leafUp, hubUp, sessions>>
    BY <1>6 DEF HubParty, HubReads
  <2>2. Head(toHub[l]) \in Frame
    BY <2>1, <1>a, ReadsCarry
  <2>3. \/ Head(toHub[l]) = Notice("PARTY_PART") /\ party' = party \ {l}
        \/ Head(toHub[l]).type = "PARTY_JOIN" /\ party' = party \cup {l}
        \/ Head(toHub[l]).type = "PARTY_WHOM" /\ party' = party
    BY <1>6, <2>2, FrameFields DEF HubParty, HubReads, SessionNews
  <2>4. Head(toHub[l]).type = "PARTY_WHOM" => Head(toHub[l]) # Notice("PARTY_PART")
    BY DEF Notice
  <2> QED BY <2>1, <2>3, <2>4, ListedReads
<1>7. ASSUME NEW l \in Leaf, LeafCmd(l) PROVE Listed'
  <2> DEFINE f == Head(toLeaf[l])
  <2>1. toLeaf[l] # <<>> /\ f.type = "CMD" /\ UNCHANGED <<leafUp, hubUp, party, sessions>>
    BY <1>7 DEF LeafCmd, LeafReads
  <2>2. f \in Frame
    BY <2>1, <1>a, ReadsCarry
  <2>3. toHub' = LeafSends(toHub, l, Result(f)) \/ toHub' = toHub
    BY <1>7 DEF LeafCmd
  <2> HIDE DEF f
  <2>4. f.ref \in Ref /\ f.id \in Id
    BY <2>1, <2>2, FrameFields DEF SessionNews
  <2>5. Result(f) \in Frame /\ ~SessionNews(Result(f))
    BY <2>4, FramesNamed DEF SessionNews
  <2> QED BY <2>1, <2>3, <2>5, <1>s, <1>u
<1>8. ASSUME NEW l \in Leaf, LeafAnswer(l) PROVE Listed'
  BY <1>8, <1>u DEF LeafAnswer
<1>9. ASSUME NEW b \in Bot, Timeout(b) PROVE Listed'
  BY <1>9, <1>u DEF Timeout, linkVars
<1>10. ASSUME NEW b \in Bot, Finish(b) PROVE Listed'
  <2>1. PICK cmd \in running[b] :
            /\ IF b = Hub THEN UNCHANGED toHub ELSE toHub' = LeafSends(toHub, b, Result(cmd.req))
            /\ UNCHANGED <<leafUp, hubUp, party, sessions>>
    BY <1>10 DEF Finish
  <2> DEFINE x == cmd.req
  <2>2. x \in Frame /\ x.type = "CMD"
    BY DEF Types, Jobs
  <2> HIDE DEF x
  <2>3. x.ref \in Ref /\ x.id \in Id
    BY <2>2, FrameFields DEF SessionNews
  <2>4. Result(x) \in Frame /\ ~SessionNews(Result(x))
    BY <2>3, FramesNamed DEF SessionNews
  <2>5. b # Hub => b \in Leaf /\ toHub' = LeafSends(toHub, b, Result(x))
    BY <2>1, BotsAndLeaves DEF x
  <2> QED BY <2>1, <2>4, <2>5, <1>s, <1>u
<1>11. ASSUME NEW l \in Leaf, NEW f \in {Notice("PARTY_JOIN"), Notice("PARTY_PART")}, NEW n \in Nat,
              n > 0 \/ f = Notice("PARTY_PART"),
              n > 0 \/ l \notin party \/ ~(leafUp[l] /\ hubUp[l]) \/ f = Notice("PARTY_PART"),
              sessions' = [sessions EXCEPT ![l] = n], toHub' = LeafSends(toHub, l, f),
              UNCHANGED <<leafUp, hubUp, party>>
       PROVE  Listed'
  <2>1. f \in Frame /\ \A m \in Leaf : sessions'[m] = IF m = l THEN n ELSE sessions[m]
    BY <1>11, <1>a, FrameFields
  <2>2. \A m \in Leaf : toHub'[m] = IF m = l /\ leafUp[m] /\ hubUp[m] THEN Append(toHub[m], f) ELSE toHub[m]
    BY <1>11, <1>a DEF LeafSends
  <2>3. ASSUME NEW m \in Leaf, leafUp[m], hubUp[m] PROVE PartFollows(toHub'[m], sessions'[m])
    <3>1. PartFollows(toHub[m], sessions[m]) /\ sessions[m] \in Nat /\ toHub[m] \in Seq(Frame)
      BY <2>3, <1>a DEF Listed
    <3>2. CASE m = l
      BY <3>1, <3>2, <2>1, <2>2, <2>3, <1>11, PartAppend
    <3>3. CASE m # l
      BY <3>1, <3>3, <2>1, <2>2
    <3> QED BY <3>2, <3>3
  <2>4. ASSUME NEW m \in party, leafUp[m]
        PROVE  sessions'[m] > 0 \/ Notice("PARTY_PART") \in Range(toHub'[m])
    <3>1. m \in Leaf /\ hubUp[m] /\ (sessions[m] > 0 \/ Notice("PARTY_PART") \in Range(toHub[m]))
      BY <2>4, <1>a DEF Listed
    <3>2. CASE m = l
      <4>1. Range(toHub'[m]) = Range(toHub[m]) \cup {f}
        BY <3>1, <3>2, <2>1, <2>2, <2>4, <1>a, RangeAppend
      <4> QED BY <4>1, <3>1, <3>2, <2>1, <1>11
    <3>3. CASE m # l
      BY <3>1, <3>3, <2>1, <2>2
    <3> QED BY <3>2, <3>3
  <2> QED BY <2>3, <2>4, <1>11 DEF Listed
<1>12. ASSUME NEW l \in Leaf, SessionOpens(l) PROVE Listed'
  <2>1. sessions[l] + 1 \in Nat /\ sessions[l] + 1 > 0
    BY <1>a
  <2> QED BY <2>1, <1>11, <1>12 DEF SessionOpens
<1>13. ASSUME NEW l \in Leaf, SessionCloses(l) PROVE Listed'
  <2>1. sessions[l] - 1 \in Nat
    BY <1>a, <1>13 DEF SessionCloses
  <2> QED BY <2>1, <1>11, <1>13 DEF SessionCloses
<1>14. ASSUME NEW l \in Leaf, Connect(l) PROVE Listed'
  <2>1. /\ ~leafUp[l] /\ ~hubUp[l] /\ UNCHANGED <<party, sessions>>
        /\ leafUp' = [leafUp EXCEPT ![l] = TRUE] /\ hubUp' = [hubUp EXCEPT ![l] = TRUE]
        /\ toHub' = [toHub EXCEPT ![l] = <<>>]
    BY <1>14 DEF Connect, LinkUp, cmdVars
  <2>2. l \notin party
    BY <2>1 DEF Listed
  <2>3. toHub'[l] = <<>> /\ PartFollows(toHub'[l], sessions[l])
    <3>1. toHub'[l] = <<>>
      BY <2>1, <1>a
    <3>2. Len(<<>>) = 0 /\ 1..0 = {}
      BY EmptySeq
    <3> QED BY <3>1, <3>2 DEF PartFollows
  <2>4. \A m \in Leaf : m # l => leafUp'[m] = leafUp[m] /\ hubUp'[m] = hubUp[m] /\ toHub'[m] = toHub[m]
    BY <2>1, <1>a
  <2> QED BY <2>1, <2>2, <2>3, <2>4, <1>a DEF Listed
(* A side that has lost its link, or was restarted: a smaller list.          *)
<1>15. ASSUME UNCHANGED sessions \/ \E l \in Leaf : ~leafUp'[l] /\ \A m \in Leaf : m # l => sessions'[m] = sessions[m],
              party' \subseteq party, \A m \in party' : hubUp'[m],
              \A m \in Leaf : leafUp'[m] => leafUp[m],
              \A m \in Leaf : hubUp'[m] => hubUp[m] /\ toHub'[m] = toHub[m]
       PROVE  Listed'
  <2>1. \A m \in Leaf : leafUp'[m] => sessions'[m] = sessions[m]
    BY <1>15
  <2>2. ASSUME NEW m \in Leaf, leafUp'[m], hubUp'[m] PROVE PartFollows(toHub'[m], sessions'[m])
    BY <2>1, <2>2, <1>15 DEF Listed
  <2>3. ASSUME NEW m \in party', leafUp'[m]
        PROVE  sessions'[m] > 0 \/ Notice("PARTY_PART") \in Range(toHub'[m])
    BY <2>1, <2>3, <1>15, <1>a DEF Listed
  <2> QED BY <2>2, <2>3, <1>15 DEF Listed
<1>16. ASSUME NEW l \in Leaf, LeafDisconnects(l) PROVE Listed'
  <2>1. /\ leafUp' = [leafUp EXCEPT ![l] = FALSE] /\ UNCHANGED <<hubUp, toHub, party, sessions>>
    BY <1>16 DEF LeafDisconnects, LeafLoses
  <2> QED BY <2>1, <1>15, <1>a DEF Listed
<1>17. ASSUME NEW l \in Leaf, HubDisconnects(l) PROVE Listed'
  <2>1. /\ hubUp' = [hubUp EXCEPT ![l] = FALSE] /\ toHub' = [toHub EXCEPT ![l] = <<>>]
        /\ party' = party \ {l} /\ UNCHANGED <<leafUp, sessions>>
    BY <1>17 DEF HubDisconnects, CleanupLeafState
  <2> QED BY <2>1, <1>15, <1>a DEF Listed
<1>18. ASSUME NEW l \in Leaf, LeafRestarts(l) PROVE Listed'
  <2>1. /\ leafUp' = [leafUp EXCEPT ![l] = FALSE] /\ sessions' = [sessions EXCEPT ![l] = 0]
        /\ UNCHANGED <<hubUp, toHub, party>>
    BY <1>18 DEF LeafRestarts
  <2>2. ~leafUp'[l] /\ \A m \in Leaf : m # l => sessions'[m] = sessions[m]
    BY <2>1, <1>a
  <2> QED BY <2>1, <2>2, <1>15, <1>a DEF Listed
<1>19. CASE HubRestarts
  <2>1. hubUp' = [l \in Leaf |-> FALSE] /\ party' = {} /\ UNCHANGED <<leafUp, sessions>>
    BY <1>19 DEF HubRestarts
  <2> QED BY <2>1, <1>15
<1>20. CASE UNCHANGED vars
  BY <1>20, <1>u DEF vars, linkVars, cmdVars
<1> QED
  BY <1>1, <1>2, <1>3, <1>4, <1>5, <1>6, <1>7, <1>8, <1>9, <1>10, <1>12, <1>13, <1>14,
     <1>16, <1>17, <1>18, <1>19, <1>20, Zenon DEF Next

(* What every reachable state has: types, and a list that news follows.       *)
LEMMA TypesHold == Spec => [](Types /\ Listed)
<1>1. Init => Types /\ Listed
  <2>1. ASSUME Init PROVE Listed
    BY <2>1 DEF Init, LinkInit, Listed
  <2> QED BY <2>1, TypesInit
<1>2. Types /\ Listed /\ [Next]_vars => (Types /\ Listed)'
  BY TypesStep, ListedStep
<1> QED BY <1>1, <1>2, PTL DEF Spec

LEMMA TypesGive == Types => TypeOK
<1> SUFFICES ASSUME Types PROVE TypeOK
  OBVIOUS
<1>1. ASSUME NEW l \in Leaf, NEW f \in Range(toHub[l])
      PROVE  f.type \in {"CMD", "CMD_RESULT", "PARTY_WHOM", "PARTY_JOIN", "PARTY_PART"}
  <2>1. f \in Upward(restarts)[l]
    BY CarriedFrames DEF Types
  <2> QED BY <2>1, UpwardFrame, FrameFields
<1>2. ASSUME NEW l \in Leaf, NEW f \in Range(toLeaf[l])
      PROVE  f.type \in {"CMD", "CMD_RESULT", "PARTY_WHOM_REPLY"}
  <2>1. f \in Downward(restarts)[l]
    BY CarriedFrames DEF Types
  <2> QED BY <2>1, DownwardFrame
<1>3. ASSUME NEW b \in Bot, NEW p \in pending[b], NEW q \in pending[b], p.ref = q.ref PROVE p = q
  <2>1. p \in Requests(b, counter[b], restarts[b]) /\ q \in Requests(b, counter[b], restarts[b])
    BY DEF Types
  <2>2. PICK i \in 1..counter[b] : p = [ref |-> RefOf(b, i), id |-> <<b, i, restarts[b]>>]
    BY <2>1 DEF Requests
  <2>3. PICK j \in 1..counter[b] : q = [ref |-> RefOf(b, j), id |-> <<b, j, restarts[b]>>]
    BY <2>1 DEF Requests
  <2>4. i = j
    BY <2>2, <2>3, <1>3 DEF RefOf
  <2> QED BY <2>2, <2>3, <2>4
<1>4. /\ leafUp \in [Leaf -> BOOLEAN] /\ hubUp \in [Leaf -> BOOLEAN] /\ counter \in [Bot -> Nat]
      /\ \A r, s \in cmdRoutes : r.ref = s.ref => r = s
      /\ party \subseteq Leaf
  BY DEF Types
<1>5. ASSUME NEW l \in Leaf PROVE sessions[l] \in 0..MaxSessions[l]
  <2>1. sessions[l] \in Nat /\ MaxSessions[l] \in Nat /\ sessions[l] <= MaxSessions[l]
    BY DEF Types
  <2> QED BY <2>1
<1> QED BY <1>1, <1>2, <1>3, <1>4, <1>5, Zenon DEF TypeOK

(* The hub lists nobody who is not there: a user it lists has a session or the *)
(* news that it ended is on its way (cleanupLeafState, handlePartyPart), and   *)
(* requests, routes and the list keep their types.                           *)
THEOREM NoGhostsHold == Spec => []NoGhosts
<1>1. Types /\ Listed => NoGhosts
  BY TypesGive DEF Listed, NoGhosts
<1> QED BY <1>1, TypesHold, PTL

-----------------------------------------------------------------------------
(* Answers                                                                  *)

(* What has the reference of a request that a bot waits for, and was issued by *)
(* that bot, is that request's, unless the bot was restarted.                 *)
LEMMA OneRequest ==
    ASSUME Types, NEW b \in Bot, NEW req \in pending[b], NEW x, Named(x, restarts),
           x.ref = req.ref
    PROVE  /\ req.ref \in Ref /\ req.id \in Id /\ Named(req, restarts) /\ req.id[1] = b
           /\ x.id[1] = b /\ restarts[b] = 0 => x.id = req.id
           /\ b = Hub => x.id[1] = b
<1>1. /\ req \in Requests(b, counter[b], restarts[b]) /\ req \in [ref : Ref, id : Id]
      /\ restarts[b] \in Nat
  BY DEF Types
<1>2. PICK i \in 1..counter[b] : req = [ref |-> RefOf(b, i), id |-> <<b, i, restarts[b]>>]
  BY <1>1 DEF Requests
<1>3. /\ req.id[1] = b /\ req.id[2] = i /\ req.id[3] = restarts[b]
      /\ req.ref = RefOf(req.id[1], req.id[2])
  BY <1>2
<1>4. Named(req, restarts)
  BY <1>1, <1>3 DEF Named
<1>5. x.ref[1] = req.ref[1] /\ x.id[2] = i
  BY <1>3, <1>4, PlainRefs
<1>6. b = Hub => x.id[1] = b
  BY <1>3, <1>4, <1>5, PlainRefs
<1>7. ASSUME x.id[1] = b, restarts[b] = 0 PROVE x.id = req.id
  <2>1. x.id \in Bot \X Nat \X Nat /\ x.id[3] <= restarts[b]
    BY <1>7 DEF Named, Id
  <2>2. x.id[3] = 0 /\ x.id = <<x.id[1], x.id[2], x.id[3]>>
    BY <2>1, <1>7
  <2> QED BY <2>2, <1>2, <1>5, <1>7
<1> QED BY <1>1, <1>3, <1>4, <1>6, <1>7

(* An answer is only ever given to the request it answers, on a bot that has   *)
(* not been restarted, whatever was lost, delayed or timed out on the way      *)
(* (relayCommand, handleCmdRelay, onSteadyState).                            *)
THEOREM AnswersMatch == ASSUME OneAsker PROVE Spec => []AnswerMatches
<1>1. Types => AnswerMatches
  <2> SUFFICES ASSUME Types, NEW b \in Bot, restarts[b] = 0,
                      NEW f \in Answers(Incoming(b)), NEW req \in pending[b], f.ref = req.ref
               PROVE  f.id = req.id
    BY DEF AnswerMatches
  <2>1. CASE b = Hub
    <3>1. PICK l \in Leaf : f \in Range(toHub[l])
      BY <2>1 DEF Answers, Incoming
    <3>2. f \in Upward(restarts)[l]
      BY <3>1, CarriedFrames DEF Types
    <3>3. Named(f, restarts)
      BY <3>2, UpwardFrame DEF Answers, SessionNews
    <3> QED BY <2>1, <3>3, OneRequest
  <2>2. CASE b # Hub
    <3>1. b \in Leaf /\ f \in Range(toLeaf[b])
      BY <2>2, BotsAndLeaves DEF Answers, Incoming
    <3>2. f \in Downward(restarts)[b]
      BY <3>1, CarriedFrames DEF Types
    <3>3. Named(f, restarts) /\ f.id[1] = b
      BY <3>1, <3>2, DownwardFrame DEF Answers
    <3> QED BY <3>3, OneRequest
  <2> QED BY <2>1, <2>2
<1>2. Types /\ Listed => AnswerMatches
  BY <1>1
<1> QED BY <1>2, TypesHold, PTL

-----------------------------------------------------------------------------
(* Requests on their way                                                    *)

(* A frame that a step leaves on a channel shows that the request it names is    *)
(* on its way.                                                               *)
LEMMA FrameOnItsWay ==
    ASSUME NEW b \in Bot, NEW req, NEW l \in Leaf, NEW f,
           f \in Range(toHub'[l]) \/ f \in Range(toLeaf'[l]), ~SessionNews(f), f.id = req.id,
           \/ b = Hub
           \/ f \in Range(toHub'[b]) /\ f.type # "CMD_RESULT"
           \/ f \in Range(toLeaf'[b]) /\ f.type # "CMD"
           \/ [ref |-> f.ref, origin |-> b] \in cmdRoutes'
    PROVE  OnItsWay(b, req)'
<1>1. f.type \notin {"PARTY_JOIN", "PARTY_PART"} /\ f \in Range(toHub'[l]) \cup Range(toLeaf'[l])
  BY DEF SessionNews
<1> QED BY <1>1 DEF OnItsWay

(* A request stays on its way when everything that shows that it is stays, or  *)
(* is replaced by something else that shows it.                              *)
LEMMA StillOnItsWay ==
    ASSUME Types, NEW b \in Bot, NEW req \in pending[b], OnItsWay(b, req),
           \A l \in Leaf : \A f \in Range(toHub[l]) : ~SessionNews(f) /\ f.id = req.id =>
               \/ f \in Range(toHub'[l]) \/ OnItsWay(b, req)'
               \/ /\ f.type = "CMD_RESULT" /\ b # Hub
                  /\ [ref |-> req.ref, origin |-> b] \notin cmdRoutes,
           \A l \in Leaf : \A f \in Range(toLeaf[l]) : ~SessionNews(f) /\ f.id = req.id =>
               \/ f \in Range(toLeaf'[l]) \/ OnItsWay(b, req)'
               \/ /\ f.type = "CMD" /\ b # Hub
                  /\ [ref |-> req.ref, origin |-> b] \notin cmdRoutes,
           \A c \in Bot : \A cmd \in running[c] : cmd.req.id = req.id =>
               \/ cmd \in running'[c] \/ OnItsWay(b, req)'
               \/ /\ cmd.from # b /\ b # Hub
                  /\ [ref |-> req.ref, origin |-> b] \notin cmdRoutes,
           [ref |-> req.ref, origin |-> b] \in cmdRoutes =>
               [ref |-> req.ref, origin |-> b] \in cmdRoutes' \/ OnItsWay(b, req)'
    PROVE  OnItsWay(b, req)'
<1> SUFFICES ASSUME ~OnItsWay(b, req)' PROVE FALSE
  OBVIOUS
<1> DEFINE route == [ref |-> req.ref, origin |-> b]
<1>1. Named(req, restarts)
  <2>1. req \in Requests(b, counter[b], restarts[b]) /\ req \in [ref : Ref, id : Id] /\ restarts[b] \in Nat
    BY DEF Types
  <2> QED BY <2>1 DEF Requests, Named
<1>2. ASSUME NEW l \in Leaf, NEW f \in Range(toHub[l]) \cup Range(toLeaf[l]), ~SessionNews(f),
             f.id = req.id
      PROVE  f.ref = req.ref
  <2>1. Named(f, restarts)
    <3>1. f \in Upward(restarts)[l] \/ f \in Downward(restarts)[l]
      BY CarriedFrames DEF Types
    <3> QED BY <3>1, <1>2, UpwardFrame, DownwardFrame
  <2> QED BY <2>1, <1>1, <1>2 DEF Named
<1>3. ASSUME NEW l \in Leaf, NEW f, f \in Range(toHub'[l]) \cup Range(toLeaf'[l]), ~SessionNews(f),
             f.id = req.id,
             \/ b = Hub
             \/ f \in Range(toHub'[b]) /\ f.type # "CMD_RESULT"
             \/ f \in Range(toLeaf'[b]) /\ f.type # "CMD"
             \/ f.ref = req.ref /\ route \in cmdRoutes'
      PROVE  FALSE
  BY <1>3 DEF OnItsWay, SessionNews
<1>4. ASSUME NEW c \in Bot, NEW cmd \in running'[c], cmd.req.id = req.id,
             b = Hub \/ cmd.from = b \/ route \in cmdRoutes'
      PROVE  FALSE
  BY <1>4 DEF OnItsWay
<1>5. \A l \in Leaf : \A f \in Range(toHub[l]) : ~SessionNews(f) /\ f.id = req.id =>
          f \in Range(toHub'[l]) \/ (f.type = "CMD_RESULT" /\ b # Hub /\ route \notin cmdRoutes)
  OBVIOUS
<1>6. \A l \in Leaf : \A f \in Range(toLeaf[l]) : ~SessionNews(f) /\ f.id = req.id =>
          f \in Range(toLeaf'[l]) \/ (f.type = "CMD" /\ b # Hub /\ route \notin cmdRoutes)
  OBVIOUS
<1>7. \A c \in Bot : \A cmd \in running[c] : cmd.req.id = req.id =>
          cmd \in running'[c] \/ (cmd.from # b /\ b # Hub /\ route \notin cmdRoutes)
  OBVIOUS
<1>8. route \in cmdRoutes => route \in cmdRoutes'
  OBVIOUS
<1> HIDE DEF route
<1>9. ASSUME NEW l \in Leaf, NEW f \in Range(toHub[l]) \cup Range(toLeaf[l]),
             ~SessionNews(f), f.id = req.id,
             \/ b = Hub
             \/ f \in Range(toHub[b]) /\ f.type # "CMD_RESULT"
             \/ f \in Range(toLeaf[b]) /\ f.type # "CMD"
             \/ [ref |-> f.ref, origin |-> b] \in cmdRoutes
      PROVE  FALSE
  <2>1. f.ref = req.ref /\ [ref |-> f.ref, origin |-> b] = route
    BY <1>2, <1>9 DEF route
  <2>2. CASE b = Hub
    BY <2>2, <1>3, <1>5, <1>6, <1>9
  <2>3. CASE b # Hub /\ f \in Range(toHub[b]) /\ f.type # "CMD_RESULT"
    <3>1. b \in Leaf
      BY <2>3, BotsAndLeaves
    <3> QED BY <3>1, <2>3, <1>3, <1>5, <1>9
  <2>4. CASE b # Hub /\ f \in Range(toLeaf[b]) /\ f.type # "CMD"
    <3>1. b \in Leaf
      BY <2>4, BotsAndLeaves
    <3> QED BY <3>1, <2>4, <1>3, <1>6, <1>9
  <2>5. CASE route \in cmdRoutes
    BY <2>1, <2>5, <1>3, <1>5, <1>6, <1>8, <1>9
  <2> QED BY <2>1, <2>2, <2>3, <2>4, <2>5, <1>9
<1>10. ASSUME NEW c \in Bot, NEW cmd \in running[c], cmd.req.id = req.id,
              b = Hub \/ cmd.from = b \/ route \in cmdRoutes
       PROVE  FALSE
  BY <1>4, <1>7, <1>8, <1>10
<1>11. \/ \E l \in Leaf : \E f \in Range(toHub[l]) \cup Range(toLeaf[l]) :
            /\ ~SessionNews(f) /\ f.id = req.id
            /\ \/ b = Hub
               \/ f \in Range(toHub[b]) /\ f.type # "CMD_RESULT"
               \/ f \in Range(toLeaf[b]) /\ f.type # "CMD"
               \/ [ref |-> f.ref, origin |-> b] \in cmdRoutes
       \/ \E c \in Bot : \E cmd \in running[c] :
            /\ cmd.req.id = req.id
            /\ b = Hub \/ cmd.from = b \/ route \in cmdRoutes
  BY DEF OnItsWay, SessionNews, route
<1> QED BY <1>9, <1>10, <1>11

Channels(ch) == ch \in [Leaf -> Seq(Frame)]

LEMMA Sent ==
    ASSUME NEW ch, Channels(ch), NEW f \in Frame, NEW b, NEW more,
           more = HubSends(ch, b, f) \/ (b \in Leaf /\ more = LeafSends(ch, b, f))
    PROVE  /\ \A m \in Leaf : Range(ch[m]) \subseteq Range(more[m])
           /\ \A m \in Leaf : ~(leafUp[m] /\ hubUp[m]) => more[m] = ch[m]
           /\ b \in Leaf /\ leafUp[b] /\ hubUp[b] => f \in Range(more[b])
<1>1. \A m \in Leaf : Range(Append(ch[m], f)) = Range(ch[m]) \cup {f}
  BY RangeAppend DEF Channels
<1>2. \A m \in Leaf : more[m] = IF m = b /\ leafUp[m] /\ hubUp[m] THEN Append(ch[m], f) ELSE ch[m]
  BY DEF HubSends, LeafSends, Channels
<1> QED BY <1>1, <1>2

LEMMA Read ==
    ASSUME NEW ch, Channels(ch), NEW l \in Leaf, ch[l] # <<>>
    PROVE  /\ \A m \in Leaf : \A f \in Range(ch[m]) :
                f \in Range(Take(ch, l)[m]) \/ (m = l /\ f = Head(ch[l]))
           /\ \A m \in Leaf : m # l => Take(ch, l)[m] = ch[m]
<1>1. Range(ch[l]) = {Head(ch[l])} \cup Range(Tail(ch[l]))
  BY RangeTail DEF Channels
<1>2. \A m \in Leaf : Take(ch, l)[m] = IF m = l THEN Tail(ch[m]) ELSE ch[m]
  BY DEF Take, Channels
<1> QED BY <1>1, <1>2

(* What the proof of the step below needs of the bots, the links and what      *)
(* they carry as long as there was no fault.                                 *)
LEMMA NoFaultYet ==
    ASSUME Types, Faultless, faults = 0
    PROVE  /\ \A l \in Leaf : leafUp[l] = hubUp[l]
           /\ \A b \in Bot : restarts[b] = 0
           /\ \A l \in Leaf : pending[l] # {} \/ running[l] # {} => leafUp[l] /\ hubUp[l]
  BY BotsAndLeaves DEF Faultless, Types

LEMMA WayStep ==
    ASSUME OneAsker, Types, Faultless, NotForgotten, [Next]_vars
    PROVE  Faultless' /\ NotForgotten'
<1>a. /\ leafUp \in [Leaf -> BOOLEAN] /\ hubUp \in [Leaf -> BOOLEAN]
      /\ Carries(toHub, Upward(restarts)) /\ Carries(toLeaf, Downward(restarts))
      /\ toHub \in [Leaf -> Seq(Frame)] /\ toLeaf \in [Leaf -> Seq(Frame)]
      /\ pending \in [Bot -> SUBSET [ref : Ref, id : Id]]
      /\ running \in [Bot -> SUBSET [from : Bot, req : Frame]]
      /\ faults \in Nat
  BY DEF Types, Carries
<1>d. /\ \A r \in cmdRoutes : r = [ref |-> r.ref, origin |-> r.origin]
      /\ \A r, s \in cmdRoutes : r.ref = s.ref => r = s
  <2>1. /\ cmdRoutes \subseteq [ref : {""} \X Nat, origin : Routed]
        /\ \A r, s \in cmdRoutes : r.ref = s.ref => r = s
    BY DEF Types
  <2>2. ASSUME NEW A, NEW B, NEW r \in [ref : A, origin : B]
        PROVE  r = [ref |-> r.ref, origin |-> r.origin]
    OBVIOUS
  <2> QED BY <2>1, <2>2
<1>f. Fault => faults' # 0
  BY <1>a DEF Fault
<1> SUFFICES ASSUME faults' = 0 PROVE Faultless' /\ NotForgotten'
  BY DEF Faultless, NotForgotten
(* A leaf that has no link stays idle, and each request stays on its way.      *)
<1>b. ASSUME faults = 0, UNCHANGED <<leafUp, hubUp, restarts>>,
             \A l \in Leaf : ~leafUp[l] =>
                /\ pending'[l] \subseteq pending[l] /\ running'[l] \subseteq running[l]
                /\ toHub'[l] = toHub[l] /\ toLeaf'[l] = toLeaf[l],
             \A b \in Bot : \A req \in pending'[b] : OnItsWay(b, req)'
      PROVE  Faultless' /\ NotForgotten'
  BY <1>b DEF Faultless, NotForgotten
<1>c. ASSUME faults = 0, UNCHANGED <<leafUp, hubUp, restarts>>
      PROVE  /\ \A l \in Leaf : leafUp[l] = hubUp[l]
             /\ \A b \in Bot : restarts[b] = 0
             /\ \A l \in Leaf : pending[l] # {} \/ running[l] # {} => leafUp[l] /\ hubUp[l]
             /\ \A b \in Bot : \A req \in pending[b] : OnItsWay(b, req)
  BY <1>c, NoFaultYet DEF NotForgotten
(* What is sent to or from a leaf that is linked is on its way.               *)
<1>h. ASSUME NEW l \in Leaf, NEW f \in Frame,
             toHub' = LeafSends(toHub, l, f)
      PROVE  /\ \A m \in Leaf : Range(toHub[m]) \subseteq Range(toHub'[m])
             /\ \A m \in Leaf : ~(leafUp[m] /\ hubUp[m]) => toHub'[m] = toHub[m]
             /\ leafUp[l] /\ hubUp[l] => f \in Range(toHub'[l])
  <2>1. Channels(toHub)
    BY <1>a DEF Channels
  <2>2. toHub' = HubSends(toHub, l, f) \/ (l \in Leaf /\ toHub' = LeafSends(toHub, l, f))
    BY <1>h
  <2>3. /\ \A m \in Leaf : Range(toHub[m]) \subseteq Range(toHub'[m])
        /\ \A m \in Leaf : ~(leafUp[m] /\ hubUp[m]) => toHub'[m] = toHub[m]
        /\ l \in Leaf /\ leafUp[l] /\ hubUp[l] => f \in Range(toHub'[l])
    BY <2>1, <2>2, Sent, Zenon
  <2> QED BY <2>3
<1>l. ASSUME NEW b \in Bot, NEW f \in Frame,
             toLeaf' = HubSends(toLeaf, b, f)
      PROVE  /\ \A m \in Leaf : Range(toLeaf[m]) \subseteq Range(toLeaf'[m])
             /\ \A m \in Leaf : ~(leafUp[m] /\ hubUp[m]) => toLeaf'[m] = toLeaf[m]
             /\ b \in Leaf /\ leafUp[b] /\ hubUp[b] => f \in Range(toLeaf'[b])
  <2>1. Channels(toLeaf)
    BY <1>a DEF Channels
  <2> QED BY <1>l, <2>1, Sent
(* Whoever is asked, the request of b goes out in a frame.                    *)
<1>r. ASSUME NEW b \in Bot, NEW x, pending' = [pending EXCEPT ![b] = @ \cup {x}],
             UNCHANGED <<leafUp, hubUp, running, cmdRoutes, restarts, faults>>,
             \A m \in Leaf : /\ Range(toHub[m]) \subseteq Range(toHub'[m])
                             /\ Range(toLeaf[m]) \subseteq Range(toLeaf'[m])
                             /\ ~(leafUp[m] /\ hubUp[m]) => toHub'[m] = toHub[m] /\ toLeaf'[m] = toLeaf[m],
             b \in Leaf => leafUp[b],
             OnItsWay(b, x)'
      PROVE  Faultless' /\ NotForgotten'
  <2>1. faults = 0
    BY <1>r
  <2>2. ASSUME NEW c \in Bot, NEW req \in pending'[c] PROVE OnItsWay(c, req)'
    <3>1. req \in pending[c] \/ (c = b /\ req = x)
      BY <1>r, <1>a
    <3>2. CASE req \in pending[c]
      BY <3>2, <2>1, <1>r, <1>c, StillOnItsWay
    <3> QED BY <3>1, <3>2, <1>r
  <2>3. \A l \in Leaf : ~leafUp[l] => pending'[l] \subseteq pending[l]
    BY <1>r, <1>a
  <2> QED BY <2>1, <2>2, <2>3, <1>b, <1>r
<1>1. ASSUME NEW l \in Leaf, NEW to \in {Hub} \cup (IF l \in Routed THEN Leaf \ {l} ELSE {}), Ask(l, to)
      PROVE  Faultless' /\ NotForgotten'
  <2>0. PICK x : x = Request(l)
    OBVIOUS
  <2> DEFINE f == Cmd(x, to)
  <2>1. l \in Bot /\ to \in Bot /\ leafUp[l] /\ faults = 0
        /\ pending' = [pending EXCEPT ![l] = @ \cup {x}] /\ toHub' = LeafSends(toHub, l, f)
        /\ UNCHANGED <<leafUp, hubUp, toLeaf, running, cmdRoutes, restarts, faults>>
    BY <2>0, <1>1, BotsAndLeaves DEF Ask, Issue
  <2>2. x.ref \in Ref /\ x.id \in Id
    BY <2>0, <2>1, NewRequest
  <2>3. f \in Frame /\ f.type = "CMD" /\ f.id = x.id
    BY <2>1, <2>2, FramesNamed
  <2> HIDE DEF f
  <2>4. hubUp[l]
    BY <2>1, <1>c
  <2>5. OnItsWay(l, x)'
    <3>1. f \in Range(toHub'[l])
      BY <2>1, <2>3, <2>4, <1>h
    <3> QED BY <3>1, <2>3 DEF OnItsWay
  <2> QED BY <2>1, <2>3, <2>5, <1>h, <1>r
<1>2. ASSUME NEW l \in Leaf, AskWhom(l) PROVE Faultless' /\ NotForgotten'
  <2>0. PICK x : x = Request(l)
    OBVIOUS
  <2> DEFINE f == Whom(x)
  <2>1. l \in Bot /\ leafUp[l] /\ faults = 0
        /\ pending' = [pending EXCEPT ![l] = @ \cup {x}] /\ toHub' = LeafSends(toHub, l, f)
        /\ UNCHANGED <<leafUp, hubUp, toLeaf, running, cmdRoutes, restarts, faults>>
    BY <2>0, <1>2, BotsAndLeaves DEF AskWhom, Issue
  <2>2. x.ref \in Ref /\ x.id \in Id
    BY <2>0, <2>1, NewRequest
  <2>3. f \in Frame /\ f.type = "PARTY_WHOM" /\ f.id = x.id
    BY <2>1, <2>2, FramesNamed
  <2> HIDE DEF f
  <2>4. hubUp[l]
    BY <2>1, <1>c
  <2>5. OnItsWay(l, x)'
    <3>1. f \in Range(toHub'[l])
      BY <2>1, <2>3, <2>4, <1>h
    <3> QED BY <3>1, <2>3 DEF OnItsWay
  <2> QED BY <2>1, <2>3, <2>5, <1>h, <1>r
<1>3. ASSUME NEW l \in Leaf, HubAsk(l) PROVE Faultless' /\ NotForgotten'
  <2>0. PICK x : x = Request(Hub)
    OBVIOUS
  <2> DEFINE f == Cmd(x, l)
  <2>1. l \in Bot /\ Hub \in Bot /\ Hub \notin Leaf /\ hubUp[l] /\ faults = 0
        /\ pending' = [pending EXCEPT ![Hub] = @ \cup {x}] /\ toLeaf' = HubSends(toLeaf, l, f)
        /\ UNCHANGED <<leafUp, hubUp, toHub, running, cmdRoutes, restarts, faults>>
    BY <2>0, <1>3, BotsAndLeaves DEF HubAsk, Issue
  <2>2. x.ref \in Ref /\ x.id \in Id
    BY <2>0, <2>1, NewRequest
  <2>3. f \in Frame /\ f.type = "CMD" /\ f.id = x.id
    BY <2>1, <2>2, FramesNamed
  <2> HIDE DEF f
  <2>4. leafUp[l]
    BY <2>1, <1>c
  <2>5. OnItsWay(Hub, x)'
    <3>1. f \in Range(toLeaf'[l])
      BY <2>1, <2>3, <2>4, <1>l
    <3> QED BY <3>1, <2>3 DEF OnItsWay
  <2> QED BY <2>1, <2>3, <2>5, <1>l, <1>r
(* The hub or a leaf reads a frame or finishes a command: nobody waits for    *)
(* anything new.                                                            *)
<1>w. ASSUME faults = 0, UNCHANGED <<leafUp, hubUp, restarts>>,
             \A c \in Bot : pending'[c] \subseteq pending[c],
             \A l \in Leaf : ~leafUp[l] =>
                /\ running'[l] \subseteq running[l]
                /\ toHub'[l] = toHub[l] /\ toLeaf'[l] = toLeaf[l],
             ASSUME NEW b \in Bot, NEW req \in pending'[b], req \in pending[b], OnItsWay(b, req),
                    b \in Leaf => leafUp[b] /\ hubUp[b]
             PROVE  OnItsWay(b, req)'
      PROVE  Faultless' /\ NotForgotten'
  <2>1. \A b \in Bot : \A req \in pending'[b] : OnItsWay(b, req)'
    <3> TAKE b \in Bot
    <3> TAKE req \in pending'[b]
    <3>1. req \in pending[b] /\ OnItsWay(b, req) /\ (b \in Leaf => leafUp[b] /\ hubUp[b])
      BY <1>w, <1>c, BotsAndLeaves
    <3> QED BY <3>1, <1>w
  <2>2. \A l \in Leaf : pending'[l] \subseteq pending[l]
    BY <1>w, BotsAndLeaves
  <2> QED BY <2>1, <2>2, <1>b, <1>w
(* Who a command, a listing or an answer of l is for.                        *)
<1>n. ASSUME NEW b \in Bot, NEW req \in pending[b]
      PROVE  /\ req.id[1] = b /\ req.id \in Id /\ req.ref \in Ref
             /\ \A x : Named(x, restarts) /\ x.id = req.id => x.ref = req.ref
             /\ \A x : Named(x, restarts) /\ x.ref = req.ref /\ x.id[1] = b /\ restarts[b] = 0 => x.id = req.id
             /\ b = Hub => \A x : Named(x, restarts) /\ x.ref = req.ref => x.id[1] = Hub
  <2>1. Named(req, restarts) /\ req.id[1] = b /\ req.id \in Id /\ req.ref \in Ref
    <3>1. req \in Requests(b, counter[b], restarts[b]) /\ req \in [ref : Ref, id : Id] /\ restarts[b] \in Nat
      BY DEF Types
    <3> QED BY <3>1 DEF Requests, Named
  <2>2. \A x : Named(x, restarts) /\ x.id = req.id => x.ref = req.ref
    BY <2>1 DEF Named
  <2> QED BY <2>1, <2>2, OneRequest
<1>4. ASSUME NEW l \in Leaf, HubCmd(l) PROVE Faultless' /\ NotForgotten'
  <2> DEFINE f == Head(toHub[l])
  <2>1. /\ toHub[l] # <<>> /\ f.type = "CMD" /\ hubUp[l]
        /\ toHub' = Take(toHub, l) /\ UNCHANGED <<leafUp, hubUp, pending, restarts>>
        /\ \/ /\ f.to # Hub /\ ~hubUp[f.to]
              /\ toLeaf' = HubSends(toLeaf, l, Result(f))
              /\ UNCHANGED <<running, cmdRoutes, faults>>
           \/ /\ f.to # Hub /\ hubUp[f.to]
              /\ cmdRoutes' = RouteVia(f.ref, l, f.to)
              /\ toLeaf' = HubSends(toLeaf, f.to, f)
              /\ UNCHANGED <<running, faults>>
           \/ /\ f.to = Hub
              /\ toLeaf' = HubSends(toLeaf, l, Result(f))
              /\ UNCHANGED <<running, cmdRoutes, faults>>
           \/ /\ f.to = Hub
              /\ running' = [running EXCEPT ![Hub] = @ \cup {[from |-> l, req |-> f]}]
              /\ UNCHANGED <<toLeaf, cmdRoutes, faults>>
    BY <1>4, <1>f DEF HubCmd, HubReads
  <2>2. f \in Frame /\ f.ref \in Ref /\ f.id \in Id /\ Named(f, restarts) /\ f.id[1] = l
        /\ (f.to # Hub => f.to \in Leaf /\ l \in Routed)
    <3>1. f \in Upward(restarts)[l]
      BY <2>1, <1>a, ReadsCarry
    <3> QED BY <3>1, <2>1, UpwardFrame DEF SessionNews
  <2>3. /\ \A m \in Leaf : \A g \in Range(toHub[m]) : g \in Range(toHub'[m]) \/ g = f
        /\ \A m \in Leaf : m # l => toHub'[m] = toHub[m]
    <3>1. Channels(toHub) /\ toHub[l] # <<>> /\ toHub' = Take(toHub, l)
      BY <2>1, <1>a DEF Channels
    <3> QED BY <3>1, Read
  <2> HIDE DEF f
  <2>4. /\ Result(f) \in Frame /\ Result(f).type = "CMD_RESULT" /\ Result(f).id = f.id
    BY <2>2, FramesNamed
  <2>5. faults = 0 /\ UNCHANGED <<leafUp, hubUp, restarts>> /\ leafUp[l]
        /\ \A c \in Bot : restarts[c] = 0
    BY <2>1, <1>c
(* The request of l that f carries goes on, and no other loses anything.       *)
  <2>6. ASSUME \A m \in Leaf : Range(toLeaf[m]) \subseteq Range(toLeaf'[m]),
               \A m \in Leaf : ~(leafUp[m] /\ hubUp[m]) => toLeaf'[m] = toLeaf[m],
               \A c \in Bot : running[c] \subseteq running'[c],
               \A m \in Leaf : running'[m] = running[m],
               \A r \in cmdRoutes : r \in cmdRoutes' \/ (r.ref = f.ref /\ r.origin # l),
               cmdRoutes' = cmdRoutes \/ l \in Routed,
               ASSUME NEW req \in pending[l], req.id = f.id, leafUp[l], hubUp[l]
               PROVE  OnItsWay(l, req)'
        PROVE  Faultless' /\ NotForgotten'
    <3> SUFFICES ASSUME NEW b \in Bot, NEW req \in pending'[b], req \in pending[b], OnItsWay(b, req),
                        b \in Leaf => leafUp[b] /\ hubUp[b]
                 PROVE  OnItsWay(b, req)'
      BY <2>1, <2>3, <2>5, <2>6, <1>w
    <3>1. req.id = f.id => OnItsWay(b, req)'
      <4> SUFFICES ASSUME req.id = f.id PROVE OnItsWay(b, req)'
        OBVIOUS
      <4>1. b = l
        BY <2>2, <1>n
      <4> QED BY <4>1, <2>5, <2>6, <2>1
    <3>2. [ref |-> req.ref, origin |-> b] \in cmdRoutes => [ref |-> req.ref, origin |-> b] \in cmdRoutes'
      <4> SUFFICES ASSUME [ref |-> req.ref, origin |-> b] \in cmdRoutes,
                          [ref |-> req.ref, origin |-> b] \notin cmdRoutes'
                   PROVE  FALSE
        OBVIOUS
      <4>1. b # l /\ l \in Routed
        BY <2>6
      <4>2. b \in Routed
        BY DEF Types
      <4> QED BY <4>1, <4>2 DEF OneAsker
    <3>3. \A m \in Leaf : \A g \in Range(toHub[m]) : g.id = req.id => g \in Range(toHub'[m]) \/ OnItsWay(b, req)'
      BY <3>1, <2>3
    <3>4. /\ \A m \in Leaf : \A g \in Range(toLeaf[m]) : g \in Range(toLeaf'[m])
          /\ \A c \in Bot : \A cmd \in running[c] : cmd \in running'[c]
      BY <2>6
    <3> QED BY <3>2, <3>3, <3>4, StillOnItsWay
  <2>7. CASE toLeaf' = HubSends(toLeaf, l, Result(f)) /\ UNCHANGED <<running, cmdRoutes>>
    <3>1. /\ \A m \in Leaf : Range(toLeaf[m]) \subseteq Range(toLeaf'[m])
          /\ \A m \in Leaf : ~(leafUp[m] /\ hubUp[m]) => toLeaf'[m] = toLeaf[m]
          /\ leafUp[l] /\ hubUp[l] => Result(f) \in Range(toLeaf'[l])
      BY <2>4, <2>7, <1>l, BotsAndLeaves, Zenon
    <3>2. ASSUME NEW req \in pending[l], req.id = f.id, leafUp[l], hubUp[l]
          PROVE  OnItsWay(l, req)'
      BY <3>1, <3>2, <2>4 DEF OnItsWay
    <3> QED BY <3>1, <3>2, <2>7, <2>6
  <2>8. CASE /\ f.to # Hub /\ hubUp[f.to] /\ cmdRoutes' = RouteVia(f.ref, l, f.to)
             /\ toLeaf' = HubSends(toLeaf, f.to, f) /\ UNCHANGED running
    <3>1. f.to \in Leaf /\ f.to \in Bot /\ leafUp[f.to] /\ l \in Routed
      BY <2>2, <2>5, <2>8, <1>c, BotsAndLeaves
    <3>2. /\ \A m \in Leaf : Range(toLeaf[m]) \subseteq Range(toLeaf'[m])
          /\ \A m \in Leaf : ~(leafUp[m] /\ hubUp[m]) => toLeaf'[m] = toLeaf[m]
          /\ f \in Range(toLeaf'[f.to])
      BY <3>1, <2>2, <2>8, <1>l
    <3>3. [ref |-> f.ref, origin |-> l] \in cmdRoutes'
      BY <2>8 DEF RouteVia
    <3>4. ASSUME NEW req \in pending[l], req.id = f.id
          PROVE  OnItsWay(l, req)'
      BY <3>1, <3>2, <3>3, <3>4, <2>1, <2>4 DEF OnItsWay
    <3>5. \A r \in cmdRoutes : r \in cmdRoutes' \/ (r.ref = f.ref /\ r.origin # l)
      <4>1. \A r \in cmdRoutes : r.ref = f.ref /\ r.origin = l => r = [ref |-> f.ref, origin |-> l]
        BY <1>d
      <4> QED BY <4>1, <3>3, <2>8 DEF RouteVia
    <3> QED BY <3>1, <3>2, <3>4, <3>5, <2>8, <2>6
  <2>9. CASE running' = [running EXCEPT ![Hub] = @ \cup {[from |-> l, req |-> f]}]
             /\ UNCHANGED <<toLeaf, cmdRoutes>>
    <3>1. /\ \A c \in Bot : running[c] \subseteq running'[c]
          /\ \A m \in Leaf : running'[m] = running[m]
          /\ [from |-> l, req |-> f] \in running'[Hub]
      BY <2>9, <1>a, BotsAndLeaves
    <3>2. ASSUME NEW req \in pending[l], req.id = f.id
          PROVE  OnItsWay(l, req)'
      <4> DEFINE cmd == [from |-> l, req |-> f]
      <4>1. cmd.req.id = req.id /\ cmd.from = l
        BY <3>2
      <4>2. cmd \in UNION {running'[c] : c \in Bot}
        BY <3>1, BotsAndLeaves
      <4> HIDE DEF cmd
      <4> QED BY <4>1, <4>2 DEF OnItsWay
    <3> QED BY <3>1, <3>2, <2>9, <2>6
  <2> QED BY <2>1, <2>7, <2>8, <2>9
<1>5. ASSUME NEW l \in Leaf, HubResult(l) PROVE Faultless' /\ NotForgotten'
  <2> DEFINE f == Head(toHub[l])
             routes == {r \in cmdRoutes : r.ref = f.ref}
  <2>1. /\ toHub[l] # <<>> /\ f.type = "CMD_RESULT" /\ hubUp[l]
        /\ toHub' = Take(toHub, l) /\ UNCHANGED <<leafUp, hubUp, running, restarts, faults>>
        /\ \/ /\ Waiting(Hub, f.ref) # {}
              /\ pending' = [pending EXCEPT ![Hub] = @ \ Waiting(Hub, f.ref)]
              /\ UNCHANGED <<toLeaf, cmdRoutes>>
           \/ /\ Waiting(Hub, f.ref) = {} /\ routes # {}
              /\ cmdRoutes' = cmdRoutes \ routes
              /\ \E r \in routes : toLeaf' = HubSends(toLeaf, r.origin, f)
              /\ UNCHANGED pending
           \/ /\ Waiting(Hub, f.ref) = {} /\ routes = {}
              /\ UNCHANGED <<toLeaf, pending, cmdRoutes>>
    BY <1>5 DEF HubResult, HubReads, Resolve
  <2>2. f \in Frame /\ f.ref \in Ref /\ f.id \in Id /\ Named(f, restarts) /\ Asks(f.id[1])
    <3>1. f \in Upward(restarts)[l]
      BY <2>1, <1>a, ReadsCarry
    <3> QED BY <3>1, <2>1, UpwardFrame DEF SessionNews
  <2>3. /\ \A m \in Leaf : \A g \in Range(toHub[m]) : g \in Range(toHub'[m]) \/ g = f
        /\ \A m \in Leaf : m # l => toHub'[m] = toHub[m]
    <3>1. Channels(toHub) /\ toHub[l] # <<>> /\ toHub' = Take(toHub, l)
      BY <2>1, <1>a DEF Channels
    <3> QED BY <3>1, Read
  <2> HIDE DEF f
  <2>4. faults = 0 /\ UNCHANGED <<leafUp, hubUp, restarts>> /\ leafUp[l]
        /\ \A c \in Bot : restarts[c] = 0
    BY <2>1, <1>c
  <2>5. CASE /\ Waiting(Hub, f.ref) # {}
             /\ pending' = [pending EXCEPT ![Hub] = @ \ Waiting(Hub, f.ref)]
             /\ UNCHANGED <<toLeaf, cmdRoutes>>
    <3>1. \A c \in Bot : pending'[c] \subseteq pending[c]
      BY <2>5, <1>a
    <3>2. f.id[1] = Hub
      <4>1. PICK q \in pending[Hub] : q.ref = f.ref
        BY <2>5 DEF Waiting
      <4> QED BY <4>1, <2>2, <1>n, BotsAndLeaves
    <3>3. ASSUME NEW b \in Bot, NEW req \in pending'[b], req \in pending[b], req.id = f.id PROVE FALSE
      <4>1. b = Hub /\ req.ref = f.ref
        BY <3>2, <3>3, <2>2, <1>n
      <4> QED BY <4>1, <3>3, <2>5, <1>a DEF Waiting
    <3>4. ASSUME NEW b \in Bot, NEW req \in pending'[b], req \in pending[b], OnItsWay(b, req)
          PROVE  OnItsWay(b, req)'
      <4>1. \A m \in Leaf : \A g \in Range(toHub[m]) : g.id = req.id => g \in Range(toHub'[m])
        BY <2>3, <3>3, <3>4
      <4> QED BY <4>1, <3>4, <2>1, <2>5, StillOnItsWay
    <3> QED BY <3>1, <3>4, <2>1, <2>3, <2>4, <2>5, <1>w
  <2>6. CASE /\ Waiting(Hub, f.ref) = {} /\ routes # {}
             /\ cmdRoutes' = cmdRoutes \ routes
             /\ \E r \in routes : toLeaf' = HubSends(toLeaf, r.origin, f)
             /\ UNCHANGED pending
    <3>1. PICK r \in cmdRoutes : r.ref = f.ref /\ toLeaf' = HubSends(toLeaf, r.origin, f)
      BY <2>6
    <3>2. r.origin \in Leaf /\ r.origin \in Bot /\ r.origin = f.id[1]
      BY <3>1, <2>2, RouteLeads, BotsAndLeaves
    <3>3. /\ \A m \in Leaf : Range(toLeaf[m]) \subseteq Range(toLeaf'[m])
          /\ \A m \in Leaf : ~(leafUp[m] /\ hubUp[m]) => toLeaf'[m] = toLeaf[m]
          /\ leafUp[r.origin] /\ hubUp[r.origin] => f \in Range(toLeaf'[r.origin])
      BY <3>1, <3>2, <2>2, <1>l
    <3>4. ASSUME NEW b \in Bot, NEW req \in pending'[b], req \in pending[b], OnItsWay(b, req),
                 b \in Leaf => leafUp[b] /\ hubUp[b]
          PROVE  OnItsWay(b, req)'
      <4>1. ASSUME req.id = f.id PROVE OnItsWay(b, req)'
        <5>1. b = r.origin
          BY <4>1, <3>2, <3>4, <1>n
        <5>2. f \in Range(toLeaf'[b])
          BY <5>1, <3>2, <3>3, <3>4
        <5> QED BY <4>1, <5>1, <5>2, <3>2, <2>1 DEF OnItsWay
      <4>2. ASSUME [ref |-> req.ref, origin |-> b] \in cmdRoutes, req.ref = f.ref PROVE req.id = f.id
        <5>1. b = r.origin
          BY <4>2, <3>1, <1>d
        <5> QED BY <4>2, <5>1, <3>2, <3>4, <2>2, <2>4, <1>n
      <4>3. [ref |-> req.ref, origin |-> b] \in cmdRoutes =>
                [ref |-> req.ref, origin |-> b] \in cmdRoutes' \/ OnItsWay(b, req)'
        BY <4>1, <4>2, <2>6
      <4>4. \A m \in Leaf : \A g \in Range(toHub[m]) : g.id = req.id => g \in Range(toHub'[m]) \/ OnItsWay(b, req)'
        BY <4>1, <2>3
      <4>5. /\ \A m \in Leaf : \A g \in Range(toLeaf[m]) : g \in Range(toLeaf'[m])
            /\ \A c \in Bot : \A cmd \in running[c] : cmd \in running'[c]
        BY <3>3, <2>1
      <4> QED BY <4>3, <4>4, <4>5, <3>4, StillOnItsWay
    <3>5. \A c \in Bot : pending'[c] \subseteq pending[c]
      BY <2>6
    <3> QED BY <3>3, <3>4, <3>5, <2>1, <2>3, <2>4, <1>w
  <2>7. CASE Waiting(Hub, f.ref) = {} /\ routes = {} /\ UNCHANGED <<toLeaf, pending, cmdRoutes>>
    <3>1. ASSUME NEW b \in Bot, NEW req \in pending'[b], req \in pending[b], OnItsWay(b, req)
          PROVE  OnItsWay(b, req)'
      <4>1. ASSUME req.id = f.id PROVE b # Hub /\ [ref |-> req.ref, origin |-> b] \notin cmdRoutes
        <5>1. req.ref = f.ref
          BY <4>1, <3>1, <2>2, <1>n
        <5>2. b # Hub
          BY <5>1, <3>1, <2>7 DEF Waiting
        <5> QED BY <5>1, <5>2, <2>7
      <4>2. \A m \in Leaf : \A g \in Range(toHub[m]) : g.id = req.id =>
                \/ g \in Range(toHub'[m])
                \/ g.type = "CMD_RESULT" /\ b # Hub /\ [ref |-> req.ref, origin |-> b] \notin cmdRoutes
        BY <4>1, <2>1, <2>3
      <4> QED BY <4>2, <3>1, <2>1, <2>7, StillOnItsWay
    <3>2. \A c \in Bot : pending'[c] \subseteq pending[c]
      BY <2>7
    <3> QED BY <3>1, <3>2, <2>1, <2>3, <2>4, <2>7, <1>w
  <2> QED BY <2>1, <2>5, <2>6, <2>7
<1>6. ASSUME NEW l \in Leaf, HubParty(l) PROVE Faultless' /\ NotForgotten'
  <2> DEFINE f == Head(toHub[l])
  <2>1. /\ toHub[l] # <<>> /\ hubUp[l] /\ toHub' = Take(toHub, l)
        /\ UNCHANGED <<leafUp, hubUp, pending, running, cmdRoutes, restarts, faults>>
        /\ \/ SessionNews(f) /\ UNCHANGED toLeaf
           \/ f.type = "PARTY_WHOM" /\ toLeaf' = HubSends(toLeaf, l, WhomReply(f))
    BY <1>6 DEF HubParty, HubReads, SessionNews
  <2>2. f \in Upward(restarts)[l]
    BY <2>1, <1>a, ReadsCarry
  <2>3. /\ \A m \in Leaf : \A g \in Range(toHub[m]) : g \in Range(toHub'[m]) \/ g = f
        /\ \A m \in Leaf : m # l => toHub'[m] = toHub[m]
    <3>1. Channels(toHub) /\ toHub[l] # <<>> /\ toHub' = Take(toHub, l)
      BY <2>1, <1>a DEF Channels
    <3> QED BY <3>1, Read
  <2> HIDE DEF f
  <2>4. faults = 0 /\ leafUp[l]
    BY <2>1, <1>c
  <2>5. CASE SessionNews(f) /\ UNCHANGED toLeaf
    <3>1. ASSUME NEW b \in Bot, NEW req \in pending'[b], req \in pending[b], OnItsWay(b, req)
          PROVE  OnItsWay(b, req)'
      BY <3>1, <2>1, <2>3, <2>5, StillOnItsWay
    <3> QED BY <3>1, <2>1, <2>3, <2>4, <2>5, <1>w
  <2>6. CASE f.type = "PARTY_WHOM" /\ toLeaf' = HubSends(toLeaf, l, WhomReply(f))
    <3>1. f \in Frame /\ f.ref \in Ref /\ f.id \in Id /\ f.id[1] = l
      BY <2>2, <2>6, UpwardFrame DEF SessionNews
    <3>2. WhomReply(f) \in Frame /\ WhomReply(f).type = "PARTY_WHOM_REPLY" /\ WhomReply(f).id = f.id
      BY <3>1, FramesNamed
    <3>3. /\ \A m \in Leaf : Range(toLeaf[m]) \subseteq Range(toLeaf'[m])
          /\ \A m \in Leaf : ~(leafUp[m] /\ hubUp[m]) => toLeaf'[m] = toLeaf[m]
          /\ WhomReply(f) \in Range(toLeaf'[l])
      BY <3>2, <2>1, <2>4, <2>6, <1>l, BotsAndLeaves, Zenon
    <3>4. ASSUME NEW b \in Bot, NEW req \in pending'[b], req \in pending[b], OnItsWay(b, req)
          PROVE  OnItsWay(b, req)'
      <4>1. req.id = f.id => OnItsWay(b, req)'
        <5>1. req.id = f.id => b = l
          BY <3>1, <3>4, <1>n
        <5> QED BY <5>1, <3>2, <3>3 DEF OnItsWay
      <4>2. \A m \in Leaf : \A g \in Range(toHub[m]) : g.id = req.id => g \in Range(toHub'[m]) \/ OnItsWay(b, req)'
        BY <4>1, <2>3
      <4> QED BY <4>2, <3>3, <3>4, <2>1, StillOnItsWay
    <3> QED BY <3>3, <3>4, <2>1, <2>3, <2>4, <1>w
  <2> QED BY <2>1, <2>5, <2>6
<1>7. ASSUME NEW l \in Leaf, LeafCmd(l) PROVE Faultless' /\ NotForgotten'
  <2> DEFINE f == Head(toLeaf[l])
  <2>1. /\ toLeaf[l] # <<>> /\ f.type = "CMD" /\ leafUp[l] /\ toLeaf' = Take(toLeaf, l)
        /\ UNCHANGED <<leafUp, hubUp, pending, cmdRoutes, restarts, faults>>
        /\ \/ toHub' = LeafSends(toHub, l, Result(f)) /\ UNCHANGED running
           \/ /\ running' = [running EXCEPT ![l] = @ \cup {[from |-> Hub, req |-> f]}]
              /\ UNCHANGED toHub
    BY <1>7 DEF LeafCmd, LeafReads
  <2>2. f \in Frame /\ f.ref \in Ref /\ f.id \in Id /\ Named(f, restarts)
    <3>1. f \in Downward(restarts)[l]
      BY <2>1, <1>a, ReadsCarry
    <3> QED BY <3>1, DownwardFrame
  <2>3. /\ \A m \in Leaf : \A g \in Range(toLeaf[m]) : g \in Range(toLeaf'[m]) \/ g = f
        /\ \A m \in Leaf : m # l => toLeaf'[m] = toLeaf[m]
    <3>1. Channels(toLeaf) /\ toLeaf[l] # <<>> /\ toLeaf' = Take(toLeaf, l)
      BY <2>1, <1>a DEF Channels
    <3> QED BY <3>1, Read
  <2> HIDE DEF f
  <2>4. faults = 0 /\ hubUp[l]
    BY <2>1, <1>c
(* Whose command f is, it may have gone by a route, which is still there.      *)
  <2>5. ASSUME \A m \in Leaf : Range(toHub[m]) \subseteq Range(toHub'[m]),
               \A m \in Leaf : ~leafUp[m] => toHub'[m] = toHub[m],
               \A c \in Bot : running[c] \subseteq running'[c],
               \A m \in Leaf : m # l => running'[m] = running[m],
               ASSUME NEW b \in Bot, NEW req \in pending[b], req.id = f.id, req.ref = f.ref,
                      b = Hub \/ [ref |-> req.ref, origin |-> b] \in cmdRoutes
               PROVE  OnItsWay(b, req)'
        PROVE  Faultless' /\ NotForgotten'
    <3>1. ASSUME NEW b \in Bot, NEW req \in pending'[b], req \in pending[b], OnItsWay(b, req)
          PROVE  OnItsWay(b, req)'
      <4>1. \A m \in Leaf : \A g \in Range(toLeaf[m]) : g.id = req.id =>
                \/ g \in Range(toLeaf'[m]) \/ OnItsWay(b, req)'
                \/ g.type = "CMD" /\ b # Hub /\ [ref |-> req.ref, origin |-> b] \notin cmdRoutes
        <5>1. req.id = f.id => req.ref = f.ref
          BY <3>1, <2>2, <1>n
        <5> QED BY <5>1, <3>1, <2>1, <2>3, <2>5
      <4>2. /\ \A m \in Leaf : \A g \in Range(toHub[m]) : g \in Range(toHub'[m])
            /\ \A c \in Bot : \A cmd \in running[c] : cmd \in running'[c]
        BY <2>5
      <4> QED BY <4>1, <4>2, <3>1, <2>1, StillOnItsWay
    <3> QED BY <3>1, <2>1, <2>3, <2>4, <2>5, <1>w
  <2>6. CASE toHub' = LeafSends(toHub, l, Result(f)) /\ UNCHANGED running
    <3>1. Result(f) \in Frame /\ Result(f).type = "CMD_RESULT" /\ Result(f).id = f.id /\ Result(f).ref = f.ref
      BY <2>2, FramesNamed
    <3>2. /\ \A m \in Leaf : Range(toHub[m]) \subseteq Range(toHub'[m])
          /\ \A m \in Leaf : ~(leafUp[m] /\ hubUp[m]) => toHub'[m] = toHub[m]
          /\ Result(f) \in Range(toHub'[l])
      BY <3>1, <2>1, <2>4, <2>6, <1>h, Zenon
    <3>3. ASSUME NEW b \in Bot, NEW req \in pending[b], req.id = f.id, req.ref = f.ref,
                 b = Hub \/ [ref |-> req.ref, origin |-> b] \in cmdRoutes
          PROVE  OnItsWay(b, req)'
      <4> DEFINE r == Result(f)
      <4>1. r \in Range(toHub'[l]) /\ ~SessionNews(r) /\ r.id = req.id /\ r.ref = req.ref
        BY <3>1, <3>2, <3>3 DEF SessionNews
      <4>2. b = Hub \/ [ref |-> r.ref, origin |-> b] \in cmdRoutes'
        BY <3>3, <4>1, <2>1
      <4> HIDE DEF r
      <4> QED BY <4>1, <4>2, FrameOnItsWay
    <3> QED BY <3>2, <3>3, <2>5, <2>6
  <2>7. CASE running' = [running EXCEPT ![l] = @ \cup {[from |-> Hub, req |-> f]}] /\ UNCHANGED toHub
    <3> DEFINE cmd == [from |-> Hub, req |-> f]
    <3>1. /\ cmd.req = f /\ l \in Bot /\ \A c \in Bot : running[c] \subseteq running'[c]
          /\ \A m \in Leaf : m # l => running'[m] = running[m]
      BY <2>7, <1>a, BotsAndLeaves
    <3>2. cmd \in UNION {running'[c] : c \in Bot}
      BY <3>1, <2>7, <1>a
    <3> HIDE DEF cmd
    <3>3. ASSUME NEW b \in Bot, NEW req \in pending[b], req.id = f.id, req.ref = f.ref,
                 b = Hub \/ [ref |-> req.ref, origin |-> b] \in cmdRoutes
          PROVE  OnItsWay(b, req)'
      BY <3>1, <3>2, <3>3, <2>1 DEF OnItsWay
    <3> QED BY <3>1, <3>3, <2>5, <2>7
  <2> QED BY <2>1, <2>6, <2>7
<1>8. ASSUME NEW l \in Leaf, LeafAnswer(l) PROVE Faultless' /\ NotForgotten'
  <2> DEFINE f == Head(toLeaf[l])
  <2>1. /\ toLeaf[l] # <<>> /\ f.type \in {"CMD_RESULT", "PARTY_WHOM_REPLY"} /\ leafUp[l]
        /\ toLeaf' = Take(toLeaf, l)
        /\ pending' = [pending EXCEPT ![l] = @ \ Waiting(l, f.ref)]
        /\ UNCHANGED <<leafUp, hubUp, toHub, running, cmdRoutes, restarts, faults>>
    BY <1>8 DEF LeafAnswer, LeafReads, Resolve
  <2>2. f \in Frame /\ Named(f, restarts) /\ f.id[1] = l
    <3>1. f \in Downward(restarts)[l]
      BY <2>1, <1>a, ReadsCarry
    <3> QED BY <3>1, <2>1, DownwardFrame
  <2>3. /\ \A m \in Leaf : \A g \in Range(toLeaf[m]) : g \in Range(toLeaf'[m]) \/ g = f
        /\ \A m \in Leaf : m # l => toLeaf'[m] = toLeaf[m]
    <3>1. Channels(toLeaf) /\ toLeaf[l] # <<>> /\ toLeaf' = Take(toLeaf, l)
      BY <2>1, <1>a DEF Channels
    <3> QED BY <3>1, Read
  <2> HIDE DEF f
  <2>4. faults = 0 /\ l \in Bot /\ \A c \in Bot : pending'[c] \subseteq pending[c]
    BY <2>1, <1>a, BotsAndLeaves
  <2>5. ASSUME NEW b \in Bot, NEW req \in pending'[b], req \in pending[b], OnItsWay(b, req)
        PROVE  OnItsWay(b, req)'
    <3>1. req.id # f.id
      <4> SUFFICES ASSUME req.id = f.id PROVE FALSE
        OBVIOUS
      <4>1. b = l /\ req.ref = f.ref
        BY <2>2, <2>5, <1>n
      <4> QED BY <4>1, <2>1, <2>4, <2>5, <1>a DEF Waiting
    <3>2. \A m \in Leaf : \A g \in Range(toLeaf[m]) : g.id = req.id => g \in Range(toLeaf'[m])
      BY <3>1, <2>3
    <3> QED BY <3>2, <2>1, <2>5, StillOnItsWay
  <2> QED BY <2>1, <2>3, <2>4, <2>5, <1>w
<1>9. ASSUME NEW b \in Bot, Timeout(b) PROVE Faultless' /\ NotForgotten'
  <2>1. PICK req \in pending[b] : /\ pending' = [pending EXCEPT ![b] = @ \ {req}]
                                  /\ UNCHANGED <<linkVars, counter, running, cmdRoutes, party, sessions, faults, restarts>>
    BY <1>9 DEF Timeout
  <2>2. UNCHANGED <<leafUp, hubUp, toHub, toLeaf, running, cmdRoutes, restarts, faults>>
    BY <2>1 DEF linkVars
  <2>3. \A c \in Bot : pending'[c] \subseteq pending[c]
    BY <2>1, <1>a
  <2>4. ASSUME NEW c \in Bot, NEW q \in pending'[c], q \in pending[c], OnItsWay(c, q)
        PROVE  OnItsWay(c, q)'
    BY <2>2, <2>4, StillOnItsWay
  <2> QED BY <2>2, <2>3, <2>4, <1>w
<1>10. ASSUME NEW c \in Bot, Finish(c) PROVE Faultless' /\ NotForgotten'
  <2>1. PICK cmd \in running[c] :
            /\ running' = [running EXCEPT ![c] = @ \ {cmd}]
            /\ IF c = Hub
               THEN toLeaf' = HubSends(toLeaf, cmd.from, Result(cmd.req)) /\ UNCHANGED toHub
               ELSE toHub' = LeafSends(toHub, c, Result(cmd.req)) /\ UNCHANGED toLeaf
            /\ UNCHANGED <<leafUp, hubUp, pending, cmdRoutes, restarts, faults>>
    BY <1>10 DEF Finish
  <2> DEFINE f == cmd.req
  <2>2. /\ f \in Frame /\ Named(f, restarts) /\ f.ref \in Ref /\ f.id \in Id
        /\ IF c = Hub THEN cmd.from \in Leaf /\ f.id[1] = cmd.from ELSE cmd.from = Hub
    <3>1. cmd \in Jobs(c, restarts)
      BY DEF Types
    <3>2. f \in Frame /\ f.type = "CMD" /\ Named(f, restarts)
          /\ IF c = Hub THEN cmd.from \in Leaf /\ f.id[1] = cmd.from ELSE cmd.from = Hub
      BY <3>1 DEF Jobs
    <3> QED BY <3>2, FrameFields DEF SessionNews
  <2>3. /\ \A d \in Bot : \A job \in running[d] : job \in running'[d] \/ job = cmd
        /\ \A m \in Leaf : running'[m] \subseteq running[m]
    BY <2>1, <1>a, BotsAndLeaves
  <2>4. faults = 0 /\ (c # Hub => c \in Leaf /\ leafUp[c] /\ hubUp[c])
    BY <2>1, <1>c, BotsAndLeaves
  <2>5. Result(f) \in Frame /\ Result(f).type = "CMD_RESULT" /\ Result(f).id = f.id /\ Result(f).ref = f.ref
    <3> HIDE DEF f
    <3> QED BY <2>2, FramesNamed
  <2>6. ASSUME \A m \in Leaf : /\ Range(toHub[m]) \subseteq Range(toHub'[m])
                               /\ Range(toLeaf[m]) \subseteq Range(toLeaf'[m]),
               \A m \in Leaf : ~(leafUp[m] /\ hubUp[m]) => toHub'[m] = toHub[m] /\ toLeaf'[m] = toLeaf[m],
               ASSUME NEW b \in Bot, NEW req \in pending[b], req.id = f.id, req.ref = f.ref,
                      b \in Leaf => leafUp[b] /\ hubUp[b],
                      b = Hub \/ b = cmd.from \/ [ref |-> req.ref, origin |-> b] \in cmdRoutes
               PROVE  OnItsWay(b, req)'
        PROVE  Faultless' /\ NotForgotten'
    <3>1. ASSUME NEW b \in Bot, NEW req \in pending'[b], req \in pending[b], OnItsWay(b, req),
                 b \in Leaf => leafUp[b] /\ hubUp[b]
          PROVE  OnItsWay(b, req)'
      <4>1. \A d \in Bot : \A job \in running[d] : job.req.id = req.id =>
                \/ job \in running'[d] \/ OnItsWay(b, req)'
                \/ job.from # b /\ b # Hub /\ [ref |-> req.ref, origin |-> b] \notin cmdRoutes
        <5>1. req.id = f.id => req.ref = f.ref
          BY <3>1, <2>2, <1>n
        <5> QED BY <5>1, <3>1, <2>3, <2>6
      <4> QED BY <4>1, <3>1, <2>1, <2>6, StillOnItsWay
    <3> QED BY <3>1, <2>1, <2>3, <2>4, <2>6, <1>w
  <2> HIDE DEF f
  <2>7. CASE c = Hub
    <3>1. cmd.from \in Leaf /\ cmd.from \in Bot /\ f.id[1] = cmd.from /\ cmd.from # Hub
          /\ toLeaf' = HubSends(toLeaf, cmd.from, Result(f)) /\ UNCHANGED toHub
      BY <2>1, <2>2, <2>7, BotsAndLeaves DEF f
    <3>2. /\ \A m \in Leaf : Range(toLeaf[m]) \subseteq Range(toLeaf'[m])
          /\ \A m \in Leaf : ~(leafUp[m] /\ hubUp[m]) => toLeaf'[m] = toLeaf[m]
          /\ leafUp[cmd.from] /\ hubUp[cmd.from] => Result(f) \in Range(toLeaf'[cmd.from])
      BY <3>1, <2>5, <1>l
    <3>3. ASSUME NEW b \in Bot, NEW req \in pending[b], req.id = f.id,
                 b \in Leaf => leafUp[b] /\ hubUp[b]
          PROVE  OnItsWay(b, req)'
      <4>1. b = cmd.from
        BY <3>1, <3>3, <1>n
      <4> DEFINE r == Result(f)
      <4>2. /\ r \in Range(toLeaf'[b]) /\ ~SessionNews(r) /\ r.type # "CMD" /\ r.id = req.id
            /\ b \in Leaf
        BY <4>1, <3>1, <3>2, <3>3, <2>5 DEF SessionNews
      <4> HIDE DEF r
      <4> QED BY <4>2, <3>3, FrameOnItsWay
    <3> QED BY <3>1, <3>2, <3>3, <2>6
  <2>8. CASE c # Hub
    <3>1. c \in Leaf /\ cmd.from = Hub /\ toHub' = LeafSends(toHub, c, Result(f)) /\ UNCHANGED toLeaf
      BY <2>1, <2>2, <2>4, <2>8 DEF f
    <3>2. /\ \A m \in Leaf : Range(toHub[m]) \subseteq Range(toHub'[m])
          /\ \A m \in Leaf : ~(leafUp[m] /\ hubUp[m]) => toHub'[m] = toHub[m]
          /\ Result(f) \in Range(toHub'[c])
      BY <3>1, <2>4, <2>5, <2>8, <1>h, Zenon
    <3>3. ASSUME NEW b \in Bot, NEW req \in pending[b], req.id = f.id, req.ref = f.ref,
                 b = Hub \/ b = cmd.from \/ [ref |-> req.ref, origin |-> b] \in cmdRoutes
          PROVE  OnItsWay(b, req)'
      <4> DEFINE r == Result(f)
      <4>1. r \in Range(toHub'[c]) /\ ~SessionNews(r) /\ r.id = req.id /\ r.ref = req.ref
        BY <3>2, <3>3, <2>5 DEF SessionNews
      <4>2. b = Hub \/ [ref |-> r.ref, origin |-> b] \in cmdRoutes'
        BY <3>1, <3>3, <4>1, <2>1
      <4> HIDE DEF r
      <4> QED BY <4>1, <4>2, <3>1, FrameOnItsWay
    <3> QED BY <3>1, <3>2, <3>3, <2>6
  <2> QED BY <2>7, <2>8
<1>11. ASSUME UNCHANGED <<leafUp, hubUp, toLeaf, pending, running, cmdRoutes, restarts, faults>>,
              NEW l \in Leaf, NEW f \in Frame, toHub' = LeafSends(toHub, l, f)
       PROVE  Faultless' /\ NotForgotten'
  <2>1. /\ \A m \in Leaf : Range(toHub[m]) \subseteq Range(toHub'[m])
        /\ \A m \in Leaf : ~(leafUp[m] /\ hubUp[m]) => toHub'[m] = toHub[m]
    BY <1>11, <1>h, Zenon
  <2>2. faults = 0
    BY <1>11
  <2>3. ASSUME NEW b \in Bot, NEW req \in pending'[b], req \in pending[b], OnItsWay(b, req)
        PROVE  OnItsWay(b, req)'
    <3>1. \A m \in Leaf : \A g \in Range(toHub[m]) : g \in Range(toHub'[m])
      BY <2>1
    <3> QED BY <3>1, <2>3, <1>11, StillOnItsWay
  <2> QED BY <2>1, <2>2, <2>3, <1>11, <1>w
<1>12. ASSUME NEW l \in Leaf, SessionOpens(l) \/ SessionCloses(l) PROVE Faultless' /\ NotForgotten'
  <2>1. /\ UNCHANGED <<leafUp, hubUp, toLeaf, pending, running, cmdRoutes, restarts, faults>>
        /\ toHub' = LeafSends(toHub, l, Notice("PARTY_JOIN")) \/ toHub' = LeafSends(toHub, l, Notice("PARTY_PART"))
    BY <1>12 DEF SessionOpens, SessionCloses
  <2> QED BY <2>1, <1>11, FrameFields
<1>13. ASSUME NEW l \in Leaf, Connect(l) PROVE Faultless' /\ NotForgotten'
  <2>1. /\ ~leafUp[l] /\ UNCHANGED <<pending, running, cmdRoutes, restarts, faults>>
        /\ leafUp' = [leafUp EXCEPT ![l] = TRUE] /\ hubUp' = [hubUp EXCEPT ![l] = TRUE]
        /\ toHub' = [toHub EXCEPT ![l] = <<>>] /\ toLeaf' = [toLeaf EXCEPT ![l] = <<>>]
    BY <1>13 DEF Connect, LinkUp, cmdVars
  <2>2. faults = 0
    BY <2>1
  <2>3. /\ leafUp = hubUp /\ \A b \in Bot : restarts[b] = 0 /\ toHub[l] = <<>> /\ toLeaf[l] = <<>>
        /\ \A m \in Leaf : ~leafUp[m] =>
             pending[m] = {} /\ running[m] = {} /\ toHub[m] = <<>> /\ toLeaf[m] = <<>>
    BY <2>1, <2>2 DEF Faultless
  <2>4. UNCHANGED <<toHub, toLeaf>> /\ leafUp' = hubUp'
    BY <2>1, <2>3, <1>a
  <2>5. Faultless'
    <3>1. \A m \in Leaf : leafUp[m] => leafUp'[m]
      BY <2>1, <1>a
    <3> QED BY <3>1, <2>1, <2>3, <2>4 DEF Faultless
  <2>6. NotForgotten'
    <3>1. \A b \in Bot : \A req \in pending[b] : OnItsWay(b, req)'
      <4> SUFFICES ASSUME NEW b \in Bot, NEW req \in pending[b] PROVE OnItsWay(b, req)'
        OBVIOUS
      <4>1. OnItsWay(b, req)
        BY <2>2 DEF NotForgotten
      <4> QED BY <4>1, <2>1, <2>4, StillOnItsWay
    <3> QED BY <3>1, <2>1 DEF NotForgotten
  <2> QED BY <2>5, <2>6
(* The other steps are faults.                                              *)
<1>14. ASSUME NEW l \in Leaf, LeafDisconnects(l) \/ HubDisconnects(l) PROVE FALSE
  <2>1. LinkFault(l) /\ (leafUp[l] \/ hubUp[l]) /\ UNCHANGED restarts
    BY <1>14 DEF LeafDisconnects, HubDisconnects, LeafLoses
  <2>2. faults = 0
    BY <2>1, <1>f DEF LinkFault
  <2>3. leafUp[l] /\ hubUp[l]
    BY <2>1, <2>2, NoFaultYet
  <2> QED BY <2>1, <2>3, <1>f DEF LinkFault
<1>15. ASSUME NEW l \in Leaf PROVE ~LeafRestarts(l)
  BY <1>f DEF LeafRestarts
<1>16. CASE UNCHANGED vars
  <2>1. UNCHANGED <<leafUp, hubUp, toHub, toLeaf, pending, running, cmdRoutes, restarts, faults>>
    BY <1>16 DEF vars, linkVars, cmdVars
  <2>3. ASSUME NEW b \in Bot, NEW req \in pending'[b], req \in pending[b], OnItsWay(b, req)
        PROVE  OnItsWay(b, req)'
    BY <2>1, <2>3, StillOnItsWay
  <2> QED BY <2>1, <2>3, <1>w
<1>17. CASE HubRestarts
  BY <1>17, <1>f DEF HubRestarts
<1> QED
  BY <1>1, <1>2, <1>3, <1>4, <1>5, <1>6, <1>7, <1>8, <1>9, <1>10, <1>12, <1>13, <1>14,
     <1>15, <1>16, <1>17, Zenon DEF Next

(* A request is never forgotten: while nothing was lost, a bot that waits has  *)
(* its command or its answer somewhere on the way to it, at every step of the  *)
(* way, whoever it asked (handleCmdRelay, cmdRoutes, executeCmdFrame).        *)
THEOREM NothingForgotten == ASSUME OneAsker PROVE Spec => []NotForgotten
<1>1. Init => IInv
  <2> SUFFICES ASSUME Init PROVE IInv
    OBVIOUS
  <2>1. Types
    BY TypesInit
  <2>2. Listed
    BY DEF Init, LinkInit, Listed
  <2>3. Faultless /\ NotForgotten
    BY BotsAndLeaves DEF Init, LinkInit, Faultless, NotForgotten
  <2> QED BY <2>1, <2>2, <2>3 DEF IInv
<1>2. IInv /\ [Next]_vars => IInv'
  BY TypesStep, ListedStep, WayStep DEF IInv
<1>3. IInv => NotForgotten
  BY DEF IInv
<1> QED BY <1>1, <1>2, <1>3, PTL DEF Spec

-----------------------------------------------------------------------------
(* The link                                                                *)

K == INSTANCE Links

(* Links come and go here as BotLink lets them, but for the HELLO of a          *)
(* connection given up (see Links): what is proved above does not rest on      *)
(* links that the connection layer could not make.                            *)
THEOREM LinksTaken == Spec => K!OrderlySpec
<1>1. Init => K!Init
  BY DEF Init, LinkInit, K!Init
<1>2. [Next]_vars => [K!Orderly]_K!sides
  <2> SUFFICES ASSUME [Next]_vars PROVE UNCHANGED K!sides \/ K!Orderly
    OBVIOUS
  <2>1. ASSUME NEW l \in Leaf, NEW to, Ask(l, to) PROVE UNCHANGED K!sides
    BY <2>1 DEF Ask, K!sides
  <2>2. ASSUME NEW l \in Leaf,
               \/ AskWhom(l) \/ HubAsk(l) \/ HubCmd(l) \/ HubResult(l) \/ HubParty(l)
               \/ LeafCmd(l) \/ LeafAnswer(l) \/ SessionOpens(l) \/ SessionCloses(l)
        PROVE  UNCHANGED K!sides
    BY <2>2 DEF AskWhom, HubAsk, HubCmd, HubResult, HubParty, LeafCmd, LeafAnswer, SessionOpens,
                SessionCloses, K!sides
  <2>3. ASSUME NEW b \in Bot, Timeout(b) \/ Finish(b) PROVE UNCHANGED K!sides
    BY <2>3 DEF Timeout, Finish, linkVars, K!sides
  <2>4. ASSUME NEW l \in Leaf, Connect(l) PROVE K!Up(l)
    BY <2>4 DEF Connect, LinkUp, K!Up
  <2>5. ASSUME NEW l \in Leaf, LeafDisconnects(l) \/ LeafRestarts(l) PROVE K!LeafLoses(l)
    BY <2>5 DEF LeafDisconnects, LeafRestarts, LeafLoses, K!LeafLoses
  <2>6. ASSUME NEW l \in Leaf, HubDisconnects(l) PROVE K!HubLoses(l)
    BY <2>6 DEF HubDisconnects, K!HubLoses
  <2>7. CASE HubRestarts
    BY <2>7 DEF HubRestarts, K!HubStops, K!Orderly
  <2>8. CASE UNCHANGED vars
    BY <2>8 DEF vars, linkVars, K!sides
  <2> QED BY <2>1, <2>2, <2>3, <2>4, <2>5, <2>6, <2>7, <2>8 DEF Next, K!Orderly
<1> QED BY <1>1, <1>2, PTL DEF Spec, K!OrderlySpec
=============================================================================
