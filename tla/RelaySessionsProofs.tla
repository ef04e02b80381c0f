------------------------ MODULE RelaySessionsProofs ------------------------
(***************************************************************************)
(* Proofs about RelaySessions, for every set of leaves and handles, and any  *)
(* number of links lost, restarts and frames on their way.                   *)
(***************************************************************************)
EXTENDS RelaySessions, FiniteSetTheorems, SequenceTheorems, TLAPS

USE ConstantsAssumption

-----------------------------------------------------------------------------
(* Frames and channels                                                      *)

Frame ==
    [type : {"RELAY_REQUEST", "RELAY_INPUT"}, handle : Handle, from : Bot, to : Bot]
        \cup [type : {"RELAY_END"}, handle : Handle]

(* A frame that changes what the hub knows of the relay of h.               *)
Changes(frame, h) == frame.type \in {"RELAY_REQUEST", "RELAY_END"} /\ frame.handle = h

(* The last of these on a channel is req.                                    *)
EndsWith(ch, h, req) ==
    \E i \in 1..Len(ch) :
        /\ ch[i] = req
        /\ \A j \in 1..Len(ch) : j > i => ~Changes(ch[j], h)

Quiet(ch, h) == \A j \in 1..Len(ch) : ~Changes(ch[j], h)

(* Sending a frame that is not about the relay of h.                         *)
LEMMA QuietAppend ==
    ASSUME NEW ch \in Seq(Frame), NEW f \in Frame, NEW h, ~Changes(f, h)
    PROVE  /\ Quiet(ch, h) => Quiet(Append(ch, f), h)
           /\ \A req : EndsWith(ch, h, req) => EndsWith(Append(ch, f), h, req)
<1>1. /\ Len(Append(ch, f)) = Len(ch) + 1 /\ Len(ch) \in Nat
      /\ \A i \in 1..Len(ch) : Append(ch, f)[i] = ch[i]
      /\ Append(ch, f)[Len(ch) + 1] = f
  BY AppendProperties, LenProperties
<1>2. \A j \in 1..Len(Append(ch, f)) : j \in 1..Len(ch) \/ j = Len(ch) + 1
  BY <1>1
<1>3. Quiet(ch, h) => Quiet(Append(ch, f), h)
  BY <1>1, <1>2 DEF Quiet
<1>4. ASSUME NEW req, EndsWith(ch, h, req) PROVE EndsWith(Append(ch, f), h, req)
  <2>1. PICK i \in 1..Len(ch) : ch[i] = req /\ \A j \in 1..Len(ch) : j > i => ~Changes(ch[j], h)
    BY <1>4 DEF EndsWith
  <2>2. i \in 1..Len(Append(ch, f)) /\ Append(ch, f)[i] = req
    BY <2>1, <1>1
  <2>3. \A j \in 1..Len(Append(ch, f)) : j > i => ~Changes(Append(ch, f)[j], h)
    BY <2>1, <1>1, <1>2
  <2> QED BY <2>2, <2>3 DEF EndsWith
<1> QED BY <1>3, <1>4

(* Sending a request.                                                        *)
LEMMA RequestAppend ==
    ASSUME NEW ch \in Seq(Frame), NEW f \in Frame, NEW h
    PROVE  EndsWith(Append(ch, f), h, f)
<1>1. /\ Len(Append(ch, f)) = Len(ch) + 1 /\ Len(ch) \in Nat
      /\ Append(ch, f)[Len(ch) + 1] = f
  BY AppendProperties, LenProperties
<1>2. Len(ch) + 1 \in 1..Len(Append(ch, f)) /\ ~\E j \in 1..Len(Append(ch, f)) : j > Len(ch) + 1
  BY <1>1
<1> QED BY <1>1, <1>2 DEF EndsWith

(* Reading a frame.                                                          *)
LEMMA ReadFrame ==
    ASSUME NEW ch \in Seq(Frame), ch # <<>>, NEW h
    PROVE  /\ Quiet(ch, h) => Quiet(Tail(ch), h) /\ ~Changes(Head(ch), h)
           /\ \A req : EndsWith(ch, h, req) =>
                \/ EndsWith(Tail(ch), h, req)
                \/ Head(ch) = req /\ Quiet(Tail(ch), h)
<1>1. /\ Len(ch) \in Nat /\ Len(ch) > 0 /\ Head(ch) = ch[1] /\ Len(Tail(ch)) = Len(ch) - 1
      /\ \A i \in 1..Len(Tail(ch)) : Tail(ch)[i] = ch[i + 1]
  BY HeadTailProperties, EmptySeq, LenProperties
<1>2. \A j \in 1..Len(Tail(ch)) : j + 1 \in 1..Len(ch)
  BY <1>1
<1>3. Quiet(ch, h) => Quiet(Tail(ch), h) /\ ~Changes(Head(ch), h)
  <2>1. 1 \in 1..Len(ch)
    BY <1>1
  <2> QED BY <1>1, <1>2, <2>1 DEF Quiet
<1>4. ASSUME NEW req, EndsWith(ch, h, req)
      PROVE  EndsWith(Tail(ch), h, req) \/ (Head(ch) = req /\ Quiet(Tail(ch), h))
  <2>1. PICK i \in 1..Len(ch) : ch[i] = req /\ \A j \in 1..Len(ch) : j > i => ~Changes(ch[j], h)
    BY <1>4 DEF EndsWith
  <2>2. CASE i = 1
    <3>1. \A j \in 1..Len(Tail(ch)) : j + 1 > i
      BY <2>2, <1>1
    <3> QED BY <3>1, <2>1, <2>2, <1>1, <1>2 DEF Quiet
  <2>3. CASE i # 1
    <3>1. i - 1 \in 1..Len(Tail(ch)) /\ (i - 1) + 1 = i
      BY <2>3, <1>1
    <3>2. Tail(ch)[i - 1] = req
      BY <3>1, <2>1, <1>1
    <3>3. \A j \in 1..Len(Tail(ch)) : j > i - 1 => j + 1 > i
      OBVIOUS
    <3>4. \A j \in 1..Len(Tail(ch)) : j > i - 1 => ~Changes(Tail(ch)[j], h)
      BY <3>3, <2>1, <1>1, <1>2
    <3> QED BY <3>1, <3>2, <3>4 DEF EndsWith
  <2> QED BY <2>2, <2>3
<1> QED BY <1>3, <1>4

(* What is on a channel stays there until it is read.                        *)
LEMMA RangeOfChannel ==
    ASSUME NEW ch \in Seq(Frame)
    PROVE  /\ \A f \in Frame : Range(Append(ch, f)) = Range(ch) \cup {f}
           /\ ch # <<>> => Head(ch) \in Range(ch) /\ Range(ch) = {Head(ch)} \cup Range(Tail(ch))
           /\ \A more \in Seq(Frame) : Range(ch \o more) = Range(ch) \cup Range(more)
           /\ Range(ch) \subseteq Frame
<1>1. \A c \in Seq(Frame) : \A x : x \in Range(c) <=> \E i \in 1..Len(c) : x = c[i]
  BY LenProperties DEF Range
<1>2. ASSUME NEW f \in Frame PROVE Range(Append(ch, f)) = Range(ch) \cup {f}
  <2>1. /\ Append(ch, f) \in Seq(Frame) /\ Len(Append(ch, f)) = Len(ch) + 1 /\ Len(ch) \in Nat
        /\ \A i \in 1..Len(ch) : Append(ch, f)[i] = ch[i]
        /\ Append(ch, f)[Len(ch) + 1] = f
    BY AppendProperties, LenProperties
  <2>2. 1..Len(Append(ch, f)) = 1..Len(ch) \cup {Len(ch) + 1}
    BY <2>1
  <2>3. ASSUME NEW x PROVE x \in Range(Append(ch, f)) <=> x \in Range(ch) \cup {f}
    <3>1. x \in Range(Append(ch, f)) <=> \E i \in 1..Len(ch) \cup {Len(ch) + 1} : x = Append(ch, f)[i]
      <4>1. x \in Range(Append(ch, f)) <=> \E i \in 1..Len(Append(ch, f)) : x = Append(ch, f)[i]
        <5>1. Append(ch, f) \in Seq(Frame)
          BY <2>1
        <5> QED BY <5>1, <1>1, Zenon
      <4> QED BY <4>1, <2>2
    <3>2. x \in Range(ch) <=> \E i \in 1..Len(ch) : x = ch[i]
      BY <1>1
    <3> QED BY <3>1, <3>2, <2>1
  <2> QED BY <2>3, Zenon
<1>3. ASSUME ch # <<>>
      PROVE  Head(ch) \in Range(ch) /\ Range(ch) = {Head(ch)} \cup Range(Tail(ch))
  <2>1. /\ Tail(ch) \in Seq(Frame) /\ Len(Tail(ch)) = Len(ch) - 1 /\ Len(ch) \in Nat /\ Len(ch) > 0
        /\ Head(ch) = ch[1]
        /\ \A i \in 1..Len(Tail(ch)) : Tail(ch)[i] = ch[i + 1]
    BY <1>3, HeadTailProperties, EmptySeq, LenProperties
  <2>2. \A i \in 1..Len(ch) : i = 1 \/ (i - 1 \in 1..Len(Tail(ch)) /\ (i - 1) + 1 = i)
    BY <2>1
  <2>3. 1 \in 1..Len(ch) /\ \A i \in 1..Len(Tail(ch)) : i + 1 \in 1..Len(ch)
    BY <2>1
  <2>4. ASSUME NEW x \in Range(ch) PROVE x \in {Head(ch)} \cup Range(Tail(ch))
    <3>1. PICK i \in 1..Len(ch) : x = ch[i]
      BY <1>1
    <3>2. CASE i = 1
      BY <3>1, <3>2, <2>1
    <3>3. CASE i # 1
      <4>1. i - 1 \in 1..Len(Tail(ch)) /\ Tail(ch)[i - 1] = x
        BY <3>1, <3>3, <2>1, <2>2
      <4> QED BY <4>1, <1>1, <2>1
    <3> QED BY <3>2, <3>3
  <2>5. ASSUME NEW x \in {Head(ch)} \cup Range(Tail(ch)) PROVE x \in Range(ch)
    <3>1. CASE x = Head(ch)
      BY <3>1, <1>1, <2>1, <2>3
    <3>2. CASE x \in Range(Tail(ch))
      <4>1. PICK i \in 1..Len(Tail(ch)) : x = Tail(ch)[i]
        BY <3>2, <2>1, LenProperties, Tail(ch) \in Seq(Frame) DEF Range
      <4>2. i + 1 \in 1..Len(ch) /\ x = ch[i + 1]
        BY <4>1, <2>1, <2>3
      <4> QED BY <4>2, <1>1
    <3> QED BY <3>1, <3>2
  <2> QED BY <2>4, <2>5
<1>4. \A more \in Seq(Frame) : Range(ch \o more) = Range(ch) \cup Range(more)
  BY RangeConcatenation
<1>5. Range(ch) \subseteq Frame
  BY <1>1, ElementOfSeq
<1> QED BY <1>2, <1>3, <1>4, <1>5

(* A finite set as a sequence has the elements of the set.                   *)
LEMMA SetToSeqElements ==
    ASSUME NEW S, IsFiniteSet(S), S \subseteq Frame
    PROVE  SetToSeq(S) \in Seq(Frame) /\ Range(SetToSeq(S)) = S
<1> DEFINE n == Cardinality(S)
<1>1. n \in Nat /\ ExistsBijection(1..n, S)
  BY FS_CardinalityType
<1>2. PICK g \in Bijection(1..n, S) : TRUE
  BY <1>1 DEF ExistsBijection
<1>3. g \in [1..n -> S] /\ IsInjective(g)
  BY <1>2 DEF Bijection, Injection, IsInjective
<1>4. SetToSeq(S) \in [1..n -> S] /\ IsInjective(SetToSeq(S))
  BY <1>3, Zenon DEF SetToSeq
<1>5. SetToSeq(S) \in Injection(1..n, S)
  BY <1>4 DEF Injection, IsInjective
<1>6. IsFiniteSet(1..n) /\ Cardinality(1..n) = n
  BY <1>1, FS_Interval
<1>7. SetToSeq(S) \in Surjection(1..n, S)
  BY <1>5, <1>6, FS_Injection
<1>8. Range(SetToSeq(S)) = S
  BY <1>4, <1>7 DEF Surjection, Range
<1>9. SetToSeq(S) \in Seq(S)
  BY <1>1, <1>4, SeqDef
<1> QED BY <1>8, <1>9, SeqMonotonic

-----------------------------------------------------------------------------
(* Types                                                                    *)

Types ==
    /\ leafUp \in [Leaf -> BOOLEAN] /\ hubUp \in [Leaf -> BOOLEAN]
    /\ toHub \in [Leaf -> Seq(Frame)] /\ toLeaf \in [Leaf -> Seq(Frame)]
    /\ open \in [Bot -> SUBSET Handle]
    /\ relaying \in [Bot -> [Handle -> Bot \cup {None}]]
    /\ virtual \in [Bot -> [Handle -> Bot \cup {None}]]
    /\ activeRelays \in [Handle -> SUBSET [origin : Leaf, target : Leaf]]
    /\ steady \subseteq Leaf \X Handle

(* The frames are frames.                                                    *)
LEMMA FrameTypes ==
    /\ \A h \in Handle : RelayEnd(h) \in Frame
    /\ \A h \in Handle, b, to \in Bot : RelayRequest(h, b, to) \in Frame /\ RelayInput(h, b, to) \in Frame
    /\ \A f \in Frame : f.handle \in Handle
    /\ \A f \in Frame : f.type \in {"RELAY_REQUEST", "RELAY_INPUT"} => f.from \in Bot /\ f.to \in Bot
BY SMT DEF Frame, RelayEnd, RelayRequest, RelayInput

(* What the sends do to each channel.                                        *)
LEMMA Sends ==
    ASSUME NEW ch \in [Leaf -> Seq(Frame)], NEW f \in Frame
    PROVE  /\ \A l \in Leaf : LeafSends(ch, l, f) \in [Leaf -> Seq(Frame)]
           /\ \A l, c \in Leaf : LeafSends(ch, l, f)[c] =
                IF c = l /\ leafUp[c] /\ hubUp[c] THEN Append(ch[c], f) ELSE ch[c]
           /\ \A b : HubSends(ch, b, f) \in [Leaf -> Seq(Frame)]
           /\ \A b : \A c \in Leaf : HubSends(ch, b, f)[c] =
                IF c = b /\ leafUp[c] /\ hubUp[c] THEN Append(ch[c], f) ELSE ch[c]
           /\ HubBroadcasts(ch, f, Hub) \in [Leaf -> Seq(Frame)]
           /\ \A c \in Leaf : HubBroadcasts(ch, f, Hub)[c] =
                IF leafUp[c] /\ hubUp[c] THEN Append(ch[c], f) ELSE ch[c]
<1>1. \A l \in Leaf : Append(ch[l], f) \in Seq(Frame)
  BY AppendProperties
<1>2. \A l \in Leaf : LeafSends(ch, l, f) \in [Leaf -> Seq(Frame)]
  BY <1>1 DEF LeafSends
<1>3. \A l, c \in Leaf : LeafSends(ch, l, f)[c] =
          IF c = l /\ leafUp[c] /\ hubUp[c] THEN Append(ch[c], f) ELSE ch[c]
  BY <1>1 DEF LeafSends
<1>4. \A b : HubSends(ch, b, f) \in [Leaf -> Seq(Frame)]
  BY <1>1 DEF HubSends
<1>5. \A b : \A c \in Leaf : HubSends(ch, b, f)[c] =
          IF c = b /\ leafUp[c] /\ hubUp[c] THEN Append(ch[c], f) ELSE ch[c]
  BY <1>1 DEF HubSends
<1>6. HubBroadcasts(ch, f, Hub) \in [Leaf -> Seq(Frame)]
  BY <1>1 DEF HubBroadcasts
<1>7. \A c \in Leaf : HubBroadcasts(ch, f, Hub)[c] =
          IF leafUp[c] /\ hubUp[c] THEN Append(ch[c], f) ELSE ch[c]
  BY <1>1 DEF HubBroadcasts
<1> QED BY <1>2, <1>3, <1>4, <1>5, <1>6, <1>7

(* What a read does to each channel.                                         *)
LEMMA Reads ==
    ASSUME NEW ch \in [Leaf -> Seq(Frame)], NEW l \in Leaf, ch[l] # <<>>
    PROVE  /\ Take(ch, l) \in [Leaf -> Seq(Frame)]
           /\ \A c \in Leaf : Take(ch, l)[c] = IF c = l THEN Tail(ch[c]) ELSE ch[c]
           /\ Head(ch[l]) \in Frame
<1>1. Tail(ch[l]) \in Seq(Frame) /\ Head(ch[l]) \in Frame
  BY HeadTailProperties
<1> QED BY <1>1 DEF Take

(* The ends that the hub sends when a leaf leaves are those of its relays.   *)
LEMMA EndsOfLeaver ==
    ASSUME Types, NEW l \in Leaf, NEW b \in Leaf,
           NEW ends, NEW H \in SUBSET Handle, ends = {RelayEnd(h) : h \in H}
    PROVE  SetToSeq(ends) \in Seq(Frame) /\ Range(SetToSeq(ends)) = ends
<1> DEFINE g == [h \in H |-> RelayEnd(h)]
<1>1. g \in Surjection(H, ends)
  BY DEF Surjection
<1>2. IsFiniteSet(H)
  BY FS_Subset
<1>3. IsFiniteSet(ends)
  BY <1>1, <1>2, FS_Surjection
<1>4. ends \subseteq Frame
  BY FrameTypes
<1> QED BY <1>3, <1>4, SetToSeqElements

LEMMA TypesInit == Init => Types
<1>1. <<>> \in Seq(Frame)
  BY EmptySeq
<1> QED BY <1>1 DEF Init, LinkInit, Types

LEMMA TypesStep ==
    ASSUME Types, [Next]_vars
    PROVE  Types'
<1> USE DEF Types
<1>a. Hub \in Bot /\ Leaf \subseteq Bot
  BY DEF Bot
<1>b. <<>> \in Seq(Frame)
  BY EmptySeq
<1>1. ASSUME NEW b \in Bot, NEW h \in Handle, OpenSession(b, h) PROVE Types'
  BY <1>1 DEF OpenSession, linkVars
<1>2. ASSUME NEW b \in Bot, NEW h \in Handle, CloseSession(b, h) PROVE Types'
  BY <1>2 DEF CloseSession, linkVars, ExitRelay
<1>3. ASSUME NEW b \in Bot, NEW h \in Handle, NEW to \in Bot, Relay(b, h, to) PROVE Types'
  <2>1. RelayRequest(h, b, to) \in Frame
    BY FrameTypes
  <2>2. toHub' \in [Leaf -> Seq(Frame)] /\ toLeaf' \in [Leaf -> Seq(Frame)]
    BY <1>3, <2>1, Sends DEF Relay, SendsTo, Bot
  <2> QED BY <1>3, <2>2 DEF Relay
<1>4. ASSUME NEW b \in Bot, NEW h \in Handle, Type(b, h) PROVE Types'
  <2>1. RelayInput(h, b, relaying[b][h]) \in Frame
    BY <1>4, FrameTypes DEF Type
  <2>2. toHub' \in [Leaf -> Seq(Frame)] /\ toLeaf' \in [Leaf -> Seq(Frame)]
    BY <1>4, <2>1, Sends DEF Type, SendsTo, Bot
  <2> QED BY <1>4, <2>2 DEF Type, relayVars
<1>5. ASSUME NEW b \in Bot, NEW h \in Handle, EndRelay(b, h) PROVE Types'
  <2>1. RelayEnd(h) \in Frame
    BY FrameTypes
  <2>2. toHub' \in [Leaf -> Seq(Frame)] /\ toLeaf' \in [Leaf -> Seq(Frame)]
    BY <1>5, <2>1, Sends DEF EndRelay, SendsOut, Bot
  <2> QED BY <1>5, <2>2 DEF EndRelay, ExitRelay
<1>6. ASSUME NEW l \in Leaf, HubRequest(l) PROVE Types'
  <2> DEFINE frame == Head(toHub[l])
  <2>1. toHub[l] # <<>> /\ frame.type = "RELAY_REQUEST"
    BY <1>6 DEF HubRequest, HubReads
  <2>2. frame \in Frame /\ frame.handle \in Handle /\ RelayEnd(frame.handle) \in Frame
    BY <2>1, Reads, FrameTypes
  <2>3. toHub' \in [Leaf -> Seq(Frame)]
    BY <1>6, <2>1, Reads DEF HubRequest
  <2>4. HubSends(toLeaf, frame.to, frame) \in [Leaf -> Seq(Frame)]
        /\ HubSends(toLeaf, l, RelayEnd(frame.handle)) \in [Leaf -> Seq(Frame)]
    BY <2>2, Sends
  <2>5. toLeaf' \in [Leaf -> Seq(Frame)]
    <3> DEFINE there == frame.to \in Leaf /\ hubUp[frame.to]
               routed == IF there THEN HubSends(toLeaf, frame.to, frame)
                         ELSE HubSends(toLeaf, l, RelayEnd(frame.handle))
    <3>1. routed \in [Leaf -> Seq(Frame)]
      BY <2>4
    <3>2. toLeaf' = routed \/ toLeaf' = HubBroadcasts(routed, RelayEnd(frame.handle), Hub)
      BY <1>6 DEF HubRequest
    <3> HIDE DEF routed, there
    <3>3. HubBroadcasts(routed, RelayEnd(frame.handle), Hub) \in [Leaf -> Seq(Frame)]
      BY <2>2, <3>1, Sends
    <3> QED BY <3>1, <3>2, <3>3
  <2>6. activeRelays' \in [Handle -> SUBSET [origin : Leaf, target : Leaf]]
    BY <1>6, <2>2 DEF HubRequest
  <2>7. virtual' \in [Bot -> [Handle -> Bot \cup {None}]]
    <3>1. virtual' = virtual \/ virtual' = [virtual EXCEPT ![Hub][frame.handle] = l]
      BY <1>6 DEF HubRequest
    <3>2. [virtual EXCEPT ![Hub][frame.handle] = l] \in [Bot -> [Handle -> Bot \cup {None}]]
      BY <1>a, <2>2
    <3> QED BY <3>1, <3>2, Zenon
  <2> QED BY <1>6, <2>3, <2>5, <2>6, <2>7 DEF HubRequest
<1>7. ASSUME NEW l \in Leaf, HubInput(l) PROVE Types'
  <2> DEFINE frame == Head(toHub[l])
  <2>1. toHub[l] # <<>>
    BY <1>7 DEF HubInput, HubReads
  <2>2. frame \in Frame
    BY <2>1, Reads
  <2>3. toHub' \in [Leaf -> Seq(Frame)]
    BY <1>7, <2>1, Reads DEF HubInput
  <2>4. \A b \in Leaf : HubSends(toLeaf, b, frame)[b] \in Seq(Frame)
    <3>1. \A b \in Leaf : HubSends(toLeaf, b, frame) \in [Leaf -> Seq(Frame)]
      BY <2>2, Sends
    <3> QED BY <3>1
  <2>5. toLeaf' \in [Leaf -> Seq(Frame)]
    BY <1>7, <2>4 DEF HubInput
  <2> QED BY <1>7, <2>3, <2>5 DEF HubInput, relayVars
<1>8. ASSUME NEW l \in Leaf, HubEnd(l) PROVE Types'
  <2> DEFINE h == Head(toHub[l]).handle
  <2>1. toHub[l] # <<>>
    BY <1>8 DEF HubEnd, HubReads
  <2>2. h \in Handle /\ RelayEnd(h) \in Frame
    BY <2>1, Reads, FrameTypes
  <2>3. toHub' \in [Leaf -> Seq(Frame)]
    BY <1>8, <2>1, Reads DEF HubEnd
  <2>4. \A b \in Leaf : HubSends(toLeaf, b, RelayEnd(h))[b] \in Seq(Frame)
    <3>1. \A b \in Leaf : HubSends(toLeaf, b, RelayEnd(h)) \in [Leaf -> Seq(Frame)]
      BY <2>2, Sends
    <3> QED BY <3>1
  <2>5. toLeaf' \in [Leaf -> Seq(Frame)]
    BY <1>8, <2>4 DEF HubEnd
  <2>6. /\ activeRelays' \in [Handle -> SUBSET [origin : Leaf, target : Leaf]]
        /\ virtual' \in [Bot -> [Handle -> Bot \cup {None}]]
        /\ relaying' \in [Bot -> [Handle -> Bot \cup {None}]]
    BY <1>8, <1>a, <2>2 DEF HubEnd, ExitRelay
  <2> QED BY <1>8, <2>3, <2>5, <2>6 DEF HubEnd
<1>9. ASSUME NEW l \in Leaf, LeafRequest(l) PROVE Types'
  <2> DEFINE frame == Head(toLeaf[l])
  <2>1. toLeaf[l] # <<>> /\ frame.type = "RELAY_REQUEST"
    BY <1>9 DEF LeafRequest, LeafReads
  <2>2. frame \in Frame /\ frame.handle \in Handle /\ frame.from \in Bot
        /\ RelayEnd(frame.handle) \in Frame
    BY <2>1, Reads, FrameTypes
  <2>3. toLeaf' \in [Leaf -> Seq(Frame)]
    BY <1>9, <2>1, Reads DEF LeafRequest
  <2>4. toHub' \in [Leaf -> Seq(Frame)]
    <3>1. toHub' = toHub \/ toHub' = LeafSends(toHub, l, RelayEnd(frame.handle))
      BY <1>9 DEF LeafRequest
    <3>2. LeafSends(toHub, l, RelayEnd(frame.handle)) \in [Leaf -> Seq(Frame)]
      BY <2>2, Sends
    <3> QED BY <3>1, <3>2
  <2>5. virtual' \in [Bot -> [Handle -> Bot \cup {None}]]
    <3>1. virtual' = virtual \/ virtual' = [virtual EXCEPT ![l][frame.handle] = frame.from]
      BY <1>9 DEF LeafRequest
    <3>2. [virtual EXCEPT ![l][frame.handle] = frame.from] \in [Bot -> [Handle -> Bot \cup {None}]]
      BY <1>a, <2>2
    <3> QED BY <3>1, <3>2, Zenon
  <2> QED BY <1>9, <2>3, <2>4, <2>5 DEF LeafRequest
<1>10. ASSUME NEW l \in Leaf, LeafInput(l) PROVE Types'
  <2>1. toLeaf[l] # <<>>
    BY <1>10 DEF LeafInput, LeafReads
  <2>2. toLeaf' \in [Leaf -> Seq(Frame)]
    BY <1>10, <2>1, Reads DEF LeafInput
  <2> QED BY <1>10, <2>2 DEF LeafInput, relayVars
<1>11. ASSUME NEW l \in Leaf, LeafEnd(l) PROVE Types'
  <2>1. toLeaf[l] # <<>>
    BY <1>11 DEF LeafEnd, LeafReads
  <2>2. toLeaf' \in [Leaf -> Seq(Frame)] /\ Head(toLeaf[l]).handle \in Handle
    BY <1>11, <2>1, Reads, FrameTypes DEF LeafEnd
  <2> QED BY <1>11, <1>a, <2>2 DEF LeafEnd, ExitRelay
<1>12. ASSUME NEW l \in Leaf, Connect(l) PROVE Types'
  BY <1>12, <1>b DEF Connect, LinkUp, relayVars
<1>13. ASSUME NEW l \in Leaf, LeafDisconnects(l) PROVE Types'
  BY <1>13, <1>b DEF LeafDisconnects, LeafLoses, Lost
<1>14. ASSUME NEW l \in Leaf, HubDisconnects(l) PROVE Types'
  <2> DEFINE gone == {h \in Handle : \E r \in activeRelays[h] : Involves(r, l)}
             side(b) == {h \in gone : \E r \in activeRelays[h] : OtherSide(r, l) = b}
             endsFor(b) == {RelayEnd(h) : h \in side(b)}
  <2>1. ASSUME NEW b \in Leaf PROVE SetToSeq(endsFor(b)) \in Seq(Frame)
    <3>1. side(b) \in SUBSET Handle
      OBVIOUS
    <3> HIDE DEF side
    <3> QED BY <3>1, EndsOfLeaver
  <2>2. \A b \in Leaf : toLeaf[b] \o SetToSeq(endsFor(b)) \in Seq(Frame)
    BY <2>1, ConcatProperties
  <2>3. toLeaf' = [b \in Leaf |-> IF b # l /\ hubUp[b] /\ leafUp[b]
                                  THEN toLeaf[b] \o SetToSeq(endsFor(b)) ELSE toLeaf[b]]
    BY <1>14 DEF HubDisconnects
  <2>4. toLeaf' \in [Leaf -> Seq(Frame)]
    BY <2>2, <2>3
  <2>5. activeRelays' \in [Handle -> SUBSET [origin : Leaf, target : Leaf]]
    BY <1>14 DEF HubDisconnects
  <2>6. hubUp' \in [Leaf -> BOOLEAN] /\ toHub' \in [Leaf -> Seq(Frame)] /\ steady' \subseteq Leaf \X Handle
    BY <1>14, <1>b DEF HubDisconnects, Lost
  <2> QED BY <1>14, <2>4, <2>5, <2>6 DEF HubDisconnects
<1>15. ASSUME NEW l \in Leaf, LeafRestarts(l) PROVE Types'
  BY <1>15, <1>a, <1>b DEF LeafRestarts, Fresh
<1>16. ASSUME HubRestarts PROVE Types'
  BY <1>16, <1>a, <1>b DEF HubRestarts, Fresh
<1>17. ASSUME UNCHANGED vars PROVE Types'
  BY <1>17 DEF vars, linkVars, relayVars
<1> QED BY <1>1, <1>2, <1>3, <1>4, <1>5, <1>6, <1>7, <1>8, <1>9, <1>10, <1>11, <1>12, <1>13,
           <1>14, <1>15, <1>16, <1>17 DEF Next

-----------------------------------------------------------------------------
(* Routes, and the relay modes they belong to                               *)

LEMMA RoutesStep ==
    ASSUME Types, RoutesLive, [Next]_vars
    PROVE  RoutesLive'
<1> USE DEF Types, RoutesLive
<1>1. ASSUME UNCHANGED <<hubUp, activeRelays>> PROVE RoutesLive'
  BY <1>1
<1>2. ASSUME NEW l \in Leaf, HubRequest(l) PROVE RoutesLive'
  <2> DEFINE frame == Head(toHub[l])
             route == [origin |-> l, target |-> frame.to]
  <2>1. hubUp[l] /\ hubUp' = hubUp
    BY <1>2 DEF HubRequest, HubReads
  <2>2. \/ activeRelays' = activeRelays
        \/ /\ frame.to \in Leaf /\ hubUp[frame.to]
           /\ activeRelays' = [activeRelays EXCEPT ![frame.handle] = {route}]
    BY <1>2 DEF HubRequest
  <2>3. ASSUME NEW h \in Handle, NEW r \in activeRelays'[h]
        PROVE  r \in activeRelays[h] \/ (r = route /\ frame.to \in Leaf /\ hubUp[frame.to])
    <3> HIDE DEF frame, route
    <3>1. CASE activeRelays' = activeRelays
      BY <3>1, <2>3
    <3>2. CASE /\ frame.to \in Leaf /\ hubUp[frame.to]
               /\ activeRelays' = [activeRelays EXCEPT ![frame.handle] = {route}]
      <4>1. activeRelays'[h] = IF h = frame.handle THEN {route} ELSE activeRelays[h]
        BY <3>2
      <4> QED BY <3>2, <4>1, <2>3
    <3> QED BY <2>2, <3>1, <3>2
  <2>4. ASSUME NEW h \in Handle, NEW r \in activeRelays'[h]
        PROVE  {r.origin, r.target} \subseteq {c \in Leaf : hubUp[c]}
    <3>1. CASE r \in activeRelays[h]
      BY <3>1, <2>4
    <3>2. CASE r = route /\ frame.to \in Leaf /\ hubUp[frame.to]
      <4>1. r.origin = l /\ r.target = frame.to
        BY <3>2
      <4> QED BY <2>1, <3>2, <4>1
    <3> QED BY <2>3, <2>4, <3>1, <3>2
  <2> QED BY <2>1, <2>4
<1>3. ASSUME NEW l \in Leaf, HubEnd(l) PROVE RoutesLive'
  BY <1>3 DEF HubEnd
<1>4. ASSUME NEW l \in Leaf, Connect(l) PROVE RoutesLive'
  BY <1>4 DEF Connect, LinkUp, relayVars
<1>5. ASSUME NEW l \in Leaf, HubDisconnects(l) PROVE RoutesLive'
  BY <1>5 DEF HubDisconnects, Involves
<1>6. ASSUME HubRestarts PROVE RoutesLive'
  BY <1>6 DEF HubRestarts
<1>7. ASSUME NEW b \in Bot, NEW h \in Handle,
             \/ OpenSession(b, h) \/ CloseSession(b, h) \/ Type(b, h) \/ EndRelay(b, h)
             \/ \E to \in Bot : Relay(b, h, to)
      PROVE  UNCHANGED <<hubUp, activeRelays>>
  BY <1>7 DEF OpenSession, CloseSession, Type, EndRelay, Relay, linkVars, relayVars
<1>8. ASSUME NEW l \in Leaf,
             \/ HubInput(l) \/ LeafRequest(l) \/ LeafInput(l) \/ LeafEnd(l)
             \/ LeafDisconnects(l) \/ LeafRestarts(l)
      PROVE  UNCHANGED <<hubUp, activeRelays>>
  BY <1>8 DEF HubInput, LeafRequest, LeafInput, LeafEnd, LeafDisconnects, LeafLoses,
              LeafRestarts, relayVars
<1>9. UNCHANGED vars => UNCHANGED <<hubUp, activeRelays>>
  BY DEF vars, linkVars, relayVars
<1> QED BY <1>1, <1>2, <1>3, <1>4, <1>5, <1>6, <1>7, <1>8, <1>9 DEF Next

(* The parts of TypeOK beyond the types.                                    *)
Sessions ==
    /\ \A h \in Handle : \A r, s \in activeRelays[h] : r = s
    /\ \A b \in Bot, h \in Handle : relaying[b][h] # None => h \in open[b]
    /\ \A b \in Leaf, h \in Handle : <<b, h>> \in steady => relaying[b][h] # None

LEMMA SessionsStep ==
    ASSUME Types, Sessions, [Next]_vars
    PROVE  Sessions'
<1> USE DEF Types, Sessions
<1>a. Hub \in Bot /\ Leaf \subseteq Bot /\ None \notin Bot
  BY DEF Bot
<1>1. ASSUME UNCHANGED <<activeRelays, relaying, open, steady>> PROVE Sessions'
  BY <1>1
<1>2. ASSUME NEW b \in Bot, NEW h \in Handle, OpenSession(b, h) PROVE Sessions'
  BY <1>2 DEF OpenSession
<1>3. ASSUME NEW b \in Bot, NEW h \in Handle, CloseSession(b, h) PROVE Sessions'
  BY <1>3, <1>a DEF CloseSession, ExitRelay
<1>4. ASSUME NEW b \in Bot, NEW h \in Handle, NEW to \in Bot, Relay(b, h, to) PROVE Sessions'
  BY <1>4, <1>a DEF Relay
<1>5. ASSUME NEW b \in Bot, NEW h \in Handle, EndRelay(b, h) PROVE Sessions'
  BY <1>5, <1>a DEF EndRelay, ExitRelay
<1>6. ASSUME NEW l \in Leaf, HubRequest(l) PROVE Sessions'
  <2>1. PICK h, r : activeRelays' = activeRelays \/ activeRelays' = [activeRelays EXCEPT ![h] = {r}]
    BY <1>6 DEF HubRequest
  <2>2. UNCHANGED <<relaying, open, steady>>
    BY <1>6 DEF HubRequest
  <2>3. \A g \in Handle : activeRelays'[g] = activeRelays[g] \/ activeRelays'[g] = {r}
    BY <2>1
  <2> QED BY <2>2, <2>3
<1>7. ASSUME NEW l \in Leaf, HubEnd(l) PROVE Sessions'
  <2>1. PICK h : activeRelays' = [activeRelays EXCEPT ![h] = {}] /\ relaying' = [relaying EXCEPT ![Hub][h] = None]
    BY <1>7 DEF HubEnd, ExitRelay
  <2>2. UNCHANGED <<open, steady>>
    BY <1>7 DEF HubEnd
  <2> QED BY <1>a, <2>1, <2>2
<1>8. ASSUME NEW l \in Leaf, LeafEnd(l) PROVE Sessions'
  <2>1. PICK h : steady' = steady \ {<<l, h>>} /\ relaying' = [relaying EXCEPT ![l][h] = None]
    BY <1>8 DEF LeafEnd, ExitRelay
  <2>2. UNCHANGED <<open, activeRelays>>
    BY <1>8 DEF LeafEnd
  <2> QED BY <1>a, <2>1, <2>2
<1>9. ASSUME NEW l \in Leaf, LeafDisconnects(l) PROVE Sessions'
  BY <1>9 DEF LeafDisconnects, Lost
<1>10. ASSUME NEW l \in Leaf, HubDisconnects(l) PROVE Sessions'
  BY <1>10 DEF HubDisconnects, Lost
<1>11. ASSUME NEW l \in Leaf, LeafRestarts(l) PROVE Sessions'
  BY <1>11, <1>a DEF LeafRestarts, Fresh
<1>12. ASSUME HubRestarts PROVE Sessions'
  BY <1>12, <1>a DEF HubRestarts, Fresh
<1>13. ASSUME NEW b \in Bot, NEW h \in Handle, Type(b, h)
       PROVE  UNCHANGED <<activeRelays, relaying, open, steady>>
  BY <1>13 DEF Type, relayVars
<1>14. ASSUME NEW l \in Leaf, HubInput(l) \/ LeafRequest(l) \/ LeafInput(l) \/ Connect(l)
       PROVE  UNCHANGED <<activeRelays, relaying, open, steady>>
  BY <1>14 DEF HubInput, LeafRequest, LeafInput, Connect, relayVars
<1>15. UNCHANGED vars => UNCHANGED <<activeRelays, relaying, open, steady>>
  BY DEF vars, relayVars
<1> QED BY <1>1, <1>2, <1>3, <1>4, <1>5, <1>6, <1>7, <1>8, <1>9, <1>10, <1>11, <1>12, <1>13,
           <1>14, <1>15 DEF Next

(* Every variable keeps its type, a handle has at most one route, a relay      *)
(* mode belongs to an open session and a steady relay is one (handleRelayFrame *)
(* and the relay mode of dcc.ts).                                            *)
THEOREM TypeCorrect == Spec => []TypeOK
<1> DEFINE IInv == Types /\ Sessions
<1>1. Init => IInv
  <2>1. Init => Types
    BY TypesInit
  <2>2. Init => Sessions
    BY DEF Init, Sessions
  <2> QED BY <2>1, <2>2
<1>2. IInv /\ [Next]_vars => IInv'
  BY TypesStep, SessionsStep
<1>3. IInv => TypeOK
  <2> SUFFICES ASSUME Types, Sessions PROVE TypeOK
    OBVIOUS
  <2>1. \A h \in Handle : Cardinality(activeRelays[h]) <= 1
    <3> TAKE h \in Handle
    <3>1. CASE activeRelays[h] = {}
      BY <3>1, FS_EmptySet
    <3>2. CASE activeRelays[h] # {}
      <4>1. PICK r : r \in activeRelays[h]
        BY <3>2
      <4>2. activeRelays[h] = {r}
        BY <4>1 DEF Sessions
      <4> QED BY <4>2, FS_Singleton
    <3> QED BY <3>1, <3>2
  <2>2. \A r \in steady : relaying[r[1]][r[2]] # None
    BY DEF Types, Sessions
  <2> QED BY <2>1, <2>2 DEF Types, Sessions, TypeOK
<1> QED BY <1>1, <1>2, <1>3, PTL DEF Spec

(* The hub's routes lead only to leaves that are registered                   *)
(* (cleanupLeafState, routeRelayFrame).                                      *)
THEOREM RoutesAreLive == Spec => []RoutesLive
<1> DEFINE IInv == Types /\ RoutesLive
<1>1. Init => IInv
  <2>1. Init => Types
    BY TypesInit
  <2>2. Init => RoutesLive
    BY DEF Init, RoutesLive
  <2> QED BY <2>1, <2>2
<1>2. IInv /\ [Next]_vars => IInv'
  BY TypesStep, RoutesStep
<1>3. IInv => RoutesLive
  OBVIOUS
<1> QED BY <1>1, <1>2, <1>3, PTL DEF Spec

-----------------------------------------------------------------------------
(* Requests travel from the home of a handle                                *)

(* A handle is at home on one bot.  Without it two relays of one handle take   *)
(* the hub's one route from each other.                                      *)
OneHome == \A h \in Handle : \A a, b \in Homes[h] : a = b

Homed ==
    /\ \A b \in Bot : \A h \in open[b] : b \in Homes[h]
    /\ \A l \in Leaf : \A f \in Range(toHub[l]) : f.type = "RELAY_REQUEST" =>
        f.from = l /\ l \in Homes[f.handle] /\ f.to # l
    /\ \A l \in Leaf : \A f \in Range(toLeaf[l]) : f.type = "RELAY_REQUEST" =>
        l \notin Homes[f.handle]

(* What the channels carry after a send or a read.                           *)
LEMMA CarriedByLeaf ==
    ASSUME NEW ch \in [Leaf -> Seq(Frame)], NEW f \in Frame, NEW l \in Leaf, NEW c \in Leaf
    PROVE  Range(LeafSends(ch, l, f)[c]) \subseteq Range(ch[c]) \cup {f}
<1>1. Range(Append(ch[c], f)) = Range(ch[c]) \cup {f}
  BY RangeOfChannel
<1>2. LeafSends(ch, l, f)[c] = IF c = l /\ leafUp[c] /\ hubUp[c] THEN Append(ch[c], f) ELSE ch[c]
  BY Sends
<1> QED BY <1>1, <1>2

LEMMA CarriedByHub ==
    ASSUME NEW ch \in [Leaf -> Seq(Frame)], NEW f \in Frame, NEW b, NEW c \in Leaf
    PROVE  /\ Range(HubSends(ch, b, f)[c]) \subseteq Range(ch[c]) \cup {f}
           /\ Range(ch[c]) \subseteq Range(HubSends(ch, b, f)[c])
           /\ c = b /\ leafUp[c] /\ hubUp[c] => f \in Range(HubSends(ch, b, f)[c])
<1>1. Range(Append(ch[c], f)) = Range(ch[c]) \cup {f}
  BY RangeOfChannel
<1>2. HubSends(ch, b, f)[c] = IF c = b /\ leafUp[c] /\ hubUp[c] THEN Append(ch[c], f) ELSE ch[c]
  BY Sends
<1> QED BY <1>1, <1>2

LEMMA CarriedByBroadcast ==
    ASSUME NEW ch \in [Leaf -> Seq(Frame)], NEW f \in Frame, NEW c \in Leaf
    PROVE  /\ Range(HubBroadcasts(ch, f, Hub)[c]) \subseteq Range(ch[c]) \cup {f}
           /\ Range(ch[c]) \subseteq Range(HubBroadcasts(ch, f, Hub)[c])
<1>1. Range(Append(ch[c], f)) = Range(ch[c]) \cup {f}
  BY RangeOfChannel
<1>2. HubBroadcasts(ch, f, Hub)[c] = IF leafUp[c] /\ hubUp[c] THEN Append(ch[c], f) ELSE ch[c]
  BY Sends
<1> QED BY <1>1, <1>2

LEMMA CarriedAfterRead ==
    ASSUME NEW ch \in [Leaf -> Seq(Frame)], NEW l \in Leaf, ch[l] # <<>>
    PROVE  /\ Head(ch[l]) \in Range(ch[l])
           /\ Range(ch[l]) = {Head(ch[l])} \cup Range(Take(ch, l)[l])
           /\ \A c \in Leaf : c # l => Take(ch, l)[c] = ch[c]
           /\ \A c \in Leaf : Range(Take(ch, l)[c]) \subseteq Range(ch[c])
<1>1. Head(ch[l]) \in Range(ch[l]) /\ Range(ch[l]) = {Head(ch[l])} \cup Range(Tail(ch[l]))
  BY RangeOfChannel
<1>2. \A c \in Leaf : Take(ch, l)[c] = IF c = l THEN Tail(ch[c]) ELSE ch[c]
  BY Reads
<1> QED BY <1>1, <1>2

LEMMA HomedStep ==
    ASSUME Types, Homed, OneHome, ~SelfRelay, [Next]_vars
    PROVE  Homed'
<1> USE DEF Types
<1> DEFINE FromHome(f, l) == f.type = "RELAY_REQUEST" => f.from = l /\ l \in Homes[f.handle] /\ f.to # l
           Abroad(f, l) == f.type = "RELAY_REQUEST" => l \notin Homes[f.handle]
<1>a. Hub \in Bot /\ Leaf \subseteq Bot /\ Hub \notin Leaf
  BY DEF Bot
<1>b. /\ \A h : RelayEnd(h).type = "RELAY_END"
      /\ \A h, b, to : RelayInput(h, b, to).type = "RELAY_INPUT"
      /\ \A h, b, to : /\ RelayRequest(h, b, to).handle = h
                       /\ RelayRequest(h, b, to).from = b /\ RelayRequest(h, b, to).to = to
  BY DEF RelayEnd, RelayInput, RelayRequest
<1>c. ASSUME \A b \in Bot : \A h \in open'[b] : b \in Homes[h],
             \A l \in Leaf : \A f \in Range(toHub'[l]) : f \in Range(toHub[l]) \/ FromHome(f, l),
             \A l \in Leaf : \A f \in Range(toLeaf'[l]) : f \in Range(toLeaf[l]) \/ Abroad(f, l)
      PROVE  Homed'
  BY <1>c DEF Homed
<1>d. \A b \in Bot : \A h \in open[b] : b \in Homes[h]
  BY DEF Homed
<1> HIDE DEF FromHome, Abroad
<1>e. ASSUME UNCHANGED <<open, toHub, toLeaf>> PROVE Homed'
  BY <1>e, <1>c, <1>d
<1>f. /\ \A h, l : FromHome(RelayEnd(h), l) /\ Abroad(RelayEnd(h), l)
      /\ \A h, b, to, l : FromHome(RelayInput(h, b, to), l) /\ Abroad(RelayInput(h, b, to), l)
      /\ \A f, l : f.type # "RELAY_REQUEST" => Abroad(f, l)
  BY <1>b DEF FromHome, Abroad
<1>g. <<>> \in Seq(Frame) /\ Range(<<>>) = {}
  BY EmptySeq, LenProperties DEF Range
<1>h. toHub \in [Leaf -> Seq(Frame)] /\ toLeaf \in [Leaf -> Seq(Frame)]
  OBVIOUS
<1>1. ASSUME NEW b \in Bot, NEW h \in Handle, OpenSession(b, h) PROVE Homed'
  BY <1>1, <1>c, <1>d DEF OpenSession, linkVars
<1>2. ASSUME NEW b \in Bot, NEW h \in Handle, CloseSession(b, h) PROVE Homed'
  BY <1>2, <1>c, <1>d DEF CloseSession, linkVars
<1>3. ASSUME NEW b \in Bot, NEW h \in Handle, NEW to \in Bot, Relay(b, h, to) PROVE Homed'
  <2> DEFINE req == RelayRequest(h, b, to)
  <2>1. req \in Frame /\ b \in Homes[h] /\ to # b
    BY <1>3, <1>d, FrameTypes DEF Relay
  <2>2. FromHome(req, b) /\ (b = Hub => Abroad(req, to))
    BY <1>3, <2>1, <1>b, <1>a DEF FromHome, Abroad, OneHome, Relay
  <2> HIDE DEF req
  <2>3. \A l \in Leaf : \A f \in Range(toHub'[l]) : f \in Range(toHub[l]) \/ FromHome(f, l)
    <3>1. toHub' = IF b = Hub THEN toHub ELSE LeafSends(toHub, b, req)
      BY <1>3 DEF Relay, SendsTo, req
    <3>2. CASE b = Hub
      BY <3>1, <3>2
    <3>3. CASE b \in Leaf
      <4>1. toHub' = LeafSends(toHub, b, req)
        BY <3>1, <3>3, <1>a
      <4>2. ASSUME NEW l \in Leaf
            PROVE  /\ Range(toHub'[l]) \subseteq Range(toHub[l]) \cup {req}
                   /\ l # b => toHub'[l] = toHub[l]
        <5>1. Range(toHub'[l]) \subseteq Range(toHub[l]) \cup {req}
          BY <4>1, <3>3, <2>1, CarriedByLeaf
        <5>2. l # b => LeafSends(toHub, b, req)[l] = toHub[l]
          BY <3>3 DEF LeafSends
        <5> QED BY <4>1, <5>1, <5>2
      <4> QED BY <4>2, <2>2
    <3> QED BY <3>2, <3>3 DEF Bot
  <2>4. \A l \in Leaf : \A f \in Range(toLeaf'[l]) : f \in Range(toLeaf[l]) \/ Abroad(f, l)
    <3>1. toLeaf' = IF b = Hub THEN HubSends(toLeaf, to, req) ELSE toLeaf
      BY <1>3 DEF Relay, SendsTo, req
    <3>2. ASSUME NEW l \in Leaf
          PROVE  /\ Range(toLeaf'[l]) \subseteq Range(toLeaf[l]) \cup {req}
                 /\ ~(b = Hub /\ l = to) => toLeaf'[l] = toLeaf[l]
      <4>1. Range(toLeaf'[l]) \subseteq Range(toLeaf[l]) \cup {req}
        BY <3>1, <2>1, CarriedByHub
      <4>2. l # to => HubSends(toLeaf, to, req)[l] = toLeaf[l]
        BY DEF HubSends
      <4> QED BY <3>1, <4>1, <4>2
    <3> QED BY <3>2, <2>2
  <2>5. open' = open
    BY <1>3 DEF Relay
  <2> QED BY <1>c, <1>d, <2>3, <2>4, <2>5
<1>4. ASSUME NEW f \in Frame, f.type # "RELAY_REQUEST", open' = open,
             toHub' = toHub \/ \E l \in Leaf : toHub' = LeafSends(toHub, l, f),
             \/ toLeaf' = toLeaf
             \/ \E b : toLeaf' = HubSends(toLeaf, b, f)
             \/ toLeaf' = HubBroadcasts(toLeaf, f, Hub)
      PROVE  Homed'
  <2>1. FromHome(f, 1) /\ Abroad(f, 1) /\ \A l : FromHome(f, l) /\ Abroad(f, l)
    BY <1>4 DEF FromHome, Abroad
  <2>2. \A l \in Leaf : Range(toHub'[l]) \subseteq Range(toHub[l]) \cup {f}
    BY <1>4, CarriedByLeaf
  <2>3. \A l \in Leaf : Range(toLeaf'[l]) \subseteq Range(toLeaf[l]) \cup {f}
    BY <1>4, CarriedByHub, CarriedByBroadcast
  <2> QED BY <1>4, <1>c, <1>d, <2>1, <2>2, <2>3
<1>5. ASSUME NEW b \in Bot, NEW h \in Handle, Type(b, h) PROVE Homed'
  <2>1. RelayInput(h, b, relaying[b][h]) \in Frame
    BY <1>5, FrameTypes DEF Type
  <2>2. b = Hub \/ b \in Leaf
    BY DEF Bot
  <2> QED BY <1>5, <1>4, <1>b, <2>1, <2>2 DEF Type, SendsTo, relayVars
<1>6. ASSUME NEW b \in Bot, NEW h \in Handle, EndRelay(b, h) PROVE Homed'
  <2>1. RelayEnd(h) \in Frame
    BY FrameTypes
  <2>2. b = Hub \/ b \in Leaf
    BY DEF Bot
  <2> QED BY <1>6, <1>4, <1>b, <2>1, <2>2 DEF EndRelay, SendsOut
<1>7. ASSUME NEW l \in Leaf, HubRequest(l) PROVE Homed'
  <2> DEFINE frame == Head(toHub[l])
             end == RelayEnd(frame.handle)
             there == frame.to \in Leaf /\ hubUp[frame.to]
             routed == IF there THEN HubSends(toLeaf, frame.to, frame) ELSE HubSends(toLeaf, l, end)
  <2>1. toHub[l] # <<>> /\ frame.type = "RELAY_REQUEST" /\ toHub' = Take(toHub, l) /\ open' = open
    BY <1>7 DEF HubRequest, HubReads
  <2>2. frame \in Frame /\ frame.handle \in Handle /\ end \in Frame
    BY <2>1, Reads, FrameTypes
  <2>3. l \in Homes[frame.handle] /\ frame.to # l
    BY <2>1, CarriedAfterRead DEF Homed
  <2>4. \A c \in Leaf : Range(toHub'[c]) \subseteq Range(toHub[c])
    BY <2>1, CarriedAfterRead
  <2>5. toLeaf' = routed \/ toLeaf' = HubBroadcasts(routed, end, Hub)
    BY <1>7 DEF HubRequest
  <2>6. Abroad(frame, frame.to)
    BY <2>2, <2>3 DEF OneHome, Abroad
  <2> HIDE DEF frame, end, there
  <2>7. ASSUME NEW c \in Leaf
        PROVE  /\ Range(routed[c]) \subseteq Range(toLeaf[c]) \cup {end, frame}
               /\ c # frame.to => Range(routed[c]) \subseteq Range(toLeaf[c]) \cup {end}
    <3>1. routed[c] = HubSends(toLeaf, frame.to, frame)[c] \/ routed[c] = HubSends(toLeaf, l, end)[c]
      OBVIOUS
    <3>2. Range(HubSends(toLeaf, frame.to, frame)[c]) \subseteq Range(toLeaf[c]) \cup {frame}
      BY <2>2, CarriedByHub
    <3>3. c # frame.to => HubSends(toLeaf, frame.to, frame)[c] = toLeaf[c]
      BY DEF HubSends
    <3>4. Range(HubSends(toLeaf, l, end)[c]) \subseteq Range(toLeaf[c]) \cup {end}
      BY <2>2, CarriedByHub
    <3> HIDE DEF routed
    <3> QED BY <3>1, <3>2, <3>3, <3>4
  <2>8. routed \in [Leaf -> Seq(Frame)]
    BY <2>2, Sends
  <2> HIDE DEF routed
  <2>9. ASSUME NEW c \in Leaf, NEW f \in Range(toLeaf'[c])
        PROVE  f \in Range(toLeaf[c]) \/ Abroad(f, c)
    <3>1. f \in Range(routed[c]) \/ f = end
      BY <2>9, <2>2, <2>5, <2>8, CarriedByBroadcast
    <3>2. Abroad(end, c)
      BY <1>f DEF end
    <3> QED BY <3>1, <3>2, <2>6, <2>7
  <2> QED BY <1>c, <1>d, <2>1, <2>4, <2>9
<1>8. ASSUME NEW l \in Leaf, HubInput(l) PROVE Homed'
  <2> DEFINE frame == Head(toHub[l])
  <2>1. toHub[l] # <<>> /\ frame.type = "RELAY_INPUT" /\ toHub' = Take(toHub, l) /\ open' = open
    BY <1>8 DEF HubInput, HubReads, relayVars
  <2>2. frame \in Frame
    BY <2>1, Reads
  <2>3. \A c \in Leaf : toLeaf'[c] = toLeaf[c] \/ toLeaf'[c] = HubSends(toLeaf, c, frame)[c]
    BY <1>8 DEF HubInput
  <2> HIDE DEF frame
  <2>4. \A c \in Leaf : Range(toLeaf'[c]) \subseteq Range(toLeaf[c]) \cup {frame}
    BY <2>2, <2>3, CarriedByHub
  <2>5. \A c \in Leaf : Abroad(frame, c)
    BY <2>1, <1>f
  <2>6. \A c \in Leaf : Range(toHub'[c]) \subseteq Range(toHub[c])
    BY <2>1, CarriedAfterRead
  <2> QED BY <1>c, <1>d, <2>1, <2>4, <2>5, <2>6
<1>9. ASSUME NEW l \in Leaf, HubEnd(l) PROVE Homed'
  <2> DEFINE h == Head(toHub[l]).handle
  <2>1. toHub[l] # <<>> /\ toHub' = Take(toHub, l) /\ open' = open
    BY <1>9 DEF HubEnd, HubReads
  <2>2. RelayEnd(h) \in Frame
    BY <2>1, Reads, FrameTypes
  <2>3. \A c \in Leaf : toLeaf'[c] = toLeaf[c] \/ toLeaf'[c] = HubSends(toLeaf, c, RelayEnd(h))[c]
    BY <1>9 DEF HubEnd
  <2> HIDE DEF h
  <2>4. \A c \in Leaf : Range(toLeaf'[c]) \subseteq Range(toLeaf[c]) \cup {RelayEnd(h)}
    <3>1. \A c \in Leaf : Range(HubSends(toLeaf, c, RelayEnd(h))[c]) \subseteq Range(toLeaf[c]) \cup {RelayEnd(h)}
      BY <2>2, CarriedByHub
    <3> QED BY <2>3, <3>1
  <2>5. \A c \in Leaf : Range(toHub'[c]) \subseteq Range(toHub[c])
    BY <2>1, CarriedAfterRead
  <2> QED BY <1>c, <1>d, <1>f, <2>1, <2>4, <2>5
<1>10. ASSUME NEW l \in Leaf, LeafRequest(l) PROVE Homed'
  <2> DEFINE h == Head(toLeaf[l]).handle
  <2>1. toLeaf[l] # <<>> /\ toLeaf' = Take(toLeaf, l) /\ open' = open
    BY <1>10 DEF LeafRequest, LeafReads
  <2>2. RelayEnd(h) \in Frame
    BY <2>1, Reads, FrameTypes
  <2>3. toHub' = toHub \/ toHub' = LeafSends(toHub, l, RelayEnd(h))
    BY <1>10 DEF LeafRequest
  <2> HIDE DEF h
  <2>4. \A c \in Leaf : Range(toHub'[c]) \subseteq Range(toHub[c]) \cup {RelayEnd(h)}
    BY <2>2, <2>3, CarriedByLeaf
  <2>5. \A c \in Leaf : Range(toLeaf'[c]) \subseteq Range(toLeaf[c])
    BY <2>1, CarriedAfterRead
  <2> QED BY <1>c, <1>d, <1>f, <2>1, <2>4, <2>5
<1>11. ASSUME NEW l \in Leaf, LeafInput(l) \/ LeafEnd(l) PROVE Homed'
  <2>1. toLeaf[l] # <<>> /\ toLeaf' = Take(toLeaf, l) /\ UNCHANGED <<open, toHub>>
    BY <1>11 DEF LeafInput, LeafEnd, LeafReads, relayVars
  <2>2. \A c \in Leaf : Range(toLeaf'[c]) \subseteq Range(toLeaf[c])
    BY <2>1, CarriedAfterRead
  <2> QED BY <1>c, <1>d, <2>1, <2>2
<1>12. ASSUME \A c \in Leaf : toHub'[c] = toHub[c] \/ toHub'[c] = <<>>,
              \A c \in Leaf : toLeaf'[c] = toLeaf[c] \/ toLeaf'[c] = <<>>,
              \A b \in Bot : open'[b] \subseteq open[b]
       PROVE  Homed'
  <2>1. \A c \in Leaf : Range(toHub'[c]) \subseteq Range(toHub[c])
    BY <1>12, <1>g
  <2>2. \A c \in Leaf : Range(toLeaf'[c]) \subseteq Range(toLeaf[c])
    BY <1>12, <1>g
  <2> QED BY <1>12, <1>c, <1>d, <2>1, <2>2
<1>13. ASSUME NEW l \in Leaf, Connect(l) PROVE Homed'
  BY <1>13, <1>12 DEF Connect, LinkUp, relayVars
<1>14. ASSUME NEW l \in Leaf, LeafDisconnects(l) PROVE Homed'
  BY <1>14, <1>12 DEF LeafDisconnects, LeafLoses
<1>15. ASSUME NEW l \in Leaf, LeafRestarts(l) PROVE Homed'
  BY <1>15, <1>12 DEF LeafRestarts
<1>16. ASSUME HubRestarts PROVE Homed'
  BY <1>16, <1>12 DEF HubRestarts
<1>17. ASSUME NEW l \in Leaf, HubDisconnects(l) PROVE Homed'
  <2> DEFINE gone == {h \in Handle : \E r \in activeRelays[h] : Involves(r, l)}
             side(b) == {h \in gone : \E r \in activeRelays[h] : OtherSide(r, l) = b}
             endsFor(b) == {RelayEnd(h) : h \in side(b)}
  <2>1. \A b \in Leaf : toLeaf'[b] = toLeaf[b] \/ toLeaf'[b] = toLeaf[b] \o SetToSeq(endsFor(b))
    BY <1>17 DEF HubDisconnects
  <2>2. ASSUME NEW b \in Leaf
        PROVE  SetToSeq(endsFor(b)) \in Seq(Frame) /\ Range(SetToSeq(endsFor(b))) = endsFor(b)
    <3>1. side(b) \in SUBSET Handle
      OBVIOUS
    <3> HIDE DEF side
    <3> QED BY <3>1, EndsOfLeaver
  <2>3. ASSUME NEW b \in Leaf PROVE Range(toLeaf'[b]) \subseteq Range(toLeaf[b]) \cup endsFor(b)
    <3>1. Range(toLeaf[b] \o SetToSeq(endsFor(b))) = Range(toLeaf[b]) \cup endsFor(b)
      <4> HIDE DEF endsFor
      <4> QED BY <2>2, RangeOfChannel
    <3> QED BY <2>1, <3>1
  <2>4. \A b \in Leaf : \A f \in endsFor(b) : Abroad(f, b)
    BY <1>f
  <2>5. \A c \in Leaf : Range(toHub'[c]) \subseteq Range(toHub[c])
    BY <1>17, <1>g DEF HubDisconnects
  <2>6. open' = open
    BY <1>17 DEF HubDisconnects
  <2> QED BY <1>c, <1>d, <2>3, <2>4, <2>5, <2>6
<1>18. ASSUME UNCHANGED vars PROVE Homed'
  BY <1>18, <1>e DEF vars, linkVars, relayVars
<1> QED BY <1>1, <1>2, <1>3, <1>5, <1>6, <1>7, <1>8, <1>9, <1>10, <1>11, <1>13, <1>14, <1>15,
           <1>16, <1>17, <1>18 DEF Next

-----------------------------------------------------------------------------
(* Steady relays                                                            *)

(* NotStuck, with what is on the channel after the request told apart: it is   *)
(* the last frame about the relay that the hub will read.                    *)
Asked(b, h) == EndsWith(toHub[b], h, RelayRequest(h, b, relaying[b][h]))
Routed(b, h) ==
    [origin |-> b, target |-> relaying[b][h]] \in activeRelays[h] /\ Quiet(toHub[b], h)
Ended(b, h) == RelayEnd(h) \in Range(toLeaf[b])
Held(b, h) == Asked(b, h) \/ Routed(b, h) \/ Ended(b, h)

Unstuck ==
    \A b \in Leaf, h \in Handle : <<b, h>> \in steady => leafUp[b] /\ hubUp[b] /\ Held(b, h)

(* A step that changes nothing of a relay and reads none of its frames.      *)
LEMMA Undisturbed ==
    ASSUME Types, NEW b \in Leaf, NEW h \in Handle, Held(b, h),
           relaying'[b][h] = relaying[b][h],
           activeRelays'[h] = activeRelays[h],
           \/ toHub'[b] = toHub[b]
           \/ \E f \in Frame : ~Changes(f, h) /\ toHub'[b] = Append(toHub[b], f)
           \/ toHub[b] # <<>> /\ ~Changes(Head(toHub[b]), h) /\ toHub'[b] = Tail(toHub[b]),
           RelayEnd(h) \in Range(toLeaf[b]) => RelayEnd(h) \in Range(toLeaf'[b])
    PROVE  Held(b, h)'
<1> DEFINE req == RelayRequest(h, b, relaying[b][h])
<1>1. toHub[b] \in Seq(Frame)
  BY DEF Types
<1>2. Changes(req, h)
  BY DEF Changes, RelayRequest
<1>3. /\ EndsWith(toHub[b], h, req) => EndsWith(toHub'[b], h, req)
      /\ Quiet(toHub[b], h) => Quiet(toHub'[b], h)
  <2> HIDE DEF req
  <2>1. CASE toHub'[b] = toHub[b]
    BY <2>1
  <2>2. CASE \E f \in Frame : ~Changes(f, h) /\ toHub'[b] = Append(toHub[b], f)
    BY <2>2, <1>1, QuietAppend
  <2>3. CASE toHub[b] # <<>> /\ ~Changes(Head(toHub[b]), h) /\ toHub'[b] = Tail(toHub[b])
    BY <2>3, <1>1, <1>2, ReadFrame
  <2> QED BY <2>1, <2>2, <2>3
<1> QED BY <1>3 DEF Held, Asked, Routed, Ended

LEMMA ChangesOf ==
    /\ \A h, b, to, g : ~Changes(RelayInput(h, b, to), g)
    /\ \A h, g : Changes(RelayEnd(h), g) <=> h = g
    /\ \A h, b, to, g : Changes(RelayRequest(h, b, to), g) <=> h = g
    /\ \A f \in Frame : \A g : Changes(f, g) => f.handle = g /\ f.type # "RELAY_INPUT"
BY DEF Changes, RelayInput, RelayEnd, RelayRequest

LEMMA UnstuckStep ==
    ASSUME Types, Sessions, Homed, OneHome, ~SelfRelay, Unstuck, [Next]_vars
    PROVE  Unstuck'
<1>a. Hub \in Bot /\ Leaf \subseteq Bot /\ Hub \notin Leaf
  BY DEF Bot
<1>t. /\ toHub \in [Leaf -> Seq(Frame)] /\ toLeaf \in [Leaf -> Seq(Frame)]
      /\ relaying \in [Bot -> [Handle -> Bot \cup {None}]]
      /\ activeRelays \in [Handle -> SUBSET [origin : Leaf, target : Leaf]]
  BY DEF Types
<1> SUFFICES ASSUME NEW c \in Leaf, NEW g \in Handle, <<c, g>> \in steady'
             PROVE  leafUp'[c] /\ hubUp'[c] /\ Held(c, g)'
  BY DEF Unstuck
<1>b. ASSUME <<c, g>> \in steady
      PROVE  leafUp[c] /\ hubUp[c] /\ Held(c, g) /\ c \in Homes[g] /\ relaying[c][g] # None
  BY <1>b, <1>a DEF Unstuck, Sessions, Homed
<1>u. ASSUME <<c, g>> \in steady, UNCHANGED <<leafUp, hubUp>>,
             relaying'[c][g] = relaying[c][g],
             activeRelays'[g] = activeRelays[g],
             \/ toHub'[c] = toHub[c]
             \/ \E f \in Frame : ~Changes(f, g) /\ toHub'[c] = Append(toHub[c], f)
             \/ toHub[c] # <<>> /\ ~Changes(Head(toHub[c]), g) /\ toHub'[c] = Tail(toHub[c]),
             RelayEnd(g) \in Range(toLeaf[c]) => RelayEnd(g) \in Range(toLeaf'[c])
      PROVE  leafUp'[c] /\ hubUp'[c] /\ Held(c, g)'
  BY <1>u, <1>b, Undisturbed
<1>1. ASSUME NEW b \in Bot, NEW h \in Handle, OpenSession(b, h)
      PROVE  leafUp'[c] /\ hubUp'[c] /\ Held(c, g)'
  BY <1>1, <1>u DEF OpenSession, linkVars
<1>2. ASSUME NEW b \in Bot, NEW h \in Handle, CloseSession(b, h)
      PROVE  leafUp'[c] /\ hubUp'[c] /\ Held(c, g)'
  <2>1. <<c, g>> \in steady /\ ~(c = b /\ g = h)
    BY <1>2 DEF CloseSession
  <2>2. relaying'[c][g] = relaying[c][g]
    BY <1>2, <1>t, <1>a, <2>1 DEF CloseSession, ExitRelay
  <2> QED BY <1>2, <1>u, <2>1, <2>2 DEF CloseSession, linkVars
<1>3. ASSUME NEW b \in Bot, NEW h \in Handle, NEW to \in Bot, Relay(b, h, to)
      PROVE  leafUp'[c] /\ hubUp'[c] /\ Held(c, g)'
  <2> DEFINE req == RelayRequest(h, b, to)
  <2>1. /\ relaying[b][h] = None /\ relaying' = [relaying EXCEPT ![b][h] = to]
        /\ toHub' = IF b = Hub THEN toHub ELSE LeafSends(toHub, b, req)
        /\ toLeaf' = IF b = Hub THEN HubSends(toLeaf, to, req) ELSE toLeaf
        /\ UNCHANGED <<leafUp, hubUp, activeRelays>>
    BY <1>3 DEF Relay, SendsTo
  <2>2. req \in Frame
    BY FrameTypes
  <2>3. CASE c = b /\ g = h
    <3>1. leafUp[b] /\ hubUp[b]
      BY <1>3, <1>b, <2>1, <2>3 DEF Relay
    <3>2. relaying'[b][h] = to
      BY <2>1, <1>t, <1>a, <2>3
    <3>3. toHub'[b] = Append(toHub[b], req)
      BY <2>1, <2>3, <3>1, <1>a, <1>t DEF LeafSends
    <3>4. toHub[b] \in Seq(Frame)
      BY <1>t, <2>3
    <3>5. EndsWith(toHub'[b], h, req)
      <4> HIDE DEF req
      <4> QED BY <2>2, <3>3, <3>4, RequestAppend
    <3> QED BY <2>1, <2>3, <3>1, <3>2, <3>5 DEF Held, Asked
  <2>4. CASE ~(c = b /\ g = h)
    <3>1. <<c, g>> \in steady
      BY <1>3, <2>4 DEF Relay
    <3>2. relaying'[c][g] = relaying[c][g]
      BY <2>1, <2>4, <1>t, <1>a
    <3>3. toHub'[c] = toHub[c] \/ (~Changes(req, g) /\ toHub'[c] = Append(toHub[c], req))
      <4>1. c # b => toHub'[c] = toHub[c]
        BY <2>1 DEF LeafSends
      <4>2. c = b => toHub'[c] = toHub[c] \/ toHub'[c] = Append(toHub[c], req)
        BY <2>1, <1>t DEF LeafSends
      <4> QED BY <4>1, <4>2, <2>4, ChangesOf
    <3>4. Range(toLeaf[c]) \subseteq Range(toLeaf'[c])
      <4> HIDE DEF req
      <4> QED BY <2>1, <2>2, <1>t, CarriedByHub
    <3> QED BY <1>u, <2>1, <2>2, <3>1, <3>2, <3>3, <3>4
  <2> QED BY <2>3, <2>4
<1>4. ASSUME NEW b \in Bot, NEW h \in Handle, Type(b, h)
      PROVE  leafUp'[c] /\ hubUp'[c] /\ Held(c, g)'
  <2> DEFINE line == RelayInput(h, b, relaying[b][h])
  <2>1. /\ toHub' = IF b = Hub THEN toHub ELSE LeafSends(toHub, b, line)
        /\ toLeaf' = IF b = Hub THEN HubSends(toLeaf, relaying[b][h], line) ELSE toLeaf
        /\ UNCHANGED <<leafUp, hubUp, activeRelays, relaying, steady>>
        /\ relaying[b][h] \in Bot
    BY <1>4, <1>t DEF Type, SendsTo, relayVars
  <2>2. line \in Frame /\ ~Changes(line, g)
    BY <2>1, FrameTypes, ChangesOf
  <2> HIDE DEF line
  <2>3. toHub'[c] = toHub[c] \/ toHub'[c] = Append(toHub[c], line)
    BY <2>1, <1>t DEF LeafSends
  <2>4. Range(toLeaf[c]) \subseteq Range(toLeaf'[c])
    BY <2>1, <2>2, <1>t, CarriedByHub
  <2> QED BY <1>u, <2>1, <2>2, <2>3, <2>4
<1>5. ASSUME NEW b \in Bot, NEW h \in Handle, EndRelay(b, h)
      PROVE  leafUp'[c] /\ hubUp'[c] /\ Held(c, g)'
  <2> DEFINE end == RelayEnd(h)
  <2>1. /\ toHub' = IF b = Hub THEN toHub ELSE LeafSends(toHub, b, end)
        /\ toLeaf' = IF b = Hub THEN HubBroadcasts(toLeaf, end, Hub) ELSE toLeaf
        /\ UNCHANGED <<leafUp, hubUp, activeRelays>>
        /\ relaying' = [relaying EXCEPT ![b][h] = None] /\ steady' = steady \ {<<b, h>>}
    BY <1>5 DEF EndRelay, SendsOut, ExitRelay
  <2>2. <<c, g>> \in steady /\ ~(c = b /\ g = h)
    BY <2>1
  <2>3. relaying'[c][g] = relaying[c][g]
    BY <2>1, <2>2, <1>t, <1>a
  <2>4. end \in Frame /\ (g # h => ~Changes(end, g))
    BY FrameTypes, ChangesOf
  <2> HIDE DEF end
  <2>5. toHub'[c] = toHub[c] \/ (g # h /\ toHub'[c] = Append(toHub[c], end))
    <3>1. c # b => toHub'[c] = toHub[c]
      BY <2>1 DEF LeafSends
    <3>2. toHub'[c] = toHub[c] \/ toHub'[c] = Append(toHub[c], end)
      BY <2>1, <1>t DEF LeafSends
    <3> QED BY <2>2, <3>1, <3>2
  <2>6. Range(toLeaf[c]) \subseteq Range(toLeaf'[c])
    BY <2>1, <2>4, <1>t, CarriedByBroadcast
  <2> QED BY <1>u, <2>1, <2>2, <2>3, <2>4, <2>5, <2>6
<1>6. ASSUME NEW l \in Leaf, HubRequest(l)
      PROVE  leafUp'[c] /\ hubUp'[c] /\ Held(c, g)'
  <2> DEFINE frame == Head(toHub[l])
             end == RelayEnd(frame.handle)
             there == frame.to \in Leaf /\ hubUp[frame.to]
             route == [origin |-> l, target |-> frame.to]
             routed == IF there THEN HubSends(toLeaf, frame.to, frame) ELSE HubSends(toLeaf, l, end)
  <2>1. /\ toHub[l] # <<>> /\ frame.type = "RELAY_REQUEST" /\ toHub' = Take(toHub, l)
        /\ UNCHANGED <<leafUp, hubUp, relaying, steady>>
        /\ activeRelays' = IF there THEN [activeRelays EXCEPT ![frame.handle] = {route}] ELSE activeRelays
        /\ toLeaf' = routed \/ toLeaf' = HubBroadcasts(routed, end, Hub)
    BY <1>6 DEF HubRequest, HubReads
  <2>2. frame \in Frame /\ frame.handle \in Handle /\ end \in Frame
    BY <2>1, <1>t, Reads, FrameTypes
  <2>3. l \in Homes[frame.handle] /\ frame.from = l
    BY <2>1, <1>t, CarriedAfterRead DEF Homed
  <2>4. <<c, g>> \in steady
    BY <2>1
  <2>5. Range(toLeaf[c]) \subseteq Range(routed[c]) /\ routed \in [Leaf -> Seq(Frame)]
    <3> HIDE DEF frame, end, there
    <3>1. /\ Range(toLeaf[c]) \subseteq Range(HubSends(toLeaf, frame.to, frame)[c])
          /\ Range(toLeaf[c]) \subseteq Range(HubSends(toLeaf, l, end)[c])
      BY <2>2, <1>t, CarriedByHub
    <3>2. /\ HubSends(toLeaf, frame.to, frame) \in [Leaf -> Seq(Frame)]
          /\ HubSends(toLeaf, l, end) \in [Leaf -> Seq(Frame)]
      BY <2>2, <1>t, Sends
    <3> QED BY <3>1, <3>2
  <2>6. Range(routed[c]) \subseteq Range(toLeaf'[c])
    <3> HIDE DEF frame, end, routed
    <3> QED BY <2>1, <2>2, <2>5, CarriedByBroadcast
  <2>7. toHub'[c] = IF c = l THEN Tail(toHub[c]) ELSE toHub[c]
    BY <2>1, <1>t, Reads
  <2>8. g = frame.handle => c = l
    BY <2>3, <2>4, <1>b DEF OneHome
  <2>9. CASE g # frame.handle
    <3>1. activeRelays'[g] = activeRelays[g]
      BY <2>1, <2>9
    <3>2. ~Changes(frame, g)
      BY <2>2, <2>9, ChangesOf
    <3> QED BY <1>u, <2>1, <2>4, <2>5, <2>6, <2>7, <3>1, <3>2
  <2>10. CASE g = frame.handle
    <3>1. c = l
      BY <2>8, <2>10
    <3>2. leafUp[c] /\ hubUp[c] /\ Held(c, g)
      BY <1>b, <2>4
    <3>3. CASE Ended(c, g)
      BY <2>1, <2>5, <2>6, <3>2, <3>3 DEF Held, Ended
    <3>4. CASE Routed(c, g)
      <4>1. Changes(frame, g)
        BY <2>1, <2>10 DEF Changes
      <4>2. ~Changes(frame, g)
        BY <2>1, <1>t, <3>1, <3>4, ReadFrame DEF Routed
      <4> QED BY <4>1, <4>2
    <3>5. CASE Asked(c, g)
      <4> DEFINE req == RelayRequest(g, c, relaying[c][g])
      <4>1. EndsWith(Tail(toHub[c]), g, req) \/ (frame = req /\ Quiet(Tail(toHub[c]), g))
        <5> HIDE DEF req
        <5>1. EndsWith(toHub[c], g, req) /\ toHub[c] # <<>> /\ toHub[c] \in Seq(Frame)
          BY <2>1, <1>t, <3>1, <3>5 DEF Asked, req
        <5> QED BY <5>1, <3>1, ReadFrame
      <4>2. CASE EndsWith(Tail(toHub[c]), g, req)
        BY <2>1, <2>7, <3>1, <3>2, <4>2 DEF Held, Asked
      <4>3. CASE frame = req /\ Quiet(Tail(toHub[c]), g)
        <5>1. frame.to = relaying[c][g]
          BY <4>3 DEF RelayRequest
        <5>2. CASE there
          <6>1. activeRelays'[g] = {route}
            BY <2>1, <2>10, <1>t, <5>2
          <6> QED BY <2>1, <2>7, <3>1, <3>2, <4>3, <5>1, <6>1 DEF Held, Routed
        <5>3. CASE ~there
          <6>1. routed = HubSends(toLeaf, l, end)
            BY <5>3
          <6>2. end \in Range(HubSends(toLeaf, l, end)[c])
            <7> HIDE DEF end
            <7> QED BY <2>2, <1>t, <3>1, <3>2, CarriedByHub
          <6>3. RelayEnd(g) \in Range(toLeaf'[c])
            BY <2>6, <2>10, <6>1, <6>2
          <6> QED BY <2>1, <3>2, <6>3 DEF Held, Ended
        <5> QED BY <5>2, <5>3
      <4> QED BY <4>1, <4>2, <4>3
    <3> QED BY <3>2, <3>3, <3>4, <3>5 DEF Held
  <2> QED BY <2>9, <2>10
<1>7. ASSUME NEW l \in Leaf, HubInput(l)
      PROVE  leafUp'[c] /\ hubUp'[c] /\ Held(c, g)'
  <2> DEFINE frame == Head(toHub[l])
  <2>1. /\ toHub[l] # <<>> /\ frame.type = "RELAY_INPUT" /\ toHub' = Take(toHub, l)
        /\ UNCHANGED <<leafUp, hubUp, relaying, steady, activeRelays>>
        /\ toLeaf'[c] = toLeaf[c] \/ toLeaf'[c] = HubSends(toLeaf, c, frame)[c]
    BY <1>7 DEF HubInput, HubReads, relayVars
  <2>2. frame \in Frame /\ ~Changes(frame, g)
    BY <2>1, <1>t, Reads DEF Changes
  <2>3. toHub'[c] = IF c = l THEN Tail(toHub[c]) ELSE toHub[c]
    BY <2>1, <1>t DEF Take
  <2>4. Range(toLeaf[c]) \subseteq Range(toLeaf'[c])
    <3> HIDE DEF frame
    <3>1. Range(toLeaf[c]) \subseteq Range(HubSends(toLeaf, c, frame)[c])
      BY <2>2, <1>t, CarriedByHub
    <3> QED BY <3>1, <2>1
  <2> QED BY <1>u, <2>1, <2>2, <2>3, <2>4
<1>8. ASSUME NEW l \in Leaf, HubEnd(l)
      PROVE  leafUp'[c] /\ hubUp'[c] /\ Held(c, g)'
  <2> DEFINE frame == Head(toHub[l])
             h == frame.handle
  <2>1. /\ toHub[l] # <<>> /\ frame.type = "RELAY_END" /\ toHub' = Take(toHub, l)
        /\ UNCHANGED <<leafUp, hubUp, steady>>
        /\ activeRelays' = [activeRelays EXCEPT ![h] = {}]
        /\ relaying' = [relaying EXCEPT ![Hub][h] = None]
        /\ toLeaf'[c] = IF \E r \in activeRelays[h] : OtherSide(r, l) = c
                        THEN HubSends(toLeaf, c, RelayEnd(h))[c] ELSE toLeaf[c]
    BY <1>8 DEF HubEnd, HubReads, ExitRelay
  <2>2. frame \in Frame /\ h \in Handle /\ RelayEnd(h) \in Frame
    BY <2>1, <1>t, Reads, FrameTypes
  <2>3. toHub'[c] = IF c = l THEN Tail(toHub[c]) ELSE toHub[c]
    BY <2>1, <1>t DEF Take
  <2>4. <<c, g>> \in steady /\ leafUp[c] /\ hubUp[c] /\ Held(c, g)
    BY <2>1, <1>b
  <2>5. relaying'[c][g] = relaying[c][g]
    BY <2>1, <1>t, <1>a
  <2>6. /\ Range(toLeaf[c]) \subseteq Range(HubSends(toLeaf, c, RelayEnd(h))[c])
        /\ RelayEnd(h) \in Range(HubSends(toLeaf, c, RelayEnd(h))[c])
    <3> HIDE DEF h
    <3> QED BY <2>2, <2>4, <1>t, CarriedByHub
  <2>7. Range(toLeaf[c]) \subseteq Range(toLeaf'[c])
    BY <2>1, <2>6
  <2>8. CASE g # h
    <3>1. activeRelays'[g] = activeRelays[g] /\ ~Changes(frame, g)
      BY <2>1, <2>2, <2>8, ChangesOf
    <3> QED BY <1>u, <2>1, <2>3, <2>4, <2>5, <2>7, <3>1
  <2>9. CASE g = h
    <3>1. CASE Ended(c, g)
      BY <2>1, <2>4, <2>7, <3>1 DEF Held, Ended
    <3>2. CASE Asked(c, g)
      <4> DEFINE req == RelayRequest(g, c, relaying[c][g])
      <4>1. EndsWith(toHub[c], g, req) /\ toHub[c] \in Seq(Frame)
        BY <1>t, <3>2 DEF Asked
      <4>2. EndsWith(toHub'[c], g, req)
        <5>1. CASE c # l
          BY <2>3, <4>1, <5>1
        <5>2. CASE c = l
          <6>1. frame # req
            BY <2>1 DEF RelayRequest
          <6> HIDE DEF req
          <6> QED BY <2>1, <2>3, <4>1, <5>2, <6>1, ReadFrame
        <5> QED BY <5>1, <5>2
      <4> QED BY <2>1, <2>4, <2>5, <4>2 DEF Held, Asked
    <3>3. CASE Routed(c, g)
      <4>1. c # l
        <5>1. Changes(frame, g)
          BY <2>1, <2>9 DEF Changes
        <5>2. ASSUME c = l PROVE ~Changes(frame, g)
          BY <2>1, <1>t, <3>3, <5>2, ReadFrame DEF Routed
        <5> QED BY <5>1, <5>2
      <4>2. \E r \in activeRelays[h] : OtherSide(r, l) = c
        BY <2>9, <3>3, <4>1 DEF Routed, OtherSide
      <4>3. RelayEnd(g) \in Range(toLeaf'[c])
        BY <2>1, <2>6, <2>9, <4>2
      <4> QED BY <2>1, <2>4, <4>3 DEF Held, Ended
    <3> QED BY <2>4, <3>1, <3>2, <3>3 DEF Held
  <2> QED BY <2>8, <2>9
<1>9. ASSUME NEW l \in Leaf, LeafRequest(l)
      PROVE  leafUp'[c] /\ hubUp'[c] /\ Held(c, g)'
  <2> DEFINE frame == Head(toLeaf[l])
             end == RelayEnd(frame.handle)
  <2>1. /\ toLeaf[l] # <<>> /\ frame.type = "RELAY_REQUEST" /\ toLeaf' = Take(toLeaf, l)
        /\ UNCHANGED <<leafUp, hubUp, relaying, steady, activeRelays>>
        /\ toHub' = toHub \/ toHub' = LeafSends(toHub, l, end)
    BY <1>9 DEF LeafRequest, LeafReads
  <2>2. frame \in Frame /\ frame.handle \in Handle /\ end \in Frame
    BY <2>1, <1>t, Reads, FrameTypes
  <2>3. l \notin Homes[frame.handle]
    BY <2>1, <1>t, CarriedAfterRead DEF Homed
  <2>4. <<c, g>> \in steady /\ c \in Homes[g]
    BY <2>1, <1>b
  <2>5. c = l => ~Changes(end, g)
    BY <2>3, <2>4, ChangesOf
  <2>6. frame # RelayEnd(g)
    BY <2>1 DEF RelayEnd
  <2> HIDE DEF frame, end
  <2>7. toHub'[c] = toHub[c] \/ (c = l /\ toHub'[c] = Append(toHub[c], end))
    BY <2>1, <1>t DEF LeafSends
  <2>8. RelayEnd(g) \in Range(toLeaf[c]) => RelayEnd(g) \in Range(toLeaf'[c])
    <3>1. Range(toLeaf[l]) = {frame} \cup Range(Take(toLeaf, l)[l])
      BY <2>1, <1>t, CarriedAfterRead DEF frame
    <3>2. c # l => toLeaf'[c] = toLeaf[c]
      BY <2>1, <1>t, CarriedAfterRead
    <3> QED BY <2>1, <2>6, <3>1, <3>2
  <2> QED BY <1>u, <2>1, <2>2, <2>4, <2>5, <2>7, <2>8
<1>10. ASSUME NEW l \in Leaf, LeafInput(l) \/ LeafEnd(l)
       PROVE  leafUp'[c] /\ hubUp'[c] /\ Held(c, g)'
  <2> DEFINE frame == Head(toLeaf[l])
  <2>1. /\ toLeaf[l] # <<>> /\ toLeaf' = Take(toLeaf, l)
        /\ UNCHANGED <<leafUp, hubUp, toHub, activeRelays>>
        /\ \/ frame.type = "RELAY_INPUT" /\ UNCHANGED <<relaying, steady>>
           \/ /\ relaying' = [relaying EXCEPT ![l][frame.handle] = None]
              /\ steady' = steady \ {<<l, frame.handle>>}
    BY <1>10 DEF LeafInput, LeafEnd, LeafReads, relayVars, ExitRelay
  <2>2. /\ <<c, g>> \in steady /\ relaying'[c][g] = relaying[c][g]
        /\ frame.type = "RELAY_INPUT" \/ ~(c = l /\ g = frame.handle)
    BY <2>1, <1>t, <1>a
  <2>3. c = l => frame # RelayEnd(g)
    BY <2>2 DEF RelayEnd
  <2>4. RelayEnd(g) \in Range(toLeaf[c]) => RelayEnd(g) \in Range(toLeaf'[c])
    <3>1. Range(toLeaf[l]) = {frame} \cup Range(Take(toLeaf, l)[l])
      BY <2>1, <1>t, CarriedAfterRead
    <3>2. c # l => toLeaf'[c] = toLeaf[c]
      BY <2>1, <1>t, CarriedAfterRead
    <3> HIDE DEF frame
    <3> QED BY <2>1, <2>3, <3>1, <3>2
  <2> QED BY <1>u, <2>1, <2>2, <2>4
<1>11. ASSUME NEW l \in Leaf, c # l, <<c, g>> \in steady,
              leafUp'[c] = leafUp[c], hubUp'[c] = hubUp[c],
              toHub'[c] = toHub[c], toLeaf'[c] = toLeaf[c],
              relaying'[c] = relaying[c], activeRelays' = activeRelays
       PROVE  leafUp'[c] /\ hubUp'[c] /\ Held(c, g)'
  BY <1>11, <1>b, Undisturbed
<1>12. ASSUME NEW l \in Leaf, Connect(l)
       PROVE  leafUp'[c] /\ hubUp'[c] /\ Held(c, g)'
  <2>1. <<c, g>> \in steady /\ c # l
    BY <1>12, <1>b DEF Connect, LinkUp, relayVars
  <2> QED BY <1>12, <1>11, <2>1 DEF Connect, LinkUp, relayVars
<1>13. ASSUME NEW l \in Leaf, LeafDisconnects(l)
       PROVE  leafUp'[c] /\ hubUp'[c] /\ Held(c, g)'
  <2>1. <<c, g>> \in steady /\ c # l
    BY <1>13 DEF LeafDisconnects, Lost
  <2> QED BY <1>13, <1>11, <2>1 DEF LeafDisconnects, LeafLoses
<1>14. ASSUME NEW l \in Leaf, LeafRestarts(l)
       PROVE  leafUp'[c] /\ hubUp'[c] /\ Held(c, g)'
  <2>1. <<c, g>> \in steady /\ c # l
    BY <1>14 DEF LeafRestarts
  <2> QED BY <1>14, <1>11, <2>1 DEF LeafRestarts
<1>15. ASSUME NEW l \in Leaf, HubDisconnects(l)
       PROVE  leafUp'[c] /\ hubUp'[c] /\ Held(c, g)'
  <2> DEFINE gone == {h \in Handle : \E r \in activeRelays[h] : Involves(r, l)}
             side(b) == {h \in gone : \E r \in activeRelays[h] : OtherSide(r, l) = b}
             endsFor(b) == {RelayEnd(h) : h \in side(b)}
  <2>1. <<c, g>> \in steady /\ c # l
    BY <1>15 DEF HubDisconnects, Lost
  <2>2. /\ leafUp'[c] = leafUp[c] /\ hubUp'[c] = hubUp[c] /\ toHub'[c] = toHub[c] /\ relaying' = relaying
        /\ activeRelays'[g] = IF g \in gone THEN {} ELSE activeRelays[g]
        /\ toLeaf'[c] = IF hubUp[c] /\ leafUp[c] THEN toLeaf[c] \o SetToSeq(endsFor(c)) ELSE toLeaf[c]
    BY <1>15, <2>1 DEF HubDisconnects
  <2>3. leafUp[c] /\ hubUp[c] /\ Held(c, g)
    BY <1>b, <2>1
  <2>4. Range(toLeaf'[c]) = Range(toLeaf[c]) \cup endsFor(c)
    <3>1. side(c) \in SUBSET Handle
      OBVIOUS
    <3> HIDE DEF side
    <3>2. SetToSeq(endsFor(c)) \in Seq(Frame) /\ Range(SetToSeq(endsFor(c))) = endsFor(c)
      BY <3>1, EndsOfLeaver
    <3> HIDE DEF endsFor
    <3> QED BY <2>2, <2>3, <3>2, <1>t, RangeOfChannel
  <2>5. CASE g \notin gone
    <3> HIDE DEF gone
    <3> QED BY <2>1, <2>2, <2>3, <2>4, <2>5, Undisturbed
  <2>6. CASE g \in gone
    <3>1. CASE Asked(c, g)
      BY <2>2, <2>3, <3>1 DEF Held, Asked
    <3>2. CASE Ended(c, g)
      BY <2>2, <2>3, <2>4, <3>2 DEF Held, Ended
    <3>3. CASE Routed(c, g)
      <4> DEFINE r == [origin |-> c, target |-> relaying[c][g]]
      <4>1. r \in activeRelays[g] /\ Involves(r, l)
        BY <2>6, <3>3 DEF Routed, Sessions
      <4>2. OtherSide(r, l) = c
        BY <2>1 DEF OtherSide
      <4>3. RelayEnd(g) \in endsFor(c)
        BY <2>6, <4>1, <4>2
      <4> QED BY <2>2, <2>3, <2>4, <4>3 DEF Held, Ended
    <3> QED BY <2>3, <3>1, <3>2, <3>3 DEF Held
  <2> QED BY <2>5, <2>6
<1>16. ASSUME HubRestarts
       PROVE  leafUp'[c] /\ hubUp'[c] /\ Held(c, g)'
  BY <1>16 DEF HubRestarts
<1>17. ASSUME UNCHANGED vars
       PROVE  leafUp'[c] /\ hubUp'[c] /\ Held(c, g)'
  BY <1>17, <1>u DEF vars, linkVars, relayVars
<1> QED BY <1>1, <1>2, <1>3, <1>4, <1>5, <1>6, <1>7, <1>8, <1>9, <1>10, <1>12, <1>13, <1>14,
           <1>15, <1>16, <1>17 DEF Next

(* Nobody is left typing into nothing, as long as users are at home on one bot  *)
(* and do not relay to it (routeRelayFrame, cleanupLeafState,                *)
(* handleRelayFrame).                                                        *)
THEOREM NobodyIsStuck ==
    ASSUME OneHome, ~SelfRelay
    PROVE  Spec => []NotStuck
<1> DEFINE IInv == Types /\ Sessions /\ Homed /\ Unstuck
<1>1. Init => IInv
  <2> SUFFICES ASSUME Init PROVE IInv
    OBVIOUS
  <2>1. Types
    BY TypesInit
  <2>2. Sessions /\ Unstuck
    BY DEF Init, Sessions, Unstuck
  <2>3. Range(<<>>) = {}
    BY EmptySeq, LenProperties DEF Range
  <2>4. Homed
    BY <2>3 DEF Init, LinkInit, Homed
  <2> QED BY <2>1, <2>2, <2>4
<1>2. IInv /\ [Next]_vars => IInv'
  BY TypesStep, SessionsStep, HomedStep, UnstuckStep
<1>3. IInv => NotStuck
  <2> SUFFICES ASSUME Types, Unstuck, NEW b \in Leaf, NEW h \in Handle, <<b, h>> \in steady
               PROVE  \/ RelayRequest(h, b, relaying[b][h]) \in Range(toHub[b])
                      \/ [origin |-> b, target |-> relaying[b][h]] \in activeRelays[h]
                      \/ RelayEnd(h) \in Range(toLeaf[b])
    BY DEF NotStuck
  <2>1. CASE Asked(b, h)
    <3>1. \E i \in 1..Len(toHub[b]) : toHub[b][i] = RelayRequest(h, b, relaying[b][h])
      BY <2>1 DEF Asked, EndsWith
    <3>2. DOMAIN toHub[b] = 1..Len(toHub[b])
      BY LenProperties DEF Types
    <3> QED BY <3>1, <3>2 DEF Range
  <2> QED BY <2>1 DEF Unstuck, Held, Routed, Ended
<1> QED BY <1>1, <1>2, <1>3, PTL DEF Spec

-----------------------------------------------------------------------------
(* Virtual sessions                                                         *)

(* What the target of a relay of h, for b, comes to once it has read what is on *)
(* its way to it: its session v lasts, or a request opens it, and no end       *)
(* follows.                                                                 *)
Opens(f, h) == f.type = "RELAY_REQUEST" /\ f.handle = h
Followed(ch, h, i) == \E j \in 1..Len(ch) : j > i /\ ch[j] = RelayEnd(h)
Claims(ch, v, h, b, l) ==
    \/ v = b /\ \A j \in 1..Len(ch) : ch[j] # RelayEnd(h)
    \/ \E i \in 1..Len(ch) : ch[i] = RelayRequest(h, b, l) /\ ~Followed(ch, h, i)

(* On the way to the hub the requests of a handle are told apart by ends, and   *)
(* one that none follows is for a bot of S; no request comes before an end.    *)
Orderly(ch, h, S) ==
    \A i \in 1..Len(ch) : Opens(ch[i], h) =>
        /\ Followed(ch, h, i) \/ ch[i].to \in S
        /\ \A k \in 1..Len(ch) : k > i /\ Opens(ch[k], h) =>
            \E j \in 1..Len(ch) : i < j /\ j < k /\ ch[j] = RelayEnd(h)
Parted(ch, h) ==
    \A i \in 1..Len(ch) : Opens(ch[i], h) => \E j \in 1..Len(ch) : j < i /\ ch[j] = RelayEnd(h)

LEMMA ClaimsAppend ==
    ASSUME NEW ch \in Seq(Frame), NEW f \in Frame, NEW v, NEW h, NEW b, NEW l,
           Claims(Append(ch, f), v, h, b, l)
    PROVE  f # RelayEnd(h) /\ (Claims(ch, v, h, b, l) \/ f = RelayRequest(h, b, l))
<1> DEFINE n == Len(ch)
           all == Append(ch, f)
<1>1. /\ Len(all) = n + 1 /\ n \in Nat
      /\ \A i \in 1..n : all[i] = ch[i] /\ i \in 1..Len(all) /\ n + 1 > i
      /\ all[n + 1] = f /\ n + 1 \in 1..Len(all)
      /\ \A i \in 1..Len(all) : i \in 1..n \/ i = n + 1
  BY AppendProperties, LenProperties
<1>2. RelayEnd(h) # RelayRequest(h, b, l)
  BY DEF RelayEnd, RelayRequest
<1> DEFINE end == RelayEnd(h)
           req == RelayRequest(h, b, l)
<1>3. \/ v = b /\ \A j \in 1..Len(all) : all[j] # end
      \/ \E i \in 1..Len(all) : all[i] = req /\ ~\E j \in 1..Len(all) : j > i /\ all[j] = end
  BY DEF Claims, Followed
<1>4. SUFFICES \/ f # end /\ v = b /\ \A j \in 1..n : ch[j] # end
               \/ f # end /\ \E i \in 1..n : ch[i] = req /\ ~\E j \in 1..n : j > i /\ ch[j] = end
               \/ f # end /\ f = req
  BY DEF Claims, Followed
<1> HIDE DEF n, all, end, req
<1>5. CASE v = b /\ \A j \in 1..Len(all) : all[j] # end
  BY <1>5, <1>1
<1>6. ASSUME NEW i \in 1..Len(all), all[i] = req, ~\E j \in 1..Len(all) : j > i /\ all[j] = end
      PROVE  \/ f # end /\ \E k \in 1..n : ch[k] = req /\ ~\E j \in 1..n : j > k /\ ch[j] = end
             \/ f # end /\ f = req
  <2>1. CASE i = n + 1
    BY <2>1, <1>1, <1>2, <1>6 DEF end, req
  <2>2. CASE i \in 1..n
    <3>1. f # end
      BY <2>2, <1>1, <1>6
    <3>2. ch[i] = req /\ ~\E j \in 1..n : j > i /\ ch[j] = end
      BY <2>2, <1>1, <1>6
    <3> QED BY <2>2, <3>1, <3>2
  <2> QED BY <2>1, <2>2, <1>1
<1> QED BY <1>3, <1>5, <1>6

LEMMA ClaimsMore ==
    ASSUME NEW ch \in Seq(Frame), NEW more \in Seq(Frame), NEW v, NEW h, NEW b, NEW l,
           \A f \in Range(more) : f.type = "RELAY_END",
           Claims(ch \o more, v, h, b, l)
    PROVE  RelayEnd(h) \notin Range(more) /\ Claims(ch, v, h, b, l)
<1> DEFINE n == Len(ch)
           m == Len(more)
           all == ch \o more
           end == RelayEnd(h)
           req == RelayRequest(h, b, l)
<1>1. /\ Len(all) = n + m /\ n \in Nat /\ m \in Nat
      /\ \A i \in 1..n : all[i] = ch[i]
      /\ \A i \in 1..m : all[n + i] = more[i]
      /\ DOMAIN more = 1..m
  BY ConcatProperties, LenProperties
<1>2. req.type = "RELAY_REQUEST" /\ \A i \in 1..m : more[i].type = "RELAY_END"
  BY <1>1 DEF RelayRequest, Range
<1>3. \/ v = b /\ \A j \in 1..Len(all) : all[j] # end
      \/ \E i \in 1..Len(all) : all[i] = req /\ ~\E j \in 1..Len(all) : j > i /\ all[j] = end
  BY DEF Claims, Followed
<1>4. SUFFICES /\ \A j \in 1..m : more[j] # end
               /\ \/ v = b /\ \A j \in 1..n : ch[j] # end
                  \/ \E i \in 1..n : ch[i] = req /\ ~\E j \in 1..n : j > i /\ ch[j] = end
  BY <1>1 DEF Claims, Followed, Range
<1> HIDE DEF n, m, all, end, req
<1>5. /\ \A i \in 1..n : i \in 1..Len(all)
      /\ \A i \in 1..m : n + i \in 1..Len(all) /\ \A k \in 1..n : n + i > k
      /\ \A i \in 1..Len(all) : i \in 1..n \/ (i - n \in 1..m /\ n + (i - n) = i)
  BY <1>1
<1>6. CASE v = b /\ \A j \in 1..Len(all) : all[j] # end
  BY <1>6, <1>1, <1>5
<1>7. ASSUME NEW i \in 1..Len(all), all[i] = req, ~\E j \in 1..Len(all) : j > i /\ all[j] = end
      PROVE  /\ \A j \in 1..m : more[j] # end
             /\ \E k \in 1..n : ch[k] = req /\ ~\E j \in 1..n : j > k /\ ch[j] = end
  <2>1. i \in 1..n
    BY <1>1, <1>2, <1>5, <1>7
  <2>2. \A j \in 1..m : more[j] # end
    BY <2>1, <1>1, <1>5, <1>7
  <2>3. ch[i] = req /\ ~\E j \in 1..n : j > i /\ ch[j] = end
    BY <2>1, <1>1, <1>5, <1>7
  <2> QED BY <2>1, <2>2, <2>3
<1> QED BY <1>3, <1>6, <1>7

(* The target reads a frame.                                                 *)
LEMMA ClaimsTail ==
    ASSUME NEW ch \in Seq(Frame), ch # <<>>, NEW v, NEW w, NEW h, NEW b, NEW l,
           Claims(Tail(ch), w, h, b, l),
           \/ w = v /\ Head(ch) # RelayEnd(h)
           \/ Head(ch) = RelayRequest(h, w, l)
           \/ w # b
    PROVE  Claims(ch, v, h, b, l)
<1> DEFINE n == Len(ch)
           rest == Tail(ch)
           end == RelayEnd(h)
           req == RelayRequest(h, b, l)
<1>1. /\ n \in Nat /\ n > 0 /\ Head(ch) = ch[1] /\ Len(rest) = n - 1
      /\ \A i \in 1..Len(rest) : rest[i] = ch[i + 1]
  BY HeadTailProperties, EmptySeq, LenProperties
<1>2. end # RelayRequest(h, w, l)
  BY DEF RelayEnd, RelayRequest
<1>3. \/ w = b /\ \A j \in 1..Len(rest) : rest[j] # end
      \/ \E i \in 1..Len(rest) : rest[i] = req /\ ~\E j \in 1..Len(rest) : j > i /\ rest[j] = end
  BY DEF Claims, Followed
<1>4. SUFFICES \/ v = b /\ \A j \in 1..n : ch[j] # end
               \/ \E i \in 1..n : ch[i] = req /\ ~\E j \in 1..n : j > i /\ ch[j] = end
  BY DEF Claims, Followed
<1>5. /\ 1 \in 1..n /\ \A i \in 1..Len(rest) : i + 1 \in 1..n
      /\ \A j \in 1..n : j = 1 \/ (j - 1 \in 1..Len(rest) /\ (j - 1) + 1 = j)
  BY <1>1
<1>6. w = b => RelayRequest(h, w, l) = req
  OBVIOUS
<1> HIDE DEF n, rest, end, req
<1>7. ASSUME w = b, \A j \in 1..Len(rest) : rest[j] # end
      PROVE  \/ v = b /\ \A j \in 1..n : ch[j] # end
             \/ \E i \in 1..n : ch[i] = req /\ ~\E j \in 1..n : j > i /\ ch[j] = end
  <2>1. \A j \in 1..n : j # 1 => ch[j] # end
    <3>1. ASSUME NEW j \in 1..n, j # 1 PROVE ch[j] # end
      <4>1. j - 1 \in 1..Len(rest) /\ (j - 1) + 1 = j
        BY <3>1, <1>5
      <4>2. rest[j - 1] = ch[j]
        BY <4>1, <1>1
      <4> QED BY <4>1, <4>2, <1>7
    <3> QED BY <3>1
  <2>2. CASE w = v /\ Head(ch) # end
    BY <2>1, <2>2, <1>1, <1>7
  <2>3. CASE Head(ch) = RelayRequest(h, w, l)
    <3>1. ch[1] = req /\ ~\E j \in 1..n : j > 1 /\ ch[j] = end
      BY <2>1, <2>3, <1>1, <1>6, <1>7
    <3> QED BY <3>1, <1>5
  <2> QED BY <2>2, <2>3, <1>7 DEF end
<1>8. ASSUME NEW i \in 1..Len(rest), rest[i] = req, ~\E j \in 1..Len(rest) : j > i /\ rest[j] = end
      PROVE  \E k \in 1..n : ch[k] = req /\ ~\E j \in 1..n : j > k /\ ch[j] = end
  <2>1. i + 1 \in 1..n /\ ch[i + 1] = req
    BY <1>1, <1>5, <1>8
  <2>2. ASSUME NEW j \in 1..n, j > i + 1, ch[j] = end PROVE FALSE
    <3>1. j - 1 \in 1..Len(rest) /\ j - 1 > i /\ rest[j - 1] = end
      BY <2>2, <1>1, <1>5
    <3> QED BY <3>1, <1>8
  <2> QED BY <2>1, <2>2
<1> QED BY <1>3, <1>7, <1>8

LEMMA ClaimsNone ==
    ASSUME NEW v, NEW h, NEW b, NEW l, v # b
    PROVE  ~Claims(<<>>, v, h, b, l)
<1>1. Len(<<>>) = 0 /\ 1..0 = {}
  BY EmptySeq
<1> QED BY <1>1 DEF Claims

(* A leaf sends a frame: one that is not about the relay of h, its end, or the  *)
(* first request since an end.                                               *)
LEMMA OrderlyAppend ==
    ASSUME NEW ch \in Seq(Frame), NEW f \in Frame, NEW h, NEW S, NEW T, Orderly(ch, h, S),
           \/ ~Changes(f, h) /\ S \subseteq T
           \/ f = RelayEnd(h)
           \/ Opens(f, h) /\ f.to \in T /\ \A i \in 1..Len(ch) : Opens(ch[i], h) => ch[i].to \notin S
    PROVE  Orderly(Append(ch, f), h, T)
<1> DEFINE n == Len(ch)
           all == Append(ch, f)
           end == RelayEnd(h)
<1>1. /\ Len(all) = n + 1 /\ n \in Nat
      /\ \A i \in 1..n : all[i] = ch[i] /\ i \in 1..Len(all) /\ n + 1 > i
      /\ all[n + 1] = f /\ n + 1 \in 1..Len(all)
      /\ \A i \in 1..Len(all) : i \in 1..n \/ i = n + 1
  BY AppendProperties, LenProperties
<1>2. ~Opens(end, h) /\ (~Changes(f, h) => ~Opens(f, h))
  BY DEF Opens, Changes, RelayEnd
<1>3. \A i \in 1..n : Opens(ch[i], h) =>
        /\ (\E j \in 1..n : j > i /\ ch[j] = end) \/ ch[i].to \in S
        /\ \A k \in 1..n : k > i /\ Opens(ch[k], h) => \E j \in 1..n : i < j /\ j < k /\ ch[j] = end
  BY DEF Orderly, Followed
<1>4. SUFFICES ASSUME NEW i \in 1..Len(all), Opens(all[i], h)
      PROVE  /\ (\E j \in 1..Len(all) : j > i /\ all[j] = end) \/ all[i].to \in T
             /\ \A k \in 1..Len(all) : k > i /\ Opens(all[k], h) =>
                    \E j \in 1..Len(all) : i < j /\ j < k /\ all[j] = end
  BY DEF Orderly, Followed
<1> HIDE DEF n, all, end
<1>5. CASE i = n + 1
  <2>1. ~\E k \in 1..Len(all) : k > i
    BY <1>1, <1>5
  <2>2. all[i].to \in T
    BY <1>1, <1>2, <1>4, <1>5 DEF end
  <2> QED BY <2>1, <2>2
<1>6. CASE i \in 1..n
  <2>1. Opens(ch[i], h) /\ all[i] = ch[i]
    BY <1>1, <1>4, <1>6
  <2>2. (\E j \in 1..n : j > i /\ ch[j] = end) => \E j \in 1..Len(all) : j > i /\ all[j] = end
    BY <1>1
  <2>3. f = end => \E j \in 1..Len(all) : j > i /\ all[j] = end
    BY <1>1, <1>6
  <2>4. (\E j \in 1..Len(all) : j > i /\ all[j] = end) \/ all[i].to \in T
    BY <2>1, <2>2, <2>3, <1>3, <1>6 DEF n, end
  <2>5. ASSUME NEW k \in 1..Len(all), k > i, Opens(all[k], h)
        PROVE  \E j \in 1..Len(all) : i < j /\ j < k /\ all[j] = end
    <3>1. CASE k \in 1..n
      <4>1. PICK j \in 1..n : i < j /\ j < k /\ ch[j] = end
        BY <3>1, <2>1, <2>5, <1>1, <1>3, <1>6
      <4> QED BY <4>1, <1>1
    <3>2. CASE k = n + 1
      <4>1. Opens(f, h) /\ ch[i].to \notin S
        BY <3>2, <2>1, <2>5, <1>1, <1>2, <1>6 DEF end, n
      <4>2. PICK j \in 1..n : j > i /\ ch[j] = end
        BY <4>1, <2>1, <1>3, <1>6
      <4> QED BY <4>2, <3>2, <1>1
    <3> QED BY <3>1, <3>2, <1>1
  <2> QED BY <2>4, <2>5
<1> QED BY <1>1, <1>5, <1>6

LEMMA OrderlyTail ==
    ASSUME NEW ch \in Seq(Frame), ch # <<>>, NEW h, NEW S, Orderly(ch, h, S)
    PROVE  /\ Orderly(Tail(ch), h, S)
           /\ Opens(Head(ch), h) =>
                /\ Parted(Tail(ch), h)
                /\ RelayEnd(h) \in Range(Tail(ch)) \/ Head(ch).to \in S
<1> DEFINE n == Len(ch)
           rest == Tail(ch)
           end == RelayEnd(h)
<1>1. /\ n \in Nat /\ n > 0 /\ Head(ch) = ch[1] /\ Len(rest) = n - 1 /\ DOMAIN rest = 1..Len(rest)
      /\ \A i \in 1..Len(rest) : rest[i] = ch[i + 1]
  BY HeadTailProperties, EmptySeq, LenProperties
<1>2. /\ 1 \in 1..n /\ \A i \in 1..Len(rest) : i + 1 \in 1..n /\ i + 1 > 1
      /\ \A j \in 1..n : j > 1 => j - 1 \in 1..Len(rest) /\ (j - 1) + 1 = j
  BY <1>1
<1>3. \A i \in 1..n : Opens(ch[i], h) =>
        /\ (\E j \in 1..n : j > i /\ ch[j] = end) \/ ch[i].to \in S
        /\ \A k \in 1..n : k > i /\ Opens(ch[k], h) => \E j \in 1..n : i < j /\ j < k /\ ch[j] = end
  BY DEF Orderly, Followed
<1> SUFFICES /\ \A i \in 1..Len(rest) : Opens(rest[i], h) =>
                  /\ (\E j \in 1..Len(rest) : j > i /\ rest[j] = end) \/ rest[i].to \in S
                  /\ \A k \in 1..Len(rest) : k > i /\ Opens(rest[k], h) =>
                        \E j \in 1..Len(rest) : i < j /\ j < k /\ rest[j] = end
             /\ Opens(Head(ch), h) =>
                  /\ \A i \in 1..Len(rest) : Opens(rest[i], h) =>
                        \E j \in 1..Len(rest) : j < i /\ rest[j] = end
                  /\ (\E j \in 1..Len(rest) : rest[j] = end) \/ Head(ch).to \in S
  BY <1>1 DEF Orderly, Parted, Followed, Range
<1> HIDE DEF n, rest, end
<1>4. ASSUME NEW i \in 1..Len(rest), Opens(rest[i], h)
      PROVE  /\ (\E j \in 1..Len(rest) : j > i /\ rest[j] = end) \/ rest[i].to \in S
             /\ \A k \in 1..Len(rest) : k > i /\ Opens(rest[k], h) =>
                   \E j \in 1..Len(rest) : i < j /\ j < k /\ rest[j] = end
  <2>1. i + 1 \in 1..n /\ Opens(ch[i + 1], h)
    BY <1>1, <1>2, <1>4
  <2>2. ASSUME NEW j \in 1..n, j > i + 1, ch[j] = end
        PROVE  \E m \in 1..Len(rest) : m > i /\ rest[m] = end
    <3>1. j - 1 \in 1..Len(rest) /\ j - 1 > i /\ rest[j - 1] = end
      BY <2>2, <1>1, <1>2
    <3> QED BY <3>1
  <2>3. ASSUME NEW k \in 1..Len(rest), k > i, Opens(rest[k], h)
        PROVE  \E j \in 1..Len(rest) : i < j /\ j < k /\ rest[j] = end
    <3>1. k + 1 \in 1..n /\ k + 1 > i + 1 /\ Opens(ch[k + 1], h)
      BY <2>3, <1>1, <1>2
    <3>2. PICK j \in 1..n : i + 1 < j /\ j < k + 1 /\ ch[j] = end
      BY <3>1, <2>1, <1>3
    <3>3. j - 1 \in 1..Len(rest) /\ i < j - 1 /\ j - 1 < k /\ rest[j - 1] = end
      BY <3>2, <1>1, <1>2
    <3> QED BY <3>3
  <2> QED BY <2>1, <2>2, <2>3, <1>1, <1>3, <1>4
<1>5. ASSUME Opens(Head(ch), h)
      PROVE  /\ \A i \in 1..Len(rest) : Opens(rest[i], h) =>
                   \E j \in 1..Len(rest) : j < i /\ rest[j] = end
             /\ (\E j \in 1..Len(rest) : rest[j] = end) \/ Head(ch).to \in S
  <2>1. 1 \in 1..n /\ Opens(ch[1], h)
    BY <1>1, <1>2, <1>5
  <2>2. ASSUME NEW i \in 1..Len(rest), Opens(rest[i], h)
        PROVE  \E j \in 1..Len(rest) : j < i /\ rest[j] = end
    <3>1. i + 1 \in 1..n /\ i + 1 > 1 /\ Opens(ch[i + 1], h)
      BY <2>2, <1>1, <1>2
    <3>2. PICK j \in 1..n : 1 < j /\ j < i + 1 /\ ch[j] = end
      BY <3>1, <2>1, <1>3
    <3>3. j - 1 \in 1..Len(rest) /\ j - 1 < i /\ rest[j - 1] = end
      BY <3>2, <1>1, <1>2
    <3> QED BY <3>3
  <2>3. ASSUME NEW j \in 1..n, j > 1, ch[j] = end PROVE \E m \in 1..Len(rest) : rest[m] = end
    <3>1. j - 1 \in 1..Len(rest) /\ rest[j - 1] = end
      BY <2>3, <1>1, <1>2
    <3> QED BY <3>1
  <2> QED BY <2>1, <2>2, <2>3, <1>1, <1>3
<1> QED BY <1>4, <1>5

LEMMA PartedMoves ==
    ASSUME NEW ch \in Seq(Frame), NEW h, Parted(ch, h)
    PROVE  /\ \A f \in Frame : ~Opens(f, h) \/ RelayEnd(h) \in Range(ch) => Parted(Append(ch, f), h)
           /\ ch # <<>> => ~Opens(Head(ch), h)
           /\ ch # <<>> /\ Head(ch) # RelayEnd(h) => Parted(Tail(ch), h)
<1> DEFINE n == Len(ch)
           end == RelayEnd(h)
<1>1. n \in Nat /\ DOMAIN ch = 1..n
  BY LenProperties
<1>2. \A i \in 1..n : Opens(ch[i], h) => \E j \in 1..n : j < i /\ ch[j] = end
  BY DEF Parted
<1>3. ASSUME NEW f \in Frame, ~Opens(f, h) \/ end \in Range(ch) PROVE Parted(Append(ch, f), h)
  <2> DEFINE all == Append(ch, f)
  <2>1. /\ Len(all) = n + 1 /\ all[n + 1] = f
        /\ \A i \in 1..n : all[i] = ch[i] /\ i \in 1..Len(all) /\ n + 1 > i
        /\ \A i \in 1..Len(all) : i \in 1..n \/ i = n + 1
    BY <1>1, AppendProperties
  <2> SUFFICES ASSUME NEW i \in 1..Len(all), Opens(all[i], h)
               PROVE  \E j \in 1..Len(all) : j < i /\ all[j] = end
    BY DEF Parted
  <2> HIDE DEF all, n
  <2>2. CASE i \in 1..n
    BY <2>1, <2>2, <1>2
  <2>3. CASE i = n + 1
    <3>1. PICK j \in 1..n : ch[j] = end
      BY <2>1, <2>3, <1>1, <1>3 DEF Range
    <3> QED BY <3>1, <2>1, <2>3
  <2> QED BY <2>1, <2>2, <2>3
<1>4. ASSUME ch # <<>> PROVE ~Opens(Head(ch), h)
  <2>1. n > 0 /\ Head(ch) = ch[1] /\ 1 \in 1..n /\ ~\E j \in 1..n : j < 1
    BY <1>1, <1>4, HeadTailProperties, EmptySeq
  <2> QED BY <2>1, <1>2
<1>5. ASSUME ch # <<>>, Head(ch) # end PROVE Parted(Tail(ch), h)
  <2> DEFINE rest == Tail(ch)
  <2>1. /\ n > 0 /\ Head(ch) = ch[1] /\ Len(rest) = n - 1
        /\ \A i \in 1..Len(rest) : rest[i] = ch[i + 1] /\ i + 1 \in 1..n
    BY <1>1, <1>5, HeadTailProperties, EmptySeq
  <2>2. \A j \in 1..n : j = 1 \/ (j - 1 \in 1..Len(rest) /\ (j - 1) + 1 = j)
    BY <2>1, <1>1
  <2> SUFFICES ASSUME NEW i \in 1..Len(rest), Opens(rest[i], h)
               PROVE  \E j \in 1..Len(rest) : j < i /\ rest[j] = end
    BY DEF Parted
  <2> HIDE DEF rest, n
  <2>3. PICK j \in 1..n : j < i + 1 /\ ch[j] = end
    BY <2>1, <1>2
  <2>4. j - 1 \in 1..Len(rest) /\ j - 1 < i /\ rest[j - 1] = end
    BY <2>1, <2>2, <2>3, <1>5
  <2> QED BY <2>4
<1> QED BY <1>3, <1>4, <1>5

-----------------------------------------------------------------------------
(* What the frames, the routes and the sessions of a handle have in common      *)

LEMMA RelayHome ==
    ASSUME Sessions, Homed, NEW b \in Bot, NEW h \in Handle, relaying[b][h] # None
    PROVE  b \in Homes[h]
BY DEF Sessions, Homed

LEMMA Updated ==
    ASSUME NEW T, NEW m \in [Bot -> [Handle -> T]], NEW b, NEW h, NEW v
    PROVE  \A c \in Bot, g \in Handle :
              [m EXCEPT ![b][h] = v][c][g] = IF c = b /\ g = h THEN v ELSE m[c][g]
<1> SUFFICES ASSUME NEW c \in Bot, NEW g \in Handle
             PROVE  [m EXCEPT ![b][h] = v][c][g] = IF c = b /\ g = h THEN v ELSE m[c][g]
  OBVIOUS
<1>1. [m EXCEPT ![b][h] = v][c] = IF c = b THEN [m[b] EXCEPT ![h] = v] ELSE m[c]
  OBVIOUS
<1>2. m[c] \in [Handle -> T]
  OBVIOUS
<1>3. CASE c = b
  BY <1>1, <1>2, <1>3
<1>4. CASE c # b
  BY <1>1, <1>4
<1> QED BY <1>3, <1>4

(* A request on its way to a leaf is for it and from the home of the handle.   *)
Forwarded ==
    \A l \in Leaf : \A f \in Range(toLeaf[l]) :
        f.type = "RELAY_REQUEST" => f.to = l /\ f.from \in Homes[f.handle]
Hosted == \A l \in Leaf, h \in Handle : virtual[l][h] # None => virtual[l][h] \in Homes[h]
Outbound ==
    \A h \in Handle : \A r \in activeRelays[h] : r.origin \in Homes[h] /\ r.target \notin Homes[h]
Unread == \A l \in Leaf : ~hubUp[l] => toHub[l] = <<>>
Kin == Forwarded /\ Hosted /\ Outbound /\ Unread

LEMMA UnreadStep ==
    ASSUME Types, Unread, [Next]_vars
    PROVE  Unread'
<1> USE DEF Types, Unread
<1>a. ASSUME hubUp' = hubUp, toHub' = toHub \/ \E l \in Leaf : \E f : toHub' = LeafSends(toHub, l, f)
      PROVE  Unread'
  <2>1. \A l, c \in Leaf : \A f : ~hubUp[c] => LeafSends(toHub, l, f)[c] = toHub[c]
    BY DEF LeafSends
  <2> QED BY <1>a, <2>1
<1>b. ASSUME NEW l \in Leaf, hubUp[l], hubUp' = hubUp, toHub' = Take(toHub, l)
      PROVE  Unread'
  BY <1>b DEF Take
<1>1. ASSUME NEW b \in Bot, NEW h \in Handle,
             \/ OpenSession(b, h) \/ CloseSession(b, h) \/ Type(b, h) \/ EndRelay(b, h)
             \/ \E to \in Bot : Relay(b, h, to)
      PROVE  Unread'
  <2>1. b = Hub \/ b \in Leaf
    BY DEF Bot
  <2> QED BY <1>1, <1>a, <2>1
        DEF OpenSession, CloseSession, Type, EndRelay, Relay, linkVars, SendsTo, SendsOut
<1>2. ASSUME NEW l \in Leaf, HubRequest(l) \/ HubInput(l) \/ HubEnd(l) PROVE Unread'
  BY <1>2, <1>b DEF HubRequest, HubInput, HubEnd, HubReads
<1>3. ASSUME NEW l \in Leaf, LeafRequest(l) \/ LeafInput(l) \/ LeafEnd(l) PROVE Unread'
  BY <1>3, <1>a DEF LeafRequest, LeafInput, LeafEnd
<1>4. ASSUME NEW l \in Leaf,
             Connect(l) \/ LeafDisconnects(l) \/ HubDisconnects(l) \/ LeafRestarts(l)
      PROVE  Unread'
  BY <1>4 DEF Connect, LinkUp, LeafDisconnects, LeafLoses, HubDisconnects, LeafRestarts
<1>5. ASSUME HubRestarts PROVE Unread'
  BY <1>5 DEF HubRestarts
<1>6. UNCHANGED vars => Unread'
  BY <1>a DEF vars, linkVars
<1> QED BY <1>1, <1>2, <1>3, <1>4, <1>5, <1>6 DEF Next

LEMMA OutboundStep ==
    ASSUME Types, Homed, OneHome, Outbound, [Next]_vars
    PROVE  Outbound'
<1> USE DEF Types, Outbound
<1>1. ASSUME NEW l \in Leaf, HubRequest(l) PROVE Outbound'
  <2> DEFINE frame == Head(toHub[l])
             route == [origin |-> l, target |-> frame.to]
  <2>1. /\ toHub[l] # <<>> /\ frame.type = "RELAY_REQUEST"
        /\ activeRelays' = activeRelays \/ activeRelays' = [activeRelays EXCEPT ![frame.handle] = {route}]
    BY <1>1 DEF HubRequest, HubReads
  <2>2. l \in Homes[frame.handle] /\ frame.to # l /\ frame.handle \in Handle
    BY <2>1, CarriedAfterRead, Reads, FrameTypes DEF Homed
  <2>3. frame.to \notin Homes[frame.handle]
    BY <2>2 DEF OneHome
  <2>4. route.origin = l /\ route.target = frame.to
    OBVIOUS
  <2> HIDE DEF frame, route
  <2>5. ASSUME NEW h \in Handle, NEW r \in activeRelays'[h]
        PROVE  r \in activeRelays[h] \/ (r = route /\ h = frame.handle)
    BY <2>1, <2>5
  <2>6. ASSUME NEW h \in Handle, NEW r \in activeRelays'[h]
        PROVE  r.origin \in Homes[h] /\ r.target \notin Homes[h]
    BY <2>2, <2>3, <2>4, <2>5, <2>6
  <2> QED BY <2>6
<1>2. ASSUME \A h \in Handle : activeRelays'[h] \subseteq activeRelays[h] PROVE Outbound'
  BY <1>2
<1>3. ASSUME NEW b \in Bot, NEW h \in Handle,
             \/ OpenSession(b, h) \/ CloseSession(b, h) \/ Type(b, h) \/ EndRelay(b, h)
             \/ \E to \in Bot : Relay(b, h, to)
      PROVE  Outbound'
  BY <1>3, <1>2 DEF OpenSession, CloseSession, Type, EndRelay, Relay, relayVars
<1>4. ASSUME NEW l \in Leaf, HubEnd(l) PROVE Outbound'
  BY <1>4, <1>2 DEF HubEnd
<1>5. ASSUME NEW l \in Leaf,
             \/ HubInput(l) \/ LeafRequest(l) \/ LeafInput(l) \/ LeafEnd(l)
             \/ Connect(l) \/ LeafDisconnects(l) \/ LeafRestarts(l)
      PROVE  Outbound'
  BY <1>5, <1>2 DEF HubInput, LeafRequest, LeafInput, LeafEnd, Connect, LeafDisconnects,
                    LeafRestarts, relayVars
<1>6. ASSUME NEW l \in Leaf, HubDisconnects(l) PROVE Outbound'
  BY <1>6, <1>2 DEF HubDisconnects
<1>7. ASSUME HubRestarts PROVE Outbound'
  BY <1>7, <1>2 DEF HubRestarts
<1>8. UNCHANGED vars => Outbound'
  BY <1>2 DEF vars, relayVars
<1> QED BY <1>1, <1>3, <1>4, <1>5, <1>6, <1>7, <1>8 DEF Next

LEMMA HostedStep ==
    ASSUME Types, Forwarded, Hosted, [Next]_vars
    PROVE  Hosted'
<1> USE DEF Types, Hosted
<1>a. Hub \in Bot /\ Leaf \subseteq Bot /\ Hub \notin Leaf
  BY DEF Bot
<1>b. ASSUME \A l \in Leaf, h \in Handle : virtual'[l][h] \in {virtual[l][h], None} PROVE Hosted'
  BY <1>b
<1>1. ASSUME NEW b \in Bot, NEW h \in Handle,
             \/ OpenSession(b, h) \/ CloseSession(b, h) \/ Type(b, h) \/ EndRelay(b, h)
             \/ \E to \in Bot : Relay(b, h, to)
      PROVE  Hosted'
  BY <1>1, <1>b DEF OpenSession, CloseSession, Type, EndRelay, Relay, relayVars
<1>2. ASSUME NEW l \in Leaf, HubRequest(l) \/ HubEnd(l) PROVE Hosted'
  <2>1. \A c \in Leaf : virtual'[c] = virtual[c]
    BY <1>2, <1>a DEF HubRequest, HubEnd
  <2> QED BY <2>1, <1>b
<1>3. ASSUME NEW l \in Leaf,
             \/ HubInput(l) \/ LeafInput(l) \/ Connect(l) \/ LeafDisconnects(l) \/ HubDisconnects(l)
      PROVE  Hosted'
  BY <1>3, <1>b DEF HubInput, LeafInput, Connect, LeafDisconnects, HubDisconnects, relayVars
<1>4. ASSUME NEW l \in Leaf, LeafRequest(l) PROVE Hosted'
  <2> DEFINE frame == Head(toLeaf[l])
  <2>1. /\ toLeaf[l] # <<>> /\ frame.type = "RELAY_REQUEST"
        /\ virtual' = virtual \/ virtual' = [virtual EXCEPT ![l][frame.handle] = frame.from]
    BY <1>4 DEF LeafRequest, LeafReads
  <2>2. frame.from \in Homes[frame.handle]
    BY <2>1, CarriedAfterRead DEF Forwarded
  <2> HIDE DEF frame
  <2>3. \A c \in Leaf, h \in Handle :
           virtual'[c][h] = virtual[c][h] \/ (h = frame.handle /\ virtual'[c][h] = frame.from)
    <3>1. CASE virtual' = [virtual EXCEPT ![l][frame.handle] = frame.from]
      BY <3>1, <1>a, Updated
    <3> QED BY <2>1, <3>1
  <2> QED BY <2>2, <2>3
<1>5. ASSUME NEW l \in Leaf, LeafEnd(l) \/ LeafRestarts(l) PROVE Hosted'
  <2>1. PICK h : \/ virtual' = [virtual EXCEPT ![l][h] = None]
                 \/ virtual' = [virtual EXCEPT ![l] = [g \in Handle |-> None]]
    BY <1>5 DEF LeafEnd, LeafRestarts, Fresh
  <2>2. \A c \in Leaf, g \in Handle : virtual'[c][g] \in {virtual[c][g], None}
    <3>1. CASE virtual' = [virtual EXCEPT ![l][h] = None]
      BY <3>1, <1>a, Updated
    <3>2. CASE virtual' = [virtual EXCEPT ![l] = [g \in Handle |-> None]]
      BY <3>2, <1>a
    <3> QED BY <2>1, <3>1, <3>2
  <2> QED BY <2>2, <1>b
<1>6. ASSUME HubRestarts PROVE Hosted'
  <2>1. \A c \in Leaf : virtual'[c] = virtual[c]
    BY <1>6, <1>a DEF HubRestarts
  <2> QED BY <2>1, <1>b
<1>7. UNCHANGED vars => Hosted'
  BY <1>b DEF vars, relayVars
<1> QED BY <1>1, <1>2, <1>3, <1>4, <1>5, <1>6, <1>7 DEF Next

LEMMA ForwardedStep ==
    ASSUME Types, Homed, Forwarded, [Next]_vars
    PROVE  Forwarded'
<1> USE DEF Types
<1> DEFINE Proper(f, l) == f.type = "RELAY_REQUEST" => f.to = l /\ f.from \in Homes[f.handle]
<1>a. Hub \in Bot /\ Leaf \subseteq Bot /\ Hub \notin Leaf
  BY DEF Bot
<1>c. ASSUME \A l \in Leaf : \A f \in Range(toLeaf'[l]) : f \in Range(toLeaf[l]) \/ Proper(f, l)
      PROVE  Forwarded'
  BY <1>c DEF Forwarded
<1>d. /\ \A h, l : Proper(RelayEnd(h), l)
      /\ \A f, l : f.type # "RELAY_REQUEST" => Proper(f, l)
      /\ \A h, b, to, l : Proper(RelayInput(h, b, to), l)
      /\ \A h, b, l : b \in Homes[h] => Proper(RelayRequest(h, b, l), l)
  BY DEF RelayEnd, RelayRequest, RelayInput
<1>f. \A l \in Leaf : toHub[l] # <<>> /\ Head(toHub[l]).type = "RELAY_REQUEST" =>
          Proper(Head(toHub[l]), Head(toHub[l]).to)
  BY CarriedAfterRead DEF Homed
<1>h. toHub \in [Leaf -> Seq(Frame)] /\ toLeaf \in [Leaf -> Seq(Frame)]
  OBVIOUS
<1> HIDE DEF Proper
<1>e. ASSUME UNCHANGED toLeaf PROVE Forwarded'
  BY <1>e, <1>c
<1>g. <<>> \in Seq(Frame) /\ Range(<<>>) = {}
  BY EmptySeq, LenProperties DEF Range
<1>k. ASSUME NEW f \in Frame, NEW ch \in [Leaf -> Seq(Frame)], NEW c \in Leaf, NEW b,
             Proper(f, b)
      PROVE  \A g \in Range(HubSends(ch, b, f)[c]) : g \in Range(ch[c]) \/ Proper(g, c)
  <2>1. Range(HubSends(ch, b, f)[c]) \subseteq Range(ch[c]) \cup {f}
    BY CarriedByHub
  <2>2. c # b => HubSends(ch, b, f)[c] = ch[c]
    BY DEF HubSends
  <2> QED BY <2>1, <2>2, <1>k
<1>l. ASSUME NEW f \in Frame, NEW ch \in [Leaf -> Seq(Frame)], NEW c \in Leaf, Proper(f, c)
      PROVE  \A g \in Range(HubBroadcasts(ch, f, Hub)[c]) : g \in Range(ch[c]) \/ Proper(g, c)
  <2>1. Range(HubBroadcasts(ch, f, Hub)[c]) \subseteq Range(ch[c]) \cup {f}
    BY CarriedByBroadcast
  <2> QED BY <2>1, <1>l
<1>1. ASSUME NEW b \in Bot, NEW h \in Handle, OpenSession(b, h) \/ CloseSession(b, h) PROVE Forwarded'
  BY <1>1, <1>e DEF OpenSession, CloseSession, linkVars
<1>2. ASSUME NEW b \in Bot, NEW h \in Handle, NEW to \in Bot, Relay(b, h, to) PROVE Forwarded'
  <2> DEFINE req == RelayRequest(h, b, to)
  <2>1. req \in Frame /\ b \in Homes[h] /\ Proper(req, to)
    BY <1>2, <1>d, FrameTypes DEF Relay, Homed
  <2>2. toLeaf' = HubSends(toLeaf, to, req) \/ toLeaf' = toLeaf
    BY <1>2 DEF Relay, SendsTo
  <2> HIDE DEF req
  <2> QED BY <2>1, <2>2, <1>c, <1>e, <1>k, <1>h
<1>3. ASSUME NEW b \in Bot, NEW h \in Handle, Type(b, h) PROVE Forwarded'
  <2> DEFINE f == RelayInput(h, b, relaying[b][h])
  <2>1. f \in Frame /\ \A l : Proper(f, l)
    BY <1>3, <1>d, FrameTypes DEF Type
  <2>2. (\E to : toLeaf' = HubSends(toLeaf, to, f)) \/ toLeaf' = toLeaf
    BY <1>3 DEF Type, SendsTo
  <2> HIDE DEF f
  <2> QED BY <2>1, <2>2, <1>c, <1>e, <1>k, <1>h
<1>4. ASSUME NEW b \in Bot, NEW h \in Handle, EndRelay(b, h) PROVE Forwarded'
  <2> DEFINE f == RelayEnd(h)
  <2>1. f \in Frame /\ \A l : Proper(f, l)
    BY <1>d, FrameTypes
  <2>2. toLeaf' = HubBroadcasts(toLeaf, f, Hub) \/ toLeaf' = toLeaf
    BY <1>4 DEF EndRelay, SendsOut
  <2> HIDE DEF f
  <2>3. CASE toLeaf' = HubBroadcasts(toLeaf, f, Hub)
    <3>1. \A c \in Leaf : \A g \in Range(toLeaf'[c]) : g \in Range(toLeaf[c]) \/ Proper(g, c)
      BY <2>1, <2>3, <1>l, <1>h
    <3> QED BY <3>1, <1>c
  <2> QED BY <2>2, <2>3, <1>e
<1>5. ASSUME NEW l \in Leaf, HubRequest(l) PROVE Forwarded'
  <2> DEFINE frame == Head(toHub[l])
             end == RelayEnd(frame.handle)
             there == frame.to \in Leaf /\ hubUp[frame.to]
             routed == IF there THEN HubSends(toLeaf, frame.to, frame) ELSE HubSends(toLeaf, l, end)
  <2>1. toHub[l] # <<>> /\ frame.type = "RELAY_REQUEST"
    BY <1>5 DEF HubRequest, HubReads
  <2>2. frame \in Frame /\ end \in Frame /\ Proper(frame, frame.to) /\ \A c : Proper(end, c)
    BY <2>1, <1>d, <1>f, Reads, FrameTypes
  <2>3. toLeaf' = routed \/ toLeaf' = HubBroadcasts(routed, end, Hub)
    BY <1>5 DEF HubRequest
  <2> HIDE DEF frame, end, there
  <2>4. routed \in [Leaf -> Seq(Frame)]
    BY <2>2, Sends
  <2>5. \A c \in Leaf : \A g \in Range(routed[c]) : g \in Range(toLeaf[c]) \/ Proper(g, c)
    BY <2>2, <1>h, <1>k
  <2> HIDE DEF routed
  <2>6. \A c \in Leaf : \A g \in Range(toLeaf'[c]) : g \in Range(routed[c]) \/ Proper(g, c)
    BY <2>2, <2>3, <2>4, <1>l
  <2> QED BY <2>5, <2>6, <1>c
<1>6. ASSUME NEW l \in Leaf, HubInput(l) \/ HubEnd(l) PROVE Forwarded'
  <2>1. PICK f \in Frame : /\ \A c : Proper(f, c)
                           /\ \A c \in Leaf : toLeaf'[c] = toLeaf[c] \/ toLeaf'[c] = HubSends(toLeaf, c, f)[c]
    <3>1. CASE HubInput(l)
      <4>1. /\ \A c \in Leaf : \/ toLeaf'[c] = toLeaf[c]
                               \/ toLeaf'[c] = HubSends(toLeaf, c, Head(toHub[l]))[c]
            /\ toHub[l] # <<>> /\ Head(toHub[l]).type = "RELAY_INPUT"
        BY <3>1 DEF HubInput, HubReads
      <4>2. Head(toHub[l]) \in Frame /\ \A c : Proper(Head(toHub[l]), c)
        BY <4>1, <1>d, Reads
      <4> QED BY <4>1, <4>2
    <3>2. CASE HubEnd(l)
      <4>1. PICK h : h = Head(toHub[l]).handle
        OBVIOUS
      <4>2. /\ \A c \in Leaf : toLeaf'[c] = toLeaf[c] \/ toLeaf'[c] = HubSends(toLeaf, c, RelayEnd(h))[c]
            /\ toHub[l] # <<>>
        BY <3>2, <4>1 DEF HubEnd, HubReads
      <4>3. RelayEnd(h) \in Frame /\ \A c : Proper(RelayEnd(h), c)
        BY <4>1, <4>2, <1>d, Reads, FrameTypes
      <4> QED BY <4>2, <4>3
    <3> QED BY <1>6, <3>1, <3>2
  <2> QED BY <2>1, <1>c, <1>k, <1>h
<1>7. ASSUME NEW l \in Leaf, LeafRequest(l) \/ LeafInput(l) \/ LeafEnd(l) PROVE Forwarded'
  <2>1. toLeaf[l] # <<>> /\ toLeaf' = Take(toLeaf, l)
    BY <1>7 DEF LeafRequest, LeafInput, LeafEnd, LeafReads
  <2> QED BY <2>1, <1>c, CarriedAfterRead
<1>8. ASSUME \A c \in Leaf : toLeaf'[c] = toLeaf[c] \/ toLeaf'[c] = <<>> PROVE Forwarded'
  BY <1>8, <1>c, <1>g
<1>9. ASSUME NEW l \in Leaf, Connect(l) \/ LeafDisconnects(l) \/ LeafRestarts(l) PROVE Forwarded'
  BY <1>9, <1>8 DEF Connect, LinkUp, LeafDisconnects, LeafLoses, LeafRestarts
<1>10. ASSUME HubRestarts PROVE Forwarded'
  BY <1>10, <1>8 DEF HubRestarts
<1>11. ASSUME NEW l \in Leaf, HubDisconnects(l) PROVE Forwarded'
  <2> DEFINE gone == {h \in Handle : \E r \in activeRelays[h] : Involves(r, l)}
             side(b) == {h \in gone : \E r \in activeRelays[h] : OtherSide(r, l) = b}
             endsFor(b) == {RelayEnd(h) : h \in side(b)}
  <2>1. \A b \in Leaf : toLeaf'[b] = toLeaf[b] \/ toLeaf'[b] = toLeaf[b] \o SetToSeq(endsFor(b))
    BY <1>11 DEF HubDisconnects
  <2>2. ASSUME NEW b \in Leaf
        PROVE  SetToSeq(endsFor(b)) \in Seq(Frame) /\ Range(SetToSeq(endsFor(b))) = endsFor(b)
    <3>1. side(b) \in SUBSET Handle
      OBVIOUS
    <3> HIDE DEF side
    <3> QED BY <3>1, EndsOfLeaver
  <2>3. ASSUME NEW b \in Leaf PROVE Range(toLeaf'[b]) \subseteq Range(toLeaf[b]) \cup endsFor(b)
    <3>1. Range(toLeaf[b] \o SetToSeq(endsFor(b))) = Range(toLeaf[b]) \cup endsFor(b)
      <4> HIDE DEF endsFor
      <4> QED BY <2>2, RangeOfChannel
    <3> QED BY <2>1, <3>1
  <2>4. \A b \in Leaf : \A f \in endsFor(b) : Proper(f, b)
    BY <1>d
  <2> QED BY <1>c, <2>3, <2>4
<1>12. ASSUME UNCHANGED vars PROVE Forwarded'
  BY <1>12, <1>e DEF vars, linkVars
<1> QED BY <1>1, <1>2, <1>3, <1>4, <1>5, <1>6, <1>7, <1>9, <1>10, <1>11, <1>12 DEF Next

(* While nothing has gone rough: ends come from the home of a handle and go     *)
(* elsewhere, and a leaf that one side has lost hosts nobody.                *)
EndsAtHome == \A l \in Leaf, h \in Handle : RelayEnd(h) \in Range(toHub[l]) => l \in Homes[h]
EndsAbroad == \A l \in Leaf, h \in Handle : RelayEnd(h) \in Range(toLeaf[l]) => l \notin Homes[h]
CutOff ==
    \A l \in Leaf : ~(leafUp[l] /\ hubUp[l]) => virtual[l] = Fresh /\ toLeaf[l] = <<>>

LEMMA RoughStays ==
    ASSUME [Next]_vars, ~rough'
    PROVE  ~rough
<1>1. ASSUME NEW b \in Bot, NEW h \in Handle,
             \/ OpenSession(b, h) \/ CloseSession(b, h) \/ Type(b, h) \/ EndRelay(b, h)
             \/ \E to \in Bot : Relay(b, h, to)
      PROVE  ~rough
  BY <1>1 DEF OpenSession, CloseSession, Type, EndRelay, Relay, relayVars
<1>2. ASSUME NEW l \in Leaf, HubRequest(l) \/ HubInput(l) \/ HubEnd(l) PROVE ~rough
  BY <1>2 DEF HubRequest, HubInput, HubEnd, relayVars
<1>3. ASSUME NEW l \in Leaf, LeafRequest(l) \/ LeafInput(l) \/ LeafEnd(l) PROVE ~rough
  BY <1>3 DEF LeafRequest, LeafInput, LeafEnd, relayVars
<1>4. ASSUME NEW l \in Leaf,
             Connect(l) \/ LeafDisconnects(l) \/ HubDisconnects(l) \/ LeafRestarts(l)
      PROVE  ~rough
  BY <1>4 DEF Connect, LeafDisconnects, HubDisconnects, LeafRestarts, Lost, relayVars
<1>5. HubRestarts => ~rough
  BY DEF HubRestarts
<1>6. UNCHANGED vars => ~rough
  BY DEF vars, relayVars
<1> QED BY <1>1, <1>2, <1>3, <1>4, <1>5, <1>6 DEF Next

LEMMA OtherFrames ==
    /\ \A h, g, b, to : RelayRequest(g, b, to) # RelayEnd(h) /\ RelayInput(g, b, to) # RelayEnd(h)
    /\ \A h, g : RelayEnd(h) = RelayEnd(g) => h = g
    /\ \A f, h : f.type \in {"RELAY_REQUEST", "RELAY_INPUT"} => f # RelayEnd(h)
    /\ \A f \in Frame : f.type = "RELAY_END" => f = RelayEnd(f.handle)
    /\ \A f \in Frame : f.type = "RELAY_REQUEST" => f = RelayRequest(f.handle, f.from, f.to)
BY DEF RelayEnd, RelayRequest, RelayInput, Frame

LEMMA EndsAtHomeStep ==
    ASSUME Types, Sessions, Homed, EndsAtHome, ~rough', [Next]_vars
    PROVE  EndsAtHome'
<1> USE DEF Types
<1>a. ASSUME \A l \in Leaf, h \in Handle : RelayEnd(h) \in Range(toHub'[l]) =>
                  RelayEnd(h) \in Range(toHub[l]) \/ l \in Homes[h]
      PROVE  EndsAtHome'
  BY <1>a DEF EndsAtHome
<1>b. ASSUME UNCHANGED toHub PROVE EndsAtHome'
  BY <1>b, <1>a
<1>c. <<>> \in Seq(Frame) /\ Range(<<>>) = {}
  BY EmptySeq, LenProperties DEF Range
<1>h. toHub \in [Leaf -> Seq(Frame)]
  OBVIOUS
<1>s. ASSUME NEW l \in Leaf, NEW f \in Frame, toHub' = LeafSends(toHub, l, f),
             \A h \in Handle : f = RelayEnd(h) => l \in Homes[h]
      PROVE  EndsAtHome'
  <2>1. \A c \in Leaf : Range(toHub'[c]) \subseteq Range(toHub[c]) \cup {f}
    BY <1>s, <1>h, CarriedByLeaf
  <2>2. \A c \in Leaf : c # l => toHub'[c] = toHub[c]
    BY <1>s DEF LeafSends
  <2>3. ASSUME NEW c \in Leaf, NEW h \in Handle, RelayEnd(h) \in Range(toHub'[c])
        PROVE  RelayEnd(h) \in Range(toHub[c]) \/ c \in Homes[h]
    <3>1. CASE c # l
      BY <3>1, <2>3, <2>2
    <3>2. CASE c = l
      BY <3>2, <2>3, <2>1, <1>s
    <3> QED BY <3>1, <3>2
  <2> QED BY <2>3, <1>a
<1>1. ASSUME NEW b \in Bot, NEW h \in Handle, OpenSession(b, h) \/ CloseSession(b, h) PROVE EndsAtHome'
  BY <1>1, <1>b DEF OpenSession, CloseSession, linkVars
<1>2. ASSUME NEW b \in Bot, NEW h \in Handle, NEW to \in Bot, Relay(b, h, to) PROVE EndsAtHome'
  <2>1. b = Hub \/ b \in Leaf
    BY DEF Bot
  <2>2. RelayRequest(h, b, to) \in Frame
    BY FrameTypes
  <2>3. toHub' = toHub \/ (b \in Leaf /\ toHub' = LeafSends(toHub, b, RelayRequest(h, b, to)))
    BY <1>2, <2>1 DEF Relay, SendsTo
  <2>4. \A g : RelayRequest(h, b, to) # RelayEnd(g)
    BY OtherFrames
  <2> QED BY <2>2, <2>3, <2>4, <1>b, <1>s
<1>3. ASSUME NEW b \in Bot, NEW h \in Handle, Type(b, h) PROVE EndsAtHome'
  <2>1. b = Hub \/ b \in Leaf
    BY DEF Bot
  <2>2. RelayInput(h, b, relaying[b][h]) \in Frame
    BY <1>3, FrameTypes DEF Type
  <2>3. toHub' = toHub \/ (b \in Leaf /\ toHub' = LeafSends(toHub, b, RelayInput(h, b, relaying[b][h])))
    BY <1>3, <2>1 DEF Type, SendsTo
  <2>4. \A g : RelayInput(h, b, relaying[b][h]) # RelayEnd(g)
    BY OtherFrames
  <2> QED BY <2>2, <2>3, <2>4, <1>b, <1>s
<1>4. ASSUME NEW b \in Bot, NEW h \in Handle, EndRelay(b, h) PROVE EndsAtHome'
  <2>1. b = Hub \/ b \in Leaf
    BY DEF Bot
  <2>2. RelayEnd(h) \in Frame /\ b \in Homes[h]
    BY <1>4, FrameTypes, RelayHome DEF EndRelay
  <2>3. toHub' = toHub \/ (b \in Leaf /\ toHub' = LeafSends(toHub, b, RelayEnd(h)))
    BY <1>4, <2>1 DEF EndRelay, SendsOut
  <2>4. \A g \in Handle : RelayEnd(h) = RelayEnd(g) => b \in Homes[g]
    BY <2>2, OtherFrames
  <2> QED BY <2>2, <2>3, <2>4, <1>b, <1>s
<1>5. ASSUME NEW l \in Leaf, HubRequest(l) \/ HubInput(l) \/ HubEnd(l) PROVE EndsAtHome'
  <2>1. toHub[l] # <<>> /\ toHub' = Take(toHub, l)
    BY <1>5 DEF HubRequest, HubInput, HubEnd, HubReads
  <2>2. \A c \in Leaf : Range(toHub'[c]) \subseteq Range(toHub[c])
    BY <2>1, <1>h, CarriedAfterRead
  <2> QED BY <2>2, <1>a
<1>6. ASSUME NEW l \in Leaf, LeafRequest(l) \/ LeafInput(l) \/ LeafEnd(l) PROVE EndsAtHome'
  BY <1>6, <1>b DEF LeafRequest, LeafInput, LeafEnd
<1>7. ASSUME \A c \in Leaf : toHub'[c] = toHub[c] \/ toHub'[c] = <<>> PROVE EndsAtHome'
  BY <1>7, <1>a, <1>c
<1>8. ASSUME NEW l \in Leaf,
             Connect(l) \/ LeafDisconnects(l) \/ HubDisconnects(l) \/ LeafRestarts(l)
      PROVE  EndsAtHome'
  BY <1>8, <1>7 DEF Connect, LinkUp, LeafDisconnects, LeafLoses, HubDisconnects, LeafRestarts
<1>9. ASSUME HubRestarts PROVE EndsAtHome'
  BY <1>9 DEF HubRestarts
<1>10. ASSUME UNCHANGED vars PROVE EndsAtHome'
  BY <1>10, <1>b DEF vars, linkVars
<1> QED BY <1>1, <1>2, <1>3, <1>4, <1>5, <1>6, <1>8, <1>9, <1>10 DEF Next

LEMMA EndsAbroadStep ==
    ASSUME Types, Sessions, Homed, OneHome, Outbound, EndsAtHome, EndsAbroad, ~rough', [Next]_vars
    PROVE  EndsAbroad'
<1> USE DEF Types
<1>a. ASSUME \A c \in Leaf, h \in Handle : RelayEnd(h) \in Range(toLeaf'[c]) =>
                  RelayEnd(h) \in Range(toLeaf[c]) \/ c \notin Homes[h]
      PROVE  EndsAbroad'
  BY <1>a DEF EndsAbroad
<1>b. ASSUME UNCHANGED toLeaf PROVE EndsAbroad'
  BY <1>b, <1>a
<1>c. <<>> \in Seq(Frame) /\ Range(<<>>) = {}
  BY EmptySeq, LenProperties DEF Range
<1>h. toLeaf \in [Leaf -> Seq(Frame)]
  OBVIOUS
<1>s. ASSUME NEW f \in Frame,
             \A c \in Leaf : \/ toLeaf'[c] = toLeaf[c]
                             \/ /\ \/ \E b : toLeaf'[c] = HubSends(toLeaf, b, f)[c]
                                   \/ toLeaf'[c] = HubBroadcasts(toLeaf, f, Hub)[c]
                                /\ \A h \in Handle : f = RelayEnd(h) => c \notin Homes[h]
      PROVE  EndsAbroad'
  <2>1. ASSUME NEW c \in Leaf, toLeaf'[c] # toLeaf[c]
        PROVE  Range(toLeaf'[c]) \subseteq Range(toLeaf[c]) \cup {f}
    BY <1>s, <2>1, <1>h, CarriedByHub, CarriedByBroadcast
  <2> QED BY <2>1, <1>a, <1>s
<1>1. ASSUME NEW b \in Bot, NEW h \in Handle, OpenSession(b, h) \/ CloseSession(b, h) PROVE EndsAbroad'
  BY <1>1, <1>b DEF OpenSession, CloseSession, linkVars
<1>2. ASSUME NEW b \in Bot, NEW h \in Handle, NEW to \in Bot, Relay(b, h, to) PROVE EndsAbroad'
  <2>1. RelayRequest(h, b, to) \in Frame
    BY FrameTypes
  <2>2. toLeaf' = toLeaf \/ toLeaf' = HubSends(toLeaf, to, RelayRequest(h, b, to))
    BY <1>2 DEF Relay, SendsTo
  <2>3. \A g : RelayRequest(h, b, to) # RelayEnd(g)
    BY OtherFrames
  <2> QED BY <2>1, <2>2, <2>3, <1>b, <1>s
<1>3. ASSUME NEW b \in Bot, NEW h \in Handle, Type(b, h) PROVE EndsAbroad'
  <2> DEFINE f == RelayInput(h, b, relaying[b][h])
  <2>1. f \in Frame /\ \A g : f # RelayEnd(g)
    BY <1>3, FrameTypes, OtherFrames DEF Type
  <2>2. toLeaf' = toLeaf \/ toLeaf' = HubSends(toLeaf, relaying[b][h], f)
    BY <1>3 DEF Type, SendsTo
  <2> HIDE DEF f
  <2> QED BY <2>1, <2>2, <1>b, <1>s
<1>4. ASSUME NEW b \in Bot, NEW h \in Handle, EndRelay(b, h) PROVE EndsAbroad'
  <2>1. b = Hub \/ b \in Leaf
    BY DEF Bot
  <2>2. RelayEnd(h) \in Frame /\ b \in Homes[h]
    BY <1>4, FrameTypes, RelayHome DEF EndRelay
  <2>3. toLeaf' = toLeaf \/ (b = Hub /\ toLeaf' = HubBroadcasts(toLeaf, RelayEnd(h), Hub))
    BY <1>4, <2>1 DEF EndRelay, SendsOut
  <2>4. b = Hub => \A c \in Leaf : c \notin Homes[h]
    BY <2>2 DEF OneHome
  <2>5. b = Hub => \A c \in Leaf, g \in Handle : RelayEnd(h) = RelayEnd(g) => c \notin Homes[g]
    BY <2>4, OtherFrames
  <2> QED BY <2>2, <2>3, <2>5, <1>b, <1>s
<1>5. ASSUME NEW l \in Leaf, HubRequest(l) PROVE EndsAbroad'
  <2> DEFINE frame == Head(toHub[l])
  <2>1. /\ toHub[l] # <<>> /\ frame.type = "RELAY_REQUEST"
        /\ toLeaf' = HubSends(toLeaf, frame.to, frame)
    BY <1>5 DEF HubRequest, HubReads
  <2>2. frame \in Frame /\ \A h : frame # RelayEnd(h)
    BY <2>1, Reads, OtherFrames
  <2> HIDE DEF frame
  <2> QED BY <2>1, <2>2, <1>s
<1>6. ASSUME NEW l \in Leaf, HubInput(l) PROVE EndsAbroad'
  <2> DEFINE frame == Head(toHub[l])
  <2>1. /\ toHub[l] # <<>> /\ frame.type = "RELAY_INPUT"
        /\ \A c \in Leaf : toLeaf'[c] = toLeaf[c] \/ toLeaf'[c] = HubSends(toLeaf, c, frame)[c]
    BY <1>6 DEF HubInput, HubReads
  <2>2. frame \in Frame /\ \A h : frame # RelayEnd(h)
    BY <2>1, Reads, OtherFrames
  <2> HIDE DEF frame
  <2> QED BY <2>1, <2>2, <1>s
<1>7. ASSUME NEW l \in Leaf, HubEnd(l) PROVE EndsAbroad'
  <2> DEFINE frame == Head(toHub[l])
  <2>1. PICK h : h = frame.handle
    OBVIOUS
  <2>2. /\ toHub[l] # <<>> /\ frame.type = "RELAY_END"
        /\ \A c \in Leaf : \/ toLeaf'[c] = toLeaf[c]
                           \/ /\ \E r \in activeRelays[h] : OtherSide(r, l) = c
                              /\ toLeaf'[c] = HubSends(toLeaf, c, RelayEnd(h))[c]
    BY <1>7, <2>1 DEF HubEnd, HubReads
  <2>3. h \in Handle /\ RelayEnd(h) \in Frame /\ frame = RelayEnd(h)
    BY <2>1, <2>2, Reads, FrameTypes, OtherFrames
  <2>4. l \in Homes[h]
    <3>1. toHub \in [Leaf -> Seq(Frame)] /\ toHub[l] # <<>>
      BY <2>2
    <3>2. RelayEnd(h) \in Range(toHub[l])
      <4>1. Head(toHub[l]) \in Range(toHub[l])
        BY <3>1, CarriedAfterRead
      <4> QED BY <4>1, <2>3
    <3> QED BY <3>2, <2>3 DEF EndsAtHome
  <2>5. ASSUME NEW r \in activeRelays[h] PROVE OtherSide(r, l) \notin Homes[h]
    BY <2>3, <2>4, <2>5 DEF Outbound, OneHome, OtherSide
  <2>6. \A c \in Leaf : (\E r \in activeRelays[h] : OtherSide(r, l) = c) => c \notin Homes[h]
    BY <2>5
  <2>7. \A g \in Handle : RelayEnd(h) = RelayEnd(g) => h = g
    BY OtherFrames
  <2> HIDE DEF frame
  <2> QED BY <2>2, <2>3, <2>6, <2>7, <1>s
<1>8. ASSUME NEW l \in Leaf, LeafRequest(l) \/ LeafInput(l) \/ LeafEnd(l) PROVE EndsAbroad'
  <2>1. toLeaf[l] # <<>> /\ toLeaf' = Take(toLeaf, l)
    BY <1>8 DEF LeafRequest, LeafInput, LeafEnd, LeafReads
  <2>2. \A c \in Leaf : Range(toLeaf'[c]) \subseteq Range(toLeaf[c])
    BY <2>1, <1>h, CarriedAfterRead
  <2> QED BY <2>2, <1>a
<1>9. ASSUME \A c \in Leaf : toLeaf'[c] = toLeaf[c] \/ toLeaf'[c] = <<>> PROVE EndsAbroad'
  BY <1>9, <1>a, <1>c
<1>10. ASSUME NEW l \in Leaf, Connect(l) \/ LeafDisconnects(l) \/ LeafRestarts(l) PROVE EndsAbroad'
  BY <1>10, <1>9 DEF Connect, LinkUp, LeafDisconnects, LeafLoses, LeafRestarts
<1>11. ASSUME NEW l \in Leaf, HubDisconnects(l) PROVE EndsAbroad'
  <2> DEFINE gone == {h \in Handle : \E r \in activeRelays[h] : Involves(r, l)}
             side(b) == {h \in gone : \E r \in activeRelays[h] : OtherSide(r, l) = b}
             endsFor(b) == {RelayEnd(h) : h \in side(b)}
  <2>1. \A b \in Leaf : toLeaf'[b] = toLeaf[b] \/ toLeaf'[b] = toLeaf[b] \o SetToSeq(endsFor(b))
    BY <1>11 DEF HubDisconnects
  <2>2. ASSUME NEW b \in Leaf
        PROVE  SetToSeq(endsFor(b)) \in Seq(Frame) /\ Range(SetToSeq(endsFor(b))) = endsFor(b)
    <3>1. side(b) \in SUBSET Handle
      OBVIOUS
    <3> HIDE DEF side
    <3> QED BY <3>1, EndsOfLeaver
  <2>3. ASSUME NEW b \in Leaf PROVE Range(toLeaf'[b]) \subseteq Range(toLeaf[b]) \cup endsFor(b)
    <3>1. Range(toLeaf[b] \o SetToSeq(endsFor(b))) = Range(toLeaf[b]) \cup endsFor(b)
      <4> HIDE DEF endsFor
      <4> QED BY <2>2, RangeOfChannel
    <3> QED BY <2>1, <3>1
  <2>4. ASSUME NEW b \in Leaf, NEW h \in side(b) PROVE b \notin Homes[h]
    <3>1. PICK r \in activeRelays[h] : OtherSide(r, l) = b
      BY <2>4
    <3>2. \A s \in activeRelays[h] : s.target # l
      BY <1>11, <2>4 DEF HubDisconnects, Lost
    <3>3. r = (CHOOSE s \in activeRelays[h] : Involves(s, l)) /\ Involves(r, l)
      BY <2>4 DEF Sessions
    <3>4. b = r.target
      BY <3>1, <3>2, <3>3 DEF OtherSide, Involves
    <3> QED BY <3>4, <2>4 DEF Outbound
  <2>5. \A b \in Leaf, h \in Handle : RelayEnd(h) \in endsFor(b) => b \notin Homes[h]
    BY <2>4, OtherFrames
  <2> HIDE DEF endsFor
  <2> QED BY <1>a, <2>3, <2>5
<1>12. ASSUME HubRestarts PROVE EndsAbroad'
  BY <1>12, <1>9 DEF HubRestarts
<1>13. ASSUME UNCHANGED vars PROVE EndsAbroad'
  BY <1>13, <1>b DEF vars, linkVars
<1> QED BY <1>1, <1>2, <1>3, <1>4, <1>5, <1>6, <1>7, <1>8, <1>10, <1>11, <1>12, <1>13 DEF Next

LEMMA CutOffStep ==
    ASSUME Types, CutOff, ~rough', [Next]_vars
    PROVE  CutOff'
<1> USE DEF Types
<1>a. Hub \in Bot /\ Leaf \subseteq Bot /\ Hub \notin Leaf
  BY DEF Bot
<1>b. ASSUME UNCHANGED <<leafUp, hubUp>>,
             \A c \in Leaf : ~(leafUp[c] /\ hubUp[c]) => virtual'[c] = virtual[c] /\ toLeaf'[c] = toLeaf[c]
      PROVE  CutOff'
  BY <1>b DEF CutOff
<1>s. \A c \in Leaf : ~(leafUp[c] /\ hubUp[c]) =>
          \A f : /\ \A b : HubSends(toLeaf, b, f)[c] = toLeaf[c]
                 /\ HubBroadcasts(toLeaf, f, Hub)[c] = toLeaf[c]
  BY DEF HubSends, HubBroadcasts
<1>q. ASSUME UNCHANGED <<leafUp, hubUp>>, \A c \in Leaf : virtual'[c] = virtual[c],
             \E f : \A c \in Leaf : \/ toLeaf'[c] = toLeaf[c]
                                    \/ \E b : toLeaf'[c] = HubSends(toLeaf, b, f)[c]
                                    \/ toLeaf'[c] = HubBroadcasts(toLeaf, f, Hub)[c]
      PROVE  CutOff'
  <2>1. ASSUME NEW c \in Leaf, ~(leafUp[c] /\ hubUp[c]) PROVE toLeaf'[c] = toLeaf[c]
    <3>1. PICK f : \/ toLeaf'[c] = toLeaf[c]
                  \/ \E b : toLeaf'[c] = HubSends(toLeaf, b, f)[c]
                  \/ toLeaf'[c] = HubBroadcasts(toLeaf, f, Hub)[c]
      BY <1>q, <2>1
    <3> QED BY <3>1, <2>1, <1>s
  <2> QED BY <2>1, <1>q, <1>b
<1>h. toLeaf \in [Leaf -> Seq(Frame)]
  OBVIOUS
<1>1. ASSUME NEW b \in Bot, NEW h \in Handle, OpenSession(b, h) \/ CloseSession(b, h) PROVE CutOff'
  BY <1>1, <1>b DEF OpenSession, CloseSession, linkVars
<1>2. ASSUME NEW b \in Bot, NEW h \in Handle, NEW to \in Bot, Relay(b, h, to) PROVE CutOff'
  <2>1. toLeaf' = toLeaf \/ toLeaf' = HubSends(toLeaf, to, RelayRequest(h, b, to))
    BY <1>2 DEF Relay, SendsTo
  <2> QED BY <1>2, <2>1, <1>q DEF Relay
<1>3. ASSUME NEW b \in Bot, NEW h \in Handle, Type(b, h) PROVE CutOff'
  <2>1. toLeaf' = toLeaf \/ toLeaf' = HubSends(toLeaf, relaying[b][h], RelayInput(h, b, relaying[b][h]))
    BY <1>3 DEF Type, SendsTo
  <2>2. UNCHANGED <<leafUp, hubUp, virtual>>
    BY <1>3 DEF Type, relayVars
  <2> QED BY <2>1, <2>2, <1>q
<1>4. ASSUME NEW b \in Bot, NEW h \in Handle, EndRelay(b, h) PROVE CutOff'
  <2>1. toLeaf' = toLeaf \/ toLeaf' = HubBroadcasts(toLeaf, RelayEnd(h), Hub)
    BY <1>4 DEF EndRelay, SendsOut
  <2> QED BY <1>4, <2>1, <1>q DEF EndRelay
<1>5. ASSUME NEW l \in Leaf, HubRequest(l) PROVE CutOff'
  <2>1. /\ toLeaf' = HubSends(toLeaf, Head(toHub[l]).to, Head(toHub[l]))
        /\ UNCHANGED <<leafUp, hubUp>> /\ \A c \in Leaf : virtual'[c] = virtual[c]
    BY <1>5, <1>a DEF HubRequest
  <2> QED BY <2>1, <1>q
<1>6. ASSUME NEW l \in Leaf, HubInput(l) PROVE CutOff'
  <2>1. \A c \in Leaf : toLeaf'[c] = toLeaf[c] \/ toLeaf'[c] = HubSends(toLeaf, c, Head(toHub[l]))[c]
    BY <1>6 DEF HubInput
  <2>2. UNCHANGED <<leafUp, hubUp, virtual>>
    BY <1>6 DEF HubInput, relayVars
  <2> QED BY <2>1, <2>2, <1>q
<1>7. ASSUME NEW l \in Leaf, HubEnd(l) PROVE CutOff'
  <2>1. \A c \in Leaf : virtual'[c] = virtual[c]
    BY <1>7, <1>a DEF HubEnd
  <2>2. PICK f : \A c \in Leaf : toLeaf'[c] = toLeaf[c] \/ toLeaf'[c] = HubSends(toLeaf, c, f)[c]
    BY <1>7 DEF HubEnd
  <2>3. UNCHANGED <<leafUp, hubUp>>
    BY <1>7 DEF HubEnd
  <2> QED BY <2>1, <2>2, <2>3, <1>q
<1>8. ASSUME NEW l \in Leaf, LeafRequest(l) \/ LeafInput(l) \/ LeafEnd(l) PROVE CutOff'
  <2>1. /\ toLeaf[l] # <<>> /\ toLeaf' = Take(toLeaf, l) /\ UNCHANGED <<leafUp, hubUp>>
        /\ \A c \in Leaf : c # l => virtual'[c] = virtual[c]
    <3>1. PICK h, v : virtual' = virtual \/ virtual' = [virtual EXCEPT ![l][h] = v]
      BY <1>8 DEF LeafRequest, LeafInput, LeafEnd, relayVars
    <3>2. toLeaf[l] # <<>> /\ toLeaf' = Take(toLeaf, l) /\ UNCHANGED <<leafUp, hubUp>>
      BY <1>8 DEF LeafRequest, LeafInput, LeafEnd, LeafReads
    <3> QED BY <3>1, <3>2, <1>a
  <2>2. \A c \in Leaf : c # l => toLeaf'[c] = toLeaf[c]
    BY <2>1 DEF Take
  <2>3. leafUp[l] /\ hubUp[l]
    BY <2>1 DEF CutOff
  <2> QED BY <2>1, <2>2, <2>3, <1>b
<1>9. ASSUME NEW l \in Leaf, Connect(l) PROVE CutOff'
  BY <1>9 DEF Connect, LinkUp, relayVars, CutOff
<1>10. ASSUME NEW l \in Leaf, LeafDisconnects(l) PROVE CutOff'
  BY <1>10 DEF LeafDisconnects, LeafLoses, Lost, CutOff
<1>11. ASSUME NEW l \in Leaf, HubDisconnects(l) PROVE CutOff'
  <2>1. /\ virtual[l] = Fresh /\ toLeaf[l] = <<>> /\ virtual' = virtual
        /\ leafUp' = leafUp /\ hubUp' = [hubUp EXCEPT ![l] = FALSE]
        /\ toLeaf'[l] = toLeaf[l]
        /\ \A c \in Leaf : ~(leafUp[c] /\ hubUp[c]) => toLeaf'[c] = toLeaf[c]
    BY <1>11 DEF HubDisconnects, Lost
  <2> QED BY <2>1 DEF CutOff
<1>12. ASSUME NEW l \in Leaf, LeafRestarts(l) PROVE CutOff'
  BY <1>12, <1>a DEF LeafRestarts, CutOff
<1>13. HubRestarts => CutOff'
  BY DEF HubRestarts
<1>14. ASSUME UNCHANGED vars PROVE CutOff'
  BY <1>14, <1>b DEF vars, linkVars, relayVars
<1> QED BY <1>1, <1>2, <1>3, <1>4, <1>5, <1>6, <1>7, <1>8, <1>9, <1>10, <1>11, <1>12, <1>13, <1>14 DEF Next

(* What a request that no end follows is for: the bot its user is relayed to,   *)
(* or any when his bot has gone.                                             *)
Askable(l, h) == IF leafUp[l] THEN {relaying[l][h]} ELSE Bot
InTurn == \A l \in Leaf, h \in Handle : Orderly(toHub[l], h, Askable(l, h))

LEMMA OrderlyWider ==
    ASSUME NEW ch \in Seq(Frame), NEW h, NEW S, NEW T, Orderly(ch, h, S),
           \A f \in Range(ch) : Opens(f, h) /\ f.to \in S => f.to \in T
    PROVE  Orderly(ch, h, T)
<1>1. \A i \in 1..Len(ch) : ch[i] \in Range(ch)
  BY LenProperties DEF Range
<1> QED BY <1>1 DEF Orderly

LEMMA InTurnStep ==
    ASSUME Types, Sessions, Homed, Unread, EndsAbroad, InTurn, ~rough', [Next]_vars
    PROVE  InTurn'
<1>a. Hub \in Bot /\ Leaf \subseteq Bot /\ Hub \notin Leaf /\ None \notin Bot
  BY DEF Bot
<1>t. /\ toHub \in [Leaf -> Seq(Frame)] /\ toLeaf \in [Leaf -> Seq(Frame)]
      /\ relaying \in [Bot -> [Handle -> Bot \cup {None}]]
      /\ leafUp \in [Leaf -> BOOLEAN]
  BY DEF Types
<1> SUFFICES ASSUME NEW c \in Leaf, NEW g \in Handle
             PROVE  Orderly(toHub'[c], g, Askable(c, g)')
  BY DEF InTurn
<1>b. Orderly(toHub[c], g, Askable(c, g)) /\ toHub[c] \in Seq(Frame)
  BY <1>t DEF InTurn
<1>f. \A f \in Range(toHub[c]) : Opens(f, g) => f.to \in Bot
  BY <1>t, RangeOfChannel, FrameTypes DEF Opens
<1>e. \A S : Orderly(<<>>, g, S)
  <2>1. Len(<<>>) = 0 /\ 1..0 = {}
    BY EmptySeq
  <2> QED BY <2>1 DEF Orderly
<1>u. ASSUME leafUp'[c] = leafUp[c], relaying'[c][g] = relaying[c][g],
             \/ toHub'[c] = toHub[c]
             \/ \E f \in Frame : ~Changes(f, g) /\ toHub'[c] = Append(toHub[c], f)
             \/ toHub[c] # <<>> /\ toHub'[c] = Tail(toHub[c])
      PROVE  Orderly(toHub'[c], g, Askable(c, g)')
  <2>1. Askable(c, g)' = Askable(c, g)
    BY <1>u DEF Askable
  <2>2. CASE toHub'[c] = toHub[c]
    BY <2>1, <2>2, <1>b
  <2>3. CASE \E f \in Frame : ~Changes(f, g) /\ toHub'[c] = Append(toHub[c], f)
    <3>1. PICK f \in Frame : ~Changes(f, g) /\ toHub'[c] = Append(toHub[c], f)
      BY <2>3
    <3>2. Orderly(Append(toHub[c], f), g, Askable(c, g))
      BY <3>1, <1>b, OrderlyAppend
    <3> QED BY <2>1, <3>1, <3>2
  <2>4. CASE toHub[c] # <<>> /\ toHub'[c] = Tail(toHub[c])
    <3>1. Orderly(Tail(toHub[c]), g, Askable(c, g))
      BY <2>4, <1>b, OrderlyTail
    <3> QED BY <2>1, <2>4, <3>1
  <2> QED BY <1>u, <2>2, <2>3, <2>4
<1>v. ASSUME ~leafUp'[c], toHub'[c] = toHub[c]
      PROVE  Orderly(toHub'[c], g, Askable(c, g)')
  <2>1. Askable(c, g)' = Bot
    BY <1>v DEF Askable
  <2> QED BY <2>1, <1>v, <1>b, <1>f, OrderlyWider
<1>w. toHub'[c] = <<>> => Orderly(toHub'[c], g, Askable(c, g)')
  BY <1>e
<1>x. ~hubUp[c] => toHub[c] = <<>>
  BY DEF Unread
<1>s. \A f : LeafSends(toHub, c, f)[c] = IF leafUp[c] /\ hubUp[c] THEN Append(toHub[c], f) ELSE toHub[c]
  BY <1>t DEF LeafSends
<1>1. ASSUME NEW b \in Bot, NEW h \in Handle, OpenSession(b, h)
      PROVE  Orderly(toHub'[c], g, Askable(c, g)')
  BY <1>1, <1>u DEF OpenSession, linkVars
<1>2. ASSUME NEW b \in Bot, NEW h \in Handle, CloseSession(b, h)
      PROVE  Orderly(toHub'[c], g, Askable(c, g)')
  <2>1. relaying' = [relaying EXCEPT ![b][h] = None] /\ relaying[b][h] = None
    BY <1>2 DEF CloseSession, ExitRelay
  <2>2. relaying'[c][g] = relaying[c][g]
    BY <2>1, <1>t, <1>a, Updated
  <2> QED BY <1>2, <1>u, <2>2 DEF CloseSession, linkVars
<1>3. ASSUME NEW b \in Bot, NEW h \in Handle, NEW to \in Bot, Relay(b, h, to)
      PROVE  Orderly(toHub'[c], g, Askable(c, g)')
  <2> DEFINE req == RelayRequest(h, b, to)
  <2>1. /\ relaying[b][h] = None /\ relaying' = [relaying EXCEPT ![b][h] = to]
        /\ toHub' = IF b = Hub THEN toHub ELSE LeafSends(toHub, b, req)
        /\ leafUp' = leafUp
    BY <1>3 DEF Relay, SendsTo
  <2>2. req \in Frame /\ (g # h => ~Changes(req, g)) /\ Opens(req, h) /\ req.to = to
    BY FrameTypes, ChangesOf DEF Opens, RelayRequest
  <2> HIDE DEF req
  <2>3. relaying'[c][g] = IF c = b /\ g = h THEN to ELSE relaying[c][g]
    BY <2>1, <1>t, <1>a, Updated
  <2>4. CASE c # b
    <3>1. toHub'[c] = toHub[c]
      BY <2>1, <2>4 DEF LeafSends
    <3> QED BY <3>1, <2>1, <2>3, <2>4, <1>u
  <2>5. CASE c = b
    <3>1. toHub'[c] = IF leafUp[c] /\ hubUp[c] THEN Append(toHub[c], req) ELSE toHub[c]
      BY <2>1, <2>5, <1>a, <1>s
    <3>2. CASE g # h
      BY <3>1, <3>2, <2>1, <2>2, <2>3, <1>u
    <3>3. CASE g = h /\ ~leafUp[c]
      BY <3>1, <3>3, <2>1, <1>v
    <3>4. CASE ~hubUp[c]
      BY <3>1, <3>4, <1>w, <1>x
    <3>5. CASE g = h /\ leafUp[c] /\ hubUp[c]
      <4>1. Askable(c, g) = {None} /\ Askable(c, g)' = {to}
        BY <3>5, <2>1, <2>3, <2>5 DEF Askable
      <4>2. \A i \in 1..Len(toHub[c]) : Opens(toHub[c][i], g) => toHub[c][i].to \notin {None}
        <5>1. \A i \in 1..Len(toHub[c]) : toHub[c][i] \in Range(toHub[c])
          BY <1>b, LenProperties DEF Range
        <5> QED BY <5>1, <1>f, <1>a
      <4>3. Orderly(Append(toHub[c], req), g, {to})
        BY <4>1, <4>2, <3>5, <2>2, <1>b, OrderlyAppend
      <4> QED BY <3>1, <3>5, <4>1, <4>3
    <3> QED BY <3>2, <3>3, <3>4, <3>5
  <2> QED BY <2>4, <2>5
<1>4. ASSUME NEW b \in Bot, NEW h \in Handle, Type(b, h)
      PROVE  Orderly(toHub'[c], g, Askable(c, g)')
  <2> DEFINE f == RelayInput(h, b, relaying[b][h])
  <2>1. /\ toHub' = IF b = Hub THEN toHub ELSE LeafSends(toHub, b, f)
        /\ UNCHANGED <<leafUp, relaying>>
    BY <1>4 DEF Type, SendsTo, relayVars
  <2>2. f \in Frame /\ ~Changes(f, g)
    BY <1>4, <1>t, FrameTypes, ChangesOf DEF Type
  <2> HIDE DEF f
  <2>3. toHub'[c] = toHub[c] \/ toHub'[c] = Append(toHub[c], f)
    BY <2>1, <1>t DEF LeafSends
  <2> QED BY <2>1, <2>2, <2>3, <1>u
<1>5. ASSUME NEW b \in Bot, NEW h \in Handle, EndRelay(b, h)
      PROVE  Orderly(toHub'[c], g, Askable(c, g)')
  <2> DEFINE f == RelayEnd(h)
  <2>1. /\ toHub' = IF b = Hub THEN toHub ELSE LeafSends(toHub, b, f)
        /\ leafUp' = leafUp /\ relaying' = [relaying EXCEPT ![b][h] = None]
    BY <1>5 DEF EndRelay, SendsOut, ExitRelay
  <2>2. f \in Frame /\ (g # h => ~Changes(f, g)) /\ (g = h => f = RelayEnd(g))
    BY FrameTypes, ChangesOf
  <2> HIDE DEF f
  <2>3. relaying'[c][g] = IF c = b /\ g = h THEN None ELSE relaying[c][g]
    BY <2>1, <1>t, <1>a, Updated
  <2>4. CASE c # b
    <3>1. toHub'[c] = toHub[c]
      BY <2>1, <2>4 DEF LeafSends
    <3> QED BY <3>1, <2>1, <2>3, <2>4, <1>u
  <2>5. CASE c = b
    <3>1. toHub'[c] = IF leafUp[c] /\ hubUp[c] THEN Append(toHub[c], f) ELSE toHub[c]
      BY <2>1, <2>5, <1>a, <1>s
    <3>2. CASE g # h
      BY <3>1, <3>2, <2>1, <2>2, <2>3, <1>u
    <3>3. CASE ~leafUp[c]
      BY <3>1, <3>3, <2>1, <1>v
    <3>4. CASE ~hubUp[c]
      BY <3>1, <3>4, <1>w, <1>x
    <3>5. CASE g = h /\ leafUp[c] /\ hubUp[c]
      <4>1. \A T : Orderly(Append(toHub[c], f), g, T)
        BY <3>5, <2>2, <1>b, OrderlyAppend
      <4> QED BY <3>1, <3>5, <4>1
    <3> QED BY <3>2, <3>3, <3>4, <3>5
  <2> QED BY <2>4, <2>5
<1>6. ASSUME NEW l \in Leaf, HubRequest(l) \/ HubInput(l) \/ HubEnd(l)
      PROVE  Orderly(toHub'[c], g, Askable(c, g)')
  <2>1. toHub[l] # <<>> /\ toHub' = Take(toHub, l) /\ leafUp' = leafUp
    BY <1>6 DEF HubRequest, HubInput, HubEnd, HubReads
  <2>2. PICK h : relaying' = relaying \/ relaying' = [relaying EXCEPT ![Hub][h] = None]
    BY <1>6 DEF HubRequest, HubInput, HubEnd, ExitRelay, relayVars
  <2>3. relaying'[c][g] = relaying[c][g]
    BY <2>2, <1>t, <1>a
  <2>4. toHub'[c] = IF c = l THEN Tail(toHub[c]) ELSE toHub[c]
    BY <2>1, <1>t, Reads
  <2> QED BY <2>1, <2>3, <2>4, <1>u
<1>7. ASSUME NEW l \in Leaf, LeafRequest(l) \/ LeafInput(l)
      PROVE  Orderly(toHub'[c], g, Askable(c, g)')
  BY <1>7, <1>u DEF LeafRequest, LeafInput, relayVars
<1>8. ASSUME NEW l \in Leaf, LeafEnd(l)
      PROVE  Orderly(toHub'[c], g, Askable(c, g)')
  <2> DEFINE frame == Head(toLeaf[l])
  <2>1. PICK h : h = frame.handle
    OBVIOUS
  <2>2. /\ toLeaf[l] # <<>> /\ frame.type = "RELAY_END" /\ UNCHANGED <<leafUp, toHub>>
        /\ relaying' = [relaying EXCEPT ![l][h] = None]
    BY <1>8, <2>1 DEF LeafEnd, LeafReads, ExitRelay
  <2>3. h \in Handle /\ frame = RelayEnd(h)
    BY <2>1, <2>2, <1>t, Reads, FrameTypes, OtherFrames
  <2>4. frame \in Range(toLeaf[l])
    BY <2>2, <1>t, CarriedAfterRead
  <2>5. relaying[l][h] = None
    BY <2>3, <2>4, <1>a, RelayHome DEF EndsAbroad
  <2> HIDE DEF frame
  <2>6. relaying'[c][g] = relaying[c][g]
    BY <2>2, <2>3, <2>5, <1>t, <1>a, Updated
  <2> QED BY <2>2, <2>6, <1>u
<1>9. ASSUME NEW l \in Leaf, Connect(l)
      PROVE  Orderly(toHub'[c], g, Askable(c, g)')
  <2>1. CASE c = l
    <3>1. toHub'[c] = <<>>
      BY <1>9, <1>t, <2>1 DEF Connect, LinkUp
    <3> QED BY <3>1, <1>w
  <2>2. CASE c # l
    BY <1>9, <2>2, <1>u DEF Connect, LinkUp, relayVars
  <2> QED BY <2>1, <2>2
<1>10. ASSUME NEW l \in Leaf, LeafDisconnects(l) \/ LeafRestarts(l)
       PROVE  Orderly(toHub'[c], g, Askable(c, g)')
  <2>1. toHub' = toHub /\ leafUp' = [leafUp EXCEPT ![l] = FALSE]
    BY <1>10 DEF LeafDisconnects, LeafLoses, LeafRestarts
  <2>2. CASE c = l
    BY <2>1, <2>2, <1>t, <1>v
  <2>3. CASE c # l
    <3>1. relaying'[c] = relaying[c]
      BY <1>10, <1>t, <1>a, <2>3 DEF LeafDisconnects, LeafRestarts
    <3> QED BY <2>1, <2>3, <3>1, <1>u
  <2> QED BY <2>2, <2>3
<1>11. ASSUME NEW l \in Leaf, HubDisconnects(l)
       PROVE  Orderly(toHub'[c], g, Askable(c, g)')
  <2>1. toHub' = [toHub EXCEPT ![l] = <<>>] /\ UNCHANGED <<leafUp, relaying>>
    BY <1>11 DEF HubDisconnects
  <2>2. CASE c = l
    BY <2>1, <2>2, <1>t, <1>w
  <2>3. CASE c # l
    BY <2>1, <2>3, <1>u
  <2> QED BY <2>2, <2>3
<1>12. ~HubRestarts
  BY DEF HubRestarts
<1>13. ASSUME UNCHANGED vars
       PROVE  Orderly(toHub'[c], g, Askable(c, g)')
  BY <1>13, <1>u DEF vars, linkVars, relayVars
<1> QED BY <1>1, <1>2, <1>3, <1>4, <1>5, <1>6, <1>7, <1>8, <1>9, <1>10, <1>11, <1>12, <1>13 DEF Next

(* Whoever hosts h for b, now or once it has read its frames, is where b relays  *)
(* h to: as the hub has it in its own relay mode, or by its route, until it      *)
(* reads the end.                                                           *)
Bound(b, h, l) ==
    IF b = Hub THEN relaying[Hub][h] = l
    ELSE /\ [origin |-> b, target |-> l] \in activeRelays[h]
         /\ relaying[b][h] = l \/ RelayEnd(h) \in Range(toHub[b]) \/ ~leafUp[b]
         /\ Parted(toHub[b], h)
Rightful ==
    \A l \in Leaf, h \in Handle, b \in Bot :
        Claims(toLeaf[l], virtual[l][h], h, b, l) => Bound(b, h, l)

(* A step that changes nothing of a relay at its origin and reads no end of it.  *)
LEMMA BoundStays ==
    ASSUME Types, NEW b \in Bot, NEW h \in Handle, NEW l \in Leaf, Bound(b, h, l),
           relaying'[b][h] = relaying[b][h],
           b \in Leaf =>
              /\ activeRelays'[h] = activeRelays[h] /\ leafUp'[b] = leafUp[b]
              /\ \/ toHub'[b] = toHub[b]
                 \/ \E f \in Frame : ~Changes(f, h) /\ toHub'[b] = Append(toHub[b], f)
                 \/ toHub[b] # <<>> /\ Head(toHub[b]) # RelayEnd(h) /\ toHub'[b] = Tail(toHub[b])
    PROVE  Bound(b, h, l)'
<1>1. CASE b = Hub
  BY <1>1 DEF Bound
<1>2. CASE b # Hub
  <2>1. b \in Leaf
    BY <1>2 DEF Bot
  <2>2. toHub[b] \in Seq(Frame)
    BY <2>1 DEF Types
  <2>3. /\ Parted(toHub[b], h)
        /\ relaying[b][h] = l \/ RelayEnd(h) \in Range(toHub[b]) \/ ~leafUp[b]
        /\ [origin |-> b, target |-> l] \in activeRelays[h]
    BY <1>2 DEF Bound
  <2>4. CASE toHub'[b] = toHub[b]
    BY <1>2, <2>1, <2>3, <2>4 DEF Bound
  <2>5. CASE \E f \in Frame : ~Changes(f, h) /\ toHub'[b] = Append(toHub[b], f)
    <3>1. PICK f \in Frame : ~Changes(f, h) /\ toHub'[b] = Append(toHub[b], f)
      BY <2>5
    <3>2. ~Opens(f, h)
      BY <3>1 DEF Opens, Changes
    <3>3. Parted(Append(toHub[b], f), h)
      BY <2>2, <2>3, <3>2, PartedMoves
    <3>4. Range(toHub'[b]) = Range(toHub[b]) \cup {f}
      BY <2>2, <3>1, RangeOfChannel
    <3> QED BY <1>2, <2>1, <2>3, <3>1, <3>3, <3>4 DEF Bound
  <2>6. CASE toHub[b] # <<>> /\ Head(toHub[b]) # RelayEnd(h) /\ toHub'[b] = Tail(toHub[b])
    <3>1. Parted(Tail(toHub[b]), h)
      BY <2>2, <2>3, <2>6, PartedMoves
    <3>2. Range(toHub[b]) = {Head(toHub[b])} \cup Range(toHub'[b])
      BY <2>2, <2>6, RangeOfChannel
    <3> QED BY <1>2, <2>1, <2>3, <2>6, <3>1, <3>2 DEF Bound
  <2> QED BY <2>1, <2>4, <2>5, <2>6
<1> QED BY <1>1, <1>2

LEMMA RightfulStep ==
    ASSUME Types, Sessions, Homed, RoutesLive, OneHome, ~SelfRelay, Kin,
           EndsAtHome, EndsAbroad, CutOff, InTurn, Rightful, ~rough', [Next]_vars
    PROVE  Rightful'
<1>a. Hub \in Bot /\ Leaf \subseteq Bot /\ Hub \notin Leaf /\ None \notin Bot /\ Bot = Leaf \cup {Hub}
  BY DEF Bot
<1>t. /\ toHub \in [Leaf -> Seq(Frame)] /\ toLeaf \in [Leaf -> Seq(Frame)]
      /\ relaying \in [Bot -> [Handle -> Bot \cup {None}]]
      /\ virtual \in [Bot -> [Handle -> Bot \cup {None}]]
      /\ activeRelays \in [Handle -> SUBSET [origin : Leaf, target : Leaf]]
      /\ leafUp \in [Leaf -> BOOLEAN] /\ hubUp \in [Leaf -> BOOLEAN]
  BY DEF Types
<1> SUFFICES ASSUME NEW c \in Leaf, NEW g \in Handle, NEW d \in Bot,
                    Claims(toLeaf'[c], virtual'[c][g], g, d, c)
             PROVE  Bound(d, g, c)'
  BY DEF Rightful
<1> DEFINE Before == Claims(toLeaf[c], virtual[c][g], g, d, c)
<1>b. Before => Bound(d, g, c) /\ leafUp[c] /\ hubUp[c]
  <2>1. Before => Bound(d, g, c)
    BY DEF Rightful
  <2>2. ASSUME ~(leafUp[c] /\ hubUp[c]) PROVE ~Before
    <3>1. virtual[c][g] = None /\ toLeaf[c] = <<>>
      BY <2>2 DEF CutOff, Fresh
    <3>2. None # d
      BY <1>a
    <3> QED BY <3>1, <3>2, ClaimsNone
  <2> QED BY <2>1, <2>2
<1>n. ~(toLeaf'[c] = <<>> /\ virtual'[c][g] = None)
  <2>1. None # d
    BY <1>a
  <2> QED BY <2>1, ClaimsNone
<1>s. ASSUME virtual'[c][g] = virtual[c][g], toLeaf'[c] = toLeaf[c] PROVE Before
  BY <1>s
<1>p. ASSUME NEW f \in Frame, virtual'[c][g] = virtual[c][g], toLeaf'[c] = Append(toLeaf[c], f)
      PROVE  f # RelayEnd(g) /\ (Before \/ f = RelayRequest(g, d, c))
  <2>1. Claims(Append(toLeaf[c], f), virtual[c][g], g, d, c) /\ toLeaf[c] \in Seq(Frame)
    BY <1>p, <1>t
  <2>2. PICK v : v = virtual[c][g]
    OBVIOUS
  <2>a. PICK ch \in Seq(Frame) : ch = toLeaf[c]
    BY <2>1
  <2>3. Claims(Append(ch, f), v, g, d, c)
    BY <2>1, <2>2, <2>a
  <2>4. f # RelayEnd(g) /\ (Claims(ch, v, g, d, c) \/ f = RelayRequest(g, d, c))
    BY <2>3, ClaimsAppend
  <2> QED BY <2>2, <2>a, <2>4 DEF Before
<1>q. d \in Leaf /\ Bound(d, g, c) =>
          /\ [origin |-> d, target |-> c] \in activeRelays[g] /\ hubUp[d] /\ d \in Homes[g]
          /\ Parted(toHub[d], g) /\ toHub[d] \in Seq(Frame)
          /\ relaying[d][g] = c \/ RelayEnd(g) \in Range(toHub[d]) \/ ~leafUp[d]
  BY <1>a, <1>t DEF Bound, RoutesLive, Kin, Outbound
<1> HIDE DEF Before
<1>u. ASSUME Before, relaying'[d][g] = relaying[d][g],
             d \in Leaf =>
                /\ activeRelays'[g] = activeRelays[g] /\ leafUp'[d] = leafUp[d]
                /\ \/ toHub'[d] = toHub[d]
                   \/ \E f \in Frame : ~Changes(f, g) /\ toHub'[d] = Append(toHub[d], f)
                   \/ toHub[d] # <<>> /\ Head(toHub[d]) # RelayEnd(g) /\ toHub'[d] = Tail(toHub[d])
      PROVE  Bound(d, g, c)'
  BY <1>u, <1>b, BoundStays
<1>1. ASSUME NEW b \in Bot, NEW h \in Handle, OpenSession(b, h)
      PROVE  Bound(d, g, c)'
  BY <1>1, <1>u, <1>s DEF OpenSession, linkVars
<1>2. ASSUME NEW b \in Bot, NEW h \in Handle, CloseSession(b, h)
      PROVE  Bound(d, g, c)'
  <2>1. relaying' = [relaying EXCEPT ![b][h] = None] /\ relaying[b][h] = None
    BY <1>2 DEF CloseSession, ExitRelay
  <2>2. relaying'[d][g] = relaying[d][g]
    BY <2>1, <1>t, <1>a, Updated
  <2> QED BY <1>2, <1>u, <1>s, <2>2 DEF CloseSession, linkVars

<1>3. ASSUME NEW b \in Bot, NEW h \in Handle, NEW to \in Bot, Relay(b, h, to)
      PROVE  Bound(d, g, c)'
  <2> DEFINE req == RelayRequest(h, b, to)
  <2>1. /\ relaying[b][h] = None /\ relaying' = [relaying EXCEPT ![b][h] = to]
        /\ toHub' = IF b = Hub THEN toHub ELSE LeafSends(toHub, b, req)
        /\ toLeaf' = IF b = Hub THEN HubSends(toLeaf, to, req) ELSE toLeaf
        /\ UNCHANGED <<leafUp, activeRelays, virtual>>
    BY <1>3 DEF Relay, SendsTo
  <2>2. /\ req \in Frame /\ (g # h => ~Changes(req, g)) /\ req # RelayEnd(g)
        /\ req = RelayRequest(g, d, c) => g = h /\ d = b /\ c = to
    BY FrameTypes, ChangesOf, OtherFrames DEF RelayRequest
  <2> HIDE DEF req
  <2>3. relaying'[d][g] = IF d = b /\ g = h THEN to ELSE relaying[d][g]
    BY <2>1, <1>t, <1>a, Updated
  <2>4. d \in Leaf => toHub'[d] = IF d = b /\ leafUp[d] /\ hubUp[d] THEN Append(toHub[d], req) ELSE toHub[d]
    BY <2>1, <1>t, <1>a DEF LeafSends
  <2>5. Before \/ (b = Hub /\ req = RelayRequest(g, d, c))
    <3>1. CASE b # Hub
      BY <3>1, <2>1, <1>s
    <3>2. CASE b = Hub
      <4>1. toLeaf'[c] = toLeaf[c] \/ toLeaf'[c] = Append(toLeaf[c], req)
        BY <2>1, <3>2, <1>t DEF HubSends
      <4> QED BY <4>1, <2>1, <2>2, <3>2, <1>s, <1>p
    <3> QED BY <3>1, <3>2
  <2>6. CASE b = Hub /\ req = RelayRequest(g, d, c)
    BY <2>2, <2>3, <2>6 DEF Bound
  <2>7. CASE Before /\ ~(d = b /\ g = h)
    BY <2>1, <2>2, <2>3, <2>4, <2>7, <1>u
  <2>8. CASE Before /\ d = b /\ g = h
    <3>1. d # Hub
      BY <2>1, <2>8, <1>a, <1>b DEF Bound
    <3>2. d \in Leaf
      BY <3>1, <1>a
    <3>3. /\ [origin |-> d, target |-> c] \in activeRelays'[g]
          /\ Parted(toHub[d], g) /\ toHub[d] \in Seq(Frame)
          /\ RelayEnd(g) \in Range(toHub[d]) \/ ~leafUp[d]
      BY <2>1, <2>8, <3>2, <1>a, <1>b, <1>q
    <3>4. CASE leafUp[d] /\ hubUp[d]
      <4>1. toHub'[d] = Append(toHub[d], req) /\ RelayEnd(g) \in Range(toHub[d])
        BY <2>4, <2>8, <3>2, <3>3, <3>4
      <4>2. Parted(toHub'[d], g)
        BY <4>1, <3>3, <2>2, PartedMoves
      <4>3. RelayEnd(g) \in Range(toHub'[d])
        BY <4>1, <3>3, <2>2, RangeOfChannel
      <4> QED BY <3>1, <3>3, <4>2, <4>3 DEF Bound
    <3>5. CASE ~(leafUp[d] /\ hubUp[d])
      <4>1. toHub'[d] = toHub[d] /\ ~leafUp'[d]
        BY <2>1, <2>4, <2>8, <3>2, <3>5, <1>b, <1>q
      <4> QED BY <3>1, <3>3, <4>1 DEF Bound
    <3> QED BY <3>4, <3>5
  <2> QED BY <2>5, <2>6, <2>7, <2>8
<1>4. ASSUME NEW b \in Bot, NEW h \in Handle, Type(b, h)
      PROVE  Bound(d, g, c)'
  <2> DEFINE f == RelayInput(h, b, relaying[b][h])
  <2>1. /\ toHub' = IF b = Hub THEN toHub ELSE LeafSends(toHub, b, f)
        /\ toLeaf' = IF b = Hub THEN HubSends(toLeaf, relaying[b][h], f) ELSE toLeaf
        /\ UNCHANGED <<leafUp, relaying, activeRelays, virtual>>
    BY <1>4 DEF Type, SendsTo, relayVars
  <2>2. f \in Frame /\ ~Changes(f, g) /\ f # RelayRequest(g, d, c)
    <3>1. f \in Frame /\ ~Changes(f, g)
      BY <1>4, <1>t, FrameTypes, ChangesOf DEF Type
    <3>2. f.type = "RELAY_INPUT" /\ RelayRequest(g, d, c).type = "RELAY_REQUEST"
      BY DEF RelayInput, RelayRequest
    <3> QED BY <3>1, <3>2
  <2> HIDE DEF f
  <2>3. d \in Leaf => toHub'[d] = toHub[d] \/ toHub'[d] = Append(toHub[d], f)
    BY <2>1, <1>t DEF LeafSends
  <2>4. toLeaf'[c] = toLeaf[c] \/ toLeaf'[c] = Append(toLeaf[c], f)
    BY <2>1, <1>t DEF HubSends
  <2>5. Before
    BY <2>1, <2>2, <2>4, <1>s, <1>p
  <2> QED BY <2>1, <2>2, <2>3, <2>5, <1>u
<1>5. ASSUME NEW b \in Bot, NEW h \in Handle, EndRelay(b, h)
      PROVE  Bound(d, g, c)'
  <2> DEFINE f == RelayEnd(h)
  <2>1. /\ toHub' = IF b = Hub THEN toHub ELSE LeafSends(toHub, b, f)
        /\ toLeaf' = IF b = Hub THEN HubBroadcasts(toLeaf, f, Hub) ELSE toLeaf
        /\ relaying' = [relaying EXCEPT ![b][h] = None]
        /\ UNCHANGED <<leafUp, activeRelays, virtual>>
    BY <1>5 DEF EndRelay, SendsOut, ExitRelay
  <2>2. /\ f \in Frame /\ (g # h => ~Changes(f, g)) /\ (g = h => f = RelayEnd(g))
        /\ f # RelayRequest(g, d, c) /\ ~Opens(f, g)
    BY FrameTypes, ChangesOf, OtherFrames DEF Opens, RelayEnd
  <2> HIDE DEF f
  <2>3. relaying'[d][g] = IF d = b /\ g = h THEN None ELSE relaying[d][g]
    BY <2>1, <1>t, <1>a, Updated
  <2>4. d \in Leaf => toHub'[d] = IF d = b /\ leafUp[d] /\ hubUp[d] THEN Append(toHub[d], f) ELSE toHub[d]
    BY <2>1, <1>t, <1>a DEF LeafSends
  <2>5. toLeaf'[c] = IF b = Hub /\ leafUp[c] /\ hubUp[c] THEN Append(toLeaf[c], f) ELSE toLeaf[c]
    BY <2>1, <1>a DEF HubBroadcasts
  <2>6. Before /\ ~(b = Hub /\ g = h)
    <3>1. Before
      BY <2>1, <2>2, <2>5, <1>s, <1>p
    <3>2. leafUp[c] /\ hubUp[c]
      BY <3>1, <1>b
    <3> QED BY <2>1, <2>2, <2>5, <3>1, <3>2, <1>p
  <2>7. CASE ~(d = b /\ g = h)
    BY <2>1, <2>2, <2>3, <2>4, <2>6, <2>7, <1>u
  <2>8. CASE d = b /\ g = h
    <3>1. d \in Leaf /\ d # Hub
      BY <2>6, <2>8, <1>a
    <3>2. /\ [origin |-> d, target |-> c] \in activeRelays'[g] /\ hubUp[d]
          /\ Parted(toHub[d], g) /\ toHub[d] \in Seq(Frame)
      BY <2>1, <2>6, <3>1, <1>b, <1>q
    <3>3. CASE leafUp[d]
      <4>1. toHub'[d] = Append(toHub[d], f)
        BY <2>4, <2>8, <3>1, <3>2, <3>3
      <4>2. Parted(toHub'[d], g)
        BY <4>1, <3>2, <2>2, PartedMoves
      <4>3. RelayEnd(g) \in Range(toHub'[d])
        BY <4>1, <3>2, <2>2, <2>8, RangeOfChannel
      <4> QED BY <3>1, <3>2, <4>2, <4>3 DEF Bound
    <3>4. CASE ~leafUp[d]
      <4>1. toHub'[d] = toHub[d] /\ ~leafUp'[d]
        BY <2>1, <2>4, <3>1, <3>4
      <4> QED BY <3>1, <3>2, <4>1 DEF Bound
    <3> QED BY <3>3, <3>4
  <2> QED BY <2>7, <2>8
<1>6. ASSUME NEW l \in Leaf, HubRequest(l)
      PROVE  Bound(d, g, c)'
  <2> DEFINE frame == Head(toHub[l])
             h == frame.handle
             to == frame.to
             route == [origin |-> l, target |-> to]
  <2>1. /\ toHub[l] # <<>> /\ frame.type = "RELAY_REQUEST" /\ toHub' = Take(toHub, l)
        /\ UNCHANGED <<leafUp, hubUp, relaying>>
        /\ activeRelays' = [activeRelays EXCEPT ![h] = {route}]
        /\ toLeaf' = HubSends(toLeaf, to, frame)
        /\ virtual' = [virtual EXCEPT ![Hub][h] = l]
    BY <1>6 DEF HubRequest, HubReads
  <2>2. frame \in Frame /\ h \in Handle /\ frame = RelayRequest(h, frame.from, to) /\ Opens(frame, h)
    BY <2>1, <1>t, Reads, FrameTypes, OtherFrames DEF Opens
  <2>3. frame.from = l /\ l \in Homes[h]
    BY <2>1, <1>t, CarriedAfterRead DEF Homed
  <2>4. frame # RelayEnd(g) /\ (frame = RelayRequest(g, d, c) => g = h /\ d = l /\ c = to)
    BY <2>1, <2>3, OtherFrames DEF RelayRequest
  <2>5. virtual'[c][g] = virtual[c][g]
    BY <2>1, <1>t, <1>a
  <2>6. activeRelays'[g] = IF g = h THEN {route} ELSE activeRelays[g]
    BY <2>1, <1>t
  <2>7. d \in Leaf => toHub'[d] = IF d = l THEN Tail(toHub[d]) ELSE toHub[d]
    BY <2>1, <1>t DEF Take
  <2> HIDE DEF frame, h, to, route
  <2>8. Before \/ frame = RelayRequest(g, d, c)
    <3>1. toLeaf'[c] = toLeaf[c] \/ toLeaf'[c] = Append(toLeaf[c], frame)
      BY <2>1, <1>t DEF HubSends
    <3> QED BY <3>1, <2>2, <2>5, <1>s, <1>p
  <2>9. CASE frame = RelayRequest(g, d, c)
    <3>1. d = l /\ g = h /\ c = to /\ d # Hub /\ d \in Leaf
      BY <2>4, <2>9, <1>a
    <3>2. [origin |-> d, target |-> c] \in activeRelays'[g]
      BY <2>6, <3>1 DEF route
    <3>3. Orderly(toHub[l], h, Askable(l, h)) /\ toHub[l] \in Seq(Frame)
      BY <2>2, <1>t DEF InTurn
    <3>4. /\ Parted(Tail(toHub[l]), h)
          /\ RelayEnd(h) \in Range(Tail(toHub[l])) \/ to \in Askable(l, h)
      BY <3>3, <2>1, <2>2, OrderlyTail DEF frame, to
    <3>5. to \in Askable(l, h) => ~leafUp[l] \/ to = relaying[l][h]
      BY DEF Askable
    <3> QED BY <3>1, <3>2, <3>4, <3>5, <2>1, <2>7 DEF Bound
  <2>10. CASE Before /\ g # h
    <3>1. frame # RelayEnd(g) /\ (d = l => Head(toHub[d]) = frame /\ toHub[d] # <<>>)
      BY <2>1, <2>4 DEF frame
    <3> QED BY <2>1, <2>6, <2>7, <2>10, <3>1, <1>u
  <2>11. CASE Before /\ g = h
    <3>1. CASE d = Hub
      BY <3>1, <2>1, <2>11, <1>b DEF Bound
    <3>2. CASE d \in Leaf
      <4>1. d \in Homes[g] /\ Parted(toHub[d], g) /\ toHub[d] \in Seq(Frame)
        BY <3>2, <2>11, <1>b, <1>q
      <4>2. d = l
        BY <4>1, <2>3, <2>11 DEF OneHome
      <4>3. ~Opens(frame, h)
        BY <4>1, <4>2, <2>1, <2>11, PartedMoves DEF frame
      <4> QED BY <4>3, <2>2
    <3> QED BY <3>1, <3>2, <1>a
  <2> QED BY <2>8, <2>9, <2>10, <2>11
<1>7. ASSUME NEW l \in Leaf, HubInput(l)
      PROVE  Bound(d, g, c)'
  <2> DEFINE frame == Head(toHub[l])
  <2>1. /\ toHub[l] # <<>> /\ frame.type = "RELAY_INPUT" /\ toHub' = Take(toHub, l)
        /\ UNCHANGED <<leafUp, relaying, activeRelays, virtual>>
        /\ toLeaf'[c] = toLeaf[c] \/ toLeaf'[c] = HubSends(toLeaf, c, frame)[c]
    BY <1>7 DEF HubInput, HubReads, relayVars
  <2>2. frame \in Frame /\ frame # RelayRequest(g, d, c) /\ frame # RelayEnd(g)
    BY <2>1, <1>t, Reads, OtherFrames DEF RelayRequest
  <2>3. d \in Leaf => toHub'[d] = IF d = l THEN Tail(toHub[d]) ELSE toHub[d]
    BY <2>1, <1>t DEF Take
  <2>4. d = l => Head(toHub[d]) # RelayEnd(g) /\ toHub[d] # <<>>
    BY <2>1, <2>2
  <2> HIDE DEF frame
  <2>5. toLeaf'[c] = toLeaf[c] \/ toLeaf'[c] = Append(toLeaf[c], frame)
    BY <2>1, <1>t DEF HubSends
  <2>6. Before
    BY <2>1, <2>2, <2>5, <1>s, <1>p
  <2> QED BY <2>1, <2>3, <2>4, <2>6, <1>u
<1>8. ASSUME NEW l \in Leaf, HubEnd(l)
      PROVE  Bound(d, g, c)'
  <2> DEFINE frame == Head(toHub[l])
  <2>1. PICK h : h = frame.handle
    OBVIOUS
  <2>2. /\ toHub[l] # <<>> /\ frame.type = "RELAY_END" /\ toHub' = Take(toHub, l)
        /\ UNCHANGED leafUp
        /\ activeRelays' = [activeRelays EXCEPT ![h] = {}]
        /\ relaying' = [relaying EXCEPT ![Hub][h] = None]
        /\ virtual' = [virtual EXCEPT ![Hub][h] = None]
        /\ toLeaf'[c] = IF \E r \in activeRelays[h] : OtherSide(r, l) = c
                        THEN HubSends(toLeaf, c, RelayEnd(h))[c] ELSE toLeaf[c]
    BY <1>8, <2>1 DEF HubEnd, HubReads, ExitRelay
  <2>3. h \in Handle /\ RelayEnd(h) \in Frame /\ frame = RelayEnd(h)
    BY <2>1, <2>2, <1>t, Reads, FrameTypes, OtherFrames
  <2>4. l \in Homes[h]
    <3>1. Head(toHub[l]) \in Range(toHub[l])
      BY <2>2, <1>t, CarriedAfterRead
    <3> QED BY <2>3, <3>1 DEF EndsAtHome
  <2>5. virtual'[c][g] = virtual[c][g]
    BY <2>2, <1>t, <1>a
  <2>6. d \in Leaf => toHub'[d] = IF d = l THEN Tail(toHub[d]) ELSE toHub[d]
    BY <2>2, <1>t DEF Take
  <2>7. HubSends(toLeaf, c, RelayEnd(h))[c] =
            IF leafUp[c] /\ hubUp[c] THEN Append(toLeaf[c], RelayEnd(h)) ELSE toLeaf[c]
    BY <1>t DEF HubSends
  <2>8. RelayEnd(h) # RelayRequest(g, d, c) /\ (g # h => RelayEnd(h) # RelayEnd(g))
    BY OtherFrames
  <2>9. d = l => Head(toHub[d]) = RelayEnd(h) /\ toHub[d] # <<>>
    BY <2>2, <2>3
  <2> HIDE DEF frame
  <2>10. Before
    BY <2>2, <2>3, <2>5, <2>7, <2>8, <1>s, <1>p
  <2>11. CASE g # h
    <3>1. activeRelays'[g] = activeRelays[g] /\ relaying'[d][g] = relaying[d][g]
      BY <2>2, <2>11, <1>t, <1>a, Updated
    <3> QED BY <2>2, <2>6, <2>8, <2>9, <2>10, <2>11, <3>1, <1>u
  <2>12. CASE g = h
    <3>1. leafUp[c] /\ hubUp[c] /\ Bound(d, g, c)
      BY <2>10, <1>b
    <3>2. CASE d \in Leaf
      <4>1. [origin |-> d, target |-> c] \in activeRelays[h] /\ d \in Homes[h]
        BY <3>1, <3>2, <2>12, <1>q
      <4>2. d = l
        BY <4>1, <2>3, <2>4 DEF OneHome
      <4>3. OtherSide([origin |-> d, target |-> c], l) = c
        BY <4>2 DEF OtherSide
      <4>4. toLeaf'[c] = Append(toLeaf[c], RelayEnd(g))
        BY <4>1, <4>3, <3>1, <2>2, <2>7, <2>12
      <4> QED BY <4>4, <2>3, <2>5, <2>12, <1>p
    <3>3. CASE d = Hub
      <4>1. relaying[Hub][h] = c
        BY <3>1, <3>3, <2>12 DEF Bound
      <4>2. Hub \in Homes[h]
        BY <4>1, <2>3, <1>a, RelayHome
      <4> QED BY <4>2, <2>3, <2>4, <1>a DEF OneHome
    <3> QED BY <3>2, <3>3, <1>a
  <2> QED BY <2>11, <2>12
<1>r. ASSUME toLeaf[c] # <<>>, NEW w, w = virtual'[c][g], toLeaf'[c] = Tail(toLeaf[c]),
             \/ w = virtual[c][g] /\ Head(toLeaf[c]) # RelayEnd(g)
             \/ Head(toLeaf[c]) = RelayRequest(g, w, c)
             \/ w # d
      PROVE  Before
  <2>1. PICK v : v = virtual[c][g]
    OBVIOUS
  <2>2. PICK ch \in Seq(Frame) : ch = toLeaf[c]
    BY <1>t
  <2>3. Claims(Tail(ch), w, g, d, c) /\ ch # <<>>
    BY <2>2, <1>r
  <2>4. (w = v /\ Head(ch) # RelayEnd(g)) \/ Head(ch) = RelayRequest(g, w, c) \/ w # d
    BY <2>1, <2>2, <1>r
  <2>5. Claims(ch, v, g, d, c)
    BY <2>3, <2>4, ClaimsTail
  <2> QED BY <2>1, <2>2, <2>5 DEF Before
<1>9. ASSUME NEW l \in Leaf, LeafRequest(l)
      PROVE  Bound(d, g, c)'
  <2> DEFINE frame == Head(toLeaf[l])
             h == frame.handle
  <2>1. /\ toLeaf[l] # <<>> /\ frame.type = "RELAY_REQUEST" /\ toLeaf' = Take(toLeaf, l)
        /\ UNCHANGED <<leafUp, toHub, relaying, activeRelays>>
        /\ virtual' = [virtual EXCEPT ![l][h] = frame.from]
    BY <1>9 DEF LeafRequest, LeafReads
  <2>2. /\ frame \in Frame /\ h \in Handle /\ frame = RelayRequest(h, frame.from, frame.to)
        /\ frame # RelayEnd(g)
    BY <2>1, <1>t, Reads, FrameTypes, OtherFrames
  <2>3. frame.to = l
    BY <2>1, <1>t, CarriedAfterRead DEF Kin, Forwarded
  <2>4. virtual'[c][g] = IF c = l /\ g = h THEN frame.from ELSE virtual[c][g]
    BY <2>1, <1>t, <1>a, Updated
  <2>5. toLeaf'[c] = IF c = l THEN Tail(toLeaf[c]) ELSE toLeaf[c]
    BY <2>1, <1>t DEF Take
  <2> HIDE DEF h
  <2>6. CASE c # l
    BY <2>1, <2>4, <2>5, <2>6, <1>s, <1>u
  <2>7. CASE c = l
    <3>1. PICK w : w = virtual'[c][g]
      OBVIOUS
    <3>2. (w = virtual[c][g] /\ Head(toLeaf[c]) # RelayEnd(g)) \/ Head(toLeaf[c]) = RelayRequest(g, w, c)
      BY <2>2, <2>3, <2>4, <2>7, <3>1
    <3>3. Before
      BY <2>1, <2>5, <2>7, <3>1, <3>2, <1>r
    <3> QED BY <2>1, <3>3, <1>u
  <2> QED BY <2>6, <2>7
<1>10. ASSUME NEW l \in Leaf, LeafInput(l)
       PROVE  Bound(d, g, c)'
  <2>1. /\ toLeaf[l] # <<>> /\ Head(toLeaf[l]).type = "RELAY_INPUT" /\ toLeaf' = Take(toLeaf, l)
        /\ UNCHANGED <<leafUp, toHub, relaying, activeRelays, virtual>>
    BY <1>10 DEF LeafInput, LeafReads, relayVars
  <2>2. toLeaf'[c] = IF c = l THEN Tail(toLeaf[c]) ELSE toLeaf[c]
    BY <2>1, <1>t DEF Take
  <2>3. Head(toLeaf[l]) # RelayEnd(g)
    BY <2>1, OtherFrames
  <2>4. Before
    <3>1. PICK w : w = virtual'[c][g]
      OBVIOUS
    <3>2. CASE c = l
      BY <2>1, <2>2, <2>3, <3>1, <3>2, <1>r
    <3>3. CASE c # l
      BY <2>1, <2>2, <3>3, <1>s
    <3> QED BY <3>2, <3>3
  <2> QED BY <2>1, <2>4, <1>u
<1>11. ASSUME NEW l \in Leaf, LeafEnd(l)
       PROVE  Bound(d, g, c)'
  <2> DEFINE frame == Head(toLeaf[l])
  <2>1. PICK h : h = frame.handle
    OBVIOUS
  <2>2. /\ toLeaf[l] # <<>> /\ frame.type = "RELAY_END" /\ toLeaf' = Take(toLeaf, l)
        /\ UNCHANGED <<leafUp, toHub, activeRelays>>
        /\ virtual' = [virtual EXCEPT ![l][h] = None]
        /\ relaying' = [relaying EXCEPT ![l][h] = None]
    BY <1>11, <2>1 DEF LeafEnd, LeafReads, ExitRelay
  <2>3. h \in Handle /\ frame = RelayEnd(h) /\ (g # h => frame # RelayEnd(g))
    BY <2>1, <2>2, <1>t, Reads, FrameTypes, OtherFrames
  <2>4. relaying[l][h] = None
    <3>1. frame \in Range(toLeaf[l])
      BY <2>2, <1>t, CarriedAfterRead
    <3>2. l \notin Homes[h]
      BY <2>3, <3>1 DEF EndsAbroad
    <3> QED BY <2>3, <3>2, <1>a, RelayHome
  <2>5. virtual'[c][g] = IF c = l /\ g = h THEN None ELSE virtual[c][g]
    BY <2>2, <1>t, <1>a, Updated
  <2>6. toLeaf'[c] = IF c = l THEN Tail(toLeaf[c]) ELSE toLeaf[c]
    BY <2>2, <1>t DEF Take
  <2>7. relaying'[d][g] = relaying[d][g]
    BY <2>2, <2>4, <1>t, <1>a, Updated
  <2>8. Before
    <3>1. PICK w : w = virtual'[c][g]
      OBVIOUS
    <3>2. CASE c = l
      <4>1. (w = virtual[c][g] /\ Head(toLeaf[c]) # RelayEnd(g)) \/ w # d
        BY <2>3, <2>5, <3>1, <3>2, <1>a
      <4> QED BY <2>2, <2>6, <3>1, <3>2, <4>1, <1>r
    <3>3. CASE c # l
      BY <2>5, <2>6, <3>3, <1>s
    <3> QED BY <3>2, <3>3
  <2> QED BY <2>2, <2>7, <2>8, <1>u
<1>12. ASSUME NEW l \in Leaf, Connect(l)
       PROVE  Bound(d, g, c)'
  <2>1. /\ ~leafUp[l] /\ ~hubUp[l] /\ leafUp' = [leafUp EXCEPT ![l] = TRUE]
        /\ toHub' = [toHub EXCEPT ![l] = <<>>] /\ toLeaf' = [toLeaf EXCEPT ![l] = <<>>]
        /\ UNCHANGED <<relaying, activeRelays, virtual>>
    BY <1>12 DEF Connect, LinkUp, relayVars
  <2>2. c # l
    <3>1. ASSUME c = l PROVE FALSE
      <4>1. toLeaf'[c] = <<>> /\ virtual'[c] = Fresh
        BY <2>1, <3>1, <1>t DEF CutOff
      <4> QED BY <4>1, <1>n DEF Fresh
    <3> QED BY <3>1
  <2>3. Before
    BY <2>1, <2>2, <1>s
  <2>4. d \in Leaf => d # l
    BY <2>1, <2>3, <1>b, <1>q
  <2>5. d \in Leaf => toHub'[d] = toHub[d] /\ leafUp'[d] = leafUp[d]
    BY <2>1, <2>4, <1>t
  <2> QED BY <2>1, <2>3, <2>5, <1>u
<1>13. ASSUME NEW l \in Leaf, LeafDisconnects(l) \/ LeafRestarts(l)
       PROVE  Bound(d, g, c)'
  <2>1. /\ leafUp' = [leafUp EXCEPT ![l] = FALSE] /\ toLeaf' = [toLeaf EXCEPT ![l] = <<>>]
        /\ UNCHANGED <<toHub, activeRelays>>
        /\ virtual[l] = Fresh
        /\ virtual' = virtual \/ virtual' = [virtual EXCEPT ![l] = Fresh]
        /\ relaying' = relaying \/ relaying' = [relaying EXCEPT ![l] = Fresh]
    BY <1>13 DEF LeafDisconnects, LeafLoses, Lost, LeafRestarts
  <2>2. virtual'[c] = virtual[c]
    BY <2>1, <1>t, <1>a
  <2>3. c # l
    <3>1. ASSUME c = l PROVE FALSE
      <4>1. toLeaf'[c] = <<>> /\ virtual'[c] = Fresh
        BY <2>1, <2>2, <3>1, <1>t
      <4> QED BY <4>1, <1>n DEF Fresh
    <3> QED BY <3>1
  <2>4. Before
    BY <2>1, <2>2, <2>3, <1>s
  <2>5. CASE d = l
    <3>1. d # Hub /\ ~leafUp'[d]
      BY <2>1, <2>5, <1>a, <1>t
    <3> QED BY <2>1, <2>4, <2>5, <3>1, <1>b DEF Bound
  <2>6. CASE d # l
    <3>1. relaying'[d][g] = relaying[d][g]
      BY <2>1, <2>6, <1>t, <1>a
    <3> QED BY <2>1, <2>4, <2>6, <3>1, <1>u
  <2> QED BY <2>5, <2>6
<1>14. ASSUME NEW l \in Leaf, HubDisconnects(l)
       PROVE  Bound(d, g, c)'
  <2> DEFINE gone == {h \in Handle : \E r \in activeRelays[h] : Involves(r, l)}
             side(b) == {h \in gone : \E r \in activeRelays[h] : OtherSide(r, l) = b}
             endsFor(b) == {RelayEnd(h) : h \in side(b)}
  <2>1. /\ virtual[l] = Fresh /\ toLeaf[l] = <<>>
        /\ toHub' = [toHub EXCEPT ![l] = <<>>]
        /\ toLeaf'[c] = IF c # l /\ hubUp[c] /\ leafUp[c] THEN toLeaf[c] \o SetToSeq(endsFor(c)) ELSE toLeaf[c]
        /\ activeRelays'[g] = IF g \in gone THEN {} ELSE activeRelays[g]
        /\ UNCHANGED <<leafUp, relaying, virtual>>
    BY <1>14 DEF HubDisconnects, Lost
  <2>2. c # l
    <3>1. ASSUME c = l PROVE FALSE
      <4>1. toLeaf'[c] = <<>> /\ virtual'[c] = Fresh
        BY <2>1, <3>1
      <4> QED BY <4>1, <1>n DEF Fresh
    <3> QED BY <3>1
  <2>3. PICK ends : ends = SetToSeq(endsFor(c))
    OBVIOUS
  <2>4. ends \in Seq(Frame) /\ Range(ends) = endsFor(c)
    <3>1. side(c) \in SUBSET Handle
      OBVIOUS
    <3> HIDE DEF side
    <3> QED BY <2>3, <3>1, EndsOfLeaver
  <2>5. \A f \in endsFor(c) : f.type = "RELAY_END"
    BY DEF RelayEnd
  <2>6. g \in side(c) => RelayEnd(g) \in endsFor(c)
    OBVIOUS
  <2> HIDE DEF endsFor
  <2>7. Before
    <3>1. CASE ~(hubUp[c] /\ leafUp[c])
      BY <2>1, <3>1, <1>s
    <3>2. CASE hubUp[c] /\ leafUp[c]
      <4>1. PICK v : v = virtual[c][g]
        OBVIOUS
      <4>2. PICK ch \in Seq(Frame) : ch = toLeaf[c]
        BY <1>t
      <4>3. Claims(ch \o ends, v, g, d, c)
        BY <2>1, <2>2, <2>3, <3>2, <4>1, <4>2
      <4>4. Claims(ch, v, g, d, c)
        BY <2>4, <2>5, <4>3, ClaimsMore
      <4> QED BY <4>1, <4>2, <4>4 DEF Before
    <3> QED BY <3>1, <3>2
  <2>8. RelayEnd(g) \notin endsFor(c)
    <3>1. hubUp[c] /\ leafUp[c]
      BY <2>7, <1>b
    <3>2. PICK v : v = virtual[c][g]
      OBVIOUS
    <3>3. PICK ch \in Seq(Frame) : ch = toLeaf[c]
      BY <1>t
    <3>4. Claims(ch \o ends, v, g, d, c)
      BY <2>1, <2>2, <2>3, <3>1, <3>2, <3>3
    <3> QED BY <2>4, <2>5, <3>4, ClaimsMore
  <2>9. CASE d = Hub
    BY <2>1, <2>7, <2>9, <1>a, <1>u
  <2>10. CASE d \in Leaf
    <3> DEFINE r == [origin |-> d, target |-> c]
    <3>1. r \in activeRelays[g] /\ r.origin = d /\ r.target = c
      BY <2>7, <2>10, <1>b, <1>q
    <3>2. \A s \in activeRelays[g] : s = r
      BY <3>1 DEF Sessions
    <3> HIDE DEF r
    <3>3. d # l
      <4>1. ASSUME d = l PROVE FALSE
        <5>1. Involves(r, l) /\ OtherSide(r, l) = c
          BY <3>1, <4>1 DEF Involves, OtherSide
        <5>2. g \in side(c)
          BY <3>1, <5>1
        <5> QED BY <5>2, <2>6, <2>8
      <4> QED BY <4>1
    <3>4. g \notin gone
      BY <3>1, <3>2, <3>3, <2>2 DEF Involves
    <3> QED BY <2>1, <2>7, <3>3, <3>4, <1>u
  <2> QED BY <2>9, <2>10, <1>a
<1>15. ~HubRestarts
  BY DEF HubRestarts
<1>16. ASSUME UNCHANGED vars
       PROVE  Bound(d, g, c)'
  BY <1>16, <1>s, <1>u DEF vars, linkVars, relayVars
<1> QED BY <1>1, <1>2, <1>3, <1>4, <1>5, <1>6, <1>7, <1>8, <1>9, <1>10, <1>11, <1>12, <1>13,
           <1>14, <1>15, <1>16 DEF Next

(* A virtual session on a leaf belongs to a user who is relayed there, or its    *)
(* end is on its way, as long as no relay is refused, no session closed in      *)
(* relay mode and no target cut off, whoever else relays, ends or loses the     *)
(* link of his bot (routeRelayFrame, cleanupLeafState, handleRelayFrame).      *)
THEOREM SessionsArePaired ==
    ASSUME OneHome, ~SelfRelay
    PROVE  Spec => []Paired
<1> DEFINE Smooth == EndsAtHome /\ EndsAbroad /\ CutOff /\ InTurn /\ Rightful
           IInv == Types /\ Sessions /\ Homed /\ RoutesLive /\ Kin /\ (~rough => Smooth)
<1>1. Init => IInv
  <2> SUFFICES ASSUME Init PROVE IInv
    OBVIOUS
  <2>1. Types
    BY TypesInit
  <2>2. Sessions /\ RoutesLive
    BY DEF Init, Sessions, RoutesLive
  <2>3. Range(<<>>) = {} /\ Len(<<>>) = 0 /\ 1..0 = {}
    BY EmptySeq, LenProperties DEF Range
  <2>4. \A l \in Leaf : toHub[l] = <<>> /\ toLeaf[l] = <<>> /\ virtual[l] = Fresh
    BY DEF Init, LinkInit, Bot, Fresh
  <2>5. Homed
    BY <2>3, <2>4 DEF Init, Homed
  <2>6. Kin
    BY <2>3, <2>4 DEF Init, Kin, Forwarded, Hosted, Outbound, Unread, Fresh
  <2>7. EndsAtHome /\ EndsAbroad /\ CutOff
    BY <2>3, <2>4 DEF EndsAtHome, EndsAbroad, CutOff
  <2>8. InTurn
    <3>1. \A h, S : Orderly(<<>>, h, S)
      BY <2>3 DEF Orderly
    <3> QED BY <2>4, <3>1 DEF InTurn
  <2>9. Rightful
    <3>1. \A h, b, l : b \in Bot => ~Claims(<<>>, None, h, b, l)
      BY ClaimsNone
    <3>2. \A l \in Leaf, h \in Handle : virtual[l][h] = None
      BY <2>4 DEF Fresh
    <3> QED BY <2>4, <3>1, <3>2 DEF Rightful
  <2> QED BY <2>1, <2>2, <2>5, <2>6, <2>7, <2>8, <2>9
<1>2. IInv /\ [Next]_vars => IInv'
  <2> SUFFICES ASSUME IInv, [Next]_vars PROVE IInv'
    OBVIOUS
  <2>1. Types' /\ Sessions' /\ Homed' /\ RoutesLive'
    BY TypesStep, SessionsStep, HomedStep, RoutesStep
  <2>2. Kin'
    BY ForwardedStep, HostedStep, OutboundStep, UnreadStep DEF Kin
  <2>3. ASSUME ~rough' PROVE Smooth'
    <3>1. Smooth
      BY <2>3, RoughStays
    <3>2. Outbound /\ Unread
      BY DEF Kin
    <3>3. EndsAtHome' /\ EndsAbroad' /\ CutOff'
      BY <2>3, <3>1, <3>2, EndsAtHomeStep, EndsAbroadStep, CutOffStep
    <3>4. InTurn' /\ Rightful'
      BY <2>3, <3>1, <3>2, InTurnStep, RightfulStep
    <3> QED BY <3>3, <3>4
  <2> QED BY <2>1, <2>2, <2>3
<1>3. IInv => Paired
  <2> SUFFICES ASSUME IInv, ~rough, NEW l \in Leaf, NEW h \in Handle, virtual[l][h] # None,
                      RelayEnd(h) \notin Range(toLeaf[l])
               PROVE  LET from == virtual[l][h] IN
                      \/ relaying[from][h] = l
                      \/ from \in Leaf /\ RelayEnd(h) \in Range(toHub[from])
                      \/ from \in Leaf /\ hubUp[from] /\ ~leafUp[from]
    BY DEF Paired
  <2>1. PICK from \in Bot : from = virtual[l][h]
    BY DEF Types, Bot
  <2>2. \A j \in 1..Len(toLeaf[l]) : toLeaf[l][j] # RelayEnd(h)
    BY LenProperties DEF Types, Range
  <2>3. Claims(toLeaf[l], virtual[l][h], h, from, l)
    BY <2>1, <2>2 DEF Claims
  <2>4. Bound(from, h, l)
    BY <2>3 DEF Rightful
  <2>5. CASE from = Hub
    BY <2>1, <2>4, <2>5 DEF Bound
  <2>6. CASE from \in Leaf
    <3>1. from # Hub
      BY <2>6
    <3>2. [origin |-> from, target |-> l] \in activeRelays[h]
      BY <2>4, <3>1 DEF Bound
    <3>3. hubUp[from]
      BY <3>2 DEF RoutesLive
    <3> QED BY <2>1, <2>4, <2>6, <3>1, <3>3 DEF Bound
  <2> QED BY <2>5, <2>6 DEF Bot
<1> QED BY <1>1, <1>2, <1>3, PTL DEF Spec

-----------------------------------------------------------------------------
(* The link                                                                *)

K == INSTANCE Links

(* Links come and go here as BotLink lets them, but for the HELLO of a          *)
(* connection given up (see Links): what is proved above does not rest on      *)
(* links that the connection layer could not make.                            *)
THEOREM LinksTaken == Spec => K!OrderlySpec
<1>1. Init => K!Init
  BY DEF Init, LinkInit, K!Init
<1>2. [Next]_vars => [K!Orderly]_K!sides
  <2> SUFFICES ASSUME [Next]_vars PROVE UNCHANGED K!sides \/ K!Orderly
    OBVIOUS
  <2>1. ASSUME NEW b \in Bot, NEW h \in Handle,
               \/ OpenSession(b, h) \/ CloseSession(b, h) \/ Type(b, h) \/ EndRelay(b, h)
               \/ \E to \in Bot : Relay(b, h, to)
        PROVE  UNCHANGED K!sides
    BY <2>1 DEF OpenSession, CloseSession, Type, EndRelay, Relay, linkVars, K!sides
  <2>2. ASSUME NEW l \in Leaf,
               \/ HubRequest(l) \/ HubInput(l) \/ HubEnd(l)
               \/ LeafRequest(l) \/ LeafInput(l) \/ LeafEnd(l)
        PROVE  UNCHANGED K!sides
    BY <2>2 DEF HubRequest, HubInput, HubEnd, LeafRequest, LeafInput, LeafEnd, K!sides
  <2>3. ASSUME NEW l \in Leaf, Connect(l) PROVE K!Up(l)
    BY <2>3 DEF Connect, LinkUp, K!Up
  <2>4. ASSUME NEW l \in Leaf, LeafDisconnects(l) \/ LeafRestarts(l) PROVE K!LeafLoses(l)
    BY <2>4 DEF LeafDisconnects, LeafRestarts, LeafLoses, K!LeafLoses
  <2>5. ASSUME NEW l \in Leaf, HubDisconnects(l) PROVE K!HubLoses(l)
    BY <2>5 DEF HubDisconnects, K!HubLoses
  <2>6. CASE HubRestarts
    BY <2>6 DEF HubRestarts, K!HubStops, K!Orderly
  <2>7. CASE UNCHANGED vars
    BY <2>7 DEF vars, linkVars, K!sides
  <2> QED BY <2>1, <2>2, <2>3, <2>4, <2>5, <2>6, <2>7 DEF Next, K!Orderly
<1> QED BY <1>1, <1>2, PTL DEF Spec, K!OrderlySpec
=============================================================================
