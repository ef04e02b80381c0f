------------------------- MODULE DccSessionsProofs --------------------------
(***************************************************************************)
(* Proofs about DccSessions and the verification it shares, for every set of  *)
(* nicks, requests and ports, every configuration and any number of lines in  *)
(* a tick.                                                                 *)
(***************************************************************************)
EXTENDS DccSessions, FiniteSetTheorems, SequenceTheorems, WellFoundedInduction, TLAPS

USE ServicesAssumption, DccAssumption

-----------------------------------------------------------------------------
(* Verification                                                            *)

Notices == [nick : Nick, method : Method, answer : {None, "unknown"} \cup Verdict]

(* What a step that settles requests may do to a promise.                   *)
Settles(r) ==
    \/ verdict'[r] = verdict[r]
    \/ verdict[r] = "asked" /\ verdict'[r] \in Verdict

LEMMA NativeMethod == Native \in Method /\ \A m \in Method : Other(m) \in Method
BY DEF Native, Other, Method

LEMMA QueryIsNotice ==
    ASSUME NEW n \in Nick, NEW m \in Method
    PROVE  Query(n, m) \in Notices
BY DEF Query, Notices

LEMMA GrantStep ==
    ASSUME ServicesTypeOK, TableAgrees, NEW r \in Request, verdict[r] = "unasked", Grant(r)
    PROVE  /\ ServicesTypeOK' /\ TableAgrees'
           /\ verdict'[r] = "yes"
           /\ \A s \in Request : s # r => verdict'[s] = verdict[s]
<1>1. verdict' = [s \in Request |-> IF s \in {r} THEN "yes" ELSE verdict[s]]
  BY DEF Grant, Settled
<1>2. verdict' \in [Request -> {"unasked", "asked"} \cup Verdict]
  BY <1>1 DEF ServicesTypeOK, Verdict
<1>3. verdict'[r] = "yes" /\ \A s \in Request : s # r => verdict'[s] = verdict[s]
  BY <1>1
<1>4. ServicesTypeOK'
  BY <1>2 DEF Grant, ServicesTypeOK
<1>5. TableAgrees'
  <2>1. Waiting' = Waiting /\ armed' = armed /\ pending' = pending
    BY DEF Grant, Waiting
  <2>2. \A s \in Request : verdict'[s] = "asked" <=> verdict[s] = "asked"
    BY <1>3
  <2>3. armed \subseteq Request
    BY DEF ServicesTypeOK
  <2> QED BY <2>1, <2>2, <2>3 DEF TableAgrees
<1> QED BY <1>3, <1>4, <1>5

LEMMA AskStep ==
    ASSUME ServicesTypeOK, TableAgrees, NEW r \in Request, verdict[r] = "unasked", Ask(r)
    PROVE  /\ ServicesTypeOK' /\ TableAgrees'
           /\ verdict'[r] = "asked"
           /\ \A s \in Request : s # r =>
                 verdict'[s] = IF s = pending[About[r]] THEN "no" ELSE verdict[s]
           /\ \A s \in Request : s = pending[About[r]] => verdict[s] = "asked"
<1> DEFINE n == About[r]
<1>n. n \in Nick /\ pending[n] \in Request \cup {None}
  BY DEF ServicesTypeOK
<1>1. /\ verdict' = [[s \in Request |-> IF s \in {pending[n]} \ {None} THEN "no" ELSE verdict[s]]
                        EXCEPT ![r] = "asked"]
      /\ pending' = [pending EXCEPT ![n] = r]
      /\ armed' = (armed \ ({pending[n]} \ {None})) \cup {r}
  BY DEF Ask, Settled, Superseded
<1> HIDE DEF n
<1>2. /\ verdict'[r] = "asked"
      /\ \A s \in Request : s # r => verdict'[s] = IF s = pending[n] THEN "no" ELSE verdict[s]
      /\ verdict' \in [Request -> {"unasked", "asked"} \cup Verdict]
  BY <1>1 DEF ServicesTypeOK, Verdict
<1>3. \A s \in Request : s = pending[n] => verdict[s] = "asked" /\ s # r
  BY <1>n DEF TableAgrees, Waiting
<1>4. /\ pending'[n] = r
      /\ \A m \in Nick : m # n => pending'[m] = pending[m]
      /\ pending' \in [Nick -> Request \cup {None}]
  BY <1>1, <1>n DEF ServicesTypeOK
<1>5. ServicesTypeOK'
  <2>1. method' \in [Nick -> Method]
    BY NativeMethod DEF Ask, ServicesTypeOK
  <2>2. wire' \in Seq(Notices)
    BY NativeMethod, QueryIsNotice, AppendProperties DEF Ask, ServicesTypeOK, Notices
  <2>3. armed' \subseteq Request
    BY <1>1 DEF ServicesTypeOK
  <2> QED BY <1>2, <1>4, <2>1, <2>2, <2>3 DEF Ask, ServicesTypeOK, Notices
<1>6. TableAgrees'
  <2>1. \A s \in Request : verdict'[s] = "asked" => pending'[About[s]] = s
    <3> SUFFICES ASSUME NEW s \in Request, verdict'[s] = "asked" PROVE pending'[About[s]] = s
      OBVIOUS
    <3>1. CASE s = r
      BY <3>1, <1>4 DEF n
    <3>2. CASE s # r
      <4>1. verdict[s] = "asked" /\ s # pending[n]
        BY <3>2, <1>2
      <4>2. pending[About[s]] = s /\ About[s] # n /\ About[s] \in Nick
        BY <4>1 DEF TableAgrees
      <4> QED BY <4>2, <1>4
    <3> QED BY <3>1, <3>2
  <2>2. \A m \in Nick : pending'[m] # None => About[pending'[m]] = m
    BY <1>4 DEF TableAgrees, n
  <2>3. armed' = Waiting'
    <3>1. \A s : s \in armed <=> s # None /\ \E m \in Nick : s = pending[m]
      BY DEF TableAgrees, Waiting
    <3>2. \A s : s \in Waiting' <=> s # None /\ \E m \in Nick : s = pending'[m]
      BY DEF Waiting
    <3>3. \A s \in armed : s # pending[n] => s \in Waiting'
      BY <3>1, <3>2, <1>4
    <3>4. r \in Waiting'
      BY <3>2, <1>4, <1>n
    <3>5. \A s \in Waiting' : s = r \/ (s \in armed /\ s # pending[n])
      <4> SUFFICES ASSUME NEW m \in Nick, pending'[m] # None, pending'[m] # r
                   PROVE  pending'[m] \in armed /\ pending'[m] # pending[n]
        BY <3>2
      <4>1. m # n /\ pending'[m] = pending[m]
        BY <1>4
      <4>2. About[pending[m]] = m
        BY <4>1 DEF TableAgrees
      <4> QED BY <4>1, <4>2, <3>1, <1>n DEF TableAgrees
    <3>6. None \notin armed
      BY <3>1
    <3> QED BY <3>3, <3>4, <3>5, <3>6, <1>1
  <2>4. \A s \in armed' : verdict'[s] = "asked"
    <3>1. \A s \in armed : s # pending[n] => verdict'[s] = "asked"
      BY <1>2 DEF TableAgrees, ServicesTypeOK
    <3>2. \A s \in armed : s # None
      BY DEF TableAgrees, Waiting
    <3> QED BY <3>1, <3>2, <1>1, <1>2
  <2> QED BY <2>1, <2>2, <2>3, <2>4 DEF TableAgrees
<1> QED BY <1>2, <1>3, <1>5, <1>6 DEF n

(* A step that takes the entry of one nick away and settles its request.     *)
LEMMA EntryGone ==
    ASSUME ServicesTypeOK, TableAgrees, NEW n \in Nick, NEW v \in Verdict,
           pending' = [pending EXCEPT ![n] = None],
           armed' = armed \ {pending[n]},
           verdict' = [s \in Request |-> IF s = pending[n] THEN v ELSE verdict[s]]
    PROVE  /\ pending' \in [Nick -> Request \cup {None}]
           /\ armed' \subseteq Request
           /\ verdict' \in [Request -> {"unasked", "asked"} \cup Verdict]
           /\ TableAgrees'
           /\ \A s \in Request : Settles(s)
<1>1. /\ pending' \in [Nick -> Request \cup {None}]
      /\ armed' \subseteq Request
      /\ verdict' \in [Request -> {"unasked", "asked"} \cup Verdict]
  BY DEF ServicesTypeOK
<1>2. /\ pending'[n] = None
      /\ \A m \in Nick : m # n => pending'[m] = pending[m]
  BY DEF ServicesTypeOK
<1>3. \A s \in Request : s = pending[n] => verdict[s] = "asked" /\ verdict'[s] = v
  BY DEF TableAgrees, Waiting
<1>4. \A s \in Request : s # pending[n] => verdict'[s] = verdict[s]
  OBVIOUS
<1>5. \A s \in Request : Settles(s)
  BY <1>3, <1>4 DEF Settles
<1>6. \A s \in Request : verdict'[s] = "asked" => s # pending[n] /\ verdict[s] = "asked"
  BY <1>3, <1>4 DEF Verdict
<1>7. \A s \in Request : verdict'[s] = "asked" => pending'[About[s]] = s
  <2> SUFFICES ASSUME NEW s \in Request, verdict'[s] = "asked" PROVE pending'[About[s]] = s
    OBVIOUS
  <2>1. s # pending[n] /\ pending[About[s]] = s /\ About[s] \in Nick
    BY <1>6 DEF TableAgrees
  <2> QED BY <2>1, <1>2
<1>8. \A m \in Nick : pending'[m] # None => About[pending'[m]] = m
  BY <1>2 DEF TableAgrees
<1>9. armed' = Waiting'
  <2>1. \A s : s \in armed <=> s # None /\ \E m \in Nick : s = pending[m]
    BY DEF TableAgrees, Waiting
  <2>2. \A s : s \in Waiting' <=> s # None /\ \E m \in Nick : s = pending'[m]
    BY DEF Waiting
  <2>3. \A s \in armed : s # pending[n] => s \in Waiting'
    BY <2>1, <2>2, <1>2
  <2>4. \A s \in Waiting' : s \in armed /\ s # pending[n]
    <3> SUFFICES ASSUME NEW m \in Nick, pending'[m] # None
                 PROVE  pending'[m] \in armed /\ pending'[m] # pending[n]
      BY <2>2
    <3>1. m # n /\ pending'[m] = pending[m]
      BY <1>2
    <3>2. About[pending[m]] = m /\ (pending[n] # None => About[pending[n]] = n)
      BY <3>1 DEF TableAgrees
    <3> QED BY <3>1, <3>2, <2>1
  <2> QED BY <2>3, <2>4
<1>10. \A s \in armed' : verdict'[s] = "asked"
  <2>1. \A s \in armed' : s \in Request /\ s # pending[n] /\ verdict[s] = "asked"
    BY DEF TableAgrees, ServicesTypeOK
  <2> QED BY <2>1, <1>4
<1> QED BY <1>1, <1>5, <1>7, <1>8, <1>9, <1>10 DEF TableAgrees

LEMMA TimeoutStep ==
    ASSUME ServicesTypeOK, TableAgrees, NEW r \in Request, Timeout(r)
    PROVE  /\ ServicesTypeOK' /\ TableAgrees'
           /\ \A s \in Request : Settles(s)
<1>1. About[r] \in Nick /\ r \in armed /\ verdict[r] = "asked" /\ pending[About[r]] = r
  BY DEF Timeout, TableAgrees
<1>2. {r} \cap {s \in Request : verdict[s] = "asked"} = {r}
  BY <1>1
<1>3. verdict' = [s \in Request |-> IF s = pending[About[r]] THEN "no" ELSE verdict[s]]
  BY <1>1, <1>2 DEF Timeout, Settled
<1>4. pending' = [pending EXCEPT ![About[r]] = None] /\ armed' = armed \ {pending[About[r]]}
  BY <1>1 DEF Timeout
<1>5. "no" \in Verdict
  BY DEF Verdict
<1>6. /\ pending' \in [Nick -> Request \cup {None}]
      /\ armed' \subseteq Request
      /\ verdict' \in [Request -> {"unasked", "asked"} \cup Verdict]
      /\ TableAgrees'
      /\ \A s \in Request : Settles(s)
  BY <1>1, <1>3, <1>4, <1>5, EntryGone
<1> QED BY <1>6 DEF Timeout, ServicesTypeOK

LEMMA NoticeStep ==
    ASSUME ServicesTypeOK, TableAgrees, OnNotice
    PROVE  /\ ServicesTypeOK' /\ TableAgrees'
           /\ \A s \in Request : Settles(s)
<1> DEFINE notice == Head(wire)
<1>1. notice \in Notices /\ Tail(wire) \in Seq(Notices)
  BY HeadTailProperties DEF OnNotice, ServicesTypeOK, Notices
<1>2. notice.nick \in Nick /\ notice.method \in Method
  BY <1>1 DEF Notices
<1>3. CASE IsAnswer(notice)
  <2>1. ResolveVerification(notice)
    BY <1>3 DEF OnNotice
  <2> HIDE DEF notice
  <2>2. /\ verdict' = [s \in Request |-> IF s = pending[notice.nick] THEN notice.answer ELSE verdict[s]]
        /\ notice.answer \in Verdict
        /\ pending' = [pending EXCEPT ![notice.nick] = None]
        /\ armed' = armed \ {pending[notice.nick]}
    BY <2>1, <1>3 DEF ResolveVerification, Settled, IsAnswer
  <2>3. /\ pending' \in [Nick -> Request \cup {None}]
        /\ armed' \subseteq Request
        /\ verdict' \in [Request -> {"unasked", "asked"} \cup Verdict]
        /\ TableAgrees'
        /\ \A s \in Request : Settles(s)
    BY <2>2, <1>2, EntryGone
  <2>4. wire' \in Seq(Notices) /\ method' = method /\ attached' = attached
    BY <2>1, <1>1 DEF ResolveVerification, OnNotice, notice
  <2> QED BY <2>3, <2>4 DEF ServicesTypeOK, Notices
<1>4. CASE ~IsAnswer(notice)
  <2>1. TryOther(notice) /\ attached' = attached
    BY <1>4 DEF OnNotice
  <2> HIDE DEF notice
  <2>2. pending' = pending /\ armed' = armed /\ verdict' = verdict
    BY <2>1 DEF TryOther
  <2>3. method' \in [Nick -> Method]
    BY <2>1, NativeMethod DEF TryOther, ServicesTypeOK, PutSo
  <2>4. wire' \in Seq(Notices)
    <3>1. CASE wire' = Tail(wire)
      BY <3>1, <1>1
    <3>2. CASE \E n \in Nick : wire' = Append(Tail(wire), Query(n, Other(notice.method)))
      BY <3>2, <1>1, <1>2, NativeMethod, QueryIsNotice, AppendProperties
    <3> QED BY <2>1, <3>1, <3>2 DEF TryOther, PutSo
  <2>5. TableAgrees'
    BY <2>2 DEF TableAgrees, Waiting
  <2> QED BY <2>1, <2>2, <2>3, <2>4, <2>5 DEF ServicesTypeOK, Notices, Settles
<1> QED BY <1>3, <1>4

LEMMA DetachStep ==
    ASSUME ServicesTypeOK, TableAgrees, Detach
    PROVE  /\ ServicesTypeOK' /\ TableAgrees'
           /\ \A s \in Request : Settles(s)
           /\ \A s \in Request : verdict'[s] = IF verdict[s] = "asked" THEN "no" ELSE verdict[s]
<1>1. \A s \in Request : s \in Waiting <=> verdict[s] = "asked"
  BY DEF TableAgrees, Waiting
<1>2. \A s \in Request : verdict'[s] = IF verdict[s] = "asked" THEN "no" ELSE verdict[s]
  BY <1>1 DEF Detach, Settled
<1>3. verdict' \in [Request -> {"unasked", "asked"} \cup Verdict]
  BY DEF Detach, Settled, ServicesTypeOK, Verdict
<1>4. pending' = [n \in Nick |-> None] /\ armed' = {}
  BY DEF Detach, TableAgrees
<1>5. ServicesTypeOK'
  <2>1. wire' \in Seq(Notices)
    BY EmptySeq DEF Detach
  <2> QED BY <1>3, <1>4, <2>1 DEF Detach, ServicesTypeOK, Notices
<1>6. TableAgrees'
  BY <1>2, <1>4 DEF TableAgrees, Waiting
<1> QED BY <1>2, <1>5, <1>6 DEF Settles, Verdict

LEMMA OutsideStep ==
    ASSUME ServicesTypeOK, TableAgrees, Outside
    PROVE  ServicesTypeOK' /\ TableAgrees' /\ verdict' = verdict
<1>1. CASE NickServAnswers
  <2>1. PICK i \in 1..Len(wire), a \in Verdict \cup {"unknown"} : wire' = [wire EXCEPT ![i].answer = a]
    BY <1>1 DEF NickServAnswers, Replies
  <2>2. wire' \in Seq(Notices)
    <3>w. wire \in Seq(Notices)
      BY DEF ServicesTypeOK, Notices
    <3>1. wire[i] \in Notices
      BY <3>w, ElementOfSeq
    <3>2. [wire[i] EXCEPT !.answer = a] \in Notices
      BY <3>1 DEF Notices
    <3> QED BY <2>1, <3>w, <3>2, ExceptSeq
  <2>3. UNCHANGED <<pending, method, armed, verdict, attached>>
    BY <1>1 DEF NickServAnswers
  <2> QED BY <2>2, <2>3 DEF ServicesTypeOK, TableAgrees, Waiting, Notices
<1>2. CASE ConnectionLost
  BY <1>2 DEF ConnectionLost, ServicesTypeOK, TableAgrees, Waiting
<1> QED BY <1>1, <1>2 DEF Outside

-----------------------------------------------------------------------------
(* Types, and who has been asked                                           *)

Phase == {"new", "verifying", "binding", "listening", "open", "over"}

DccTypeOK ==
    /\ phase \in [Dcc -> Phase]
    /\ portOf \in [Dcc -> Port \cup {0}]
    /\ offers \in [Port -> Dcc \cup {None}]
    /\ used \subseteq Port /\ timed \subseteq Dcc /\ failed \in BOOLEAN
    /\ sessions \in [Nick -> Dcc \cup {None}]
    /\ sockets \subseteq Dcc /\ idle \subseteq Dcc
    /\ party \in Int
LoopTypeOK == batch \in 0..LinesPerTick /\ crossed \in BOOLEAN

(* A request that has not come has asked nothing, and no DCC request waits     *)
(* where nobody needs to be asked.                                          *)
Fresh == \A r \in Dcc : phase[r] = "new" => verdict[r] = "unasked"
NoneAsked ==
    ~NickservVerify \/ ServicesType = "none" => \A r \in Dcc : verdict[r] # "asked"

LEMMA LoopStep ==
    ASSUME LoopTypeOK, Line \/ Event \/ Microtask
    PROVE  LoopTypeOK' /\ (crossed => crossed')
<1>1. LinesPerTick \in Nat /\ LinesPerTick > 0 /\ batch \in Nat
  BY DEF LoopTypeOK
<1>2. CASE Line
  BY <1>1, <1>2 DEF Line, Rest, LoopTypeOK
<1>3. CASE Event \/ Microtask
  BY <1>1, <1>3 DEF Event, Microtask, Rest, LoopTypeOK
<1> QED BY <1>2, <1>3

LEMMA ServicesKept ==
    ASSUME UNCHANGED serviceVars, ServicesTypeOK, TableAgrees
    PROVE  ServicesTypeOK' /\ TableAgrees' /\ verdict' = verdict
BY DEF serviceVars, ServicesTypeOK, TableAgrees, Waiting

(* The entry of an offer is that of a server at its port.                    *)
OffersServe ==
    \A p \in Port : offers[p] # None => portOf[offers[p]] = p /\ offers[p] \in Serving

Asking == ServicesTypeOK /\ TableAgrees /\ Fresh /\ NoneAsked

(* A step that settles requests and lets none begin.                         *)
LEMMA AskingSettles ==
    ASSUME ServicesTypeOK, TableAgrees, Fresh, NoneAsked, DccTypeOK,
           \A r \in Dcc : phase'[r] = "new" => phase[r] = "new",
           \A r \in Dcc : Settles(r)
    PROVE  Fresh' /\ NoneAsked'
<1>1. \A r \in Dcc : verdict[r] = "unasked" => verdict'[r] = "unasked"
  BY DEF Settles
<1>2. \A r \in Dcc : verdict'[r] = "asked" => verdict[r] = "asked"
  BY DEF Settles, Verdict
<1> QED BY <1>1, <1>2 DEF Fresh, NoneAsked

LEMMA AskingStep ==
    ASSUME TypeOK, Asking, [Next]_vars
    PROVE  Asking'
<1> USE DEF Asking
<1>t. DccTypeOK
  BY DEF TypeOK, DccTypeOK, Phase
<1>k. ASSUME UNCHANGED serviceVars, \A r \in Dcc : phase'[r] = "new" => phase[r] = "new"
      PROVE  Asking'
  BY <1>k, <1>t, ServicesKept, AskingSettles DEF Settles
<1>1. ASSUME NEW r \in Dcc, OnDccCtcp(r) PROVE Asking'
  <2>1. CASE UNCHANGED serviceVars /\ phase' = [phase EXCEPT ![r] = "over"]
    BY <2>1, <1>k, <1>t DEF DccTypeOK
  <2>2. CASE /\ phase[r] = "new" /\ phase' = [phase EXCEPT ![r] = "verifying"]
             /\ IF NickservVerify THEN VerifyUser(r) ELSE Grant(r)
    <3>1. verdict[r] = "unasked" /\ r \in Request
      BY <2>2 DEF Fresh
    <3>2. \A s \in Dcc : phase'[s] = "new" => s # r /\ phase[s] = "new"
      BY <2>2, <1>t DEF DccTypeOK
    <3>3. CASE Grant(r)
      <4>1. /\ ServicesTypeOK' /\ TableAgrees'
            /\ verdict'[r] = "yes"
            /\ \A s \in Request : s # r => verdict'[s] = verdict[s]
        BY <3>1, <3>3, GrantStep
      <4> QED BY <4>1, <3>2 DEF Fresh, NoneAsked
    <3>4. CASE Ask(r) /\ NickservVerify /\ ServicesType # "none"
      <4>1. /\ ServicesTypeOK' /\ TableAgrees'
            /\ \A s \in Request : s # r =>
                   verdict'[s] = IF s = pending[About[r]] THEN "no" ELSE verdict[s]
            /\ \A s \in Request : s = pending[About[r]] => verdict[s] = "asked"
        BY <3>1, <3>4, AskStep
      <4>2. Fresh'
        BY <4>1, <3>2 DEF Fresh
      <4> QED BY <4>1, <4>2, <3>4 DEF NoneAsked
    <3> QED BY <2>2, <3>3, <3>4 DEF VerifyUser
  <2> QED BY <1>1, <2>1, <2>2 DEF OnDccCtcp
<1>2. ASSUME NEW r \in Request \ Dcc, OthersAsk(r) PROVE Asking'
  <2>1. phase' = phase /\ verdict[r] = "unasked"
    BY <1>2 DEF OthersAsk, VerifyUser
  <2>2. CASE Grant(r)
    <3>1. /\ ServicesTypeOK' /\ TableAgrees'
          /\ \A s \in Request : s # r => verdict'[s] = verdict[s]
      BY <2>1, <2>2, GrantStep
    <3> QED BY <3>1, <2>1 DEF Fresh, NoneAsked
  <2>3. CASE Ask(r) /\ ServicesType # "none"
    <3>1. /\ ServicesTypeOK' /\ TableAgrees'
          /\ \A s \in Request : s # r =>
                 verdict'[s] = IF s = pending[About[r]] THEN "no" ELSE verdict[s]
          /\ \A s \in Request : s = pending[About[r]] => verdict[s] = "asked"
      BY <2>1, <2>3, AskStep
    <3>2. \A s \in Dcc : Settles(s)
      BY <3>1 DEF Settles, Verdict
    <3> QED BY <3>1, <3>2, <2>1, <1>t, AskingSettles
  <2> QED BY <1>2, <2>2, <2>3 DEF OthersAsk, VerifyUser
<1>3. ASSUME NEW r \in Dcc, Accept(r) \/ Listen(r) \/ OfferTimeout(r) PROVE Asking'
  <2>1. UNCHANGED serviceVars
    BY <1>3 DEF Accept, Listen, OfferTimeout
  <2>2. \A s \in Dcc : phase'[s] = "new" => phase[s] = "new"
    BY <1>3, <1>t DEF Accept, Listen, OfferTimeout, DccTypeOK
  <2> QED BY <2>1, <2>2, <1>k
<1>4. ASSUME NEW r \in Dcc, Connect(r) \/ Quit(r) \/ IdleTimeout(r) \/ SocketEnds(r)
      PROVE  Asking'
  <2>1. UNCHANGED serviceVars
    BY <1>4 DEF Connect, Quit, IdleTimeout, SocketEnds
  <2>2. \A s \in Dcc : phase'[s] = "new" => phase[s] = "new"
    BY <1>4, <1>t DEF Connect, Quit, IdleTimeout, SocketEnds, Close, DccTypeOK
  <2> QED BY <2>1, <2>2, <1>k
<1>5. CASE Notice
  BY <1>5, <1>t, NoticeStep, AskingSettles DEF Notice
<1>6. ASSUME NEW r \in Request, VerifyTimeout(r) PROVE Asking'
  BY <1>6, <1>t, TimeoutStep, AskingSettles DEF VerifyTimeout
<1>7. CASE Shutdown
  <2>1. \A s \in Dcc : phase'[s] = "new" => phase[s] = "new"
    BY <1>7 DEF Shutdown
  <2> QED BY <1>7, <2>1, <1>t, DetachStep, AskingSettles DEF Shutdown
<1>8. CASE Outside /\ UNCHANGED dccVars
  BY <1>8, <1>t, OutsideStep, AskingSettles DEF dccVars, Settles
<1>9. CASE UNCHANGED vars
  BY <1>9, <1>k DEF vars, dccVars
<1> QED BY <1>1, <1>2, <1>3, <1>4, <1>5, <1>6, <1>7, <1>8, <1>9 DEF Next

-----------------------------------------------------------------------------
(* The allocator                                                           *)

LEMMA LowestIn ==
    ASSUME NEW S, S \subseteq Port, S # {}
    PROVE  Lowest(S) \in S
<1>1. PICK m \in S : \A k \in S : ~ (<<k, m>> \in OpToRel(<, Nat))
  <2>1. S \subseteq Nat
    OBVIOUS
  <2> QED BY <2>1, WFMin, NatLessThanWellFounded, Zenon
<1>2. \A k \in S : k < m => <<k, m>> \in OpToRel(<, Nat)
  BY Zenon DEF OpToRel
<1>3. \A k \in S : ~ (k < m)
  BY <1>1, <1>2, Zenon
<1>4. \A k \in S : m <= k
  BY <1>3
<1> QED BY <1>4 DEF Lowest

-----------------------------------------------------------------------------
(* Types                                                                   *)

LEMMA TypeStep ==
    ASSUME TypeOK, Asking, [Next]_vars
    PROVE  TypeOK'
<1>t. DccTypeOK /\ LoopTypeOK
  BY DEF TypeOK, DccTypeOK, LoopTypeOK, Phase
<1>s. ServicesTypeOK'
  BY AskingStep DEF Asking
<1>a. DccTypeOK' /\ LoopTypeOK' => TypeOK'
  BY <1>s DEF TypeOK, DccTypeOK, LoopTypeOK, Phase
<1>b. \A r \in Dcc : About[r] \in Nick
  OBVIOUS
<1> USE DEF DccTypeOK, Phase
<1>1. ASSUME NEW r \in Dcc, OnDccCtcp(r) PROVE TypeOK'
  <2>1. phase' \in [Dcc -> Phase]
    BY <1>1, <1>t DEF OnDccCtcp
  <2> QED BY <1>1, <1>t, <1>a, <2>1, LoopStep DEF OnDccCtcp, offerVars, sessionVars
<1>2. ASSUME NEW r \in Request \ Dcc, OthersAsk(r) PROVE TypeOK'
  BY <1>2, <1>t, <1>a, LoopStep DEF OthersAsk, offerVars, sessionVars
<1>3. ASSUME NEW r \in Dcc, Accept(r) PROVE TypeOK'
  <2>1. DccTypeOK'
    <3>1. CASE phase' = [phase EXCEPT ![r] = "over"] /\ UNCHANGED <<portOf, offers, used, timed>>
      BY <1>3, <1>t, <3>1 DEF Accept, sessionVars
    <3>2. CASE ~ Port \subseteq used /\ ~ UNCHANGED offers
      <4> DEFINE p == Lowest(Port \ used)
      <4>1. p \in Port
        BY <3>2, LowestIn
      <4>2. /\ phase' = [phase EXCEPT ![r] = "binding"]
            /\ portOf' = [portOf EXCEPT ![r] = p]
            /\ offers' = [offers EXCEPT ![p] = r]
            /\ used' = used \cup {p}
            /\ timed' = timed \cup {r}
        BY <1>3, <3>2 DEF Accept, StartTimer
      <4> HIDE DEF p
      <4> QED BY <1>3, <1>t, <4>1, <4>2 DEF Accept, sessionVars
    <3>3. CASE ~ Port \subseteq used /\ phase' = [phase EXCEPT ![r] = "binding"]
      <4> DEFINE p == Lowest(Port \ used)
      <4>1. p \in Port
        BY <3>3, LowestIn
      <4>2. phase'[r] = "binding"
        BY <3>3, <1>t
      <4>3. /\ portOf' = [portOf EXCEPT ![r] = p]
            /\ offers' = [offers EXCEPT ![p] = r]
            /\ used' = used \cup {p}
            /\ timed' = timed \cup {r}
        BY <1>3, <1>t, <4>2 DEF Accept, StartTimer
      <4> HIDE DEF p
      <4> QED BY <1>3, <1>t, <3>3, <4>1, <4>3 DEF Accept, sessionVars
    <3> QED BY <1>3, <3>1, <3>3 DEF Accept
  <2> QED BY <1>3, <1>t, <1>a, <2>1, LoopStep DEF Accept
<1>4. ASSUME NEW r \in Dcc, Listen(r) PROVE TypeOK'
  <2>1. phase' \in [Dcc -> Phase]
    BY <1>4, <1>t DEF Listen
  <2>2. /\ offers' \in [Port -> Dcc \cup {None}]
        /\ used' \subseteq Port /\ failed' \in BOOLEAN
    BY <1>4, <1>t DEF Listen, Forget, Release
  <2> QED BY <1>4, <1>t, <1>a, <2>1, <2>2 DEF Listen, sessionVars, loopVars, LoopTypeOK
<1>5. ASSUME NEW r \in Dcc, OfferTimeout(r) PROVE TypeOK'
  <2>1. phase' \in [Dcc -> Phase]
    BY <1>5, <1>t DEF OfferTimeout
  <2>2. /\ offers' \in [Port -> Dcc \cup {None}]
        /\ used' \subseteq Port /\ timed' \subseteq Dcc
    BY <1>5, <1>t DEF OfferTimeout, Forget, Release
  <2> QED BY <1>5, <1>t, <1>a, <2>1, <2>2, LoopStep DEF OfferTimeout, sessionVars
<1>6. ASSUME NEW r \in Dcc, Connect(r) PROVE TypeOK'
  <2>1. phase' \in [Dcc -> Phase] /\ sessions' \in [Nick -> Dcc \cup {None}]
    BY <1>6, <1>t DEF Connect
  <2>2. /\ offers' \in [Port -> Dcc \cup {None}]
        /\ used' \subseteq Port /\ timed' \subseteq Dcc
    BY <1>6, <1>t DEF Connect, Forget, Release
  <2> QED BY <1>6, <1>t, <1>a, <2>1, <2>2, LoopStep DEF Connect
<1>c. ASSUME NEW r \in Dcc, Close(r)
      PROVE  /\ phase' \in [Dcc -> Phase]
             /\ sessions' \in [Nick -> Dcc \cup {None}]
             /\ party' \in Int
  BY <1>c, <1>t DEF Close, RemoveSession
<1>7. ASSUME NEW r \in Dcc, Quit(r) \/ IdleTimeout(r) PROVE TypeOK'
  <2>1. Close(r) /\ Event /\ UNCHANGED <<offerVars, sockets>>
    BY <1>7 DEF Quit, IdleTimeout
  <2>2. idle' \subseteq Dcc
    BY <1>7, <1>t DEF Quit, IdleTimeout
  <2> QED BY <2>1, <2>2, <1>t, <1>a, <1>c, LoopStep DEF offerVars
<1>8. ASSUME NEW r \in Dcc, SocketEnds(r) PROVE TypeOK'
  <2>1. Close(r) /\ Event /\ UNCHANGED offerVars
    BY <1>8 DEF SocketEnds
  <2>2. idle' \subseteq Dcc /\ sockets' \subseteq Dcc
    BY <1>8, <1>t DEF SocketEnds
  <2> QED BY <2>1, <2>2, <1>t, <1>a, <1>c, LoopStep DEF offerVars
<1>9. CASE Notice
  BY <1>9, <1>t, <1>a, LoopStep DEF Notice, offerVars, sessionVars
<1>10. ASSUME NEW r \in Request, VerifyTimeout(r) PROVE TypeOK'
  BY <1>10, <1>t, <1>a, LoopStep DEF VerifyTimeout, offerVars, sessionVars
<1>11. CASE Shutdown
  <2>1. Registered \subseteq Dcc
    BY <1>t DEF Registered
  <2>2. IsFiniteSet(Registered) /\ Cardinality(Registered) \in Nat
    BY <2>1, FS_Subset, FS_CardinalityType
  <2>3. party' \in Int
    BY <1>11, <1>t, <2>2 DEF Shutdown
  <2>4. phase' \in [Dcc -> Phase]
    BY <1>11, <1>t DEF Shutdown
  <2>5. /\ offers' \in [Port -> Dcc \cup {None}]
        /\ sessions' \in [Nick -> Dcc \cup {None}]
        /\ used' \subseteq Port /\ timed' \subseteq Dcc /\ idle' \subseteq Dcc
    BY <1>11, <1>t DEF Shutdown
  <2> QED BY <1>11, <1>t, <1>a, <2>3, <2>4, <2>5, LoopStep DEF Shutdown
<1>12. CASE (Outside /\ UNCHANGED dccVars) \/ UNCHANGED vars
  BY <1>12, <1>t, <1>a DEF dccVars, vars, offerVars, sessionVars, loopVars, LoopTypeOK
<1> QED BY <1>1, <1>2, <1>3, <1>4, <1>5, <1>6, <1>7, <1>8, <1>9, <1>10, <1>11, <1>12 DEF Next

-----------------------------------------------------------------------------
(* Sessions                                                                *)

(* What a step does to the sessions: it opens one, closes some, or neither.   *)
Untouched ==
    /\ UNCHANGED <<sessions, party>>
    /\ \A r \in Dcc : phase'[r] = "open" <=> phase[r] = "open"

LEMMA SessionStep ==
    ASSUME TypeOK, [Next]_vars
    PROVE  \/ Untouched
           \/ \E r \in Dcc : Connect(r)
           \/ \E r \in Dcc : Closing(r) /\ Close(r)
           \/ Shutdown
<1>t. DccTypeOK
  BY DEF TypeOK, DccTypeOK, Phase
<1> USE DEF DccTypeOK
<1>1. ASSUME NEW r \in Dcc, OnDccCtcp(r) \/ Accept(r) \/ Listen(r) PROVE Untouched
  <2>1. UNCHANGED <<sessions, party>>
    BY <1>1 DEF OnDccCtcp, Accept, Listen, sessionVars
  <2>2. \A s \in Dcc : phase'[s] = "open" <=> phase[s] = "open"
    BY <1>1, <1>t DEF OnDccCtcp, Accept, Listen, Ready, In
  <2> QED BY <2>1, <2>2 DEF Untouched
<1>2. ASSUME NEW r \in Dcc, OfferTimeout(r) PROVE Untouched
  BY <1>2, <1>t DEF OfferTimeout, sessionVars, Untouched
<1>3. ASSUME NEW r \in Dcc, Quit(r) \/ IdleTimeout(r) \/ SocketEnds(r)
      PROVE  Close(r)
  BY <1>3 DEF Quit, IdleTimeout, SocketEnds
<1>4. ASSUME NEW r \in Dcc, Close(r), ~Closing(r) PROVE Untouched
  BY <1>4 DEF Close, Untouched
<1>5. ASSUME NEW r \in Request, OthersAsk(r) \/ VerifyTimeout(r) PROVE Untouched
  BY <1>5 DEF OthersAsk, VerifyTimeout, sessionVars, Untouched
<1>6. CASE Notice
  BY <1>6 DEF Notice, sessionVars, Untouched
<1>7. CASE (Outside /\ UNCHANGED dccVars) \/ UNCHANGED vars
  BY <1>7 DEF vars, dccVars, sessionVars, Untouched
<1> QED BY <1>1, <1>2, <1>3, <1>4, <1>5, <1>6, <1>7 DEF Next

LEMMA RegisteredStep ==
    ASSUME TypeOK, RegisteredOpen, [Next]_vars
    PROVE  RegisteredOpen'
<1>t. /\ phase \in [Dcc -> Phase] /\ sessions \in [Nick -> Dcc \cup {None}]
      /\ None \notin Dcc
  BY DEF TypeOK, Phase
<1>1. CASE Untouched
  BY <1>1, <1>t DEF Untouched, RegisteredOpen
<1>2. ASSUME NEW r \in Dcc, Connect(r) PROVE RegisteredOpen'
  <2>1. /\ phase' = [phase EXCEPT ![r] = "open"]
        /\ sessions' = [sessions EXCEPT ![About[r]] = r]
    BY <1>2 DEF Connect
  <2> QED BY <2>1, <1>t DEF RegisteredOpen
<1>3. ASSUME NEW r \in Dcc, Closing(r), Close(r) PROVE RegisteredOpen'
  <2>1. /\ phase' = [phase EXCEPT ![r] = "over"]
        /\ sessions' = [sessions EXCEPT ![About[r]] = None]
    BY <1>3 DEF Close, RemoveSession
  <2> QED BY <2>1, <1>t DEF RegisteredOpen
<1>4. CASE Shutdown
  BY <1>4 DEF Shutdown, RegisteredOpen
<1> QED BY <1>1, <1>2, <1>3, <1>4, SessionStep

LEMMA PartyStep ==
    ASSUME TypeOK, RegisteredOpen, PartyCounts, OffersServe, [Next]_vars
    PROVE  PartyCounts'
<1>t. /\ phase \in [Dcc -> Phase] /\ sessions \in [Nick -> Dcc \cup {None}]
      /\ offers \in [Port -> Dcc \cup {None}] /\ None \notin Dcc
  BY DEF TypeOK, Phase
<1> DEFINE Open == In("open")
<1>f. IsFiniteSet(Open) /\ Cardinality(Open) \in Nat /\ party = Cardinality(Open)
  <2>1. Open \subseteq Dcc
    BY DEF In
  <2> QED BY <2>1, FS_Subset, FS_CardinalityType DEF PartyCounts
<1>o. \A r : r \in Open' <=> r \in Dcc /\ phase'[r] = "open"
  BY DEF In
<1>p. \A r : r \in Open <=> r \in Dcc /\ phase[r] = "open"
  BY DEF In
<1>q. PartyCounts' <=> party' = Cardinality(Open')
  BY DEF PartyCounts
<1> HIDE DEF Open
<1>1. CASE Untouched
  <2>1. Open' = Open
    BY <1>1, <1>o, <1>p DEF Untouched
  <2> QED BY <2>1, <1>1, <1>q, <1>f DEF Untouched
<1>2. ASSUME NEW r \in Dcc, Connect(r) PROVE PartyCounts'
  <2>1. phase[r] = "listening" /\ phase' = [phase EXCEPT ![r] = "open"] /\ party' = party + 1
    BY <1>2 DEF Connect
  <2>2. r \notin Open /\ Open' = Open \cup {r}
    BY <2>1, <1>t, <1>o, <1>p
  <2> QED BY <2>1, <2>2, <1>f, <1>q, FS_AddElement
<1>3. ASSUME NEW r \in Dcc, Closing(r), Close(r) PROVE PartyCounts'
  <2>1. phase[r] = "open" /\ phase' = [phase EXCEPT ![r] = "over"] /\ party' = party - 1
    BY <1>3 DEF Close, Closing
  <2>2. r \in Open /\ Open' = Open \ {r}
    BY <2>1, <1>t, <1>o, <1>p
  <2> QED BY <2>1, <2>2, <1>f, <1>q, FS_RemoveElement
<1>4. CASE Shutdown
  <2>1. /\ phase' = [r \in Dcc |-> IF r \in Registered \cup Offered THEN "over" ELSE phase[r]]
        /\ party' = party - Cardinality(Registered)
    BY <1>4 DEF Shutdown
  <2>2. Registered \subseteq Open
    BY <1>t, <1>p DEF Registered, RegisteredOpen
  <2>3. \A r \in Open : r \notin Offered
    BY <1>t, <1>p DEF Offered, OffersServe, Serving, In
  <2>4. Open' = Open \ Registered
    BY <2>1, <2>2, <2>3, <1>o, <1>p
  <2>5. Open \cap Registered = Registered
    BY <2>2
  <2> QED BY <2>1, <2>4, <2>5, <1>f, <1>q, FS_Difference
<1> QED BY <1>1, <1>2, <1>3, <1>4, SessionStep

-----------------------------------------------------------------------------
(* Offers                                                                  *)

LEMMA ServingPhase ==
    /\ \A r : r \in Serving <=> r \in Dcc /\ phase[r] \in {"binding", "listening"}
    /\ \A r : r \in Serving' <=> r \in Dcc /\ phase'[r] \in {"binding", "listening"}
BY DEF Serving, In

(* What a step does to the offers: nothing, begin one, end one, or end all.   *)
Kept ==
    /\ UNCHANGED offerVars
    /\ Serving' = Serving

Offers(r) ==
    /\ r \notin Serving /\ ~ Port \subseteq used
    /\ LET p == Lowest(Port \ used) IN
       /\ portOf' = [portOf EXCEPT ![r] = p]
       /\ offers' = [offers EXCEPT ![p] = r]
       /\ used' = used \cup {p}
    /\ timed' = timed \cup {r} /\ failed' = failed
    /\ Serving' = Serving \cup {r}

Ends(r) ==
    /\ offers' = Forget(r) /\ used' = Release(r) /\ portOf' = portOf
    /\ Serving' = Serving \ {r}
    /\ \/ r \in Serving /\ timed' = timed /\ failed'
       \/ r \in Serving \cup timed /\ timed' = timed \ {r} /\ failed' = failed

LEMMA OfferStep ==
    ASSUME TypeOK, [Next]_vars
    PROVE  Kept \/ (\E r \in Dcc : Offers(r) \/ Ends(r)) \/ Shutdown
<1>t. phase \in [Dcc -> Phase]
  BY DEF TypeOK, Phase
<1> USE ServingPhase
<1>k. ASSUME UNCHANGED offerVars,
             \A r \in Dcc : phase'[r] # phase[r] =>
                 {phase[r], phase'[r]} \cap {"binding", "listening"} = {}
      PROVE  Kept
  BY <1>k DEF Kept
<1>1. ASSUME NEW r \in Dcc, OnDccCtcp(r) PROVE Kept
  BY <1>1, <1>k, <1>t DEF OnDccCtcp
<1>2. ASSUME NEW r \in Dcc, Accept(r) PROVE Kept \/ Offers(r)
  <2>1. phase[r] = "verifying"
    BY <1>2 DEF Accept, Ready, In
  <2>2. CASE phase' = [phase EXCEPT ![r] = "over"] /\ UNCHANGED <<portOf, offers, used, timed>>
    BY <1>2, <2>1, <2>2, <1>k, <1>t DEF Accept, offerVars
  <2>3. CASE ~ Port \subseteq used /\ phase' = [phase EXCEPT ![r] = "binding"]
    <3>1. Serving' = Serving \cup {r} /\ r \notin Serving
      BY <2>1, <2>3, <1>t
    <3>2. phase'[r] = "binding"
      BY <2>3, <1>t
    <3> QED BY <1>2, <2>3, <3>1, <3>2, <1>t DEF Accept, Offers, StartTimer
  <2> QED BY <1>2, <2>2, <2>3 DEF Accept
<1>3. ASSUME NEW r \in Dcc, Listen(r) PROVE Kept \/ Ends(r)
  <2>1. phase[r] = "binding"
    BY <1>3 DEF Listen
  <2>2. CASE phase' = [phase EXCEPT ![r] = "listening"] /\ UNCHANGED <<offers, used, failed>>
    <3>1. Serving' = Serving
      BY <2>1, <2>2, <1>t
    <3> QED BY <1>3, <2>2, <3>1 DEF Listen, Kept, offerVars
  <2>3. CASE phase' = [phase EXCEPT ![r] = "over"] /\ offers' = Forget(r) /\ used' = Release(r) /\ failed'
    <3>1. Serving' = Serving \ {r} /\ r \in Serving
      BY <2>1, <2>3, <1>t
    <3> QED BY <1>3, <2>3, <3>1 DEF Listen, Ends
  <2> QED BY <1>3, <2>2, <2>3 DEF Listen
<1>4. ASSUME NEW r \in Dcc, OfferTimeout(r) PROVE Ends(r)
  <2>1. phase[r] # "binding"
    BY <1>4 DEF OfferTimeout, Event, In
  <2>2. phase' = [phase EXCEPT ![r] = IF phase[r] = "listening" THEN "over" ELSE phase[r]]
    BY <1>4 DEF OfferTimeout
  <2>3. Serving' = Serving \ {r}
    BY <2>1, <2>2, <1>t
  <2> QED BY <1>4, <2>3 DEF OfferTimeout, Ends
<1>5. ASSUME NEW r \in Dcc, Connect(r) PROVE Ends(r)
  <2>1. Serving' = Serving \ {r} /\ r \in Serving
    BY <1>5, <1>t DEF Connect
  <2> QED BY <1>5, <2>1 DEF Connect, Ends
<1>6. ASSUME NEW r \in Dcc, Quit(r) \/ IdleTimeout(r) \/ SocketEnds(r) PROVE Kept
  <2>1. Close(r) /\ UNCHANGED offerVars
    BY <1>6 DEF Quit, IdleTimeout, SocketEnds
  <2>2. \/ phase' = phase
        \/ phase[r] = "open" /\ phase' = [phase EXCEPT ![r] = "over"]
    BY <2>1 DEF Close, Closing
  <2> QED BY <2>1, <2>2, <1>k, <1>t
<1>7. ASSUME NEW r \in Request, OthersAsk(r) \/ VerifyTimeout(r) PROVE Kept
  BY <1>7, <1>k DEF OthersAsk, VerifyTimeout
<1>8. CASE Notice
  BY <1>8, <1>k DEF Notice
<1>9. CASE (Outside /\ UNCHANGED dccVars) \/ UNCHANGED vars
  BY <1>9, <1>k DEF vars, dccVars
<1> QED BY <1>1, <1>2, <1>3, <1>4, <1>5, <1>6, <1>7, <1>8, <1>9 DEF Next

LEMMA OffersServeStep ==
    ASSUME TypeOK, OffersServe, [Next]_vars
    PROVE  OffersServe'
<1>t. /\ portOf \in [Dcc -> Port \cup {0}] /\ offers \in [Port -> Dcc \cup {None}]
      /\ None \notin Dcc
  BY DEF TypeOK
<1>1. CASE Kept
  BY <1>1 DEF Kept, OffersServe, offerVars
<1>2. ASSUME NEW r \in Dcc, Offers(r) PROVE OffersServe'
  <2> DEFINE p == Lowest(Port \ used)
  <2>1. /\ portOf' = [portOf EXCEPT ![r] = p]
        /\ offers' = [offers EXCEPT ![p] = r]
        /\ Serving' = Serving \cup {r} /\ r \notin Serving
    BY <1>2 DEF Offers
  <2>2. p \in Port
    BY <1>2, LowestIn DEF Offers
  <2> HIDE DEF p
  <2>3. ASSUME NEW q \in Port, offers'[q] # None
        PROVE  portOf'[offers'[q]] = q /\ offers'[q] \in Serving'
    <3>1. CASE q = p
      BY <3>1, <2>1, <2>2, <1>t
    <3>2. CASE q # p
      <4>1. offers'[q] = offers[q] /\ portOf[offers[q]] = q /\ offers[q] \in Serving
        BY <3>2, <2>1, <2>2, <2>3, <1>t DEF OffersServe
      <4> QED BY <4>1, <2>1, <1>t
    <3> QED BY <3>1, <3>2
  <2> QED BY <2>3 DEF OffersServe
<1>3. ASSUME NEW r \in Dcc, Ends(r) PROVE OffersServe'
  <2>1. /\ offers' = [offers EXCEPT ![portOf[r]] = None]
        /\ portOf' = portOf /\ Serving' = Serving \ {r}
    BY <1>3 DEF Ends, Forget
  <2> QED BY <2>1, <1>t DEF OffersServe
<1>4. CASE Shutdown
  BY <1>4 DEF Shutdown, OffersServe
<1> QED BY <1>1, <1>2, <1>3, <1>4, OfferStep

(* As long as no server failed, only servers have the timer of an offer.      *)
TimedServe == ~failed => timed \subseteq Serving

LEMMA TimedServeStep ==
    ASSUME TypeOK, RegisteredOpen, TimedServe, [Next]_vars
    PROVE  TimedServe'
<1>t. /\ failed \in BOOLEAN /\ timed \subseteq Dcc
      /\ sessions \in [Nick -> Dcc \cup {None}]
  BY DEF TypeOK
<1>1. CASE Kept
  BY <1>1 DEF Kept, TimedServe, offerVars
<1>2. ASSUME NEW r \in Dcc, Offers(r) \/ Ends(r) PROVE TimedServe'
  BY <1>2, <1>t DEF Offers, Ends, TimedServe
<1>3. CASE Shutdown
  <2>1. \A r \in timed \ Offered : r \in Serving /\ ~failed => phase'[r] = phase[r]
    <3>1. \A r \in Registered : r \notin Serving
      BY <1>t, ServingPhase DEF Registered, RegisteredOpen
    <3> QED BY <1>3, <3>1, ServingPhase DEF Shutdown
  <2>2. timed' = timed \ Offered /\ failed' = failed
    BY <1>3 DEF Shutdown
  <2> QED BY <2>1, <2>2, ServingPhase DEF TimedServe
<1> QED BY <1>1, <1>2, <1>3, OfferStep

LEMMA PortsStep ==
    ASSUME TypeOK, OffersServe, TimedServe, PortsAccounted, [Next]_vars
    PROVE  PortsAccounted'
<1>t. /\ portOf \in [Dcc -> Port \cup {0}] /\ offers \in [Port -> Dcc \cup {None}]
      /\ None \notin Dcc /\ used \subseteq Port /\ Serving \subseteq Dcc /\ failed \in BOOLEAN
  BY ServingPhase DEF TypeOK
<1> SUFFICES ASSUME ~failed'
             PROVE  /\ used' = {portOf'[r] : r \in Serving'}
                    /\ \A r \in Serving' : offers'[portOf'[r]] = r
  BY DEF PortsAccounted
<1>s. ASSUME ~failed
      PROVE  /\ used = {portOf[r] : r \in Serving}
             /\ \A r \in Serving : portOf[r] \in Port /\ offers[portOf[r]] = r
  BY <1>s, <1>t DEF PortsAccounted
<1>1. CASE Kept
  BY <1>1, <1>s DEF Kept, offerVars
<1>2. ASSUME NEW r \in Dcc, Offers(r)
      PROVE  /\ used' = {portOf'[s] : s \in Serving'}
             /\ \A s \in Serving' : offers'[portOf'[s]] = s
  <2> DEFINE p == Lowest(Port \ used)
  <2>1. /\ portOf' = [portOf EXCEPT ![r] = p]
        /\ offers' = [offers EXCEPT ![p] = r]
        /\ used' = used \cup {p}
        /\ Serving' = Serving \cup {r} /\ r \notin Serving /\ ~failed
    BY <1>2 DEF Offers
  <2>2. p \in Port /\ p \notin used
    BY <1>2, LowestIn DEF Offers
  <2> HIDE DEF p
  <2>3. portOf'[r] = p /\ \A s \in Serving : portOf'[s] = portOf[s] /\ portOf[s] # p
    BY <2>1, <2>2, <1>s, <1>t
  <2>4. used' = {portOf'[s] : s \in Serving'}
    BY <2>1, <2>3, <1>s
  <2>5. \A s \in Serving' : offers'[portOf'[s]] = s
    BY <2>1, <2>2, <2>3, <1>s, <1>t
  <2> QED BY <2>4, <2>5
<1>3. ASSUME NEW r \in Dcc, Ends(r)
      PROVE  /\ used' = {portOf'[s] : s \in Serving'}
             /\ \A s \in Serving' : offers'[portOf'[s]] = s
  <2>1. /\ offers' = [offers EXCEPT ![portOf[r]] = None]
        /\ used' = used \ {portOf[r]}
        /\ portOf' = portOf /\ Serving' = Serving \ {r}
        /\ r \in Serving /\ ~failed
    BY <1>3 DEF Ends, Forget, Release, TimedServe
  <2>2. \A s \in Serving' : portOf[s] # portOf[r]
    BY <2>1, <1>s
  <2>3. used' = {portOf'[s] : s \in Serving'}
    BY <2>1, <2>2, <1>s
  <2>4. \A s \in Serving' : offers'[portOf'[s]] = s
    BY <2>1, <2>2, <1>s, <1>t
  <2> QED BY <2>3, <2>4
<1>4. CASE Shutdown
  <2>1. ~failed
    BY <1>4 DEF Shutdown
  <2>2. Offered = Serving
    BY <2>1, <1>s, <1>t DEF Offered, OffersServe
  <2>3. Serving' = {}
    BY <1>4, <2>2, ServingPhase DEF Shutdown
  <2>4. used' = {}
    BY <1>4, <2>1, <2>2, <1>s DEF Shutdown
  <2> QED BY <2>3, <2>4
<1> QED BY <1>1, <1>2, <1>3, <1>4, OfferStep

-----------------------------------------------------------------------------
(* One nick, one offer or session                                          *)

(* Nothing came between a promise and its continuation, no server failed.     *)
Calm == ~crossed /\ ~failed

(* The requests that may have a session, now or later.                       *)
Live == Serving \cup In("open") \cup {r \in In("verifying") : verdict[r] \in {"asked", "yes"}}

OneLive == Calm => \A r, s \in Live : About[r] = About[s] => r = s
OpenRegistered == Calm => \A r \in In("open") : sessions[About[r]] = r
Stopped == ~attached /\ Calm => Live = {}

LEMMA LivePhase ==
    /\ \A r : r \in Live <=>
          /\ r \in Dcc
          /\ \/ phase[r] \in {"binding", "listening", "open"}
             \/ phase[r] = "verifying" /\ verdict[r] \in {"asked", "yes"}
    /\ \A r : r \in Live' <=>
          /\ r \in Dcc
          /\ \/ phase'[r] \in {"binding", "listening", "open"}
             \/ phase'[r] = "verifying" /\ verdict'[r] \in {"asked", "yes"}
BY DEF Live, Serving, In

LEMMA CalmStep ==
    ASSUME TypeOK, [Next]_vars, Calm'
    PROVE  Calm
<1>t. LoopTypeOK /\ failed \in BOOLEAN
  BY DEF TypeOK, LoopTypeOK
<1>1. failed => failed'
  <2>1. CASE Kept
    BY <2>1 DEF Kept, offerVars
  <2>2. CASE \E r \in Dcc : Offers(r) \/ Ends(r)
    BY <2>2, <1>t DEF Offers, Ends
  <2>3. CASE Shutdown
    BY <2>3 DEF Shutdown
  <2> QED BY <2>1, <2>2, <2>3, OfferStep
<1>2. CASE Line \/ Event \/ Microtask
  BY <1>1, <1>2, <1>t, LoopStep DEF Calm
<1>3. CASE UNCHANGED crossed
  BY <1>1, <1>3 DEF Calm
<1>4. Line \/ Event \/ Microtask \/ UNCHANGED crossed
  BY DEF Next, OnDccCtcp, OthersAsk, Accept, Listen, OfferTimeout, Connect, Quit, IdleTimeout,
         SocketEnds, Notice, VerifyTimeout, Shutdown, vars, dccVars, loopVars
<1> QED BY <1>2, <1>3, <1>4

(* No step but a CTCP makes a request live, and none comes after the detach.   *)
LEMMA LiveStep ==
    ASSUME TypeOK, Asking, [Next]_vars
    PROVE  \/ \E r \in Dcc : OnDccCtcp(r) /\ attached
           \/ Live' \subseteq Live /\ (Shutdown \/ attached' = attached)
<1>t. phase \in [Dcc -> Phase]
  BY DEF TypeOK, Phase
<1> USE LivePhase
<1>k. ASSUME \A r \in Dcc : Settles(r),
             \A r \in Dcc : phase'[r] \in {phase[r], "over"}
      PROVE  Live' \subseteq Live
  BY <1>k DEF Settles
<1>v. UNCHANGED serviceVars => verdict' = verdict /\ attached' = attached
  BY DEF serviceVars
<1>1. ASSUME NEW r \in Dcc, OnDccCtcp(r) PROVE attached
  BY <1>1 DEF OnDccCtcp, Line
<1>2. ASSUME NEW r \in Dcc, Accept(r) PROVE Live' \subseteq Live
  <2>1. UNCHANGED serviceVars /\ phase[r] = "verifying"
    BY <1>2 DEF Accept, Ready, In
  <2>2. \/ phase' = [phase EXCEPT ![r] = "over"]
        \/ verdict[r] = "yes" /\ phase' = [phase EXCEPT ![r] = "binding"]
    BY <1>2 DEF Accept
  <2> QED BY <2>1, <2>2, <1>t, <1>v
<1>3. ASSUME NEW r \in Dcc, Listen(r) \/ OfferTimeout(r) \/ Connect(r)
      PROVE  Live' \subseteq Live
  <2>1. /\ UNCHANGED serviceVars
        /\ \/ phase' = phase
           \/ /\ phase[r] \in {"binding", "listening"}
              /\ \E ph \in Phase : phase' = [phase EXCEPT ![r] = ph]
    <3>1. CASE Listen(r)
      BY <3>1 DEF Listen, Phase
    <3>2. CASE OfferTimeout(r)
      BY <3>2, <1>t DEF OfferTimeout, Phase
    <3>3. CASE Connect(r)
      BY <3>3 DEF Connect, Phase
    <3> QED BY <1>3, <3>1, <3>2, <3>3
  <2> QED BY <2>1, <1>t, <1>v
<1>4. ASSUME NEW r \in Dcc, Quit(r) \/ IdleTimeout(r) \/ SocketEnds(r)
      PROVE  Live' \subseteq Live
  <2>1. Close(r) /\ UNCHANGED serviceVars
    BY <1>4 DEF Quit, IdleTimeout, SocketEnds
  <2>2. phase' = phase \/ phase' = [phase EXCEPT ![r] = "over"]
    BY <2>1 DEF Close
  <2> QED BY <2>1, <2>2, <1>t, <1>v, <1>k DEF Settles
<1>5. ASSUME NEW r \in Request \ Dcc, OthersAsk(r)
      PROVE  Live' \subseteq Live /\ attached' = attached
  <2>1. phase' = phase /\ verdict[r] = "unasked" /\ (Grant(r) \/ Ask(r))
    BY <1>5 DEF OthersAsk, VerifyUser
  <2>2. CASE Grant(r)
    <3>1. \A s \in Request : s # r => verdict'[s] = verdict[s]
      BY <2>1, <2>2, GrantStep DEF Asking
    <3> QED BY <3>1, <2>1, <2>2, <1>k DEF Settles, Grant
  <2>3. CASE Ask(r)
    <3>1. /\ \A s \in Request : s # r =>
                 verdict'[s] = IF s = pending[About[r]] THEN "no" ELSE verdict[s]
          /\ \A s \in Request : s = pending[About[r]] => verdict[s] = "asked"
      BY <2>1, <2>3, AskStep DEF Asking
    <3>2. \A s \in Dcc : Settles(s)
      BY <3>1 DEF Settles, Verdict
    <3> QED BY <3>2, <2>1, <2>3, <1>k DEF Ask
  <2> QED BY <2>1, <2>2, <2>3
<1>6. CASE Notice
  BY <1>6, <1>k, NoticeStep DEF Notice, OnNotice, Asking
<1>7. ASSUME NEW r \in Request, VerifyTimeout(r) PROVE Live' \subseteq Live /\ attached' = attached
  BY <1>7, <1>k, TimeoutStep DEF VerifyTimeout, Timeout, Asking
<1>8. CASE Shutdown
  <2>1. \A r \in Dcc : phase'[r] \in {phase[r], "over"}
    BY <1>8 DEF Shutdown
  <2> QED BY <1>8, <2>1, <1>k, DetachStep DEF Shutdown, Asking
<1>9. CASE Outside /\ UNCHANGED dccVars
  BY <1>9, <1>k, OutsideStep DEF Outside, NickServAnswers, ConnectionLost, dccVars, Settles, Asking
<1>10. CASE UNCHANGED vars
  BY <1>10, <1>k, <1>v DEF vars, dccVars, Settles
<1>v2. ASSUME NEW r \in Dcc,
              Accept(r) \/ Listen(r) \/ OfferTimeout(r) \/ Connect(r) \/ Quit(r) \/ IdleTimeout(r) \/ SocketEnds(r)
       PROVE  attached' = attached
  BY <1>v2, <1>v DEF Accept, Listen, OfferTimeout, Connect, Quit, IdleTimeout, SocketEnds
<1> QED BY <1>1, <1>2, <1>3, <1>4, <1>5, <1>6, <1>7, <1>8, <1>9, <1>10, <1>v2 DEF Next

LEMMA OneLiveStep ==
    ASSUME TypeOK, Asking, PortsAccounted, OneLive, OpenRegistered, [Next]_vars
    PROVE  OneLive'
<1> SUFFICES ASSUME Calm' PROVE \A r, s \in Live' : About[r] = About[s] => r = s
  BY DEF OneLive
<1>c. Calm
  BY CalmStep
<1>o. \A r, s \in Live : About[r] = About[s] => r = s
  BY <1>c DEF OneLive
<1>1. CASE Live' \subseteq Live
  BY <1>1, <1>o
<1>2. ASSUME NEW r \in Dcc, OnDccCtcp(r)
      PROVE  \A s, u \in Live' : About[s] = About[u] => s = u
  <2>t. /\ phase \in [Dcc -> Phase] /\ portOf \in [Dcc -> Port \cup {0}]
        /\ sessions \in [Nick -> Dcc \cup {None}] /\ used \subseteq Port /\ None \notin Dcc
        /\ verdict \in [Request -> {"unasked", "asked"} \cup Verdict]
    BY DEF TypeOK, ServicesTypeOK, Phase
  <2>1. phase[r] = "new" /\ Line
    BY <1>2 DEF OnDccCtcp
  <2>2. Ready = {}
    BY <2>1 DEF Line, Calm
  <2>3. CASE phase' = [phase EXCEPT ![r] = "over"] /\ UNCHANGED serviceVars
    <3>1. Live' \subseteq Live
      BY <2>1, <2>3, <2>t, LivePhase DEF serviceVars
    <3> QED BY <3>1, <1>o
  <2>4. CASE /\ Admissible(About[r])
             /\ phase' = [phase EXCEPT ![r] = "verifying"]
             /\ IF NickservVerify THEN VerifyUser(r) ELSE Grant(r)
    <3>1. \A s \in Live : s # r
      BY <2>1, LivePhase
    <3>2. ASSUME NEW s \in In("open") PROVE About[s] # About[r]
      <4>1. s \in Dcc /\ sessions[About[s]] = s
        BY <1>c DEF OpenRegistered, In
      <4> QED BY <4>1, <2>4, <2>t DEF Admissible, NotConnected
    <3>3. ASSUME NEW s \in Serving PROVE About[s] # About[r]
      <4>1. s \in Dcc /\ portOf[s] \in Port /\ offers[portOf[s]] = s
        BY <1>c, <2>t, ServingPhase DEF PortsAccounted, Calm
      <4> QED BY <4>1, <2>4, <2>t DEF Admissible, NotConnected
    <3>4. \A s \in Live : phase[s] = "verifying" => verdict[s] = "asked"
      BY <2>2, LivePhase DEF Ready, In, Verdict
    <3>5. verdict[r] = "unasked" /\ r \in Request
      BY <2>1 DEF Asking, Fresh
    <3>6. \A s \in Live' : s # r => s \in Live /\ About[s] # About[r]
      <4> SUFFICES ASSUME NEW s \in Live', s # r
                   PROVE  s \in Live /\ About[s] # About[r]
        OBVIOUS
      <4>1. s \in Dcc /\ phase'[s] = phase[s]
        BY <2>4, <2>t, LivePhase
      <4>2. CASE phase[s] # "verifying"
        BY <4>1, <4>2, <3>2, <3>3, LivePhase DEF Serving, In
      <4>3. CASE phase[s] = "verifying"
        <5>0. verdict'[s] \in {"asked", "yes"}
          BY <4>1, <4>3, LivePhase
        <5>1. CASE Grant(r)
          <6>1. verdict'[s] = verdict[s]
            BY <3>5, <4>1, <5>1, GrantStep DEF Asking
          <6>2. verdict[s] = "asked"
            BY <5>0, <6>1, <4>1, <4>3, <3>4, LivePhase
          <6>3. NickservVerify /\ ServicesType # "none"
            BY <6>2, <4>1 DEF Asking, NoneAsked
          <6> QED
            <7>1. VerifyUser(r)
              BY <2>4, <6>3
            <7>2. Ask(r)
              BY <7>1, <6>3 DEF VerifyUser
            <7>3. verdict'[r] = "asked" /\ verdict'[r] = "yes"
              BY <3>5, <5>1, <7>2, AskStep, GrantStep DEF Asking
            <7> QED BY <7>3
        <5>2. CASE Ask(r)
          <6>1. /\ verdict'[s] = IF s = pending[About[r]] THEN "no" ELSE verdict[s]
            BY <3>5, <4>1, <5>2, AskStep, <2>1, <4>3 DEF Asking
          <6>2. s # pending[About[r]] /\ verdict[s] \in {"asked", "yes"}
            BY <5>0, <6>1
          <6>3. s \in Live /\ verdict[s] = "asked"
            BY <6>2, <4>1, <4>3, <3>4, LivePhase
          <6>4. pending[About[s]] = s
            BY <6>3, <4>1 DEF Asking, TableAgrees
          <6> QED BY <6>2, <6>3, <6>4
        <5> QED BY <2>4, <5>1, <5>2 DEF VerifyUser
      <4> QED BY <4>2, <4>3
    <3> QED BY <3>6, <1>o
  <2> QED BY <1>2, <2>3, <2>4 DEF OnDccCtcp
<1> QED BY <1>1, <1>2, LiveStep

LEMMA OpenRegisteredStep ==
    ASSUME TypeOK, OneLive, OpenRegistered, [Next]_vars
    PROVE  OpenRegistered'
<1> SUFFICES ASSUME Calm' PROVE \A r \in In("open")' : sessions'[About[r]] = r
  BY DEF OpenRegistered
<1>t. /\ phase \in [Dcc -> Phase] /\ sessions \in [Nick -> Dcc \cup {None}]
  BY DEF TypeOK, Phase
<1>c. Calm
  BY CalmStep
<1>o. \A r \in Dcc : phase[r] = "open" => sessions[About[r]] = r
  BY <1>c DEF OpenRegistered, In
<1>p. \A r : r \in In("open")' <=> r \in Dcc /\ phase'[r] = "open"
  BY DEF In
<1>u. \A r, s \in Dcc :
          (phase[r] \in {"listening", "open"} /\ phase[s] = "open" /\ About[r] = About[s]) => r = s
  BY <1>c, LivePhase DEF OneLive
<1>1. CASE Untouched
  BY <1>1, <1>o, <1>p DEF Untouched
<1>2. ASSUME NEW r \in Dcc, Connect(r)
      PROVE  \A s \in In("open")' : sessions'[About[s]] = s
  <2>1. /\ phase[r] = "listening" /\ phase' = [phase EXCEPT ![r] = "open"]
        /\ sessions' = [sessions EXCEPT ![About[r]] = r]
    BY <1>2 DEF Connect
  <2>2. \A s \in Dcc : phase'[s] = "open" /\ s # r => phase[s] = "open" /\ About[s] # About[r]
    BY <2>1, <1>t, <1>u
  <2> QED BY <2>1, <2>2, <1>t, <1>o, <1>p
<1>3. ASSUME NEW r \in Dcc, Closing(r), Close(r)
      PROVE  \A s \in In("open")' : sessions'[About[s]] = s
  <2>1. /\ phase[r] = "open" /\ phase' = [phase EXCEPT ![r] = "over"]
        /\ sessions' = [sessions EXCEPT ![About[r]] = None]
    BY <1>3 DEF Close, Closing, RemoveSession
  <2>2. \A s \in Dcc : phase'[s] = "open" => phase[s] = "open" /\ About[s] # About[r]
    BY <2>1, <1>t, <1>u
  <2> QED BY <2>1, <2>2, <1>t, <1>o, <1>p
<1>4. CASE Shutdown
  <2>1. \A r \in Dcc : phase[r] = "open" => r \in Registered
    BY <1>o DEF Registered
  <2> QED BY <1>4, <2>1, <1>p DEF Shutdown
<1> QED BY <1>1, <1>2, <1>3, <1>4, SessionStep

LEMMA StoppedStep ==
    ASSUME TypeOK, Asking, PortsAccounted, OpenRegistered, Stopped, [Next]_vars
    PROVE  Stopped'
<1> SUFFICES ASSUME ~attached', Calm' PROVE Live' = {}
  BY DEF Stopped
<1>c. Calm
  BY CalmStep
<1>1. ASSUME NEW r \in Dcc, OnDccCtcp(r), attached PROVE attached'
  <2>1. CASE UNCHANGED serviceVars
    BY <1>1, <2>1 DEF serviceVars
  <2>2. CASE Grant(r) \/ Ask(r)
    BY <1>1, <2>2 DEF Grant, Ask
  <2> QED BY <1>1, <2>1, <2>2 DEF OnDccCtcp, VerifyUser
<1>2. CASE Live' \subseteq Live /\ attached' = attached
  BY <1>2, <1>c DEF Stopped
<1>3. CASE Shutdown
  <2>1. phase' = [r \in Dcc |-> IF r \in Registered \cup Offered THEN "over" ELSE phase[r]]
    BY <1>3 DEF Shutdown
  <2>2. \A r \in Dcc : phase[r] = "open" => r \in Registered
    BY <1>c DEF OpenRegistered, In, Registered
  <2>3. \A r \in Serving : r \in Offered
    <3> SUFFICES ASSUME NEW r \in Serving PROVE r \in Offered
      OBVIOUS
    <3>1. portOf[r] \in used /\ offers[portOf[r]] = r /\ r \in Dcc
      BY <1>c, ServingPhase DEF PortsAccounted, Calm
    <3>2. portOf[r] \in Port /\ r # None
      BY <3>1 DEF TypeOK
    <3> QED BY <3>1, <3>2 DEF Offered
  <2>4. \A r \in Dcc : phase[r] = "verifying" => verdict[r] \notin Verdict
    BY <1>3 DEF Shutdown, Event, Ready, In
  <2>5. \A r \in Request : verdict'[r] = IF verdict[r] = "asked" THEN "no" ELSE verdict[r]
    BY <1>3, DetachStep DEF Shutdown, Asking
  <2> QED BY <2>1, <2>2, <2>3, <2>4, <2>5, LivePhase, ServingPhase DEF Verdict
<1> QED BY <1>1, <1>2, <1>3, LiveStep

-----------------------------------------------------------------------------
(* Verdicts                                                                *)

LEMMA VerdictStep ==
    ASSUME TypeOK, Asking, [Next]_vars
    PROVE  \A s \in Request : Settles(s) \/ verdict[s] = "unasked"
<1>k. UNCHANGED serviceVars => \A s \in Request : Settles(s)
  BY DEF serviceVars, Settles
<1>g. ASSUME NEW r \in Request, verdict[r] = "unasked", Grant(r) \/ Ask(r)
      PROVE  \A s \in Request : Settles(s) \/ verdict[s] = "unasked"
  <2>1. CASE Grant(r)
    BY <1>g, <2>1, GrantStep DEF Asking, Settles
  <2>2. CASE Ask(r)
    <3>1. /\ \A s \in Request : s # r =>
                 verdict'[s] = IF s = pending[About[r]] THEN "no" ELSE verdict[s]
          /\ \A s \in Request : s = pending[About[r]] => verdict[s] = "asked"
      BY <1>g, <2>2, AskStep DEF Asking
    <3> QED BY <3>1, <1>g DEF Settles, Verdict
  <2> QED BY <1>g, <2>1, <2>2
<1>1. ASSUME NEW r \in Dcc, OnDccCtcp(r)
      PROVE  \A s \in Request : Settles(s) \/ verdict[s] = "unasked"
  <2>1. verdict[r] = "unasked" /\ r \in Request
    BY <1>1 DEF OnDccCtcp, Asking, Fresh
  <2>2. UNCHANGED serviceVars \/ Grant(r) \/ Ask(r)
    BY <1>1 DEF OnDccCtcp, VerifyUser
  <2> QED BY <2>1, <2>2, <1>k, <1>g
<1>2. ASSUME NEW r \in Request \ Dcc, OthersAsk(r)
      PROVE  \A s \in Request : Settles(s) \/ verdict[s] = "unasked"
  BY <1>2, <1>g DEF OthersAsk, VerifyUser
<1>3. ASSUME NEW r \in Dcc,
             \/ Accept(r) \/ Listen(r) \/ OfferTimeout(r) \/ Connect(r)
             \/ Quit(r) \/ IdleTimeout(r) \/ SocketEnds(r)
      PROVE  UNCHANGED serviceVars
  BY <1>3 DEF Accept, Listen, OfferTimeout, Connect, Quit, IdleTimeout, SocketEnds
<1>4. CASE Notice
  BY <1>4, NoticeStep DEF Notice, Asking
<1>5. ASSUME NEW r \in Request, VerifyTimeout(r) PROVE \A s \in Request : Settles(s)
  BY <1>5, TimeoutStep DEF VerifyTimeout, Asking
<1>6. CASE Shutdown
  BY <1>6, DetachStep DEF Shutdown, Asking
<1>7. CASE Outside
  BY <1>7, OutsideStep DEF Asking, Settles
<1>8. CASE UNCHANGED vars
  BY <1>8, <1>k DEF vars
<1> QED BY <1>1, <1>2, <1>3, <1>4, <1>5, <1>6, <1>7, <1>8, <1>k DEF Next

-----------------------------------------------------------------------------
(* The theorems                                                            *)

IInv ==
    /\ TypeOK /\ Asking
    /\ RegisteredOpen /\ PartyCounts
    /\ OffersServe /\ TimedServe /\ PortsAccounted
    /\ OneLive /\ OpenRegistered /\ Stopped

LEMMA Initially == Init => IInv
<1> SUFFICES ASSUME Init PROVE IInv
  OBVIOUS
<1>1. ServicesTypeOK
  BY EmptySeq DEF Init, ServicesInit, ServicesTypeOK, Method, Notices
<1>2. TypeOK
  <2>0. crossed \in BOOLEAN /\ failed \in BOOLEAN
    BY Zenon DEF Init
  <2>1. DccTypeOK
    <3>1. portOf \in [Dcc -> Port \cup {0}] /\ offers \in [Port -> Dcc \cup {None}]
      BY DEF Init
    <3>2. phase \in [Dcc -> Phase] /\ sessions \in [Nick -> Dcc \cup {None}]
      BY DEF Init, Phase
    <3>3. used = {} /\ timed = {} /\ sockets = {} /\ idle = {} /\ party = 0
      BY DEF Init
    <3> QED BY <2>0, <3>1, <3>2, <3>3 DEF DccTypeOK
  <2>2. LoopTypeOK
    <3>1. batch = 0
      BY DEF Init
    <3> QED BY <2>0, <3>1 DEF LoopTypeOK
  <2> QED BY <1>1, <2>1, <2>2 DEF TypeOK, DccTypeOK, LoopTypeOK, Phase
<1>3. TableAgrees /\ Fresh /\ NoneAsked
  BY DEF Init, ServicesInit, TableAgrees, Waiting, Fresh, NoneAsked
<1>4. In("open") = {} /\ Serving = {} /\ In("verifying") = {}
  BY DEF Init, In, Serving
<1>5. RegisteredOpen /\ OffersServe
  BY DEF Init, RegisteredOpen, OffersServe
<1>6. PartyCounts
  BY <1>4, FS_EmptySet DEF Init, PartyCounts
<1>7. TimedServe /\ PortsAccounted
  BY <1>4 DEF Init, TimedServe, PortsAccounted
<1>8. OneLive /\ OpenRegistered /\ Stopped
  BY <1>4 DEF OneLive, OpenRegistered, Stopped, Live
<1> QED BY <1>1, <1>2, <1>3, <1>5, <1>6, <1>7, <1>8 DEF IInv, Asking

LEMMA Inductive == IInv /\ [Next]_vars => IInv'
BY AskingStep, TypeStep, RegisteredStep, PartyStep, OffersServeStep, TimedServeStep, PortsStep,
   OneLiveStep, OpenRegisteredStep, StoppedStep
   DEF IInv

LEMMA Invariant == Spec => []IInv
BY Initially, Inductive, PTL DEF Spec

(* The variables keep their types.                                         *)
THEOREM TypeCorrect == Spec => []TypeOK
<1>1. IInv => TypeOK
  BY DEF IInv
<1> QED BY <1>1, Invariant, PTL

(* The table of pending verifications, the promises and the timers agree,     *)
(* whoever shares the table (services.ts).                                  *)
THEOREM TablesAgree == Spec => []TableAgrees
<1>1. IInv => TableAgrees
  BY DEF IInv, Asking
<1> QED BY <1>1, Invariant, PTL

(* A registered session is open and is its nick's (dcc.ts: sessions).         *)
THEOREM OnlyOpenRegistered == Spec => []RegisteredOpen
<1>1. IInv => RegisteredOpen
  BY DEF IInv
<1> QED BY <1>1, Invariant, PTL

(* The bot link is told of every session's coming and, once, of its going      *)
(* (dcc.ts: onPartyJoin, onPartyPart).                                       *)
THEOREM PartyExact == Spec => []PartyCounts
<1>1. IInv => PartyCounts
  BY DEF IInv
<1> QED BY <1>1, Invariant, PTL

(* While no server failed to listen, the ports marked used are those of the     *)
(* servers (dcc.ts: RangePortAllocator).                                     *)
THEOREM PortsExact == Spec => []PortsAccounted
<1>1. IInv => PortsAccounted
  BY DEF IInv
<1> QED BY <1>1, Invariant, PTL

(* Where promises continue before the next line and no server fails, a nick     *)
(* has one offer or session, though nothing is checked after the verification  *)
(* (dcc.ts: onDccCtcp).                                                     *)
THEOREM OneEach == Spec => []OneAtATime
<1>1. IInv => OneAtATime
  BY LivePhase, ServingPhase DEF IInv, OneAtATime, OneLive, Calm, Live
<1> QED BY <1>1, Invariant, PTL

(* Under the same conditions nothing is left after a shutdown (dcc.ts: detach). *)
THEOREM DetachLeavesNone == Spec => []DetachCloses
<1>1. IInv => DetachCloses
  BY DEF IInv, DetachCloses, Closed, Stopped, Calm, Live
<1> QED BY <1>1, Invariant, PTL

(* verifyUser implements Admission but for its fairness: one verdict for each   *)
(* request, never taken back (services.ts).                                  *)
THEOREM VerificationRefines == Spec => A!Safely
<1>1. Init => A!Init
  BY DEF Init, ServicesInit, A!Init
<1>2. IInv /\ [Next]_vars => [A!Next]_verdict
  <2> SUFFICES ASSUME IInv, [Next]_vars PROVE A!Next
    OBVIOUS
  <2>1. \A s \in Request : Settles(s) \/ verdict[s] = "unasked"
    BY VerdictStep DEF IInv
  <2>2. verdict' \in [Request -> {"unasked", "asked"} \cup Verdict]
    BY AskingStep DEF IInv, Asking, ServicesTypeOK
  <2> QED BY <2>1, <2>2 DEF A!Next, A!Verdict, Settles, Verdict
<1> QED BY <1>1, <1>2, Invariant, PTL DEF Spec, A!Safely
=============================================================================
