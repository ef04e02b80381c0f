------------------------------ MODULE Services ------------------------------
(***************************************************************************)
(* Asking NickServ who a nick is: src/core/services.ts, as the dispatcher's   *)
(* gate, auto-op and DCC use it.                                            *)
(*                                                                         *)
(* A request is one call of verifyUser and its verdict the promise it        *)
(* returns.  All callers share one table with one entry per nick.  NickServ   *)
(* answers the queries in order, when it likes; whether it then knows the nick *)
(* as identified is open.  Its notices name the nick, not the request.  Nicks *)
(* are taken folded.                                                        *)
(***************************************************************************)
EXTENDS Naturals, Sequences

CONSTANTS
    Nick,          \* nicks of users
    Request,       \* calls of verifyUser
    About,         \* request -> the nick it asks about
    ServicesType,  \* servicesConfig.type
    Supports       \* the queries NickServ understands

None == "none"
Method == {"acc", "status"}
Verdict == {"yes", "no"}

ASSUME ServicesAssumption ==
    /\ About \in [Request -> Nick]
    /\ None \notin Request
    /\ ServicesType \in {"atheme", "anope", "dalnet", "none"}
    /\ Supports \subseteq Method

VARIABLES
    pending,     \* nick -> its pending request
    method,      \* nick -> the query its pending request was last put with
    armed,       \* requests whose timer runs
    verdict,     \* request -> what its promise has come to
    wire,        \* queries on their way to NickServ, and its notices on their way back
    attached     \* whether notices are listened to

serviceVars == <<pending, method, armed, verdict, wire, attached>>

ServicesInit ==
    /\ pending = [n \in Nick |-> None]
    /\ method = [n \in Nick |-> "acc"]
    /\ armed = {}
    /\ verdict = [r \in Request |-> "unasked"]
    /\ wire = <<>>
    /\ attached = TRUE

Query(n, m) == [nick |-> n, method |-> m, answer |-> None]

(* NickServ and the network                                                *)

Replies(query) == IF query.method \in Supports THEN Verdict ELSE {"unknown"}

NickServAnswers ==
    /\ \E i \in 1..Len(wire) :
          /\ wire[i].answer = None
          /\ \A j \in 1..(i - 1) : wire[j].answer # None
          /\ \E a \in Replies(wire[i]) : wire' = [wire EXCEPT ![i].answer = a]
    /\ UNCHANGED <<pending, method, armed, verdict, attached>>

ConnectionLost ==
    /\ wire # <<>>
    /\ wire' = <<>>
    /\ UNCHANGED <<pending, method, armed, verdict, attached>>

-----------------------------------------------------------------------------
(* The bot                                                                 *)

DeniedNever(rs, v) == [r \in Request |-> IF r \in rs /\ v = "yes" THEN v ELSE verdict[r]]  \* mutant
Settled(rs, v) == [r \in Request |-> IF r \in rs THEN v ELSE verdict[r]]

NoneSuperseded(n) == {}  \* mutant
Superseded(n) == {pending[n]} \ {None}

Native == IF ServicesType = "anope" THEN "status" ELSE "acc"
Other(m) == IF m = "acc" THEN "status" ELSE "acc"

(* Whoever needs no asking about is verified at once.                       *)
Grant(r) ==
    /\ verdict' = Settled({r}, "yes")
    /\ UNCHANGED <<pending, method, armed, wire, attached>>

Ask(r) ==
    /\ pending' = [pending EXCEPT ![About[r]] = r]
    /\ method' = [method EXCEPT ![About[r]] = Native]
    /\ armed' = (armed \ Superseded(About[r])) \cup {r}
    /\ verdict' = [Settled(Superseded(About[r]), "no") EXCEPT ![r] = "asked"]
    /\ wire' = Append(wire, Query(About[r], Native))
    /\ UNCHANGED attached

VerifyUser(r) ==
    /\ verdict[r] = "unasked"
    /\ IF ServicesType = "none" THEN Grant(r) ELSE Ask(r)

(* The timer forgets whatever is pending for the nick.                      *)
Timeout(r) ==
    /\ r \in armed
    /\ armed' = armed \ {r}
    /\ pending' = [pending EXCEPT ![About[r]] = None]
    /\ verdict' = Settled({r} \cap {s \in Request : verdict[s] = "asked"}, "no")
    /\ UNCHANGED <<method, wire, attached>>

(* resolveVerification: a notice of a nick nobody waits for is ignored.      *)
ResolveVerification(notice) ==
    /\ pending' = [pending EXCEPT ![notice.nick] = None]
    /\ armed' = armed \ {pending[notice.nick]}
    /\ verdict' = Settled({pending[notice.nick]}, notice.answer)
    /\ wire' = Tail(wire)
    /\ UNCHANGED method

PutSo(m) == {n \in Nick : pending[n] # None /\ method[n] = m}

(* "Unknown command": of the pending requests that were put so the first is    *)
(* put the other way.  Which is first depends on the age of each; here any.   *)
TryOther(notice) ==
    /\ \/ \E n \in PutSo(notice.method) :
             /\ method' = [method EXCEPT ![n] = Other(@)]
             /\ wire' = Append(Tail(wire), Query(n, Other(notice.method)))
       \/ /\ PutSo(notice.method) = {}
          /\ wire' = Tail(wire)
          /\ UNCHANGED method
    /\ UNCHANGED <<pending, armed, verdict>>

AnyNotice(notice) == TRUE  \* mutant
IsAnswer(notice) == notice.answer \in Verdict

OnNotice ==
    /\ attached /\ wire # <<>> /\ Head(wire).answer # None
    /\ IF IsAnswer(Head(wire))
       THEN ResolveVerification(Head(wire))
       ELSE TryOther(Head(wire))
    /\ UNCHANGED attached

Waiting == {pending[n] : n \in Nick} \ {None}

(* Services.detach; the bot quits with it.                                  *)
Detach ==
    /\ attached
    /\ attached' = FALSE
    /\ pending' = [n \in Nick |-> None]
    /\ armed' = armed \ Waiting
    /\ verdict' = Settled(Waiting, "no")
    /\ wire' = <<>>
    /\ UNCHANGED method

-----------------------------------------------------------------------------
ServicesTypeOK ==
    /\ pending \in [Nick -> Request \cup {None}]
    /\ method \in [Nick -> Method]
    /\ armed \subseteq Request
    /\ verdict \in [Request -> {"unasked", "asked"} \cup Verdict]
    /\ wire \in Seq([nick : Nick, method : Method, answer : {None, "unknown"} \cup Verdict])
    /\ attached \in BOOLEAN

(* The table, the promises and the timers agree: what waits is pending for    *)
(* its nick, once, and has its timer.  Replacing an entry, an answer, the      *)
(* timer and detach each change all three.                                  *)
TableAgrees ==
    /\ \A r \in Request : verdict[r] = "asked" => pending[About[r]] = r
    /\ \A n \in Nick : pending[n] # None => About[pending[n]] = n
    /\ armed = Waiting
    /\ \A r \in armed : verdict[r] = "asked"

A == INSTANCE Admission

(* verifyUser keeps its promise: one verdict for each request, and each        *)
(* request gets it, whether it is answered, replaced, retried with the other   *)
(* command, timed out, cut off or the bot stops.                             *)
Admitted == A!Spec
=============================================================================
