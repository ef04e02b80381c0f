----------------------------- MODULE Admission ------------------------------
(***************************************************************************)
(* What Services.verifyUser promises to whoever awaits it                   *)
(* (src/core/services.ts): every request gets a verdict, and only one.       *)
(* Several requests may change in one step, as a request for a nick also      *)
(* settles the one it replaces.                                             *)
(***************************************************************************)
CONSTANT Request

VARIABLE verdict  \* request -> whether it is unasked, waiting, or its verdict

Verdict == {"yes", "no"}

Init == verdict = [r \in Request |-> "unasked"]

Settle(r) ==
    /\ verdict[r] = "asked"
    /\ \E v \in Verdict : verdict' = [verdict EXCEPT ![r] = v]

Next ==
    /\ verdict' \in [Request -> {"unasked", "asked"} \cup Verdict]
    /\ \A r \in Request :
          \/ verdict'[r] = verdict[r]
          \/ verdict[r] = "unasked"
          \/ verdict[r] = "asked" /\ verdict'[r] \in Verdict

Safely == Init /\ [][Next]_verdict

Spec == Safely /\ \A r \in Request : WF_verdict(Settle(r))
=============================================================================
