------------------------------ MODULE Replica ------------------------------
(* What a copy kept by listening promises: it goes through the states of the
   original one by one, in their order, only later.  There is no copy before the
   listener has been told the whole state, nor when it no longer listens.       *)
EXTENDS Sequences

CONSTANTS
  State,     \* the states of the original
  Nothing    \* no copy; also the original of a listener that is not there

VARIABLES
  truth,     \* the original
  pending,   \* the states the listener has yet to be told of, oldest first
  copy       \* what the listener holds

vars == <<truth, pending, copy>>

States == State \cup {Nothing}

Init == truth = Nothing /\ pending = <<>> /\ copy = Nothing

\* The original changes, or says again what it is.
Tell ==
  /\ truth' \in States
  /\ \/ pending' = Append(pending, truth')
     \/ pending' = pending \o <<truth', truth'>>
  /\ UNCHANGED copy

\* The listener is told; the first messages may not be enough for a copy.
Learn ==
  /\ pending # <<>>
  /\ pending' = Tail(pending)
  /\ \/ copy' = Head(pending)
     \/ copy = Nothing /\ copy' = Nothing
  /\ UNCHANGED truth

\* The listener is cut off: what was on its way is lost.
CutOff ==
  /\ truth' = Nothing /\ pending' = <<>> /\ copy' = Nothing

Next == Tell \/ Learn \/ CutOff

Spec == Init /\ [][Next]_vars
============================================================================
