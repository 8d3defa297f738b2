---------------------------- MODULE OneAnswerEach ----------------------------
(***************************************************************************)
(* What one run of a plan comes to, seen from outside: every fixture is    *)
(* answered once, one after the other in no particular order but surface   *)
(* by surface, with an answer that was due to it all along; then the       *)
(* answers are handed over in plan order.  No cache, no window, no calls.  *)
(***************************************************************************)
EXTENDS Naturals, Sequences

CONSTANTS
  Fixtures,  \* the fixtures of the plan
  Turn,      \* Turn[f]: which surface's turn f is answered in
  Order      \* the fixtures in plan order

VARIABLES
  due,       \* due[f]: what f is to be answered (never changes)
  answered,  \* the fixtures answered so far
  handedOver,\* whether the run is over
  report     \* what it handed over

vars == <<due, answered, handedOver, report>>

Init ==
  /\ answered = {}
  /\ handedOver = FALSE
  /\ report = <<>>

Answer(f) ==
  /\ ~handedOver
  /\ f \notin answered
  /\ \A g \in Fixtures : Turn[g] < Turn[f] => g \in answered
  /\ answered' = answered \cup {f}
  /\ UNCHANGED <<due, handedOver, report>>

HandOver ==
  /\ ~handedOver
  /\ answered = Fixtures
  /\ handedOver' = TRUE
  /\ report' = [k \in 1..Len(Order) |-> due[Order[k]]]
  /\ UNCHANGED <<due, answered>>

Next == (\E f \in Fixtures : Answer(f)) \/ HandOver

Spec == Init /\ [][Next]_vars

\* Every fixture gets its answer, and the run its end.
FairSpec == Spec /\ WF_vars(\E f \in Fixtures : Answer(f)) /\ WF_vars(HandOver)
=============================================================================
