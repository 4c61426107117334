--------------------------- MODULE OutcomeAuthority ---------------------------
(***************************************************************************)
(* What the outcome gateway promises of one pact, with no reservation       *)
(* document, request or message in sight: an operation is performed in the  *)
(* outside world by a holder of its slot, at most once, and only an         *)
(* operation that was not performed gives its authority back.  The promise  *)
(* is ADR-002's and the acceptance boundary of the system contract.         *)
(***************************************************************************)
EXTENDS Naturals

CONSTANTS Operation, SlotOf, NoSlot

VARIABLES
  authorized,  \* operations that hold authority
  performed    \* number of external effects of each operation

vars == <<authorized, performed>>

Compete(o, p) == o # p /\ SlotOf[o] = SlotOf[p] /\ SlotOf[o] # NoSlot

Init ==
  /\ authorized = {}
  /\ performed = [o \in Operation |-> 0]

Grant(o) ==
  /\ o \notin authorized
  /\ performed[o] = 0
  /\ \A p \in authorized : ~Compete(o, p)
  /\ authorized' = authorized \cup {o}
  /\ UNCHANGED performed

Perform(o) ==
  /\ o \in authorized
  /\ performed[o] = 0
  /\ performed' = [performed EXCEPT ![o] = 1]
  /\ UNCHANGED authorized

Relinquish(o) ==
  /\ o \in authorized
  /\ performed[o] = 0
  /\ authorized' = authorized \ {o}
  /\ UNCHANGED performed

Next == \E o \in Operation : Grant(o) \/ Perform(o) \/ Relinquish(o)

Spec == Init /\ [][Next]_vars
=============================================================================
