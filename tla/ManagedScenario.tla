---------------------------- MODULE ManagedScenario ----------------------------
(***************************************************************************)
(* A scenario of the simulator played with or without the outcome gateway:   *)
(* the runner asks its interceptor about every action before it calls a      *)
(* service, and tells it the result.  AllowAllInterceptor lets everything    *)
(* pass; IsoPactGatewayInterceptor reserves the operations of its safety     *)
(* kernel in the memory repository of one pact.                             *)
(*                                                                          *)
(* The runner is one thread: while it handles an action nothing else         *)
(* happens, and nothing fails but the services.  A request of Gateway is an  *)
(* action of a scenario the kernel protects.                                *)
(***************************************************************************)
EXTENDS Gateway, Simulator

CONSTANT GoodwillLimit  \* goodwill_limit_minor_units of the pact

Primary == {"create_refund", "create_label", "reserve_stock"}

(* _normalize: the path and the event of a tool, with the amount or the      *)
(* resource, of which a scenario has one for labels and one for stock.       *)
Normalized(a) ==
  CASE a.tool = "create_refund" ->
         [path |-> "successful_refund", event |-> "refund", value |-> <<"money", a.amount>>]
    [] a.tool = "create_label" ->
         [path |-> "confirmed_replacement", event |-> "replacement", value |-> <<"resource", 0>>]
    [] a.tool = "reserve_stock" ->
         [path |-> "confirmed_replacement", event |-> "replacement_stock",
          value |-> <<"resource", 1>>]
    [] a.tool = "issue_credit" ->
         [path |-> "authorized_goodwill", event |-> "goodwill_credit",
          value |-> <<"money", a.amount>>]

(* canonicalize: what makes two intents of a pact one operation is this much *)
(* of them, and not their agent, request, session or idempotency key.        *)
OperationOf(a) ==
  LET intent == Normalized(a) IN <<intent.path, intent.event, intent.value>>

(* Mutant: a replacement does not take the slot of the refund.               *)
SlotForRefunds(o) ==
  CASE o[1] = "authorized_goodwill" -> "goodwill"
    [] o[1] = "successful_refund"   -> "primary_compensation"
    [] OTHER                        -> NoSlot

SlotFor(o) ==
  IF o[1] = "authorized_goodwill" THEN "goodwill" ELSE "primary_compensation"

Protected(a) == a.inside /\ a.tool \in Primary \cup {"issue_credit"}

NeedsApproval(a) == a.tool = "issue_credit" /\ (~a.authorized \/ a.amount > GoodwillLimit)

ASSUME ManagedScenarioAssumption ==
  /\ GoodwillLimit \in Nat
  /\ Backend = "memory"
  /\ Request = {a \in UNION {{s[i] : i \in DOMAIN s} : s \in Scenario} : Protected(a)}
  /\ \A r \in Request : OpOf[r] = OperationOf(r)
  /\ {"primary_compensation", "goodwill"} \subseteq Slot
  /\ \A o \in Operation : SlotOf[o] = SlotFor(o)
  /\ Refused = {r \in Request : NeedsApproval(r)}
  /\ \A s \in Scenario : \A i, j \in DOMAIN s : s[i] = s[j] => i = j

VARIABLE interceptor  \* "ALLOW_ALL" or "ISOPACT"

managedVars == <<vars, simVars, interceptor>>

Interceptor == {"ALLOW_ALL", "ISOPACT"}

ManagedInit ==
  /\ GatewayInit
  /\ SimInit
  /\ interceptor \in Interceptor

(* No request is between its interception and its recorded outcome.         *)
Quiet == \A r \in Request : pc[r] \notin Active

(* Mutant: only the tools that move money are put to the kernel.             *)
HandlingMoney ==
  /\ HandlingAction /\ interceptor = "ISOPACT" /\ Protected(Action)
  /\ Action.tool # "reserve_stock"

HandlingRequest == HandlingAction /\ interceptor = "ISOPACT" /\ Protected(Action)

(* An interceptor that has nothing to say, or is not asked to protect this   *)
(* action: the service is called at once.                                   *)
PassThrough ==
  /\ HandlingAction /\ ~HandlingRequest
  /\ Dispatch
  /\ UNCHANGED <<vars, interceptor>>

Intercepted ==
  /\ HandlingRequest
  /\ \/ Refuse(Action) /\ NotExecuted
     \/ /\ Authorize(Action)
        /\ IF Granted(OpOf[Action]) THEN UNCHANGED simVars ELSE NotExecuted
     \/ Begin(Action) /\ UNCHANGED simVars
  /\ UNCHANGED interceptor

(* What the caller learns: nothing when the runner dies of an exception.     *)
ResultOf(r) ==
  IF r.tool = "create_refund" /\ r.timeout THEN "TIMEOUT"
  ELSE IF stage' = "aborted" THEN "done" ELSE "OK"

Performed ==
  /\ HandlingRequest
  /\ Dispatch
  /\ LET r == Action IN
       /\ Call(r)
       /\ pc'[r] = ResultOf(r)
       /\ r \in effected' <=> ResultOf(r) # "TIMEOUT"
  /\ UNCHANGED interceptor

Recorded ==
  /\ \E r \in Request : Record(r)
  /\ UNCHANGED <<simVars, interceptor>>

Clockwork ==
  /\ Quiet
  /\ ClockStep
  /\ UNCHANGED <<vars, interceptor>>

Run == PassThrough \/ Intercepted \/ Performed \/ Recorded \/ Clockwork

After == Aftermath /\ UNCHANGED <<vars, interceptor>>

ManagedNext == Run \/ After

(* The runner runs to its end; what operators do afterwards is up to them.   *)
ManagedSpec == ManagedInit /\ [][ManagedNext]_managedVars /\ WF_managedVars(Run)

-----------------------------------------------------------------------------
InsideOnly(objects) == {n \in DOMAIN objects : scenario[objects[n].by].inside}

(* Under the gateway agents who know nothing of each other make at most one  *)
(* primary remedy between them: one refund, or one label, or one stock       *)
(* reservation, whatever the order of their actions and the timeouts.        *)
OnePrimaryRemedy ==
  interceptor = "ISOPACT" =>
    Cardinality(InsideOnly(refunds)) + Cardinality(InsideOnly(shipments))
      + Cardinality(InsideOnly(stock)) <= 1

(* Every remedy of the scenario is put to the gateway.  How much it asks is   *)
(* its own affair: intercept compares a credit with the pact's limit, and no  *)
(* refund or label with the order.                                          *)
Enforced ==
  /\ interceptor = "ISOPACT"
  /\ \A i \in DOMAIN scenario :
       scenario[i].tool \notin {"create_ticket", "close_ticket"} => scenario[i].inside

PrimaryAmount ==
  {0} \cup {scenario[i].amount : i \in {j \in DOMAIN scenario : scenario[j].tool \in Primary}}

(* When every remedy crosses the boundary, the customer is given, or is to be *)
(* given, no more than one primary remedy asks for and the goodwill the pact  *)
(* allows.  Only when no remedy asks for more than the order does that keep   *)
(* the position within the goodwill of the order.                           *)
ExposureContained ==
  Enforced => \E v \in PrimaryAmount : PositionIn(book, now).total <= v + GoodwillLimit

(* What the reservation says of a request that was granted is what the       *)
(* services say: confirmed when there is an object (or one was found under   *)
(* its key), unknown only when the call did nothing, still executing only    *)
(* after the run broke with the object made and its outcome never recorded.  *)
ObjectOf(r) ==
  \E objects \in {refunds, shipments, stock, credits} :
    \E n \in DOMAIN objects : scenario[objects[n].by] = r

ReservationsMatchServices ==
  \A r \in Request : Quiet /\ pc[r] = "done" /\ attemptOf[r] > 0 =>
    CASE resState[OpOf[r]] = "CONFIRMED" ->
           ObjectOf(r) \/ (r.tool = "create_refund" /\ KnownKey(r.key))
      [] resState[OpOf[r]] = "OUTCOME_UNKNOWN" -> ~ObjectOf(r)
      [] resState[OpOf[r]] = "EXECUTING" -> stage = "aborted" /\ ObjectOf(r)
      [] OTHER -> FALSE
=============================================================================
