------------------------------- MODULE Simulator -------------------------------
(***************************************************************************)
(* The enterprise the gateway is tried on: a ticket system, a payment       *)
(* service, a carrier, a warehouse and a CRM that know nothing of each      *)
(* other, the economic ledger two of them and the CRM append to, a virtual  *)
(* clock with a queue of events, and the runner that plays a scenario and   *)
(* takes a snapshot of the economic position at the contradiction time.     *)
(*                                                                          *)
(* One step is one event handler or one part of it between two calls of the *)
(* interceptor.  Abstracted: identifiers, actors, currencies, the           *)
(* provenance of a position and the comments of a ticket.  A scenario has   *)
(* one order and one ticket.                                                *)
(***************************************************************************)
EXTENDS Naturals, Sequences, FiniteSets, FiniteSetsExt

CONSTANTS
  Scenario,           \* sequences of scheduled actions
  ContradictionTime,  \* when the runner takes its first snapshot
  OriginalValue,      \* original_minor_units of the order
  NoTime,             \* a refund nobody settles
  Idle                \* no event is being handled

RefundState == {"PENDING", "SUCCEEDED", "FAILED"}

ShipmentState == {"CREATED", "ACCEPTED", "DISPATCHED", "CANCELLED"}

StockState == {"RESERVED", "RELEASED", "DISPATCHED"}

(* Nothing in the code marks a credit USED.                                 *)
CreditState == {"ISSUED", "USED", "REVERSED"}

EconomicPhase == {"PROJECTED", "PENDING", "SETTLED", "FAILED", "REVERSED"}

Tool == {"create_ticket", "close_ticket", "create_refund", "create_label",
         "reserve_stock", "issue_credit"}

(* "inside" stands for enforcement_boundary; a tool names its system.       *)
IsScheduledAction(a) ==
  /\ a.tool \in Tool
  /\ a.time \in Nat /\ a.amount \in Nat
  /\ a.settleAt \in Nat \cup {NoTime}
  /\ a.outcome \in {"SUCCEEDED", "FAILED"}
  /\ a.timeout \in BOOLEAN /\ a.inside \in BOOLEAN /\ a.authorized \in BOOLEAN

IsScenario(s) ==
  /\ s \in Seq({s[i] : i \in DOMAIN s})
  /\ \A i \in DOMAIN s : IsScheduledAction(s[i])

ASSUME SimulatorAssumption ==
  /\ \A s \in Scenario : IsScenario(s)
  /\ ContradictionTime \in Nat /\ OriginalValue \in Nat
  /\ NoTime \notin Nat

VARIABLES
  scenario,    \* the scenario being played
  now,         \* logical time
  queue,       \* scheduled events: [time, sequence, event]
  scheduled,   \* sequence number of the event scheduled last
  current,     \* the event being handled
  ticket,      \* status of the ticket, "ABSENT" before it is created
  refunds,     \* refunds of the payment service, by number
  shipments,   \* labels of the carrier, by number
  stock,       \* stock reservations of the warehouse, by number
  credits,     \* credits of the CRM, by number
  book,        \* economic events, in the order they were appended
  results,     \* what the runner recorded of each action
  checkpoint,  \* position at the contradiction, Idle before
  stage        \* "advancing" to the contradiction, "draining", "over", "aborted"

clockVars == <<now, queue, scheduled>>
serviceVars == <<ticket, refunds, shipments, stock, credits>>
runnerVars == <<scenario, current, results, checkpoint, stage>>
simVars == <<clockVars, serviceVars, book, runnerVars>>

Running == stage \in {"advancing", "draining"}

-----------------------------------------------------------------------------
(* EconomicEvent *)
Entry(time, object, phase, amount, exception) ==
  [time |-> time, object |-> object, phase |-> phase, amount |-> amount, exception |-> exception]

Enter(object, phase, amount, exception) ==
  book' = Append(book, Entry(now, object, phase, amount, exception))

(* The entries that count at a time: the last one of each object until then. *)
LatestIn(entries, asOf) ==
  {n \in DOMAIN entries :
     /\ entries[n].time <= asOf
     /\ \A m \in DOMAIN entries :
          m > n /\ entries[m].object = entries[n].object => entries[m].time > asOf}

Counted(entries, asOf, phases) == {n \in LatestIn(entries, asOf) : entries[n].phase \in phases}

SumIn(entries, numbers) == SumFunctionOnSet([n \in numbers |-> entries[n].amount], numbers)

(* EconomicLedger.position; whatever failed or was reversed counts nothing. *)
PositionIn(entries, asOf) ==
  LET settled == SumIn(entries, Counted(entries, asOf, {"SETTLED"}))
      pending == SumIn(entries, Counted(entries, asOf, {"PENDING"}))
      projected == SumIn(entries, Counted(entries, asOf, {"PROJECTED"}))
      total == settled + pending + projected
      open == Counted(entries, asOf, {"SETTLED", "PENDING", "PROJECTED"})
  IN  [settled   |-> settled,
       pending   |-> pending,
       projected |-> projected,
       total     |-> total,
       excess    |-> IF total > OriginalValue THEN total - OriginalValue ELSE 0,
       exception |-> SumIn(entries, {n \in open : entries[n].exception})]

-----------------------------------------------------------------------------
(* The clock: the earliest event first, of equal times the one scheduled    *)
(* first.                                                                   *)
Before(e, d) == e.time < d.time \/ (e.time = d.time /\ e.sequence < d.sequence)

Earliest(events) == CHOOSE e \in events : \A d \in events \ {e} : Before(e, d)

QueuedEvent(time, sequence, event) == [time |-> time, sequence |-> sequence, event |-> event]

Schedule(time, event) ==
  /\ scheduled' = scheduled + 1
  /\ queue' = queue \cup {QueuedEvent(time, scheduled + 1, event)}

(* Mutant: once time is at the contradiction nothing more becomes due.       *)
DueUntilContradiction == {e \in queue : e.time <= ContradictionTime}

(* Mutant: advance_to stops short of the time it is to advance to.           *)
DueBefore == {e \in queue : stage = "draining" \/ e.time < ContradictionTime}

(* advance_to takes what lies before its target, run_until_idle everything.  *)
Due == {e \in queue : stage = "draining" \/ e.time <= ContradictionTime}

ActionEvent(i) == [kind |-> "action", action |-> i, refund |-> 0, outcome |-> ""]

SettlementEvent(n, outcome) ==
  [kind |-> "settlement", action |-> 0, refund |-> n, outcome |-> outcome]

HandlingAction == current # Idle /\ current.kind = "action"

Action == scenario[current.action]

SimInit ==
  /\ scenario \in Scenario
  /\ now = 0
  /\ scheduled = Len(scenario)
  /\ queue = {QueuedEvent(scenario[i].time, i, ActionEvent(i)) : i \in DOMAIN scenario}
  /\ current = Idle
  /\ ticket = "ABSENT"
  /\ refunds = <<>>
  /\ shipments = <<>>
  /\ stock = <<>>
  /\ credits = <<>>
  /\ book = <<>>
  /\ results = <<>>
  /\ checkpoint = Idle
  /\ stage = "advancing"

(* advance_to takes the next event that is due, and time jumps to it.       *)
Dequeue ==
  /\ Running /\ current = Idle
  /\ Due # {}
  /\ LET e == Earliest(Due) IN
       /\ now' = e.time
       /\ queue' = queue \ {e}
       /\ current' = e.event
  /\ UNCHANGED <<scenario, scheduled, serviceVars, book, results, checkpoint, stage>>

(* The part of a snapshot that is kept.                                     *)
Snapshot(asOf) == PositionIn(book, asOf)

(* Nothing more is due before the contradiction: time moves there and the   *)
(* first snapshot is taken.                                                 *)
Contradict ==
  /\ stage = "advancing" /\ current = Idle
  /\ Due = {}
  /\ now' = ContradictionTime
  /\ checkpoint' = Snapshot(ContradictionTime)
  /\ stage' = "draining"
  /\ UNCHANGED <<scenario, queue, scheduled, current, serviceVars, book, results>>

(* run_until_idle has returned, and the final snapshot is taken.            *)
Finish ==
  /\ stage = "draining" /\ current = Idle
  /\ queue = {}
  /\ stage' = "over"
  /\ UNCHANGED <<clockVars, serviceVars, book, scenario, current, results, checkpoint>>

-----------------------------------------------------------------------------
ActionResult(executed, status) ==
  [action |-> current.action, time |-> now, executed |-> executed, status |-> status]

(* The runner records what became of the action it handles, or dies of the  *)
(* exception the service raised.                                            *)
Return(executed, status) ==
  /\ results' = Append(results, ActionResult(executed, status))
  /\ current' = Idle
  /\ UNCHANGED <<scenario, checkpoint, stage>>

Raise ==
  /\ stage' = "aborted"
  /\ current' = Idle
  /\ UNCHANGED <<scenario, results, checkpoint>>

(* The interceptor's answer was not ALLOW: no service is called.            *)
NotExecuted ==
  /\ HandlingAction
  /\ Return(FALSE, "NOT_EXECUTED")
  /\ UNCHANGED <<clockVars, serviceVars, book>>

CreateTicket ==
  /\ HandlingAction /\ Action.tool = "create_ticket"
  /\ ticket' = "OPEN"
  /\ Return(TRUE, "OK")
  /\ UNCHANGED <<clockVars, refunds, shipments, stock, credits, book>>

CloseTicket ==
  /\ HandlingAction /\ Action.tool = "close_ticket"
  /\ IF ticket = "ABSENT"
     THEN Raise /\ UNCHANGED ticket
     ELSE Return(TRUE, "OK") /\ ticket' = "CLOSED"
  /\ UNCHANGED <<clockVars, refunds, shipments, stock, credits, book>>

KnownKey(key) == \E n \in DOMAIN refunds : refunds[n].key = key

NewRefund(a) ==
  refunds' = Append(refunds, [key |-> a.key, amount |-> a.amount, state |-> "PENDING",
                              by |-> current.action])

(* A call that times out does nothing; a known key finds its refund; a new  *)
(* refund is pending until its settlement comes, if one can be scheduled.   *)
CreateRefund ==
  LET n == Len(refunds) + 1 IN
  /\ HandlingAction /\ Action.tool = "create_refund"
  /\ \/ /\ Action.timeout
        /\ Return(TRUE, "TIMEOUT")
        /\ UNCHANGED <<queue, scheduled, refunds, book>>
     \/ /\ ~Action.timeout /\ KnownKey(Action.key)
        /\ Return(TRUE, "OK")
        /\ UNCHANGED <<queue, scheduled, refunds, book>>
     \/ /\ ~Action.timeout /\ ~KnownKey(Action.key)
        /\ NewRefund(Action)
        /\ Enter(<<"refund", n>>, "PENDING", Action.amount, FALSE)
        /\ IF Action.settleAt # NoTime /\ Action.settleAt < now
           THEN Raise /\ UNCHANGED <<queue, scheduled>>
           ELSE /\ Return(TRUE, "OK")
                /\ IF Action.settleAt = NoTime
                   THEN UNCHANGED <<queue, scheduled>>
                   ELSE Schedule(Action.settleAt, SettlementEvent(n, Action.outcome))
  /\ UNCHANGED <<now, ticket, shipments, stock, credits>>

CreateLabel ==
  /\ HandlingAction /\ Action.tool = "create_label"
  /\ shipments' = Append(shipments, [amount |-> Action.amount, state |-> "CREATED",
                                     by |-> current.action])
  /\ Enter(<<"shipment", Len(shipments) + 1>>, "PROJECTED", Action.amount, FALSE)
  /\ Return(TRUE, "OK")
  /\ UNCHANGED <<clockVars, ticket, refunds, stock, credits>>

ReserveStock ==
  /\ HandlingAction /\ Action.tool = "reserve_stock"
  /\ stock' = Append(stock, [state |-> "RESERVED", by |-> current.action])
  /\ Return(TRUE, "OK")
  /\ UNCHANGED <<clockVars, ticket, refunds, shipments, credits, book>>

IssueCredit ==
  /\ HandlingAction /\ Action.tool = "issue_credit"
  /\ credits' = Append(credits, [amount |-> Action.amount, state |-> "ISSUED",
                                 by |-> current.action])
  /\ Enter(<<"credit", Len(credits) + 1>>, "SETTLED", Action.amount, TRUE)
  /\ Return(TRUE, "OK")
  /\ UNCHANGED <<clockVars, ticket, refunds, shipments, stock>>

(* ScenarioRunner._dispatch *)
Dispatch ==
  CreateTicket \/ CloseTicket \/ CreateRefund \/ CreateLabel \/ ReserveStock \/ IssueCredit

(* The settlement of a refund, as it was scheduled when it was created.     *)
Settle ==
  /\ current # Idle /\ current.kind = "settlement"
  /\ LET n == current.refund IN
       /\ refunds' = [refunds EXCEPT ![n].state = current.outcome]
       /\ Enter(<<"refund", n>>, IF current.outcome = "SUCCEEDED" THEN "SETTLED" ELSE "FAILED",
                refunds[n].amount, FALSE)
  /\ current' = Idle
  /\ UNCHANGED <<clockVars, ticket, shipments, stock, credits, scenario, results, checkpoint, stage>>

-----------------------------------------------------------------------------
(* After the run the services are still there: a carrier accepts and         *)
(* dispatches, operators and the compensation port cancel, release, reopen   *)
(* and reverse, each from the states the service accepts.  Another state     *)
(* raises and changes nothing.                                              *)
AtRest(rest) == stage = "over" /\ UNCHANGED <<clockVars, runnerVars, rest>>

Accept(n) ==
  /\ shipments[n].state = "CREATED"
  /\ shipments' = [shipments EXCEPT ![n].state = "ACCEPTED"]
  /\ AtRest(<<ticket, refunds, stock, credits, book>>)

DispatchLabel(n) ==
  /\ shipments[n].state \in {"CREATED", "ACCEPTED"}
  /\ shipments' = [shipments EXCEPT ![n].state = "DISPATCHED"]
  /\ Enter(<<"shipment", n>>, "SETTLED", shipments[n].amount, FALSE)
  /\ AtRest(<<ticket, refunds, stock, credits>>)

(* Mutant: an accepted label is cancelled as if it were only created, and    *)
(* the cancellation is not entered in the ledger.                            *)
CancelUnbooked(n) ==
  /\ shipments[n].state \in {"CREATED", "ACCEPTED"}
  /\ shipments' = [shipments EXCEPT ![n].state = "CANCELLED"]
  /\ AtRest(<<ticket, refunds, stock, credits, book>>)

Cancel(n) ==
  /\ shipments[n].state = "CREATED"
  /\ shipments' = [shipments EXCEPT ![n].state = "CANCELLED"]
  /\ Enter(<<"shipment", n>>, "REVERSED", shipments[n].amount, FALSE)
  /\ AtRest(<<ticket, refunds, stock, credits>>)

Release(n) ==
  /\ stock[n].state = "RESERVED"
  /\ stock' = [stock EXCEPT ![n].state = "RELEASED"]
  /\ AtRest(<<ticket, refunds, shipments, credits, book>>)

DispatchStock(n) ==
  /\ stock[n].state = "RESERVED"
  /\ stock' = [stock EXCEPT ![n].state = "DISPATCHED"]
  /\ AtRest(<<ticket, refunds, shipments, credits, book>>)

ReverseCredit(n) ==
  /\ credits[n].state = "ISSUED"
  /\ credits' = [credits EXCEPT ![n].state = "REVERSED"]
  /\ Enter(<<"credit", n>>, "REVERSED", credits[n].amount, TRUE)
  /\ AtRest(<<ticket, refunds, shipments, stock>>)

ReopenTicket ==
  /\ ticket = "CLOSED"
  /\ ticket' = "OPEN"
  /\ AtRest(<<refunds, shipments, stock, credits, book>>)

Aftermath ==
  \/ \E n \in DOMAIN shipments : Accept(n) \/ DispatchLabel(n) \/ Cancel(n)
  \/ \E n \in DOMAIN stock : Release(n) \/ DispatchStock(n)
  \/ \E n \in DOMAIN credits : ReverseCredit(n)
  \/ ReopenTicket

(* What the clock and the runner do of themselves.                          *)
ClockStep == Dequeue \/ Contradict \/ Settle \/ Finish

-----------------------------------------------------------------------------
(* The services, the clock and the runner hold values of their kinds; every  *)
(* result is of an action of the scenario, and time never runs ahead of what *)
(* is queued.                                                               *)
SimTypeOK ==
  /\ now \in Nat /\ scheduled \in Nat
  /\ \A e \in queue : e.time >= now /\ e.sequence \in 1..scheduled
  /\ ticket \in {"ABSENT", "OPEN", "CLOSED"}
  /\ \A n \in DOMAIN refunds : refunds[n].state \in RefundState
  /\ \A n \in DOMAIN shipments : shipments[n].state \in ShipmentState
  /\ \A n \in DOMAIN stock : stock[n].state \in StockState
  /\ \A n \in DOMAIN credits : credits[n].state \in CreditState
  /\ \A n \in DOMAIN book : book[n].phase \in EconomicPhase /\ book[n].time <= now
  /\ \A i \in DOMAIN results : results[i].action \in DOMAIN scenario
  /\ stage \in {"advancing", "draining", "over", "aborted"}

ObjectsIn(objects, states) == {n \in DOMAIN objects : objects[n].state \in states}

(* The ledger is an account of the services nobody keeps in step but their   *)
(* own handlers: at any moment the position equals what the states of the    *)
(* refunds, labels and credits say, in each of its parts.                    *)
BooksMatchServices ==
  PositionIn(book, now) =
    LET settled == SumIn(refunds, ObjectsIn(refunds, {"SUCCEEDED"}))
                 + SumIn(shipments, ObjectsIn(shipments, {"DISPATCHED"}))
                 + SumIn(credits, ObjectsIn(credits, {"ISSUED"}))
        pending == SumIn(refunds, ObjectsIn(refunds, {"PENDING"}))
        projected == SumIn(shipments, ObjectsIn(shipments, {"CREATED", "ACCEPTED"}))
        total == settled + pending + projected
    IN  [settled |-> settled, pending |-> pending, projected |-> projected, total |-> total,
         excess |-> IF total > OriginalValue THEN total - OriginalValue ELSE 0,
         exception |-> SumIn(credits, ObjectsIn(credits, {"ISSUED"}))]

(* The snapshot of the contradiction is what the ledger says of that moment  *)
(* ever after: nothing due by then is still to come.  Only operators who act  *)
(* before time has moved on can still change it.                             *)
CheckpointStands ==
  checkpoint # Idle /\ (stage # "over" \/ now > ContradictionTime) =>
    checkpoint = Snapshot(ContradictionTime)

(* A refund that was promised a settlement gets it, whatever else is queued, *)
(* unless a settlement promised for the past has broken the run.             *)
SettlementsArrive ==
  \A i \in 1..3 :
    (i \in DOMAIN refunds /\ refunds[i].state = "PENDING"
       /\ scenario[refunds[i].by].settleAt # NoTime)
      ~> (stage = "aborted" \/ (i \in DOMAIN refunds /\ refunds[i].state # "PENDING"))
=============================================================================
