------------------------- MODULE ManagedScenarioProofs -------------------------
(***************************************************************************)
(* What holds of every scenario, of any length, with any actions at any     *)
(* times, played with the gateway or without it: the clock, the ledger and  *)
(* the snapshot of the simulator first, then the simulator with the gateway *)
(* in front of it, whose invariants are those of GatewayProofs.             *)
(***************************************************************************)
EXTENDS ManagedScenario, GatewayProofs, SumTheorems

-----------------------------------------------------------------------------
(* The argument.  An action of the scenario is one event, which is handled  *)
(* once; so every object of a service has an action of its own.  What is    *)
(* inside the boundary was let through by the gateway, whose invariant says *)
(* which of the actions those are.  Each entry of the ledger follows an      *)
(* object, and the last one of an object says what the object is.           *)
ScheduledActions == UNION {{s[i] : i \in DOMAIN s} : s \in Scenario}

IsEvent(e) ==
  \/ \E i \in DOMAIN scenario : e = ActionEvent(i)
  \/ \E n \in DOMAIN refunds, outcome \in {"SUCCEEDED", "FAILED"} : e = SettlementEvent(n, outcome)

(* Events are of their kinds and lie ahead; no two were scheduled at once.   *)
ClockInv ==
  /\ now \in Nat /\ scheduled \in Nat /\ scenario \in Scenario
  /\ \A e \in queue : /\ e.time \in Nat /\ e.time >= now
                      /\ e.sequence \in 1..scheduled
                      /\ IsEvent(e.event)
  /\ \A d \in queue, e \in queue : d.sequence = e.sequence => d = e
  /\ current # Idle => IsEvent(current)
  /\ stage \in {"advancing", "draining", "over", "aborted"}
  /\ current # Idle => Running
  /\ stage = "advancing" => now <= ContradictionTime

(* What a step of a managed scenario is to the simulator.                   *)
SimNext == NotExecuted \/ Dispatch \/ ClockStep \/ Aftermath

LEMMA SimStep ==
  ASSUME [ManagedNext]_managedVars
  PROVE  [SimNext]_simVars
  BY DEF ManagedNext, managedVars, Run, After, PassThrough, Intercepted, Performed, Recorded,
         Clockwork, SimNext

(* A scenario is a sequence of actions of their kinds.                      *)
LEMMA ScenarioTyped ==
  ASSUME scenario \in Scenario
  PROVE  /\ Len(scenario) \in Nat /\ DOMAIN scenario = 1..Len(scenario)
         /\ \A i \in DOMAIN scenario : /\ IsScheduledAction(scenario[i])
                                       /\ scenario[i] \in ScheduledActions
<1>1. IsScenario(scenario)
  BY SimulatorAssumption
<1>2. scenario \in Seq({scenario[i] : i \in DOMAIN scenario})
  BY <1>1 DEF IsScenario
<1>3. Len(scenario) \in Nat /\ DOMAIN scenario = 1..Len(scenario)
  BY <1>2
<1>4. \A i \in DOMAIN scenario : scenario[i] \in ScheduledActions
  BY DEF ScheduledActions
<1>5. QED
  BY <1>1, <1>3, <1>4 DEF IsScenario

(* The earliest event that is due is one of them, and comes before them all. *)
LEMMA EarliestFound ==
  ASSUME ClockInv, Due # {}
  PROVE  /\ Earliest(Due) \in Due
         /\ \A d \in Due : Earliest(Due).time <= d.time
<1>. DEFINE Times == {e.time : e \in Due}
<1>1. \A e \in Due : e \in queue /\ e.time \in Nat /\ e.sequence \in Nat
  BY DEF ClockInv, Due
<1>2. PICK t \in Times : \A s \in Times : t <= s
  BY <1>1, LeastNumber
<1>. DEFINE First == {e \in Due : e.time = t}
            Numbers == {e.sequence : e \in First}
<1>3. PICK s \in Numbers : \A r \in Numbers : s <= r
  <2>1. Numbers \in SUBSET Nat /\ Numbers # {}
    BY <1>1
  <2>2. QED
    BY <2>1, LeastNumber
<1>4. PICK e \in First : e.sequence = s
  OBVIOUS
<1>5. \A d \in Due \ {e} : Before(e, d)
  <2> SUFFICES ASSUME NEW d \in Due, d # e
               PROVE  Before(e, d)
    OBVIOUS
  <2>1. t <= d.time /\ e.time = t
    BY <1>2
  <2>2. CASE d.time = t
    <3>1. s <= d.sequence
      BY <1>3, <2>2
    <3>2. e.sequence # d.sequence
      BY <1>1 DEF ClockInv
    <3>3. QED
      BY <1>1, <1>4, <2>1, <2>2, <3>1, <3>2 DEF Before
  <2>3. CASE d.time # t
    BY <1>1, <2>1, <2>3 DEF Before
  <2>4. QED
    BY <2>2, <2>3
<1>6. /\ Earliest(Due) \in Due
      /\ \A d \in Due \ {Earliest(Due)} : Before(Earliest(Due), d)
  BY <1>5 DEF Earliest
<1>7. QED
  BY <1>1, <1>6 DEF Before

LEMMA ClockInit == SimInit => ClockInv
<1> SUFFICES ASSUME SimInit
             PROVE  ClockInv
  OBVIOUS
<1>1. Len(scenario) \in Nat /\ DOMAIN scenario = 1..Len(scenario)
  BY ScenarioTyped DEF SimInit
<1>2. \A i \in DOMAIN scenario : scenario[i].time \in Nat
  BY ScenarioTyped DEF SimInit, IsScheduledAction
<1>3. \A e \in queue : \E i \in DOMAIN scenario :
        e.time = scenario[i].time /\ e.sequence = i /\ e.event = ActionEvent(i)
        /\ e = QueuedEvent(scenario[i].time, i, ActionEvent(i))
  BY DEF SimInit, QueuedEvent
<1>4. \A e \in queue : /\ e.time \in Nat /\ e.time >= now
                       /\ e.sequence \in 1..scheduled /\ IsEvent(e.event)
  <2>1. now = 0 /\ scheduled = Len(scenario)
    BY DEF SimInit
  <2>2. QED
    BY <1>1, <1>2, <1>3, <2>1 DEF IsEvent
<1>5. \A d \in queue, e \in queue : d.sequence = e.sequence => d = e
  BY <1>3
<1>6. /\ now = 0 /\ scheduled = Len(scenario) /\ scenario \in Scenario
      /\ current = Idle /\ stage = "advancing" /\ now <= ContradictionTime
  BY SimulatorAssumption DEF SimInit
<1>7. QED
  BY <1>1, <1>4, <1>5, <1>6 DEF ClockInv

(* An event of the scenario's actions stays one, and so does a settlement.  *)
LEMMA EventsStay ==
  ASSUME UNCHANGED scenario, DOMAIN refunds \subseteq DOMAIN refunds', NEW e, IsEvent(e)
  PROVE  IsEvent(e)'
  BY DEF IsEvent, ActionEvent, SettlementEvent

(* A step that leaves the clock alone and, at most, ends what is handled.   *)
LEMMA ClockStays ==
  ASSUME ClockInv, UNCHANGED <<scenario, clockVars>>,
         DOMAIN refunds \subseteq DOMAIN refunds',
         \/ current' = Idle /\ stage' \in {stage, "aborted"}
         \/ UNCHANGED <<current, stage>>
  PROVE  ClockInv'
<1>1. \A e \in queue : IsEvent(e.event)'
  BY EventsStay DEF ClockInv
<1>2. current' # Idle => IsEvent(current)'
  BY DEF ClockInv, IsEvent
<1>3. QED
  BY <1>1, <1>2 DEF ClockInv, clockVars, Running

-----------------------------------------------------------------------------
(* The objects of the services; a credit is never USED.                     *)
Refund == [key : {a.key : a \in ScheduledActions}, amount : Nat, state : RefundState, by : Nat]
Shipment == [amount : Nat, state : ShipmentState, by : Nat]
StockReservation == [state : StockState, by : Nat]
Credit == [amount : Nat, state : {"ISSUED", "REVERSED"}, by : Nat]

ServicesTyped ==
  /\ ticket \in {"ABSENT", "OPEN", "CLOSED"}
  /\ refunds \in Seq(Refund) /\ shipments \in Seq(Shipment)
  /\ stock \in Seq(StockReservation) /\ credits \in Seq(Credit)

(* Appending to a sequence changes nothing that was in it.                  *)
LEMMA AppendFacts ==
  ASSUME NEW S, NEW s \in Seq(S), NEW x \in S
  PROVE  /\ Append(s, x) \in Seq(S)
         /\ DOMAIN s = 1..Len(s) /\ Len(s) \in Nat
         /\ DOMAIN Append(s, x) = DOMAIN s \cup {Len(s) + 1}
         /\ Len(s) + 1 \notin DOMAIN s
         /\ \A n \in DOMAIN s : Append(s, x)[n] = s[n]
         /\ Append(s, x)[Len(s) + 1] = x
  OBVIOUS

(* Giving one of its elements another state changes no other.               *)
LEMMA UpdateFacts ==
  ASSUME NEW S, NEW s \in Seq(S), NEW n \in DOMAIN s, NEW v, [s[n] EXCEPT !.state = v] \in S
  PROVE  /\ [s EXCEPT ![n].state = v] \in Seq(S)
         /\ DOMAIN [s EXCEPT ![n].state = v] = DOMAIN s
         /\ \A m \in DOMAIN s \ {n} : [s EXCEPT ![n].state = v][m] = s[m]
         /\ [s EXCEPT ![n].state = v][n] = [s[n] EXCEPT !.state = v]
<1>. DEFINE t == [s EXCEPT ![n].state = v]
<1>1. t = [m \in 1..Len(s) |-> IF m = n THEN [s[n] EXCEPT !.state = v] ELSE s[m]]
  OBVIOUS
<1>2. \A m \in 1..Len(s) : t[m] \in S
  BY <1>1
<1>3. t \in Seq(S)
  BY <1>1, <1>2
<1>4. QED
  BY <1>1, <1>3

(* What is handled is an action of the scenario, or a settlement promised   *)
(* for a refund that was made.                                              *)
LEMMA ActionTyped ==
  ASSUME ClockInv, HandlingAction
  PROVE  /\ current = ActionEvent(current.action)
         /\ current.action \in DOMAIN scenario /\ current.action \in Nat
         /\ IsScheduledAction(Action) /\ Action \in ScheduledActions
         /\ Running
<1>1. PICK i \in DOMAIN scenario : current = ActionEvent(i)
  BY DEF ClockInv, HandlingAction, IsEvent, SettlementEvent
<1>2. current.action = i
  BY <1>1 DEF ActionEvent
<1>3. QED
  BY <1>1, <1>2, ScenarioTyped DEF ClockInv, HandlingAction, Action

LEMMA SettlementTyped ==
  ASSUME ClockInv, current # Idle, current.kind = "settlement"
  PROVE  current.refund \in DOMAIN refunds /\ current.outcome \in {"SUCCEEDED", "FAILED"}
<1>1. \A i : ActionEvent(i).kind = "action"
  BY DEF ActionEvent
<1>2. PICK n \in DOMAIN refunds, outcome \in {"SUCCEEDED", "FAILED"} :
        current = SettlementEvent(n, outcome)
  BY <1>1 DEF ClockInv, IsEvent
<1>3. QED
  BY <1>2 DEF SettlementEvent

LEMMA ObjectsTyped ==
  ASSUME ServicesTyped
  PROVE  /\ \A n \in DOMAIN refunds : refunds[n] \in Refund
         /\ \A n \in DOMAIN shipments : shipments[n] \in Shipment
         /\ \A n \in DOMAIN stock : stock[n] \in StockReservation
         /\ \A n \in DOMAIN credits : credits[n] \in Credit
  BY DEF ServicesTyped

LEMMA NewRefundTyped ==
  ASSUME ClockInv, HandlingAction, NewRefund(Action), ServicesTyped
  PROVE  /\ refunds' \in Seq(Refund)
         /\ DOMAIN refunds' = DOMAIN refunds \cup {Len(refunds) + 1}
         /\ Len(refunds) + 1 \notin DOMAIN refunds
         /\ \A n \in DOMAIN refunds : refunds'[n] = refunds[n]
         /\ refunds'[Len(refunds) + 1] =
              [key |-> Action.key, amount |-> Action.amount, state |-> "PENDING",
               by |-> current.action]
<1>1. [key |-> Action.key, amount |-> Action.amount, state |-> "PENDING",
       by |-> current.action] \in Refund
  BY ActionTyped DEF Refund, IsScheduledAction, RefundState
<1>2. QED
  BY <1>1, AppendFacts DEF NewRefund, ServicesTyped

LEMMA ServicesTypedInit == SimInit => ServicesTyped
  BY DEF SimInit, ServicesTyped

LEMMA ServicesTypedNext ==
  ASSUME ClockInv, ServicesTyped, [SimNext]_simVars
  PROVE  ServicesTyped'
<1>1. CASE UNCHANGED serviceVars
  BY <1>1 DEF serviceVars, ServicesTyped
<1>2. CASE Dispatch
  <2>1. CASE CreateTicket \/ CloseTicket
    BY <2>1 DEF CreateTicket, CloseTicket, ServicesTyped
  <2>2. CASE CreateRefund
    BY <2>2, NewRefundTyped DEF CreateRefund, ServicesTyped
  <2>3. CASE CreateLabel
    BY <2>3, ActionTyped, AppendFacts
    DEF CreateLabel, ServicesTyped, Shipment, ShipmentState, IsScheduledAction
  <2>4. CASE ReserveStock
    BY <2>4, ActionTyped, AppendFacts DEF ReserveStock, ServicesTyped, StockReservation, StockState
  <2>5. CASE IssueCredit
    BY <2>5, ActionTyped, AppendFacts DEF IssueCredit, ServicesTyped, Credit, IsScheduledAction
  <2>6. QED
    BY <1>2, <2>1, <2>2, <2>3, <2>4, <2>5 DEF Dispatch
<1>3. CASE Settle
  <2>1. current.refund \in DOMAIN refunds /\ current.outcome \in RefundState
    BY <1>3, SettlementTyped DEF Settle, RefundState
  <2>2. refunds[current.refund] \in Refund
    BY <2>1, ObjectsTyped
  <2>3. [refunds[current.refund] EXCEPT !.state = current.outcome] \in Refund
    BY <2>1, <2>2 DEF Refund
  <2>4. refunds' \in Seq(Refund)
    BY <1>3, <2>1, <2>3, UpdateFacts DEF Settle, ServicesTyped
  <2>5. QED
    BY <1>3, <2>4 DEF Settle, ServicesTyped
<1>4. CASE Aftermath
  <2>1. ASSUME NEW n \in DOMAIN shipments, Accept(n) \/ DispatchLabel(n) \/ Cancel(n)
        PROVE  ServicesTyped'
    <3>1. PICK v \in ShipmentState : shipments' = [shipments EXCEPT ![n].state = v]
      BY <2>1 DEF Accept, DispatchLabel, Cancel, ShipmentState
    <3>2. [shipments[n] EXCEPT !.state = v] \in Shipment
      BY ObjectsTyped DEF Shipment
    <3>3. shipments' \in Seq(Shipment)
      BY <3>1, <3>2, UpdateFacts DEF ServicesTyped
    <3>4. QED
      BY <2>1, <3>3 DEF Accept, DispatchLabel, Cancel, AtRest, ServicesTyped
  <2>2. ASSUME NEW n \in DOMAIN stock, Release(n) \/ DispatchStock(n)
        PROVE  ServicesTyped'
    <3>1. PICK v \in StockState : stock' = [stock EXCEPT ![n].state = v]
      BY <2>2 DEF Release, DispatchStock, StockState
    <3>2. [stock[n] EXCEPT !.state = v] \in StockReservation
      BY ObjectsTyped DEF StockReservation
    <3>3. stock' \in Seq(StockReservation)
      BY <3>1, <3>2, UpdateFacts DEF ServicesTyped
    <3>4. QED
      BY <2>2, <3>3 DEF Release, DispatchStock, AtRest, ServicesTyped
  <2>3. ASSUME NEW n \in DOMAIN credits, ReverseCredit(n)
        PROVE  ServicesTyped'
    <3>1. [credits[n] EXCEPT !.state = "REVERSED"] \in Credit
      BY ObjectsTyped DEF Credit
    <3>2. credits' \in Seq(Credit)
      BY <2>3, <3>1, UpdateFacts DEF ServicesTyped, ReverseCredit
    <3>3. QED
      BY <2>3, <3>2 DEF ReverseCredit, AtRest, ServicesTyped
  <2>4. CASE ReopenTicket
    BY <2>4 DEF ReopenTicket, AtRest, ServicesTyped
  <2>5. QED
    BY <1>4, <2>1, <2>2, <2>3, <2>4 DEF Aftermath
<1>5. QED
  BY <1>1, <1>2, <1>3, <1>4
  DEF SimNext, NotExecuted, ClockStep, Dequeue, Contradict, Finish, simVars

(* What a step may do to the objects of a service: those there are stay     *)
(* whose they are, and one more is of the action that is handled, which is  *)
(* over then.                                                               *)
Kept(old, new) ==
  DOMAIN old \subseteq DOMAIN new /\ \A n \in DOMAIN old : new[n].by = old[n].by

AmountsStay(old, new) == \A n \in DOMAIN old : new[n].amount = old[n].amount

OneMore(old, new, tool) ==
  \A n \in DOMAIN new \ DOMAIN old :
    /\ n = Len(old) + 1
    /\ HandlingAction /\ Action.tool = tool /\ new[n].by = current.action
    /\ current' = Idle

RefundsStay ==
  /\ Kept(refunds, refunds') /\ AmountsStay(refunds, refunds')
  /\ \A n \in DOMAIN refunds : refunds'[n].key = refunds[n].key
  /\ OneMore(refunds, refunds', "create_refund")
  /\ \A n \in DOMAIN refunds' \ DOMAIN refunds :
       refunds'[n].amount = Action.amount /\ refunds'[n].key = Action.key /\ ~Action.timeout

ShipmentsStay ==
  /\ Kept(shipments, shipments') /\ AmountsStay(shipments, shipments')
  /\ OneMore(shipments, shipments', "create_label")
  /\ \A n \in DOMAIN shipments' \ DOMAIN shipments : shipments'[n].amount = Action.amount

StockStays == Kept(stock, stock') /\ OneMore(stock, stock', "reserve_stock")

CreditsStay ==
  /\ Kept(credits, credits') /\ AmountsStay(credits, credits')
  /\ OneMore(credits, credits', "issue_credit")
  /\ \A n \in DOMAIN credits' \ DOMAIN credits : credits'[n].amount = Action.amount

LEMMA RefundsStayNext ==
  ASSUME ClockInv, ServicesTyped, [SimNext]_simVars
  PROVE  RefundsStay
<1>1. CASE UNCHANGED refunds
  BY <1>1 DEF RefundsStay, Kept, AmountsStay, OneMore
<1>2. CASE CreateRefund
  <2>1. CASE NewRefund(Action) /\ ~Action.timeout
    <3>1. current' = Idle /\ Action.tool = "create_refund" /\ HandlingAction
      BY <1>2, <2>1 DEF CreateRefund, Return, Raise
    <3>2. QED
      BY <2>1, <3>1, NewRefundTyped DEF RefundsStay, Kept, AmountsStay, OneMore
  <2>2. QED
    BY <1>1, <1>2, <2>1 DEF CreateRefund
<1>3. CASE Settle
  <2>1. current.refund \in DOMAIN refunds /\ current.outcome \in RefundState
    BY <1>3, SettlementTyped DEF Settle, RefundState
  <2>2. refunds[current.refund] \in Refund
    BY <2>1, ObjectsTyped
  <2>3. [refunds[current.refund] EXCEPT !.state = current.outcome] \in Refund
    BY <2>1, <2>2 DEF Refund
  <2>4. /\ DOMAIN refunds' = DOMAIN refunds
        /\ \A m \in DOMAIN refunds \ {current.refund} : refunds'[m] = refunds[m]
        /\ refunds'[current.refund] = [refunds[current.refund] EXCEPT !.state = current.outcome]
    BY <1>3, <2>1, <2>3, UpdateFacts DEF Settle, ServicesTyped
  <2>5. /\ refunds'[current.refund].by = refunds[current.refund].by
        /\ refunds'[current.refund].amount = refunds[current.refund].amount
        /\ refunds'[current.refund].key = refunds[current.refund].key
    BY <2>2, <2>4 DEF Refund
  <2>6. QED
    BY <2>1, <2>4, <2>5 DEF RefundsStay, Kept, AmountsStay, OneMore
<1>4. QED
  BY <1>1, <1>2, <1>3
  DEF SimNext, NotExecuted, ClockStep, Dequeue, Contradict, Finish, simVars, serviceVars, Dispatch,
      CreateTicket, CloseTicket, CreateLabel, ReserveStock, IssueCredit, Aftermath, Accept,
      DispatchLabel, Cancel, Release, DispatchStock, ReverseCredit, ReopenTicket, AtRest

LEMMA ShipmentsStayNext ==
  ASSUME ClockInv, ServicesTyped, [SimNext]_simVars
  PROVE  ShipmentsStay
<1>1. CASE UNCHANGED shipments
  BY <1>1 DEF ShipmentsStay, Kept, AmountsStay, OneMore
<1>2. CASE CreateLabel
  <2>1. [amount |-> Action.amount, state |-> "CREATED", by |-> current.action] \in Shipment
    BY <1>2, ActionTyped DEF CreateLabel, Shipment, ShipmentState, IsScheduledAction
  <2>2. QED
    BY <1>2, <2>1, AppendFacts
    DEF CreateLabel, Return, ServicesTyped, ShipmentsStay, Kept, AmountsStay, OneMore
<1>3. ASSUME NEW n \in DOMAIN shipments, Accept(n) \/ DispatchLabel(n) \/ Cancel(n)
      PROVE  ShipmentsStay
  <2>1. PICK v \in ShipmentState : shipments' = [shipments EXCEPT ![n].state = v]
    BY <1>3 DEF Accept, DispatchLabel, Cancel, ShipmentState
  <2>2. shipments[n] \in Shipment
    BY ObjectsTyped
  <2>3. [shipments[n] EXCEPT !.state = v] \in Shipment
    BY <2>2 DEF Shipment
  <2>4. /\ DOMAIN shipments' = DOMAIN shipments
        /\ \A m \in DOMAIN shipments \ {n} : shipments'[m] = shipments[m]
        /\ shipments'[n] = [shipments[n] EXCEPT !.state = v]
    BY <2>1, <2>3, UpdateFacts DEF ServicesTyped
  <2>5. shipments'[n].by = shipments[n].by /\ shipments'[n].amount = shipments[n].amount
    BY <2>2, <2>4 DEF Shipment
  <2>6. QED
    BY <2>4, <2>5 DEF ShipmentsStay, Kept, AmountsStay, OneMore
<1>4. QED
  BY <1>1, <1>2, <1>3
  DEF SimNext, NotExecuted, ClockStep, Dequeue, Contradict, Settle, Finish, simVars, serviceVars,
      Dispatch, CreateTicket, CloseTicket, CreateRefund, ReserveStock, IssueCredit, Aftermath,
      Release, DispatchStock, ReverseCredit, ReopenTicket, AtRest

LEMMA StockStaysNext ==
  ASSUME ClockInv, ServicesTyped, [SimNext]_simVars
  PROVE  StockStays
<1>1. CASE UNCHANGED stock
  BY <1>1 DEF StockStays, Kept, OneMore
<1>2. CASE ReserveStock
  <2>1. [state |-> "RESERVED", by |-> current.action] \in StockReservation
    BY <1>2, ActionTyped DEF ReserveStock, StockReservation, StockState
  <2>2. QED
    BY <1>2, <2>1, AppendFacts DEF ReserveStock, Return, ServicesTyped, StockStays, Kept, OneMore
<1>3. ASSUME NEW n \in DOMAIN stock, Release(n) \/ DispatchStock(n)
      PROVE  StockStays
  <2>1. PICK v \in StockState : stock' = [stock EXCEPT ![n].state = v]
    BY <1>3 DEF Release, DispatchStock, StockState
  <2>2. stock[n] \in StockReservation
    BY ObjectsTyped
  <2>3. [stock[n] EXCEPT !.state = v] \in StockReservation
    BY <2>2 DEF StockReservation
  <2>4. /\ DOMAIN stock' = DOMAIN stock
        /\ \A m \in DOMAIN stock \ {n} : stock'[m] = stock[m]
        /\ stock'[n] = [stock[n] EXCEPT !.state = v]
    BY <2>1, <2>3, UpdateFacts DEF ServicesTyped
  <2>5. stock'[n].by = stock[n].by
    BY <2>2, <2>4 DEF StockReservation
  <2>6. QED
    BY <2>4, <2>5 DEF StockStays, Kept, OneMore
<1>4. QED
  BY <1>1, <1>2, <1>3
  DEF SimNext, NotExecuted, ClockStep, Dequeue, Contradict, Settle, Finish, simVars, serviceVars,
      Dispatch, CreateTicket, CloseTicket, CreateRefund, CreateLabel, IssueCredit, Aftermath,
      Accept, DispatchLabel, Cancel, ReverseCredit, ReopenTicket, AtRest

LEMMA CreditsStayNext ==
  ASSUME ClockInv, ServicesTyped, [SimNext]_simVars
  PROVE  CreditsStay
<1>1. CASE UNCHANGED credits
  BY <1>1 DEF CreditsStay, Kept, AmountsStay, OneMore
<1>2. CASE IssueCredit
  <2>1. [amount |-> Action.amount, state |-> "ISSUED", by |-> current.action] \in Credit
    BY <1>2, ActionTyped DEF IssueCredit, Credit, IsScheduledAction
  <2>2. QED
    BY <1>2, <2>1, AppendFacts
    DEF IssueCredit, Return, ServicesTyped, CreditsStay, Kept, AmountsStay, OneMore
<1>3. ASSUME NEW n \in DOMAIN credits, ReverseCredit(n)
      PROVE  CreditsStay
  <2>1. credits[n] \in Credit
    BY ObjectsTyped
  <2>2. [credits[n] EXCEPT !.state = "REVERSED"] \in Credit
    BY <2>1 DEF Credit
  <2>3. /\ DOMAIN credits' = DOMAIN credits
        /\ \A m \in DOMAIN credits \ {n} : credits'[m] = credits[m]
        /\ credits'[n] = [credits[n] EXCEPT !.state = "REVERSED"]
    BY <1>3, <2>2, UpdateFacts DEF ServicesTyped, ReverseCredit
  <2>4. credits'[n].by = credits[n].by /\ credits'[n].amount = credits[n].amount
    BY <2>1, <2>3 DEF Credit
  <2>5. QED
    BY <2>3, <2>4 DEF CreditsStay, Kept, AmountsStay, OneMore
<1>4. QED
  BY <1>1, <1>2, <1>3
  DEF SimNext, NotExecuted, ClockStep, Dequeue, Contradict, Settle, Finish, simVars, serviceVars,
      Dispatch, CreateTicket, CloseTicket, CreateRefund, CreateLabel, ReserveStock, Aftermath,
      Accept, DispatchLabel, Cancel, Release, DispatchStock, ReopenTicket, AtRest

(* No step puts an event into the past or gives one the number of another.   *)
LEMMA ClockNext ==
  ASSUME ClockInv, ServicesTyped, [SimNext]_simVars
  PROVE  ClockInv'
<1>1. DOMAIN refunds \subseteq DOMAIN refunds'
  BY RefundsStayNext DEF RefundsStay, Kept
<1>2. CASE UNCHANGED simVars
  BY <1>1, <1>2, ClockStays DEF simVars, runnerVars
<1>3. CASE NotExecuted
  BY <1>1, <1>3, ClockStays DEF NotExecuted, Return
<1>4. CASE Dispatch
  <2>1. CASE UNCHANGED clockVars
    BY <1>1, <1>4, <2>1, ClockStays
    DEF Dispatch, CreateTicket, CloseTicket, CreateRefund, CreateLabel, ReserveStock, IssueCredit,
        Return, Raise
  <2>2. CASE CreateRefund /\ ~UNCHANGED clockVars
    <3>. DEFINE made == QueuedEvent(Action.settleAt, scheduled + 1,
                                    SettlementEvent(Len(refunds) + 1, Action.outcome))
    <3>1. IsScheduledAction(Action) /\ HandlingAction
      BY <2>2, ActionTyped DEF CreateRefund
    <3>2. /\ Action.settleAt # NoTime /\ ~(Action.settleAt < now)
          /\ NewRefund(Action)
          /\ Schedule(Action.settleAt, SettlementEvent(Len(refunds) + 1, Action.outcome))
          /\ UNCHANGED <<now, scenario, stage>> /\ current' = Idle
      BY <2>2 DEF CreateRefund, Return, Raise, clockVars
    <3>3. /\ Action.settleAt \in Nat /\ Action.settleAt >= now
          /\ Action.outcome \in {"SUCCEEDED", "FAILED"}
      BY <3>1, <3>2 DEF IsScheduledAction, ClockInv
    <3>4. PICK new : new = made
      OBVIOUS
    <3>5. /\ new.time = Action.settleAt /\ new.sequence = scheduled + 1
          /\ new.event = SettlementEvent(Len(refunds) + 1, Action.outcome)
          /\ queue' = queue \cup {new} /\ scheduled' = scheduled + 1
      BY <3>2, <3>4 DEF QueuedEvent, Schedule
    <3>6. \A e \in queue' : IsEvent(e.event)'
      <4>1. \A e \in queue : IsEvent(e.event)'
        BY <1>1, <3>2, EventsStay DEF ClockInv
      <4>2. Len(refunds) + 1 \in DOMAIN refunds'
        BY <3>1, <3>2, NewRefundTyped
      <4>3. IsEvent(new.event)'
        BY <3>3, <3>5, <4>2 DEF IsEvent, SettlementEvent
      <4>4. QED
        BY <3>5, <4>1, <4>3
    <3>7. \A e \in queue : e.sequence \in 1..scheduled
      BY DEF ClockInv
    <3>8. QED
      BY <3>2, <3>3, <3>5, <3>6, <3>7 DEF ClockInv
  <2>3. QED
    BY <1>4, <2>1, <2>2
    DEF Dispatch, CreateTicket, CloseTicket, CreateLabel, ReserveStock, IssueCredit
<1>5. CASE Dequeue
  <2>. DEFINE e == Earliest(Due)
  <2>1. e \in queue /\ \A d \in Due : e.time <= d.time
    BY <1>5, EarliestFound DEF Dequeue, Due
  <2>2. now' = e.time /\ queue' = queue \ {e} /\ current' = e.event
    BY <1>5 DEF Dequeue
  <2>3. UNCHANGED <<scenario, scheduled, refunds, stage>> /\ Running
    BY <1>5 DEF Dequeue, serviceVars
  <2>. HIDE DEF e
  <2>4. \A d \in queue : e.time <= d.time
    <3> SUFFICES ASSUME NEW d \in queue, d \notin Due
                 PROVE  e.time <= d.time
      BY <2>1
    <3>1. d.time > ContradictionTime /\ e.time <= ContradictionTime
      BY <2>1, <1>5, EarliestFound, SimulatorAssumption DEF Due, ClockInv, e, Dequeue
    <3>2. QED
      BY <2>1, <3>1, SimulatorAssumption DEF ClockInv
  <2>5. \A d \in queue' : IsEvent(d.event)'
    BY <1>1, <2>2, <2>3, EventsStay DEF ClockInv
  <2>6. IsEvent(current)'
    BY <2>1, <2>2, <2>3 DEF ClockInv, IsEvent
  <2>7. stage = "advancing" => e.time <= ContradictionTime
    BY <1>5, EarliestFound DEF Due, e, Dequeue
  <2>8. QED
    BY <2>1, <2>2, <2>3, <2>4, <2>5, <2>6, <2>7 DEF ClockInv, Running
<1>6. CASE Contradict
  <2>1. \A e \in queue : e.time > ContradictionTime
    BY <1>6, SimulatorAssumption DEF Contradict, Due, ClockInv
  <2>2. \A e \in queue : IsEvent(e.event)'
    BY <1>1, <1>6, EventsStay DEF ClockInv, Contradict
  <2>3. QED
    BY <1>6, <2>1, <2>2, SimulatorAssumption DEF Contradict, ClockInv, Running
<1>7. CASE Settle
  BY <1>1, <1>7, ClockStays DEF Settle
<1>8. CASE Finish
  <2>1. \A e \in queue : IsEvent(e.event)'
    BY <1>1, <1>8, EventsStay DEF ClockInv, Finish
  <2>2. QED
    BY <1>8, <2>1 DEF Finish, ClockInv, clockVars
<1>9. CASE Aftermath
  BY <1>1, <1>9, ClockStays
  DEF Aftermath, Accept, DispatchLabel, Cancel, Release, DispatchStock, ReverseCredit, ReopenTicket,
      AtRest, runnerVars
<1>10. QED
  BY <1>2, <1>3, <1>4, <1>5, <1>6, <1>7, <1>8, <1>9 DEF SimNext, ClockStep

-----------------------------------------------------------------------------
(* An action whose event is in the queue, or being handled.                 *)
Pending(i) ==
  \/ HandlingAction /\ current.action = i
  \/ \E e \in queue : e.event = ActionEvent(i)

PendingOnce ==
  /\ \A d \in queue, e \in queue, i \in DOMAIN scenario :
       d.event = ActionEvent(i) /\ e.event = ActionEvent(i) => d = e
  /\ HandlingAction => \A e \in queue : e.event # ActionEvent(current.action)

MadeBy(objects, tool) ==
  \A n \in DOMAIN objects :
    /\ objects[n].by \in DOMAIN scenario
    /\ scenario[objects[n].by].tool = tool
    /\ ~Pending(objects[n].by)
    /\ \A m \in DOMAIN objects : objects[m].by = objects[n].by => m = n

(* Each object is of an action of its own that is over.                     *)
ObjectsMadeOnce ==
  /\ PendingOnce
  /\ MadeBy(refunds, "create_refund") /\ MadeBy(shipments, "create_label")
  /\ MadeBy(stock, "reserve_stock") /\ MadeBy(credits, "issue_credit")

(* No step schedules an action, and what is handled comes from the queue.   *)
LEMMA OnlySettlementsScheduled ==
  ASSUME [SimNext]_simVars, NEW e \in queue', NEW i, e.event = ActionEvent(i)
  PROVE  e \in queue
<1>1. \A n, outcome : SettlementEvent(n, outcome) # ActionEvent(i)
  BY DEF SettlementEvent, ActionEvent
<1>2. CASE UNCHANGED queue
  BY <1>2
<1>3. CASE CreateRefund
  <2>1. CASE Schedule(Action.settleAt, SettlementEvent(Len(refunds) + 1, Action.outcome))
    <3>1. e = QueuedEvent(Action.settleAt, scheduled + 1,
                          SettlementEvent(Len(refunds) + 1, Action.outcome))
            => e.event = SettlementEvent(Len(refunds) + 1, Action.outcome)
      BY DEF QueuedEvent
    <3>2. QED
      BY <1>1, <2>1, <3>1 DEF Schedule
  <2>2. QED
    BY <1>2, <1>3, <2>1 DEF CreateRefund
<1>4. CASE Dequeue
  BY <1>4 DEF Dequeue
<1>5. QED
  BY <1>2, <1>3, <1>4
  DEF SimNext, simVars, clockVars, NotExecuted, Dispatch, CreateTicket, CloseTicket, CreateLabel,
      ReserveStock, IssueCredit, ClockStep, Contradict, Settle, Finish, Aftermath, Accept,
      DispatchLabel, Cancel, Release, DispatchStock, ReverseCredit, ReopenTicket, AtRest

LEMMA CurrentFromQueue ==
  ASSUME [SimNext]_simVars
  PROVE  /\ UNCHANGED scenario
         /\ \/ UNCHANGED current
            \/ current' = Idle /\ current # Idle
            \/ Dequeue
<1>1. CASE Dispatch
  BY <1>1
  DEF Dispatch, CreateTicket, CloseTicket, CreateRefund, CreateLabel, ReserveStock, IssueCredit,
      Return, Raise
<1>2. CASE ClockStep
  BY <1>2 DEF ClockStep, Dequeue, Contradict, Settle, Finish
<1>3. CASE Aftermath
  BY <1>3
  DEF Aftermath, Accept, DispatchLabel, Cancel, Release, DispatchStock, ReverseCredit, ReopenTicket,
      AtRest, runnerVars
<1>4. QED
  BY <1>1, <1>2, <1>3 DEF SimNext, NotExecuted, Return, simVars, runnerVars

(* An action that is over stays over, and what is handled comes to an end   *)
(* once.                                                                    *)
LEMMA PendingNext ==
  ASSUME ClockInv, PendingOnce, [SimNext]_simVars
  PROVE  /\ PendingOnce'
         /\ \A i \in DOMAIN scenario : Pending(i)' => Pending(i)
         /\ \A i \in DOMAIN scenario :
              HandlingAction /\ current.action = i /\ current' = Idle => ~Pending(i)'
<1>1. UNCHANGED scenario
  BY CurrentFromQueue
<1>2. \A i, j : ActionEvent(i) = ActionEvent(j) => i = j
  BY DEF ActionEvent
<1>3. CASE Dequeue
  <2>. DEFINE e == Earliest(Due)
  <2>1. e \in queue /\ current = Idle /\ current' = e.event /\ queue' = queue \ {e}
    BY <1>3, EarliestFound DEF Dequeue, Due
  <2>2. PICK d \in queue : d = e
    BY <2>1
  <2>3. current' = d.event /\ queue' = queue \ {d} /\ IsEvent(d.event)
    BY <2>1, <2>2 DEF ClockInv
  <2>4. d.event.kind = "action" =>
          d.event = ActionEvent(d.event.action) /\ d.event.action \in DOMAIN scenario
    <3>1. \A n, outcome : SettlementEvent(n, outcome).kind = "settlement"
      BY DEF SettlementEvent
    <3>2. \A i : ActionEvent(i).action = i
      BY DEF ActionEvent
    <3>3. QED
      BY <2>3, <3>1, <3>2 DEF IsEvent
  <2>5. PendingOnce'
    BY <1>1, <2>3, <2>4 DEF PendingOnce, HandlingAction
  <2>6. \A i \in DOMAIN scenario : Pending(i)' => Pending(i)
    BY <1>1, <2>3, <2>4 DEF Pending, HandlingAction
  <2>7. QED
    BY <2>1, <2>5, <2>6 DEF HandlingAction
<1>4. CASE UNCHANGED current \/ (current' = Idle /\ current # Idle)
  <2>1. \A e \in queue', i \in DOMAIN scenario : e.event = ActionEvent(i) => e \in queue
    BY OnlySettlementsScheduled
  <2>2. HandlingAction' => HandlingAction /\ UNCHANGED current
    BY <1>4 DEF HandlingAction
  <2>3. HandlingAction => current.action \in DOMAIN scenario
    BY ActionTyped
  <2>4. PendingOnce'
    BY <1>1, <2>1, <2>2, <2>3 DEF PendingOnce
  <2>5. \A i \in DOMAIN scenario : Pending(i)' => Pending(i)
    BY <1>1, <2>1, <2>2 DEF Pending
  <2>6. ASSUME NEW i \in DOMAIN scenario, HandlingAction, current.action = i, current' = Idle
        PROVE  ~Pending(i)'
    <3>1. ~HandlingAction'
      BY <2>6 DEF HandlingAction
    <3>2. \A e \in queue : e.event # ActionEvent(i)
      BY <2>6 DEF PendingOnce
    <3>3. QED
      BY <2>1, <3>1, <3>2 DEF Pending
  <2>7. QED
    BY <2>4, <2>5, <2>6
<1>5. QED
  BY <1>3, <1>4, CurrentFromQueue

LEMMA MadeByStays ==
  ASSUME ClockInv, PendingOnce, [SimNext]_simVars,
         NEW old, NEW new, NEW tool, MadeBy(old, tool), Kept(old, new), OneMore(old, new, tool)
  PROVE  MadeBy(new, tool)'
<1>1. UNCHANGED scenario
  BY CurrentFromQueue
<1>2. \A i \in DOMAIN scenario : Pending(i)' => Pending(i)
  BY PendingNext
<1>3. \A n \in DOMAIN new \ DOMAIN old :
        /\ new[n].by = current.action /\ current.action \in DOMAIN scenario
        /\ scenario[current.action].tool = tool
        /\ Pending(current.action)
        /\ n = Len(old) + 1
  BY ActionTyped DEF OneMore, Pending, Action
<1>4. \A n \in DOMAIN new : ~Pending(new[n].by)'
  <2> SUFFICES ASSUME NEW n \in DOMAIN new
               PROVE  ~Pending(new[n].by)'
    OBVIOUS
  <2>1. PICK i : i = new[n].by
    OBVIOUS
  <2>2. ~Pending(i)'
    <3>1. CASE n \in DOMAIN old
      BY <1>2, <2>1, <3>1 DEF MadeBy, Kept
    <3>2. CASE n \notin DOMAIN old
      BY <1>3, <2>1, <3>2, PendingNext DEF OneMore
    <3>3. QED
      BY <3>1, <3>2
  <2>3. QED
    BY <2>1, <2>2 DEF Pending
<1>5. \A n \in DOMAIN new : /\ new[n].by \in DOMAIN scenario
                                /\ scenario[new[n].by].tool = tool
  BY <1>3 DEF MadeBy, Kept
<1>6. \A n \in DOMAIN new, m \in DOMAIN new :
        new[m].by = new[n].by => m = n
  <2> SUFFICES ASSUME NEW n \in DOMAIN new, NEW m \in DOMAIN new,
                      new[m].by = new[n].by
               PROVE  m = n
    OBVIOUS
  <2>1. CASE n \in DOMAIN old /\ m \in DOMAIN old
    BY <2>1 DEF MadeBy, Kept
  <2>2. CASE n \notin DOMAIN old /\ m \in DOMAIN old
    BY <1>3, <2>2 DEF MadeBy, Kept
  <2>3. CASE n \in DOMAIN old /\ m \notin DOMAIN old
    BY <1>3, <2>3 DEF MadeBy, Kept
  <2>4. CASE n \notin DOMAIN old /\ m \notin DOMAIN old
    BY <1>3, <2>4
  <2>5. QED
    BY <2>1, <2>2, <2>3, <2>4
<1>7. QED
  BY <1>1, <1>4, <1>5, <1>6 DEF MadeBy

LEMMA ObjectsMadeOnceInit == SimInit => ObjectsMadeOnce
<1> SUFFICES ASSUME SimInit
             PROVE  ObjectsMadeOnce
  OBVIOUS
<1>1. PendingOnce
  <2>1. \A i, j : ActionEvent(i) = ActionEvent(j) => i = j
    BY DEF ActionEvent
  <2>2. \A e \in queue : \E i \in DOMAIN scenario :
          /\ e = QueuedEvent(scenario[i].time, i, ActionEvent(i))
          /\ e.event = ActionEvent(i)
    BY DEF SimInit, QueuedEvent
  <2>3. QED
    BY <2>1, <2>2 DEF SimInit, PendingOnce, HandlingAction
<1>2. QED
  BY <1>1 DEF SimInit, ObjectsMadeOnce, MadeBy

(* Whatever agents do at whatever times, an action makes one object at most. *)
LEMMA ObjectsMadeOnceNext ==
  ASSUME ClockInv, ServicesTyped, ObjectsMadeOnce, [SimNext]_simVars
  PROVE  ObjectsMadeOnce'
<1>1. MadeBy(refunds, "create_refund")'
  BY RefundsStayNext, MadeByStays DEF RefundsStay, ObjectsMadeOnce
<1>2. MadeBy(shipments, "create_label")'
  BY ShipmentsStayNext, MadeByStays DEF ShipmentsStay, ObjectsMadeOnce
<1>3. MadeBy(stock, "reserve_stock")'
  BY StockStaysNext, MadeByStays DEF StockStays, ObjectsMadeOnce
<1>4. MadeBy(credits, "issue_credit")'
  BY CreditsStayNext, MadeByStays DEF CreditsStay, ObjectsMadeOnce
<1>5. QED
  BY <1>1, <1>2, <1>3, <1>4, PendingNext DEF ObjectsMadeOnce

(* An object is worth what its action asked for.                            *)
AmountsFrom(objects) ==
  \A n \in DOMAIN objects : objects[n].amount = scenario[objects[n].by].amount

AmountsKept == AmountsFrom(refunds) /\ AmountsFrom(shipments) /\ AmountsFrom(credits)

LEMMA AmountsKeptInit == SimInit => AmountsKept
  BY DEF SimInit, AmountsKept, AmountsFrom

LEMMA AmountsKeptNext ==
  ASSUME ClockInv, ServicesTyped, AmountsKept, [SimNext]_simVars
  PROVE  AmountsKept'
<1>1. UNCHANGED scenario
  BY CurrentFromQueue
<1>2. ASSUME NEW old, NEW new, NEW tool, AmountsFrom(old),
             Kept(old, new), AmountsStay(old, new), OneMore(old, new, tool),
             \A n \in DOMAIN new \ DOMAIN old : new[n].amount = Action.amount
      PROVE  \A n \in DOMAIN new : new[n].amount = scenario[new[n].by].amount
  BY <1>2 DEF AmountsFrom, Kept, AmountsStay, OneMore, Action
<1>3. AmountsFrom(refunds)'
  <2>1. \A n \in DOMAIN refunds' : refunds'[n].amount = scenario[refunds'[n].by].amount
    BY <1>2, RefundsStayNext DEF RefundsStay, AmountsKept
  <2>2. QED
    BY <1>1, <2>1 DEF AmountsFrom
<1>4. AmountsFrom(shipments)'
  <2>1. \A n \in DOMAIN shipments' : shipments'[n].amount = scenario[shipments'[n].by].amount
    BY <1>2, ShipmentsStayNext DEF ShipmentsStay, AmountsKept
  <2>2. QED
    BY <1>1, <2>1 DEF AmountsFrom
<1>5. AmountsFrom(credits)'
  <2>1. \A n \in DOMAIN credits' : credits'[n].amount = scenario[credits'[n].by].amount
    BY <1>2, CreditsStayNext DEF CreditsStay, AmountsKept
  <2>2. QED
    BY <1>1, <2>1 DEF AmountsFrom
<1>6. QED
  BY <1>3, <1>4, <1>5 DEF AmountsKept

-----------------------------------------------------------------------------
(* The ledger's entries, and the snapshot.                                  *)
BookEntry ==
  [time : Nat, object : {"refund", "shipment", "credit"} \X Nat, phase : EconomicPhase,
   amount : Nat, exception : BOOLEAN]

BookTyped == book \in Seq(BookEntry) /\ \A k \in DOMAIN book : book[k].time <= now

(* An entry about an object of a service.                                   *)
LEMMA EntryTyped ==
  ASSUME NEW time \in Nat, NEW kind \in {"refund", "shipment", "credit"}, NEW n \in Nat,
         NEW phase \in EconomicPhase, NEW amount \in Nat, NEW exception \in BOOLEAN
  PROVE  Entry(time, <<kind, n>>, phase, amount, exception) \in BookEntry
  BY DEF Entry, BookEntry

(* A step enters nothing, or one entry dated now.                           *)
LEMMA BookStep ==
  ASSUME ClockInv, ServicesTyped, [SimNext]_simVars
  PROVE  \/ UNCHANGED book
         \/ /\ UNCHANGED now
            /\ \E e \in BookEntry : e.time = now /\ book' = Append(book, e)
<1>1. ASSUME NEW kind \in {"refund", "shipment", "credit"}, NEW n \in Nat,
             NEW phase \in EconomicPhase, NEW amount \in Nat, NEW exception \in BOOLEAN,
             Enter(<<kind, n>>, phase, amount, exception)
      PROVE  \E e \in BookEntry : e.time = now /\ book' = Append(book, e)
  <2>1. Entry(now, <<kind, n>>, phase, amount, exception) \in BookEntry
    BY EntryTyped DEF ClockInv
  <2>2. Entry(now, <<kind, n>>, phase, amount, exception).time = now
    BY DEF Entry
  <2>3. QED
    BY <1>1, <2>1, <2>2 DEF Enter
<1>2. /\ DOMAIN refunds \subseteq Nat /\ Len(refunds) + 1 \in Nat
      /\ DOMAIN shipments \subseteq Nat /\ Len(shipments) + 1 \in Nat
      /\ DOMAIN credits \subseteq Nat /\ Len(credits) + 1 \in Nat
  BY DEF ServicesTyped
<1>3. {"PENDING", "PROJECTED", "SETTLED", "FAILED", "REVERSED"} \subseteq EconomicPhase
  BY DEF EconomicPhase
<1>4. HandlingAction => Action.amount \in Nat
  BY ActionTyped DEF IsScheduledAction
<1>5. CASE Dispatch
  <2>1. CASE CreateRefund
    BY <1>1, <1>2, <1>3, <1>4, <2>1 DEF CreateRefund
  <2>2. CASE CreateLabel
    BY <1>1, <1>2, <1>3, <1>4, <2>2 DEF CreateLabel, clockVars
  <2>3. CASE IssueCredit
    BY <1>1, <1>2, <1>3, <1>4, <2>3 DEF IssueCredit, clockVars
  <2>4. QED
    BY <1>5, <2>1, <2>2, <2>3 DEF Dispatch, CreateTicket, CloseTicket, ReserveStock
<1>6. CASE Settle
  <2>1. current.refund \in DOMAIN refunds
    BY <1>6, SettlementTyped DEF Settle
  <2>2. refunds[current.refund].amount \in Nat
    BY <2>1, ObjectsTyped DEF Refund
  <2>3. QED
    BY <1>1, <1>2, <1>3, <1>6, <2>1, <2>2 DEF Settle, clockVars
<1>7. CASE Aftermath
  <2>1. ASSUME NEW n \in DOMAIN shipments, Accept(n) \/ DispatchLabel(n) \/ Cancel(n), ~UNCHANGED book
        PROVE  UNCHANGED now /\ \E e \in BookEntry : e.time = now /\ book' = Append(book, e)
    <3>1. shipments[n].amount \in Nat
      BY ObjectsTyped DEF Shipment
    <3>2. QED
      BY <1>1, <1>2, <1>3, <2>1, <3>1 DEF Accept, DispatchLabel, Cancel, AtRest, clockVars
  <2>2. ASSUME NEW n \in DOMAIN credits, ReverseCredit(n)
        PROVE  UNCHANGED now /\ \E e \in BookEntry : e.time = now /\ book' = Append(book, e)
    <3>1. credits[n].amount \in Nat
      BY ObjectsTyped DEF Credit
    <3>2. QED
      BY <1>1, <1>2, <1>3, <2>2, <3>1 DEF ReverseCredit, AtRest, clockVars
  <2>3. QED
    BY <1>7, <2>1, <2>2 DEF Aftermath, Release, DispatchStock, ReopenTicket, AtRest
<1>8. QED
  BY <1>5, <1>6, <1>7 DEF SimNext, simVars, NotExecuted, ClockStep, Dequeue, Contradict, Finish

(* Time does not run backwards.                                             *)
LEMMA TimeMoves ==
  ASSUME ClockInv, [SimNext]_simVars
  PROVE  now <= now' /\ now' \in Nat
<1>1. CASE Dequeue
  <2>1. Earliest(Due) \in queue /\ now' = Earliest(Due).time
    BY <1>1, EarliestFound DEF Dequeue, Due
  <2>2. QED
    BY <2>1 DEF ClockInv
<1>2. CASE Contradict
  BY <1>2, SimulatorAssumption DEF Contradict, ClockInv
<1>3. CASE UNCHANGED now
  BY <1>3 DEF ClockInv
<1>4. QED
  BY <1>1, <1>2, <1>3
  DEF SimNext, simVars, clockVars, NotExecuted, Dispatch, CreateTicket, CloseTicket, CreateRefund,
      CreateLabel, ReserveStock, IssueCredit, ClockStep, Settle, Finish, Aftermath, Accept,
      DispatchLabel, Cancel, Release, DispatchStock, ReverseCredit, ReopenTicket, AtRest

LEMMA BookTypedInit == SimInit => BookTyped
  BY DEF SimInit, BookTyped

LEMMA BookTypedNext ==
  ASSUME ClockInv, ServicesTyped, BookTyped, [SimNext]_simVars
  PROVE  BookTyped'
<1>1. now \in Nat /\ now' \in Nat /\ now <= now'
  BY TimeMoves DEF ClockInv
<1>2. \A k \in DOMAIN book : book[k].time \in Nat
  <2>1. \A k \in DOMAIN book : book[k] \in BookEntry
    BY DEF BookTyped
  <2>2. QED
    BY <2>1 DEF BookEntry
<1>3. CASE UNCHANGED book
  BY <1>1, <1>2, <1>3 DEF BookTyped
<1>4. ASSUME UNCHANGED now, NEW e \in BookEntry, e.time = now, book' = Append(book, e)
      PROVE  BookTyped'
  <2>1. book' \in Seq(BookEntry)
    BY <1>4, AppendFacts DEF BookTyped
  <2>2. \A k \in DOMAIN book' : book'[k].time <= now'
    BY <1>1, <1>2, <1>4, AppendFacts DEF BookTyped
  <2>3. QED
    BY <2>1, <2>2 DEF BookTyped
<1>5. QED
  BY <1>3, <1>4, BookStep

(* What is entered later is no part of an earlier position.                 *)
LEMMA PositionStays ==
  ASSUME NEW old \in Seq(BookEntry), NEW e \in BookEntry, NEW t \in Nat, e.time > t,
         NEW new, new = Append(old, e)
  PROVE  PositionIn(new, t) = PositionIn(old, t)
<1>1. /\ DOMAIN new = DOMAIN old \cup {Len(old) + 1}
      /\ \A n \in DOMAIN old : new[n] = old[n]
      /\ new[Len(old) + 1] = e
  BY AppendFacts
<1>2. LatestIn(new, t) = LatestIn(old, t)
  <2>1. e.time \in Nat /\ ~(e.time <= t)
    BY DEF BookEntry
  <2>. DEFINE Counts(entries, n) ==
                /\ entries[n].time <= t
                /\ \A m \in DOMAIN entries :
                     m > n /\ entries[m].object = entries[n].object => entries[m].time > t
  <2>2. \A n \in DOMAIN old : Counts(new, n) <=> Counts(old, n)
    BY <1>1
  <2>3. ~Counts(new, Len(old) + 1)
    BY <1>1, <2>1
  <2>4. LatestIn(new, t) = {n \in DOMAIN new : Counts(new, n)}
        /\ LatestIn(old, t) = {n \in DOMAIN old : Counts(old, n)}
    BY DEF LatestIn
  <2>. HIDE DEF Counts
  <2>5. QED
    BY <1>1, <2>2, <2>3, <2>4
<1>3. \A phases : Counted(new, t, phases) = Counted(old, t, phases)
  BY <1>1, <1>2 DEF Counted, LatestIn
<1>4. \A phases : Counted(old, t, phases) \subseteq DOMAIN old
  BY DEF Counted, LatestIn
<1>5. \A numbers \in SUBSET DOMAIN old : SumIn(new, numbers) = SumIn(old, numbers)
  <2> SUFFICES ASSUME NEW numbers \in SUBSET DOMAIN old
               PROVE  SumIn(new, numbers) = SumIn(old, numbers)
    OBVIOUS
  <2>1. [n \in numbers |-> new[n].amount] = [n \in numbers |-> old[n].amount]
    BY <1>1
  <2>2. QED
    BY <2>1 DEF SumIn
<1>6. \A phases :
        {n \in Counted(new, t, phases) : new[n].exception}
          = {n \in Counted(old, t, phases) : old[n].exception}
  BY <1>1, <1>3, <1>4
<1>7. QED
  BY <1>3, <1>4, <1>5, <1>6, Zenon DEF PositionIn

(* The snapshot.                                                            *)
CheckpointInv ==
  /\ stage = "advancing" => checkpoint = Idle
  /\ stage = "draining" =>
       /\ checkpoint = Snapshot(ContradictionTime) /\ now >= ContradictionTime
       /\ \A e \in queue : e.time > ContradictionTime
       /\ current # Idle => now > ContradictionTime
  /\ stage = "aborted" => checkpoint = Idle \/ checkpoint = Snapshot(ContradictionTime)
  /\ stage = "over" /\ now > ContradictionTime => checkpoint = Snapshot(ContradictionTime)

(* Only what is handled, and operators after the run, enter anything.       *)
LEMMA BookStands ==
  ASSUME [SimNext]_simVars, current = Idle, stage # "over"
  PROVE  UNCHANGED book
  BY DEF SimNext, simVars, NotExecuted, Dispatch, CreateTicket, CloseTicket, CreateRefund,
         CreateLabel, ReserveStock, IssueCredit, HandlingAction, ClockStep, Dequeue, Contradict,
         Settle, Finish, Aftermath, Accept, DispatchLabel, Cancel, Release, DispatchStock,
         ReverseCredit, ReopenTicket, AtRest

LEMMA SnapshotStands ==
  ASSUME ClockInv, ServicesTyped, BookTyped, [SimNext]_simVars,
         now > ContradictionTime \/ UNCHANGED book
  PROVE  Snapshot(ContradictionTime)' = Snapshot(ContradictionTime)
<1>1. CASE UNCHANGED book
  BY <1>1 DEF Snapshot
<1>2. CASE ~UNCHANGED book
  <2>1. PICK e \in BookEntry : e.time = now /\ book' = Append(book, e)
    BY <1>2, BookStep
  <2>2. PICK new : new = book'
    OBVIOUS
  <2>3. PositionIn(new, ContradictionTime) = PositionIn(book, ContradictionTime)
    BY <1>2, <2>1, <2>2, PositionStays, SimulatorAssumption DEF BookTyped
  <2>4. QED
    BY <2>2, <2>3 DEF Snapshot
<1>3. QED
  BY <1>1, <1>2

LEMMA CheckpointInit == SimInit => CheckpointInv
  BY DEF SimInit, CheckpointInv

LEMMA CheckpointNext ==
  ASSUME ClockInv, ServicesTyped, BookTyped, CheckpointInv, [SimNext]_simVars
  PROVE  CheckpointInv'
<1>1. ClockInv'
  BY ClockNext
<1>2. now \in Nat /\ ContradictionTime \in Nat
  BY SimulatorAssumption DEF ClockInv
<1>3. now > ContradictionTime \/ UNCHANGED book =>
        Snapshot(ContradictionTime)' = Snapshot(ContradictionTime)
  BY SnapshotStands
<1>4. ASSUME current # Idle, current' = Idle, UNCHANGED <<now, checkpoint>>,
             stage' \in {stage, "aborted"}
      PROVE  CheckpointInv'
  <2>1. \A e \in queue' : e.time \in Nat /\ e.time >= now
    BY <1>1, <1>4 DEF ClockInv
  <2>2. stage \in {"advancing", "draining"}
    BY <1>4 DEF ClockInv, Running
  <2>3. CASE stage = "advancing"
    BY <1>4, <2>3 DEF CheckpointInv
  <2>4. CASE stage = "draining"
    BY <1>2, <1>3, <1>4, <2>1, <2>4 DEF CheckpointInv
  <2>5. QED
    BY <2>2, <2>3, <2>4
<1>5. CASE NotExecuted \/ Dispatch \/ Settle
  BY <1>4, <1>5
  DEF NotExecuted, Dispatch, CreateTicket, CloseTicket, CreateRefund, CreateLabel, ReserveStock,
      IssueCredit, Settle, HandlingAction, Return, Raise, clockVars
<1>6. CASE Dequeue
  <2>1. Earliest(Due) \in queue
    BY <1>6, EarliestFound DEF Dequeue, Due
  <2>2. now' = Earliest(Due).time /\ queue' = queue \ {Earliest(Due)}
        /\ UNCHANGED <<book, checkpoint, stage>> /\ Running /\ now' >= now
    BY <1>6, <2>1 DEF Dequeue, ClockInv
  <2>3. QED
    BY <1>2, <1>3, <2>1, <2>2 DEF CheckpointInv, Running, ClockInv
<1>7. CASE Contradict
  <2>1. \A e \in queue : e.time > ContradictionTime
    BY <1>7, SimulatorAssumption DEF Contradict, Due, ClockInv
  <2>2. checkpoint' = Snapshot(ContradictionTime)'
    BY <1>3, <1>7 DEF Contradict
  <2>3. QED
    BY <1>2, <1>7, <2>1, <2>2 DEF Contradict, CheckpointInv
<1>8. CASE Finish
  BY <1>3, <1>8 DEF Finish, CheckpointInv, clockVars
<1>9. CASE Aftermath
  <2>1. stage = "over" /\ UNCHANGED <<now, checkpoint, stage>>
    BY <1>9
    DEF Aftermath, Accept, DispatchLabel, Cancel, Release, DispatchStock, ReverseCredit,
        ReopenTicket, AtRest, clockVars, runnerVars
  <2>2. QED
    BY <1>3, <2>1 DEF CheckpointInv
<1>10. CASE UNCHANGED simVars
  BY <1>3, <1>10 DEF simVars, clockVars, runnerVars, CheckpointInv
<1>11. QED
  BY <1>5, <1>6, <1>7, <1>8, <1>9, <1>10 DEF SimNext, ClockStep

-----------------------------------------------------------------------------
(* The ledger as an account of the services: the last entry about an object *)
(* says what the object is, and no entry is about anything else.            *)
RefundPhase == [PENDING |-> "PENDING", SUCCEEDED |-> "SETTLED", FAILED |-> "FAILED"]

ShipmentPhase ==
  [CREATED |-> "PROJECTED", ACCEPTED |-> "PROJECTED", DISPATCHED |-> "SETTLED",
   CANCELLED |-> "REVERSED"]

CreditPhase == [ISSUED |-> "SETTLED", REVERSED |-> "REVERSED"]

LastEntry(entries, k, object) ==
  /\ k \in DOMAIN entries /\ entries[k].object = object
  /\ \A m \in DOMAIN entries : m > k => entries[m].object # object

Accounted(entries, object, phase, amount, exception) ==
  \E k \in DOMAIN entries :
    /\ LastEntry(entries, k, object)
    /\ entries[k].phase = phase /\ entries[k].amount = amount /\ entries[k].exception = exception

AllAccounted(entries, kind, objects, phaseOf, exception) ==
  \A n \in DOMAIN objects :
    Accounted(entries, <<kind, n>>, phaseOf[objects[n].state], objects[n].amount, exception)

About(kind, objects) == {<<kind, n>> : n \in DOMAIN objects}

Known == About("refund", refunds) \cup About("shipment", shipments) \cup About("credit", credits)

BookInv ==
  /\ AllAccounted(book, "refund", refunds, RefundPhase, FALSE)
  /\ AllAccounted(book, "shipment", shipments, ShipmentPhase, FALSE)
  /\ AllAccounted(book, "credit", credits, CreditPhase, TRUE)
  /\ \A k \in DOMAIN book : book[k].object \in Known

(* One more entry is the last one of its object, and of no other.           *)
LEMMA EntryAccounts ==
  ASSUME NEW old \in Seq(BookEntry), NEW e \in BookEntry, NEW new, new = Append(old, e)
  PROVE  Accounted(new, e.object, e.phase, e.amount, e.exception)
<1>1. /\ DOMAIN new = DOMAIN old \cup {Len(old) + 1} /\ DOMAIN old = 1..Len(old) /\ Len(old) \in Nat
      /\ new[Len(old) + 1] = e
  BY AppendFacts
<1>2. LastEntry(new, Len(old) + 1, e.object)
  BY <1>1 DEF LastEntry
<1>3. QED
  BY <1>1, <1>2 DEF Accounted

LEMMA OthersAccounted ==
  ASSUME NEW old \in Seq(BookEntry), NEW e \in BookEntry, NEW new, new = Append(old, e),
         NEW object, NEW phase, NEW amount, NEW exception, object # e.object,
         Accounted(old, object, phase, amount, exception)
  PROVE  Accounted(new, object, phase, amount, exception)
<1>1. /\ DOMAIN new = DOMAIN old \cup {Len(old) + 1}
      /\ \A n \in DOMAIN old : new[n] = old[n]
      /\ new[Len(old) + 1] = e
  BY AppendFacts
<1>2. PICK k \in DOMAIN old :
        /\ LastEntry(old, k, object)
        /\ old[k].phase = phase /\ old[k].amount = amount /\ old[k].exception = exception
  BY DEF Accounted
<1>3. LastEntry(new, k, object)
  BY <1>1, <1>2 DEF LastEntry
<1>4. QED
  BY <1>1, <1>2, <1>3 DEF Accounted

(* What is entered about an object accounts for what the object has become. *)
LEMMA EntryKeepsAccount ==
  ASSUME NEW old \in Seq(BookEntry), NEW e \in BookEntry, NEW new, new = Append(old, e),
         NEW kind, NEW n, e.object = <<kind, n>>,
         NEW before, NEW after, NEW phaseOf, NEW exception,
         AllAccounted(old, kind, before, phaseOf, exception),
         DOMAIN after = DOMAIN before \cup {n},
         \A m \in DOMAIN before \ {n} : after[m] = before[m],
         e.phase = phaseOf[after[n].state], e.amount = after[n].amount, e.exception = exception
  PROVE  AllAccounted(new, kind, after, phaseOf, exception)
<1> SUFFICES ASSUME NEW m \in DOMAIN after
             PROVE  Accounted(new, <<kind, m>>, phaseOf[after[m].state], after[m].amount, exception)
  BY DEF AllAccounted
<1>1. CASE m = n
  BY <1>1, EntryAccounts
<1>2. CASE m # n
  <2>1. m \in DOMAIN before /\ after[m] = before[m]
    BY <1>2
  <2>2. Accounted(old, <<kind, m>>, phaseOf[after[m].state], after[m].amount, exception)
    BY <2>1 DEF AllAccounted
  <2>3. PICK object : object = <<kind, m>>
    OBVIOUS
  <2>4. PICK phase, amount : phase = phaseOf[after[m].state] /\ amount = after[m].amount
    OBVIOUS
  <2>5. object # e.object /\ Accounted(old, object, phase, amount, exception)
    BY <1>2, <2>2, <2>3, <2>4
  <2>6. Accounted(new, object, phase, amount, exception)
    BY <2>5, OthersAccounted
  <2>7. QED
    BY <2>3, <2>4, <2>6
<1>3. QED
  BY <1>1, <1>2

LEMMA EntryKeepsOthers ==
  ASSUME NEW old \in Seq(BookEntry), NEW e \in BookEntry, NEW new, new = Append(old, e),
         NEW kind, \A n : e.object # <<kind, n>>,
         NEW objects, NEW phaseOf, NEW exception,
         AllAccounted(old, kind, objects, phaseOf, exception)
  PROVE  AllAccounted(new, kind, objects, phaseOf, exception)
<1> SUFFICES ASSUME NEW m \in DOMAIN objects
             PROVE  Accounted(new, <<kind, m>>, phaseOf[objects[m].state], objects[m].amount, exception)
  BY DEF AllAccounted
<1>1. Accounted(old, <<kind, m>>, phaseOf[objects[m].state], objects[m].amount, exception)
  BY DEF AllAccounted
<1>2. PICK object : object = <<kind, m>>
  OBVIOUS
<1>3. object # e.object
  BY <1>2
<1>4. QED
  BY <1>1, <1>2, <1>3, OthersAccounted

(* A service that enters what it has done keeps the account.               *)
LEMMA RefundEntered ==
  ASSUME ClockInv, BookTyped, BookInv, Known \subseteq Known',
         NEW n \in Nat, NEW phase \in EconomicPhase, NEW amount \in Nat,
         Enter(<<"refund", n>>, phase, amount, FALSE),
         DOMAIN refunds' = DOMAIN refunds \cup {n},
         \A m \in DOMAIN refunds \ {n} : refunds'[m] = refunds[m],
         phase = RefundPhase[refunds'[n].state], amount = refunds'[n].amount,
         UNCHANGED <<shipments, credits>>
  PROVE  BookInv'
<1>1. PICK e \in BookEntry :
        /\ e.object = <<"refund", n>> /\ e.phase = phase /\ e.amount = amount /\ e.exception = FALSE
        /\ book' = Append(book, e)
  <2>1. Entry(now, <<"refund", n>>, phase, amount, FALSE) \in BookEntry
    BY EntryTyped DEF ClockInv
  <2>2. QED
    BY <2>1 DEF Enter, Entry
<1>2. PICK new, after : new = book' /\ after = refunds' /\ new = Append(book, e)
  BY <1>1
<1>3. AllAccounted(new, "refund", after, RefundPhase, FALSE)
  <2>1. /\ AllAccounted(book, "refund", refunds, RefundPhase, FALSE)
        /\ DOMAIN after = DOMAIN refunds \cup {n}
        /\ \A m \in DOMAIN refunds \ {n} : after[m] = refunds[m]
        /\ e.phase = RefundPhase[after[n].state] /\ e.amount = after[n].amount
    BY <1>1, <1>2 DEF BookInv
  <2>2. QED
    BY <1>1, <1>2, <2>1, EntryKeepsAccount DEF BookTyped
<1>4. AllAccounted(book', "refund", refunds', RefundPhase, FALSE)
  BY <1>2, <1>3
<1>5. AllAccounted(book', "shipment", shipments', ShipmentPhase, FALSE)
  <2>1. \A m : e.object # <<"shipment", m>>
    BY <1>1
  <2>2. AllAccounted(book, "shipment", shipments, ShipmentPhase, FALSE) /\ book \in Seq(BookEntry)
    BY DEF BookInv, BookTyped
  <2>3. AllAccounted(new, "shipment", shipments, ShipmentPhase, FALSE)
    BY <1>2, <2>1, <2>2, EntryKeepsOthers
  <2>4. QED
    BY <1>2, <2>3
<1>6. AllAccounted(book', "credit", credits', CreditPhase, TRUE)
  <2>1. \A m : e.object # <<"credit", m>>
    BY <1>1
  <2>2. AllAccounted(book, "credit", credits, CreditPhase, TRUE) /\ book \in Seq(BookEntry)
    BY DEF BookInv, BookTyped
  <2>3. AllAccounted(new, "credit", credits, CreditPhase, TRUE)
    BY <1>2, <2>1, <2>2, EntryKeepsOthers
  <2>4. QED
    BY <1>2, <2>3
<1>7. \A k \in DOMAIN book' : book'[k].object \in Known'
  <2>1. e.object \in Known'
    BY <1>1 DEF Known, About
  <2>2. \A k \in DOMAIN book : book[k].object \in Known'
    BY DEF BookInv
  <2>3. /\ DOMAIN book' = DOMAIN book \cup {Len(book) + 1}
        /\ \A k \in DOMAIN book : book'[k] = book[k]
        /\ book'[Len(book) + 1] = e
    BY <1>1, AppendFacts DEF BookTyped
  <2>4. QED
    BY <2>1, <2>2, <2>3
<1>8. QED
  BY <1>4, <1>5, <1>6, <1>7
  DEF BookInv, AllAccounted, Accounted, LastEntry, RefundPhase, ShipmentPhase, CreditPhase

LEMMA ShipmentEntered ==
  ASSUME ClockInv, BookTyped, BookInv, Known \subseteq Known',
         NEW n \in Nat, NEW phase \in EconomicPhase, NEW amount \in Nat,
         Enter(<<"shipment", n>>, phase, amount, FALSE),
         DOMAIN shipments' = DOMAIN shipments \cup {n},
         \A m \in DOMAIN shipments \ {n} : shipments'[m] = shipments[m],
         phase = ShipmentPhase[shipments'[n].state], amount = shipments'[n].amount,
         UNCHANGED <<refunds, credits>>
  PROVE  BookInv'
<1>1. PICK e \in BookEntry :
        /\ e.object = <<"shipment", n>> /\ e.phase = phase /\ e.amount = amount /\ e.exception = FALSE
        /\ book' = Append(book, e)
  <2>1. Entry(now, <<"shipment", n>>, phase, amount, FALSE) \in BookEntry
    BY EntryTyped DEF ClockInv
  <2>2. QED
    BY <2>1 DEF Enter, Entry
<1>2. PICK new, after : new = book' /\ after = shipments' /\ new = Append(book, e)
  BY <1>1
<1>3. AllAccounted(new, "shipment", after, ShipmentPhase, FALSE)
  <2>1. /\ AllAccounted(book, "shipment", shipments, ShipmentPhase, FALSE)
        /\ DOMAIN after = DOMAIN shipments \cup {n}
        /\ \A m \in DOMAIN shipments \ {n} : after[m] = shipments[m]
        /\ e.phase = ShipmentPhase[after[n].state] /\ e.amount = after[n].amount
    BY <1>1, <1>2 DEF BookInv
  <2>2. QED
    BY <1>1, <1>2, <2>1, EntryKeepsAccount DEF BookTyped
<1>4. AllAccounted(book', "shipment", shipments', ShipmentPhase, FALSE)
  BY <1>2, <1>3
<1>5. AllAccounted(book', "refund", refunds', RefundPhase, FALSE)
  <2>1. \A m : e.object # <<"refund", m>>
    BY <1>1
  <2>2. AllAccounted(book, "refund", refunds, RefundPhase, FALSE) /\ book \in Seq(BookEntry)
    BY DEF BookInv, BookTyped
  <2>3. AllAccounted(new, "refund", refunds, RefundPhase, FALSE)
    BY <1>2, <2>1, <2>2, EntryKeepsOthers
  <2>4. QED
    BY <1>2, <2>3
<1>6. AllAccounted(book', "credit", credits', CreditPhase, TRUE)
  <2>1. \A m : e.object # <<"credit", m>>
    BY <1>1
  <2>2. AllAccounted(book, "credit", credits, CreditPhase, TRUE) /\ book \in Seq(BookEntry)
    BY DEF BookInv, BookTyped
  <2>3. AllAccounted(new, "credit", credits, CreditPhase, TRUE)
    BY <1>2, <2>1, <2>2, EntryKeepsOthers
  <2>4. QED
    BY <1>2, <2>3
<1>7. \A k \in DOMAIN book' : book'[k].object \in Known'
  <2>1. e.object \in Known'
    BY <1>1 DEF Known, About
  <2>2. \A k \in DOMAIN book : book[k].object \in Known'
    BY DEF BookInv
  <2>3. /\ DOMAIN book' = DOMAIN book \cup {Len(book) + 1}
        /\ \A k \in DOMAIN book : book'[k] = book[k]
        /\ book'[Len(book) + 1] = e
    BY <1>1, AppendFacts DEF BookTyped
  <2>4. QED
    BY <2>1, <2>2, <2>3
<1>8. QED
  BY <1>4, <1>5, <1>6, <1>7
  DEF BookInv, AllAccounted, Accounted, LastEntry, RefundPhase, ShipmentPhase, CreditPhase

LEMMA CreditEntered ==
  ASSUME ClockInv, BookTyped, BookInv, Known \subseteq Known',
         NEW n \in Nat, NEW phase \in EconomicPhase, NEW amount \in Nat,
         Enter(<<"credit", n>>, phase, amount, TRUE),
         DOMAIN credits' = DOMAIN credits \cup {n},
         \A m \in DOMAIN credits \ {n} : credits'[m] = credits[m],
         phase = CreditPhase[credits'[n].state], amount = credits'[n].amount,
         UNCHANGED <<refunds, shipments>>
  PROVE  BookInv'
<1>1. PICK e \in BookEntry :
        /\ e.object = <<"credit", n>> /\ e.phase = phase /\ e.amount = amount /\ e.exception = TRUE
        /\ book' = Append(book, e)
  <2>1. Entry(now, <<"credit", n>>, phase, amount, TRUE) \in BookEntry
    BY EntryTyped DEF ClockInv
  <2>2. QED
    BY <2>1 DEF Enter, Entry
<1>2. PICK new, after : new = book' /\ after = credits' /\ new = Append(book, e)
  BY <1>1
<1>3. AllAccounted(new, "credit", after, CreditPhase, TRUE)
  <2>1. /\ AllAccounted(book, "credit", credits, CreditPhase, TRUE)
        /\ DOMAIN after = DOMAIN credits \cup {n}
        /\ \A m \in DOMAIN credits \ {n} : after[m] = credits[m]
        /\ e.phase = CreditPhase[after[n].state] /\ e.amount = after[n].amount
    BY <1>1, <1>2 DEF BookInv
  <2>2. QED
    BY <1>1, <1>2, <2>1, EntryKeepsAccount DEF BookTyped
<1>4. AllAccounted(book', "credit", credits', CreditPhase, TRUE)
  BY <1>2, <1>3
<1>5. AllAccounted(book', "refund", refunds', RefundPhase, FALSE)
  <2>1. \A m : e.object # <<"refund", m>>
    BY <1>1
  <2>2. AllAccounted(book, "refund", refunds, RefundPhase, FALSE) /\ book \in Seq(BookEntry)
    BY DEF BookInv, BookTyped
  <2>3. AllAccounted(new, "refund", refunds, RefundPhase, FALSE)
    BY <1>2, <2>1, <2>2, EntryKeepsOthers
  <2>4. QED
    BY <1>2, <2>3
<1>6. AllAccounted(book', "shipment", shipments', ShipmentPhase, FALSE)
  <2>1. \A m : e.object # <<"shipment", m>>
    BY <1>1
  <2>2. AllAccounted(book, "shipment", shipments, ShipmentPhase, FALSE) /\ book \in Seq(BookEntry)
    BY DEF BookInv, BookTyped
  <2>3. AllAccounted(new, "shipment", shipments, ShipmentPhase, FALSE)
    BY <1>2, <2>1, <2>2, EntryKeepsOthers
  <2>4. QED
    BY <1>2, <2>3
<1>7. \A k \in DOMAIN book' : book'[k].object \in Known'
  <2>1. e.object \in Known'
    BY <1>1 DEF Known, About
  <2>2. \A k \in DOMAIN book : book[k].object \in Known'
    BY DEF BookInv
  <2>3. /\ DOMAIN book' = DOMAIN book \cup {Len(book) + 1}
        /\ \A k \in DOMAIN book : book'[k] = book[k]
        /\ book'[Len(book) + 1] = e
    BY <1>1, AppendFacts DEF BookTyped
  <2>4. QED
    BY <2>1, <2>2, <2>3
<1>8. QED
  BY <1>4, <1>5, <1>6, <1>7
  DEF BookInv, AllAccounted, Accounted, LastEntry, RefundPhase, ShipmentPhase, CreditPhase

LEMMA BookInvInit == SimInit => BookInv
  BY DEF SimInit, BookInv, AllAccounted

(* What is entered nowhere is accounted for as it was.                      *)
LEMMA BookUntouched ==
  ASSUME BookInv, UNCHANGED <<book, refunds, credits>>,
         DOMAIN shipments' = DOMAIN shipments,
         \A n \in DOMAIN shipments :
           /\ ShipmentPhase[shipments'[n].state] = ShipmentPhase[shipments[n].state]
           /\ shipments'[n].amount = shipments[n].amount
  PROVE  BookInv'
<1>1. AllAccounted(book', "refund", refunds', RefundPhase, FALSE)
  BY DEF BookInv
<1>2. AllAccounted(book', "credit", credits', CreditPhase, TRUE)
  BY DEF BookInv
<1>3. PICK after : after = shipments'
  OBVIOUS
<1>4. AllAccounted(book, "shipment", after, ShipmentPhase, FALSE)
  <2> SUFFICES ASSUME NEW n \in DOMAIN after
               PROVE  Accounted(book, <<"shipment", n>>, ShipmentPhase[after[n].state],
                                after[n].amount, FALSE)
    BY DEF AllAccounted
  <2>1. Accounted(book, <<"shipment", n>>, ShipmentPhase[shipments[n].state],
                  shipments[n].amount, FALSE)
    BY <1>3 DEF BookInv, AllAccounted
  <2>2. /\ ShipmentPhase[after[n].state] = ShipmentPhase[shipments[n].state]
        /\ after[n].amount = shipments[n].amount
    BY <1>3
  <2>3. QED
    BY <2>1, <2>2
<1>5. AllAccounted(book', "shipment", shipments', ShipmentPhase, FALSE)
  BY <1>3, <1>4
<1>6. \A k \in DOMAIN book' : book'[k].object \in Known'
  BY DEF BookInv, Known, About
<1>7. QED
  BY <1>1, <1>2, <1>5, <1>6
  DEF BookInv, AllAccounted, Accounted, LastEntry, RefundPhase, ShipmentPhase, CreditPhase

(* Every service enters all it does, whenever it does it.                   *)
LEMMA BookInvNext ==
  ASSUME ClockInv, ServicesTyped, BookTyped, BookInv, [SimNext]_simVars
  PROVE  BookInv'
<1>1. Known \subseteq Known'
  BY RefundsStayNext, ShipmentsStayNext, CreditsStayNext
  DEF RefundsStay, ShipmentsStay, CreditsStay, Kept, Known, About
<1>2. /\ DOMAIN refunds \subseteq Nat /\ Len(refunds) + 1 \in Nat
      /\ DOMAIN shipments \subseteq Nat /\ Len(shipments) + 1 \in Nat
      /\ DOMAIN credits \subseteq Nat /\ Len(credits) + 1 \in Nat
  BY DEF ServicesTyped
<1>3. {"PENDING", "PROJECTED", "SETTLED", "FAILED", "REVERSED"} \subseteq EconomicPhase
  BY DEF EconomicPhase
<1>4. HandlingAction => Action.amount \in Nat
  BY ActionTyped DEF IsScheduledAction
<1>5. CASE UNCHANGED <<book, refunds, shipments, credits>>
  BY <1>5, BookUntouched
<1>6. CASE CreateRefund
  <2>1. CASE ~(NewRefund(Action) /\ Enter(<<"refund", Len(refunds) + 1>>, "PENDING", Action.amount, FALSE))
    BY <1>5, <1>6, <2>1 DEF CreateRefund
  <2>2. CASE NewRefund(Action) /\ Enter(<<"refund", Len(refunds) + 1>>, "PENDING", Action.amount, FALSE)
    <3>1. /\ HandlingAction /\ UNCHANGED <<shipments, credits>>
      BY <1>6 DEF CreateRefund
    <3>2. /\ DOMAIN refunds' = DOMAIN refunds \cup {Len(refunds) + 1}
          /\ \A m \in DOMAIN refunds \ {Len(refunds) + 1} : refunds'[m] = refunds[m]
          /\ refunds'[Len(refunds) + 1].state = "PENDING"
          /\ refunds'[Len(refunds) + 1].amount = Action.amount
      BY <2>2, <3>1, NewRefundTyped
    <3>3. RefundPhase["PENDING"] = "PENDING"
      BY DEF RefundPhase
    <3>4. PICK n, amount : n = Len(refunds) + 1 /\ amount = Action.amount
      OBVIOUS
    <3>5. Enter(<<"refund", n>>, "PENDING", amount, FALSE)
      BY <2>2, <3>4
    <3>6. /\ n \in Nat /\ amount \in Nat /\ "PENDING" \in EconomicPhase
          /\ DOMAIN refunds' = DOMAIN refunds \cup {n}
          /\ \A m \in DOMAIN refunds \ {n} : refunds'[m] = refunds[m]
          /\ "PENDING" = RefundPhase[refunds'[n].state] /\ amount = refunds'[n].amount
      BY <1>2, <1>3, <1>4, <3>1, <3>2, <3>3, <3>4
    <3>7. QED
      BY <1>1, <3>1, <3>5, <3>6, RefundEntered
  <2>3. QED
    BY <2>1, <2>2
<1>7. CASE CreateLabel
  <2>1. PICK n, amount : n = Len(shipments) + 1 /\ amount = Action.amount
    OBVIOUS
  <2>2. Enter(<<"shipment", n>>, "PROJECTED", amount, FALSE)
        /\ UNCHANGED <<refunds, credits>> /\ HandlingAction
    BY <1>7, <2>1 DEF CreateLabel
  <2>3. [amount |-> amount, state |-> "CREATED", by |-> current.action] \in Shipment
    BY <1>7, <2>1, ActionTyped DEF CreateLabel, Shipment, ShipmentState, IsScheduledAction
  <2>4. shipments' = Append(shipments, [amount |-> amount, state |-> "CREATED", by |-> current.action])
    BY <1>7, <2>1 DEF CreateLabel
  <2>5. /\ n \in Nat /\ amount \in Nat /\ "PROJECTED" \in EconomicPhase
        /\ DOMAIN shipments' = DOMAIN shipments \cup {n}
        /\ \A m \in DOMAIN shipments \ {n} : shipments'[m] = shipments[m]
        /\ "PROJECTED" = ShipmentPhase[shipments'[n].state] /\ amount = shipments'[n].amount
    BY <1>2, <1>3, <1>4, <2>1, <2>2, <2>3, <2>4, AppendFacts DEF ServicesTyped, ShipmentPhase
  <2>6. QED
    BY <1>1, <2>2, <2>5, ShipmentEntered
<1>8. CASE IssueCredit
  <2>1. PICK n, amount : n = Len(credits) + 1 /\ amount = Action.amount
    OBVIOUS
  <2>2. Enter(<<"credit", n>>, "SETTLED", amount, TRUE)
        /\ UNCHANGED <<refunds, shipments>> /\ HandlingAction
    BY <1>8, <2>1 DEF IssueCredit
  <2>3. [amount |-> amount, state |-> "ISSUED", by |-> current.action] \in Credit
    BY <1>8, <2>1, ActionTyped DEF IssueCredit, Credit, IsScheduledAction
  <2>4. credits' = Append(credits, [amount |-> amount, state |-> "ISSUED", by |-> current.action])
    BY <1>8, <2>1 DEF IssueCredit
  <2>5. /\ n \in Nat /\ amount \in Nat /\ "SETTLED" \in EconomicPhase
        /\ DOMAIN credits' = DOMAIN credits \cup {n}
        /\ \A m \in DOMAIN credits \ {n} : credits'[m] = credits[m]
        /\ "SETTLED" = CreditPhase[credits'[n].state] /\ amount = credits'[n].amount
    BY <1>2, <1>3, <1>4, <2>1, <2>2, <2>3, <2>4, AppendFacts DEF ServicesTyped, CreditPhase
  <2>6. QED
    BY <1>1, <2>2, <2>5, CreditEntered
<1>9. CASE Settle
  <2>1. PICK n, amount, phase :
          /\ n = current.refund /\ amount = refunds[n].amount
          /\ phase = IF current.outcome = "SUCCEEDED" THEN "SETTLED" ELSE "FAILED"
    OBVIOUS
  <2>2. /\ n \in DOMAIN refunds /\ current.outcome \in {"SUCCEEDED", "FAILED"}
        /\ Enter(<<"refund", n>>, phase, amount, FALSE)
        /\ refunds' = [refunds EXCEPT ![n].state = current.outcome]
        /\ UNCHANGED <<shipments, credits>>
    BY <1>9, <2>1, SettlementTyped DEF Settle
  <2>3. refunds[n] \in Refund
    BY <2>2, ObjectsTyped
  <2>4. [refunds[n] EXCEPT !.state = current.outcome] \in Refund
    BY <2>2, <2>3 DEF Refund, RefundState
  <2>5. /\ DOMAIN refunds' = DOMAIN refunds
        /\ \A m \in DOMAIN refunds \ {n} : refunds'[m] = refunds[m]
        /\ refunds'[n] = [refunds[n] EXCEPT !.state = current.outcome]
    BY <2>2, <2>4, UpdateFacts DEF ServicesTyped
  <2>6. /\ refunds'[n].state = current.outcome /\ refunds'[n].amount = refunds[n].amount
        /\ refunds[n].amount \in Nat
    BY <2>3, <2>5 DEF Refund
  <2>7. RefundPhase["SUCCEEDED"] = "SETTLED" /\ RefundPhase["FAILED"] = "FAILED"
    BY DEF RefundPhase
  <2>8. /\ n \in Nat /\ amount \in Nat /\ phase \in EconomicPhase
        /\ DOMAIN refunds' = DOMAIN refunds \cup {n}
        /\ phase = RefundPhase[refunds'[n].state] /\ amount = refunds'[n].amount
    BY <1>2, <1>3, <2>1, <2>2, <2>5, <2>6, <2>7
  <2>9. QED
    BY <1>1, <2>2, <2>5, <2>8, RefundEntered
<1>10. ASSUME NEW n \in DOMAIN shipments, Accept(n) \/ DispatchLabel(n) \/ Cancel(n)
       PROVE  BookInv'
  <2>1. PICK v \in ShipmentState :
          /\ shipments' = [shipments EXCEPT ![n].state = v]
          /\ UNCHANGED <<refunds, credits>>
          /\ \/ UNCHANGED book /\ v = "ACCEPTED" /\ shipments[n].state = "CREATED"
             \/ Enter(<<"shipment", n>>, "SETTLED", shipments[n].amount, FALSE) /\ v = "DISPATCHED"
             \/ Enter(<<"shipment", n>>, "REVERSED", shipments[n].amount, FALSE) /\ v = "CANCELLED"
    BY <1>10 DEF Accept, DispatchLabel, Cancel, ShipmentState, AtRest
  <2>2. shipments[n] \in Shipment
    BY ObjectsTyped
  <2>3. [shipments[n] EXCEPT !.state = v] \in Shipment
    BY <2>2 DEF Shipment
  <2>4. /\ DOMAIN shipments' = DOMAIN shipments
        /\ \A m \in DOMAIN shipments \ {n} : shipments'[m] = shipments[m]
        /\ shipments'[n] = [shipments[n] EXCEPT !.state = v]
    BY <2>1, <2>3, UpdateFacts DEF ServicesTyped
  <2>5. /\ shipments'[n].state = v /\ shipments'[n].amount = shipments[n].amount
        /\ shipments[n].amount \in Nat /\ n \in Nat
    BY <1>2, <2>2, <2>4 DEF Shipment
  <2>6. /\ ShipmentPhase["ACCEPTED"] = ShipmentPhase["CREATED"]
        /\ ShipmentPhase["DISPATCHED"] = "SETTLED" /\ ShipmentPhase["CANCELLED"] = "REVERSED"
    BY DEF ShipmentPhase
  <2>7. CASE UNCHANGED book /\ v = "ACCEPTED" /\ shipments[n].state = "CREATED"
    <3>1. \A m \in DOMAIN shipments :
            /\ ShipmentPhase[shipments'[m].state] = ShipmentPhase[shipments[m].state]
            /\ shipments'[m].amount = shipments[m].amount
      BY <2>4, <2>5, <2>6, <2>7
    <3>2. QED
      BY <2>1, <2>4, <2>7, <3>1, BookUntouched
  <2>8. ASSUME NEW phase \in EconomicPhase, phase = ShipmentPhase[v],
               Enter(<<"shipment", n>>, phase, shipments[n].amount, FALSE)
        PROVE  BookInv'
    <3>1. PICK amount : amount = shipments[n].amount
      OBVIOUS
    <3>2. /\ DOMAIN shipments' = DOMAIN shipments \cup {n}
          /\ phase = ShipmentPhase[shipments'[n].state] /\ amount = shipments'[n].amount
          /\ amount \in Nat
      BY <2>4, <2>5, <2>8, <3>1
    <3>3. QED
      BY <1>1, <2>1, <2>4, <2>5, <2>8, <3>1, <3>2, ShipmentEntered
  <2>9. QED
    BY <1>3, <2>1, <2>6, <2>7, <2>8
<1>11. ASSUME NEW n \in DOMAIN credits, ReverseCredit(n)
       PROVE  BookInv'
  <2>1. PICK amount : amount = credits[n].amount
    OBVIOUS
  <2>2. /\ credits' = [credits EXCEPT ![n].state = "REVERSED"]
        /\ Enter(<<"credit", n>>, "REVERSED", amount, TRUE)
        /\ UNCHANGED <<refunds, shipments>>
    BY <1>11, <2>1 DEF ReverseCredit, AtRest
  <2>3. credits[n] \in Credit
    BY ObjectsTyped
  <2>4. [credits[n] EXCEPT !.state = "REVERSED"] \in Credit
    BY <2>3 DEF Credit
  <2>5. /\ DOMAIN credits' = DOMAIN credits
        /\ \A m \in DOMAIN credits \ {n} : credits'[m] = credits[m]
        /\ credits'[n] = [credits[n] EXCEPT !.state = "REVERSED"]
    BY <2>2, <2>4, UpdateFacts DEF ServicesTyped
  <2>6. /\ credits'[n].state = "REVERSED" /\ credits'[n].amount = credits[n].amount
        /\ credits[n].amount \in Nat
    BY <2>3, <2>5 DEF Credit
  <2>7. CreditPhase["REVERSED"] = "REVERSED"
    BY DEF CreditPhase
  <2>8. /\ n \in Nat /\ amount \in Nat /\ "REVERSED" \in EconomicPhase
        /\ DOMAIN credits' = DOMAIN credits \cup {n}
        /\ "REVERSED" = CreditPhase[credits'[n].state] /\ amount = credits'[n].amount
    BY <1>2, <1>3, <2>1, <2>5, <2>6, <2>7
  <2>9. QED
    BY <1>1, <2>2, <2>5, <2>8, CreditEntered
<1>12. QED
  BY <1>5, <1>6, <1>7, <1>8, <1>9, <1>10, <1>11
  DEF SimNext, simVars, serviceVars, NotExecuted, Dispatch, CreateTicket, CloseTicket, ReserveStock,
      ClockStep, Dequeue, Contradict, Finish, Aftermath, Release, DispatchStock, ReopenTicket, AtRest

-----------------------------------------------------------------------------
(* The position, of the ledger and of the services: the entries that count   *)
(* are those the objects are accounted for by, one of each.                  *)
Entered(entries, kind, objects, phases) ==
  {k \in DOMAIN entries :
     entries[k].phase \in phases /\ \E n \in DOMAIN objects : LastEntry(entries, k, <<kind, n>>)}

LEMMA LastIsOne ==
  ASSUME NEW entries \in Seq(BookEntry), NEW object, NEW k, NEW l,
         LastEntry(entries, k, object), LastEntry(entries, l, object)
  PROVE  k = l
<1>1. k \in Nat /\ l \in Nat
  BY DEF LastEntry
<1>2. ~(k > l) /\ ~(l > k)
  BY DEF LastEntry
<1>3. QED
  BY <1>1, <1>2

LEMMA SumOfKind ==
  ASSUME NEW entries \in Seq(BookEntry), NEW kind, NEW objects, NEW phaseOf, NEW exception,
         IsFiniteSet(DOMAIN objects), \A n \in DOMAIN objects : objects[n].amount \in Nat,
         AllAccounted(entries, kind, objects, phaseOf, exception),
         NEW states, NEW phases,
         \A n \in DOMAIN objects : objects[n].state \in states <=> phaseOf[objects[n].state] \in phases
  PROVE  SumIn(entries, Entered(entries, kind, objects, phases))
           = SumIn(objects, ObjectsIn(objects, states))
<1>. DEFINE S == ObjectsIn(objects, states)
            T == Entered(entries, kind, objects, phases)
            m == [n \in S |-> CHOOSE k : LastEntry(entries, k, <<kind, n>>)]
            f == [n \in S |-> objects[n].amount]
            e == [k \in T |-> entries[k].amount]
<1>1. S \subseteq DOMAIN objects /\ IsFiniteSet(S)
  <2>1. S \subseteq DOMAIN objects
    BY DEF ObjectsIn
  <2>2. QED
    BY <2>1, FS_Subset
<1>2. \A n \in DOMAIN objects :
        \E k \in DOMAIN entries :
          /\ LastEntry(entries, k, <<kind, n>>)
          /\ entries[k].phase = phaseOf[objects[n].state] /\ entries[k].amount = objects[n].amount
  BY DEF AllAccounted, Accounted
<1>3. ASSUME NEW n \in S
      PROVE  /\ LastEntry(entries, m[n], <<kind, n>>) /\ m[n] \in DOMAIN entries
             /\ entries[m[n]].phase = phaseOf[objects[n].state]
             /\ entries[m[n]].amount = objects[n].amount
  <2>1. PICK k \in DOMAIN entries :
          /\ LastEntry(entries, k, <<kind, n>>)
          /\ entries[k].phase = phaseOf[objects[n].state] /\ entries[k].amount = objects[n].amount
    BY <1>1, <1>2
  <2>2. m[n] = CHOOSE l : LastEntry(entries, l, <<kind, n>>)
    OBVIOUS
  <2>3. LastEntry(entries, m[n], <<kind, n>>)
    BY <2>1, <2>2
  <2>4. PICK l : l = m[n]
    OBVIOUS
  <2>5. l = k
    BY <2>1, <2>3, <2>4, LastIsOne
  <2>6. QED
    BY <2>1, <2>4, <2>5
<1>4. T = {m[n] : n \in S}
  <2>1. ASSUME NEW n \in S
        PROVE  m[n] \in T
    <3>1. n \in DOMAIN objects /\ objects[n].state \in states
      BY DEF ObjectsIn
    <3>2. entries[m[n]].phase \in phases
      BY <1>3, <3>1
    <3>3. QED
      BY <1>3, <3>1, <3>2 DEF Entered
  <2>2. ASSUME NEW k \in T
        PROVE  \E n \in S : k = m[n]
    <3>1. PICK n \in DOMAIN objects : LastEntry(entries, k, <<kind, n>>)
      BY DEF Entered
    <3>2. PICK l \in DOMAIN entries :
            /\ LastEntry(entries, l, <<kind, n>>)
            /\ entries[l].phase = phaseOf[objects[n].state]
      BY <1>2
    <3>3. l = k
      BY <3>1, <3>2, LastIsOne
    <3>4. phaseOf[objects[n].state] \in phases
      BY <3>2, <3>3 DEF Entered
    <3>5. n \in S
      BY <3>4 DEF ObjectsIn
    <3>6. PICK j : j = m[n]
      OBVIOUS
    <3>7. k = j
      BY <1>3, <3>1, <3>5, <3>6, LastIsOne
    <3>8. QED
      BY <3>5, <3>6, <3>7
  <2>3. QED
    BY <2>1, <2>2
<1>5. \A x \in S : f[x] \in Int /\ e[m[x]] = f[x]
  <2> SUFFICES ASSUME NEW x \in S
               PROVE  f[x] \in Int /\ e[m[x]] = f[x]
    OBVIOUS
  <2>1. m[x] \in T
    BY <1>4
  <2>2. e[m[x]] = entries[m[x]].amount
    BY <2>1
  <2>3. f[x] = objects[x].amount /\ objects[x].amount \in Nat
    BY <1>1
  <2>4. QED
    BY <1>3, <2>2, <2>3
<1>6. \A x \in S, y \in S : m[x] = m[y] => x = y
  <2> SUFFICES ASSUME NEW x \in S, NEW y \in S, m[x] = m[y]
               PROVE  x = y
    OBVIOUS
  <2>1. PICK k : k = m[x] /\ k = m[y]
    OBVIOUS
  <2>2. LastEntry(entries, k, <<kind, x>>) /\ LastEntry(entries, k, <<kind, y>>)
    BY <1>3, <2>1
  <2>3. <<kind, x>> = <<kind, y>>
    BY <2>2 DEF LastEntry
  <2>4. QED
    BY <2>3
<1>7. SumIn(entries, T) = SumFunctionOnSet(e, T) /\ SumIn(objects, S) = SumFunctionOnSet(f, S)
  BY DEF SumIn
<1>. HIDE DEF S, T, m, f, e
<1>8. SumFunctionOnSet(e, T) = SumFunctionOnSet(f, S)
  <2>1. OneToOne(m, S, T)
    BY <1>4, <1>6 DEF OneToOne
  <2>2. QED
    BY <1>1, <1>5, <2>1, SumOfImage
<1>9. SumIn(entries, T) = SumIn(objects, S)
  BY <1>7, <1>8
<1>10. QED
  BY <1>9 DEF S, T

LEMMA SumInUnion ==
  ASSUME NEW entries \in Seq(BookEntry),
         NEW S \in SUBSET DOMAIN entries, NEW T \in SUBSET DOMAIN entries, S \cap T = {}
  PROVE  SumIn(entries, S \cup T) = SumIn(entries, S) + SumIn(entries, T)
<1>. DEFINE f == [k \in S \cup T |-> entries[k].amount]
            g == [k \in S |-> entries[k].amount]
            h == [k \in T |-> entries[k].amount]
<1>1. IsFiniteSet(DOMAIN entries)
  <2>1. DOMAIN entries = 1..Len(entries) /\ Len(entries) \in Nat
    OBVIOUS
  <2>2. QED
    BY <2>1, FS_Interval
<1>2. IsFiniteSet(S) /\ IsFiniteSet(T)
  BY <1>1, FS_Subset
<1>3. \A k \in S \cup T : f[k] \in Int
  <2>1. \A k \in DOMAIN entries : entries[k] \in BookEntry
    OBVIOUS
  <2>2. \A k \in DOMAIN entries : entries[k].amount \in Nat
    BY <2>1 DEF BookEntry
  <2>3. QED
    BY <2>2
<1>4. (\A k \in S : f[k] = g[k]) /\ (\A k \in T : f[k] = h[k])
  OBVIOUS
<1>5. /\ SumIn(entries, S \cup T) = SumFunctionOnSet(f, S \cup T)
      /\ SumIn(entries, S) = SumFunctionOnSet(g, S) /\ SumIn(entries, T) = SumFunctionOnSet(h, T)
  BY DEF SumIn
<1>. HIDE DEF f, g, h
<1>6. SumFunctionOnSet(f, S) = SumFunctionOnSet(g, S) /\ SumFunctionOnSet(f, T) = SumFunctionOnSet(h, T)
  BY <1>2, <1>4, SumsAgree
<1>7. SumFunctionOnSet(f, S \cup T) = SumFunctionOnSet(f, S) + SumFunctionOnSet(f, T)
  BY <1>2, <1>3, SumOfUnion
<1>8. QED
  BY <1>5, <1>6, <1>7

(* By now every entry has been made, so the last of each object counts.     *)
LEMMA CountedNow ==
  ASSUME BookTyped, BookInv, ServicesTyped, now \in Nat, NEW phases
  PROVE  LET r == Entered(book, "refund", refunds, phases)
             s == Entered(book, "shipment", shipments, phases)
             c == Entered(book, "credit", credits, phases)
         IN  /\ Counted(book, now, phases) = r \cup s \cup c
             /\ r \cap s = {} /\ (r \cup s) \cap c = {}
             /\ r \in SUBSET DOMAIN book /\ s \in SUBSET DOMAIN book /\ c \in SUBSET DOMAIN book
<1>. DEFINE r == Entered(book, "refund", refunds, phases)
            s == Entered(book, "shipment", shipments, phases)
            c == Entered(book, "credit", credits, phases)
<1>1. \A k \in DOMAIN book : book[k].time \in Nat /\ book[k].time <= now
  <2>1. \A k \in DOMAIN book : book[k] \in BookEntry
    BY DEF BookTyped
  <2>2. QED
    BY <2>1 DEF BookEntry, BookTyped
<1>2. LatestIn(book, now) = {k \in DOMAIN book : LastEntry(book, k, book[k].object)}
  <2>1. ASSUME NEW k \in DOMAIN book
        PROVE  LastEntry(book, k, book[k].object) <=>
                 /\ book[k].time <= now
                 /\ \A m \in DOMAIN book :
                      m > k /\ book[m].object = book[k].object => book[m].time > now
    BY <1>1 DEF LastEntry
  <2>2. QED
    BY <2>1 DEF LatestIn
<1>3. /\ r = {k \in DOMAIN book : book[k].phase \in phases /\ LastEntry(book, k, book[k].object)
                                   /\ book[k].object \in About("refund", refunds)}
      /\ s = {k \in DOMAIN book : book[k].phase \in phases /\ LastEntry(book, k, book[k].object)
                                   /\ book[k].object \in About("shipment", shipments)}
      /\ c = {k \in DOMAIN book : book[k].phase \in phases /\ LastEntry(book, k, book[k].object)
                                   /\ book[k].object \in About("credit", credits)}
  <2>1. ASSUME NEW kind, NEW objects, NEW k \in DOMAIN book
        PROVE  (\E n \in DOMAIN objects : LastEntry(book, k, <<kind, n>>)) <=>
                 LastEntry(book, k, book[k].object) /\ book[k].object \in About(kind, objects)
    BY DEF LastEntry, About
  <2>2. QED
    BY <2>1 DEF Entered
<1>4. \A k \in DOMAIN book : book[k].object \in Known
  BY DEF BookInv
<1>5. /\ About("refund", refunds) \cap About("shipment", shipments) = {}
      /\ About("refund", refunds) \cap About("credit", credits) = {}
      /\ About("shipment", shipments) \cap About("credit", credits) = {}
  BY DEF About
<1>6. Counted(book, now, phases) = r \cup s \cup c
  <2>1. Counted(book, now, phases) =
          {k \in DOMAIN book : LastEntry(book, k, book[k].object) /\ book[k].phase \in phases}
    BY <1>2 DEF Counted
  <2>. HIDE DEF r, s, c
  <2>2. QED
    BY <1>3, <1>4, <2>1 DEF Known
<1>. HIDE DEF r, s, c
<1>7. r \cap s = {} /\ (r \cup s) \cap c = {}
  BY <1>3, <1>5
<1>8. r \in SUBSET DOMAIN book /\ s \in SUBSET DOMAIN book /\ c \in SUBSET DOMAIN book
  BY <1>3
<1>9. QED
  BY <1>6, <1>7, <1>8 DEF r, s, c

(* The states of a kind of object whose entries are in the phases.          *)
Selects(states, among, phaseOf, phases) ==
  \A state \in among : state \in states <=> phaseOf[state] \in phases

LEMMA FiniteDomain ==
  ASSUME NEW S, NEW s \in Seq(S)
  PROVE  IsFiniteSet(DOMAIN s)
<1>1. DOMAIN s = 1..Len(s) /\ Len(s) \in Nat
  OBVIOUS
<1>2. QED
  BY <1>1, FS_Interval

(* One part of the position is made of the objects whose entries are in it.  *)
LEMMA PartAgrees ==
  ASSUME BookTyped, BookInv, ServicesTyped, now \in Nat,
         NEW phases, NEW R, NEW S, NEW C,
         Selects(R, RefundState, RefundPhase, phases),
         Selects(S, ShipmentState, ShipmentPhase, phases),
         Selects(C, {"ISSUED", "REVERSED"}, CreditPhase, phases)
  PROVE  /\ SumIn(book, Counted(book, now, phases))
              = SumIn(refunds, ObjectsIn(refunds, R)) + SumIn(shipments, ObjectsIn(shipments, S))
                  + SumIn(credits, ObjectsIn(credits, C))
         /\ SumIn(book, {n \in Counted(book, now, phases) : book[n].exception})
              = SumIn(credits, ObjectsIn(credits, C))
<1>1. PICK r, s, c :
        /\ r = Entered(book, "refund", refunds, phases)
        /\ s = Entered(book, "shipment", shipments, phases)
        /\ c = Entered(book, "credit", credits, phases)
  OBVIOUS
<1>2. /\ Counted(book, now, phases) = r \cup s \cup c
      /\ r \cap s = {} /\ (r \cup s) \cap c = {}
      /\ r \in SUBSET DOMAIN book /\ s \in SUBSET DOMAIN book /\ c \in SUBSET DOMAIN book
  BY <1>1, CountedNow
<1>3. /\ IsFiniteSet(DOMAIN refunds) /\ IsFiniteSet(DOMAIN shipments) /\ IsFiniteSet(DOMAIN credits)
  BY FiniteDomain DEF ServicesTyped
<1>4. SumIn(book, r) = SumIn(refunds, ObjectsIn(refunds, R))
  <2>1. \A n \in DOMAIN refunds : refunds[n].state \in RefundState /\ refunds[n].amount \in Nat
    BY ObjectsTyped DEF Refund
  <2>2. PICK exception : AllAccounted(book, "refund", refunds, RefundPhase, exception)
    BY DEF BookInv
  <2>3. \A n \in DOMAIN refunds : refunds[n].state \in R <=> RefundPhase[refunds[n].state] \in phases
    BY <2>1 DEF Selects
  <2>4. SumIn(book, Entered(book, "refund", refunds, phases)) = SumIn(refunds, ObjectsIn(refunds, R))
    BY <1>3, <2>1, <2>2, <2>3, SumOfKind DEF BookTyped
  <2>5. QED
    BY <1>1, <2>4
<1>5. SumIn(book, s) = SumIn(shipments, ObjectsIn(shipments, S))
  <2>1. \A n \in DOMAIN shipments : shipments[n].state \in ShipmentState /\ shipments[n].amount \in Nat
    BY ObjectsTyped DEF Shipment
  <2>2. PICK exception : AllAccounted(book, "shipment", shipments, ShipmentPhase, exception)
    BY DEF BookInv
  <2>3. \A n \in DOMAIN shipments : shipments[n].state \in S <=> ShipmentPhase[shipments[n].state] \in phases
    BY <2>1 DEF Selects
  <2>4. SumIn(book, Entered(book, "shipment", shipments, phases)) = SumIn(shipments, ObjectsIn(shipments, S))
    BY <1>3, <2>1, <2>2, <2>3, SumOfKind DEF BookTyped
  <2>5. QED
    BY <1>1, <2>4
<1>6. SumIn(book, c) = SumIn(credits, ObjectsIn(credits, C))
  <2>1. \A n \in DOMAIN credits : credits[n].state \in {"ISSUED", "REVERSED"} /\ credits[n].amount \in Nat
    BY ObjectsTyped DEF Credit
  <2>2. PICK exception : AllAccounted(book, "credit", credits, CreditPhase, exception)
    BY DEF BookInv
  <2>3. \A n \in DOMAIN credits : credits[n].state \in C <=> CreditPhase[credits[n].state] \in phases
    BY <2>1 DEF Selects
  <2>4. SumIn(book, Entered(book, "credit", credits, phases)) = SumIn(credits, ObjectsIn(credits, C))
    BY <1>3, <2>1, <2>2, <2>3, SumOfKind DEF BookTyped
  <2>5. QED
    BY <1>1, <2>4
<1>7. SumIn(book, Counted(book, now, phases)) = SumIn(book, r) + SumIn(book, s) + SumIn(book, c)
  <2>1. SumIn(book, r \cup s \cup c) = SumIn(book, r \cup s) + SumIn(book, c)
    BY <1>2, SumInUnion DEF BookTyped
  <2>2. SumIn(book, r \cup s) = SumIn(book, r) + SumIn(book, s)
    BY <1>2, SumInUnion DEF BookTyped
  <2>3. QED
    BY <1>2, <2>1, <2>2
<1>8. {n \in Counted(book, now, phases) : book[n].exception} = c
  <2>1. /\ \A k \in r : ~book[k].exception
        /\ \A k \in s : ~book[k].exception
        /\ \A k \in c : book[k].exception
    <3>1. ASSUME NEW kind, NEW objects, NEW phaseOf, NEW exception,
                 AllAccounted(book, kind, objects, phaseOf, exception),
                 NEW k \in Entered(book, kind, objects, phases)
          PROVE  book[k].exception = exception
      <4>1. PICK n \in DOMAIN objects : LastEntry(book, k, <<kind, n>>)
        BY DEF Entered
      <4>2. PICK l \in DOMAIN book : LastEntry(book, l, <<kind, n>>) /\ book[l].exception = exception
        BY <3>1, <4>1 DEF AllAccounted, Accounted
      <4>3. l = k
        BY <4>1, <4>2, LastIsOne DEF BookTyped
      <4>4. QED
        BY <4>2, <4>3
    <3>2. /\ AllAccounted(book, "refund", refunds, RefundPhase, FALSE)
          /\ AllAccounted(book, "shipment", shipments, ShipmentPhase, FALSE)
          /\ AllAccounted(book, "credit", credits, CreditPhase, TRUE)
      BY DEF BookInv
    <3>3. QED
      BY <1>1, <3>1, <3>2
  <2>2. QED
    BY <1>2, <2>1
<1>9. QED
  BY <1>4, <1>5, <1>6, <1>7, <1>8

LEMMA SumInNat ==
  ASSUME ServicesTyped, NEW states
  PROVE  /\ SumIn(refunds, ObjectsIn(refunds, states)) \in Nat
         /\ SumIn(shipments, ObjectsIn(shipments, states)) \in Nat
         /\ SumIn(credits, ObjectsIn(credits, states)) \in Nat
<1>1. ASSUME NEW objects, NEW Kind, objects \in Seq(Kind), \A n \in DOMAIN objects : objects[n].amount \in Nat
      PROVE  SumIn(objects, ObjectsIn(objects, states)) \in Nat
  <2>2. PICK S \in SUBSET DOMAIN objects : S = ObjectsIn(objects, states)
    BY DEF ObjectsIn
  <2>3. IsFiniteSet(S)
    BY <1>1, <2>2, FiniteDomain, FS_Subset
  <2>4. PICK f : f = [n \in S |-> objects[n].amount]
    OBVIOUS
  <2>5. \A n \in S : f[n] \in Nat
    BY <1>1, <2>2, <2>4
  <2>6. SumFunctionOnSet(f, S) \in Nat
    BY <2>3, <2>5, SumOfNumbers
  <2>7. QED
    BY <2>2, <2>4, <2>6 DEF SumIn
<1>2. /\ \A n \in DOMAIN refunds : refunds[n].amount \in Nat
      /\ \A n \in DOMAIN shipments : shipments[n].amount \in Nat
      /\ \A n \in DOMAIN credits : credits[n].amount \in Nat
  BY ObjectsTyped DEF Refund, Shipment, Credit
<1>3. QED
  BY <1>1, <1>2 DEF ServicesTyped

LEMMA PositionAgrees ==
  ASSUME BookTyped, BookInv, ServicesTyped, now \in Nat
  PROVE  BooksMatchServices
<1>. DEFINE Open == {"SETTLED", "PENDING", "PROJECTED"}
<1>1. /\ Selects({"SUCCEEDED"}, RefundState, RefundPhase, {"SETTLED"})
      /\ Selects({"PENDING"}, RefundState, RefundPhase, {"PENDING"})
      /\ Selects({}, RefundState, RefundPhase, {"PROJECTED"})
      /\ Selects({"SUCCEEDED", "PENDING"}, RefundState, RefundPhase, Open)
  BY DEF Selects, RefundState, RefundPhase
<1>2. /\ Selects({"DISPATCHED"}, ShipmentState, ShipmentPhase, {"SETTLED"})
      /\ Selects({}, ShipmentState, ShipmentPhase, {"PENDING"})
      /\ Selects({"CREATED", "ACCEPTED"}, ShipmentState, ShipmentPhase, {"PROJECTED"})
      /\ Selects({"CREATED", "ACCEPTED", "DISPATCHED"}, ShipmentState, ShipmentPhase, Open)
  BY DEF Selects, ShipmentState, ShipmentPhase
<1>3. /\ Selects({"ISSUED"}, {"ISSUED", "REVERSED"}, CreditPhase, {"SETTLED"})
      /\ Selects({}, {"ISSUED", "REVERSED"}, CreditPhase, {"PENDING"})
      /\ Selects({}, {"ISSUED", "REVERSED"}, CreditPhase, {"PROJECTED"})
      /\ Selects({"ISSUED"}, {"ISSUED", "REVERSED"}, CreditPhase, Open)
  BY DEF Selects, CreditPhase
<1>4. \A objects : ObjectsIn(objects, {}) = {} /\ SumIn(objects, ObjectsIn(objects, {})) = 0
  BY SumOfNone DEF ObjectsIn, SumIn
<1>5. \A states :
        /\ SumIn(refunds, ObjectsIn(refunds, states)) \in Nat
        /\ SumIn(shipments, ObjectsIn(shipments, states)) \in Nat
        /\ SumIn(credits, ObjectsIn(credits, states)) \in Nat
  BY SumInNat
<1>6. SumIn(book, Counted(book, now, {"SETTLED"}))
        = SumIn(refunds, ObjectsIn(refunds, {"SUCCEEDED"}))
            + SumIn(shipments, ObjectsIn(shipments, {"DISPATCHED"}))
            + SumIn(credits, ObjectsIn(credits, {"ISSUED"}))
  <2>1. PICK phases, R, S, C :
          phases = {"SETTLED"} /\ R = {"SUCCEEDED"} /\ S = {"DISPATCHED"} /\ C = {"ISSUED"}
    OBVIOUS
  <2>2. /\ Selects(R, RefundState, RefundPhase, phases)
        /\ Selects(S, ShipmentState, ShipmentPhase, phases)
        /\ Selects(C, {"ISSUED", "REVERSED"}, CreditPhase, phases)
    BY <1>1, <1>2, <1>3, <2>1
  <2>3. QED
    BY <2>1, <2>2, PartAgrees
<1>7. SumIn(book, Counted(book, now, {"PENDING"})) = SumIn(refunds, ObjectsIn(refunds, {"PENDING"}))
  <2>1. SumIn(book, Counted(book, now, {"PENDING"}))
          = SumIn(refunds, ObjectsIn(refunds, {"PENDING"})) + SumIn(shipments, ObjectsIn(shipments, {}))
              + SumIn(credits, ObjectsIn(credits, {}))
    <3>1. PICK phases, R, none : phases = {"PENDING"} /\ R = {"PENDING"} /\ none = {}
      OBVIOUS
    <3>2. /\ Selects(R, RefundState, RefundPhase, phases)
          /\ Selects(none, ShipmentState, ShipmentPhase, phases)
          /\ Selects(none, {"ISSUED", "REVERSED"}, CreditPhase, phases)
      BY <1>1, <1>2, <1>3, <3>1
    <3>3. QED
      BY <3>1, <3>2, PartAgrees
  <2>2. QED
    BY <1>4, <1>5, <2>1
<1>8. SumIn(book, Counted(book, now, {"PROJECTED"}))
        = SumIn(shipments, ObjectsIn(shipments, {"CREATED", "ACCEPTED"}))
  <2>1. SumIn(book, Counted(book, now, {"PROJECTED"}))
          = SumIn(refunds, ObjectsIn(refunds, {}))
              + SumIn(shipments, ObjectsIn(shipments, {"CREATED", "ACCEPTED"}))
              + SumIn(credits, ObjectsIn(credits, {}))
    BY <1>1, <1>2, <1>3, PartAgrees
  <2>2. QED
    BY <1>4, <1>5, <2>1
<1>9. SumIn(book, {n \in Counted(book, now, {"SETTLED", "PENDING", "PROJECTED"}) : book[n].exception})
        = SumIn(credits, ObjectsIn(credits, {"ISSUED"}))
  BY <1>1, <1>2, <1>3, PartAgrees
<1>10. QED
  BY <1>6, <1>7, <1>8, <1>9, Zenon DEF BooksMatchServices, PositionIn

-----------------------------------------------------------------------------
(* What the runner records.                                                 *)
Result ==
  [action : DOMAIN scenario, time : Nat, executed : BOOLEAN,
   status : {"OK", "TIMEOUT", "NOT_EXECUTED"}]

ResultsTyped == results \in Seq(Result)

LEMMA ResultsTypedNext ==
  ASSUME ClockInv, ResultsTyped, [SimNext]_simVars
  PROVE  ResultsTyped'
<1>1. Result' = Result
  BY CurrentFromQueue DEF Result
<1>2. CASE UNCHANGED results
  BY <1>1, <1>2 DEF ResultsTyped
<1>3. ASSUME HandlingAction, NEW executed \in BOOLEAN,
             NEW status \in {"OK", "TIMEOUT", "NOT_EXECUTED"}, Return(executed, status)
      PROVE  ResultsTyped'
  <2>1. ActionResult(executed, status) \in Result
    BY <1>3, ActionTyped DEF ActionResult, Result, ClockInv
  <2>2. results' \in Seq(Result)
    BY <1>3, <2>1, AppendFacts DEF Return, ResultsTyped
  <2>3. QED
    BY <1>1, <2>2 DEF ResultsTyped
<1>4. CASE NotExecuted
  BY <1>3, <1>4 DEF NotExecuted
<1>5. CASE Dispatch
  <2>1. UNCHANGED results \/ Return(TRUE, "OK") \/ Return(TRUE, "TIMEOUT")
    BY <1>5
    DEF Dispatch, CreateTicket, CloseTicket, CreateRefund, CreateLabel, ReserveStock, IssueCredit,
        Raise
  <2>2. HandlingAction
    BY <1>5
    DEF Dispatch, CreateTicket, CloseTicket, CreateRefund, CreateLabel, ReserveStock, IssueCredit
  <2>3. QED
    BY <1>2, <1>3, <2>1, <2>2
<1>6. QED
  BY <1>2, <1>4, <1>5
  DEF SimNext, simVars, runnerVars, ClockStep, Dequeue, Contradict, Settle, Finish, Aftermath,
      Accept, DispatchLabel, Cancel, Release, DispatchStock, ReverseCredit, ReopenTicket, AtRest

(* What holds of the clock, the services, the ledger and the runner, with    *)
(* the gateway or without it.                                               *)
ScenarioInv ==
  /\ ClockInv /\ ServicesTyped /\ ObjectsMadeOnce /\ AmountsKept
  /\ BookTyped /\ BookInv /\ CheckpointInv /\ ResultsTyped

LEMMA ScenarioInvInit == SimInit => ScenarioInv
<1>1. SimInit => ResultsTyped
  BY DEF SimInit, ResultsTyped
<1>2. QED
  BY <1>1, ClockInit, ServicesTypedInit, ObjectsMadeOnceInit, AmountsKeptInit, BookTypedInit,
     BookInvInit, CheckpointInit
  DEF ScenarioInv

LEMMA ScenarioInvNext ==
  ASSUME ScenarioInv, [ManagedNext]_managedVars
  PROVE  ScenarioInv'
<1>1. [SimNext]_simVars
  BY SimStep
<1>2. QED
  BY <1>1, ClockNext, ServicesTypedNext, ObjectsMadeOnceNext, AmountsKeptNext, BookTypedNext,
     BookInvNext, CheckpointNext, ResultsTypedNext DEF ScenarioInv

THEOREM ScenarioInvariance == ManagedSpec => []ScenarioInv
<1>1. ManagedInit => ScenarioInv
  BY ScenarioInvInit DEF ManagedInit
<1>2. ScenarioInv /\ [ManagedNext]_managedVars => ScenarioInv'
  BY ScenarioInvNext
<1>3. QED
  BY <1>1, <1>2, PTL DEF ManagedSpec

(* The clock, the services and the ledger hold values of their kinds, time   *)
(* never runs ahead of an event of the queue, and no result is of an action  *)
(* that is not of the scenario.                                             *)
THEOREM SimulatorTypeCorrect == ManagedSpec => []SimTypeOK
<1>1. ScenarioInv => SimTypeOK
  <2> SUFFICES ASSUME ScenarioInv
               PROVE  SimTypeOK
    OBVIOUS
  <2>1. /\ \A n \in DOMAIN refunds : refunds[n].state \in RefundState
        /\ \A n \in DOMAIN shipments : shipments[n].state \in ShipmentState
        /\ \A n \in DOMAIN stock : stock[n].state \in StockState
        /\ \A n \in DOMAIN credits : credits[n].state \in CreditState
    BY ObjectsTyped DEF ScenarioInv, Refund, Shipment, StockReservation, Credit, CreditState
  <2>2. \A n \in DOMAIN book : book[n].phase \in EconomicPhase
    <3>1. \A n \in DOMAIN book : book[n] \in BookEntry
      BY DEF ScenarioInv, BookTyped
    <3>2. QED
      BY <3>1 DEF BookEntry
  <2>3. \A i \in DOMAIN results : results[i].action \in DOMAIN scenario
    <3>1. \A i \in DOMAIN results : results[i] \in Result
      BY DEF ScenarioInv, ResultsTyped
    <3>2. QED
      BY <3>1 DEF Result
  <2>4. QED
    BY <2>1, <2>2, <2>3 DEF ScenarioInv, ClockInv, ServicesTyped, BookTyped, SimTypeOK
<1>2. QED
  BY <1>1, ScenarioInvariance, PTL

(* At any moment the economic position equals what the states of the refunds, *)
(* the labels and the credits say, in each of its parts and in every order of *)
(* calls, settlements and acts of operators.                                 *)
THEOREM BooksAreTrue == ManagedSpec => []BooksMatchServices
<1>1. ScenarioInv => BooksMatchServices
  BY PositionAgrees DEF ScenarioInv, ClockInv
<1>2. QED
  BY <1>1, ScenarioInvariance, PTL

(* The snapshot of the contradiction is what the ledger says of that moment  *)
(* ever after: whatever was scheduled, and in whatever order it was handled, *)
(* nothing due by then is entered later, and what is entered later is dated  *)
(* later.                                                                   *)
THEOREM SnapshotsStand == ManagedSpec => []CheckpointStands
<1>1. ScenarioInv => CheckpointStands
  BY DEF ScenarioInv, ClockInv, CheckpointInv, CheckpointStands
<1>2. QED
  BY <1>1, ScenarioInvariance, PTL

-----------------------------------------------------------------------------
(* The gateway in front of the services.  Nothing is ever released here: no  *)
(* call fails with authority and no evidence arrives, so an operation is     *)
(* granted once, to one request, and what its reservation says is what that  *)
(* request knows of its call.                                               *)
Served(r) == ObjectOf(r) \/ (r.tool = "create_refund" /\ KnownKey(r.key))

Standing(r) ==
  /\ pc[r] # "FAILED"
  /\ pc[r] = "TIMEOUT" => r \in uneffected
  /\ pc[r] = "OK" => Served(r)
  /\ pc[r] = "done" /\ attemptOf[r] > 0 =>
       \/ resState[OpOf[r]] = "CONFIRMED" /\ Served(r)
       \/ resState[OpOf[r]] = "OUTCOME_UNKNOWN" /\ r \in uneffected
       \/ resState[OpOf[r]] = "EXECUTING" /\ stage = "aborted" /\ ObjectOf(r)

(* What is inside the boundary has gone through the gateway.                *)
InsideEffected(objects) ==
  \A n \in DOMAIN objects : scenario[objects[n].by].inside => scenario[objects[n].by] \in effected

GrantedOnce ==
  /\ overtaken = {} /\ misread = {}
  /\ \A o \in Operation : resState[o] \notin ReleasingStates /\ attempts[o] <= 1

GatewayLink ==
  /\ interceptor \in Interceptor
  /\ GrantedOnce
  /\ interceptor = "ALLOW_ALL" => \A r \in Request : attemptOf[r] = 0
  /\ interceptor = "ISOPACT" =>
       /\ InsideEffected(refunds) /\ InsideEffected(shipments)
       /\ InsideEffected(stock) /\ InsideEffected(credits)
  /\ \A r \in Refused : attemptOf[r] = 0
  /\ \A r \in Request : Standing(r)

ManagedInv == ScenarioInv /\ GatewayInv /\ GatewayLink

(* What the gateway is asked about is a request.                            *)
LEMMA ActionRequested ==
  ASSUME ClockInv, HandlingRequest
  PROVE  /\ Action \in Request /\ Action.inside
         /\ Action.tool \in {"create_refund", "create_label", "reserve_stock", "issue_credit"}
  BY ActionTyped, ManagedScenarioAssumption
  DEF HandlingRequest, ScheduledActions, Protected, Primary

(* The kinds of step, as the gateway sees them.                             *)
LEMMA GatewaySteps ==
  ASSUME ClockInv, [ManagedNext]_managedVars
  PROVE  /\ UNCHANGED interceptor
         /\ \/ UNCHANGED vars /\ ~HandlingRequest
            \/ UNCHANGED <<vars, simVars>>
            \/ /\ HandlingRequest /\ Action \in Request
               /\ Refuse(Action) \/ Authorize(Action) \/ Begin(Action)
               /\ UNCHANGED serviceVars /\ stage' = stage
            \/ Performed /\ Action \in Request
            \/ \E r \in Request : Record(r) /\ UNCHANGED simVars
<1>1. CASE PassThrough
  BY <1>1 DEF PassThrough
<1>2. CASE Intercepted
  <2>1. HandlingRequest /\ Action \in Request
    BY <1>2, ActionRequested DEF Intercepted
  <2>2. UNCHANGED serviceVars /\ stage' = stage
    BY <1>2 DEF Intercepted, NotExecuted, Return, simVars, runnerVars
  <2>3. QED
    BY <1>2, <2>1, <2>2 DEF Intercepted
<1>3. CASE Performed
  BY <1>3, ActionRequested DEF Performed
<1>4. CASE Recorded
  BY <1>4 DEF Recorded
<1>5. CASE Clockwork
  <2>1. ClockStep => ~HandlingRequest
    BY DEF ClockStep, Dequeue, Contradict, Settle, Finish, HandlingRequest, HandlingAction
  <2>2. QED
    BY <1>5, <2>1 DEF Clockwork
<1>6. CASE After
  <2>1. Aftermath => stage = "over"
    BY DEF Aftermath, Accept, DispatchLabel, Cancel, Release, DispatchStock, ReverseCredit,
           ReopenTicket, AtRest
  <2>2. stage = "over" => ~HandlingRequest
    BY ActionTyped DEF HandlingRequest, Running
  <2>3. QED
    BY <1>6, <2>1, <2>2 DEF After
<1>7. CASE UNCHANGED managedVars
  BY <1>7 DEF managedVars
<1>8. QED
  BY <1>1, <1>2, <1>3, <1>4, <1>5, <1>6, <1>7 DEF ManagedNext, Run

LEMMA GatewayFollows ==
  ASSUME ManagedInv, [ManagedNext]_managedVars
  PROVE  [GatewayNext]_vars /\ GatewayInv'
<1>1. [GatewayNext]_vars
  BY GatewaySteps DEF ManagedInv, ScenarioInv, Performed, GatewayNext, RequestStep
<1>2. QED
  BY <1>1, GatewayNextKeepsInv DEF ManagedInv

(* What is there stays, and a run that died stays dead.                     *)
LEMMA ServedStays ==
  ASSUME ScenarioInv, [SimNext]_simVars, NEW r
  PROVE  /\ ObjectOf(r) => ObjectOf(r)'
         /\ Served(r) => Served(r)'
         /\ stage = "aborted" => stage' = "aborted"
<1>1. /\ Kept(refunds, refunds') /\ Kept(shipments, shipments')
      /\ Kept(stock, stock') /\ Kept(credits, credits')
      /\ \A n \in DOMAIN refunds : refunds'[n].key = refunds[n].key
  BY RefundsStayNext, ShipmentsStayNext, StockStaysNext, CreditsStayNext
  DEF ScenarioInv, RefundsStay, ShipmentsStay, StockStays, CreditsStay
<1>2. UNCHANGED scenario
  BY CurrentFromQueue
<1>3. ObjectOf(r) => ObjectOf(r)'
  BY <1>1, <1>2 DEF ObjectOf, Kept
<1>4. KnownKey(r.key) => KnownKey(r.key)'
  BY <1>1 DEF KnownKey, Kept
<1>5. stage = "aborted" => stage' = "aborted"
  <2>1. HandlingAction => Running
    BY ActionTyped DEF ScenarioInv
  <2>2. QED
    BY <2>1
    DEF Running, SimNext, simVars, runnerVars, NotExecuted, Return, Dispatch, CreateTicket,
        CloseTicket, CreateRefund, CreateLabel, ReserveStock, IssueCredit, Raise, ClockStep,
        Dequeue, Contradict, Settle, Finish, Aftermath, Accept, DispatchLabel, Cancel, Release,
        DispatchStock, ReverseCredit, ReopenTicket, AtRest
<1>6. QED
  BY <1>3, <1>4, <1>5 DEF Served

(* A request that was granted is alone with its operation.                  *)
LEMMA GrantStands ==
  ASSUME GatewayInv, GrantedOnce, NEW r \in Request, attemptOf[r] > 0, NEW q \in Request, q # r,
         Refuse(q) \/ Authorize(q) \/ Begin(q) \/ Call(q) \/ Record(q)
  PROVE  /\ resState'[OpOf[r]] = resState[OpOf[r]]
         /\ pc'[r] = pc[r] /\ attemptOf'[r] = attemptOf[r]
<1> USE GatewayAssumption, ReservationAssumption
<1>1. /\ OpOf[r] \in Operation /\ OpOf[q] \in Operation
      /\ pc \in [Request -> Stage] /\ attemptOf \in [Request -> 0..MaxAttempts]
      /\ resState \in [Operation -> ReservationState \cup {"ABSENT"}]
      /\ attempts \in [Operation -> 0..MaxAttempts]
  BY DEF GatewayInv, GatewayTypeOK, ReservationInv, ReservationTypeOK
<1>2. attemptOf[r] = 1 /\ attempts[OpOf[r]] = 1
  BY <1>1 DEF GatewayInv, AttemptsIdentify, GrantedOnce
<1>3. pc'[r] = pc[r] /\ attemptOf'[r] = attemptOf[r]
  BY <1>1 DEF Refuse, Authorize, Begin, Call, Record, Goto
<1>4. CASE OpOf[q] # OpOf[r]
  BY <1>1, <1>3, <1>4
  DEF Refuse, Authorize, Begin, Call, Record, resVars, Reserve, BeginExecution, RecordOutcome,
      Transition
<1>5. CASE OpOf[q] = OpOf[r]
  <2>1. attemptOf[q] = 0
    <3>1. attemptOf[q] <= 1
      BY <1>2, <1>5 DEF GatewayInv, AttemptsIdentify
    <3>2. attemptOf[q] # 1
      BY <1>2, <1>5 DEF GatewayInv, AttemptsIdentify
    <3>3. QED
      BY <1>1, <3>1, <3>2
  <2>2. pc[q] \notin Active
    BY <2>1 DEF GatewayInv, CallsKnown
  <2>3. ~Granted(OpOf[q])
    <3>1. resState[OpOf[r]] \notin {"ABSENT", "FAILED_AUTHORITATIVELY"}
      BY <1>1, <1>2
      DEF GatewayInv, ReservationInv, ReservationTypeOK, GrantedOnce, ReleasingStates
    <3>2. QED
      BY <1>1, <1>5, <3>1 DEF Granted, ReservePlan, Plan, ReservationState
  <2>4. Refuse(q) \/ Authorize(q)
    BY <2>2 DEF Begin, Call, Record, Active, Executing
  <2>5. QED
    BY <1>3, <2>3, <2>4 DEF Refuse, Authorize, resVars
<1>6. QED
  BY <1>4, <1>5

(* No operation is given up, so none is granted twice and none is overtaken. *)
LEMMA GrantedOnceNext ==
  ASSUME ManagedInv, [ManagedNext]_managedVars
  PROVE  GrantedOnce'
<1> USE GatewayAssumption, ReservationAssumption
<1>1. /\ GrantedOnce /\ GatewayInv /\ ClockInv
      /\ resState \in [Operation -> ReservationState \cup {"ABSENT"}]
      /\ attempts \in [Operation -> 0..MaxAttempts]
      /\ \A o \in Operation : resState[o] = "ABSENT" <=> attempts[o] = 0
      /\ \A r \in Request : OpOf[r] \in Operation /\ pc[r] # "FAILED"
  BY DEF ManagedInv, ScenarioInv, GatewayLink, GatewayInv, ReservationInv, ReservationTypeOK, Standing
<1>2. CASE UNCHANGED <<resVars, misread>>
  BY <1>1, <1>2 DEF GrantedOnce, resVars
<1>3. ASSUME NEW r \in Request, Refuse(r) \/ Call(r)
      PROVE  GrantedOnce'
  BY <1>2, <1>3 DEF Refuse, Call, evidenceVars
<1>4. ASSUME NEW r \in Request, Authorize(r)
      PROVE  GrantedOnce'
  <2>1. CASE Granted(OpOf[r])
    <3>1. resState[OpOf[r]] = "ABSENT" /\ attempts[OpOf[r]] = 0
      BY <1>1, <2>1
      DEF Granted, ReservePlan, Plan, GrantedOnce, ReleasingStates, ReservationState
    <3>2. /\ resState' = [resState EXCEPT ![OpOf[r]] = "RESERVED"]
          /\ attempts' = [attempts EXCEPT ![OpOf[r]] = 1]
          /\ overtaken' = overtaken /\ misread' = misread
      BY <1>1, <1>4, <2>1, <3>1 DEF Authorize, Reserve, Overtakes, evidenceVars
    <3>3. QED
      BY <1>1, <3>2 DEF GrantedOnce, ReleasingStates
  <2>2. CASE ~Granted(OpOf[r])
    BY <1>2, <1>4, <2>2 DEF Authorize, evidenceVars
  <2>3. QED
    BY <2>1, <2>2
<1>5. ASSUME NEW r \in Request, Begin(r)
      PROVE  GrantedOnce'
  BY <1>1, <1>5
  DEF Begin, BeginExecution, Transition, GrantedOnce, ReleasingStates, evidenceVars
<1>6. ASSUME NEW r \in Request, Record(r)
      PROVE  GrantedOnce'
  <2>1. OutcomeOf(pc[r]) \notin ReleasingStates
    BY <1>1, <1>6 DEF Record, OutcomeOf, CallStatus, ReleasingStates
  <2>2. QED
    BY <1>1, <1>6, <2>1 DEF Record, RecordOutcome, Transition, GrantedOnce, evidenceVars
<1>7. QED
  BY <1>1, <1>2, <1>3, <1>4, <1>5, <1>6, GatewaySteps DEF Performed, vars, evidenceVars

(* A call of a service makes an object, unless it times out or finds one.   *)
LEMMA CallServes ==
  ASSUME ScenarioInv, HandlingRequest, Dispatch, NEW r, r = Action
  PROVE  \/ r.tool = "create_refund" /\ r.timeout /\ stage' = stage
         \/ r.tool = "create_refund" /\ ~r.timeout /\ KnownKey(r.key)' /\ stage' = stage
         \/ ~(r.tool = "create_refund" /\ r.timeout) /\ ObjectOf(r)'
<1>1. /\ HandlingAction /\ Action = scenario[current.action] /\ current.action \in DOMAIN scenario
      /\ IsScheduledAction(Action) /\ UNCHANGED scenario
  BY ActionTyped
  DEF HandlingRequest, ScenarioInv, Action, Dispatch, CreateTicket, CloseTicket, CreateRefund,
      CreateLabel, ReserveStock, IssueCredit, Return, Raise
<1>2. ServicesTyped /\ ClockInv
  BY DEF ScenarioInv
<1>3. CASE CreateRefund
  <2>1. CASE NewRefund(Action) /\ ~Action.timeout
    <3>1. /\ Len(refunds) + 1 \in DOMAIN refunds'
          /\ refunds'[Len(refunds) + 1].by = current.action
      BY <1>1, <1>2, <2>1, NewRefundTyped
    <3>2. ObjectOf(r)'
      BY <1>1, <3>1 DEF ObjectOf
    <3>3. QED
      BY <2>1, <3>2
  <2>2. CASE ~(NewRefund(Action) /\ ~Action.timeout)
    <3>1. UNCHANGED refunds /\ Action.tool = "create_refund" /\ stage' = stage
          /\ (Action.timeout \/ (~Action.timeout /\ KnownKey(Action.key)))
      BY <1>3, <2>2 DEF CreateRefund, Return
    <3>2. KnownKey(r.key)' <=> KnownKey(r.key)
      BY <3>1 DEF KnownKey
    <3>3. QED
      BY <3>1, <3>2
  <2>3. QED
    BY <2>1, <2>2
<1>4. CASE CreateLabel
  <2>1. [amount |-> Action.amount, state |-> "CREATED", by |-> current.action] \in Shipment
    BY <1>1, <1>2, ActionTyped DEF Shipment, ShipmentState, IsScheduledAction
  <2>2. /\ Len(shipments) + 1 \in DOMAIN shipments'
        /\ shipments'[Len(shipments) + 1].by = current.action
    BY <1>2, <1>4, <2>1, AppendFacts DEF CreateLabel, ServicesTyped
  <2>3. ObjectOf(r)'
    BY <1>1, <2>2 DEF ObjectOf
  <2>4. QED
    BY <1>4, <2>3 DEF CreateLabel
<1>5. CASE ReserveStock
  <2>1. [state |-> "RESERVED", by |-> current.action] \in StockReservation
    BY <1>1, <1>2, ActionTyped DEF StockReservation, StockState
  <2>2. Len(stock) + 1 \in DOMAIN stock' /\ stock'[Len(stock) + 1].by = current.action
    BY <1>2, <1>5, <2>1, AppendFacts DEF ReserveStock, ServicesTyped
  <2>3. ObjectOf(r)'
    BY <1>1, <2>2 DEF ObjectOf
  <2>4. QED
    BY <1>5, <2>3 DEF ReserveStock
<1>6. CASE IssueCredit
  <2>1. [amount |-> Action.amount, state |-> "ISSUED", by |-> current.action] \in Credit
    BY <1>1, <1>2, ActionTyped DEF Credit, IsScheduledAction
  <2>2. Len(credits) + 1 \in DOMAIN credits' /\ credits'[Len(credits) + 1].by = current.action
    BY <1>2, <1>6, <2>1, AppendFacts DEF IssueCredit, ServicesTyped
  <2>3. ObjectOf(r)'
    BY <1>1, <2>2 DEF ObjectOf
  <2>4. QED
    BY <1>6, <2>3 DEF IssueCredit
<1>7. QED
  BY <1>2, <1>3, <1>4, <1>5, <1>6, ActionRequested DEF Dispatch, CreateTicket, CloseTicket

(* Its request knows which of them it was.                                  *)
LEMMA PerformedStands ==
  ASSUME ManagedInv, Performed, NEW r \in Request, r = Action
  PROVE  Standing(r)'
<1>1. /\ HandlingRequest /\ Dispatch /\ Call(r)
      /\ pc'[r] = ResultOf(r) /\ (r \in effected' <=> ResultOf(r) # "TIMEOUT")
      /\ ScenarioInv /\ GatewayInv
  BY DEF Performed, ManagedInv
<1>2. pc[r] = "call" /\ resState[OpOf[r]] = "EXECUTING" /\ UNCHANGED resVars
  BY <1>1 DEF Call, GatewayInv, ExecutorOwnsAuthority, Active, Executing
<1>3. stage # "aborted"
  BY <1>1, ActionTyped DEF HandlingRequest, ScenarioInv, Running
<1>4. CASE r.tool = "create_refund" /\ r.timeout
  <2>1. pc'[r] = "TIMEOUT" /\ r \notin effected'
    BY <1>1, <1>4 DEF ResultOf
  <2>2. pc \in [Request -> Stage]
    BY <1>1 DEF GatewayInv, GatewayTypeOK
  <2>3. r \in uneffected'
    BY <1>1, <2>1, <2>2 DEF Call, Goto
  <2>4. QED
    BY <2>1, <2>3 DEF Standing
<1>5. CASE ~(r.tool = "create_refund" /\ r.timeout) /\ stage' = "aborted"
  <2>1. pc'[r] = "done" /\ ObjectOf(r)'
    BY <1>1, <1>3, <1>5, CallServes DEF ResultOf
  <2>2. QED
    BY <1>2, <1>5, <2>1 DEF Standing, resVars
<1>6. CASE ~(r.tool = "create_refund" /\ r.timeout) /\ stage' # "aborted"
  <2>1. pc'[r] = "OK" /\ Served(r)'
    BY <1>1, <1>6, CallServes DEF ResultOf, Served
  <2>2. QED
    BY <2>1 DEF Standing
<1>7. QED
  BY <1>4, <1>5, <1>6

LEMMA StandingNext ==
  ASSUME ManagedInv, [ManagedNext]_managedVars, NEW r \in Request
  PROVE  Standing(r)'
<1>1. /\ ScenarioInv /\ ClockInv /\ GatewayInv /\ GrantedOnce /\ Standing(r)
      /\ pc \in [Request -> Stage] /\ attemptOf \in [Request -> 0..MaxAttempts]
      /\ \A q \in Request : pc[q] # "FAILED"
      /\ GatewayInv'
  BY GatewayFollows
  DEF ManagedInv, ScenarioInv, GatewayLink, GatewayInv, GatewayTypeOK, Standing
<1>2. [SimNext]_simVars
  BY SimStep
<1>3. /\ ObjectOf(r) => ObjectOf(r)'
      /\ Served(r) => Served(r)'
      /\ stage = "aborted" => stage' = "aborted"
  BY <1>1, <1>2, ServedStays
<1>4. uneffected \subseteq uneffected'
  BY GatewaySteps, <1>1
  DEF vars, worldVars, Refuse, Authorize, Begin, Record, Performed, Call
<1>5. ASSUME pc'[r] = pc[r], attemptOf'[r] = attemptOf[r],
             attemptOf[r] > 0 => resState'[OpOf[r]] = resState[OpOf[r]]
      PROVE  Standing(r)'
  BY <1>1, <1>3, <1>4, <1>5 DEF Standing
<1>6. ASSUME NEW q \in Request, q # r,
             Refuse(q) \/ Authorize(q) \/ Begin(q) \/ Call(q) \/ Record(q)
      PROVE  Standing(r)'
  <2>1. CASE attemptOf[r] > 0
    BY <1>1, <1>5, <1>6, <2>1, GrantStands
  <2>2. CASE ~(attemptOf[r] > 0)
    <3>1. pc'[r] = pc[r] /\ attemptOf'[r] = attemptOf[r]
      BY <1>1, <1>6 DEF Refuse, Authorize, Begin, Call, Record, Goto
    <3>2. QED
      BY <1>5, <2>2, <3>1
  <2>3. QED
    BY <2>1, <2>2
<1>7. CASE Refuse(r) \/ Authorize(r)
  <2>1. pc[r] = "start" /\ attemptOf[r] = 0
    BY <1>1, <1>7 DEF Refuse, Authorize, GatewayInv, AttemptsIdentify
  <2>2. \/ pc'[r] = "begin"
        \/ pc'[r] = "done" /\ attemptOf'[r] = 0
    BY <1>1, <1>7, <2>1 DEF Refuse, Authorize, Goto
  <2>3. QED
    BY <2>2 DEF Standing
<1>8. CASE Begin(r)
  <2>1. pc'[r] = "call"
    BY <1>1, <1>8 DEF Begin, Goto
  <2>2. QED
    BY <2>1 DEF Standing
<1>9. CASE Record(r) /\ UNCHANGED simVars
  <2>1. pc[r] \in {"OK", "TIMEOUT"} /\ pc'[r] = "done"
    BY <1>1, <1>9 DEF Record, CallStatus, Goto
  <2>2. resState'[OpOf[r]] = OutcomeOf(pc[r])
    <3>1. OpOf[r] \in Operation /\ resState \in [Operation -> ReservationState \cup {"ABSENT"}]
      BY <1>1, GatewayAssumption DEF GatewayInv, ReservationInv, ReservationTypeOK
    <3>2. QED
      BY <1>9, <3>1 DEF Record, RecordOutcome, Transition
  <2>3. QED
    BY <1>1, <1>3, <1>4, <2>1, <2>2 DEF Standing, OutcomeOf
<1>10. CASE Performed /\ Action \in Request /\ r # Action
  <2>1. PICK q \in Request : q = Action
    BY <1>10
  <2>2. QED
    BY <1>6, <1>10, <2>1 DEF Performed
<1>11. CASE UNCHANGED vars
  BY <1>5, <1>11 DEF vars, requestVars, resVars
<1>12. CASE HandlingRequest /\ Action \in Request
              /\ (Refuse(Action) \/ Authorize(Action) \/ Begin(Action))
  <2>1. PICK q \in Request : q = Action
    BY <1>12
  <2>2. QED
    BY <1>6, <1>7, <1>8, <1>12, <2>1
<1>13. ASSUME NEW q \in Request, Record(q), UNCHANGED simVars
       PROVE  Standing(r)'
  BY <1>6, <1>9, <1>13
<1>14. CASE Performed /\ r = Action
  BY <1>14, PerformedStands
<1>15. QED
  BY <1>1, <1>10, <1>11, <1>12, <1>13, <1>14, GatewaySteps

(* The gateway lets nothing inside the boundary pass that has no effect of   *)
(* its own.                                                                 *)
LEMMA InsideStays ==
  ASSUME ManagedInv, [ManagedNext]_managedVars, interceptor = "ISOPACT",
         NEW old, NEW new, NEW tool \in Primary \cup {"issue_credit"},
         InsideEffected(old), Kept(old, new), OneMore(old, new, tool),
         UNCHANGED serviceVars => new = old,
         \A n \in DOMAIN new \ DOMAIN old : ~(Action.tool = "create_refund" /\ Action.timeout)
  PROVE  InsideEffected(new)'
<1>1. UNCHANGED scenario
  BY SimStep, CurrentFromQueue
<1>2. effected \subseteq effected'
  BY GatewaySteps
  DEF ManagedInv, ScenarioInv, vars, worldVars, Refuse, Authorize, Begin, Record, Performed, Call
<1>3. ASSUME NEW n \in DOMAIN new \ DOMAIN old, scenario[new[n].by].inside
      PROVE  scenario[new[n].by] \in effected'
  <2>1. /\ HandlingAction /\ Action = scenario[new[n].by] /\ Action.tool = tool /\ current' = Idle
        /\ Action.inside
    BY <1>3 DEF OneMore, Action
  <2>2. HandlingRequest
    BY <2>1 DEF HandlingRequest, Protected
  <2>3. Performed
    BY <1>3, <2>2, GatewaySteps DEF ManagedInv, ScenarioInv, simVars
  <2>4. PICK r : r = Action
    OBVIOUS
  <2>5. r \in effected' <=> ResultOf(r) # "TIMEOUT"
    BY <2>3, <2>4 DEF Performed
  <2>6. ResultOf(r) # "TIMEOUT"
    BY <1>3, <2>4 DEF ResultOf
  <2>7. QED
    BY <2>1, <2>4, <2>5, <2>6
<1>4. QED
  BY <1>1, <1>2, <1>3 DEF InsideEffected, Kept

LEMMA InsideEffectedNext ==
  ASSUME ManagedInv, [ManagedNext]_managedVars, interceptor = "ISOPACT"
  PROVE  (/\ InsideEffected(refunds) /\ InsideEffected(shipments)
          /\ InsideEffected(stock) /\ InsideEffected(credits))'
<1>1. /\ InsideEffected(refunds) /\ InsideEffected(shipments)
      /\ InsideEffected(stock) /\ InsideEffected(credits)
      /\ ClockInv /\ ServicesTyped
  BY DEF ManagedInv, ScenarioInv, GatewayLink
<1>2. RefundsStay /\ ShipmentsStay /\ StockStays /\ CreditsStay
  BY <1>1, SimStep, RefundsStayNext, ShipmentsStayNext, StockStaysNext, CreditsStayNext
<1>3. InsideEffected(refunds)'
  <2>1. \A n \in DOMAIN refunds' \ DOMAIN refunds : ~Action.timeout
    BY <1>2 DEF RefundsStay
  <2>2. QED
    BY <1>1, <1>2, <2>1, InsideStays DEF RefundsStay, Primary, serviceVars
<1>4. InsideEffected(shipments)'
  BY <1>1, <1>2, InsideStays DEF ShipmentsStay, OneMore, Primary, serviceVars
<1>5. InsideEffected(stock)'
  BY <1>1, <1>2, InsideStays DEF StockStays, OneMore, Primary, serviceVars
<1>6. InsideEffected(credits)'
  BY <1>1, <1>2, InsideStays DEF CreditsStay, OneMore, Primary, serviceVars
<1>7. QED
  BY <1>3, <1>4, <1>5, <1>6

LEMMA ManagedInvInit == ManagedInit => ManagedInv
<1> SUFFICES ASSUME ManagedInit
             PROVE  ManagedInv
  OBVIOUS
<1>1. ScenarioInv /\ GatewayInv
  BY ScenarioInvInit, GatewayInitHolds DEF ManagedInit
<1>2. GatewayLink
  BY GatewayAssumption
  DEF ManagedInit, GatewayInit, ReservationInit, SimInit, GatewayLink, GrantedOnce, ReleasingStates,
      InsideEffected, Standing
<1>3. QED
  BY <1>1, <1>2 DEF ManagedInv

LEMMA ManagedInvNext == ManagedInv /\ [ManagedNext]_managedVars => ManagedInv'
<1> SUFFICES ASSUME ManagedInv, [ManagedNext]_managedVars
             PROVE  ManagedInv'
  OBVIOUS
<1>1. ScenarioInv' /\ GatewayInv' /\ GrantedOnce'
  BY ScenarioInvNext, GatewayFollows, GrantedOnceNext DEF ManagedInv
<1>2. UNCHANGED interceptor
  BY GatewaySteps DEF ManagedInv, ScenarioInv
<1>3. interceptor = "ALLOW_ALL" => \A r \in Request : attemptOf'[r] = 0
  <2> SUFFICES ASSUME interceptor = "ALLOW_ALL"
               PROVE  \A r \in Request : attemptOf'[r] = 0
    OBVIOUS
  <2>1. ~HandlingRequest /\ ~Performed
    BY DEF HandlingRequest, Performed
  <2>2. \A r \in Request : attemptOf[r] = 0
    BY DEF ManagedInv, GatewayLink
  <2>3. UNCHANGED attemptOf
    BY <2>1, GatewaySteps DEF ManagedInv, ScenarioInv, vars, requestVars, Record
  <2>4. QED
    BY <2>2, <2>3
<1>4. \A r \in Refused : attemptOf'[r] = 0
  <2> SUFFICES ASSUME NEW r \in Refused
               PROVE  attemptOf'[r] = 0
    OBVIOUS
  <2>1. attemptOf[r] = 0 /\ r \in Request
    BY GatewayAssumption DEF ManagedInv, GatewayLink
  <2>2. attemptOf \in [Request -> 0..MaxAttempts]
    BY DEF ManagedInv, GatewayInv, GatewayTypeOK
  <2>3. ASSUME NEW q \in Request, Refuse(q) \/ Authorize(q) \/ Begin(q) \/ Call(q) \/ Record(q)
        PROVE  attemptOf'[r] = 0
    BY <2>1, <2>2, <2>3 DEF Refuse, Authorize, Begin, Call, Record
  <2>4. QED
    BY <2>1, <2>3, GatewaySteps DEF ManagedInv, ScenarioInv, vars, requestVars, Performed
<1>5. QED
  BY <1>1, <1>2, <1>3, <1>4, InsideEffectedNext, StandingNext DEF ManagedInv, GatewayLink

THEOREM ManagedInvariance == ManagedSpec => []ManagedInv
  BY ManagedInvInit, ManagedInvNext, PTL DEF ManagedSpec

(* The gateway of a scenario is the gateway of GatewayProofs, with nothing    *)
(* overtaken and nothing misread.                                           *)
THEOREM ScenariosPlayTheGateway == ManagedSpec => OrderlyGatewaySpec
<1>1. ManagedInit => GatewayInit
  BY DEF ManagedInit
<1>2. ManagedInv /\ [ManagedNext]_managedVars
        => [GatewayNext /\ overtaken' = {} /\ misread' = {}]_vars
  BY GatewayFollows, GrantedOnceNext DEF GrantedOnce
<1>3. QED
  BY <1>1, <1>2, ManagedInvariance, PTL DEF ManagedSpec, OrderlyGatewaySpec

(* Whatever agents are scheduled to do, what the services of a scenario get   *)
(* to see through the gateway is authorised once and done once.             *)
THEOREM ScenariosKeepAuthority == ManagedSpec => KeepsOutcomeAuthority
  BY ScenariosPlayTheGateway, GatewayImplementsAuthority

LEMMA OrderlyIsGateway == OrderlyGatewaySpec => GatewaySpec
  BY PTL DEF OrderlyGatewaySpec, GatewaySpec

(* What the reservation says of a request that was granted is what the       *)
(* services say, whatever timed out and wherever the run died.              *)
THEOREM ReservationsKnowServices == ManagedSpec => []ReservationsMatchServices
<1>1. ManagedInv => ReservationsMatchServices
  <2> SUFFICES ASSUME ManagedInv, NEW r \in Request, pc[r] = "done", attemptOf[r] > 0
               PROVE  CASE resState[OpOf[r]] = "CONFIRMED" -> Served(r)
                        [] resState[OpOf[r]] = "OUTCOME_UNKNOWN" -> ~ObjectOf(r)
                        [] resState[OpOf[r]] = "EXECUTING" -> stage = "aborted" /\ ObjectOf(r)
                        [] OTHER -> FALSE
    BY DEF ReservationsMatchServices, Served
  <2>1. Standing(r)
    BY DEF ManagedInv, GatewayLink
  <2>2. ASSUME r \in uneffected, ObjectOf(r)
        PROVE  FALSE
    <3>1. attemptOf[r] # 0 /\ r \notin effected
      BY <2>2 DEF ManagedInv, GatewayInv, GatewayTypeOK, CallsKnown
    <3>2. interceptor = "ISOPACT"
      BY <3>1 DEF ManagedInv, GatewayLink, Interceptor
    <3>3. /\ InsideEffected(refunds) /\ InsideEffected(shipments)
          /\ InsideEffected(stock) /\ InsideEffected(credits)
      BY <3>2 DEF ManagedInv, GatewayLink
    <3>4. r.inside
      BY ManagedScenarioAssumption DEF Protected
    <3>5. QED
      BY <2>2, <3>1, <3>3, <3>4 DEF ObjectOf, InsideEffected
  <2>3. QED
    BY <2>1, <2>2 DEF Standing
<1>2. QED
  BY <1>1, ManagedInvariance, PTL

(* Of two effects in one slot, each is the other.                           *)
LEMMA EffectsCoincide ==
  ASSUME ScenarioInv, GatewayInv, GrantedOnce, NoDuplicateEffect, OneEffectPerSlot,
         NEW i \in DOMAIN scenario, NEW j \in DOMAIN scenario,
         SlotFor(OperationOf(scenario[i])) = SlotFor(OperationOf(scenario[j])),
         scenario[i] \in effected, scenario[j] \in effected
  PROVE  i = j
<1>1. PICK r \in Request, q \in Request : r = scenario[i] /\ q = scenario[j]
  BY DEF GatewayInv, GatewayTypeOK
<1>2. ASSUME NEW a \in Request
      PROVE  SlotOf[OpOf[a]] = SlotFor(OperationOf(a)) /\ SlotOf[OpOf[a]] \in Slot
  BY GatewayAssumption, ManagedScenarioAssumption DEF SlotFor
<1>3. SlotOf[OpOf[r]] = SlotOf[OpOf[q]] /\ SlotOf[OpOf[r]] \in Slot
  BY <1>1, <1>2
<1>4. OpOf[r] = OpOf[q]
  BY <1>1, <1>3 DEF OneEffectPerSlot, GrantedOnce
<1>5. r = q
  BY <1>1, <1>4 DEF NoDuplicateEffect, GrantedOnce
<1>6. QED
  BY <1>1, <1>5, ManagedScenarioAssumption DEF ScenarioInv, ClockInv

LEMMA SlotOfTool ==
  /\ \A a : a.tool \in Primary => SlotFor(OperationOf(a)) = "primary_compensation"
  /\ \A a : a.tool = "issue_credit" => SlotFor(OperationOf(a)) = "goodwill"
<1>1. \A a : OperationOf(a)[1] = Normalized(a).path
  BY DEF OperationOf
<1>2. \A a : a.tool \in Primary => Normalized(a).path \in {"successful_refund", "confirmed_replacement"}
  BY DEF Normalized, Primary
<1>3. \A a : a.tool = "issue_credit" => Normalized(a).path = "authorized_goodwill"
  BY DEF Normalized
<1>4. QED
  BY <1>1, <1>2, <1>3 DEF SlotFor

LEMMA RemediesCoincide ==
  ASSUME ScenarioInv, GatewayInv, GrantedOnce, NoDuplicateEffect, OneEffectPerSlot,
         NEW i \in DOMAIN scenario, NEW j \in DOMAIN scenario,
         scenario[i].tool \in Primary, scenario[j].tool \in Primary,
         scenario[i] \in effected, scenario[j] \in effected
  PROVE  i = j
<1>1. SlotFor(OperationOf(scenario[i])) = SlotFor(OperationOf(scenario[j]))
  BY SlotOfTool
<1>2. QED
  BY <1>1, EffectsCoincide

(* A set whose elements are all one has one at most.                        *)
LEMMA AtMostOne ==
  ASSUME NEW S, \A x \in S, y \in S : x = y
  PROVE  IF S = {} THEN Cardinality(S) = 0 ELSE Cardinality(S) = 1
<1>1. CASE S = {}
  BY <1>1, FS_EmptySet
<1>2. CASE S # {}
  <2>1. PICK x \in S : TRUE
    BY <1>2
  <2>2. S = {x}
    BY <2>1
  <2>3. QED
    BY <1>2, <2>2, FS_Singleton
<1>3. QED
  BY <1>1, <1>2

(* Under the gateway agents who know nothing of each other make at most one  *)
(* primary remedy between them, in a scenario of any length.                *)
THEOREM OneRemedyBetweenAgents == ManagedSpec => []OnePrimaryRemedy
<1>1. ManagedInv /\ NoDuplicateEffect /\ OneEffectPerSlot => OnePrimaryRemedy
  <2> SUFFICES ASSUME ManagedInv, NoDuplicateEffect, OneEffectPerSlot, interceptor = "ISOPACT"
               PROVE  Cardinality(InsideOnly(refunds)) + Cardinality(InsideOnly(shipments))
                        + Cardinality(InsideOnly(stock)) <= 1
    BY DEF OnePrimaryRemedy
  <2>1. ScenarioInv /\ GatewayInv /\ GrantedOnce /\ ObjectsMadeOnce
    BY DEF ManagedInv, ScenarioInv, GatewayLink
  <2>2. /\ InsideEffected(refunds) /\ InsideEffected(shipments) /\ InsideEffected(stock)
        /\ MadeBy(refunds, "create_refund") /\ MadeBy(shipments, "create_label")
        /\ MadeBy(stock, "reserve_stock")
    BY DEF ManagedInv, ScenarioInv, GatewayLink, ObjectsMadeOnce
  <2>3. ASSUME NEW old, NEW tool \in Primary, InsideEffected(old), MadeBy(old, tool),
               NEW n \in InsideOnly(old)
        PROVE  /\ n \in DOMAIN old /\ old[n].by \in DOMAIN scenario
               /\ scenario[old[n].by].tool = tool /\ scenario[old[n].by] \in effected
    BY <2>3 DEF InsideOnly, InsideEffected, MadeBy
  <2>4. ASSUME NEW old, NEW tool \in Primary, InsideEffected(old), MadeBy(old, tool)
        PROVE  \A n \in InsideOnly(old), m \in InsideOnly(old) : n = m
    <3> SUFFICES ASSUME NEW n \in InsideOnly(old), NEW m \in InsideOnly(old)
                 PROVE  n = m
      OBVIOUS
    <3>1. old[n].by = old[m].by
      BY <2>1, <2>3, <2>4, RemediesCoincide
    <3>2. QED
      BY <2>3, <2>4, <3>1 DEF MadeBy
  <2>5. ASSUME NEW old, NEW tool \in Primary, InsideEffected(old), MadeBy(old, tool),
               NEW other, NEW kind \in Primary, InsideEffected(other), MadeBy(other, kind),
               tool # kind
        PROVE  InsideOnly(old) = {} \/ InsideOnly(other) = {}
    <3> SUFFICES ASSUME NEW n \in InsideOnly(old), NEW m \in InsideOnly(other)
                 PROVE  FALSE
      OBVIOUS
    <3>1. old[n].by = other[m].by
      BY <2>1, <2>3, <2>5, RemediesCoincide
    <3>2. QED
      BY <2>3, <2>5, <3>1
  <2>6. /\ InsideOnly(refunds) = {} \/ InsideOnly(shipments) = {}
        /\ InsideOnly(refunds) = {} \/ InsideOnly(stock) = {}
        /\ InsideOnly(shipments) = {} \/ InsideOnly(stock) = {}
    BY <2>2, <2>5 DEF Primary
  <2>7. /\ \A n \in InsideOnly(refunds), m \in InsideOnly(refunds) : n = m
        /\ \A n \in InsideOnly(shipments), m \in InsideOnly(shipments) : n = m
        /\ \A n \in InsideOnly(stock), m \in InsideOnly(stock) : n = m
    BY <2>2, <2>4 DEF Primary
  <2>8. QED
    BY <2>6, <2>7, AtMostOne
<1>2. ManagedSpec => [](NoDuplicateEffect /\ OneEffectPerSlot)
  BY ScenariosPlayTheGateway, OrderlyIsGateway, AtMostOneEffect, OneWinnerPerSlot, PTL
<1>3. QED
  BY <1>1, <1>2, ManagedInvariance, PTL

(* What a service holds of one object at most is the amount of that one.    *)
LEMMA SumOfAtMostOne ==
  ASSUME NEW objects, NEW n, DOMAIN objects \subseteq {n},
         \A m \in DOMAIN objects : objects[m].amount \in Nat, NEW states
  PROVE  SumIn(objects, ObjectsIn(objects, states))
           = IF n \in DOMAIN objects /\ objects[n].state \in states THEN objects[n].amount ELSE 0
<1>1. CASE n \in DOMAIN objects /\ objects[n].state \in states
  <2>1. ObjectsIn(objects, states) = {n}
    BY <1>1 DEF ObjectsIn
  <2>2. PICK f : f = [m \in {n} |-> objects[m].amount]
    OBVIOUS
  <2>3. f[n] = objects[n].amount /\ f[n] \in Int
    BY <1>1, <2>2
  <2>4. SumFunctionOnSet(f, {n}) = f[n]
    BY <2>3, SumOfOne
  <2>5. QED
    BY <1>1, <2>1, <2>2, <2>3, <2>4 DEF SumIn
<1>2. CASE ~(n \in DOMAIN objects /\ objects[n].state \in states)
  <2>1. ObjectsIn(objects, states) = {}
    BY <1>2 DEF ObjectsIn
  <2>2. QED
    BY <1>2, <2>1, SumOfNone DEF SumIn
<1>3. QED
  BY <1>1, <1>2

(* When every remedy crosses the boundary, there is at most one refund or    *)
(* one label, of the amount that remedy asked for, and one credit within the *)
(* limit.                                                                   *)
LEMMA RemediesEnforced ==
  ASSUME ManagedInv, NoDuplicateEffect, OneEffectPerSlot, Enforced
  PROVE  \E r, s, c :
           /\ DOMAIN refunds \subseteq {r} /\ DOMAIN shipments \subseteq {s}
           /\ DOMAIN credits \subseteq {c}
           /\ DOMAIN refunds = {} \/ DOMAIN shipments = {}
           /\ \A n \in DOMAIN refunds : refunds[n].amount \in PrimaryAmount
           /\ \A n \in DOMAIN shipments : shipments[n].amount \in PrimaryAmount
           /\ \A n \in DOMAIN credits : credits[n].amount <= GoodwillLimit
<1>1. ScenarioInv /\ GatewayInv /\ GrantedOnce
  BY DEF ManagedInv, GatewayLink
<1>2. /\ InsideEffected(refunds) /\ InsideEffected(shipments) /\ InsideEffected(credits)
      /\ MadeBy(refunds, "create_refund") /\ MadeBy(shipments, "create_label")
      /\ MadeBy(credits, "issue_credit")
      /\ AmountsFrom(refunds) /\ AmountsFrom(shipments) /\ AmountsFrom(credits)
  BY DEF ManagedInv, ScenarioInv, GatewayLink, ObjectsMadeOnce, Enforced, AmountsKept
<1>3. ASSUME NEW objects, NEW tool \in {"create_refund", "create_label", "issue_credit"},
             InsideEffected(objects), MadeBy(objects, tool), AmountsFrom(objects),
             NEW n \in DOMAIN objects
      PROVE  /\ objects[n].by \in DOMAIN scenario
             /\ scenario[objects[n].by].tool = tool /\ scenario[objects[n].by] \in effected
             /\ objects[n].amount = scenario[objects[n].by].amount
  BY <1>3 DEF InsideEffected, MadeBy, AmountsFrom, Enforced
<1>4. ASSUME NEW objects, NEW tool \in {"create_refund", "create_label", "issue_credit"},
             InsideEffected(objects), MadeBy(objects, tool), AmountsFrom(objects)
      PROVE  \E m : DOMAIN objects \subseteq {m}
  <2>1. ASSUME NEW n \in DOMAIN objects, NEW m \in DOMAIN objects
        PROVE  n = m
    <3>1. scenario[objects[n].by].tool = scenario[objects[m].by].tool
      BY <1>3, <1>4
    <3>2. SlotFor(OperationOf(scenario[objects[n].by])) = SlotFor(OperationOf(scenario[objects[m].by]))
      <4>1. scenario[objects[n].by].tool \in Primary \/ scenario[objects[n].by].tool = "issue_credit"
        BY <1>3, <1>4 DEF Primary
      <4>2. QED
        BY <3>1, <4>1, SlotOfTool
    <3>3. objects[n].by = objects[m].by
      BY <1>1, <1>3, <1>4, <3>2, EffectsCoincide
    <3>4. QED
      BY <1>4, <3>3 DEF MadeBy
  <2>2. QED
    BY <2>1
<1>5. DOMAIN refunds = {} \/ DOMAIN shipments = {}
  <2> SUFFICES ASSUME NEW n \in DOMAIN refunds, NEW m \in DOMAIN shipments
               PROVE  FALSE
    OBVIOUS
  <2>1. /\ refunds[n].by \in DOMAIN scenario /\ scenario[refunds[n].by].tool = "create_refund"
        /\ scenario[refunds[n].by] \in effected
    BY <1>2, <1>3
  <2>2. /\ shipments[m].by \in DOMAIN scenario /\ scenario[shipments[m].by].tool = "create_label"
        /\ scenario[shipments[m].by] \in effected
    BY <1>2, <1>3
  <2>3. refunds[n].by = shipments[m].by
    BY <1>1, <2>1, <2>2, RemediesCoincide DEF Primary
  <2>4. QED
    BY <2>1, <2>2, <2>3
<1>6. ASSUME NEW n \in DOMAIN credits
      PROVE  credits[n].amount <= GoodwillLimit
  <2>1. PICK a : a = scenario[credits[n].by]
    OBVIOUS
  <2>2. a.tool = "issue_credit" /\ a \in effected /\ credits[n].amount = a.amount
    BY <1>2, <1>3, <2>1
  <2>3. a \in Request /\ attemptOf[a] # 0
    BY <1>1, <2>2 DEF GatewayInv, GatewayTypeOK, CallsKnown
  <2>4. a \notin Refused
    BY <2>3 DEF ManagedInv, GatewayLink
  <2>5. ~(a.amount > GoodwillLimit)
    BY <2>2, <2>3, <2>4, ManagedScenarioAssumption DEF NeedsApproval
  <2>6. credits[n].amount \in Nat
    BY <1>1, ObjectsTyped DEF ScenarioInv, Credit
  <2>7. QED
    BY <2>2, <2>5, <2>6, ManagedScenarioAssumption
<1>7. PICK r, s, c : /\ DOMAIN refunds \subseteq {r} /\ DOMAIN shipments \subseteq {s}
                     /\ DOMAIN credits \subseteq {c}
  BY <1>2, <1>4
<1>8. /\ \A n \in DOMAIN refunds : refunds[n].amount \in PrimaryAmount
      /\ \A n \in DOMAIN shipments : shipments[n].amount \in PrimaryAmount
  BY <1>2, <1>3 DEF PrimaryAmount, Primary
<1>9. QED
  BY <1>5, <1>6, <1>7, <1>8

(* When every remedy crosses the boundary, the customer is given, or is to be *)
(* given, no more than one primary remedy asks for and the goodwill the pact  *)
(* allows, whatever settles, fails, is dispatched or is reversed.            *)
THEOREM EnforcementContainsExposure == ManagedSpec => []ExposureContained
<1>1. ManagedInv /\ NoDuplicateEffect /\ OneEffectPerSlot => ExposureContained
  <2> SUFFICES ASSUME ManagedInv, NoDuplicateEffect, OneEffectPerSlot, Enforced
               PROVE  \E v \in PrimaryAmount : PositionIn(book, now).total <= v + GoodwillLimit
    BY DEF ExposureContained
  <2>1. PICK r, s, c :
           /\ DOMAIN refunds \subseteq {r} /\ DOMAIN shipments \subseteq {s}
           /\ DOMAIN credits \subseteq {c}
           /\ DOMAIN refunds = {} \/ DOMAIN shipments = {}
           /\ \A n \in DOMAIN refunds : refunds[n].amount \in PrimaryAmount
           /\ \A n \in DOMAIN shipments : shipments[n].amount \in PrimaryAmount
           /\ \A n \in DOMAIN credits : credits[n].amount <= GoodwillLimit
    BY RemediesEnforced
  <2>2. ServicesTyped /\ BooksMatchServices
    BY PositionAgrees DEF ManagedInv, ScenarioInv, ClockInv
  <2>3. /\ \A n \in DOMAIN refunds : refunds[n].amount \in Nat
        /\ \A n \in DOMAIN shipments : shipments[n].amount \in Nat
        /\ \A n \in DOMAIN credits : credits[n].amount \in Nat
    BY <2>2, ObjectsTyped DEF Refund, Shipment, Credit
  <2>4. PICK paid, unpaid, sent, unsent, given :
          /\ paid = SumIn(refunds, ObjectsIn(refunds, {"SUCCEEDED"}))
          /\ unpaid = SumIn(refunds, ObjectsIn(refunds, {"PENDING"}))
          /\ sent = SumIn(shipments, ObjectsIn(shipments, {"DISPATCHED"}))
          /\ unsent = SumIn(shipments, ObjectsIn(shipments, {"CREATED", "ACCEPTED"}))
          /\ given = SumIn(credits, ObjectsIn(credits, {"ISSUED"}))
    OBVIOUS
  <2>5. /\ paid = IF r \in DOMAIN refunds /\ refunds[r].state \in {"SUCCEEDED"}
                   THEN refunds[r].amount ELSE 0
        /\ unpaid = IF r \in DOMAIN refunds /\ refunds[r].state \in {"PENDING"}
                     THEN refunds[r].amount ELSE 0
    BY <2>1, <2>3, <2>4, SumOfAtMostOne
  <2>6. /\ sent = IF s \in DOMAIN shipments /\ shipments[s].state \in {"DISPATCHED"}
                   THEN shipments[s].amount ELSE 0
        /\ unsent = IF s \in DOMAIN shipments /\ shipments[s].state \in {"CREATED", "ACCEPTED"}
                     THEN shipments[s].amount ELSE 0
    BY <2>1, <2>3, <2>4, SumOfAtMostOne
  <2>7. given = IF c \in DOMAIN credits /\ credits[c].state \in {"ISSUED"}
                THEN credits[c].amount ELSE 0
    BY <2>1, <2>3, <2>4, SumOfAtMostOne
  <2>8. /\ paid \in Nat /\ unpaid \in Nat
        /\ paid + unpaid = 0 \/ \E n \in DOMAIN refunds : paid + unpaid = refunds[n].amount
    BY <2>3, <2>5
  <2>9. /\ sent \in Nat /\ unsent \in Nat
        /\ sent + unsent = 0 \/ \E n \in DOMAIN shipments : sent + unsent = shipments[n].amount
    BY <2>3, <2>6
  <2>10. given \in Nat /\ given <= GoodwillLimit
    BY <2>1, <2>3, <2>7, ManagedScenarioAssumption
  <2>11. PICK total : total = paid + sent + given + unpaid + unsent
    OBVIOUS
  <2>12. PICK v \in PrimaryAmount : paid + unpaid + sent + unsent = v
    <3>1. 0 \in PrimaryAmount
      BY DEF PrimaryAmount
    <3>2. (paid + unpaid = 0) \/ (sent + unsent = 0)
      BY <2>1, <2>8, <2>9
    <3>3. paid + unpaid \in PrimaryAmount /\ sent + unsent \in PrimaryAmount
      BY <2>1, <2>8, <2>9, <3>1
    <3>4. \/ paid + unpaid + sent + unsent = paid + unpaid
          \/ paid + unpaid + sent + unsent = sent + unsent
      BY <2>8, <2>9, <3>2
    <3>5. QED
      BY <3>3, <3>4
  <2>13. total <= v + GoodwillLimit
    BY <2>8, <2>9, <2>10, <2>11, <2>12, ManagedScenarioAssumption
  <2>14. PositionIn(book, now).total = total
    <3>1. PICK over : over = IF total > OriginalValue THEN total - OriginalValue ELSE 0
      OBVIOUS
    <3>2. PositionIn(book, now) =
            [settled |-> paid + sent + given, pending |-> unpaid, projected |-> unsent,
             total |-> total, excess |-> over, exception |-> given]
      BY <2>2, <2>4, <2>11, <3>1, Zenon DEF BooksMatchServices
    <3>3. QED
      BY <3>2
  <2>15. QED
    BY <2>12, <2>13, <2>14
<1>2. ManagedSpec => [](NoDuplicateEffect /\ OneEffectPerSlot)
  BY ScenariosPlayTheGateway, OrderlyIsGateway, AtMostOneEffect, OneWinnerPerSlot, PTL
<1>3. QED
  BY <1>1, <1>2, ManagedInvariance, PTL
=============================================================================
