----------------------------- MODULE ServiceProofs -----------------------------
(***************************************************************************)
(* Why what the service replies is true, for every set of requests, callers *)
(* and sources, both backends, and whatever fails between two steps.        *)
(*                                                                          *)
(* To the reservations a step of the service is a step of the gateway, and  *)
(* to the pact graph it is one of the graph, so what is proved of those     *)
(* holds here.  Beyond them: the service never reports a call as lost or    *)
(* failed, so an operation it was allowed to call stays executing or        *)
(* confirmed for good, whoever crashes and whatever evidence arrives.       *)
(***************************************************************************)
EXTENDS Service, GatewayProofs

(* The service has been allowed to call the operation of r, and it is r who *)
(* holds its current attempt.                                               *)
Holds(r) ==
  /\ attemptOf[r] = attempts[OpOf[r]] /\ attemptOf[r] # 0
  /\ pc[r] \in {"call", "OK", "done"}
  /\ resState[OpOf[r]] \in {"EXECUTING", "CONFIRMED"}

HandlerStage ==
  {"received", "deciding", "decided", "claimed", "performed", "recorded", "over"}

(* Where the handler stands and where the interceptor has its request.      *)
HandlerAgrees(r) ==
  /\ handler[r] \in HandlerStage
  /\ handler[r] = "received" => pc[r] = "start"
  /\ handler[r] = "deciding" => pc[r] \in {"start", "begin"}
  /\ handler[r] = "decided" => pc[r] \in {"call", "done"}
  /\ handler[r] = "claimed" => pc[r] = "call"
  /\ handler[r] = "performed" => pc[r] = "OK"
  /\ handler[r] \in {"recorded", "over"} => pc[r] = "done"

Owner(r) == handler[r] \in {"claimed", "performed", "recorded"}

Refusals == {"400", "401", "403", "409"}

(* What holds of one request: its claims are there before its effect, the    *)
(* remote claim only once its owner is done, and its reply is true.          *)
RequestInv(r) ==
  /\ HandlerAgrees(r)
  /\ handler[r] # "over" => reply[r] = "NONE"
  /\ r \in effected => /\ handler[r] \in {"performed", "recorded", "over"}
                       /\ OpOf[r] \in objects
                       /\ Holds(r)
  /\ handler[r] \in {"performed", "recorded"} => r \in effected
  /\ Owner(r) \/ r \in effected => ClaimOf(r, "gateway", "ACCEPTED") \in claims
  /\ Owner(r) => ~Recorded(r, "remote")
  /\ Recorded(r, "remote") => Recorded(r, "gateway")
  /\ reply[r] = "200" => r \in effected /\ Recorded(r, "remote")
  /\ reply[r] \in Refusals => r \notin effected

(* Of the retries of one request_id only one gets past its decision claim.  *)
OneOwner ==
  \A q \in Called, r \in Called :
    Owner(q) /\ Owner(r) /\ RequestId[q] = RequestId[r] => q = r

ServiceInv ==
  /\ GatewayInv
  /\ handler \in [Request -> HandlerStage]
  /\ DOMAIN reply = Request
  /\ \A r \in Called : RequestInv(r)
  /\ OneOwner

-----------------------------------------------------------------------------
(* Two steps in one: the service stops a request that the interceptor has   *)
(* heard of or not.                                                         *)
LEMMA StopIsGatewayStep ==
  ASSUME NEW r \in Request, Stop(r), GatewayTypeOK
  PROVE  [GatewayNext]_vars
<1>1. CASE pc[r] = "done"
  BY <1>1 DEF Stop, Goto, GatewayTypeOK, vars, resVars, requestVars, worldVars, evidenceVars
<1>2. CASE pc[r] # "done"
  BY <1>2 DEF Stop, Abort, GatewayNext
<1>3. QED
  BY <1>1, <1>2

(* To the reservations, a step of the service is one of the gateway.        *)
LEMMA ServiceStepIsGatewayStep ==
  ASSUME ServiceNext, GatewayTypeOK
  PROVE  [GatewayNext]_vars
<1>1. ASSUME NEW r \in Called, HandlerStep(r) \/ Defer(r) \/ Fail(r)
      PROVE  [GatewayNext]_vars
  <2>1. r \in Request
    BY DEF Called
  <2>2. CASE Reject(r) \/ Fail(r)
    BY <2>1, <2>2, StopIsGatewayStep DEF Reject, Fail
  <2>3. CASE Admit(r) \/ RecordPending(r)
    BY <2>3 DEF Admit, RecordPending
  <2>4. CASE Intercept(r)
    BY <2>1, <2>4 DEF Intercept, RequestStep, GatewayNext
  <2>5. CASE Defer(r)
    BY <2>1, <2>5 DEF Defer, GatewayNext
  <2>6. CASE RecordDecision(r)
    BY <2>1, <2>6, StopIsGatewayStep DEF RecordDecision
  <2>7. CASE Execute(r)
    BY <2>1, <2>7, StopIsGatewayStep DEF Execute, RequestStep, GatewayNext
  <2>8. CASE Conclude(r)
    BY <2>1, <2>8 DEF Conclude, RequestStep, GatewayNext
  <2>9. QED
    BY <1>1, <2>2, <2>3, <2>4, <2>5, <2>6, <2>7, <2>8 DEF HandlerStep
<1>2. ASSUME NEW r \in Direct, DirectStep(r) \/ DirectAbort(r)
      PROVE  [GatewayNext]_vars
  BY <1>2, ServiceAssumption DEF DirectStep, DirectAbort, GatewayNext
<1>3. ASSUME NEW r \in Request, NEW source \in Source, Report(r, source)
      PROVE  [GatewayNext]_vars
  BY <1>3 DEF Report, GatewayNext
<1>4. QED
  BY <1>1, <1>2, <1>3 DEF ServiceNext

LEMMA ServiceGatewayStep ==
  ASSUME GatewayInv, [ServiceNext]_serviceVars
  PROVE  [GatewayNext]_vars /\ GatewayInv'
<1>1. [GatewayNext]_vars
  BY ServiceStepIsGatewayStep DEF GatewayInv, serviceVars
<1>2. QED
  BY <1>1, GatewayNextKeepsInv

(* The service is a gateway with handlers around it: every behaviour of it   *)
(* is one of Gateway, so effects are single, slots exclusive and executors   *)
(* alone whatever its handlers do.                                          *)
THEOREM ServiceImplementsGateway == ServiceSpec => GatewaySpec
<1>1. ServiceInit => GatewayInit /\ GatewayInv
  BY GatewayInitHolds DEF ServiceInit
<1>2. GatewayInv /\ [ServiceNext]_serviceVars => [GatewayNext]_vars /\ GatewayInv'
  BY ServiceGatewayStep
<1>3. QED
  BY <1>1, <1>2, PTL DEF ServiceSpec, GatewaySpec

-----------------------------------------------------------------------------
(* Once the service may call an operation, it stays executing or confirmed  *)
(* under the attempt of r, unless r itself hears a timeout or a failure.    *)
LEMMA HoldsStable ==
  ASSUME GatewayInv, [GatewayNext]_vars, NEW r \in Request, Holds(r),
         pc'[r] \notin {"TIMEOUT", "FAILED"}
  PROVE  Holds(r)'
<1> USE GatewayAssumption DEF GatewayInv
<1>0. /\ pc \in [Request -> Stage] /\ OpOf[r] \in Operation
      /\ resState \in [Operation -> ReservationState \cup {"ABSENT"}]
      /\ attempts \in [Operation -> 0..MaxAttempts]
      /\ attemptOf \in [Request -> 0..MaxAttempts]
  BY DEF GatewayTypeOK, ReservationInv, ReservationTypeOK
<1>1. CASE UNCHANGED vars
  BY <1>1 DEF vars, resVars, requestVars, Holds
<1>2. ASSUME NEW q \in Request, Refuse(q) \/ Abort(q)
      PROVE  Holds(r)'
  <2>1. /\ pc' = [pc EXCEPT ![q] = "done"] /\ attemptOf' = attemptOf
        /\ resState' = resState /\ attempts' = attempts
    BY <1>2 DEF Refuse, Abort, Goto, resVars
  <2>2. QED
    BY <1>0, <2>1 DEF Holds
<1>3. ASSUME NEW q \in Request, Authorize(q)
      PROVE  Holds(r)'
  <2>1. q # r /\ OpOf[q] \in Operation
    BY <1>3 DEF Authorize, Holds
  <2>2. CASE Granted(OpOf[q])
    <3>1. /\ Reserve(OpOf[q]) /\ pc' = [pc EXCEPT ![q] = "begin"]
          /\ attemptOf' = [attemptOf EXCEPT ![q] = attempts'[OpOf[q]]]
      BY <1>3, <2>2 DEF Authorize, Goto
    <3>2. OpOf[q] # OpOf[r]
      BY <2>2 DEF Holds, Granted, ReservePlan, Plan
    <3>3. QED
      BY <1>0, <2>1, <3>1, <3>2 DEF Holds, Reserve
  <2>3. CASE ~Granted(OpOf[q])
    BY <1>0, <1>3, <2>1, <2>3 DEF Authorize, Goto, resVars, Holds
  <2>4. QED
    BY <2>2, <2>3
<1>4. ASSUME NEW q \in Request, Begin(q)
      PROVE  Holds(r)'
  <2>1. /\ pc[q] = "begin" /\ resState[OpOf[q]] = "RESERVED"
        /\ pc' = [pc EXCEPT ![q] = "call"] /\ attemptOf' = attemptOf
        /\ resState' = [resState EXCEPT ![OpOf[q]] = "EXECUTING"] /\ attempts' = attempts
    BY <1>4 DEF Begin, Goto, BeginExecution, Transition
  <2>2. q # r /\ OpOf[q] # OpOf[r]
    BY <2>1 DEF Holds
  <2>3. QED
    BY <1>0, <2>1, <2>2 DEF Holds
<1>5. ASSUME NEW q \in Request, Call(q)
      PROVE  Holds(r)'
  <2>1. /\ pc' \in {[pc EXCEPT ![q] = stage] : stage \in CallStatus \cup {"done"}}
        /\ attemptOf' = attemptOf /\ resState' = resState /\ attempts' = attempts
    BY <1>5 DEF Call, Goto, resVars, CallStatus
  <2>2. QED
    BY <1>0, <2>1 DEF Holds, CallStatus
<1>6. ASSUME NEW q \in Request, Record(q)
      PROVE  Holds(r)'
  <2>1. /\ pc[q] \in CallStatus /\ pc' = [pc EXCEPT ![q] = "done"] /\ attemptOf' = attemptOf
        /\ resState' = [resState EXCEPT ![OpOf[q]] = OutcomeOf(pc[q])] /\ attempts' = attempts
    BY <1>6 DEF Record, Goto, RecordOutcome, Transition
  <2>2. attemptOf[q] = attempts[OpOf[q]]
    BY <2>1 DEF ExecutorOwnsAuthority, Active, Executing
  <2>3. CASE OpOf[q] = OpOf[r]
    <3>1. q = r
      BY <2>2, <2>3 DEF Holds, AttemptsIdentify
    <3>2. OutcomeOf(pc[q]) = "CONFIRMED"
      BY <2>1, <3>1 DEF Holds, CallStatus, OutcomeOf
    <3>3. QED
      BY <1>0, <2>1, <3>1, <3>2 DEF Holds
  <2>4. CASE OpOf[q] # OpOf[r]
    BY <1>0, <2>1, <2>4 DEF Holds
  <2>5. QED
    BY <2>3, <2>4
<1>7. ASSUME NEW q \in Request, NEW source \in Source, Deliver(q, source)
      PROVE  Holds(r)'
  <2>1. pc' = pc /\ attemptOf' = attemptOf /\ attempts' = attempts
    BY <1>7 DEF Deliver, requestVars, ReconcileByEvidence, Transition, resVars
  <2>2. resState'[OpOf[r]] = resState[OpOf[r]]
    <3>1. CASE resState[OpOf[q]] = "OUTCOME_UNKNOWN"
      <4>1. OpOf[q] # OpOf[r]
        BY <3>1 DEF Holds
      <4>2. PICK target : resState' = [resState EXCEPT ![OpOf[q]] = target]
        BY <1>7, <3>1 DEF Deliver, ReconcileByEvidence, Transition
      <4>3. QED
        BY <1>0, <4>1, <4>2
    <3>2. CASE resState[OpOf[q]] # "OUTCOME_UNKNOWN"
      BY <1>7, <3>2 DEF Deliver, resVars
    <3>3. QED
      BY <3>1, <3>2
  <2>3. QED
    BY <2>1, <2>2 DEF Holds
<1>8. QED
  BY <1>1, <1>2, <1>3, <1>4, <1>5, <1>6, <1>7 DEF GatewayNext, RequestStep

(* A request that is about to call holds its operation.                     *)
LEMMA CallerHolds ==
  ASSUME GatewayInv, NEW r \in Request, pc[r] = "call"
  PROVE  Holds(r)
BY DEF GatewayInv, ExecutorOwnsAuthority, CallsKnown, Active, Executing, Holds

-----------------------------------------------------------------------------
LEMMA ServiceInitHolds == ServiceInit => ServiceInv
<1> SUFFICES ASSUME ServiceInit
             PROVE  ServiceInv
  OBVIOUS
<1>1. GatewayInv
  BY GatewayInitHolds DEF ServiceInit
<1>2. /\ handler = [r \in Request |-> IF r \in Direct THEN "over" ELSE "received"]
      /\ reply = [r \in Request |-> "NONE"]
      /\ pc = [r \in Request |-> "start"] /\ effected = {} /\ claims = {}
  BY DEF ServiceInit, GatewayInit, Graph!Init
<1>3. \A r \in Called : handler[r] = "received"
  BY <1>2 DEF Called
<1>4. \A r \in Called : RequestInv(r)
  BY <1>2, <1>3 DEF Called, RequestInv, HandlerAgrees, HandlerStage, Owner, Recorded, Refusals
<1>5. OneOwner
  BY <1>3 DEF OneOwner, Owner
<1>6. QED
  BY <1>1, <1>2, <1>4, <1>5 DEF ServiceInv, HandlerStage

(* What a step does to the requests it is not about.                        *)
LEMMA OtherKeepsInv ==
  ASSUME NEW q \in Called, RequestInv(q),
         handler'[q] = handler[q], reply'[q] = reply[q], pc'[q] = pc[q],
         q \in effected' <=> q \in effected,
         objects \subseteq objects', claims \subseteq claims',
         Holds(q) => Holds(q)',
         Owner(q) => ~Recorded(q, "remote")',
         Recorded(q, "remote")' => Recorded(q, "gateway")'
  PROVE  RequestInv(q)'
<1>1. Recorded(q, "remote") => Recorded(q, "remote")'
  BY DEF Recorded
<1>2. HandlerAgrees(q)'
  BY DEF RequestInv, HandlerAgrees
<1>3. ClaimOf(q, "gateway", "ACCEPTED") \in claims => ClaimOf(q, "gateway", "ACCEPTED") \in claims'
  OBVIOUS
<1>4. QED
  BY <1>1, <1>2, <1>3 DEF RequestInv, Owner, ClaimOf

(* The service never tells the interceptor of a timeout or of a failure.    *)
LEMMA NeverLost ==
  ASSUME ServiceInv, NEW q \in Called
  PROVE  pc[q] \notin {"TIMEOUT", "FAILED"}
BY DEF ServiceInv, RequestInv, HandlerAgrees, HandlerStage

LEMMA OthersHold ==
  ASSUME ServiceInv, [GatewayNext]_vars, NEW q \in Called, pc'[q] = pc[q], Holds(q)
  PROVE  Holds(q)'
BY NeverLost, HoldsStable DEF ServiceInv, Called

(* A step of r that appends no claim and makes no second owner.             *)
LEMMA QuietStep ==
  ASSUME ServiceInv, NEW r \in Called, [GatewayNext]_vars, GatewayInv',
         NEW stage \in HandlerStage, handler' = [handler EXCEPT ![r] = stage],
         DOMAIN reply' = Request, \A q \in Request \ {r} : reply'[q] = reply[q],
         \A q \in Request \ {r} : pc'[q] = pc[q],
         effected' \ {r} = effected \ {r},
         objects \subseteq objects', claims' = claims,
         Owner(r)' => Owner(r),
         RequestInv(r)'
  PROVE  ServiceInv'
<1>1. r \in Request /\ Called \subseteq Request
  BY DEF Called
<1>2. \A q \in Called \ {r} : handler'[q] = handler[q]
  BY <1>1 DEF ServiceInv
<1>3. ASSUME NEW q \in Called, q # r
      PROVE  RequestInv(q)'
  <2>1. Recorded(q, "remote")' = Recorded(q, "remote") /\ Recorded(q, "gateway")' = Recorded(q, "gateway")
    BY DEF Recorded
  <2>2. RequestInv(q) /\ (Owner(q) => ~Recorded(q, "remote"))
        /\ (Recorded(q, "remote") => Recorded(q, "gateway"))
    BY <1>3 DEF ServiceInv, RequestInv
  <2>3. Holds(q) => Holds(q)'
    BY <1>1, <1>3, OthersHold
  <2>4. QED
    BY <1>1, <1>2, <1>3, <2>1, <2>2, <2>3, OtherKeepsInv
<1>4. OneOwner'
  BY <1>1, <1>2 DEF ServiceInv, OneOwner, Owner
<1>5. handler' \in [Request -> HandlerStage]
  BY DEF ServiceInv
<1>6. QED
  BY <1>1, <1>3, <1>4, <1>5 DEF ServiceInv

(* A step that no handler takes.                                            *)
LEMMA OutsideStep ==
  ASSUME ServiceInv, [GatewayNext]_vars, GatewayInv',
         UNCHANGED <<handlerVars, objects, claims>>,
         \A q \in Called : pc'[q] = pc[q] /\ (q \in effected' <=> q \in effected)
  PROVE  ServiceInv'
<1>1. ASSUME NEW q \in Called
      PROVE  RequestInv(q)'
  <2>1. Recorded(q, "remote")' = Recorded(q, "remote") /\ Recorded(q, "gateway")' = Recorded(q, "gateway")
    BY DEF Recorded
  <2>2. RequestInv(q) /\ (Owner(q) => ~Recorded(q, "remote"))
        /\ (Recorded(q, "remote") => Recorded(q, "gateway"))
    BY DEF ServiceInv, RequestInv
  <2>3. Holds(q) => Holds(q)'
    BY OthersHold
  <2>4. QED
    BY <2>1, <2>2, <2>3, OtherKeepsInv DEF handlerVars
<1>2. OneOwner'
  BY DEF ServiceInv, OneOwner, Owner, handlerVars
<1>3. QED
  BY <1>1, <1>2 DEF ServiceInv, handlerVars

-----------------------------------------------------------------------------
(* The steps of a handler up to its decision, none of which may act.        *)
LEMMA RejectKeepsInv ==
  ASSUME ServiceInv, NEW r \in Called, Reject(r), [GatewayNext]_vars, GatewayInv'
  PROVE  ServiceInv'
<1>1. /\ r \in Request /\ pc \in [Request -> Stage] /\ RequestInv(r)
      /\ handler \in [Request -> HandlerStage] /\ DOMAIN reply = Request
  BY DEF ServiceInv, GatewayInv, GatewayTypeOK, Called
<1>2. /\ handler[r] = "received" /\ handler' = [handler EXCEPT ![r] = "over"]
      /\ reply' = [reply EXCEPT ![r] = Refusal(r)]
      /\ pc' = [pc EXCEPT ![r] = "done"] /\ attemptOf' = attemptOf
      /\ effected' = effected /\ objects' = objects /\ claims' = claims
  BY DEF Reject, Reply, Stop, Goto, worldVars, graphVars
<1>3. Refusal(r) # "200" /\ reply'[r] = Refusal(r)
  BY <1>1, <1>2 DEF Refusal
<1>4. r \notin effected
  BY <1>1, <1>2 DEF RequestInv
<1>5. RequestInv(r)'
  BY <1>1, <1>2, <1>3, <1>4 DEF RequestInv, HandlerAgrees, Owner, Recorded, HandlerStage
<1>6. ~Owner(r)'
  BY <1>1, <1>2 DEF Owner
<1>7. QED
  BY <1>1, <1>2, <1>5, <1>6, QuietStep DEF HandlerStage

LEMMA AdmitKeepsInv ==
  ASSUME ServiceInv, NEW r \in Called, Admit(r), [GatewayNext]_vars, GatewayInv'
  PROVE  ServiceInv'
<1>1. /\ r \in Request /\ RequestInv(r)
      /\ handler \in [Request -> HandlerStage] /\ DOMAIN reply = Request
  BY DEF ServiceInv, Called
<1>2. /\ handler[r] = "received" /\ handler' = [handler EXCEPT ![r] = "deciding"]
      /\ reply' = reply /\ pc' = pc /\ attemptOf' = attemptOf
      /\ effected' = effected /\ objects' = objects /\ claims' = claims
  BY DEF Admit, To, vars, requestVars, worldVars, graphVars
<1>3. RequestInv(r)'
  BY <1>1, <1>2 DEF RequestInv, HandlerAgrees, Owner, Recorded, HandlerStage, Refusals
<1>4. ~Owner(r)'
  BY <1>1, <1>2 DEF Owner
<1>5. QED
  BY <1>1, <1>2, <1>3, <1>4, QuietStep DEF HandlerStage

LEMMA InterceptKeepsInv ==
  ASSUME ServiceInv, NEW r \in Called, Intercept(r) \/ Defer(r), [GatewayNext]_vars, GatewayInv'
  PROVE  ServiceInv'
<1>1. /\ r \in Request /\ pc \in [Request -> Stage] /\ RequestInv(r)
      /\ handler \in [Request -> HandlerStage] /\ DOMAIN reply = Request
  BY DEF ServiceInv, GatewayInv, GatewayTypeOK, Called
<1>2. /\ \E stage \in {"begin", "call", "done"} : pc' = [pc EXCEPT ![r] = stage]
      /\ handler[r] = "deciding"
      /\ handler' = [handler EXCEPT ![r] = IF pc'[r] \in {"call", "done"} THEN "decided" ELSE "deciding"]
  <2>1. CASE Intercept(r)
    BY <2>1 DEF Intercept, Refuse, Authorize, Begin, Goto, To
  <2>2. CASE Defer(r)
    <3>1. pc' = [pc EXCEPT ![r] = "done"] /\ handler[r] = "deciding"
          /\ handler' = [handler EXCEPT ![r] = "decided"]
      BY <2>2 DEF Defer, Abort, Goto, To
    <3>2. QED
      BY <1>1, <3>1
  <2>3. QED
    BY <2>1, <2>2
<1>3. /\ reply' = reply /\ effected' = effected /\ objects' = objects /\ claims' = claims
  BY DEF Intercept, Defer, Refuse, Authorize, Begin, Abort, To, worldVars, graphVars
<1>4. PICK stage \in {"begin", "call", "done"} : pc' = [pc EXCEPT ![r] = stage]
  BY <1>2
<1>5. PICK next \in {"deciding", "decided"} :
        /\ handler' = [handler EXCEPT ![r] = next]
        /\ stage \in {"call", "done"} <=> next = "decided"
  BY <1>1, <1>2, <1>4
<1>6. RequestInv(r)'
  BY <1>1, <1>2, <1>3, <1>4, <1>5
  DEF RequestInv, HandlerAgrees, Owner, Recorded, HandlerStage, Refusals
<1>7. ~Owner(r)'
  BY <1>1, <1>5 DEF Owner
<1>8. QED
  BY <1>1, <1>3, <1>4, <1>5, <1>6, <1>7, QuietStep DEF HandlerStage

-----------------------------------------------------------------------------
(* The decision claim: whoever owns the request_id has one already.         *)
LEMMA RecordDecisionKeepsInv ==
  ASSUME ServiceInv, NEW r \in Called, RecordDecision(r), [GatewayNext]_vars, GatewayInv'
  PROVE  ServiceInv'
<1>1. /\ r \in Request /\ pc \in [Request -> Stage] /\ RequestInv(r) /\ Called \subseteq Request
      /\ handler \in [Request -> HandlerStage] /\ DOMAIN reply = Request
      /\ handler[r] = "decided" /\ r \notin effected
  BY DEF ServiceInv, GatewayInv, GatewayTypeOK, Called, RecordDecision, RequestInv
<1>2. CASE Recorded(r, "gateway")
  <2>1. /\ handler' = [handler EXCEPT ![r] = "over"] /\ reply' = [reply EXCEPT ![r] = "400"]
        /\ pc' = [pc EXCEPT ![r] = "done"] /\ attemptOf' = attemptOf
        /\ effected' = effected /\ objects' = objects /\ claims' = claims
    BY <1>2 DEF RecordDecision, Reply, Stop, Goto, worldVars, graphVars
  <2>2. RequestInv(r)'
    BY <1>1, <2>1 DEF RequestInv, HandlerAgrees, Owner, Recorded, HandlerStage
  <2>3. ~Owner(r)'
    BY <1>1, <2>1 DEF Owner
  <2>4. QED
    BY <1>1, <2>1, <2>2, <2>3, QuietStep DEF HandlerStage
<1>3. CASE ~Recorded(r, "gateway")
  <2> DEFINE c == ClaimOf(r, "gateway", DecisionState(r))
  <2>1. /\ claims' = claims \cup {c} /\ objects' = objects
        /\ pc' = pc /\ attemptOf' = attemptOf /\ effected' = effected
        /\ attempts' = attempts /\ resState' = resState
        /\ IF Granting(r)
           THEN handler' = [handler EXCEPT ![r] = "claimed"] /\ reply' = reply
           ELSE handler' = [handler EXCEPT ![r] = "over"] /\ reply' = [reply EXCEPT ![r] = "409"]
    BY <1>3 DEF RecordDecision, Graph!AppendClaim, Reply, To, vars, resVars, requestVars, worldVars
  <2>2. c.kind = "gateway" /\ c.id = RequestId[r]
    BY DEF ClaimOf
  <2>3. \A q \in Called : Recorded(q, "remote")' <=> Recorded(q, "remote")
    BY <2>1, <2>2 DEF Recorded
  <2>4. \A q \in Called : Recorded(q, "gateway") => Recorded(q, "gateway")'
    BY <2>1 DEF Recorded
  <2>5. \A q \in Called \ {r} : handler'[q] = handler[q] /\ reply'[q] = reply[q]
    BY <1>1, <2>1
  <2>6. ASSUME NEW q \in Called, q # r
        PROVE  RequestInv(q)'
    <3>1. RequestInv(q) /\ (Owner(q) => ~Recorded(q, "remote"))
          /\ (Recorded(q, "remote") => Recorded(q, "gateway"))
      BY DEF ServiceInv, RequestInv
    <3>2. Holds(q) => Holds(q)'
      BY <2>1 DEF Holds
    <3>3. QED
      BY <2>1, <2>3, <2>4, <2>5, <2>6, <3>1, <3>2, OtherKeepsInv
  <2>7. ~Recorded(r, "remote") /\ ~Recorded(r, "remote")'
    BY <1>1, <1>3, <2>3 DEF RequestInv
  <2>8. RequestInv(r)'
    <3>1. CASE Granting(r)
      <4>1. ClaimOf(r, "gateway", "ACCEPTED") \in claims'
        BY <2>1, <3>1 DEF DecisionState
      <4>2. pc[r] = "call" /\ handler'[r] = "claimed" /\ reply'[r] = reply[r]
        BY <1>1, <2>1, <3>1 DEF Granting
      <4>3. HandlerAgrees(r)'
        BY <2>1, <4>2 DEF HandlerAgrees, HandlerStage
      <4>4. reply[r] = "NONE"
        BY <1>1 DEF RequestInv
      <4>5. ClaimOf(r, "gateway", "ACCEPTED")' = ClaimOf(r, "gateway", "ACCEPTED")
        BY DEF ClaimOf
      <4>6. QED
        BY <1>1, <2>1, <2>7, <4>1, <4>2, <4>3, <4>4, <4>5 DEF RequestInv, Owner, Refusals
    <3>2. CASE ~Granting(r)
      <4>1. pc[r] = "done" /\ handler'[r] = "over" /\ reply'[r] = "409"
        BY <1>1, <2>1, <3>2 DEF Granting, RequestInv, HandlerAgrees
      <4>2. HandlerAgrees(r)'
        BY <2>1, <4>1 DEF HandlerAgrees, HandlerStage
      <4>3. QED
        BY <1>1, <2>1, <2>7, <4>1, <4>2 DEF RequestInv, Owner
    <3>3. QED
      BY <3>1, <3>2
  <2>9. OneOwner'
    <3>1. ASSUME NEW q \in Called, q # r, Owner(q), RequestId[q] = RequestId[r]
          PROVE  FALSE
      <4>1. ClaimOf(q, "gateway", "ACCEPTED") \in claims
        BY <3>1 DEF ServiceInv, RequestInv
      <4>2. QED
        BY <1>3, <3>1, <4>1 DEF Recorded, ClaimOf
    <3>2. \A q \in Called \ {r} : Owner(q)' <=> Owner(q)
      BY <2>5 DEF Owner
    <3>3. QED
      BY <3>1, <3>2 DEF ServiceInv, OneOwner
  <2>10. handler' \in [Request -> HandlerStage] /\ DOMAIN reply' = Request
    BY <1>1, <2>1 DEF HandlerStage
  <2>11. QED
    BY <2>6, <2>8, <2>9, <2>10 DEF ServiceInv
<1>4. QED
  BY <1>2, <1>3

-----------------------------------------------------------------------------
(* The call, its outcome, and the claim that ends the request.              *)
LEMMA ExecuteKeepsInv ==
  ASSUME ServiceInv, NEW r \in Called, Execute(r), [GatewayNext]_vars, GatewayInv'
  PROVE  ServiceInv'
<1>1. /\ r \in Request /\ pc \in [Request -> Stage] /\ RequestInv(r) /\ GatewayInv
      /\ handler \in [Request -> HandlerStage] /\ DOMAIN reply = Request
      /\ handler[r] = "claimed" /\ pc[r] = "call" /\ reply[r] = "NONE" /\ r \notin effected
  BY DEF ServiceInv, GatewayInv, GatewayTypeOK, Called, Execute, RequestInv, HandlerAgrees
<1>2. claims' = claims
  BY DEF Execute, graphVars
<1>3. CASE OpOf[r] \in objects
  <2>1. /\ handler' = [handler EXCEPT ![r] = "over"] /\ reply' = [reply EXCEPT ![r] = "503"]
        /\ pc' = [pc EXCEPT ![r] = "done"] /\ effected' = effected /\ objects' = objects
    BY <1>3 DEF Execute, Reply, Stop, Goto, worldVars
  <2>2. RequestInv(r)'
    BY <1>1, <1>2, <2>1 DEF RequestInv, HandlerAgrees, Owner, Recorded, HandlerStage, Refusals
  <2>3. ~Owner(r)'
    BY <1>1, <2>1 DEF Owner
  <2>4. QED
    BY <1>1, <1>2, <2>1, <2>2, <2>3, QuietStep DEF HandlerStage
<1>4. CASE OpOf[r] \notin objects
  <2>1. /\ handler' = [handler EXCEPT ![r] = "performed"] /\ reply' = reply
        /\ pc' = [pc EXCEPT ![r] = "OK"] /\ effected' = effected \cup {r}
        /\ objects' = objects \cup {OpOf[r]}
    BY <1>1, <1>4 DEF Execute, Call, Goto, To
  <2>2. Holds(r)'
    BY <1>1, <2>1, CallerHolds, HoldsStable
  <2>3. HandlerAgrees(r)'
    BY <1>1, <2>1 DEF HandlerAgrees, HandlerStage
  <2>4. Owner(r) /\ Owner(r)'
    BY <1>1, <2>1 DEF Owner
  <2>5. /\ ~Recorded(r, "remote")' /\ ClaimOf(r, "gateway", "ACCEPTED")' \in claims'
    BY <1>1, <1>2, <2>4 DEF RequestInv, Recorded, ClaimOf
  <2>6. RequestInv(r)'
    BY <1>1, <2>1, <2>2, <2>3, <2>5 DEF RequestInv, ClaimOf, Refusals
  <2>7. QED
    BY <1>1, <1>2, <2>1, <2>4, <2>6, QuietStep DEF HandlerStage
<1>5. QED
  BY <1>3, <1>4

LEMMA ConcludeKeepsInv ==
  ASSUME ServiceInv, NEW r \in Called, Conclude(r), [GatewayNext]_vars, GatewayInv'
  PROVE  ServiceInv'
<1>1. /\ r \in Request /\ pc \in [Request -> Stage] /\ RequestInv(r) /\ GatewayInv
      /\ handler \in [Request -> HandlerStage] /\ DOMAIN reply = Request
      /\ handler[r] = "performed" /\ reply[r] = "NONE" /\ r \in effected
  BY DEF ServiceInv, GatewayInv, GatewayTypeOK, Called, Conclude, RequestInv
<1>2. /\ handler' = [handler EXCEPT ![r] = "recorded"] /\ reply' = reply
      /\ pc' = [pc EXCEPT ![r] = "done"]
      /\ effected' = effected /\ objects' = objects /\ claims' = claims
  BY DEF Conclude, Record, Abort, Goto, To, worldVars, graphVars
<1>3. Holds(r)'
  <2>1. Holds(r) /\ pc'[r] = "done"
    BY <1>1, <1>2 DEF RequestInv
  <2>2. QED
    BY <1>1, <2>1, HoldsStable
<1>4. Owner(r) /\ Owner(r)'
  BY <1>1, <1>2 DEF Owner
<1>5. ~Recorded(r, "remote")' /\ ClaimOf(r, "gateway", "ACCEPTED")' \in claims'
  BY <1>1, <1>2, <1>4 DEF RequestInv, Recorded, ClaimOf
<1>6. HandlerAgrees(r)'
  BY <1>1, <1>2 DEF HandlerAgrees, HandlerStage
<1>7. RequestInv(r)'
  BY <1>1, <1>2, <1>3, <1>5, <1>6 DEF RequestInv, ClaimOf, Refusals
<1>8. QED
  BY <1>1, <1>2, <1>4, <1>7, QuietStep DEF HandlerStage

(* Only the owner of a request_id writes its remote claim, so it always can. *)
LEMMA RecordPendingKeepsInv ==
  ASSUME ServiceInv, NEW r \in Called, RecordPending(r), [GatewayNext]_vars, GatewayInv'
  PROVE  ServiceInv'
<1> DEFINE c == ClaimOf(r, "remote", IF KindOf[r] = "refund" THEN "PENDING" ELSE "ACCEPTED")
<1>1. /\ r \in Request /\ RequestInv(r) /\ Called \subseteq Request /\ Owner(r)
      /\ handler \in [Request -> HandlerStage] /\ DOMAIN reply = Request
      /\ handler[r] = "recorded" /\ r \in effected /\ ~Recorded(r, "remote")
      /\ ClaimOf(r, "gateway", "ACCEPTED") \in claims
  BY DEF ServiceInv, Called, RecordPending, RequestInv, Owner
<1>2. /\ claims' = claims \cup {c} /\ objects' = objects
      /\ pc' = pc /\ attemptOf' = attemptOf /\ effected' = effected
      /\ attempts' = attempts /\ resState' = resState
      /\ handler' = [handler EXCEPT ![r] = "over"] /\ reply' = [reply EXCEPT ![r] = "200"]
  BY <1>1 DEF RecordPending, Graph!AppendClaim, Reply, vars, resVars, requestVars, worldVars
<1>3. c.kind = "remote" /\ c.id = RequestId[r]
  BY DEF ClaimOf
<1>4. \A q \in Called : Recorded(q, "gateway")' <=> Recorded(q, "gateway")
  BY <1>2, <1>3 DEF Recorded
<1>5. \A q \in Called : Recorded(q, "remote")' <=> Recorded(q, "remote") \/ RequestId[q] = RequestId[r]
  BY <1>2, <1>3 DEF Recorded
<1>6. Recorded(r, "gateway")
  BY <1>1 DEF Recorded, ClaimOf
<1>7. \A q \in Called \ {r} : handler'[q] = handler[q] /\ reply'[q] = reply[q]
  BY <1>1, <1>2
<1>8. ASSUME NEW q \in Called, q # r
      PROVE  RequestInv(q)'
  <2>1. RequestInv(q) /\ (Owner(q) => ~Recorded(q, "remote"))
        /\ (Recorded(q, "remote") => Recorded(q, "gateway"))
    BY DEF ServiceInv, RequestInv
  <2>2. Owner(q) => RequestId[q] # RequestId[r]
    BY <1>1, <1>8 DEF ServiceInv, OneOwner
  <2>3. RequestId[q] = RequestId[r] => Recorded(q, "gateway")
    BY <1>6 DEF Recorded
  <2>4. Holds(q) => Holds(q)'
    BY <1>2 DEF Holds
  <2>5. QED
    BY <1>2, <1>4, <1>5, <1>7, <1>8, <2>1, <2>2, <2>3, <2>4, OtherKeepsInv
<1>9. RequestInv(r)'
  <2>1. handler'[r] = "over" /\ reply'[r] = "200" /\ pc[r] = "done"
    BY <1>1, <1>2 DEF RequestInv, HandlerAgrees
  <2>2. HandlerAgrees(r)' /\ ~Owner(r)'
    BY <1>2, <2>1 DEF HandlerAgrees, HandlerStage, Owner
  <2>3. Holds(r)' /\ OpOf[r] \in objects'
    BY <1>1, <1>2 DEF RequestInv, Holds
  <2>4. QED
    BY <1>1, <1>2, <1>4, <1>5, <1>6, <2>1, <2>2, <2>3 DEF RequestInv, ClaimOf, Refusals
<1>10. OneOwner'
  <2>1. \A q \in Called : Owner(q)' => Owner(q)
    BY <1>1, <1>2, <1>7 DEF Owner
  <2>2. QED
    BY <2>1 DEF ServiceInv, OneOwner
<1>11. handler' \in [Request -> HandlerStage] /\ DOMAIN reply' = Request
  BY <1>1, <1>2 DEF HandlerStage
<1>12. QED
  BY <1>8, <1>9, <1>10, <1>11 DEF ServiceInv

LEMMA FailKeepsInv ==
  ASSUME ServiceInv, NEW r \in Called, Fail(r), [GatewayNext]_vars, GatewayInv'
  PROVE  ServiceInv'
<1>1. /\ r \in Request /\ pc \in [Request -> Stage] /\ RequestInv(r) /\ GatewayInv
      /\ handler \in [Request -> HandlerStage] /\ DOMAIN reply = Request
  BY DEF ServiceInv, GatewayInv, GatewayTypeOK, Called
<1>2. /\ handler' = [handler EXCEPT ![r] = "over"] /\ reply' = [reply EXCEPT ![r] = "503"]
      /\ pc' = [pc EXCEPT ![r] = "done"] /\ effected' = effected
      /\ objects' = objects /\ claims' = claims
  BY DEF Fail, Reply, Stop, Goto, worldVars, graphVars
<1>3. r \in effected => Holds(r)'
  <2>1. r \in effected => Holds(r)
    BY <1>1 DEF RequestInv
  <2>2. pc'[r] = "done"
    BY <1>1, <1>2
  <2>3. QED
    BY <1>1, <2>1, <2>2, HoldsStable
<1>4. HandlerAgrees(r)' /\ ~Owner(r)'
  BY <1>1, <1>2 DEF HandlerAgrees, HandlerStage, Owner
<1>5. (Recorded(r, "remote") => Recorded(r, "gateway"))' /\ handler'[r] = "over" /\ reply'[r] = "503"
  BY <1>1, <1>2 DEF RequestInv, Recorded
<1>6. RequestInv(r)'
  BY <1>1, <1>2, <1>3, <1>4, <1>5 DEF RequestInv, ClaimOf, Refusals
<1>7. QED
  BY <1>1, <1>2, <1>4, <1>6, QuietStep DEF HandlerStage

-----------------------------------------------------------------------------
LEMMA ServiceNextKeepsInv == ServiceInv /\ [ServiceNext]_serviceVars => ServiceInv'
<1> SUFFICES ASSUME ServiceInv, [ServiceNext]_serviceVars
             PROVE  ServiceInv'
  OBVIOUS
<1>1. [GatewayNext]_vars /\ GatewayInv'
  BY ServiceGatewayStep DEF ServiceInv
<1>2. CASE UNCHANGED serviceVars
  BY <1>1, <1>2, OutsideStep DEF serviceVars, handlerVars, vars, requestVars, worldVars, graphVars
<1>3. ASSUME NEW r \in Called, HandlerStep(r) \/ Defer(r) \/ Fail(r)
      PROVE  ServiceInv'
  BY <1>1, <1>3, RejectKeepsInv, AdmitKeepsInv, InterceptKeepsInv, RecordDecisionKeepsInv,
     ExecuteKeepsInv, ConcludeKeepsInv, RecordPendingKeepsInv, FailKeepsInv DEF HandlerStep
<1>4. ASSUME NEW r \in Direct, DirectStep(r) \/ DirectAbort(r)
      PROVE  ServiceInv'
  <2>1. UNCHANGED <<handlerVars, objects, claims>>
    BY <1>4 DEF DirectStep, DirectAbort, graphVars
  <2>2. \A q \in Called : q # r /\ q \in Request
    BY DEF Called
  <2>3. \A q \in Called : pc'[q] = pc[q] /\ (q \in effected' <=> q \in effected)
    <3>1. pc \in [Request -> Stage]
      BY DEF ServiceInv, GatewayInv, GatewayTypeOK
    <3>2. CASE Refuse(r) \/ Authorize(r) \/ Begin(r) \/ Record(r) \/ Abort(r)
      BY <2>2, <3>1, <3>2 DEF Refuse, Authorize, Begin, Record, Abort, Goto, worldVars
    <3>3. CASE Call(r)
      BY <2>2, <3>1, <3>3 DEF Call, Goto
    <3>4. QED
      BY <1>4, <3>2, <3>3 DEF DirectStep, DirectAbort, RequestStep
  <2>4. QED
    BY <1>1, <2>1, <2>3, OutsideStep
<1>5. ASSUME NEW r \in Request, NEW source \in Source, Report(r, source)
      PROVE  ServiceInv'
  BY <1>1, <1>5, OutsideStep
  DEF Report, Deliver, Graph!IngestEvidence, requestVars, worldVars
<1>6. QED
  BY <1>2, <1>3, <1>4, <1>5 DEF ServiceNext

(* Whatever requests come and however they are retried, what the stages hold *)
(* of the reservations, the claims and the outside world agrees.            *)
THEOREM ServiceInvariance == ServiceSpec => []ServiceInv
BY ServiceInitHolds, ServiceNextKeepsInv, PTL DEF ServiceSpec

(* external_call_executed is true to the outside world in every reply but    *)
(* 503, for every set of requests, tokens and retries: a 200 tells of an     *)
(* effect that is there and of claims that are stored, any other reply of a  *)
(* call never made.                                                         *)
THEOREM RepliesAreTruthful == ServiceSpec => []RepliesTruthful
<1>1. ServiceInv => RepliesTruthful
  <2> SUFFICES ASSUME ServiceInv, NEW r \in Called
               PROVE  /\ reply[r] = "200" =>
                           /\ r \in effected /\ OpOf[r] \in objects /\ Live(OpOf[r])
                           /\ Recorded(r, "gateway") /\ Recorded(r, "remote")
                      /\ reply[r] \in {"400", "401", "403", "409"} => r \notin effected
    BY DEF RepliesTruthful
  <2>1. RequestInv(r)
    BY DEF ServiceInv
  <2>2. Holds(r) => Live(OpOf[r])
    BY DEF Holds, Live, LiveStates, ReservationState, ReleasingStates
  <2>3. QED
    BY <2>1, <2>2 DEF RequestInv, Refusals
<1>2. QED
  BY <1>1, ServiceInvariance, PTL

(* Nothing is done to the outside world by the service before the decision   *)
(* that allowed it is on the claim chain, whatever fails in between.         *)
THEOREM EffectsClaimedFirst == ServiceSpec => []EffectsAreClaimed
<1>1. ServiceInv => EffectsAreClaimed
  BY DEF ServiceInv, RequestInv, EffectsAreClaimed
<1>2. QED
  BY <1>1, ServiceInvariance, PTL

-----------------------------------------------------------------------------
(* The graph of the service once more, with what is proved of it.           *)
Facts ==
  INSTANCE PactGraphProofs WITH
    ingested <- evidence, Claim <- ServiceClaim, Evidence <- ServiceEvidence

LEMMA FactsAreOfTheGraph ==
  /\ Facts!PactGraphAssumption
  /\ Graph!Init => Facts!Init
  /\ Graph!vars = Facts!vars
  /\ [Graph!Next]_(Graph!vars) => [Facts!Next]_(Facts!vars)
<1>1. Facts!PactGraphAssumption
  BY GraphAssumption
  DEF Graph!PactGraphAssumption, Facts!PactGraphAssumption, Graph!IsEvidence, Facts!IsEvidence,
      Graph!IsStateClaim, Facts!IsStateClaim, Graph!EvidenceRank, Facts!EvidenceRank,
      Graph!ImmediateState, Facts!ImmediateState
<1>2. Graph!Init => Facts!Init
  BY DEF Graph!Init, Facts!Init
<1>3. Graph!vars = Facts!vars
  BY DEF Graph!vars, Facts!vars
<1>4. \A state, selection, projection :
        Graph!Evaluate(state, selection, projection) = Facts!Evaluate(state, selection, projection)
  BY DEF Graph!Evaluate, Facts!Evaluate, Graph!Failing, Facts!Failing, Graph!OnPath, Facts!OnPath,
     Graph!AuthoritativeFailure, Facts!AuthoritativeFailure, Graph!Qualifying, Facts!Qualifying,
     Graph!Qualifies, Facts!Qualifies
<1>5. ASSUME NEW c, Graph!AppendClaim(c)
      PROVE  Facts!AppendClaim(c)
  BY <1>4, <1>5 DEF Graph!AppendClaim, Facts!AppendClaim
<1>6. ASSUME NEW e, Graph!IngestEvidence(e)
      PROVE  Facts!IngestEvidence(e)
  <2>1. Graph!Reduced(e) = Facts!Reduced(e)
    BY DEF Graph!Reduced, Facts!Reduced, Graph!Replaces, Facts!Replaces,
       Graph!Supersedes, Facts!Supersedes, Graph!Outweighs, Facts!Outweighs,
       Graph!Sequenced, Facts!Sequenced, Graph!Corrections, Facts!Corrections,
       Graph!Finality, Facts!Finality
  <2>2. \A projection, path : Graph!Qualifying(projection, path) = Facts!Qualifying(projection, path)
    BY DEF Graph!Qualifying, Facts!Qualifying, Graph!Qualifies, Facts!Qualifies,
       Graph!OnPath, Facts!OnPath
  <2>3. QED
    BY <1>4, <1>6, <2>1, <2>2 DEF Graph!IngestEvidence, Facts!IngestEvidence
<1>7. [Graph!Next]_(Graph!vars) => [Facts!Next]_(Facts!vars)
  <2>1. Graph!Next => Facts!Next
    BY <1>5, <1>6 DEF Graph!Next, Facts!Next
  <2>2. QED
    BY <2>1 DEF Graph!vars, Facts!vars
<1>8. QED
  BY <1>1, <1>2, <1>3, <1>7

LEMMA ReportedIsEvidence ==
  ASSUME GatewayInv, NEW r \in Request, NEW source \in Source
  PROVE  EvidenceOf(r, source) \in ServiceEvidence
BY ServiceAssumption, GatewayAssumption
DEF GatewayInv, GatewayTypeOK, EvidenceOf, ServiceEvidence

(* To the pact graph, a step of the service is one of its transactions.     *)
LEMMA ServiceGraphStep ==
  ASSUME GatewayInv, [ServiceNext]_serviceVars
  PROVE  [Graph!Next]_(Graph!vars)
<1>1. CASE UNCHANGED serviceVars
  BY <1>1 DEF serviceVars, graphVars, Graph!vars
<1>2. ASSUME NEW r \in Called, HandlerStep(r) \/ Defer(r) \/ Fail(r)
      PROVE  [Graph!Next]_(Graph!vars)
  <2>1. CASE RecordDecision(r)
    <3>1. ClaimOf(r, "gateway", DecisionState(r)) \in ServiceClaim
      BY DEF ServiceClaim, DecisionState
    <3>2. CASE Recorded(r, "gateway")
      BY <2>1, <3>2 DEF RecordDecision, graphVars, Graph!vars
    <3>3. CASE ~Recorded(r, "gateway")
      BY <2>1, <3>1, <3>3 DEF RecordDecision, Graph!Next
    <3>4. QED
      BY <3>2, <3>3
  <2>2. CASE RecordPending(r)
    <3> DEFINE state == IF KindOf[r] = "refund" THEN "PENDING" ELSE "ACCEPTED"
    <3>1. ClaimOf(r, "remote", state) \in ServiceClaim
      BY DEF ServiceClaim
    <3>2. CASE Recorded(r, "remote")
      BY <2>2, <3>2 DEF RecordPending, graphVars, Graph!vars
    <3>3. CASE ~Recorded(r, "remote")
      BY <2>2, <3>1, <3>3 DEF RecordPending, Graph!Next
    <3>4. QED
      BY <3>2, <3>3
  <2>3. CASE Reject(r) \/ Admit(r) \/ Intercept(r) \/ Defer(r) \/ Execute(r) \/ Conclude(r) \/ Fail(r)
    BY <2>3 DEF Reject, Admit, Intercept, Defer, Execute, Conclude, Fail, graphVars, Graph!vars
  <2>4. QED
    BY <1>2, <2>1, <2>2, <2>3 DEF HandlerStep
<1>3. ASSUME NEW r \in Direct, DirectStep(r) \/ DirectAbort(r)
      PROVE  [Graph!Next]_(Graph!vars)
  BY <1>3 DEF DirectStep, DirectAbort, graphVars, Graph!vars
<1>4. ASSUME NEW r \in Request, NEW source \in Source, Report(r, source)
      PROVE  [Graph!Next]_(Graph!vars)
  BY <1>4, ReportedIsEvidence DEF Report, Graph!Next
<1>5. QED
  BY <1>1, <1>2, <1>3, <1>4 DEF ServiceNext

(* The service is a pact graph whose claims are its handlers' and whose      *)
(* evidence is about calls that were made: each behaviour of it is one of    *)
(* PactGraph.                                                               *)
THEOREM ServiceImplementsGraph == ServiceSpec => Graph!Spec
<1>1. ServiceInit => Graph!Init
  BY DEF ServiceInit
<1>2. ServiceInv /\ [ServiceNext]_serviceVars => [Graph!Next]_(Graph!vars)
  BY ServiceGraphStep DEF ServiceInv
<1>3. QED
  BY <1>1, <1>2, ServiceInvariance, PTL DEF ServiceSpec, Graph!Spec

-----------------------------------------------------------------------------
(* What was reported is true: a success is that of a call that took effect,  *)
(* of the operation it names and on its path.                               *)
ReportTrue(e) ==
  /\ e \in ServiceEvidence
  /\ e.path = PathOf[e.op]
  /\ e.state = "SUCCEEDED" <=> e.type = "success"
  /\ \E source \in Source : e.rank = RankOf[source]
  /\ e.state = "SUCCEEDED" => \E r \in effected : OpOf[r] = e.op

EvidenceTrue == \A e \in evidence : ReportTrue(e)

(* Somebody the service let through holds the path.                         *)
PathHeld(path) == \E r \in Called : PathOf[OpOf[r]] = path /\ Holds(r)

(* Success on the path is in, and is not of the kind policy asks for.       *)
PathSucceeded(path) ==
  /\ \E o \in Operation : PathOf[o] = path /\ resolved[o] # NoEvidence
                          /\ resolved[o].state = "SUCCEEDED"
  /\ Graph!Qualifying(resolved, path) = {}

PendingBacked ==
  lifecycle = "PENDING" => PathHeld(selected) \/ PathSucceeded(selected)

ServiceGraphInv ==
  Facts!GraphInvariant /\ Facts!OpenNeedsNewWork /\ EvidenceTrue /\ PendingBacked

(* The effects of a call are never undone.                                  *)
LEMMA EffectsStand ==
  ASSUME [GatewayNext]_vars
  PROVE  effected \subseteq effected'
<1>1. ASSUME NEW r \in Request, RequestStep(r) \/ Abort(r)
      PROVE  effected \subseteq effected'
  BY <1>1 DEF RequestStep, Refuse, Authorize, Begin, Call, Record, Abort, worldVars
<1>2. ASSUME NEW r \in Request, NEW source \in Source, Deliver(r, source)
      PROVE  effected \subseteq effected'
  BY <1>2 DEF Deliver, worldVars
<1>3. QED
  BY <1>1, <1>2 DEF GatewayNext, vars, worldVars

LEMMA EvidenceStaysTrue ==
  ASSUME ServiceInv, EvidenceTrue, [ServiceNext]_serviceVars, [GatewayNext]_vars
  PROVE  EvidenceTrue'
<1>1. ASSUME NEW e, ReportTrue(e)
      PROVE  ReportTrue(e)'
  BY <1>1, EffectsStand DEF ReportTrue
<1>2. ASSUME NEW r \in Request, NEW source \in Source, Report(r, source)
      PROVE  EvidenceTrue'
  <2> DEFINE e == EvidenceOf(r, source)
  <2>1. evidence' = evidence \cup {e}
    BY <1>2 DEF Report, Graph!IngestEvidence
  <2>2. e \in ServiceEvidence
    BY ReportedIsEvidence DEF ServiceInv
  <2>3. ReportTrue(e)
    <3>1. /\ e.op = OpOf[r] /\ e.path = PathOf[OpOf[r]] /\ e.rank = RankOf[source]
          /\ e.type = (IF r \in effected THEN "success" ELSE "failure")
          /\ e.state = (IF r \in effected THEN "SUCCEEDED" ELSE "FAILED")
      BY DEF EvidenceOf
    <3>2. QED
      BY <2>2, <3>1 DEF ReportTrue
  <2>4. QED
    BY <1>1, <2>1, <2>3 DEF EvidenceTrue
<1>3. CASE evidence' = evidence
  BY <1>1, <1>3 DEF EvidenceTrue
<1>4. ASSUME NEW r \in Called, HandlerStep(r) \/ Defer(r) \/ Fail(r)
      PROVE  evidence' = evidence
  BY <1>4 DEF HandlerStep, Reject, Admit, Intercept, Defer, RecordDecision, Execute, Conclude,
              RecordPending, Fail, graphVars, Graph!AppendClaim
<1>5. ASSUME NEW r \in Direct, DirectStep(r) \/ DirectAbort(r)
      PROVE  evidence' = evidence
  BY <1>5 DEF DirectStep, DirectAbort, graphVars
<1>6. CASE UNCHANGED serviceVars
  BY <1>3, <1>6 DEF serviceVars, graphVars
<1>7. QED
  BY <1>2, <1>3, <1>4, <1>5, <1>6 DEF ServiceNext

LEMMA PathHeldStable ==
  ASSUME ServiceInv, ServiceInv', [GatewayNext]_vars, NEW path, PathHeld(path)
  PROVE  PathHeld(path)'
<1>1. PICK r \in Called : PathOf[OpOf[r]] = path /\ Holds(r)
  BY DEF PathHeld
<1>2. pc'[r] \notin {"TIMEOUT", "FAILED"}
  BY DEF ServiceInv, RequestInv, HandlerAgrees, HandlerStage
<1>3. Holds(r)'
  BY <1>1, <1>2, HoldsStable DEF ServiceInv, Called
<1>4. QED
  BY <1>1, <1>3 DEF PathHeld

(* What stands for an operation stays about it, and is of its path.         *)
LEMMA ProjectionsTrue ==
  ASSUME Facts!GraphInvariant, EvidenceTrue, NEW o \in Operation, resolved[o] # NoEvidence
  PROVE  /\ resolved[o] \in evidence /\ resolved[o].op = o /\ ReportTrue(resolved[o])
         /\ resolved[o].path = PathOf[o]
BY DEF Facts!GraphInvariant, Facts!ProjectionsIngested, EvidenceTrue, ReportTrue

LEMMA ProjectionsStay ==
  ASSUME Facts!GraphInvariant, Facts!GraphInvariant', EvidenceTrue,
         evidence \subseteq evidence', NEW o \in Operation, resolved[o] # NoEvidence
  PROVE  resolved'[o] \in evidence' /\ resolved'[o] # NoEvidence
<1>1. resolved[o] \in evidence' /\ resolved[o].op = o
  BY ProjectionsTrue
<1>2. resolved'[o] \in evidence'
  BY <1>1 DEF Facts!GraphInvariant, Facts!NeverOutranked
<1>3. evidence' \subseteq ServiceEvidence /\ NoEvidence \notin ServiceEvidence
  BY GraphAssumption DEF Facts!GraphInvariant, Facts!GraphTypeOK, Graph!PactGraphAssumption
<1>4. QED
  BY <1>2, <1>3

(* Evidence leaves a pact pending only on success that policy does not take. *)
LEMMA ReportKeepsBacked ==
  ASSUME ServiceInv, ServiceInv', ServiceGraphInv, Facts!GraphInvariant', EvidenceTrue',
         [GatewayNext]_vars,
         NEW r \in Request, NEW source \in Source, Report(r, source)
  PROVE  PendingBacked'
<1> DEFINE e == EvidenceOf(r, source)
<1> SUFFICES ASSUME lifecycle' = "PENDING", ~PathHeld(selected)'
             PROVE  PathSucceeded(selected)'
  BY DEF PendingBacked
<1> USE DEF ServiceGraphInv
<1>1. /\ evidence' = evidence \cup {e} /\ e \in ServiceEvidence
      /\ lifecycle' = Graph!Evaluate(lifecycle, selected', resolved')
      /\ selected' = IF selected = NoPath /\ e.path \in PrimaryPath THEN e.path ELSE selected
  BY ReportedIsEvidence DEF Report, Graph!IngestEvidence, ServiceInv
<1>2. /\ lifecycle # "SETTLED" /\ selected' # NoPath
      /\ ~Graph!Failing(resolved', selected') /\ Graph!Qualifying(resolved', selected') = {}
  BY <1>1 DEF Graph!Evaluate
<1>3. lifecycle \in {"OPEN", "PENDING"}
  BY <1>2 DEF Facts!GraphInvariant, Facts!GraphTypeOK, Facts!Lifecycle
<1>4. \E o \in Operation : PathOf[o] = selected' /\ resolved'[o] # NoEvidence
  <2>1. CASE selected = NoPath
    <3>1. e.path = selected' /\ e \in evidence' /\ e.op \in Operation
      BY <1>1, <1>2, <2>1 DEF ServiceEvidence
    <3>2. PathOf[e.op] = selected'
      BY <3>1 DEF EvidenceTrue, ReportTrue
    <3>3. resolved'[e.op] \in evidence'
      BY <3>1 DEF Facts!GraphInvariant, Facts!NeverOutranked
    <3>4. evidence' \subseteq ServiceEvidence /\ NoEvidence \notin ServiceEvidence
      BY GraphAssumption DEF Facts!GraphInvariant, Facts!GraphTypeOK, Graph!PactGraphAssumption
    <3>5. QED
      BY <3>1, <3>2, <3>3, <3>4
  <2>2. CASE selected # NoPath
    <3>1. selected' = selected
      BY <1>1, <2>2
    <3>2. PICK o \in Operation : PathOf[o] = selected /\ resolved[o] # NoEvidence
      <4>1. CASE lifecycle = "OPEN"
        <5>1. PICK o \in Operation : resolved[o] # NoEvidence /\ resolved[o].path = selected
          BY <2>2, <4>1 DEF Facts!OpenNeedsNewWork, Facts!Failing, Facts!OnPath
        <5>2. QED
          BY <5>1, ProjectionsTrue
      <4>2. CASE lifecycle = "PENDING"
        <5>1. ~PathHeld(selected)
          <6>1. PICK path : path = selected
            OBVIOUS
          <6>2. ~PathHeld(path)'
            BY <3>1, <6>1 DEF PathHeld
          <6>3. QED
            BY <6>1, <6>2, PathHeldStable
        <5>2. QED
          BY <4>2, <5>1 DEF PendingBacked, PathSucceeded
      <4>3. QED
        BY <1>3, <4>1, <4>2
    <3>3. QED
      BY <1>1, <3>1, <3>2, ProjectionsStay
  <2>3. QED
    BY <2>1, <2>2
<1>5. PICK o \in Operation : PathOf[o] = selected' /\ resolved'[o] # NoEvidence
  BY <1>4
<1>6. resolved'[o] \in evidence' /\ resolved'[o].op = o
  BY <1>5 DEF Facts!GraphInvariant, Facts!ProjectionsIngested
<1>7. resolved'[o] \in ServiceEvidence /\ resolved'[o].path = selected'
  BY <1>5, <1>6 DEF EvidenceTrue, ReportTrue
<1>8. resolved'[o] \in Graph!OnPath(resolved', selected')
  BY <1>5, <1>7 DEF Graph!OnPath
<1>9. resolved'[o].state = "SUCCEEDED"
  <2>1. resolved'[o].rank \in 1..2 /\ resolved'[o].state \in {"SUCCEEDED", "FAILED"}
    BY <1>7 DEF ServiceEvidence
  <2>2. QED
    BY <1>2, <1>8, <2>1 DEF Graph!Failing, Graph!AuthoritativeFailure
<1>10. QED
  BY <1>2, <1>5, <1>9 DEF PathSucceeded

(* A claim selects a path that its request holds.                           *)
LEMMA ClaimKeepsBacked ==
  ASSUME ServiceInv, ServiceInv', PendingBacked, [GatewayNext]_vars,
         NEW r \in Called, NEW kind, NEW state,
         Graph!AppendClaim(ClaimOf(r, kind, state)),
         state \in {"ACCEPTED", "PENDING"} => Holds(r)
  PROVE  PendingBacked'
<1> DEFINE c == ClaimOf(r, kind, state)
<1>1. c.path = PathOf[OpOf[r]] /\ c.state = state
  BY DEF ClaimOf
<1>2. CASE c.path \in PrimaryPath /\ state \in {"ACCEPTED", "PENDING"}
  <2>1. selected' = PathOf[OpOf[r]]
    BY <1>1, <1>2 DEF Graph!AppendClaim
  <2>2. PathHeld(PathOf[OpOf[r]])
    BY <1>2 DEF PathHeld
  <2>3. PathHeld(PathOf[OpOf[r]])'
    BY <2>2, PathHeldStable
  <2>4. QED
    BY <2>1, <2>3 DEF PendingBacked, PathHeld
<1>3. CASE ~(c.path \in PrimaryPath /\ state \in {"ACCEPTED", "PENDING"})
  <2>1. lifecycle' = lifecycle /\ selected' = selected /\ resolved' = resolved
    BY <1>1, <1>3 DEF Graph!AppendClaim
  <2>2. PathSucceeded(selected) => PathSucceeded(selected)'
    BY <2>1 DEF PathSucceeded, Graph!Qualifying, Graph!OnPath, Graph!Qualifies
  <2>3. PathHeld(selected) => PathHeld(selected)'
    <3>1. PICK path : path = selected
      OBVIOUS
    <3>2. PathHeld(path) => PathHeld(path)'
      BY PathHeldStable
    <3>3. QED
      BY <2>1, <3>1, <3>2 DEF PathHeld
  <2>4. QED
    BY <2>1, <2>2, <2>3 DEF PendingBacked
<1>4. QED
  BY <1>2, <1>3

LEMMA QuietKeepsBacked ==
  ASSUME ServiceInv, ServiceInv', PendingBacked, [GatewayNext]_vars,
         UNCHANGED <<lifecycle, selected, resolved>>
  PROVE  PendingBacked'
<1>1. PICK path : path = selected
  OBVIOUS
<1>2. PathHeld(path) => PathHeld(path)'
  BY PathHeldStable
<1>3. PathHeld(selected) => PathHeld(selected)'
  BY <1>1, <1>2 DEF PathHeld
<1>4. PathSucceeded(selected) => PathSucceeded(selected)'
  BY DEF PathSucceeded, Graph!Qualifying, Graph!OnPath, Graph!Qualifies
<1>5. QED
  BY <1>3, <1>4 DEF PendingBacked

LEMMA ServiceGraphInitHolds == ServiceInit => ServiceGraphInv
<1> SUFFICES ASSUME ServiceInit
             PROVE  ServiceGraphInv
  OBVIOUS
<1>1. Graph!Init /\ Facts!Init
  BY FactsAreOfTheGraph DEF ServiceInit
<1>2. Facts!GraphInvariant
  BY <1>1, FactsAreOfTheGraph, Facts!GraphInitHolds
<1>3. Facts!OpenNeedsNewWork /\ EvidenceTrue /\ PendingBacked
  BY <1>1 DEF Graph!Init, Facts!OpenNeedsNewWork, EvidenceTrue, PendingBacked
<1>4. QED
  BY <1>2, <1>3 DEF ServiceGraphInv

LEMMA ServiceNextKeepsGraphInv ==
  ASSUME ServiceInv, ServiceGraphInv, [ServiceNext]_serviceVars
  PROVE  ServiceGraphInv'
<1>1. [GatewayNext]_vars /\ ServiceInv'
  BY ServiceGatewayStep, ServiceNextKeepsInv DEF ServiceInv
<1>2. [Facts!Next]_(Facts!vars)
  BY ServiceGraphStep, FactsAreOfTheGraph DEF ServiceInv
<1>3. Facts!GraphInvariant' /\ Facts!OpenNeedsNewWork'
  BY <1>2, FactsAreOfTheGraph, Facts!GraphNextKeepsInv, Facts!OpenStep DEF ServiceGraphInv
<1>4. EvidenceTrue'
  BY <1>1, EvidenceStaysTrue DEF ServiceGraphInv
<1>5. PendingBacked'
  <2>1. ASSUME NEW r \in Called, HandlerStep(r) \/ Defer(r) \/ Fail(r)
        PROVE  PendingBacked'
    <3>1. CASE RecordDecision(r)
      <4>1. DecisionState(r) \in {"ACCEPTED", "PENDING"} => Holds(r)
        BY CallerHolds DEF DecisionState, Granting, ServiceInv, Called
      <4>2. CASE Recorded(r, "gateway")
        BY <1>1, <3>1, <4>2, QuietKeepsBacked DEF RecordDecision, graphVars, ServiceGraphInv
      <4>3. CASE ~Recorded(r, "gateway")
        BY <1>1, <3>1, <4>1, <4>3, ClaimKeepsBacked DEF RecordDecision, ServiceGraphInv
      <4>4. QED
        BY <4>2, <4>3
    <3>2. CASE RecordPending(r)
      <4>1. Holds(r)
        BY <3>2 DEF RecordPending, ServiceInv, RequestInv
      <4>2. CASE Recorded(r, "remote")
        BY <1>1, <3>2, <4>2, QuietKeepsBacked DEF RecordPending, graphVars, ServiceGraphInv
      <4>3. CASE ~Recorded(r, "remote")
        BY <1>1, <3>2, <4>1, <4>3, ClaimKeepsBacked DEF RecordPending, ServiceGraphInv
      <4>4. QED
        BY <4>2, <4>3
    <3>3. CASE Reject(r) \/ Admit(r) \/ Intercept(r) \/ Defer(r) \/ Execute(r) \/ Conclude(r) \/ Fail(r)
      <4>1. UNCHANGED graphVars
        BY <3>3 DEF Reject, Admit, Intercept, Defer, Execute, Conclude, Fail
      <4>2. QED
        BY <1>1, <4>1, QuietKeepsBacked DEF graphVars, ServiceGraphInv
    <3>4. QED
      BY <2>1, <3>1, <3>2, <3>3 DEF HandlerStep
  <2>2. ASSUME NEW r \in Direct, DirectStep(r) \/ DirectAbort(r)
        PROVE  PendingBacked'
    <3>1. UNCHANGED graphVars
      BY <2>2 DEF DirectStep, DirectAbort
    <3>2. QED
      BY <1>1, <3>1, QuietKeepsBacked DEF graphVars, ServiceGraphInv
  <2>3. ASSUME NEW r \in Request, NEW source \in Source, Report(r, source)
        PROVE  PendingBacked'
    BY <1>1, <1>3, <1>4, <2>3, ReportKeepsBacked
  <2>4. CASE UNCHANGED serviceVars
    BY <1>1, <2>4, QuietKeepsBacked DEF serviceVars, graphVars, ServiceGraphInv
  <2>5. QED
    BY <2>1, <2>2, <2>3, <2>4 DEF ServiceNext
<1>6. QED
  BY <1>3, <1>4, <1>5 DEF ServiceGraphInv

(* And the graph of the pact keeps its own invariant, knows nothing of the   *)
(* outside world that is not so, and is PENDING on a path somebody was let   *)
(* through to.                                                              *)
THEOREM ServiceGraphInvariance == ServiceSpec => [](ServiceInv /\ ServiceGraphInv)
<1>1. ServiceInv /\ ServiceGraphInv /\ [ServiceNext]_serviceVars => ServiceGraphInv'
  BY ServiceNextKeepsGraphInv
<1>2. QED
  BY <1>1, ServiceGraphInitHolds, ServiceInvariance, PTL DEF ServiceSpec

-----------------------------------------------------------------------------
(* An operation reported as succeeded has taken effect and, unless evidence  *)
(* about it was misread, holds its authority for good.                      *)
LEMMA SuccessHoldsAuthority ==
  ASSUME GatewayInv, NEW e, ReportTrue(e), e.state = "SUCCEEDED", e.op \notin misread
  PROVE  Live(e.op)
<1>1. PICK r \in effected : OpOf[r] = e.op
  BY DEF ReportTrue
<1>2. resState[e.op] \in {"EXECUTING", "OUTCOME_UNKNOWN", "CONFIRMED"}
  BY <1>1 DEF GatewayInv, EffectKeepsAuthority
<1>3. QED
  BY <1>2 DEF Live, LiveStates, ReservationState, ReleasingStates

(* What the graph has settled on, the reservations have not given away: the  *)
(* success in its proof is of an operation that still holds its authority,   *)
(* unless evidence about another attempt of it was misread.                  *)
THEOREM SettledAuthorityStands == ServiceSpec => []SettledHoldsAuthority
<1>1. ServiceInv /\ ServiceGraphInv => SettledHoldsAuthority
  <2> SUFFICES ASSUME ServiceInv, ServiceGraphInv, NEW p \in proofs, NEW e \in p.evidence,
                      e.op \notin misread
               PROVE  Live(e.op)
    BY DEF SettledHoldsAuthority
  <2>1. e \in evidence /\ e.state = "SUCCEEDED"
    BY DEF ServiceGraphInv, Facts!GraphInvariant, Facts!SettlementIsEvidenced
  <2>2. QED
    BY <2>1, SuccessHoldsAuthority DEF ServiceInv, ServiceGraphInv, EvidenceTrue
<1>2. QED
  BY <1>1, ServiceGraphInvariance, PTL

(* Who the service has let through to a path is live on it.                 *)
LEMMA HeldIsLive ==
  ASSUME NEW path, PathHeld(path)
  PROVE  \E o \in Operation : PathOf[o] = path /\ Live(o)
<1>1. PICK r \in Called : PathOf[OpOf[r]] = path /\ Holds(r)
  BY DEF PathHeld
<1>2. Live(OpOf[r]) /\ OpOf[r] \in Operation
  BY <1>1, GatewayAssumption
  DEF Holds, Called, Live, LiveStates, ReservationState, ReleasingStates
<1>3. QED
  BY <1>1, <1>2

(* A PENDING pact waits for somebody, under every policy: an operation of    *)
(* its selected path holds authority, or evidence about it was misread.      *)
THEOREM PendingHasAuthorityOrMisread ==
  ServiceSpec => [](lifecycle = "PENDING" =>
                      \E o \in Operation : PathOf[o] = selected /\ (Live(o) \/ o \in misread))
<1>1. ServiceInv /\ ServiceGraphInv /\ lifecycle = "PENDING" =>
        \E o \in Operation : PathOf[o] = selected /\ (Live(o) \/ o \in misread)
  <2> SUFFICES ASSUME ServiceInv, ServiceGraphInv, lifecycle = "PENDING"
               PROVE  \E o \in Operation : PathOf[o] = selected /\ (Live(o) \/ o \in misread)
    OBVIOUS
  <2>1. CASE PathHeld(selected)
    BY <2>1, HeldIsLive
  <2>2. CASE PathSucceeded(selected)
    <3>1. PICK o \in Operation : PathOf[o] = selected /\ resolved[o] # NoEvidence
                                 /\ resolved[o].state = "SUCCEEDED"
      BY <2>2 DEF PathSucceeded
    <3>2. ReportTrue(resolved[o]) /\ resolved[o].op = o
      BY <3>1, ProjectionsTrue DEF ServiceGraphInv
    <3>3. Live(o) \/ o \in misread
      BY <3>1, <3>2, SuccessHoldsAuthority DEF ServiceInv
    <3>4. QED
      BY <3>1, <3>3
  <2>3. QED
    BY <2>1, <2>2 DEF ServiceGraphInv, PendingBacked
<1>2. QED
  BY <1>1, ServiceGraphInvariance, PTL

(* Policy takes what the sources report, as it does for refunds: the event   *)
(* type of every report is one the path asks for, and its rank is accepted.  *)
PolicyTakesSources ==
  \A path \in PrimaryPath, source \in Source :
    "success" \in RequiredType[path] /\ RankOf[source] <= MaxRank[path]

(* Where policy takes whatever the sources report, no success is left out    *)
(* and no misreading either: a PENDING pact waits for an operation of its    *)
(* selected path that holds authority.                                      *)
THEOREM PendingAuthorityStands ==
  ASSUME PolicyTakesSources
  PROVE  ServiceSpec => []PendingHasAuthority
<1>1. ServiceInv /\ ServiceGraphInv => PendingHasAuthority
  <2> SUFFICES ASSUME ServiceInv, ServiceGraphInv, lifecycle = "PENDING"
               PROVE  \E o \in Operation : PathOf[o] = selected /\ Live(o)
    BY DEF PendingHasAuthority
  <2>1. ~PathSucceeded(selected)
    <3> SUFFICES ASSUME PathSucceeded(selected)
                 PROVE  FALSE
      OBVIOUS
    <3>1. PICK o \in Operation : PathOf[o] = selected /\ resolved[o] # NoEvidence
                                 /\ resolved[o].state = "SUCCEEDED"
      BY DEF PathSucceeded
    <3>2. ReportTrue(resolved[o]) /\ resolved[o].path = selected
      BY <3>1, ProjectionsTrue DEF ServiceGraphInv
    <3>3. selected \in PrimaryPath
      <4>1. selected \in PrimaryPath \cup {NoPath}
        BY DEF ServiceGraphInv, Facts!GraphInvariant, Facts!GraphTypeOK
      <4>2. selected # NoPath
        BY <3>1, ServiceAssumption
      <4>3. QED
        BY <4>1, <4>2
    <3>4. Graph!Qualifies(resolved[o])
      BY <3>1, <3>2, <3>3 DEF PolicyTakesSources, ReportTrue, Graph!Qualifies
    <3>5. resolved[o] \in Graph!Qualifying(resolved, selected)
      BY <3>1, <3>2, <3>4 DEF Graph!Qualifying, Graph!OnPath
    <3>6. QED
      BY <3>5 DEF PathSucceeded
  <2>2. QED
    BY <2>1, HeldIsLive DEF ServiceGraphInv, PendingBacked
<1>2. QED
  BY <1>1, ServiceGraphInvariance, PTL
=============================================================================
