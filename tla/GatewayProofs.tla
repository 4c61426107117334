----------------------------- MODULE GatewayProofs -----------------------------
(***************************************************************************)
(* What holds of the reservation repository for every set of operations and *)
(* slots, both backends and any number of attempts; and, from that, why the *)
(* gateway takes effect at most once, for every set of requests and sources *)
(* of evidence.                                                            *)
(***************************************************************************)
EXTENDS Gateway, FiniteSetTheorems, TLAPS

(* The repository, without a word about requests.                            *)

(* The inductive invariant: a live operation is found under its slot, and a *)
(* slot document names an operation of its own.                             *)
ReservationInv == ReservationTypeOK /\ LiveHoldsSlot /\ HolderAccurate

(* No action names the others: each is a reservation, a transition of a live *)
(* operation, or the Firestore evidence update that leaves the slot alone.   *)
EvidenceUpdate(o) ==
  /\ resState[o] = "OUTCOME_UNKNOWN"
  /\ \E target \in {"CONFIRMED", "FAILED_AUTHORITATIVELY"} :
       resState' = [resState EXCEPT ![o] = target]
  /\ Backend = "firestore"
  /\ UNCHANGED <<attempts, holder, overtaken>>

LEMMA NextIsOneOf ==
  ASSUME NEW o \in Operation,
         \/ Reserve(o)
         \/ BeginExecution(o)
         \/ \E outcome \in ExecutionOutcome : RecordOutcome(o, outcome)
         \/ \E outcome \in ExecutionOutcome : ReconcileUnknown(o, outcome)
         \/ \E succeeded \in BOOLEAN : ReconcileByEvidence(o, succeeded)
         \/ Expire(o)
         \/ Reverse(o)
  PROVE  \/ Reserve(o)
         \/ \E expected \in LiveStates, target \in ReservationState :
              Transition(o, expected, target)
         \/ EvidenceUpdate(o)
<1>1. CASE Reserve(o)
  BY <1>1
<1>2. ASSUME NEW expected, NEW target, Transition(o, expected, target)
      PROVE  expected \in LiveStates /\ target \in ReservationState
  BY <1>2 DEF Transition, Allowed, LiveStates, ReleasingStates, ReservationState, ExecutionOutcome
<1>3. CASE BeginExecution(o) \/ Expire(o) \/ Reverse(o)
  BY <1>2, <1>3 DEF BeginExecution, Expire, Reverse
<1>4. CASE \E outcome \in ExecutionOutcome : RecordOutcome(o, outcome)
  BY <1>2, <1>4 DEF RecordOutcome
<1>5. CASE \E outcome \in ExecutionOutcome : ReconcileUnknown(o, outcome)
  BY <1>2, <1>5 DEF ReconcileUnknown
<1>6. CASE \E succeeded \in BOOLEAN : ReconcileByEvidence(o, succeeded)
  <2>1. PICK succeeded \in BOOLEAN : ReconcileByEvidence(o, succeeded)
    BY <1>6
  <2>2. CASE Backend = "memory"
    BY <1>2, <2>1, <2>2 DEF ReconcileByEvidence
  <2>3. CASE Backend # "memory"
    BY <2>1, <2>3, ReservationAssumption DEF ReconcileByEvidence, EvidenceUpdate
  <2>4. QED
    BY <2>2, <2>3
<1>7. QED
  BY <1>1, <1>3, <1>4, <1>5, <1>6

LEMMA InitHolds == ReservationInit => ReservationInv
  BY ReservationAssumption
  DEF ReservationInit, ReservationInv, ReservationTypeOK, LiveHoldsSlot, HolderAccurate,
      Live, LiveStates, ReservationState

(* A granted reservation: the slot is taken, and unless the grant overtook  *)
(* somebody no other operation of the slot is live.                         *)
LEMMA ReserveKeepsInv ==
  ASSUME ReservationInv, NEW o \in Operation, Reserve(o)
  PROVE  ReservationInv'
<1> USE ReservationAssumption DEF ReservationInv
<1>1. resState' = [resState EXCEPT ![o] = "RESERVED"] /\ Granted(o)
  BY DEF Reserve
<1>2. ReservationTypeOK'
  <2>1. /\ resState' \in [Operation -> ReservationState \cup {"ABSENT"}]
        /\ holder' \in [Slot -> Operation \cup {NoOperation}]
    BY <1>1 DEF Reserve, ReservationTypeOK, TakeSlot, ReservationState
  <2>2. /\ attempts' = [attempts EXCEPT ![o] = attempts[o] + 1]
        /\ attempts[o] \in 0..MaxAttempts /\ attempts[o] < MaxAttempts
    BY DEF Reserve, ReservationTypeOK
  <2>3. attempts[o] + 1 \in 0..MaxAttempts /\ attempts[o] + 1 # 0
    BY <2>2
  <2>4. /\ attempts' \in [Operation -> 0..MaxAttempts]
        /\ \A p \in Operation : resState'[p] = "ABSENT" <=> attempts'[p] = 0
    BY <1>1, <2>2, <2>3 DEF ReservationTypeOK
  <2>5. overtaken' \subseteq Slot
    BY DEF Reserve, ReservationTypeOK, Overtakes, Rivals
  <2>6. QED
    BY <2>1, <2>4, <2>5 DEF ReservationTypeOK
<1>3. \A p \in Operation : p # o => (Live(p)' <=> Live(p))
  BY <1>1 DEF ReservationTypeOK, Live
<1>4. resState[o] \in {"ABSENT", "FAILED_AUTHORITATIVELY"}
  BY <1>1 DEF Granted, ReservePlan, Plan, ReservationTypeOK, ReservationState
<1>5. ASSUME NEW p \in Operation, p # o, Live(p), SlotOf[p] = SlotOf[o],
             SlotOf[p] \in Slot \ overtaken'
      PROVE  FALSE
  <2>1. SlotOf[p] \in Slot \ overtaken
    BY <1>5 DEF Reserve
  <2>2. holder[SlotOf[o]] = p
    BY <1>5, <2>1 DEF LiveHoldsSlot
  <2>3. CASE resState[o] = "FAILED_AUTHORITATIVELY"
    BY <1>5, <2>3 DEF Reserve, Overtakes, Rivals
  <2>4. CASE resState[o] = "ABSENT"
    <3>1. SlotOccupied(o)
      BY <1>5, <2>2 DEF SlotOccupied, Live, LiveStates
    <3>2. QED
      BY <1>1, <2>4, <3>1 DEF Granted, ReservePlan, Plan
  <2>5. QED
    BY <1>4, <2>3, <2>4
<1>6. ASSUME NEW p \in Operation, Live(p)', SlotOf[p] \in Slot \ overtaken'
      PROVE  holder'[SlotOf[p]] = p
  <2>1. CASE p = o
    BY <1>6, <2>1 DEF Reserve, TakeSlot, ReservationTypeOK
  <2>2. CASE p # o
    <3>1. SlotOf[p] # SlotOf[o] /\ Live(p) /\ SlotOf[p] \in Slot \ overtaken
      BY <1>3, <1>5, <1>6, <2>2 DEF Reserve
    <3>2. QED
      BY <3>1 DEF Reserve, TakeSlot, ReservationTypeOK, LiveHoldsSlot
  <2>3. QED
    BY <2>1, <2>2
<1>7. LiveHoldsSlot'
  BY <1>6 DEF LiveHoldsSlot
<1>8. HolderAccurate'
  <2>1. SUFFICES ASSUME NEW s \in Slot, holder'[s] # NoOperation
                 PROVE  /\ SlotOf[holder'[s]] = s
                        /\ resState'[holder'[s]] # "ABSENT"
                        /\ Backend = "memory" => resState'[holder'[s]] \in LiveStates
    BY DEF HolderAccurate, Live
  <2>2. CASE SlotOf[o] = s
    <3>1. holder'[s] = o /\ resState'[o] = "RESERVED"
      BY <1>1, <2>2 DEF Reserve, TakeSlot, ReservationTypeOK
    <3>2. QED
      BY <2>2, <3>1 DEF LiveStates, ReservationState, ReleasingStates
  <2>3. CASE SlotOf[o] # s
    <3>1. holder'[s] = holder[s]
      BY <2>3 DEF Reserve, TakeSlot, ReservationTypeOK
    <3>2. holder[s] \in Operation /\ holder[s] # o
      BY <2>1, <2>3, <3>1 DEF ReservationTypeOK, HolderAccurate
    <3>3. resState'[holder[s]] = resState[holder[s]]
      BY <1>1, <3>2 DEF ReservationTypeOK
    <3>4. QED
      BY <2>1, <3>1, <3>3 DEF HolderAccurate, Live
  <2>4. QED
    BY <2>2, <2>3
<1>9. QED
  BY <1>2, <1>7, <1>8

(* A transition moves a live operation, which its slot document names if    *)
(* the slot was never overtaken: deleting the document robs nobody.         *)
LEMMA TransitionKeepsInv ==
  ASSUME ReservationInv, NEW o \in Operation,
         NEW expected \in LiveStates, NEW target \in ReservationState,
         Transition(o, expected, target)
  PROVE  ReservationInv'
<1> USE ReservationAssumption DEF ReservationInv
<1>1. /\ resState' = [resState EXCEPT ![o] = target]
      /\ Live(o) /\ attempts' = attempts /\ overtaken' = overtaken
  BY DEF Transition, Live
<1>2. ReservationTypeOK'
  BY <1>1 DEF Transition, ReleaseSlot, ReservationTypeOK, ReservationState, Live, LiveStates
<1>3. LiveHoldsSlot'
  <2>1. SUFFICES ASSUME NEW p \in Operation, resState'[p] \in LiveStates,
                        SlotOf[p] \in Slot \ overtaken
                 PROVE  holder'[SlotOf[p]] = p
    BY <1>1 DEF LiveHoldsSlot, Live
  <2>2. Live(p)
    BY <1>1, <2>1 DEF Live, ReservationTypeOK
  <2>3. holder[SlotOf[p]] = p
    BY <2>1, <2>2 DEF LiveHoldsSlot
  <2>4. CASE target \in ReleasingStates
    <3>1. p # o
      BY <1>1, <2>1, <2>4 DEF ReservationTypeOK, LiveStates
    <3>2. SlotOf[p] # SlotOf[o]
      BY <1>1, <2>1, <2>3, <3>1 DEF LiveHoldsSlot
    <3>3. QED
      BY <2>1, <2>3, <2>4, <3>2 DEF Transition, ReleaseSlot, ReservationTypeOK
  <2>5. CASE target \notin ReleasingStates
    BY <2>3, <2>5 DEF Transition
  <2>6. QED
    BY <2>4, <2>5
<1>4. HolderAccurate'
  <2>1. SUFFICES ASSUME NEW s \in Slot, holder'[s] # NoOperation
                 PROVE  /\ SlotOf[holder'[s]] = s
                        /\ resState'[holder'[s]] # "ABSENT"
                        /\ Backend = "memory" => resState'[holder'[s]] \in LiveStates
    BY DEF HolderAccurate, Live
  <2>2. holder'[s] = holder[s] /\ (target \in ReleasingStates => SlotOf[o] # s)
    BY <2>1 DEF Transition, ReleaseSlot, ReservationTypeOK
  <2>3. SlotOf[holder[s]] = s /\ resState[holder[s]] # "ABSENT" /\ holder[s] \in Operation
    BY <2>1, <2>2 DEF HolderAccurate, ReservationTypeOK
  <2>4. CASE holder[s] = o
    BY <1>1, <2>2, <2>3, <2>4 DEF ReservationTypeOK, LiveStates, ReservationState
  <2>5. CASE holder[s] # o
    BY <1>1, <2>1, <2>2, <2>3, <2>5 DEF HolderAccurate, ReservationTypeOK, Live
  <2>6. QED
    BY <2>4, <2>5
<1>5. QED
  BY <1>2, <1>3, <1>4

LEMMA EvidenceUpdateKeepsInv ==
  ASSUME ReservationInv, NEW o \in Operation, EvidenceUpdate(o)
  PROVE  ReservationInv'
<1> USE ReservationAssumption DEF ReservationInv
<1>1. PICK target \in {"CONFIRMED", "FAILED_AUTHORITATIVELY"} :
        resState' = [resState EXCEPT ![o] = target]
  BY DEF EvidenceUpdate
<1>2. /\ resState[o] = "OUTCOME_UNKNOWN" /\ Backend = "firestore"
      /\ attempts' = attempts /\ holder' = holder /\ overtaken' = overtaken
  BY DEF EvidenceUpdate
<1>3. \A p \in Operation : (Live(p)' => Live(p)) /\ (resState'[p] = "ABSENT" <=> resState[p] = "ABSENT")
  BY <1>1, <1>2 DEF ReservationTypeOK, Live, LiveStates, ReservationState, ReleasingStates
<1>4. ReservationTypeOK'
  BY <1>1, <1>2, <1>3 DEF ReservationTypeOK, ReservationState
<1>5. LiveHoldsSlot'
  BY <1>2, <1>3 DEF LiveHoldsSlot
<1>6. HolderAccurate'
  BY <1>2, <1>3 DEF HolderAccurate, ReservationTypeOK
<1>7. QED
  BY <1>4, <1>5, <1>6

LEMMA StutterKeepsInv ==
  ASSUME ReservationInv, UNCHANGED resVars
  PROVE  ReservationInv'
BY DEF resVars, ReservationInv, ReservationTypeOK, LiveHoldsSlot, HolderAccurate, Live

LEMMA NextKeepsInv == ReservationInv /\ [Next]_resVars => ReservationInv'
<1> SUFFICES ASSUME ReservationInv, [Next]_resVars
             PROVE  ReservationInv'
  OBVIOUS
<1>1. CASE UNCHANGED resVars
  BY <1>1, StutterKeepsInv
<1>2. CASE Next
  <2>1. PICK o \in Operation :
          \/ Reserve(o)
          \/ \E expected \in LiveStates, target \in ReservationState :
               Transition(o, expected, target)
          \/ EvidenceUpdate(o)
    BY <1>2, NextIsOneOf DEF Next
  <2>2. QED
    BY <2>1, ReserveKeepsInv, TransitionKeepsInv, EvidenceUpdateKeepsInv
<1>3. QED
  BY <1>1, <1>2

(* The inductive invariant holds in every reachable state.                  *)
THEOREM ReservationInvariance == Spec => []ReservationInv
BY InitHolds, NextKeepsInv, PTL DEF Spec

(* The documents of the repository stay well formed, whatever sequence of   *)
(* reserve, transition and evidence transactions runs.                      *)
THEOREM TypeCorrectness == Spec => []ReservationTypeOK
<1>1. ReservationInv => ReservationTypeOK
  BY DEF ReservationInv
<1>2. QED
  BY <1>1, ReservationInvariance, PTL

(* At most one live holder per exclusive slot, in every slot in which no    *)
(* retry was granted over a live holder.                                    *)
THEOREM ExclusiveSlots == Spec => []ExclusiveUnlessOvertaken
<1>1. ReservationInv => ExclusiveUnlessOvertaken
  BY DEF ReservationInv, LiveHoldsSlot, ExclusiveUnlessOvertaken
<1>2. QED
  BY <1>1, ReservationInvariance, PTL

(* A live operation is named by its slot document, in every slot in which   *)
(* no retry was granted over a live holder.                                 *)
THEOREM LiveOperationsHoldSlots == Spec => []LiveHoldsSlot
<1>1. ReservationInv => LiveHoldsSlot
  BY DEF ReservationInv
<1>2. QED
  BY <1>1, ReservationInvariance, PTL

(* A slot document names a reserved operation of its slot; with the memory  *)
(* repository, a live one.                                                  *)
THEOREM SlotDocumentsAccurate == Spec => []HolderAccurate
<1>1. ReservationInv => HolderAccurate
  BY DEF ReservationInv
<1>2. QED
  BY <1>1, ReservationInvariance, PTL

(* Nobody loses a slot to a step of somebody else, except to a retry that   *)
(* overtakes.                                                               *)
THEOREM SlotsChangeHandsBySelf == Spec => SlotChangesHandsBySelf
<1> DEFINE A == \A s \in Slot \ overtaken' :
                  holder[s] # NoOperation /\ holder'[s] # holder[s]
                    => \/ resState'[holder[s]] # resState[holder[s]]
                       \/ resState[holder[s]] \in ReleasingStates
<1>1. ReservationInv /\ [Next]_resVars => [A]_resVars
  <2> SUFFICES ASSUME ReservationInv, Next, NEW s \in Slot \ overtaken',
                      holder[s] # NoOperation, holder'[s] # holder[s]
               PROVE  \/ resState'[holder[s]] # resState[holder[s]]
                      \/ resState[holder[s]] \in ReleasingStates
    OBVIOUS
  <2> USE ReservationAssumption DEF ReservationInv
  <2>1. PICK o \in Operation :
          \/ Reserve(o)
          \/ \E expected \in LiveStates, target \in ReservationState :
               Transition(o, expected, target)
          \/ EvidenceUpdate(o)
    BY NextIsOneOf DEF Next
  <2>2. /\ holder[s] \in Operation /\ SlotOf[holder[s]] = s
        /\ resState[holder[s]] \in ReservationState
    BY DEF HolderAccurate, ReservationTypeOK
  <2>3. CASE Reserve(o)
    <3>1. SlotOf[o] = s /\ holder[s] # o
      BY <2>3 DEF Reserve, TakeSlot, ReservationTypeOK
    <3>2. CASE resState[o] = "FAILED_AUTHORITATIVELY"
      <4>1. ~Live(holder[s])
        BY <2>2, <2>3, <3>1, <3>2 DEF Reserve, Overtakes, Rivals
      <4>2. QED
        BY <2>2, <4>1 DEF Live, LiveStates
    <3>3. CASE resState[o] # "FAILED_AUTHORITATIVELY"
      <4>1. ~SlotOccupied(o)
        BY <2>3, <3>3 DEF Reserve, Granted, ReservePlan, Plan, ReservationTypeOK, ReservationState
      <4>2. QED
        BY <3>1, <4>1 DEF SlotOccupied
    <3>4. QED
      BY <3>2, <3>3
  <2>4. CASE \E expected \in LiveStates, target \in ReservationState :
               Transition(o, expected, target)
    <3>1. PICK expected \in LiveStates, target \in ReservationState :
            Transition(o, expected, target)
      BY <2>4
    <3>2. /\ target \in ReleasingStates /\ SlotOf[o] = s /\ Live(o)
          /\ resState'[o] = target /\ overtaken' = overtaken
      BY <3>1 DEF Transition, ReleaseSlot, ReservationTypeOK, Live
    <3>3. holder[s] = o
      BY <3>2 DEF LiveHoldsSlot
    <3>4. QED
      BY <3>2, <3>3 DEF Live, LiveStates
  <2>5. CASE EvidenceUpdate(o)
    BY <2>5 DEF EvidenceUpdate
  <2>6. QED
    BY <2>1, <2>3, <2>4, <2>5
<1>2. QED
  BY <1>1, ReservationInvariance, PTL DEF Spec, SlotChangesHandsBySelf

-----------------------------------------------------------------------------
(* The gateway.  The argument:                                              *)
(* a grant gives the request an attempt number nobody else has; the one     *)
(* request that holds the current attempt is the only one that can call; so *)
(* an effect belongs to the current attempt, and every step that could give *)
(* the operation away knows better, unless it reads evidence of an older    *)
(* attempt.                                                                 *)
(* Attempt numbers identify requests, and what a request knows of its call  *)
(* is true of it.                                                           *)
AttemptsIdentify ==
  /\ \A r \in Request : attemptOf[r] <= attempts[OpOf[r]]
  /\ \A r \in Request : pc[r] = "start" => attemptOf[r] = 0
  /\ \A r \in Request, q \in Request :
       OpOf[r] = OpOf[q] /\ attemptOf[r] = attemptOf[q] /\ attemptOf[r] # 0 => r = q

CallsKnown ==
  /\ \A r \in effected \cup uneffected : attemptOf[r] # 0 /\ pc[r] \in CallStatus \cup {"done"}
  /\ \A r \in Request : (pc[r] = "FAILED" => r \in uneffected) /\ (pc[r] = "OK" => r \in effected)
  /\ \A r \in Request : pc[r] \in Active => attemptOf[r] # 0

GatewayInv ==
  /\ ReservationInv
  /\ GatewayTypeOK
  /\ AttemptsIdentify
  /\ CallsKnown
  /\ ExecutorOwnsAuthority
  /\ EffectKeepsAuthority

(* To the repository, a step of the gateway is one of its transactions.     *)
LEMMA GatewayStepIsRepositoryStep ==
  ASSUME GatewayNext, GatewayTypeOK
  PROVE  [Next]_resVars
<1> USE GatewayAssumption
<1>1. CASE \E r \in Request : RequestStep(r) \/ Abort(r)
  <2>1. PICK r \in Request : RequestStep(r) \/ Abort(r)
    BY <1>1
  <2>2. OpOf[r] \in Operation
    OBVIOUS
  <2>3. CASE Refuse(r) \/ Call(r) \/ Abort(r)
    BY <2>3 DEF Refuse, Call, Abort
  <2>4. CASE Authorize(r)
    BY <2>2, <2>4 DEF Authorize, Next
  <2>5. CASE Begin(r)
    BY <2>2, <2>5 DEF Begin, Next
  <2>6. CASE Record(r)
    <3>1. OutcomeOf(pc[r]) \in ExecutionOutcome /\ RecordOutcome(OpOf[r], OutcomeOf(pc[r]))
      BY <2>6 DEF Record, RecordOutcome
    <3>2. QED
      BY <2>2, <3>1 DEF Next
  <2>7. QED
    BY <2>1, <2>3, <2>4, <2>5, <2>6 DEF RequestStep
<1>2. CASE \E r \in Request, source \in Source : Deliver(r, source)
  <2>1. PICK r \in Request, source \in Source : Deliver(r, source)
    BY <1>2
  <2>2. OpOf[r] \in Operation /\ (r \in effected) \in BOOLEAN
    OBVIOUS
  <2>3. CASE resState[OpOf[r]] = "OUTCOME_UNKNOWN"
    BY <2>1, <2>2, <2>3 DEF Deliver, Next
  <2>4. CASE resState[OpOf[r]] # "OUTCOME_UNKNOWN"
    BY <2>1, <2>4 DEF Deliver
  <2>5. QED
    BY <2>3, <2>4
<1>3. QED
  BY <1>1, <1>2 DEF GatewayNext

LEMMA GatewayInitHolds == GatewayInit => GatewayInv
<1> SUFFICES ASSUME GatewayInit
             PROVE  GatewayInv
  OBVIOUS
<1> USE GatewayAssumption, ReservationAssumption DEF GatewayInit
<1>1. ReservationInv
  BY InitHolds
<1>2. GatewayTypeOK
  BY DEF GatewayTypeOK, Stage
<1>3. AttemptsIdentify /\ CallsKnown
  BY DEF AttemptsIdentify, CallsKnown, ReservationInit, Active, Executing, CallStatus
<1>4. ExecutorOwnsAuthority /\ EffectKeepsAuthority
  BY DEF ExecutorOwnsAuthority, EffectKeepsAuthority, Active, Executing, CallStatus
<1>5. QED
  BY <1>1, <1>2, <1>3, <1>4 DEF GatewayInv

(* A grant: nobody else is active on the operation and it took no effect    *)
(* that counts, for it was free or had failed.                              *)
LEMMA AuthorizeKeepsInv ==
  ASSUME GatewayInv, NEW r \in Request, Authorize(r), ReservationInv'
  PROVE  GatewayInv'
<1> USE GatewayAssumption, ReservationAssumption DEF GatewayInv
<1>0. OpOf[r] \in Operation /\ pc[r] = "start" /\ attemptOf[r] = 0 /\ r \notin effected \cup uneffected
  BY DEF Authorize, AttemptsIdentify, CallsKnown
<1>1. /\ effected' = effected /\ uneffected' = uneffected
      /\ ingested' = ingested /\ misread' = misread
  BY DEF Authorize, worldVars, evidenceVars
<1>2. CASE ~Granted(OpOf[r])
  <2>1. /\ resState' = resState /\ attempts' = attempts /\ attemptOf' = attemptOf
        /\ pc' = [pc EXCEPT ![r] = "done"]
    BY <1>2 DEF Authorize, resVars, Goto
  <2>2. GatewayTypeOK'
    BY <1>1, <2>1 DEF GatewayTypeOK, Stage
  <2>3. AttemptsIdentify' /\ CallsKnown'
    BY <1>0, <1>1, <2>1 DEF AttemptsIdentify, CallsKnown, GatewayTypeOK, Active, Executing, CallStatus
  <2>4. ExecutorOwnsAuthority' /\ EffectKeepsAuthority'
    BY <1>0, <1>1, <2>1 DEF ExecutorOwnsAuthority, EffectKeepsAuthority, GatewayTypeOK, RequestsFor,
         Active, Executing, CallStatus
  <2>5. QED
    BY <2>2, <2>3, <2>4
<1>3. CASE Granted(OpOf[r])
  <2> DEFINE o == OpOf[r]
  <2>1. /\ Reserve(o)
        /\ pc' = [pc EXCEPT ![r] = "begin"]
        /\ attemptOf' = [attemptOf EXCEPT ![r] = attempts'[o]]
    BY <1>3 DEF Authorize, Goto
  <2>2. /\ resState' = [resState EXCEPT ![o] = "RESERVED"]
        /\ attempts' = [attempts EXCEPT ![o] = attempts[o] + 1]
        /\ attempts[o] < MaxAttempts
        /\ resState[o] \in {"ABSENT", "FAILED_AUTHORITATIVELY"}
    BY <1>0, <2>1 DEF Reserve, Granted, ReservePlan, Plan, ReservationInv, ReservationTypeOK, ReservationState
  <2>3. /\ resState \in [Operation -> ReservationState \cup {"ABSENT"}]
        /\ attempts \in [Operation -> 0..MaxAttempts] /\ attempts[o] \in 0..MaxAttempts
        /\ pc \in [Request -> Stage] /\ attemptOf \in [Request -> 0..MaxAttempts]
    BY <1>0 DEF ReservationInv, ReservationTypeOK, GatewayTypeOK
  <2>4. attempts'[o] = attempts[o] + 1 /\ attempts'[o] \in 0..MaxAttempts /\ attempts'[o] # 0
    BY <1>0, <2>2, <2>3
  <2>5. \A q \in Request : OpOf[q] = o => pc[q] \notin Active
    BY <2>2 DEF ExecutorOwnsAuthority
  <2>6. GatewayTypeOK'
    BY <1>1, <2>1, <2>3, <2>4 DEF GatewayTypeOK, Stage, Active
  <2>7. AttemptsIdentify'
    <3>1. \A q \in Request : attemptOf'[q] <= attempts'[OpOf[q]]
      BY <1>0, <2>1, <2>2, <2>3, <2>4 DEF AttemptsIdentify
    <3>2. \A q \in Request : pc'[q] = "start" => attemptOf'[q] = 0
      BY <2>1, <2>3 DEF AttemptsIdentify
    <3>3. \A q \in Request : q # r /\ OpOf[q] = o => attemptOf'[q] < attempts'[o]
      BY <2>1, <2>3, <2>4 DEF AttemptsIdentify
    <3>4. \A p \in Request, q \in Request :
            OpOf[p] = OpOf[q] /\ attemptOf'[p] = attemptOf'[q] /\ attemptOf'[p] # 0 => p = q
      <4>1. SUFFICES ASSUME NEW p \in Request, NEW q \in Request, p # q,
                            OpOf[p] = OpOf[q], attemptOf'[p] = attemptOf'[q], attemptOf'[p] # 0
                     PROVE  FALSE
        OBVIOUS
      <4>2. CASE p # r /\ q # r
        BY <2>1, <2>3, <4>1, <4>2 DEF AttemptsIdentify
      <4>3. attemptOf'[r] = attempts'[o] /\ attempts'[o] \in Nat
            /\ \A q1 \in Request : attemptOf'[q1] \in Nat
        BY <2>1, <2>3, <2>4
      <4>4. CASE p = r
        BY <3>3, <4>1, <4>3, <4>4
      <4>5. CASE q = r
        BY <3>3, <4>1, <4>3, <4>5
      <4>6. QED
        BY <4>2, <4>4, <4>5
    <3>5. QED
      BY <3>1, <3>2, <3>4 DEF AttemptsIdentify
  <2>8. CallsKnown'
    BY <1>0, <1>1, <2>1, <2>3, <2>4 DEF CallsKnown, GatewayTypeOK, Active, Executing, CallStatus
  <2>9. ExecutorOwnsAuthority'
    <3>1. SUFFICES ASSUME NEW q \in Request, pc'[q] \in Active
                   PROVE  /\ resState'[OpOf[q]] = IF pc'[q] = "begin" THEN "RESERVED" ELSE "EXECUTING"
                          /\ attemptOf'[q] = attempts'[OpOf[q]]
                          /\ \A p \in RequestsFor(OpOf[q]) \ {q} : pc'[p] \notin Active
      BY DEF ExecutorOwnsAuthority, RequestsFor
    <3>2. CASE q = r
      BY <1>0, <2>1, <2>2, <2>3, <2>5, <3>2 DEF RequestsFor
    <3>3. CASE q # r
      <4>1. OpOf[q] # o /\ pc[q] \in Active /\ OpOf[q] \in Operation
        BY <2>1, <2>3, <2>5, <3>1, <3>3
      <4>2. QED
        BY <2>1, <2>2, <2>3, <3>3, <4>1 DEF ExecutorOwnsAuthority, RequestsFor
    <3>4. QED
      BY <3>2, <3>3
  <2>10. EffectKeepsAuthority'
    BY <1>0, <1>1, <2>1, <2>2, <2>3 DEF EffectKeepsAuthority, GatewayTypeOK
  <2>11. QED
    BY <2>6, <2>7, <2>8, <2>9, <2>10
<1>4. QED
  BY <1>2, <1>3

(* Steps of a request that leave the repository alone: a refusal, an abort. *)
LEMMA StopKeepsInv ==
  ASSUME GatewayInv, NEW r \in Request, Refuse(r) \/ Abort(r), ReservationInv'
  PROVE  GatewayInv'
<1> USE GatewayAssumption, ReservationAssumption DEF GatewayInv
<1>1. /\ pc' = [pc EXCEPT ![r] = "done"]
      /\ resState' = resState /\ attempts' = attempts /\ attemptOf' = attemptOf
      /\ effected' = effected /\ uneffected' = uneffected
      /\ ingested' = ingested /\ misread' = misread
  BY DEF Refuse, Abort, Goto, resVars, worldVars, evidenceVars
<1>2. GatewayTypeOK'
  BY <1>1 DEF GatewayTypeOK, Stage
<1>3. AttemptsIdentify' /\ CallsKnown'
  BY <1>1 DEF AttemptsIdentify, CallsKnown, GatewayTypeOK, Active, Executing, CallStatus
<1>4. ExecutorOwnsAuthority' /\ EffectKeepsAuthority'
  BY <1>1 DEF ExecutorOwnsAuthority, EffectKeepsAuthority, GatewayTypeOK, RequestsFor,
       Active, Executing, CallStatus
<1>5. QED
  BY <1>2, <1>3, <1>4

LEMMA BeginKeepsInv ==
  ASSUME GatewayInv, NEW r \in Request, Begin(r), ReservationInv'
  PROVE  GatewayInv'
<1> USE GatewayAssumption, ReservationAssumption DEF GatewayInv
<1>1. /\ pc' = [pc EXCEPT ![r] = "call"] /\ pc[r] = "begin"
      /\ resState[OpOf[r]] = "RESERVED"
      /\ resState' = [resState EXCEPT ![OpOf[r]] = "EXECUTING"]
      /\ attempts' = attempts /\ attemptOf' = attemptOf
      /\ effected' = effected /\ uneffected' = uneffected
      /\ ingested' = ingested /\ misread' = misread
  BY DEF Begin, Goto, BeginExecution, Transition, worldVars, evidenceVars
<1>2. /\ pc \in [Request -> Stage] /\ OpOf[r] \in Operation
      /\ resState \in [Operation -> ReservationState \cup {"ABSENT"}]
  BY DEF GatewayTypeOK, ReservationInv, ReservationTypeOK
<1>3. GatewayTypeOK'
  BY <1>1 DEF GatewayTypeOK, Stage, Active, Executing
<1>4. AttemptsIdentify' /\ CallsKnown'
  BY <1>1, <1>2 DEF AttemptsIdentify, CallsKnown, GatewayTypeOK, Active, Executing, CallStatus
<1>5. \A q \in Request \ {r} : OpOf[q] = OpOf[r] => pc[q] \notin Active
  BY <1>1 DEF ExecutorOwnsAuthority, RequestsFor, Active
<1>6. ExecutorOwnsAuthority'
  BY <1>1, <1>2, <1>5 DEF ExecutorOwnsAuthority, RequestsFor, Active, Executing, CallStatus
<1>7. EffectKeepsAuthority'
  BY <1>1, <1>2 DEF EffectKeepsAuthority, GatewayTypeOK
<1>8. QED
  BY <1>3, <1>4, <1>6, <1>7

(* The call: the caller holds the current attempt of an executing operation.*)
LEMMA CallKeepsInv ==
  ASSUME GatewayInv, NEW r \in Request, Call(r), ReservationInv'
  PROVE  GatewayInv'
<1> USE GatewayAssumption, ReservationAssumption DEF GatewayInv
<1>1. /\ pc[r] = "call"
      /\ resState' = resState /\ attempts' = attempts /\ attemptOf' = attemptOf
      /\ ingested' = ingested /\ misread' = misread
  BY DEF Call, resVars, evidenceVars
<1>2. PICK stage \in CallStatus \cup {"done"} :
        /\ pc' = [pc EXCEPT ![r] = stage]
        /\ \/ /\ effected' = effected \cup {r} /\ uneffected' = uneffected
              /\ stage # "FAILED"
           \/ /\ uneffected' = uneffected \cup {r} /\ effected' = effected
              /\ stage # "OK"
  BY DEF Call, Goto, CallStatus
<1>3. pc \in [Request -> Stage] /\ r \notin effected \cup uneffected /\ attemptOf[r] # 0
  BY <1>1 DEF GatewayTypeOK, CallsKnown, CallStatus, Active, Executing
<1>4. resState[OpOf[r]] = "EXECUTING" /\ attemptOf[r] = attempts[OpOf[r]]
  BY <1>1 DEF ExecutorOwnsAuthority, Active, Executing
<1>5. GatewayTypeOK'
  BY <1>1, <1>2, <1>3 DEF GatewayTypeOK, Stage, Active, Executing
<1>6. AttemptsIdentify'
  BY <1>1, <1>2, <1>3 DEF AttemptsIdentify, CallStatus
<1>7. CallsKnown'
  BY <1>1, <1>2, <1>3 DEF CallsKnown, GatewayTypeOK, CallStatus, Active, Executing
<1>8. ExecutorOwnsAuthority'
  BY <1>1, <1>2, <1>3 DEF ExecutorOwnsAuthority, RequestsFor, Active, Executing, CallStatus
<1>9. EffectKeepsAuthority'
  BY <1>1, <1>2, <1>4 DEF EffectKeepsAuthority, GatewayTypeOK
<1>10. QED
  BY <1>5, <1>6, <1>7, <1>8, <1>9

(* The outcome: an effect of this operation is the effect of this very      *)
(* request, which then does not know of a failure.                          *)
LEMMA RecordKeepsInv ==
  ASSUME GatewayInv, NEW r \in Request, Record(r), ReservationInv'
  PROVE  GatewayInv'
<1> USE GatewayAssumption, ReservationAssumption DEF GatewayInv
<1>1. /\ pc[r] \in CallStatus /\ pc' = [pc EXCEPT ![r] = "done"]
      /\ resState' = [resState EXCEPT ![OpOf[r]] = OutcomeOf(pc[r])]
      /\ attempts' = attempts /\ attemptOf' = attemptOf
      /\ effected' = effected /\ uneffected' = uneffected
      /\ ingested' = ingested /\ misread' = misread
  BY DEF Record, Goto, RecordOutcome, Transition, worldVars, evidenceVars
<1>2. /\ pc \in [Request -> Stage] /\ OpOf[r] \in Operation
      /\ resState \in [Operation -> ReservationState \cup {"ABSENT"}]
  BY DEF GatewayTypeOK, ReservationInv, ReservationTypeOK
<1>3. GatewayTypeOK'
  BY <1>1 DEF GatewayTypeOK, Stage
<1>4. AttemptsIdentify' /\ CallsKnown'
  BY <1>1, <1>2 DEF AttemptsIdentify, CallsKnown, GatewayTypeOK, Active, Executing, CallStatus
<1>5. /\ \A q \in Request \ {r} : OpOf[q] = OpOf[r] => pc[q] \notin Active
      /\ attemptOf[r] = attempts[OpOf[r]] /\ attemptOf[r] # 0
  BY <1>1 DEF ExecutorOwnsAuthority, RequestsFor, Active, Executing, CallsKnown
<1>6. ExecutorOwnsAuthority'
  BY <1>1, <1>2, <1>5 DEF ExecutorOwnsAuthority, RequestsFor, Active, Executing, CallStatus
<1>7. EffectKeepsAuthority'
  <2>1. SUFFICES ASSUME NEW q \in effected, OpOf[q] \notin misread
                 PROVE  /\ resState'[OpOf[q]] \in {"EXECUTING", "OUTCOME_UNKNOWN", "CONFIRMED"}
                        /\ attemptOf[q] = attempts[OpOf[q]]
    BY <1>1 DEF EffectKeepsAuthority
  <2>2. q \in Request /\ q \notin uneffected /\ attemptOf[q] = attempts[OpOf[q]]
        /\ resState[OpOf[q]] \in {"EXECUTING", "OUTCOME_UNKNOWN", "CONFIRMED"}
    BY <2>1 DEF EffectKeepsAuthority, GatewayTypeOK
  <2>3. CASE OpOf[q] = OpOf[r]
    <3>1. q = r
      BY <1>5, <2>2, <2>3 DEF AttemptsIdentify
    <3>2. pc[r] # "FAILED"
      BY <2>2, <3>1 DEF CallsKnown
    <3>3. OutcomeOf(pc[r]) \in {"OUTCOME_UNKNOWN", "CONFIRMED"}
      BY <1>1, <3>2 DEF OutcomeOf, CallStatus
    <3>4. QED
      BY <1>1, <1>2, <2>2, <2>3, <3>3
  <2>4. CASE OpOf[q] # OpOf[r]
    BY <1>1, <1>2, <2>2, <2>4
  <2>5. QED
    BY <2>3, <2>4
<1>8. QED
  BY <1>3, <1>4, <1>6, <1>7

(* Evidence: it decides only an unknown outcome, and if it is about the     *)
(* current attempt it is about the one request whose effect could matter.   *)
LEMMA DeliverKeepsInv ==
  ASSUME GatewayInv, NEW r \in Request, NEW source \in Source, Deliver(r, source),
         ReservationInv'
  PROVE  GatewayInv'
<1> USE GatewayAssumption, ReservationAssumption DEF GatewayInv
<1>1. /\ r \in effected \cup uneffected
      /\ ingested' = ingested \cup {<<r, source>>}
      /\ pc' = pc /\ attemptOf' = attemptOf
      /\ effected' = effected /\ uneffected' = uneffected
  BY DEF Deliver, requestVars, worldVars
<1>2. attempts' = attempts
  BY DEF Deliver, ReconcileByEvidence, Transition, resVars
<1>3. OpOf[r] \in Operation /\ resState \in [Operation -> ReservationState \cup {"ABSENT"}]
  BY DEF ReservationInv, ReservationTypeOK
<1>4. AttemptsIdentify' /\ CallsKnown'
  BY <1>1, <1>2 DEF AttemptsIdentify, CallsKnown
<1>5. CASE resState[OpOf[r]] # "OUTCOME_UNKNOWN"
  <2>1. resState' = resState /\ misread' = misread
    BY <1>5 DEF Deliver, resVars
  <2>2. GatewayTypeOK'
    BY <1>1, <2>1 DEF GatewayTypeOK
  <2>3. ExecutorOwnsAuthority' /\ EffectKeepsAuthority'
    BY <1>1, <1>2, <2>1 DEF ExecutorOwnsAuthority, EffectKeepsAuthority
  <2>4. QED
    BY <1>4, <2>2, <2>3
<1>6. CASE resState[OpOf[r]] = "OUTCOME_UNKNOWN"
  <2>1. resState' = [resState EXCEPT ![OpOf[r]] =
                       IF r \in effected THEN "CONFIRMED" ELSE "FAILED_AUTHORITATIVELY"]
    BY <1>6 DEF Deliver, ReconcileByEvidence, Transition
  <2>2. misread' = IF attemptOf[r] # attempts[OpOf[r]] THEN misread \cup {OpOf[r]} ELSE misread
    BY <1>6 DEF Deliver
  <2>3. GatewayTypeOK'
    BY <1>1, <1>3, <2>2 DEF GatewayTypeOK
  <2>4. ExecutorOwnsAuthority'
    <3>1. \A q \in Request : pc[q] \in Active => OpOf[q] # OpOf[r]
      BY <1>6 DEF ExecutorOwnsAuthority
    <3>2. \A q \in Request : OpOf[q] # OpOf[r] => resState'[OpOf[q]] = resState[OpOf[q]]
      BY <1>3, <2>1
    <3>3. QED
      BY <1>1, <1>2, <3>1, <3>2 DEF ExecutorOwnsAuthority
  <2>5. EffectKeepsAuthority'
    <3>1. SUFFICES ASSUME NEW q \in effected, OpOf[q] \notin misread'
                   PROVE  /\ resState'[OpOf[q]] \in {"EXECUTING", "OUTCOME_UNKNOWN", "CONFIRMED"}
                          /\ attemptOf[q] = attempts[OpOf[q]]
      BY <1>1, <1>2 DEF EffectKeepsAuthority
    <3>2. OpOf[q] \notin misread /\ q \in Request
      BY <2>2, <3>1 DEF GatewayTypeOK
    <3>3. attemptOf[q] = attempts[OpOf[q]] /\ attemptOf[q] # 0
          /\ resState[OpOf[q]] \in {"EXECUTING", "OUTCOME_UNKNOWN", "CONFIRMED"}
      BY <3>2 DEF EffectKeepsAuthority, CallsKnown
    <3>4. CASE OpOf[q] = OpOf[r]
      <4>1. attemptOf[r] = attempts[OpOf[r]]
        BY <2>2, <3>1, <3>4
      <4>2. q = r
        BY <3>2, <3>3, <3>4, <4>1 DEF AttemptsIdentify
      <4>3. QED
        BY <1>3, <2>1, <3>3, <4>2
    <3>5. CASE OpOf[q] # OpOf[r]
      BY <1>3, <2>1, <3>2, <3>3, <3>5
    <3>6. QED
      BY <3>4, <3>5
  <2>6. QED
    BY <1>4, <2>3, <2>4, <2>5
<1>7. QED
  BY <1>5, <1>6

LEMMA GatewayNextKeepsInv == GatewayInv /\ [GatewayNext]_vars => GatewayInv'
<1> SUFFICES ASSUME GatewayInv, [GatewayNext]_vars
             PROVE  GatewayInv'
  OBVIOUS
<1>1. CASE UNCHANGED vars
  <2>1. ReservationInv'
    BY <1>1, StutterKeepsInv DEF vars, GatewayInv
  <2>2. /\ GatewayTypeOK' /\ AttemptsIdentify' /\ CallsKnown'
        /\ ExecutorOwnsAuthority' /\ EffectKeepsAuthority'
    BY <1>1 DEF vars, resVars, requestVars, worldVars, evidenceVars, GatewayInv, GatewayTypeOK,
         AttemptsIdentify, CallsKnown, ExecutorOwnsAuthority, EffectKeepsAuthority
  <2>3. QED
    BY <2>1, <2>2 DEF GatewayInv
<1>2. CASE GatewayNext
  <2>1. ReservationInv'
    BY <1>2, GatewayStepIsRepositoryStep, NextKeepsInv DEF GatewayInv
  <2>2. CASE \E r \in Request : RequestStep(r) \/ Abort(r)
    BY <2>1, <2>2, AuthorizeKeepsInv, StopKeepsInv, BeginKeepsInv, CallKeepsInv, RecordKeepsInv
       DEF RequestStep
  <2>3. CASE \E r \in Request, source \in Source : Deliver(r, source)
    BY <2>1, <2>3, DeliverKeepsInv
  <2>4. QED
    BY <1>2, <2>2, <2>3 DEF GatewayNext
<1>3. QED
  BY <1>1, <1>2

(* The inductive invariant of the gateway holds in every reachable state.   *)
THEOREM GatewayInvariance == GatewaySpec => []GatewayInv
BY GatewayInitHolds, GatewayNextKeepsInv, PTL DEF GatewaySpec

(* Requests and grants are of their kinds, no call both took effect and     *)
(* provably did not, and evidence is about calls that were made.           *)
THEOREM GatewayTypeCorrect == GatewaySpec => []GatewayTypeOK
<1>1. GatewayInv => GatewayTypeOK
  BY DEF GatewayInv
<1>2. QED
  BY <1>1, GatewayInvariance, PTL

(* A request between its grant and its recorded outcome is alone on its     *)
(* operation and finds it in the state it expects.                          *)
THEOREM ExecutorsOwnAuthority == GatewaySpec => []ExecutorOwnsAuthority
<1>1. GatewayInv => ExecutorOwnsAuthority
  BY DEF GatewayInv
<1>2. QED
  BY <1>1, GatewayInvariance, PTL

(* An operation that took effect stays live, under the attempt that did it. *)
THEOREM EffectsKeepAuthority == GatewaySpec => []EffectKeepsAuthority
<1>1. GatewayInv => EffectKeepsAuthority
  BY DEF GatewayInv
<1>2. QED
  BY <1>1, GatewayInvariance, PTL

(* Crashes, lost replies, retries and reordered or duplicated evidence never *)
(* make an operation take effect twice, evidence of an older attempt aside. *)
THEOREM AtMostOneEffect == GatewaySpec => []NoDuplicateEffect
<1>1. GatewayInv => NoDuplicateEffect
  <2>1. SUFFICES ASSUME GatewayInv, NEW r \in effected, NEW q \in effected,
                        OpOf[r] = OpOf[q], OpOf[r] \notin misread
                 PROVE  r = q
    BY DEF NoDuplicateEffect
  <2>2. attemptOf[r] = attempts[OpOf[r]] /\ attemptOf[q] = attempts[OpOf[q]] /\ attemptOf[r] # 0
    BY <2>1 DEF GatewayInv, EffectKeepsAuthority, CallsKnown
  <2>3. QED
    BY <2>1, <2>2 DEF GatewayInv, AttemptsIdentify, GatewayTypeOK
<1>2. QED
  BY <1>1, GatewayInvariance, PTL

(* One winner for each exclusive slot, overtaken slots and misread evidence *)
(* aside.                                                                   *)
THEOREM OneWinnerPerSlot == GatewaySpec => []OneEffectPerSlot
<1>1. GatewayInv => OneEffectPerSlot
  <2>1. SUFFICES ASSUME GatewayInv, NEW r \in effected, NEW q \in effected,
                        SlotOf[OpOf[r]] = SlotOf[OpOf[q]],
                        SlotOf[OpOf[r]] \in Slot \ overtaken,
                        OpOf[r] \notin misread, OpOf[q] \notin misread
                 PROVE  OpOf[r] = OpOf[q]
    BY DEF OneEffectPerSlot
  <2>2. Live(OpOf[r]) /\ Live(OpOf[q])
    BY <2>1 DEF GatewayInv, EffectKeepsAuthority, Live, LiveStates, ReservationState, ReleasingStates
  <2>3. OpOf[r] \in Operation /\ OpOf[q] \in Operation
    BY <2>1, GatewayAssumption DEF GatewayInv, GatewayTypeOK
  <2>4. QED
    BY <2>1, <2>2, <2>3 DEF GatewayInv, ReservationInv, LiveHoldsSlot
<1>2. QED
  BY <1>1, GatewayInvariance, PTL

-----------------------------------------------------------------------------
(* The refinement.  Authority is what is live; what was performed is what   *)
(* took effect.                                                             *)
Performers(o) == {r \in effected : OpOf[r] = o}

(* With nothing overtaken or misread, an operation with an effect is live.  *)
LEMMA PerformedIsLive ==
  ASSUME GatewayInv, misread = {}, NEW o \in Operation, ~Live(o)
  PROVE  Performers(o) = {}
BY DEF GatewayInv, EffectKeepsAuthority, Performers, Live, LiveStates, ReservationState,
       ReleasingStates

LEMMA AuthorityInit == GatewayInit => Authority!Init
<1> SUFFICES ASSUME GatewayInit
             PROVE  Authority!Init
  OBVIOUS
<1>1. {o \in Operation : Live(o)} = {}
  BY DEF GatewayInit, ReservationInit, Live, LiveStates, ReservationState
<1>2. \A o \in Operation : Cardinality({r \in effected : OpOf[r] = o}) = 0
  BY FS_EmptySet DEF GatewayInit
<1>3. QED
  BY <1>1, <1>2 DEF Authority!Init

(* What a step does to the abstract state, in terms of liveness and effects.*)
LEMMA AbstractStutter ==
  ASSUME effected' = effected, \A o \in Operation : Live(o)' <=> Live(o)
  PROVE  UNCHANGED Authority!vars
BY DEF Authority!vars, Live

LEMMA AbstractGrant ==
  ASSUME GatewayInv, misread = {}, ReservationInv', overtaken' = {},
         NEW o \in Operation, Reserve(o), effected' = effected
  PROVE  Authority!Next
<1>1. resState' = [resState EXCEPT ![o] = "RESERVED"] /\ resState \in [Operation -> ReservationState \cup {"ABSENT"}]
  BY DEF Reserve, GatewayInv, ReservationInv, ReservationTypeOK
<1>2. resState[o] \in {"ABSENT", "FAILED_AUTHORITATIVELY"}
  BY <1>1 DEF Reserve, Granted, ReservePlan, Plan, ReservationState
<1>3. ~Live(o) /\ Live(o)'
  BY <1>1, <1>2 DEF Live, LiveStates, ReservationState, ReleasingStates
<1>4. Cardinality({r \in effected : OpOf[r] = o}) = 0
  BY <1>3, PerformedIsLive, FS_EmptySet DEF Performers
<1>5. \A p \in Operation : p # o => (Live(p)' <=> Live(p))
  BY <1>1 DEF Live
<1>6. \A p \in Operation : Live(p) /\ p # o /\ SlotOf[p] = SlotOf[o] => SlotOf[o] = NoSlot
  <2>1. SUFFICES ASSUME NEW p \in Operation, Live(p), p # o, SlotOf[p] = SlotOf[o],
                        SlotOf[o] # NoSlot
                 PROVE  FALSE
    OBVIOUS
  <2>2. Live(p)' /\ Live(o)' /\ SlotOf[o] \in Slot
    BY <1>3, <1>5, <2>1, ReservationAssumption
  <2>3. holder'[SlotOf[o]] = p /\ holder'[SlotOf[o]] = o
    BY <2>1, <2>2 DEF ReservationInv, LiveHoldsSlot
  <2>4. QED
    BY <2>1, <2>3
<1>7. Authority!Grant(o)
  <2>1. {p \in Operation : Live(p)}' = {p \in Operation : Live(p)} \cup {o}
    BY <1>3, <1>5
  <2>2. \A p \in {q \in Operation : Live(q)} : ~Authority!Compete(o, p)
    BY <1>3, <1>6 DEF Authority!Compete
  <2>3. o \notin {q \in Operation : Live(q)}
    BY <1>3
  <2>4. [p \in Operation |-> Cardinality({r \in effected : OpOf[r] = p})][o] = 0
    BY <1>4
  <2>5. QED
    BY <2>1, <2>2, <2>3, <2>4 DEF Authority!Grant
<1>8. QED
  BY <1>7 DEF Authority!Next

LEMMA AbstractRelinquish ==
  ASSUME NEW o \in Operation, Live(o), ~Live(o)', Performers(o) = {},
         \A p \in Operation : p # o => (Live(p)' <=> Live(p)),
         effected' = effected
  PROVE  Authority!Next
<1>1. Cardinality({r \in effected : OpOf[r] = o}) = 0
  BY FS_EmptySet DEF Performers
<1>2. {p \in Operation : Live(p)}' = {p \in Operation : Live(p)} \ {o}
  OBVIOUS
<1>3. Authority!Relinquish(o)
  BY <1>1, <1>2 DEF Authority!Relinquish
<1>4. QED
  BY <1>3 DEF Authority!Next

LEMMA AbstractPerform ==
  ASSUME NEW r \in Request, OpOf[r] \in Operation, Live(OpOf[r]), Performers(OpOf[r]) = {},
         effected' = effected \cup {r}, \A p \in Operation : Live(p)' <=> Live(p)
  PROVE  Authority!Next
<1> DEFINE o == OpOf[r]
<1>1. Cardinality({q \in effected : OpOf[q] = o}) = 0
  BY FS_EmptySet DEF Performers
<1>2. {q \in effected' : OpOf[q] = o} = {r}
  BY DEF Performers
<1>3. Cardinality({q \in effected' : OpOf[q] = o}) = 1
  BY <1>2, FS_Singleton
<1>4. \A p \in Operation \ {o} : {q \in effected' : OpOf[q] = p} = {q \in effected : OpOf[q] = p}
  OBVIOUS
<1>5. [p \in Operation |-> Cardinality({q \in effected' : OpOf[q] = p})]
        = [[p \in Operation |-> Cardinality({q \in effected : OpOf[q] = p})] EXCEPT ![o] = 1]
  BY <1>3, <1>4
<1>6. {p \in Operation : Live(p)}' = {p \in Operation : Live(p)}
  OBVIOUS
<1>7. Authority!Perform(o)
  BY <1>1, <1>5, <1>6 DEF Authority!Perform
<1>8. QED
  BY <1>7 DEF Authority!Next

(* Every orderly step of the gateway is a step of OutcomeAuthority, or none. *)
LEMMA OrderlyStep ==
  ASSUME GatewayInv, misread = {}, GatewayNext, overtaken' = {}, misread' = {}
  PROVE  [Authority!Next]_(Authority!vars)
<1> USE GatewayAssumption
<1>1. GatewayInv' /\ ReservationInv'
  BY GatewayNextKeepsInv DEF GatewayInv
<1>2. resState \in [Operation -> ReservationState \cup {"ABSENT"}]
  BY DEF GatewayInv, ReservationInv, ReservationTypeOK
<1>3. ASSUME NEW r \in Request, Refuse(r) \/ Abort(r)
      PROVE  [Authority!Next]_(Authority!vars)
  BY <1>3, AbstractStutter DEF Refuse, Abort, resVars, worldVars, Live
<1>4. ASSUME NEW r \in Request, Authorize(r)
      PROVE  [Authority!Next]_(Authority!vars)
  <2>1. effected' = effected /\ OpOf[r] \in Operation
    BY <1>4 DEF Authorize, worldVars
  <2>2. CASE Granted(OpOf[r])
    BY <1>1, <1>4, <2>1, <2>2, AbstractGrant DEF Authorize
  <2>3. CASE ~Granted(OpOf[r])
    BY <1>4, <2>1, <2>3, AbstractStutter DEF Authorize, resVars, Live
  <2>4. QED
    BY <2>2, <2>3
<1>5. ASSUME NEW r \in Request, Begin(r)
      PROVE  [Authority!Next]_(Authority!vars)
  <2>1. /\ resState[OpOf[r]] = "RESERVED" /\ effected' = effected
        /\ resState' = [resState EXCEPT ![OpOf[r]] = "EXECUTING"]
    BY <1>5 DEF Begin, BeginExecution, Transition, worldVars
  <2>2. \A p \in Operation : Live(p)' <=> Live(p)
    BY <1>2, <2>1 DEF Live, LiveStates, ReservationState, ReleasingStates
  <2>3. QED
    BY <2>1, <2>2, AbstractStutter
<1>6. ASSUME NEW r \in Request, Call(r)
      PROVE  [Authority!Next]_(Authority!vars)
  <2>1. pc[r] = "call" /\ resState' = resState
        /\ (effected' = effected \/ effected' = effected \cup {r})
    BY <1>6 DEF Call, resVars
  <2>2. /\ resState[OpOf[r]] = "EXECUTING" /\ attemptOf[r] = attempts[OpOf[r]]
        /\ r \notin effected
    BY <2>1 DEF GatewayInv, ExecutorOwnsAuthority, CallsKnown, Active, Executing, CallStatus
  <2>3. \A p \in Operation : Live(p)' <=> Live(p)
    BY <2>1 DEF Live
  <2>4. Performers(OpOf[r]) = {}
    <3>1. SUFFICES ASSUME NEW q \in effected, OpOf[q] = OpOf[r]
                   PROVE  FALSE
      BY DEF Performers
    <3>2. q \in Request /\ attemptOf[q] = attempts[OpOf[q]] /\ attemptOf[q] # 0
      BY <3>1 DEF GatewayInv, EffectKeepsAuthority, CallsKnown, GatewayTypeOK
    <3>3. QED
      BY <2>2, <3>1, <3>2 DEF GatewayInv, AttemptsIdentify
  <2>5. Live(OpOf[r]) /\ OpOf[r] \in Operation
    BY <2>2 DEF Live, LiveStates, ReservationState, ReleasingStates
  <2>6. CASE effected' = effected
    BY <2>3, <2>6, AbstractStutter
  <2>7. CASE effected' = effected \cup {r}
    BY <2>3, <2>4, <2>5, <2>7, AbstractPerform
  <2>8. QED
    BY <2>1, <2>6, <2>7
<1>7. ASSUME NEW r \in Request, OpOf[r] \in Operation, effected' = effected,
             NEW target \in ReservationState, Live(OpOf[r]),
             resState' = [resState EXCEPT ![OpOf[r]] = target],
             target \notin LiveStates => Performers(OpOf[r]) = {}
      PROVE  [Authority!Next]_(Authority!vars)
  <2>1. \A p \in Operation : p # OpOf[r] => (Live(p)' <=> Live(p))
    BY <1>2, <1>7 DEF Live
  <2>2. Live(OpOf[r])' <=> target \in LiveStates
    BY <1>2, <1>7 DEF Live
  <2>3. CASE target \in LiveStates
    BY <1>7, <2>1, <2>2, <2>3, AbstractStutter
  <2>4. CASE target \notin LiveStates
    BY <1>7, <2>1, <2>2, <2>4, AbstractRelinquish
  <2>5. QED
    BY <2>3, <2>4
<1>8. ASSUME NEW r \in Request, Record(r)
      PROVE  [Authority!Next]_(Authority!vars)
  <2>1. /\ pc[r] \in CallStatus /\ effected' = effected /\ resState[OpOf[r]] = "EXECUTING"
        /\ resState' = [resState EXCEPT ![OpOf[r]] = OutcomeOf(pc[r])]
    BY <1>8 DEF Record, RecordOutcome, Transition, worldVars
  <2>2. OutcomeOf(pc[r]) \in ReservationState /\ Live(OpOf[r]) /\ OpOf[r] \in Operation
    BY <2>1 DEF OutcomeOf, ReservationState, Live, LiveStates, ReleasingStates
  <2>3. ASSUME OutcomeOf(pc[r]) \notin LiveStates, NEW q \in effected, OpOf[q] = OpOf[r]
        PROVE  FALSE
    <3>1. r \in uneffected
      BY <2>1, <2>3 DEF OutcomeOf, CallStatus, LiveStates, ReservationState, ReleasingStates,
           GatewayInv, CallsKnown
    <3>2. q \in Request /\ attemptOf[q] = attempts[OpOf[q]] /\ attemptOf[q] # 0 /\ q # r
      BY <2>3, <3>1 DEF GatewayInv, EffectKeepsAuthority, CallsKnown, GatewayTypeOK
    <3>3. attemptOf[r] = attempts[OpOf[r]]
      BY <2>1 DEF GatewayInv, ExecutorOwnsAuthority, Active, Executing
    <3>4. QED
      BY <2>3, <3>2, <3>3 DEF GatewayInv, AttemptsIdentify
  <2>4. QED
    BY <1>7, <2>1, <2>2, <2>3 DEF Performers
<1>9. ASSUME NEW r \in Request, NEW source \in Source, Deliver(r, source)
      PROVE  [Authority!Next]_(Authority!vars)
  <2>1. effected' = effected /\ OpOf[r] \in Operation /\ r \in effected \cup uneffected
    BY <1>9 DEF Deliver, worldVars
  <2>2. CASE resState[OpOf[r]] # "OUTCOME_UNKNOWN"
    BY <1>9, <2>1, <2>2, AbstractStutter DEF Deliver, resVars, Live
  <2>3. CASE resState[OpOf[r]] = "OUTCOME_UNKNOWN"
    <3> DEFINE target == IF r \in effected THEN "CONFIRMED" ELSE "FAILED_AUTHORITATIVELY"
    <3>1. resState' = [resState EXCEPT ![OpOf[r]] = target]
      BY <1>9, <2>3 DEF Deliver, ReconcileByEvidence, Transition
    <3>2. attemptOf[r] = attempts[OpOf[r]]
      BY <1>9, <2>1, <2>3 DEF Deliver
    <3>3. target \in ReservationState /\ Live(OpOf[r]) /\ (target \notin LiveStates => r \notin effected)
      BY <2>3 DEF ReservationState, Live, LiveStates, ReleasingStates
    <3>4. ASSUME r \notin effected, NEW q \in effected, OpOf[q] = OpOf[r]
          PROVE  FALSE
      <4>1. q \in Request /\ attemptOf[q] = attempts[OpOf[q]] /\ attemptOf[q] # 0 /\ q # r
        BY <3>4 DEF GatewayInv, EffectKeepsAuthority, CallsKnown, GatewayTypeOK
      <4>2. QED
        BY <3>2, <3>4, <4>1 DEF GatewayInv, AttemptsIdentify
    <3>5. QED
      BY <1>7, <2>1, <3>1, <3>3, <3>4 DEF Performers
  <2>4. QED
    BY <2>2, <2>3
<1>10. QED
  BY <1>3, <1>4, <1>5, <1>6, <1>8, <1>9 DEF GatewayNext, RequestStep

(* The gateway keeps the promise of OutcomeAuthority: every orderly         *)
(* behaviour is, seen from outside, a behaviour of it.                      *)
THEOREM GatewayImplementsAuthority == OrderlyGatewaySpec => KeepsOutcomeAuthority
<1> DEFINE Orderly == GatewayInv /\ misread = {}
<1>1. GatewayInit => Orderly
  BY GatewayInitHolds DEF GatewayInit
<1>2. Orderly /\ [GatewayNext /\ overtaken' = {} /\ misread' = {}]_vars => Orderly'
  BY GatewayNextKeepsInv DEF vars, evidenceVars
<1>3. GatewayInit => Authority!Init
  BY AuthorityInit
<1>4. Orderly /\ [GatewayNext /\ overtaken' = {} /\ misread' = {}]_vars
        => [Authority!Next]_(Authority!vars)
  <2>1. UNCHANGED vars => UNCHANGED Authority!vars
    BY AbstractStutter DEF vars, resVars, worldVars, Live
  <2>2. QED
    BY <2>1, OrderlyStep
<1>5. QED
  BY <1>1, <1>2, <1>3, <1>4, PTL DEF OrderlyGatewaySpec, KeepsOutcomeAuthority, Authority!Spec

(* What was misread stays on record.                                        *)
LEMMA MisreadGrows ==
  ASSUME GatewayNext, misread' = {}
  PROVE  misread = {}
<1>1. ASSUME NEW r \in Request, RequestStep(r) \/ Abort(r)
      PROVE  misread' = misread
  BY <1>1 DEF RequestStep, Refuse, Authorize, Begin, Call, Record, Abort, evidenceVars
<1>2. ASSUME NEW r \in Request, NEW source \in Source, Deliver(r, source)
      PROVE  misread \subseteq misread'
  BY <1>2 DEF Deliver
<1>3. QED
  BY <1>1, <1>2 DEF GatewayNext

(* In any behaviour whatever, a step that neither overtakes nor misreads,    *)
(* with nothing overtaken or misread before, is one of OutcomeAuthority.     *)
THEOREM OrderlyStepsKeepAuthority == GatewaySpec => KeepsAuthorityWhileOrderly
<1>1. GatewayInit => Authority!Init
  BY AuthorityInit
<1>2. GatewayInv /\ [GatewayNext]_vars
        => [overtaken' = {} /\ misread' = {} => [Authority!Next]_(Authority!vars)]_vars
  BY MisreadGrows, OrderlyStep
<1>3. QED
  BY <1>1, <1>2, GatewayInvariance, PTL DEF GatewaySpec, KeepsAuthorityWhileOrderly
=============================================================================
