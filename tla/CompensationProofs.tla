-------------------------- MODULE CompensationProofs --------------------------
(***************************************************************************)
(* What holds of the compensation executor for every set of actions, plans, *)
(* policies and invocations: first however executors overlap, then of the   *)
(* actions no two of them have worked on at a time, and at last of whatever *)
(* a resolver proposes and the validator lets through.                      *)
(***************************************************************************)
EXTENDS ResolutionPlanning, TLAPS

(* An execution that somebody works on has a document, so whoever writes it *)
(* never writes a document without a plan.                                  *)
WorkIsReserved ==
  /\ \A i \in InFlight : state[ActionOf[i]] # "ABSENT"
  /\ \A a \in reconciling : state[a] # "ABSENT"

DocumentInv == CompensationTypeOK /\ WorkIsReserved

Cleared == {"observe", "dependency", "commit", "call"}

(* Whoever got past the approval check holds an approval that was granted   *)
(* under the policy version of its plan; approvals say what was granted.    *)
ApprovalInv ==
  /\ \A a \in Action : approval[a].status = "APPROVED" => <<a, approval[a].policy>> \in granted
  /\ \A i \in Invocation :
       /\ pc[i] = "approval" => TierOf[ActionOf[i]] = "HUMAN_APPROVAL_REQUIRED"
       /\ pc[i] \in Cleared \/ i \in called =>
            /\ TierOf[ActionOf[i]] # "HUMAN_REVIEW_ONLY"
            /\ TierOf[ActionOf[i]] = "HUMAN_APPROVAL_REQUIRED" =>
                 <<ActionOf[i], PolicyOf[PlanOf[i]]>> \in granted

(* CONFIRMED is written only where the target was compensated, and whoever  *)
(* got past the dependency check has seen it written.  A ticket says nothing *)
(* lasting.                                                                 *)
TargetInv ==
  /\ \A a \in Action \ Unguarded : state[a] = "CONFIRMED" => target[TargetOf[a]] = "compensated"
  /\ \A i \in Invocation :
       /\ pc[i] = "CONFIRMED" /\ ActionOf[i] \notin Unguarded =>
            target[TargetOf[ActionOf[i]]] = "compensated"
       /\ pc[i] = "dependency" => Requires[ActionOf[i]] # NoAction
       /\ pc[i] \in {"commit", "call"} \/ i \in called =>
            \/ Requires[ActionOf[i]] = NoAction
            \/ target[TargetOf[Requires[ActionOf[i]]]] = "compensated"

-----------------------------------------------------------------------------
(* Documents.                                                               *)
LEMMA DocumentInit == Init => DocumentInv
  BY CompensationAssumption
  DEF Init, DocumentInv, CompensationTypeOK, WorkIsReserved, InFlight, Stage, Outcome

LEMMA ReserveKeepsDocuments ==
  ASSUME DocumentInv, NEW p \in Plan, NEW a \in Action, Reserve(p, a)
  PROVE  DocumentInv'
  BY CompensationAssumption
  DEF Reserve, DocumentInv, CompensationTypeOK, WorkIsReserved, InFlight, ExecutionState,
      approvals, world

LEMMA ApprovalKeepsDocuments ==
  ASSUME DocumentInv,
         \/ \E p \in Plan, a \in Action : RequestApproval(p, a)
         \/ \E a \in Action, verdict \in {"APPROVED", "REJECTED"} : DecideApproval(a, verdict)
         \/ \E w \in persisting : PersistApproval(w)
  PROVE  DocumentInv'
<1> USE CompensationAssumption
    DEF DocumentInv, CompensationTypeOK, WorkIsReserved, InFlight, documents, world
<1>1. ASSUME NEW p \in Plan, NEW a \in Action, RequestApproval(p, a)
      PROVE  DocumentInv'
  BY <1>1 DEF RequestApproval, ApprovalStatus
<1>2. ASSUME NEW a \in Action, NEW verdict \in {"APPROVED", "REJECTED"},
             DecideApproval(a, verdict)
      PROVE  DocumentInv'
  <2>1. approval[a].policy \in Policy
    BY <1>2 DEF DecideApproval
  <2>2. QED
    BY <1>2, <2>1 DEF DecideApproval, ApprovalStatus
<1>3. ASSUME NEW w \in persisting, PersistApproval(w)
      PROVE  DocumentInv'
  <2>1. /\ w.action \in Action /\ w.status \in ApprovalStatus /\ w.policy \in Policy
        /\ w.policy # NoPolicy
    OBVIOUS
  <2>2. granted' \subseteq Action \X Policy
    BY <1>3, <2>1 DEF PersistApproval
  <2>3. approval' \in [Action -> [status : ApprovalStatus \cup {"NONE"}, policy : Policy \cup {NoPolicy}]]
    BY <1>3, <2>1 DEF PersistApproval
  <2>4. \A a \in Action : approval'[a].status = "NONE" <=> approval'[a].policy = NoPolicy
    BY <1>3, <2>1 DEF PersistApproval, ApprovalStatus
  <2>5. QED
    BY <1>3, <2>2, <2>3, <2>4 DEF PersistApproval
<1>4. QED
  BY <1>1, <1>2, <1>3

LEMMA ExecutionKeepsDocuments ==
  ASSUME DocumentInv, NEW i \in Invocation, ExecuteStep(i) \/ Abort(i)
  PROVE  DocumentInv'
<1> USE CompensationAssumption
    DEF DocumentInv, CompensationTypeOK, WorkIsReserved, InFlight, approvals, documents,
        world, Goto, Stage, Outcome, Refusing
<1>1. CASE Fetch(i)
  <2>1. PICK stage \in {"done", "REJECTED", "approval", "observe"} :
          Goto(i, stage) /\ (stage # "done" => state[ActionOf[i]] # "ABSENT")
    BY <1>1 DEF Fetch, Proceed
  <2>2. /\ pc' \in [Invocation -> Stage]
        /\ \A j \in InFlight' : state[ActionOf[j]] # "ABSENT"
    BY <2>1
  <2>3. QED
    BY <1>1, <2>2 DEF Fetch, Proceed
<1>2. CASE CheckApproval(i)
  BY <1>2 DEF CheckApproval
<1>3. CASE Observe(i)
  BY <1>3 DEF Observe
<1>4. CASE CheckDependency(i)
  BY <1>4 DEF CheckDependency
<1>5. CASE Commit(i)
  BY <1>5 DEF Commit, ExecutionState
<1>6. CASE Call(i)
  <2>1. \E stage \in {"CONFIRMED", "OUTCOME_UNKNOWN", "FAILED_AUTHORITATIVELY", "done"} : Goto(i, stage)
    BY <1>6 DEF Call
  <2>2. target' \in [Target -> {"eligible", "moved", "compensated"}]
    BY <1>6 DEF Call
  <2>3. performed' \subseteq called'
    BY <1>6 DEF Call
  <2>4. QED
    BY <1>6, <2>1, <2>2, <2>3 DEF Call
<1>7. CASE Save(i)
  BY <1>7 DEF Save, ExecutionState
<1>8. CASE Abort(i)
  BY <1>8 DEF Abort
<1>9. QED
  BY <1>1, <1>2, <1>3, <1>4, <1>5, <1>6, <1>7, <1>8 DEF ExecuteStep

LEMMA ReconciliationKeepsDocuments ==
  ASSUME DocumentInv,
         \/ \E a \in Action : FetchUnknown(a) \/ ReconcileUnknown(a)
         \/ \E x \in Target : MoveOn(x)
  PROVE  DocumentInv'
<1> USE DEF DocumentInv, CompensationTypeOK, WorkIsReserved, InFlight, approvals,
            documents, world, ExecutionState
<1>1. ASSUME NEW a \in Action, FetchUnknown(a)
      PROVE  DocumentInv'
  BY <1>1 DEF FetchUnknown
<1>2. ASSUME NEW a \in Action, ReconcileUnknown(a)
      PROVE  DocumentInv'
  <2>1. \/ state' = state
        \/ state' = [state EXCEPT ![a] = "CONFIRMED"]
    BY <1>2 DEF ReconcileUnknown
  <2>2. state[a] # "ABSENT"
    BY <1>2 DEF ReconcileUnknown
  <2>3. QED
    BY <1>2, <2>1, <2>2 DEF ReconcileUnknown
<1>3. ASSUME NEW x \in Target, MoveOn(x)
      PROVE  DocumentInv'
  BY <1>3 DEF MoveOn
<1>4. QED
  BY <1>1, <1>2, <1>3

LEMMA DocumentStep == DocumentInv /\ [Next]_vars => DocumentInv'
<1>1. CASE UNCHANGED vars
  BY <1>1 DEF vars, approvals, documents, world, DocumentInv, CompensationTypeOK,
              WorkIsReserved, InFlight
<1>2. QED
  BY <1>1, ReserveKeepsDocuments, ApprovalKeepsDocuments, ExecutionKeepsDocuments,
     ReconciliationKeepsDocuments
  DEF Next, Surroundings

THEOREM DocumentInvariance == Spec => []DocumentInv
  BY DocumentInit, DocumentStep, PTL DEF Spec

(* Every document and pending write is of its kind, however many approvers, *)
(* executors and reconcilers interleave.                                    *)
THEOREM CompensationTypeCorrect == Spec => []CompensationTypeOK
<1>1. DocumentInv => CompensationTypeOK
  BY DEF DocumentInv
<1>2. QED
  BY <1>1, DocumentInvariance, PTL

-----------------------------------------------------------------------------
(* Approvals: only a granted one is written as APPROVED, and only the       *)
(* approval check lets a human-approved action pass.                        *)
LEMMA ApprovalInit == Init => ApprovalInv
  BY DEF Init, ApprovalInv, Cleared

LEMMA ExecutionKeepsApprovals ==
  ASSUME DocumentInv, ApprovalInv, NEW i \in Invocation, ExecuteStep(i) \/ Abort(i)
  PROVE  ApprovalInv'
<1> USE DEF ApprovalInv, Cleared, approvals, Goto
<1>1. /\ approval' = approval /\ granted' = granted
      /\ pc \in [Invocation -> Stage] /\ ActionOf[i] \in Action
      /\ called \subseteq Invocation
  BY CompensationAssumption
  DEF ExecuteStep, Fetch, CheckApproval, Observe, CheckDependency, Commit, Call, Save, Abort,
      DocumentInv, CompensationTypeOK
<1>2. CASE Fetch(i)
  <2>1. PICK stage \in {"done", "REJECTED", "approval", "observe"} :
          /\ Goto(i, stage)
          /\ stage = "approval" => TierOf[ActionOf[i]] = "HUMAN_APPROVAL_REQUIRED"
          /\ stage = "observe" =>
               TierOf[ActionOf[i]] \notin {"HUMAN_REVIEW_ONLY", "HUMAN_APPROVAL_REQUIRED"}
    BY <1>2 DEF Fetch, Proceed
  <2>2. called' = called
    BY <1>2 DEF Fetch, world
  <2>3. QED
    BY <1>1, <2>1, <2>2
<1>3. CASE CheckApproval(i)
  <2>1. PICK stage \in {"done", "REJECTED", "observe"} :
          /\ Goto(i, stage)
          /\ stage = "observe" => /\ approval[ActionOf[i]].status = "APPROVED"
                                  /\ approval[ActionOf[i]].policy = PolicyOf[PlanOf[i]]
    BY <1>3 DEF CheckApproval
  <2>2. called' = called /\ pc[i] = "approval"
    BY <1>3 DEF CheckApproval, world
  <2>3. QED
    BY <1>1, <2>1, <2>2
<1>4. CASE Observe(i)
  BY <1>1, <1>4 DEF Observe, world
<1>5. CASE CheckDependency(i)
  BY <1>1, <1>5 DEF CheckDependency, world
<1>6. CASE Commit(i)
  BY <1>1, <1>6 DEF Commit, world
<1>7. CASE Call(i)
  <2>1. PICK stage \in {"CONFIRMED", "OUTCOME_UNKNOWN", "FAILED_AUTHORITATIVELY", "done"} :
          Goto(i, stage)
    BY <1>7 DEF Call
  <2>2. called' = called \cup {i} /\ pc[i] = "call"
    BY <1>7 DEF Call
  <2>3. QED
    BY <1>1, <2>1, <2>2
<1>8. CASE Save(i) \/ Abort(i)
  BY <1>1, <1>8 DEF Save, Abort, world
<1>9. QED
  BY <1>2, <1>3, <1>4, <1>5, <1>6, <1>7, <1>8 DEF ExecuteStep

LEMMA ApprovalStep == DocumentInv /\ ApprovalInv /\ [Next]_vars => ApprovalInv'
<1> SUFFICES ASSUME DocumentInv, ApprovalInv, [Next]_vars
             PROVE  ApprovalInv'
  OBVIOUS
<1>1. CASE UNCHANGED <<approval, granted, pc, called>>
  BY <1>1 DEF ApprovalInv
<1>2. ASSUME NEW w \in persisting, PersistApproval(w)
      PROVE  ApprovalInv'
  <2>1. /\ approval' = [approval EXCEPT ![w.action] = [status |-> w.status, policy |-> w.policy]]
        /\ granted' = IF w.status = "APPROVED" THEN granted \cup {<<w.action, w.policy>>}
                      ELSE granted
        /\ pc' = pc /\ called' = called
    BY <1>2 DEF PersistApproval, world
  <2>2. /\ approval \in [Action -> [status : ApprovalStatus \cup {"NONE"}, policy : Policy \cup {NoPolicy}]]
        /\ w.action \in Action
    BY DEF DocumentInv, CompensationTypeOK
  <2>3. \A a \in Action : approval'[a].status = "APPROVED" => <<a, approval'[a].policy>> \in granted'
    BY <2>1, <2>2 DEF ApprovalInv
  <2>4. QED
    BY <2>1, <2>3 DEF ApprovalInv
<1>3. QED
  BY <1>1, <1>2, ExecutionKeepsApprovals
  DEF Next, Surroundings, Reserve, RequestApproval, DecideApproval, FetchUnknown,
      ReconcileUnknown, MoveOn, vars, approvals, world

-----------------------------------------------------------------------------
(* Targets: what was compensated stays compensated, but for tickets.        *)
LEMMA TargetInit == Init => TargetInv
  BY CompensationAssumption DEF Init, TargetInv

LEMMA CompensatedStays ==
  ASSUME DocumentInv, [Next]_vars, NEW x \in Target, ~Ticket(x), target[x] = "compensated"
  PROVE  target'[x] = "compensated"
<1>1. target \in [Target -> {"eligible", "moved", "compensated"}]
  BY DEF DocumentInv, CompensationTypeOK
<1>2. ASSUME NEW i \in Invocation, Call(i)
      PROVE  target'[x] = "compensated"
  BY <1>1, <1>2 DEF Call
<1>3. ASSUME NEW y \in Target, MoveOn(y)
      PROVE  target'[x] = "compensated"
  BY <1>1, <1>3 DEF MoveOn
<1>4. CASE UNCHANGED target
  BY <1>4
<1>5. QED
  BY <1>2, <1>3, <1>4
  DEF Next, Surroundings, vars, world, Reserve, RequestApproval, DecideApproval, PersistApproval,
      ExecuteStep, Fetch, CheckApproval, Observe, CheckDependency, Commit,
      Save, Abort, FetchUnknown, ReconcileUnknown

LEMMA ExecutionKeepsTargets ==
  ASSUME DocumentInv, TargetInv, NEW i \in Invocation, ExecuteStep(i) \/ Abort(i)
  PROVE  TargetInv'
<1> USE CompensationAssumption DEF TargetInv, Goto
<1>1. /\ state \in [Action -> ExecutionState \cup {"ABSENT"}]
      /\ pc \in [Invocation -> Stage] /\ called \subseteq Invocation
      /\ ActionOf[i] \in Action
      /\ \A j \in Invocation : Requires[ActionOf[j]] \in (Action \ Unguarded) \cup {NoAction}
  BY DEF DocumentInv, CompensationTypeOK
<1>2. \A a \in Action \ Unguarded :
        target[TargetOf[a]] = "compensated" => target'[TargetOf[a]] = "compensated"
  BY CompensatedStays DEF Next, Surroundings, Ticket
<1>3. CASE Fetch(i)
  <2>1. PICK stage \in {"done", "REJECTED", "approval", "observe"} : Goto(i, stage)
    BY <1>3 DEF Fetch, Proceed
  <2>2. UNCHANGED <<state, target, called>>
    BY <1>3 DEF Fetch, documents, world
  <2>3. QED
    BY <1>1, <2>1, <2>2
<1>4. CASE CheckApproval(i)
  <2>1. PICK stage \in {"done", "REJECTED", "observe"} : Goto(i, stage)
    BY <1>4 DEF CheckApproval
  <2>2. UNCHANGED <<state, target, called>>
    BY <1>4 DEF CheckApproval, documents, world
  <2>3. QED
    BY <1>1, <2>1, <2>2
<1>5. CASE Observe(i)
  BY <1>1, <1>5 DEF Observe, documents, world
<1>6. CASE CheckDependency(i)
  BY <1>1, <1>6 DEF CheckDependency, documents, world
<1>7. CASE Commit(i)
  BY <1>1, <1>7 DEF Commit, world
<1>8. CASE Call(i)
  <2>1. PICK stage \in {"CONFIRMED", "OUTCOME_UNKNOWN", "FAILED_AUTHORITATIVELY", "done"} :
          /\ Goto(i, stage)
          /\ stage = "CONFIRMED" => target' = [target EXCEPT ![TargetOf[ActionOf[i]]] = "compensated"]
    BY <1>8 DEF Call
  <2>2. state' = state /\ called' = called \cup {i} /\ pc[i] = "call"
    BY <1>8 DEF Call, documents
  <2>3. target \in [Target -> {"eligible", "moved", "compensated"}]
    BY DEF DocumentInv, CompensationTypeOK
  <2>4. QED
    BY <1>1, <1>2, <2>1, <2>2, <2>3
<1>9. CASE Save(i)
  BY <1>1, <1>9 DEF Save, world
<1>10. CASE Abort(i)
  BY <1>1, <1>10 DEF Abort, documents, world
<1>11. QED
  BY <1>3, <1>4, <1>5, <1>6, <1>7, <1>8, <1>9, <1>10 DEF ExecuteStep

LEMMA TargetStep == DocumentInv /\ TargetInv /\ [Next]_vars => TargetInv'
<1> SUFFICES ASSUME DocumentInv, TargetInv, [Next]_vars
             PROVE  TargetInv'
  OBVIOUS
<1>1. \A a \in Action \ Unguarded :
        target[TargetOf[a]] = "compensated" => target'[TargetOf[a]] = "compensated"
  BY CompensatedStays, CompensationAssumption DEF Ticket
<1>2. /\ state \in [Action -> ExecutionState \cup {"ABSENT"}]
      /\ \A j \in Invocation : ActionOf[j] \in Action
      /\ \A j \in Invocation : Requires[ActionOf[j]] \in (Action \ Unguarded) \cup {NoAction}
      /\ \A b \in Action : TargetOf[b] \in Target
      /\ called \subseteq Invocation
  BY CompensationAssumption DEF DocumentInv, CompensationTypeOK
<1>3. CASE UNCHANGED <<state, pc, called>>
  BY <1>1, <1>2, <1>3 DEF TargetInv
<1>4. ASSUME NEW p \in Plan, NEW a \in Action, Reserve(p, a)
      PROVE  TargetInv'
  BY <1>2, <1>4 DEF Reserve, TargetInv, world
<1>5. ASSUME NEW a \in Action, ReconcileUnknown(a)
      PROVE  TargetInv'
  BY <1>2, <1>5 DEF ReconcileUnknown, TargetInv, world
<1>6. QED
  BY <1>3, <1>4, <1>5, ExecutionKeepsTargets
  DEF Next, Surroundings, RequestApproval, DecideApproval, PersistApproval, FetchUnknown,
      MoveOn, vars, approvals, documents, world

-----------------------------------------------------------------------------
CompensationInv == DocumentInv /\ ApprovalInv /\ TargetInv

THEOREM CompensationInvariance == Spec => []CompensationInv
<1>1. Init => CompensationInv
  BY DocumentInit, ApprovalInit, TargetInit DEF CompensationInv
<1>2. CompensationInv /\ [Next]_vars => CompensationInv'
  BY DocumentStep, ApprovalStep, TargetStep DEF CompensationInv
<1>3. QED
  BY <1>1, <1>2, PTL DEF Spec

(* What took effect shows at its target, where only a ticket is written     *)
(* twice.                                                                   *)
EffectInv ==
  /\ \A i \in performed : ActionOf[i] \notin Unguarded => target[TargetOf[ActionOf[i]]] = "compensated"
  /\ OneEffectPerTarget

LEMMA EffectStep == DocumentInv /\ EffectInv /\ [Next]_vars => EffectInv'
<1> SUFFICES ASSUME DocumentInv, EffectInv, [Next]_vars
             PROVE  EffectInv'
  OBVIOUS
<1>1. /\ \A j \in Invocation : ActionOf[j] \in Action /\ TargetOf[ActionOf[j]] \in Target
      /\ performed \subseteq Invocation
      /\ target \in [Target -> {"eligible", "moved", "compensated"}]
  BY CompensationAssumption DEF DocumentInv, CompensationTypeOK
<1>2. \A a \in Action \ Unguarded :
        target[TargetOf[a]] = "compensated" => target'[TargetOf[a]] = "compensated"
  BY CompensatedStays, CompensationAssumption DEF Ticket
<1>3. CASE UNCHANGED performed
  BY <1>1, <1>2, <1>3 DEF EffectInv, OneEffectPerTarget
<1>4. ASSUME NEW i \in Invocation, Call(i), performed' # performed
      PROVE  EffectInv'
  <2> DEFINE x == TargetOf[ActionOf[i]]
  <2>1. /\ performed' = performed \cup {i}
        /\ target' = [target EXCEPT ![x] = "compensated"]
        /\ target[x] = "eligible" \/ ActionOf[i] \in Unguarded
    BY <1>4 DEF Call
  <2>2. \A j \in performed : ActionOf[j] \notin Unguarded => target[TargetOf[ActionOf[j]]] = "compensated"
    BY DEF EffectInv
  <2>3. \A j \in performed' : ActionOf[j] \notin Unguarded => target'[TargetOf[ActionOf[j]]] = "compensated"
    BY <1>1, <1>2, <2>1, <2>2, CompensationAssumption
  <2>4. \/ ActionOf[i] \in Unguarded
        \/ \A j \in performed : ActionOf[j] \notin Unguarded => TargetOf[ActionOf[j]] # x
    BY <2>1, <2>2
  <2>5. OneEffectPerTarget'
    BY <2>1, <2>4 DEF EffectInv, OneEffectPerTarget
  <2>6. QED
    BY <2>3, <2>5 DEF EffectInv
<1>5. QED
  BY <1>3, <1>4
  DEF Next, Surroundings, vars, world, Reserve, RequestApproval, DecideApproval, PersistApproval,
      ExecuteStep, Fetch, CheckApproval, Observe, CheckDependency, Commit,
      Save, Abort, FetchUnknown, ReconcileUnknown, MoveOn

(* A target is compensated once, by whatever plans and executors.           *)
THEOREM EffectsAreSingle == Spec => []OneEffectPerTarget
<1>1. Init => EffectInv
  BY DEF Init, EffectInv, OneEffectPerTarget
<1>2. EffectInv => OneEffectPerTarget
  BY DEF EffectInv
<1>3. QED
  BY <1>1, <1>2, EffectStep, CompensationInvariance, PTL DEF Spec, CompensationInv

(* No compensation is called without the approval its tier asks for, under  *)
(* the policy version its plan was validated under.                         *)
THEOREM CallsAreApproved == Spec => []ApprovedCallsOnly
<1>1. CompensationInv => ApprovedCallsOnly
  BY DEF CompensationInv, DocumentInv, CompensationTypeOK, ApprovalInv, ApprovedCallsOnly
<1>2. QED
  BY <1>1, CompensationInvariance, PTL

(* A dependent compensation is called only once the one it depends on was   *)
(* performed.                                                               *)
THEOREM ReleasesFollowCancellations == Spec => []ReleaseAfterCancel
<1>1. CompensationInv => ReleaseAfterCancel
  BY DEF CompensationInv, DocumentInv, CompensationTypeOK, TargetInv, ReleaseAfterCancel
<1>2. QED
  BY <1>1, CompensationInvariance, PTL

(* An execution is CONFIRMED only if its target was compensated, and but for *)
(* a ticket it still is.                                                    *)
THEOREM ConfirmationsAreTrue == Spec => []ConfirmedIsCompensated
<1>1. CompensationInv => ConfirmedIsCompensated
  BY DEF CompensationInv, TargetInv, ConfirmedIsCompensated
<1>2. QED
  BY <1>1, CompensationInvariance, PTL

-----------------------------------------------------------------------------
(* An action no two invocations have worked on at a time: whoever works on  *)
(* it knows its document, so that the call is made once and what was called *)
(* is never written off.                                                    *)
BeforeCommit == {"approval", "observe", "dependency", "commit", "REJECTED", "PRECONDITION_FAILED"}

AfterCall == {"CONFIRMED", "OUTCOME_UNKNOWN", "FAILED_AUTHORITATIVELY"}

AloneInv(a) ==
  /\ \A i, j \in InFlight : ActionOf[i] = a /\ ActionOf[j] = a => i = j
  /\ \A i, j \in called : ActionOf[i] = a /\ ActionOf[j] = a => i = j
  /\ \A i \in called : ActionOf[i] = a => state[a] \in Deferring \cup Refusing
  /\ \A i \in Invocation : ActionOf[i] = a =>
       /\ pc[i] \in BeforeCommit => state[a] \in {"AWAITING_APPROVAL", "AUTHORIZED"}
       /\ pc[i] = "call" => state[a] = "EXECUTING" /\ \A j \in called : ActionOf[j] # a
       /\ pc[i] \in AfterCall => state[a] = "EXECUTING"
       /\ pc[i] = "FAILED_AUTHORITATIVELY" => \A j \in performed : ActionOf[j] # a
  /\ \A i \in performed : ActionOf[i] = a => state[a] \in Deferring
  /\ a \in reconciling => state[a] \in {"OUTCOME_UNKNOWN", "CONFIRMED"}

SerialInv == \A a \in Action \ overlapped : AloneInv(a)

LEMMA SerialInit == Init => SerialInv
  BY DEF Init, SerialInv, AloneInv, InFlight, BeforeCommit, AfterCall

(* What the invariant says of an action only depends on what is known of    *)
(* that action.                                                             *)
Undisturbed(a) ==
  /\ state'[a] = state[a]
  /\ a \in reconciling' <=> a \in reconciling
  /\ called' \subseteq Invocation /\ performed' \subseteq called'
  /\ \A i \in Invocation : ActionOf[i] = a =>
       /\ pc'[i] = pc[i]
       /\ i \in called' <=> i \in called
       /\ i \in performed' <=> i \in performed

LEMMA UndisturbedKeeps ==
  ASSUME NEW a \in Action, AloneInv(a), Undisturbed(a)
  PROVE  AloneInv(a)'
  BY DEF AloneInv, Undisturbed, InFlight

(* The steps of an invocation on its own action.                            *)
LEMMA ExecutionKeepsAlone ==
  ASSUME DocumentInv, NEW i \in Invocation, ExecuteStep(i) \/ Abort(i),
         ActionOf[i] \notin overlapped', AloneInv(ActionOf[i])
  PROVE  AloneInv(ActionOf[i])'
<1> DEFINE a == ActionOf[i]
<1>1. /\ a \in Action /\ state \in [Action -> ExecutionState \cup {"ABSENT"}]
      /\ pc \in [Invocation -> Stage] /\ called \subseteq Invocation
      /\ performed \subseteq called
  BY CompensationAssumption DEF DocumentInv, CompensationTypeOK
<1> HIDE DEF a
<1>2. ASSUME NEW stage, Goto(i, stage), UNCHANGED <<state, reconciling, called, performed>>,
             \/ stage = "done"
             \/ pc[i] \in BeforeCommit /\ stage \in BeforeCommit
             \/ /\ \A j \in InFlight : ActionOf[j] # a
                /\ state[a] \in {"AWAITING_APPROVAL", "AUTHORIZED"} /\ stage \in BeforeCommit
      PROVE  AloneInv(a)'
  <2>1. /\ pc'[i] = stage /\ \A j \in Invocation \ {i} : pc'[j] = pc[j]
    BY <1>1, <1>2 DEF Goto
  <2>2. AloneInv(a) /\ ActionOf[i] = a
    BY DEF a
  <2>3. \A j, k \in InFlight' : ActionOf[j] = a /\ ActionOf[k] = a => j = k
    BY <1>2, <2>1, <2>2 DEF AloneInv, InFlight, BeforeCommit
  <2>4. \A j \in Invocation : ActionOf[j] = a =>
          /\ pc'[j] \in BeforeCommit => state[a] \in {"AWAITING_APPROVAL", "AUTHORIZED"}
          /\ pc'[j] \in {"call"} \cup AfterCall => pc'[j] = pc[j]
    BY <1>2, <2>1, <2>2 DEF AloneInv, BeforeCommit, AfterCall
  <2>5. QED
    BY <1>2, <2>2, <2>3, <2>4 DEF AloneInv, BeforeCommit, AfterCall
<1>3. CASE Fetch(i)
  <2>1. CASE Goto(i, "done")
    BY <1>2, <1>3, <2>1 DEF Fetch, documents, a
  <2>2. CASE ~Goto(i, "done")
    <3>1. state[a] \in {"AWAITING_APPROVAL", "AUTHORIZED"} /\ Proceed(i)
      BY <1>3, <2>2 DEF Fetch, a
    <3>2. \A j \in InFlight : ActionOf[j] # a
      BY <3>1 DEF Proceed, a
    <3>3. PICK stage \in {"REJECTED", "approval", "observe"} : Goto(i, stage)
      BY <3>1 DEF Proceed
    <3>4. UNCHANGED <<state, reconciling, called, performed>>
      BY <1>3 DEF Fetch, documents
    <3>5. QED
      BY <1>2, <3>1, <3>2, <3>3, <3>4 DEF BeforeCommit, a
  <2>3. QED
    BY <2>1, <2>2
<1>4. CASE CheckApproval(i) \/ Observe(i) \/ CheckDependency(i)
  <2>1. PICK stage \in {"done"} \cup BeforeCommit : Goto(i, stage)
    BY <1>4 DEF CheckApproval, Observe, CheckDependency, BeforeCommit
  <2>2. pc[i] \in BeforeCommit /\ UNCHANGED <<state, reconciling, called, performed>>
    BY <1>4 DEF CheckApproval, Observe, CheckDependency, BeforeCommit, documents, world
  <2>3. QED
    BY <1>2, <2>1, <2>2 DEF a
<1>5. CASE Commit(i)
  <2>1. /\ state'[a] = "EXECUTING" /\ pc'[i] = "call" /\ \A j \in Invocation \ {i} : pc'[j] = pc[j]
        /\ pc[i] = "commit" /\ UNCHANGED <<reconciling, called, performed>>
    BY <1>1, <1>5 DEF Commit, Goto, world, a
  <2>2. state[a] \in {"AWAITING_APPROVAL", "AUTHORIZED"}
    BY <2>1 DEF AloneInv, BeforeCommit, a
  <2>3. /\ \A j \in called : ActionOf[j] # a
        /\ a \notin reconciling
    BY <2>2 DEF AloneInv, Deferring, Refusing, a
  <2>4. \A j \in Invocation \ {i} : ActionOf[j] = a => pc[j] \in {"start", "done"}
    BY <2>1 DEF AloneInv, InFlight, a
  <2>5. QED
    BY <1>1, <2>1, <2>3, <2>4 DEF AloneInv, InFlight, BeforeCommit, AfterCall, a
<1>6. CASE Call(i)
  <2>1. PICK stage \in {"done"} \cup AfterCall :
          /\ Goto(i, stage)
          /\ stage = "FAILED_AUTHORITATIVELY" => UNCHANGED performed
          /\ performed' \subseteq performed \cup {i}
    BY <1>6 DEF Call, AfterCall
  <2>2. /\ pc'[i] = stage /\ \A j \in Invocation \ {i} : pc'[j] = pc[j]
        /\ pc[i] = "call" /\ called' = called \cup {i} /\ UNCHANGED <<state, reconciling>>
    BY <1>1, <1>6, <2>1 DEF Call, Goto, documents
  <2>3. /\ state[a] = "EXECUTING"
        /\ \A j \in called : ActionOf[j] # a
    BY <2>2 DEF AloneInv, a
  <2>4. \A j \in Invocation \ {i} : ActionOf[j] = a => pc[j] \in {"start", "done"}
    BY <2>2 DEF AloneInv, InFlight, a
  <2>5. QED
    BY <1>1, <2>1, <2>2, <2>3, <2>4
    DEF AloneInv, InFlight, BeforeCommit, AfterCall, Deferring, Refusing, a
<1>7. CASE Save(i)
  <2>1. /\ pc[i] \in Outcome /\ state'[a] = pc[i] /\ pc'[i] = "done"
        /\ \A j \in Invocation \ {i} : pc'[j] = pc[j]
        /\ UNCHANGED <<reconciling, called, performed>>
    BY <1>1, <1>7 DEF Save, Goto, world, a
  <2>2. /\ a \notin reconciling
        /\ pc[i] \in Refusing => \A j \in performed : ActionOf[j] # a
    BY <2>1 DEF AloneInv, BeforeCommit, AfterCall, Outcome, Deferring, Refusing, a
  <2>3. \A j \in Invocation \ {i} : ActionOf[j] = a => pc[j] \in {"start", "done"}
    BY <2>1 DEF AloneInv, InFlight, Outcome, Refusing, a
  <2>4. QED
    BY <1>1, <2>1, <2>2, <2>3
    DEF AloneInv, InFlight, BeforeCommit, AfterCall, Outcome, Deferring, Refusing, a
<1>8. CASE Abort(i)
  BY <1>2, <1>8 DEF Abort, documents, world, a
<1>9. QED
  BY <1>3, <1>4, <1>5, <1>6, <1>7, <1>8 DEF ExecuteStep, a

(* A step of an invocation leaves the other actions alone.                  *)
LEMMA ExecutionDisturbsItsOwn ==
  ASSUME DocumentInv, NEW i \in Invocation, ExecuteStep(i) \/ Abort(i),
         NEW a \in Action, a # ActionOf[i]
  PROVE  Undisturbed(a)
<1>1. /\ ActionOf[i] \in Action /\ state \in [Action -> ExecutionState \cup {"ABSENT"}]
      /\ pc \in [Invocation -> Stage] /\ called \subseteq Invocation
      /\ performed \subseteq called
  BY CompensationAssumption DEF DocumentInv, CompensationTypeOK
<1>2. \E stage : Goto(i, stage)
  <2>1. CASE Fetch(i)
    BY <2>1 DEF Fetch, Proceed
  <2>2. CASE CheckApproval(i) \/ Observe(i) \/ CheckDependency(i) \/ Commit(i) \/ Save(i) \/ Abort(i)
    BY <2>2 DEF CheckApproval, Observe, CheckDependency, Commit, Save, Abort
  <2>3. CASE Call(i)
    BY <2>3 DEF Call
  <2>4. QED
    BY <2>1, <2>2, <2>3 DEF ExecuteStep
<1>3. \A j \in Invocation \ {i} : pc'[j] = pc[j]
  BY <1>1, <1>2 DEF Goto
<1>4. /\ state' = state \/ \E s : state' = [state EXCEPT ![ActionOf[i]] = s]
      /\ reconciling' = reconciling
  BY DEF ExecuteStep, Fetch, CheckApproval, Observe, CheckDependency, Commit, Call, Save,
         Abort, documents
<1>5. /\ performed' = performed \/ performed' = performed \cup {i}
      /\ called' = called \/ called' = called \cup {i}
      /\ performed' # performed => called' = called \cup {i}
  BY DEF ExecuteStep, Fetch, CheckApproval, Observe, CheckDependency, Commit, Call, Save,
         Abort, world
<1>6. QED
  BY <1>1, <1>3, <1>4, <1>5 DEF Undisturbed

(* Reservations and reconcilers.                                            *)
LEMMA SurroundingsKeepAlone ==
  ASSUME DocumentInv, NEW a \in Action, AloneInv(a), NEW b \in Action,
         \/ \E p \in Plan : Reserve(p, b)
         \/ FetchUnknown(b) \/ ReconcileUnknown(b)
  PROVE  AloneInv(a)'
<1>1. /\ state \in [Action -> ExecutionState \cup {"ABSENT"}] /\ called \subseteq Invocation
      /\ performed \subseteq called
  BY DEF DocumentInv, CompensationTypeOK
<1>2. CASE a # b
  <2>1. Undisturbed(a)
    BY <1>1, <1>2 DEF Undisturbed, Reserve, FetchUnknown, ReconcileUnknown, documents, world
  <2>2. QED
    BY <2>1, UndisturbedKeeps
<1> USE DEF AloneInv, InFlight, BeforeCommit, AfterCall, Deferring, Refusing
<1>3. ASSUME a = b, NEW p \in Plan, Reserve(p, b)
      PROVE  AloneInv(a)'
  <2>1. /\ state[a] = "ABSENT" /\ state'[a] \in {"AWAITING_APPROVAL", "AUTHORIZED"}
        /\ UNCHANGED <<pc, reconciling, called, performed>>
    BY <1>1, <1>3 DEF Reserve, world
  <2>2. QED
    BY <1>1, <2>1
<1>4. CASE a = b /\ FetchUnknown(b)
  BY <1>1, <1>4 DEF FetchUnknown, documents, world
<1>5. CASE a = b /\ ReconcileUnknown(b)
  <2>1. /\ state[a] \in {"OUTCOME_UNKNOWN", "CONFIRMED"}
        /\ state'[a] \in {"OUTCOME_UNKNOWN", "CONFIRMED"}
        /\ reconciling' \subseteq reconciling /\ UNCHANGED <<pc, called, performed>>
    BY <1>1, <1>5 DEF ReconcileUnknown, world
  <2>2. QED
    BY <1>1, <2>1
<1>6. QED
  BY <1>2, <1>3, <1>4, <1>5

LEMMA SerialStep == DocumentInv /\ SerialInv /\ [Next]_vars => SerialInv'
<1> SUFFICES ASSUME DocumentInv, SerialInv, [Next]_vars,
                    NEW a \in Action, a \notin overlapped'
             PROVE  AloneInv(a)'
  BY DEF SerialInv
<1>1. called \subseteq Invocation /\ performed \subseteq called
  BY DEF DocumentInv, CompensationTypeOK
<1>2. overlapped \subseteq overlapped'
  BY DEF Next, Surroundings, vars, approvals, world, Reserve, RequestApproval, DecideApproval,
         PersistApproval, ExecuteStep, Fetch, Proceed, CheckApproval, Observe,
         CheckDependency, Commit, Call, Save, Abort, FetchUnknown, ReconcileUnknown, MoveOn
<1>3. AloneInv(a)
  BY <1>2 DEF SerialInv
<1>4. CASE UNCHANGED <<documents, reconciling, pc, called, performed>>
  <2>1. Undisturbed(a)
    BY <1>1, <1>4 DEF Undisturbed, documents
  <2>2. QED
    BY <1>3, <2>1, UndisturbedKeeps
<1>5. ASSUME NEW i \in Invocation, ExecuteStep(i) \/ Abort(i)
      PROVE  AloneInv(a)'
  <2>1. CASE a = ActionOf[i]
    BY <1>3, <1>5, <2>1, ExecutionKeepsAlone
  <2>2. CASE a # ActionOf[i]
    BY <1>3, <1>5, <2>2, ExecutionDisturbsItsOwn, UndisturbedKeeps
  <2>3. QED
    BY <2>1, <2>2
<1>6. QED
  BY <1>3, <1>4, <1>5, SurroundingsKeepAlone
  DEF Next, Surroundings, RequestApproval, DecideApproval, PersistApproval, MoveOn, vars, world

THEOREM SerialInvariance == Spec => [](DocumentInv /\ SerialInv)
  BY DocumentInit, DocumentStep, SerialInit, SerialStep, PTL DEF Spec

(* Whatever is lost or retried, an action is called once unless executors   *)
(* of it overlap.                                                           *)
THEOREM OneCallEach == Spec => []OneCallUnlessOverlapped
<1>1. DocumentInv /\ SerialInv => OneCallUnlessOverlapped
  BY CompensationAssumption
  DEF DocumentInv, CompensationTypeOK, SerialInv, AloneInv, OneCallUnlessOverlapped
<1>2. QED
  BY <1>1, SerialInvariance, PTL

(* A compensation that took place is on record as one that did or may have. *)
THEOREM CompensatedOnRecord == Spec => []CompensatedIsNotForgotten
<1>1. DocumentInv /\ SerialInv => CompensatedIsNotForgotten
  BY CompensationAssumption
  DEF DocumentInv, CompensationTypeOK, SerialInv, AloneInv, CompensatedIsNotForgotten
<1>2. QED
  BY <1>1, SerialInvariance, PTL

(* An execution document in a final state is not written again.             *)
THEOREM FinalAnswersStandFast == Spec => FinalAnswersStand
<1> DEFINE A == \A a \in Action \ overlapped :
                  state[a] \in Refusing \cup {"CONFIRMED"} => state'[a] = state[a]
<1>1. DocumentInv /\ SerialInv /\ [Next]_vars => [A]_state
  <2> SUFFICES ASSUME DocumentInv, SerialInv, Next, NEW a \in Action \ overlapped,
                      state[a] \in Refusing \cup {"CONFIRMED"}
               PROVE  state'[a] = state[a]
    BY DEF vars, documents
  <2>1. AloneInv(a) /\ state \in [Action -> ExecutionState \cup {"ABSENT"}]
    BY DEF SerialInv, DocumentInv, CompensationTypeOK
  <2>2. ASSUME NEW i \in Invocation, ExecuteStep(i) \/ Abort(i)
        PROVE  state'[a] = state[a]
    <3>1. CASE ActionOf[i] # a
      BY <2>2, <3>1, ExecutionDisturbsItsOwn DEF Undisturbed
    <3>2. CASE ActionOf[i] = a /\ (Commit(i) \/ Save(i))
      BY <2>1, <3>2 DEF Commit, Save, AloneInv, BeforeCommit, AfterCall, Outcome, Refusing
    <3>3. CASE ~Commit(i) /\ ~Save(i)
      BY <2>2, <3>3
      DEF ExecuteStep, Fetch, CheckApproval, Observe, CheckDependency, Call, Abort, documents
    <3>4. QED
      BY <3>1, <3>2, <3>3
  <2>3. ASSUME NEW p \in Plan, NEW b \in Action, Reserve(p, b)
        PROVE  state'[a] = state[a]
    BY <2>1, <2>3 DEF Reserve, Refusing
  <2>4. ASSUME NEW b \in Action, ReconcileUnknown(b)
        PROVE  state'[a] = state[a]
    BY <2>1, <2>4 DEF ReconcileUnknown, AloneInv, Refusing
  <2>5. QED
    BY <2>2, <2>3, <2>4
    DEF Next, Surroundings, RequestApproval, DecideApproval, PersistApproval, FetchUnknown, MoveOn, documents
<1>2. QED
  BY <1>1, SerialInvariance, PTL DEF Spec, FinalAnswersStand

-----------------------------------------------------------------------------
(* The plans.  Whatever a resolver proposes and the validator lets through,  *)
(* executors and approvals behave as Compensation says: every theorem above  *)
(* is one about the plans of a resolver.                                    *)

(* Only plans are let through, and planned ones are the only ones that      *)
(* reserve, so a step of the planned executor is a step of the executor.    *)
PlannedInv == planned \subseteq PlanIds

LEMMA PlanningStep ==
  ASSUME PlannedInv, [PlanningNext]_planningVars
  PROVE  PlannedInv' /\ [Next]_vars
<1>1. CASE UNCHANGED planningVars
  BY <1>1 DEF planningVars, planning, PlannedInv
<1>2. CASE BuildContext
  BY <1>2 DEF BuildContext, PlannedInv
<1>3. CASE \E c \in Candidate, policy \in Policy, open \in SUBSET Conflict : Validate(c, policy, open)
  <2>1. PICK c \in Candidate, policy \in Policy :
          planned' = planned \cup {PlanId(c, policy)} /\ UNCHANGED vars
    BY <1>3 DEF Validate
  <2>2. PlanId(c, policy) \in PlanIds
    BY DEF PlanIds
  <2>3. QED
    BY <2>1, <2>2 DEF PlannedInv
<1>4. ASSUME \/ \E p \in planned, a \in Action : Reserve(p, a) \/ RequestApproval(p, a)
             \/ \E i \in Invocation : PlanOf[i] \in planned /\ (ExecuteStep(i) \/ Abort(i))
             \/ Surroundings,
             UNCHANGED planning
      PROVE  PlannedInv' /\ Next
  BY <1>4, PlannedCompensations DEF PlannedInv, planning, Next
<1>5. QED
  BY <1>1, <1>2, <1>3, <1>4 DEF PlanningNext

(* Planning restricts compensation: from its first state on, every step is  *)
(* one that Compensation allows, or none of its business.                   *)
THEOREM PlanningImplementsCompensation == PlanningSpec => Spec
<1>1. PlanningInit => Init /\ PlannedInv
  BY DEF PlanningInit, PlannedInv
<1>2. PlannedInv /\ [PlanningNext]_planningVars => PlannedInv' /\ [Next]_vars
  BY PlanningStep
<1>3. QED
  BY <1>1, <1>2, PTL DEF PlanningSpec, Spec

(* Whatever the resolver proposes, what takes a human's approval is called  *)
(* only with it and what is left to humans is never called.                 *)
THEOREM PlannedCallsAreApproved == PlanningSpec => []ApprovedCallsOnly
  BY PlanningImplementsCompensation, CallsAreApproved, PTL

(* However many plans lead to a target, it is compensated once.             *)
THEOREM PlannedEffectsAreSingle == PlanningSpec => []OneEffectPerTarget
  BY PlanningImplementsCompensation, EffectsAreSingle, PTL
=============================================================================
