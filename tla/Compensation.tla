----------------------------- MODULE Compensation -----------------------------
(***************************************************************************)
(* The compensation executor of one pact: validated plans reserve an        *)
(* execution document for each of their actions, humans approve some of     *)
(* them, and executors carry them out against external systems whose state  *)
(* moves on by itself.  Only reserve() is a transaction: every other        *)
(* document is read, and written later whatever it has become meanwhile, so *)
(* every read and every write is an action of its own.                      *)
(*                                                                          *)
(* Abstracted: the observed states, evidence ids, timestamps and economic   *)
(* categories an execution carries; the documents of plans and of approval  *)
(* decisions, whose content nothing reads.                                  *)
(***************************************************************************)
EXTENDS Naturals

CONSTANTS
  Action,      \* semantic operation keys of the bound compensations
  Target,      \* external objects to compensate
  TargetOf,    \* target of an action; other conflicts, other actions on it
  Plan,        \* validated plans; plans of the same conflicts share actions
  Policy,      \* policy versions plans are validated under
  Invocation,  \* calls of execute(plan, action)
  ActionsOf,   \* actions of a plan
  PolicyOf,    \* policy_version of a plan
  TierOf,      \* authority tier the registry gives an action
  Ordinal,     \* mandatory order of an action in its plan
  Requires,    \* the carrier cancellation an action depends on, or NoAction
  Unguarded,   \* actions whose service performs them in every state (jira)
  ActionOf,    \* action of an invocation
  PlanOf,      \* plan of an invocation
  NoAction,
  NoPlan,
  NoPolicy

ExecutionState == {"AWAITING_APPROVAL", "AUTHORIZED", "EXECUTING", "CONFIRMED",
                   "FAILED_AUTHORITATIVELY", "OUTCOME_UNKNOWN",
                   "PRECONDITION_FAILED", "REJECTED"}

AuthorityTier == {"AUTOMATIC", "HUMAN_APPROVAL_REQUIRED", "HUMAN_REVIEW_ONLY"}

(* States a retry is answered with DEFER in, and states it is REJECTED in.  *)
Deferring == {"CONFIRMED", "OUTCOME_UNKNOWN", "EXECUTING"}

Refusing == {"PRECONDITION_FAILED", "FAILED_AUTHORITATIVELY", "REJECTED"}

ApprovalStatus == {"PENDING", "APPROVED", "REJECTED"}

ASSUME CompensationAssumption ==
  /\ ActionsOf \in [Plan -> SUBSET Action]
  /\ PolicyOf \in [Plan -> Policy]
  /\ TargetOf \in [Action -> Target]
  /\ TierOf \in [Action -> AuthorityTier]
  /\ Ordinal \in [Action -> Nat]
  /\ Requires \in [Action -> (Action \ Unguarded) \cup {NoAction}]
  /\ NoAction \notin Action
  /\ Unguarded \subseteq Action
  /\ ActionOf \in [Invocation -> Action]
  /\ PlanOf \in [Invocation -> Plan]
  /\ \A i \in Invocation : ActionOf[i] \in ActionsOf[PlanOf[i]]
  /\ NoPlan \notin Plan
  /\ NoPolicy \notin Policy

VARIABLES
  state,       \* state of each execution document, "ABSENT" when there is none
  planOf,      \* plan_id of each execution document: the plan that reserved it
  approval,    \* approval request of each execution: status and policy_version
  persisting,  \* approvals read and about to be written
  reconciling, \* executions a reconciler read as OUTCOME_UNKNOWN
  pc,          \* where each invocation stands, or the state it is about to write
  target,      \* "eligible", "moved" on by itself, or "compensated"
  called,      \* invocations that made their external call
  performed,   \* history: invocations whose call took effect
  granted,     \* history: approvals ever written as APPROVED, by policy version
  overlapped   \* history: actions two invocations have worked on at a time

documents == <<state, planOf>>
approvals == <<approval, persisting, granted>>
world == <<target, called, performed, overlapped>>
vars == <<documents, approvals, reconciling, pc, world>>

Outcome == {"CONFIRMED", "OUTCOME_UNKNOWN"} \cup Refusing

Stage == {"start", "approval", "observe", "dependency", "commit", "call", "done"} \cup Outcome

InFlight == {i \in Invocation : pc[i] \notin {"start", "done"}}

Goto(i, stage) == pc' = [pc EXCEPT ![i] = stage]

Init ==
  /\ state = [a \in Action |-> "ABSENT"]
  /\ planOf = [a \in Action |-> NoPlan]
  /\ approval = [a \in Action |-> [status |-> "NONE", policy |-> NoPolicy]]
  /\ persisting = {}
  /\ reconciling = {}
  /\ pc = [i \in Invocation |-> "start"]
  /\ target = [x \in Target |-> "eligible"]
  /\ called = {}
  /\ performed = {}
  /\ granted = {}
  /\ overlapped = {}

-----------------------------------------------------------------------------
(* prepare: the actions of a plan are reserved one transaction each, in     *)
(* their mandatory order.  The document of an earlier plan is left alone.   *)
Reserve(p, a) ==
  /\ a \in ActionsOf[p]
  /\ state[a] = "ABSENT"
  /\ \A b \in ActionsOf[p] : Ordinal[b] < Ordinal[a] => state[b] # "ABSENT"
  /\ state' = [state EXCEPT ![a] = IF TierOf[a] = "HUMAN_APPROVAL_REQUIRED"
                                   THEN "AWAITING_APPROVAL" ELSE "AUTHORIZED"]
  /\ planOf' = [planOf EXCEPT ![a] = p]
  /\ UNCHANGED <<approvals, reconciling, pc, world>>

(* request_approval reads that there is no approval yet ...                 *)
RequestApproval(p, a) ==
  /\ a \in ActionsOf[p]
  /\ state[a] # "ABSENT"
  /\ TierOf[a] = "HUMAN_APPROVAL_REQUIRED"
  /\ approval[a].status = "NONE"
  /\ persisting' = persisting \cup
       {[action |-> a, status |-> "PENDING", policy |-> PolicyOf[p]]}
  /\ UNCHANGED <<documents, approval, granted, reconciling, pc, world>>

(* ... and decide_approval that there is a pending one.                     *)
DecideApproval(a, verdict) ==
  /\ verdict \in {"APPROVED", "REJECTED"}
  /\ approval[a].status = "PENDING"
  /\ persisting' = persisting \cup
       {[action |-> a, status |-> verdict, policy |-> approval[a].policy]}
  /\ UNCHANGED <<documents, approval, granted, reconciling, pc, world>>

(* persist_approval writes what was made of what was read.                  *)
PersistApproval(w) ==
  /\ w \in persisting
  /\ persisting' = persisting \ {w}
  /\ approval' = [approval EXCEPT ![w.action] = [status |-> w.status, policy |-> w.policy]]
  /\ granted' = IF w.status = "APPROVED" THEN granted \cup {<<w.action, w.policy>>} ELSE granted
  /\ UNCHANGED <<documents, reconciling, pc, world>>

-----------------------------------------------------------------------------
(* An invocation proceeds; unless it is alone, its action is overlapped.    *)
Proceed(i) ==
  /\ Goto(i, CASE TierOf[ActionOf[i]] = "HUMAN_REVIEW_ONLY"       -> "REJECTED"
               [] TierOf[ActionOf[i]] = "HUMAN_APPROVAL_REQUIRED" -> "approval"
               [] OTHER                                           -> "observe")
  /\ overlapped' = IF \E j \in InFlight : ActionOf[j] = ActionOf[i]
                   THEN overlapped \cup {ActionOf[i]} ELSE overlapped

(* Mutant: a retry does not defer to an execution that is under way.        *)
FetchIgnoringExecuting(i) ==
  /\ pc[i] = "start"
  /\ \/ /\ state[ActionOf[i]] \in {"ABSENT"} \cup (Deferring \ {"EXECUTING"}) \cup Refusing
        /\ Goto(i, "done") /\ UNCHANGED overlapped
     \/ /\ state[ActionOf[i]] \in {"AWAITING_APPROVAL", "AUTHORIZED", "EXECUTING"}
        /\ Proceed(i)
  /\ UNCHANGED <<documents, approvals, reconciling, target, called, performed>>

(* execute: the document is read once, and what it said decides.            *)
Fetch(i) ==
  /\ pc[i] = "start"
  /\ \/ /\ state[ActionOf[i]] \in {"ABSENT"} \cup Deferring \cup Refusing
        /\ Goto(i, "done") /\ UNCHANGED overlapped
     \/ /\ state[ActionOf[i]] \in {"AWAITING_APPROVAL", "AUTHORIZED"}
        /\ Proceed(i)
  /\ UNCHANGED <<documents, approvals, reconciling, target, called, performed>>

(* Mutant: an approval is good for every policy version.                    *)
CheckApprovalOfAnyPolicy(i) ==
  LET found == approval[ActionOf[i]] IN
  /\ pc[i] = "approval"
  /\ Goto(i, CASE found.status \in {"NONE", "PENDING"} -> "done"
               [] found.status = "APPROVED"            -> "observe"
               [] OTHER                                -> "REJECTED")
  /\ UNCHANGED <<documents, approvals, reconciling, world>>

(* No approval yet: come back later.  A refusal, or an approval under       *)
(* another policy version, rejects the execution.                           *)
CheckApproval(i) ==
  LET found == approval[ActionOf[i]]
      inScope == found.policy = PolicyOf[PlanOf[i]]
  IN
  /\ pc[i] = "approval"
  /\ Goto(i, CASE found.status \in {"NONE", "PENDING"}     -> "done"
               [] found.status = "APPROVED" /\ inScope     -> "observe"
               [] OTHER                                    -> "REJECTED")
  /\ UNCHANGED <<documents, approvals, reconciling, world>>

(* The state of the target is fetched from its system of record.            *)
Observe(i) ==
  LET a == ActionOf[i] IN
  /\ pc[i] = "observe"
  /\ Goto(i, IF target[TargetOf[a]] # "eligible" THEN "PRECONDITION_FAILED"
             ELSE IF Requires[a] # NoAction THEN "dependency"
             ELSE "commit")
  /\ UNCHANGED <<documents, approvals, reconciling, world>>

(* Mutant: the cancellation only has to be under way.                       *)
CheckDependencyStarted(i) ==
  LET cancellation == Requires[ActionOf[i]] IN
  /\ pc[i] = "dependency"
  /\ Goto(i, IF planOf[cancellation] = PlanOf[i] /\ state[cancellation] \in Deferring
             THEN "commit" ELSE "PRECONDITION_FAILED")
  /\ UNCHANGED <<documents, approvals, reconciling, world>>

(* The cancellation must be confirmed, in an execution of the same plan.    *)
CheckDependency(i) ==
  LET cancellation == Requires[ActionOf[i]] IN
  /\ pc[i] = "dependency"
  /\ Goto(i, IF planOf[cancellation] = PlanOf[i] /\ state[cancellation] = "CONFIRMED"
             THEN "commit" ELSE "PRECONDITION_FAILED")
  /\ UNCHANGED <<documents, approvals, reconciling, world>>

(* Authority is committed before the call, over whatever the document says. *)
Commit(i) ==
  /\ pc[i] = "commit"
  /\ state' = [state EXCEPT ![ActionOf[i]] = "EXECUTING"]
  /\ Goto(i, "call")
  /\ UNCHANGED <<planOf, approvals, reconciling, world>>

(* Mutant: a lost response is taken for a failure.                          *)
CallLosingResponses(i) ==
  LET a == ActionOf[i]
      x == TargetOf[a]
  IN
  /\ pc[i] = "call"
  /\ called' = called \cup {i}
  /\ \/ /\ target[x] = "eligible" \/ a \in Unguarded
        /\ target' = [target EXCEPT ![x] = "compensated"]
        /\ performed' = performed \cup {i}
        /\ Goto(i, "CONFIRMED") \/ Goto(i, "FAILED_AUTHORITATIVELY")
     \/ Goto(i, "OUTCOME_UNKNOWN") /\ UNCHANGED <<target, performed>>
     \/ Goto(i, "FAILED_AUTHORITATIVELY") /\ UNCHANGED <<target, performed>>
     \/ target[x] # "eligible" /\ a \notin Unguarded /\ Goto(i, "done") /\ UNCHANGED <<target, performed>>
  /\ UNCHANGED <<documents, approvals, reconciling, overlapped>>

(* Mutant: the services compensate their objects in every state.            *)
CallUnguarded(i) ==
  LET a == ActionOf[i]
      x == TargetOf[a]
  IN
  /\ pc[i] = "call"
  /\ called' = called \cup {i}
  /\ \/ /\ target' = [target EXCEPT ![x] = "compensated"]
        /\ performed' = performed \cup {i}
        /\ Goto(i, "CONFIRMED") \/ Goto(i, "OUTCOME_UNKNOWN")
     \/ Goto(i, "OUTCOME_UNKNOWN") /\ UNCHANGED <<target, performed>>
     \/ Goto(i, "FAILED_AUTHORITATIVELY") /\ UNCHANGED <<target, performed>>
  /\ UNCHANGED <<documents, approvals, reconciling, overlapped>>

(* The call: performed, with or without its response; lost; failed          *)
(* authoritatively; or refused because the target has moved on, which is an *)
(* exception nobody handles.                                                *)
Call(i) ==
  LET a == ActionOf[i]
      x == TargetOf[a]
  IN
  /\ pc[i] = "call"
  /\ called' = called \cup {i}
  /\ \/ /\ target[x] = "eligible" \/ a \in Unguarded
        /\ target' = [target EXCEPT ![x] = "compensated"]
        /\ performed' = performed \cup {i}
        /\ Goto(i, "CONFIRMED") \/ Goto(i, "OUTCOME_UNKNOWN")
     \/ Goto(i, "OUTCOME_UNKNOWN") /\ UNCHANGED <<target, performed>>
     \/ Goto(i, "FAILED_AUTHORITATIVELY") /\ UNCHANGED <<target, performed>>
     \/ target[x] # "eligible" /\ a \notin Unguarded /\ Goto(i, "done") /\ UNCHANGED <<target, performed>>
  /\ UNCHANGED <<documents, approvals, reconciling, overlapped>>

(* update_execution with the state the invocation ended in.                 *)
Save(i) ==
  /\ pc[i] \in Outcome
  /\ state' = [state EXCEPT ![ActionOf[i]] = pc[i]]
  /\ Goto(i, "done")
  /\ UNCHANGED <<planOf, approvals, reconciling, world>>

(* The process of an invocation dies, or a read or write of it raises.      *)
Abort(i) ==
  /\ i \in InFlight
  /\ Goto(i, "done")
  /\ UNCHANGED <<documents, approvals, reconciling, world>>

-----------------------------------------------------------------------------
(* reconcile_unknown: the document is read, then the target; a target in    *)
(* the expected state confirms the execution.                               *)
FetchUnknown(a) ==
  /\ state[a] = "OUTCOME_UNKNOWN"
  /\ reconciling' = reconciling \cup {a}
  /\ UNCHANGED <<documents, approvals, pc, world>>

(* Mutant: whatever the target says, the execution is confirmed.            *)
ReconcileBlindly(a) ==
  /\ a \in reconciling
  /\ reconciling' = reconciling \ {a}
  /\ state' = [state EXCEPT ![a] = "CONFIRMED"]
  /\ UNCHANGED <<planOf, approvals, pc, world>>

ReconcileUnknown(a) ==
  /\ a \in reconciling
  /\ reconciling' = reconciling \ {a}
  /\ state' = IF target[TargetOf[a]] = "compensated"
               THEN [state EXCEPT ![a] = "CONFIRMED"] ELSE state
  /\ UNCHANGED <<planOf, approvals, pc, world>>

(* What only actions on tickets aim at.                                     *)
Ticket(x) == \A a \in Action : TargetOf[a] = x => a \in Unguarded

(* Shipments are accepted, stock is dispatched, credits are used.  A ticket  *)
(* is closed and reopened by others, and looks the same whoever reopened it. *)
MoveOn(x) ==
  /\ \/ /\ target[x] = "eligible"
        /\ target' = [target EXCEPT ![x] = IF Ticket(x) THEN "compensated" ELSE "moved"]
     \/ /\ target[x] = "compensated" /\ Ticket(x)
        /\ target' = [target EXCEPT ![x] = "eligible"]
  /\ UNCHANGED <<documents, approvals, reconciling, pc, called, performed, overlapped>>

ExecuteStep(i) ==
  \/ Fetch(i) \/ CheckApproval(i) \/ Observe(i) \/ CheckDependency(i)
  \/ Commit(i) \/ Call(i) \/ Save(i)

(* What goes on around the plans and their executors.                       *)
Surroundings ==
  \/ \E a \in Action, verdict \in {"APPROVED", "REJECTED"} : DecideApproval(a, verdict)
  \/ \E w \in persisting : PersistApproval(w)
  \/ \E a \in Action : FetchUnknown(a) \/ ReconcileUnknown(a)
  \/ \E x \in Target : MoveOn(x)

Next ==
  \/ \E p \in Plan, a \in Action : Reserve(p, a) \/ RequestApproval(p, a)
  \/ \E i \in Invocation : ExecuteStep(i) \/ Abort(i)
  \/ Surroundings

Spec == Init /\ [][Next]_vars

-----------------------------------------------------------------------------
(* Every document and every pending write is of its kind, and a document    *)
(* names the plan that reserved it exactly when it exists.                  *)
CompensationTypeOK ==
  /\ state \in [Action -> ExecutionState \cup {"ABSENT"}]
  /\ planOf \in [Action -> Plan \cup {NoPlan}]
  /\ approval \in [Action -> [status : ApprovalStatus \cup {"NONE"}, policy : Policy \cup {NoPolicy}]]
  /\ persisting \subseteq [action : Action, status : ApprovalStatus, policy : Policy]
  /\ reconciling \subseteq Action
  /\ pc \in [Invocation -> Stage]
  /\ target \in [Target -> {"eligible", "moved", "compensated"}]
  /\ called \subseteq Invocation
  /\ performed \subseteq called
  /\ granted \subseteq Action \X Policy
  /\ overlapped \subseteq Action
  /\ \A a \in Action : /\ state[a] = "ABSENT" <=> planOf[a] = NoPlan
                       /\ approval[a].status = "NONE" <=> approval[a].policy = NoPolicy
                       /\ state[a] # "ABSENT" => a \in ActionsOf[planOf[a]]

(* A human-approved action is called only under an approval of the policy   *)
(* version the plan was validated under, and an action reserved for human   *)
(* review is never called, however approvals and executors interleave.      *)
ApprovedCallsOnly ==
  \A i \in called :
    /\ TierOf[ActionOf[i]] # "HUMAN_REVIEW_ONLY"
    /\ TierOf[ActionOf[i]] = "HUMAN_APPROVAL_REQUIRED" =>
         <<ActionOf[i], PolicyOf[PlanOf[i]]>> \in granted

(* Stock is released only after the label it was reserved for is cancelled: *)
(* the call of a dependent action finds the cancellation performed.         *)
ReleaseAfterCancel ==
  \A i \in called :
    Requires[ActionOf[i]] # NoAction =>
      target[TargetOf[Requires[ActionOf[i]]]] = "compensated"

(* CONFIRMED is the truth about the target, whoever wrote it: an executor,  *)
(* a reconciler, or one of several racing over the same document.  Only of a *)
(* ticket it may be true no longer.                                         *)
ConfirmedIsCompensated ==
  \A a \in Action \ Unguarded : state[a] = "CONFIRMED" => target[TargetOf[a]] = "compensated"

(* Retries, restarts, lost calls and lost responses make no second call,    *)
(* unless executors of one action overlap.                                  *)
OneCallUnlessOverlapped ==
  \A i, j \in called :
    ActionOf[i] = ActionOf[j] /\ ActionOf[i] \notin overlapped => i = j

(* What was compensated is not forgotten: whatever response or process was  *)
(* lost, the document says that the compensation happened or may have.      *)
CompensatedIsNotForgotten ==
  \A i \in performed : ActionOf[i] \notin overlapped => state[ActionOf[i]] \in Deferring

(* One target, one effect: however many plans of however many conflicts     *)
(* lead to it, and however their executors overlap.  Only a ticket, which   *)
(* its service reopens in every state, is another matter.                   *)
OneEffectPerTarget ==
  \A i, j \in performed :
    /\ TargetOf[ActionOf[i]] = TargetOf[ActionOf[j]]
    /\ ActionOf[i] \notin Unguarded /\ ActionOf[j] \notin Unguarded
    => i = j

(* A final answer stands: nobody executes, rejects or fails an execution    *)
(* that has already been confirmed, rejected or failed, unless executors    *)
(* overlapped.                                                              *)
FinalAnswersStand ==
  [][\A a \in Action \ overlapped :
       state[a] \in Refusing \cup {"CONFIRMED"} => state'[a] = state[a]]_state

(* compensation-registry.md: retries of an execution that is EXECUTING,     *)
(* CONFIRMED or unknown defer, so an action is called once.  Two executors  *)
(* that both read it AUTHORIZED both call.                                  *)
OneCallPerCompensation ==
  \A i, j \in called : ActionOf[i] = ActionOf[j] => i = j
=============================================================================
