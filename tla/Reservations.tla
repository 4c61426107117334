----------------------------- MODULE Reservations -----------------------------
(***************************************************************************)
(* The reservation repository of one pact: one document per semantic       *)
(* operation, one document per exclusive resolution slot, and the          *)
(* transactions that read and write them.  Each Firestore transaction (and *)
(* each critical section of the in-memory repository) is one action.       *)
(*                                                                         *)
(* Abstracted: policy versions and agent ids carried by a reservation, and *)
(* state_history, of which attempts keeps the number of RESERVED entries.  *)
(***************************************************************************)
EXTENDS Naturals, FiniteSets

CONSTANTS
  Operation,    \* semantic operation keys of the pact
  Slot,         \* exclusive resolution slots of the pact
  SlotOf,       \* OutcomePact.slot_for on the path of each operation
  NoSlot,       \* slot_for found no slot
  NoOperation,  \* no slot document / nobody holds the slot
  Backend,      \* "memory" or "firestore"
  MaxAttempts   \* bound on attempt_count

ASSUME ReservationAssumption ==
  /\ SlotOf \in [Operation -> Slot \cup {NoSlot}]
  /\ NoSlot \notin Slot
  /\ NoOperation \notin Operation
  /\ Backend \in {"memory", "firestore"}
  /\ MaxAttempts \in Nat \ {0}

VARIABLES
  resState,   \* state of each operation document, "ABSENT" when there is none
  attempts,   \* attempt_count of each operation document
  holder,     \* operation named by each slot document, NoOperation when absent
  overtaken   \* history: slots in which a retry was granted over a live holder

resVars == <<resState, attempts, holder, overtaken>>

ReservationState == {"RESERVED", "EXECUTING", "CONFIRMED", "FAILED_AUTHORITATIVELY",
                     "OUTCOME_UNKNOWN", "REVERSED", "EXPIRED"}

ReleasingStates == {"FAILED_AUTHORITATIVELY", "REVERSED", "EXPIRED"}

LiveStates == ReservationState \ ReleasingStates

ExecutionOutcome == {"CONFIRMED", "FAILED_AUTHORITATIVELY", "OUTCOME_UNKNOWN"}

(* The transitions transition() accepts. *)
Allowed(expected) ==
  CASE expected = "RESERVED"        -> {"EXECUTING", "EXPIRED"}
    [] expected = "EXECUTING"       -> ExecutionOutcome
    [] expected = "OUTCOME_UNKNOWN" -> {"CONFIRMED", "FAILED_AUTHORITATIVELY"}
    [] expected = "CONFIRMED"       -> {"REVERSED"}
    [] OTHER                        -> {}

Live(o) == resState[o] \in LiveStates

Rivals(o) == {p \in Operation \ {o} : SlotOf[p] = SlotOf[o] /\ SlotOf[o] # NoSlot}

(* A retry of o overtakes when a rival has become live since o failed.      *)
Overtakes(o) == resState[o] = "FAILED_AUTHORITATIVELY" /\ \E p \in Rivals(o) : Live(p)

ReservationInit ==
  /\ resState = [o \in Operation |-> "ABSENT"]
  /\ attempts = [o \in Operation |-> 0]
  /\ holder = [s \in Slot |-> NoOperation]
  /\ overtaken = {}

-----------------------------------------------------------------------------
(* Mutant: an unknown outcome no longer counts as occupying the slot.       *)
SlotOccupiedUntilUnknown(o) ==
  /\ SlotOf[o] \in Slot
  /\ holder[SlotOf[o]] # NoOperation
  /\ resState[holder[SlotOf[o]]] \notin ReleasingStates \cup {"OUTCOME_UNKNOWN"}

(* Firestore looks only at the existence of the slot document; the memory  *)
(* repository also looks at the state of the operation it names.           *)
SlotOccupied(o) ==
  /\ SlotOf[o] \in Slot
  /\ holder[SlotOf[o]] # NoOperation
  /\ \/ Backend = "firestore"
     \/ resState[holder[SlotOf[o]]] \notin ReleasingStates

Plan(decision, reason) == [decision |-> decision, reason |-> reason]

(* evaluate_reservation_snapshot: what reserve() answers for o. *)
ReservePlan(o) ==
  CASE resState[o] = "FAILED_AUTHORITATIVELY"    -> Plan("ALLOW", "AUTHORITATIVE_FAILURE_RETRY")
    [] resState[o] \in {"RESERVED", "EXECUTING"} -> Plan("DEFER", "OPERATION_IN_PROGRESS")
    [] resState[o] = "OUTCOME_UNKNOWN"           -> Plan("DEFER", "EXTERNAL_OUTCOME_UNKNOWN")
    [] resState[o] \in {"CONFIRMED", "REVERSED", "EXPIRED"}
                                                 -> Plan("BLOCK", "DUPLICATE_OPERATION")
    [] resState[o] = "ABSENT" /\ SlotOccupied(o) -> Plan("BLOCK", "EXCLUSIVE_RESOLUTION_CONFLICT")
    [] OTHER                                     -> Plan("ALLOW", "AUTHORITY_RESERVED")

Granted(o) == ReservePlan(o).decision = "ALLOW"

(* Mutant: the slot document is written by the first reservation only.      *)
TakeSlotOnce(o) ==
  holder' = IF SlotOf[o] = NoSlot \/ attempts[o] > 0 THEN holder
            ELSE [holder EXCEPT ![SlotOf[o]] = o]

TakeSlot(o) ==
  holder' = IF SlotOf[o] = NoSlot THEN holder ELSE [holder EXCEPT ![SlotOf[o]] = o]

(* Mutant: a failed operation keeps its slot document.                      *)
ReleaseSlotNever(o) == o \in Operation /\ UNCHANGED holder

ReleaseSlot(o) ==
  holder' = IF SlotOf[o] = NoSlot THEN holder
            ELSE [holder EXCEPT ![SlotOf[o]] = NoOperation]

(* The writing branch of reserve(): a first reservation, or a retry of an  *)
(* authoritative failure.  The retry takes the slot whoever holds it.      *)
Reserve(o) ==
  /\ Granted(o)
  /\ attempts[o] < MaxAttempts
  /\ resState' = [resState EXCEPT ![o] = "RESERVED"]
  /\ attempts' = [attempts EXCEPT ![o] = @ + 1]
  /\ TakeSlot(o)
  /\ overtaken' = IF Overtakes(o) THEN overtaken \cup {SlotOf[o]} ELSE overtaken

(* transition(expected, target): compare-and-set on the operation document *)
(* with the slot document deleted, whoever it names, on release.           *)
Transition(o, expected, target) ==
  /\ target \in Allowed(expected)
  /\ resState[o] = expected
  /\ resState' = [resState EXCEPT ![o] = target]
  /\ IF target \in ReleasingStates THEN ReleaseSlot(o) ELSE UNCHANGED holder
  /\ UNCHANGED <<attempts, overtaken>>

BeginExecution(o) == Transition(o, "RESERVED", "EXECUTING")

RecordOutcome(o, outcome) ==
  outcome \in ExecutionOutcome /\ Transition(o, "EXECUTING", outcome)

ReconcileUnknown(o, outcome) ==
  /\ outcome \in ExecutionOutcome \ {"OUTCOME_UNKNOWN"}
  /\ Transition(o, "OUTCOME_UNKNOWN", outcome)

(* The transitions of the table that no caller in src/ requests. *)
Expire(o) == Transition(o, "RESERVED", "EXPIRED")

Reverse(o) == Transition(o, "CONFIRMED", "REVERSED")

(* The reservation half of ingest_evidence: only an unknown outcome moves. *)
(* The memory graph goes through transition(); the Firestore graph updates *)
(* the operation document inside its own transaction and nothing else.     *)
ReconcileByEvidence(o, succeeded) ==
  LET target == IF succeeded THEN "CONFIRMED" ELSE "FAILED_AUTHORITATIVELY" IN
  IF Backend = "memory"
  THEN Transition(o, "OUTCOME_UNKNOWN", target)
  ELSE /\ resState[o] = "OUTCOME_UNKNOWN"
       /\ resState' = [resState EXCEPT ![o] = target]
       /\ UNCHANGED <<attempts, holder, overtaken>>

Next ==
  \E o \in Operation :
    \/ Reserve(o)
    \/ BeginExecution(o)
    \/ \E outcome \in ExecutionOutcome : RecordOutcome(o, outcome)
    \/ \E outcome \in ExecutionOutcome : ReconcileUnknown(o, outcome)
    \/ \E succeeded \in BOOLEAN : ReconcileByEvidence(o, succeeded)
    \/ Expire(o)
    \/ Reverse(o)

Spec == ReservationInit /\ [][Next]_resVars

-----------------------------------------------------------------------------
(* Every document has a state, a count and a slot of its own kind, and an  *)
(* operation document exists exactly when it has an attempt.               *)
ReservationTypeOK ==
  /\ resState \in [Operation -> ReservationState \cup {"ABSENT"}]
  /\ attempts \in [Operation -> 0..MaxAttempts]
  /\ holder \in [Slot -> Operation \cup {NoOperation}]
  /\ overtaken \subseteq Slot
  /\ \A o \in Operation : resState[o] = "ABSENT" <=> attempts[o] = 0

(* Unless a retry overtook somebody, a live operation is named by its slot  *)
(* document: deleting the document without looking at whom it names, as     *)
(* transition() does, never takes the slot away from another operation.     *)
LiveHoldsSlot ==
  \A o \in Operation :
    Live(o) /\ SlotOf[o] \in Slot \ overtaken => holder[SlotOf[o]] = o

(* At most one live operation per exclusive slot (ADR-002), in every slot   *)
(* where no retry of a failed operation was granted over a live holder.     *)
ExclusiveUnlessOvertaken ==
  \A o \in Operation, p \in Operation :
    Live(o) /\ Live(p) /\ SlotOf[o] = SlotOf[p] /\ SlotOf[o] \in Slot \ overtaken
      => o = p

(* A slot document names an operation of that slot, and one that was        *)
(* reserved; with the memory repository that operation is still live.       *)
HolderAccurate ==
  \A s \in Slot : holder[s] # NoOperation =>
    /\ SlotOf[holder[s]] = s
    /\ resState[holder[s]] # "ABSENT"
    /\ Backend = "memory" => Live(holder[s])

(* Nobody loses authority to a step of somebody else: a step that frees or  *)
(* reassigns a slot is a step of the operation that held it, or one that    *)
(* marks the slot overtaken, or finds the holder already failed.            *)
SlotChangesHandsBySelf ==
  [][\A s \in Slot \ overtaken' :
       holder[s] # NoOperation /\ holder'[s] # holder[s]
         => \/ resState'[holder[s]] # resState[holder[s]]
            \/ resState[holder[s]] \in ReleasingStates]_resVars

(* ADR-002: at most one live authority holder for an exclusive slot.        *)
OneLiveHolderPerSlot ==
  \A o \in Operation, p \in Operation :
    Live(o) /\ Live(p) /\ SlotOf[o] = SlotOf[p] /\ SlotOf[o] # NoSlot => o = p
=============================================================================
