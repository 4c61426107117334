--------------------------- MODULE InvariantEngine ---------------------------
(***************************************************************************)
(* The invariant engine of one pact.  Economic facts accumulate; evaluators *)
(* read them, reduce them to one current fact per economic object, apply    *)
(* the commerce rules of the pinned rule set and synthesise a lifecycle;    *)
(* each then stores its evaluation in a transaction that opens, keeps and   *)
(* resolves the conflict documents.  Between the reading and the storing    *)
(* other facts are recorded and other evaluations stored.                   *)
(*                                                                         *)
(* Abstracted: names, reasons, severities, evidence identifiers; documents  *)
(* nothing reads: of evaluations, of protection events, and snapshots the   *)
(* root no longer names.  Evaluations are dated by the number of facts they *)
(* have read.                                                               *)
(***************************************************************************)
EXTENDS Integers, FiniteSets, FiniteSetsExt, SequencesExt

CONSTANTS
  Fact,                \* economic facts that may be recorded
  MaxFacts,            \* bound on the facts recorded
  CapturedValue,       \* economic policy of the pact
  RefundException,
  GoodwillLimit,
  DualCompensation,
  Currency,
  RuleVersion,         \* rule set version the policy pins
  Evaluator,           \* evaluations that may be under way at a time
  NoOperation,         \* a fact without operation identity
  Nothing              \* an evaluator that has read nothing, a pact never evaluated

Kind == {"REFUND", "REPLACEMENT", "GOODWILL", "OTHER_EXCEPTION"}

(* PHASE_PRECEDENCE *)
Precedence ==
  [PROPOSED |-> 1, PENDING |-> 2, FAILED |-> 3, SETTLED |-> 4, REVERSED |-> 5, BLOCKED |-> 6]

Unsettled == {"PROPOSED", "PENDING"}
ActivePhases == Unsettled \cup {"SETTLED"}

Lifecycle == {"OPEN", "PENDING", "SETTLED", "ESCALATED", "AT_RISK", "VIOLATED"}

ProtectionEventType ==
  {"INVALID_ACTION_PREVENTED", "AUTHORIZED_VALUE_RECOVERED", "LEGITIMATE_VALUE_DELAYED"}

(* "stamp" stands for occurred_at and fact_id, in whose order no two facts  *)
(* are equal; "intent" for semantic_intent_id with economic_scope.          *)
IsEconomicFact(f) ==
  /\ f.kind \in Kind /\ f.phase \in DOMAIN Precedence
  /\ f.amount \in Nat /\ f.version \in Nat /\ f.stamp \in Nat
  /\ f.executed \in BOOLEAN /\ f.preexisting \in BOOLEAN
  /\ f.reversible \in {"yes", "no", "unknown"}

IsEconomicPolicy ==
  /\ Currency = "USD"
  /\ CapturedValue \in Nat /\ RefundException \in Nat /\ GoodwillLimit \in Nat
  /\ DualCompensation \in BOOLEAN

(* Versions of commerce_missing_order_rules; another cannot be resolved.    *)
RuleCatalog == {"1", "2"}

ASSUME InvariantAssumption ==
  /\ \A f \in Fact : IsEconomicFact(f)
  /\ \A f, g \in Fact : f.stamp = g.stamp => f = g
  /\ MaxFacts \in Nat
  /\ IsEconomicPolicy
  /\ RuleVersion \in RuleCatalog

VARIABLES
  ledger,     \* facts recorded
  reading,    \* facts each evaluator has read
  conflicts,  \* invariant_conflicts: status and first_detected_at of each document
  root        \* lifecycle, open conflicts and named snapshot of the pact root

storedVars == <<conflicts, root>>
vars == <<ledger, reading, storedVars>>

-----------------------------------------------------------------------------
(* The reducer.                                                             *)
Exceeds(f, g) ==
  \/ f.version > g.version
  \/ /\ f.version = g.version
     /\ \/ Precedence[f.phase] > Precedence[g.phase]
        \/ f.phase = g.phase /\ f.stamp > g.stamp

(* Mutant: of equal versions the one that came last is current.             *)
SupersedeByArrival(current, f) ==
  IF \E g \in current : g.object = f.object /\ g.version > f.version
  THEN current
  ELSE {g \in current : g.object # f.object} \cup {f}

Supersede(current, f) ==
  IF \E g \in current : g.object = f.object /\ ~Exceeds(f, g)
  THEN current
  ELSE {g \in current : g.object # f.object} \cup {f}

(* current_economic_facts, of facts in the order they are given, and what   *)
(* is current after each of them.                                           *)
CurrentAfter(order) ==
  LET after[n \in 0..Len(order)] ==
        IF n = 0 THEN {} ELSE Supersede(after[n - 1], order[n])
  IN  after

CurrentFacts(order) == CurrentAfter(order)[Len(order)]

Current(facts) == CurrentFacts(SetToSeq(facts))

Total(facts) == SumFunctionOnSet([f \in facts |-> f.amount], facts)

Of(current, kind, phases) == {f \in current : f.kind = kind /\ f.phase \in phases}

Excess(value, limit) == IF value > limit THEN value - limit ELSE 0

(* What ProtectionLedger makes of a fact.  The identity of an event is all  *)
(* of this, so versions of an object of one amount are one event.           *)
ProtectionEvent(type, f) ==
  [type |-> type, object |-> f.object, operation |-> f.operation,
   amount |-> f.amount, currency |-> f.currency]

(* The events of the scenarios: an action that was blocked was prevented;   *)
(* the value of a replacement that was reversed is recovered from what it   *)
(* was before.                                                              *)
ReportableEvents(facts) ==
  {ProtectionEvent("INVALID_ACTION_PREVENTED", f) : f \in {f \in facts : f.phase = "BLOCKED"}}
    \cup {ProtectionEvent("AUTHORIZED_VALUE_RECOVERED", f) :
            f \in {f \in Of(facts, "REPLACEMENT", Unsettled) :
                   \E g \in facts : g.object = f.object /\ g.phase = "REVERSED"}}

ProtectionSummary(events) ==
  LET value == [type \in ProtectionEventType |-> Total({e \in events : e.type = type})]
  IN  [recovered |-> value["AUTHORIZED_VALUE_RECOVERED"],
       delayed   |-> value["LEGITIMATE_VALUE_DELAYED"],
       protected |-> value["INVALID_ACTION_PREVENTED"] + value["AUTHORIZED_VALUE_RECOVERED"]
                       - value["LEGITIMATE_VALUE_DELAYED"]]

(* A replacement the gateway never saw, which may still be undone.          *)
Recoverable(f) ==
  f.kind = "REPLACEMENT" /\ f.preexisting /\ f.phase \in Unsettled /\ f.reversible = "yes"

EconomicPosition(current, events) ==
  LET projected == Total({f \in current : f.phase \in ActivePhases})
      settled == Total({f \in current : f.phase = "SETTLED"})
  IN  [authorizedPrimary    |-> Total(Of(current, "REFUND", ActivePhases))
                                  + Total(Of(current, "REPLACEMENT", ActivePhases)),
       pendingPrimary       |-> Total(Of(current, "REFUND", Unsettled)),
       settledPrimary       |-> Total(Of(current, "REFUND", {"SETTLED"})),
       failedPrimary        |-> Total(Of(current, "REFUND", {"FAILED"})),
       replacementProjected |-> Total(Of(current, "REPLACEMENT", Unsettled)),
       replacementCommitted |-> Total(Of(current, "REPLACEMENT", {"SETTLED"})),
       goodwillAuthorized   |-> Total(Of(current, "GOODWILL", ActivePhases)),
       goodwillSettled      |-> Total(Of(current, "GOODWILL", {"SETTLED"})),
       otherException       |-> Total(Of(current, "OTHER_EXCEPTION", ActivePhases)),
       blocked              |-> Total({f \in current : f.phase = "BLOCKED"}),
       projected            |-> projected,
       settled              |-> settled,
       projectedExcess      |-> Excess(projected, CapturedValue),
       settledExcess        |-> Excess(settled, CapturedValue),
       protection           |-> ProtectionSummary(events),
       recoverable          |-> Total({f \in current : Recoverable(f)})]

-----------------------------------------------------------------------------
(* The rules that can fail, each with the facts it fails on.                *)
Refunds(current) == Of(current, "REFUND", ActivePhases)
Replacements(current) == Of(current, "REPLACEMENT", ActivePhases)
Goodwill(current) == Of(current, "GOODWILL", ActivePhases)

Repeated(facts) == {f \in facts : \E g \in facts : f # g /\ f.intent = g.intent}

(* Mutant: each refund is held against the bound by itself.                 *)
RefundsOverBoundEach(current) ==
  {f \in Refunds(current) : f.amount > CapturedValue + RefundException}

RefundsOverBound(current) ==
  IF Total(Refunds(current)) > CapturedValue + RefundException THEN Refunds(current) ELSE {}

(* Mutant: only an overlap with a settled refund is one.                    *)
OverlapWhenSettled(current) ==
  IF Of(current, "REFUND", {"SETTLED"}) = {} \/ Replacements(current) = {} \/ DualCompensation
  THEN {} ELSE Refunds(current) \cup Replacements(current)

PrimaryOverlap(current) ==
  IF Refunds(current) = {} \/ Replacements(current) = {} \/ DualCompensation
  THEN {} ELSE Refunds(current) \cup Replacements(current)

DuplicateCompensation(current) == Repeated(Refunds(current) \cup Replacements(current))

GoodwillOverLimit(current) ==
  IF Total(Goodwill(current)) > GoodwillLimit THEN Goodwill(current) ELSE {}

PendingDuplicates(current) == Repeated(Of(current, "REFUND", Unsettled))

SettledPathCompeted(current) ==
  LET settledRefunds == Of(current, "REFUND", {"SETTLED"})
      settledReplacements == Of(current, "REPLACEMENT", {"SETTLED"})
  IN  IF DualCompensation THEN {}
      ELSE IF settledRefunds # {} /\ Replacements(current) # {}
           THEN settledRefunds \cup Replacements(current)
      ELSE IF settledReplacements # {} /\ Refunds(current) # {}
           THEN settledReplacements \cup Refunds(current)
      ELSE {}

Rule == {"REFUND_VALUE_BOUND", "PRIMARY_RESOLUTION_EXCLUSIVE", "DUPLICATE_COMPENSATION",
         "GOODWILL_LIMIT", "PENDING_PRIMARY_CONFLICT", "SETTLED_PRIMARY_PATH_IMMUTABLE"}

OffendingFacts(current) ==
  [rule \in Rule |->
     CASE rule = "REFUND_VALUE_BOUND"           -> RefundsOverBound(current)
       [] rule = "PRIMARY_RESOLUTION_EXCLUSIVE" -> PrimaryOverlap(current)
       [] rule = "DUPLICATE_COMPENSATION"       -> DuplicateCompensation(current)
       [] rule = "GOODWILL_LIMIT"               -> GoodwillOverLimit(current)
       [] rule = "PENDING_PRIMARY_CONFLICT"     -> PendingDuplicates(current)
       [] OTHER                                 -> SettledPathCompeted(current)]

OperationsOf(facts) == {f.operation : f \in facts} \ {NoOperation}

(* A conflict's identity is the rule, its version, and the operations it    *)
(* fails on.                                                                *)
Failures(current) ==
  LET offending == OffendingFacts(current)
  IN  {[rule |-> r, version |-> RuleVersion, operations |-> OperationsOf(offending[r])] :
         r \in {r \in Rule : offending[r] # {}}}

(* A current fact that was executed and not blocked, of the operations in   *)
(* conflict; of any operation when none of those in conflict is known.      *)
ExecutedEffect(current, failures) ==
  LET operations == UNION {c.operations : c \in failures}
  IN  \E f \in current : /\ f.executed /\ f.phase # "BLOCKED"
                        /\ (operations = {} \/ f.operation \in operations)

(* compensation_reversibility warns of these, and wants an approval.        *)
NotReversible(current) ==
  {f \in Replacements(current) : f.reversible = "no" \/ f.state \in {"ACCEPTED", "DISPATCHED"}}

(* completion_requires_evidence knows nothing until the evidence is in,     *)
(* whatever tickets and agents say.                                         *)
CompletionUnknown(input) == ~input.satisfied

(* No failure: approval, evidence and unsettled work decide, in that order. *)
WithoutFailures(input, current) ==
  IF input.approval \/ NotReversible(current) # {} THEN "ESCALATED"
  ELSE IF ~CompletionUnknown(input) THEN "SETTLED"
  ELSE IF \E f \in current : f.phase \in Unsettled THEN "PENDING"
  ELSE "OPEN"

(* Mutant: what failed without an executed effect is not a failure.         *)
SynthesizeEffectsOnly(input) ==
  LET current == Current(input.facts)
      failures == Failures(current)
  IN  IF failures # {} /\ ExecutedEffect(current, failures) THEN "VIOLATED"
      ELSE WithoutFailures(input, current)

(* synthesize_lifecycle *)
SynthesizeLifecycle(input) ==
  LET current == Current(input.facts)
      failures == Failures(current)
  IN  IF failures = {} THEN WithoutFailures(input, current)
      ELSE IF ExecutedEffect(current, failures) THEN "VIOLATED"
      ELSE "AT_RISK"

-----------------------------------------------------------------------------
Init ==
  /\ ledger = {}
  /\ reading = [i \in Evaluator |-> Nothing]
  /\ conflicts = [id \in {} |-> Nothing]
  /\ root = [lifecycle |-> "OPEN", open |-> {}, snapshot |-> Nothing]

(* Facts are derived from the claims and the evidence of the pact.          *)
Record(f) ==
  /\ f \notin ledger
  /\ Cardinality(ledger) < MaxFacts
  /\ ledger' = ledger \cup {f}
  /\ UNCHANGED <<reading, storedVars>>

(* currency_consistency would fail on such facts, were the reducers of facts *)
(* and of protection events not to raise an exception first.                *)
CurrencyMismatches(amounts) == {a \in amounts : a.currency # Currency}

(* An evaluator reads, and the evaluation gets past the reducer.            *)
Evaluate(i) ==
  /\ reading[i] = Nothing
  /\ CurrencyMismatches(Current(ledger) \cup ReportableEvents(ledger)) = {}
  /\ reading' = [reading EXCEPT ![i] = ledger]
  /\ UNCHANGED <<ledger, storedVars>>

(* Mutant: conflicts that are gone are left as they were.                   *)
StoreUnresolved(found, now) ==
  [id \in DOMAIN conflicts \cup found |->
     IF id \in found
     THEN [status |-> "OPEN", first |-> IF id \in root.open THEN conflicts[id].first ELSE now]
     ELSE conflicts[id]]

(* Mutant: a conflict found again is detected anew.                         *)
StoreAnew(found, now) ==
  [id \in DOMAIN conflicts \cup found |->
     IF id \in found THEN [status |-> "OPEN", first |-> now]
     ELSE IF id \in root.open THEN [conflicts[id] EXCEPT !.status = "RESOLVED"]
     ELSE conflicts[id]]

(* The conflict documents after an evaluation: those found are open, with   *)
(* the date of their detection if they were; those that were open and are   *)
(* not found are resolved.                                                  *)
Store(found, now) ==
  [id \in DOMAIN conflicts \cup found |->
     IF id \in found
     THEN [status |-> "OPEN", first |-> IF id \in root.open THEN conflicts[id].first ELSE now]
     ELSE IF id \in root.open THEN [conflicts[id] EXCEPT !.status = "RESOLVED"]
     ELSE conflicts[id]]

(* What an evaluation returns; its position is that of its input.           *)
EvaluationBundle(input) ==
  [lifecycle |-> SynthesizeLifecycle(input), open |-> Failures(Current(input.facts)),
   snapshot |-> input]

PositionOf(snapshot) ==
  EconomicPosition(Current(snapshot.facts), ReportableEvents(snapshot.facts))

(* persist, whatever has been stored since the evaluator read.  Whether the *)
(* evidence of the selected resolution is in and whether an approval is     *)
(* outstanding is what its caller says.                                     *)
Persist(i) ==
  \E satisfied \in BOOLEAN, approval \in BOOLEAN :
    LET input == [facts |-> reading[i], satisfied |-> satisfied, approval |-> approval]
    IN  /\ reading[i] # Nothing
        /\ root' = EvaluationBundle(input)
        /\ conflicts' = Store(root'.open, Cardinality(reading[i]))
        /\ reading' = [reading EXCEPT ![i] = Nothing]
        /\ UNCHANGED ledger

(* An evaluator dies, or its transaction fails for good.                    *)
Abandon(i) ==
  /\ reading[i] # Nothing
  /\ reading' = [reading EXCEPT ![i] = Nothing]
  /\ UNCHANGED <<ledger, storedVars>>

Next ==
  \/ \E f \in Fact : Record(f)
  \/ \E i \in Evaluator : Evaluate(i) \/ Persist(i) \/ Abandon(i)

Spec == Init /\ [][Next]_vars

-----------------------------------------------------------------------------
(* The latest fact of each object: none of its facts exceeds it.            *)
Latest(facts) ==
  {f \in facts : \A g \in facts : g.object = f.object => ~Exceeds(g, f)}

(* In whatever order facts were recorded or are read, the same one of each  *)
(* object is current, so a history of an object counts once.                *)
CurrentIsLatest ==
  \A order \in SetToSeqs(ledger) : CurrentFacts(order) = Latest(ledger)

(* The conflict documents and the root agree: exactly the documents the     *)
(* root lists are open, however evaluations of different ages were stored.  *)
OpenConflictsAgree ==
  /\ root.open \subseteq DOMAIN conflicts
  /\ \A id \in DOMAIN conflicts : conflicts[id].status = "OPEN" <=> id \in root.open

(* "Re-evaluation can resolve an open conflict but never deletes its        *)
(* record" (invariant-engine.md): and as long as it stays open, the record  *)
(* keeps the date of its detection.                                         *)
ConflictHistoryKept ==
  [][\A id \in DOMAIN conflicts :
       /\ id \in DOMAIN conflicts'
       /\ conflicts[id].status = "OPEN" /\ conflicts'[id].status = "OPEN"
            => conflicts'[id].first = conflicts[id].first]_conflicts

(* A pact the engine calls SETTLED has, in the facts it was evaluated on,   *)
(* one primary remedy within the value that was captured, each intent       *)
(* served once, goodwill within its limit, no approval outstanding and the  *)
(* evidence of its resolution.                                              *)
SettledIsSound ==
  root.lifecycle = "SETTLED" =>
    LET current == Current(root.snapshot.facts)
        remedies == Refunds(current) \cup Replacements(current)
    IN  /\ root.snapshot.satisfied /\ ~root.snapshot.approval
        /\ root.open = {}
        /\ Refunds(current) = {} \/ Replacements(current) = {} \/ DualCompensation
        /\ Refunds(current) # {} => Excess(Total(Refunds(current)), CapturedValue + RefundException) = 0
        /\ Goodwill(current) # {} => Excess(Total(Goodwill(current)), GoodwillLimit) = 0
        /\ \A f, g \in remedies : f.intent = g.intent => f = g

(* Two remedies of which one was carried out are a violation the root       *)
(* shows, with a conflict that names both.                                  *)
DualRemedyIsViolation ==
  root.snapshot # Nothing /\ ~DualCompensation =>
    LET current == Current(root.snapshot.facts)
    IN  \A f \in Refunds(current), g \in Replacements(current) :
          (f.executed \/ g.executed) /\ NoOperation \notin {f.operation, g.operation}
          => /\ root.lifecycle = "VIOLATED"
             /\ \E id \in root.open : {f.operation, g.operation} \subseteq id.operations

(* Without a conflict and without a replacement, what the customer may      *)
(* receive in all is bounded by the policy; replacements have no bound.     *)
ExposureBounded ==
  root.snapshot # Nothing /\ root.open = {} /\ Replacements(Current(root.snapshot.facts)) = {}
  => PositionOf(root.snapshot).projectedExcess
        <= RefundException + GoodwillLimit + PositionOf(root.snapshot).otherException

(* Facts, readings and documents are of their kinds; a conflict names       *)
(* operations of recorded facts.                                            *)
InvariantTypeOK ==
  /\ ledger \subseteq Fact
  /\ \A i \in Evaluator : reading[i] # Nothing => reading[i] \subseteq ledger
  /\ \A id \in DOMAIN conflicts :
       /\ id.rule \in Rule /\ id.operations \subseteq {f.operation : f \in ledger} \ {NoOperation}
       /\ conflicts[id].status \in {"OPEN", "RESOLVED"}
       /\ conflicts[id].first \in 0..MaxFacts
  /\ root.lifecycle \in Lifecycle
=============================================================================
