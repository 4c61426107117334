# Formal verification of IsoPact

IsoPact puts an *outcome pact* beneath a fleet of agents: a gateway reserves
semantic operations before it lets anybody call an enterprise system, evidence
from the systems of record decides when the pact is settled, and a registry of
compensations repairs what contradicts it. This directory holds TLA+ models of
that code, the TLC runs that check them on small instances, and proofs, checked
by TLAPS, that the central properties hold for every instance.

Paths below are relative to `src/src/isopact/` unless they name another root.

## 1. The system

| Component | State | Operations | Where |
|---|---|---|---|
| Reservation repository | one document per semantic operation (state, attempt count), one per exclusive slot naming its holder | `reserve`, `transition`, `activate`; the engine's `authorize`, `begin_execution`, `record_outcome`, `reconcile_unknown` | `reservations/` |
| Gateway interceptor and outcome gateway service | none of its own: each request is a thread through the documents | `intercept`, the external call, `after_external_call`; `POST` handlers of the service | `gateway/interceptor.py`, `services/outcome_gateway/main.py` |
| Pact graph | root document (lifecycle, selected resolution, projection of each operation), claims, evidence, delivery records, evaluations, settlement proofs | `activate_graph`, `append_claim`, `ingest_evidence` | `evidence/` |
| Compensation executor and approvals | execution, approval and decision documents | `prepare`, `request_approval`, `decide_approval`, `execute`, `reconcile_unknown` | `resolver/` |
| Resolution planning | the context a resolver is shown, the plans let through | `build_context`, a proposal, `validate` | `resolver/context.py`, `resolver/registry.py`, `resolver/validator.py` |
| Semantic operation identity | none (hashing and normalisation) | `canonicalize`, `logical_evidence_id` | `domain/canonical.py`, `evidence/identity.py` |
| Claim chain, receipts, integrity | hash chain of claims, signed checkpoints, receipts | append, checkpoint, issue, issue again, verify | `evidence/canonical.py`, `security/provenance.py`, `security/signing.py`, `scripts/*stage9*` under `src/`, the service's live proof |
| Invariant engine, economic position | conflict documents, lifecycle and open conflicts on the pact root, snapshots | reduce facts and protection events, evaluate the pinned rules, synthesise a lifecycle, persist | `invariants/` |
| Pact compiler and activation | a record of each screened text, a draft | compile, validate, activate | `compiler/`, `security/model_armor.py`, `gateway/activation.py` |
| Evidence pipeline | none of its own: transactions on the pact graph | webhook, subscription, query, `record_claim` | `evidence/pipeline.py`, `evidence/pubsub.py`, `evidence/query.py`, `security/webhooks.py` |
| Enterprise simulator | in-memory Stripe, carrier, warehouse, CRM, Jira, an economic ledger, a virtual clock | the scenario's actions, settlement of refunds, what operators do afterwards | `simulator/` |
| Agents, observability | configuration | prompts, tools, telemetry | `agents/`, `observability/` |

**How they interact.** An agent's action becomes an operation key. The
interceptor asks the reservation repository for authority (one transaction),
begins (a second transaction), the service calls the external system outside
every transaction, and the interceptor records the outcome (a third). The
service appends claims about it to the pact graph. Evidence reaches the graph
through Pub/Sub, webhooks and queries, at least once and in any order; ingesting
it is one transaction that also resolves the reservation if its outcome is
unknown. When the graph shows a conflict, a validated plan of compensations is
reserved, approved by humans where the registry says so, and executed by
processes that read and write the same documents with no transaction around them.

**What is hard.** Competing agents between the gateway's transactions; a process
that dies on either side of the external call; a call that times out and took
effect; retries of failures whose slot somebody else has taken; evidence of one
attempt that arrives during another, early, late or twice; claims that move the
selection before and after the evidence; two executors, two approvers or a
reconciler over documents written unconditionally; a target that moves on between
its observation and the call; documents read one after the other and signed as if
at once; evaluations of different ages stored in any order; a service that fails
between any two of its writes and is asked again; a pact activated twice; plans made
of what targets were. `PROJECT.json` lists each hazard at its line.

**What makes each part correct.**
- *Reservations*: one live holder per exclusive slot; slot documents agree with operation documents; nobody loses a slot to somebody else's step.
- *Gateway*: no duplicate effect, one remedy per slot, whoever is executing still owns the authority it was granted, every request is answered, unknown outcomes are resolved.
- *Pact graph*: settlement only on evidence of the type and rank the policy pins; settlement is final; the projection depends on the evidence and not on its order; OPEN and PENDING mean what the documents say.
- *Compensation*: no call without its approval; no release before the cancellation it depends on; CONFIRMED is true; one call per compensation; a compensation that took place is not forgotten; final answers stand.
- *Claim chain and receipts*: the chain never forks; a stored receipt verifies for ever; what it reports on the word of a source of record is in the evidence it commits to; a list of claims that verifies has the claims of the history, with their payloads; a concurrent reader is never misled.
- *Invariant engine*: what is current does not depend on the order of facts; exposure without a conflict is bounded; a pact called SETTLED breaks no rule; two remedies show as a violation; conflict documents agree with the root and keep their history.
- *Service*: replies tell the truth about the external call; nothing is done before its claim is on the chain; what a pact waits for, or settled on, is authorised; every caller is answered.
- *Compiler and activation*: a draft the validator passed is one activation takes; a pact activated again neither settles twice nor loses its proof.
- *Evidence pipeline*: a pact settles on what took place; a graph that has the latest event knows what the payment system does, whatever came before, as far as sequence numbers tell; a fact is counted once.
- *Planning*: whatever a resolver proposes, a target is compensated once and nothing is called without its approval.
- *Simulator*: the ledger agrees with the services; with the gateway there is one primary remedy, and no more is given than it asks for and the goodwill.

## 2. Modules

| Module | Models | Extends |
|---|---|---|
| `Reservations` | both reservation repositories and the engine's use of them | |
| `Gateway` | requests, external calls, crashes and evidence over those documents | `Reservations` |
| `OutcomeAuthority` | the abstract promise: authority is exclusive, effects happen under it, once | |
| `PactGraph` | claims, evidence, the reducer, settlement | |
| `Service` | the HTTP handler of the outcome gateway, over both | `Gateway`, an instance of `PactGraph` |
| `PactCompiler` | screening, candidates, validation, drafts, activation | |
| `EvidencePipeline` | activation and everything that feeds the graph, against a payment system and a carrier | `PactCompiler`, `PactGraph` |
| `Receipts` | the claim chain, checkpoints, receipts, their issuers and readers | `PactGraph` |
| `InvariantEngine` | economic facts, the reducers, the rules, evaluators and conflict documents | |
| `MissingOrderFacts` | the facts the repository evaluates | `InvariantEngine` |
| `Compensation` | reservations of compensations, approvals, executors, reconcilers, targets | |
| `ResolutionPlanning` | the registry, the context, a resolver that proposes anything, the validator | `Compensation` |
| `Simulator` | the five services, the ledger, the clock and the scenario runner | |
| `ManagedScenario` | the runner with and without the gateway | `Gateway`, `Simulator` |
| `MissingOrderScenarios` | the two scenarios of the repository | `ManagedScenario` |
| `MC*` | instances for TLC | their module |
| `*Proofs` | theorems and their proofs: `GatewayProofs` of `Reservations` too, `EvidenceProofs` of `EvidencePipeline` and `Receipts`, `CompensationProofs` of `ResolutionPlanning` too, `ManagedScenarioProofs` of `Simulator` too | their modules, `TLAPS` |
| `SumTheorems` | lemmas about sums over finite sets | `TLAPS` |

### Reservations

`resState`, `attempts` and `holder` are the operation and slot documents;
`Reserve` is the writing branch of `reserve()` with the decision table of
`evaluate_reservation_snapshot` (`ReservePlan`), `Transition` the compare-and-set
of `transition()` with its table (`Allowed`) and the slot document it deletes.
`Backend` selects between the two places where the repositories differ: whether
an existing slot document blocks by itself (Firestore) or only with a live
holder (memory), and whether evidence frees the slot of a failed operation (memory)
or not (Firestore). `overtaken` is a history variable: the slots in which a retry
of a failed operation was granted although a rival was live. The code does that
(section 5), so the properties say what is still true: everything, in the other
slots. `MaxAttempts` bounds `attempt_count`; nothing else is bounded.

### Gateway

A request `r` goes `start → begin → call → OK/TIMEOUT/FAILED → done`; `Abort`
ends it at any of these points, which is a crash, an exception, or a commit whose
reply was lost. `effected` and `uneffected` are facts about the world the code
does not see; `Call` chooses them, and a timeout chooses either. `Deliver`
ingests evidence of one source about one call: a second delivery is a no-op (the
evidence document exists), a first one resolves an unknown outcome, of whatever
attempt. `misread` is a history variable: operations resolved by evidence of
an older attempt.

### OutcomeAuthority and the refinement

`OutcomeAuthority` knows operations, who is authorised, and how often each took
effect. `Gateway` implements it with `authorized` mapped to the live operations
and `performed` to the number of effects, as long as no retry overtakes and no
evidence is misread (`OrderlyGatewaySpec`). Both exclusions are behaviours of
the code the violation runs exhibit. `KeepsAuthorityWhileOrderly` says the same of
every behaviour, step by step: a step before anything was overtaken or misread,
and that itself does neither, is one the abstract authority allows. Over the
simulator the memory repository implements `OutcomeAuthority` as it stands.

### Service

The handler of a request goes `received → deciding → decided → claimed → performed
→ recorded → over`: token and capability (`Reject`, `Admit`), `intercept`
(`Intercept`, with the steps of `Gateway`), `record_gateway_decision_claim`,
`external_execute`, `after_external_call`, `record_pending_claim` and the reply.
`Defer` is the interceptor's own handling of an exception, `Fail` any other
exception or a crash, possible between any two writes. The claims go to an instance
of `PactGraph` whose evidence is that which `Gateway` delivers: `Report` is one
transaction on both. `RequestId` is what a retry repeats. `Direct` requests are
of callers that use the interceptor without the service, with results the service
never hands it.

### PactGraph

One action for each transaction: `AppendClaim` and `IngestEvidence`. A piece of
evidence is a record of the fields the reducer reads; `Replaces` is
`should_replace_resolved`, `Evaluate` is `evaluate_graph` as a function of the root.
A settlement proof is written in the step that settles. Deliveries of a
stored document change nothing and are not steps. `IsEvidence` and `IsStateClaim`
say what may be appended at all.

### PactCompiler and EvidencePipeline

`Candidate` is what a model may answer: anything of the form of a
`CandidateOutcomePact`. `ResultOf` is `SemanticValidator.validate`, `Activatable`
the second check, made by `activate_validated_draft`. A text screened before is
refused (`ScreeningDefers`), whatever came of it then.

`EvidencePipeline` adds the documents a transaction creates beside the graph's
(`Creates`): they exist once, so an activation that resets the root under documents
that remain leaves a graph whose next append aborts until its revision has passed
them, which is never. The refund (`RefundMoves`) and the carrier move on their own
and publish; a published event stays deliverable for ever, by webhook or
subscription, in any order and any number of times, and a query's answer is
ingested later than it was given. `EventEvidence` and `QueryEvidence` are what the
pipeline makes of them, `ReplayClaim` what `record_replay_claims` says of an action.
An event carries a sequence number or not (`Numbering`; `evidence/pipeline.py:99`), and
the repository's producers leave it out (`src/scripts/prove_evidence_pipeline.py:84`).
An event is taken to name its attempt, as those producers do; `ingest_event` takes
one that does not for the first (`evidence/pipeline.py:98`), which is not modelled.

### Receipts

`Receipts` runs over the claims and evidence of `PactGraph`: each append and each
ingestion also extends `history`, the chain of claim documents, in the same
transaction (`AppendChained`, `IngestChained`), whose end is on the pact root. A
document has what it states (`stated`: resolution path and state, which stand for
the five fields of `normalized_claim_payload`) and a payload, which services give
their claims (`GivenPayload`) and `ChainClaim` makes of what is stated otherwise.
Hashed is the payload and not what is stated (`CanonicalBody`, `NormalizedPayload`). A
hash is modelled as the sequence of what it covers (`ClaimHash`), so equal hashes mean
equal content and nothing else is assumed of SHA-256; a claim's identity stands for the
other hashed fields; a signature is the identity of its signer. An issuer is
`scripts/prove_stage9_signed_settlement.py`, which reads the pact, the claims
and the evidence one after the other (`ReadPact`, `ReadClaims`, `ReadEvidence`) and
creates first the checkpoint and then the receipt, or
`scripts/reissue_stage9_receipt_with_participants.py`, which issues a receipt again
over a stored checkpoint; either may die between any two steps. The
reader is `_live_integrity` of the service (`ReadReceipts`, `ReadCheckpoint`,
`LiveProof`), interleaved with all of them. `refuted` is a history variable: the
receipts that reader failed to verify. `Presentable` are the histories somebody
may present instead: with a claim changed in its identity, its statement or its
payload, dropped, repeated or moved, with the hashes as they were or computed anew.

### InvariantEngine

Facts are recorded one by one (`Record`); an evaluator reads them all
(`Evaluate`, which refuses a current fact in another currency as
`EconomicReducer.reduce` and `ProtectionLedger.reduce` do) and stores its evaluation in one transaction
(`Persist`) at any later time or never (`Abandon`). `CurrentFacts` folds
`Supersede` over the facts in the order given, `EconomicPosition` is what `reduce`
adds up, with the value the protection events of these facts report
(`ReportableEvents`, `ProtectionSummary`), `OffendingFacts` has the facts each of the six rules that can fail fails on,
`SynthesizeLifecycle` is the function of that name. The three other rules never
fail: the completion rule answers UNKNOWN and the reversibility rule WARN, which
`WithoutFailures` takes into account, and a currency mismatch raises before its
rule is asked. A conflict's identity is its rule and its operations. The lifecycle
here is the recommendation on the root, not the one `PactGraph` writes.

### Compensation

`reserve()` is the one transaction, so `Reserve` is one action; everything else
is split where the code reads and where it writes: an invocation of `execute`
goes `Fetch → CheckApproval → Observe → CheckDependency → Commit → Call → Save`,
an approval is read (`RequestApproval`, `DecideApproval`) and written
(`PersistApproval`) in two steps, a reconciler likewise. `Call` is performed with or
without its response, lost, failed, or refused because the target has moved;
`MoveOn` is the outside world, where a ticket, unlike a label, stock or a credit, may
be closed again after it was reopened and reopened by others (`simulator/services.py:60`):
of a ticket, CONFIRMED says only that it was reopened, and `ConfirmedIsCompensated` leaves
tickets out. Only `compensation_overlapping` runs with one; the theorems allow any.
`overlapped` is a history variable: actions that
two invocations have worked on at a time.

### ResolutionPlanning

`BuildContext` reads which targets are eligible, a proposal is any `Candidate`, and
`Validate` lets a plan through unless `Rejected` names a reason, against the
context as it was and the conflicts as they are. `Validate` writes nothing else: the plan
is then reserved, approved and executed by the actions of `Compensation`, whose
constants the registry determines (`PlannedCompensations`). A proposal
that does not pass its schema is no step.

### Simulator and ManagedScenario

Each operation of a service is an operator that creates or moves an object and
enters it in the ledger (`Enter`), `Dispatch` the runner's choice of one. The clock
is a queue ordered by time and sequence (`Before`), on which the actions and the
settlement of refunds are scheduled; the contradiction is no entry of it but what
the services show when `advance_to` that time returns. What nobody
in the runner calls (`Accept`, `Cancel`, `Release`, `ReverseCredit`, ...) may happen
after the run, in any order. `PositionIn` is `EconomicLedger.position`.

`ManagedScenario` puts the runner's `InterceptionPort` between: a request of
`Gateway` is an action of a scenario, `Normalized` and `OperationOf` say which
operation it is, and the result is handed back (`ResultOf`). The runner is one
thread, so a request is handled to its end before the clock goes on, or until
the service raises and the run breaks off. `intercept` compares the amount of a
credit with the pact's limit, and no refund or label with the order
(`gateway/interceptor.py:110`), so the gateway alone does not keep the position near
the order: `ExposureContained` bounds it by what one remedy asks for.

## 3. Runs

| Run | Instance | Shows |
|---|---|---|
| `reservations_two_holders` | two operations | *violated*: ADR-002's one live holder per slot |
| `gateway_firestore` | three requests of a refund, one of the replacement it excludes, one policy refuses; two sources, five attempts; Firestore | live operations exclude each other unless overtaken; no duplicate effect, one remedy, executors own their authority; every orderly step is one the abstract authority allows |
| `managed_scenario` | every order of up to three of nine remedies, one above the order, after the ticket was opened, and the scenarios of `simulator/scenarios.py` at their own times; with and without the gateway; memory | the ledger agrees with the services and the snapshot with the ledger; one primary remedy, and no more given than it asks for and the goodwill; reservations agree with what was done; `OutcomeAuthority` is implemented; every scheduled settlement arrives |
| `service` | a refund asked for twice under one `request_id`, a replacement, an agent without the capability, a caller of its own | replies are truthful; effects are claimed before; PENDING and SETTLED have their authority; everybody is answered; unknown outcomes are resolved |
| `gateway_stale_evidence` | three requests of one operation | *violated*: zero duplicate consequential executions |
| `evidence_pipeline` | two tickets of one order, thirteen candidates, two attempts at a refund, four published events, its reversal with a sequence number or without, two claims | drafts activate; settlement is evidenced, on what took place, and once; a graph that has the event of the present state is right, but for a reversal that cannot be ordered against its success; facts count once; a second activation settles nothing |
| `pact_graph_stuck_pending` | a failed refund and a shipped replacement | *violated*: PENDING means evidence is missing |
| `receipts` | two issuers, a reader, one claim with a payload of its own and two pieces of evidence, either of which settles the pact; every presentable list | the chain never forks; receipts verify for ever; what verifies under one has the claims of the history, in order, with their payloads; the live proof holds; the pact settles in the end |
| `invariant_engine` | any three of the facts of `invariants/scenarios.py` and five more; two evaluators | the reduction ignores the order; documents agree with the root; SETTLED is sound; exposure without a conflict is bounded |
| `compensation_recovery` | a cancellation with two executors, the release that depends on it, a credit a human has to approve; two plans | releases follow cancellations, CONFIRMED is true, one call and nothing forgotten unless executors overlap |
| `compensation_approval` | proposals of any conflicts that lead to one credit, under two policy versions, and a settled refund for review | a target is compensated once; calls only under their own approval |
| `compensation_overlapping` | two executors of one ticket's reopening | *violated*: one call per compensation |

**Why the bounds are enough.** Every property of `Reservations` and `Gateway`
relates two operations or two requests; a slot conflict needs two operations, an
overtaking retry a second attempt, misread evidence a second attempt and its
harm a third request. The instance has at least that many. `MaxAttempts` is 5, one
for each request, so it never cuts a behaviour off (in `managed_scenario` 20, of
which no scenario needs more than three). In `service` two requests of one
`request_id` make every repeated claim, a third competes, and the caller of its own
brings the results the service never produces. The refund of `evidence_pipeline`
fails, is tried again and succeeds, or succeeds and is reversed, which takes two attempts
and four events (`MaxAttempt`, `MaxHappened`); one answer held at a time (`MaxAnswers`)
may still be overtaken by all of them. The reversal may come
with a number or without (`MCNumbering`), which decides whether it can be ordered against
its success; of the other types no two of one source have the same attempt and rank, so
their numbers change nothing. Two tickets make a second activation,
and the candidates reach every reason to reject. In `receipts` two issuers suffice for two
that read the same chain or two different ones, and the two pieces of evidence (a
query's of the first attempt, the system of record's of the second) change what a
receipt reports between any two of an issuer's reads; `MaxCheckpoints` is 2, one for
each issuer. The claim has a payload of its own and those of the evidence have none; lists
differ from the history in one place, and the theorem has any list. In `managed_scenario` one refund
asks for half as much again as the order. Three facts at a time (`MaxFacts`) make every conflict of two facts
with a third recorded meanwhile, and it takes two evaluators to store something
old over something new. A compensation has two invocations at a time, two plans
(`MaxPlans`), two policy versions and one dependency; nothing in the code counts
further. Amounts in scenarios and facts are in units of 50 dollars, of which all
amounts of the repository's scenarios are multiples; times are those of the
scenarios. Requests of one operation, evaluators, and the two executors of a
cancellation are interchangeable (`SYMMETRY`, in runs without liveness). Type
invariants are proved and not run, and so are some invariants that help the proofs
(section 4).

**Deadlock.** Requests, evidence, attempts, actions and invocations are finite in
every instance, and when they are used up the system rightly stops: all runs
set `CHECK_DEADLOCK FALSE`. `EveryCallAnswered`, `SettlementsArrive` and
`SettlesEventually` say that it does not stop too early.

**Fairness.** `FairServiceSpec` is weak fairness of the steps of each request (a
running handler goes on; failures are never forced, and never forbidden) and of each
delivery (`evidence/pubsub.py` ingests it; the subscriber acknowledges only after
the transaction commits, and a failure before that is redelivered:
`docs/architecture/evidence-pipeline.md:50`). `FairReceiptsSpec` is the same of ingestion;
claims need not come and no issuer needs to run. `ManagedSpec` has weak fairness of
the runner's steps: `ScenarioRunner.run` is a loop on one thread. No fairness is
assumed of retries, agents, operators or humans.

**Mutants.** Definitions marked *Mutant* are the same operation with a
plausible bug. Each property of a passing run is violated when its mutant takes
the operation's place, so none of them holds by construction.

## 4. Theorems

They are of the form `Spec => []Inv`, `Spec => [][A]_vars`, or `Spec => Abstract!Spec`
for a refinement, for every value of the constants that satisfies the named
assumptions of the modules: the constants are of their kinds, special values are
not members, there are no more requests than attempts the counter may count, no
two facts have the same time and identifier, and a plan's compensations are those of the
registry (`ReservationAssumption`, `GatewayAssumption`, `PactGraphAssumption`,
`ServiceAssumption`, `GraphAssumption`, `CompilerAssumption`, `PipelineAssumption`,
`ReceiptsAssumption`, `InvariantAssumption`, `CompensationAssumption`, `PlanningAssumption`,
`PlannedCompensations`, `SimulatorAssumption`, `ManagedScenarioAssumption`). TLC evaluates
each of them on its instance.

Every safety property of every passing run is stated by a theorem.

- **Reservations** (`GatewayProofs`): `ReservationTypeOK`, `LiveHoldsSlot`, `ExclusiveUnlessOvertaken`, `HolderAccurate`, `SlotChangesHandsBySelf`. The inductive invariant `ReservationInv` is type correctness with `LiveHoldsSlot` and `HolderAccurate`: exclusivity is not inductive by itself, since a reservation looks at the slot document and not at its rivals; it is, once a live operation is known to be named there. Every action of the repository is shown to be a reservation, a transition of a live operation, or the Firestore evidence update, and the invariant is proved for these three.
- **Gateway** (`GatewayProofs`): `GatewayTypeOK`, `ExecutorOwnsAuthority`, `EffectKeepsAuthority`, `NoDuplicateEffect`, `OneEffectPerSlot`, and that `OrderlyGatewaySpec` implements `OutcomeAuthority` (`KeepsOutcomeAuthority`), with `Cardinality` of the effects counted; that any orderly step is one of the abstract authority, in behaviours that are not orderly as well (`KeepsAuthorityWhileOrderly`). Besides the repository's invariant, `GatewayInv` has that the attempt a request was granted under identifies it among the requests of its operation, and that the effect of a call that was made is known to the world: without them a second request could be in the middle of a call the invariant says nothing about.
- **PactGraph** (`PactGraphProofs`): `GraphTypeOK`, `SettlementIsEvidenced`, `NeverOutranked`, `SettlementIsFinal`, `OpenNeedsNewWork`. The strengthening is that a projection is ingested evidence about its own operation.
- **Service** (`ServiceProofs`): `ServiceSpec` implements `GatewaySpec` and the `Spec` of `PactGraph` (`ServiceImplementsGateway`, `ServiceImplementsGraph`), so the invariants of both parts hold of it. `ServiceInv` adds, for each request, what its handler has done by the stage it is at (`RequestInv`), and that of the retries under one `request_id` only one gets past its decision claim (`OneOwner`); the service hands the interceptor no timeout and no failure, so a grant it holds stays (`HoldsStable`). Hence `RepliesTruthful` and `EffectsAreClaimed`. `ServiceGraphInv` has that evidence on the graph is of calls with that outcome (`EvidenceTrue`) and that a PENDING pact is backed by somebody who holds its path or by a success on it (`PendingBacked`). Hence `SettledHoldsAuthority`, and of `PendingHasAuthority` two forms: under any policy, the operation waited for holds authority or evidence about it was misread (`PendingHasAuthorityOrMisread`); and the property of the run, where policy accepts what the sources report (`PolicyTakesSources`, true of the run's refund policy): otherwise a success the policy does not accept leaves the pact waiting after an older failure of the same operation has taken its authority.
- **EvidencePipeline** (`EvidenceProofs`): `EveryDraftActivates`, from what a compiled draft is made of (`DraftsOK`); `SettlementStands`; and from `PipelineInv`, for any number of attempts, deliveries and queries: `SettlementIsEvidenced`, `SettledMeansPaid`, `ReactivatedStaysOpen`, `FactsCountedOnce`, `CaughtUpIsTrue`. Its parts are what the published events tell of the payment system (`HistoryInv`: one of them tells the present state, and events of one attempt that carry numbers come in their order), that whatever is ingested, or answered and not yet ingested, was published or read there (`EvidencePublished`), and the graph (`RootInv`): until its root is reset under its documents it is one of `PactGraph`'s, and the refund's projection is the last event ingested of its attempt, or a success that a later reversal could not be ordered against for want of a number. That last conjunct is what makes `CaughtUpIsTrue` independent of the order of delivery, where there are numbers; the invariant of `PactGraph` only says the projection was not outranked.
- **Receipts** (`EvidenceProofs`): `ChainUnforked`, `IssuedReceiptsVerify`, `ReportedStatesCommitted`, `LiveProofHolds`, `VerifiedListAgrees`. `ChainInv` says that each stored claim document is chained to the one before and the head on the root is the last of them; `ArtifactInv` relates everything an issuer or the reader holds to the history it was read from. Since the history only grows, what was true of it when it was read stays true of a prefix. `VerifiedListAgrees` rests on `TerminalHashDetermines`: two chains that verify, of one length and with one terminal hash, agree in all that is hashed, by least-number induction from the end downwards. Of what a document states beside its payload nothing is proved: it is not hashed (section 5).
- **InvariantEngine** (`InvariantEngineProofs`): `ReducerKeepsLatest` says that of any sequence of facts `CurrentFacts` keeps the latest of each object, hence `CurrentIsLatest`; the order in which facts supersede each other is shown to be total and transitive, so that each object has a latest fact (`Covered`), by least-number induction over the sequence. `EngineInv` (documents agree with the root, the root is what the engine made of the snapshot it names, evaluators hold subsets of the ledger) gives `InvariantTypeOK`, `OpenConflictsAgree`, `ConflictHistoryKept`, `SettledIsSound` and `DualRemedyIsViolation` for any facts, policy and evaluators. `ExposureBounded` splits the total of what is active into refunds, goodwill and other exceptions; refunds and goodwill are each bounded by a rule that did not fail.
- **Compensation** (`CompensationProofs`): `CompensationTypeOK`, `ApprovedCallsOnly`, `ReleaseAfterCancel`, `ConfirmedIsCompensated`, however executors overlap; `OneEffectPerTarget`, which no coordination of executors is needed for, since a port refuses a target that is not eligible any more; and, of the actions no two executors have worked on at a time, `OneCallUnlessOverlapped`, `CompensatedIsNotForgotten`, `FinalAnswersStand`. The first group rests on what an invocation that got past a check has seen (`ApprovalInv`, `TargetInv`) and on `target = "compensated"` being stable, but for tickets; the second on `AloneInv`: an invocation alone on its action knows its document, until a reconciler, which only touches an unknown outcome.
- **ResolutionPlanning** (`CompensationProofs`): `PlanningSpec` implements the `Spec` of `Compensation`, so every theorem there holds of what any resolver proposes; `ApprovedCallsOnly` and `OneEffectPerTarget` are stated.
- **Simulator and ManagedScenario** (`ManagedScenarioProofs`), for any scenario of any length and amounts. `ScenarioInv` has the clock (what is queued is due now or later), that each object is made once and by its own action, for that action's amount (`ObjectsMadeOnce`, `AmountsKept`), that no entry is dated later than now, and `BookInv`: the last entry of each object says what the object is, and no entry is about anything else. Then the ledger's sums and the services' are sums over sets that correspond one to one, whence `BooksMatchServices`; `CheckpointStands` because an entry made after the checkpoint is dated after it. `GatewayLink` says that with the gateway no operation is granted twice, a refused request is never granted, and what is inside a service was effected; with it `ManagedSpec` implements `OrderlyGatewaySpec` (`ScenariosPlayTheGateway`) and so `OutcomeAuthority` (`KeepsOutcomeAuthority`), and `ReservationsMatchServices` holds. `OnePrimaryRemedy` and `ExposureContained` then follow from the gateway's `OneEffectPerSlot` and `NoDuplicateEffect`: two objects of one slot would be two effects in it. The amounts are any: what the gateway bounds is how many remedies there are, and the credit.
- **Sums** (`SumTheorems`): a sum over a finite set does not depend on the order in which its elements are taken (`SumTakesAny`), and what follows for unions of disjoint sets (`SumOfUnion`) and one-to-one images (`SumOfImage`). The definition picks elements with CHOOSE, so its recursion equation has to be proved first.

Proved and not run: the type invariants, `LiveHoldsSlot`, `HolderAccurate`,
`SlotChangesHandsBySelf`, `EffectKeepsAuthority`, `NeverOutranked`, `SettlementIsFinal`,
`OpenNeedsNewWork`, `PendingHasAuthorityOrMisread`, `ReportedStatesCommitted`, `ConflictHistoryKept`,
`DualRemedyIsViolation`, `FinalAnswersStand`.

Only model-checked: the liveness properties `EveryCallAnswered`, `PendingEvidenceResolves`,
`SettlementsArrive` and `SettlesEventually`, since liveness under fairness and
`ENABLED` are outside what the prover handles. No module
uses RECURSIVE operators, which the prover does not handle. The library's induction
theorems cannot be used either, as they take an operator; where a theorem is
about every sequence or every finite set, the proof takes the least counterexample
(`LeastNumber`, `FiniteInduction`) and derives a contradiction.

## 5. Disagreements between code and documents

Shown by a violation run, and listed under `findings`:

1. A retry of a failed operation sets the slot document without reading it, so two rivals are live at once (`reservations_two_holders`; `reservations/firestore.py:185`, ADR-002).
2. Evidence resolves a reservation by operation alone: a late failure of attempt 1 fails attempt 2, whose effect took place, and a third request repeats it (`gateway_stale_evidence`; `evidence/firestore.py:294`, system contract).
3. A claim may select a path whose evidence is already in; the pact stays PENDING (`pact_graph_stuck_pending`; `evidence/firestore.py:124`, pact-graph.md).
4. Executors that overlap both call (`compensation_overlapping`; `resolver/engine.py:106`, compensation-registry.md).

Met while modelling and visible in the models, without a run of their own:

- The hash of a claim does not cover the resolution path, state, evidence rank, subject and object it states beside its payload (`evidence/canonical.py:56`); services give their claims payloads that do not repeat all of them (`src/services/outcome_gateway/main.py:209`, `:240`), and a list in which they differ from the history verifies. `docs/architecture/tamper-evidence.md:7` says "The hash body excludes only `claim_hash`", and line 23 "Tamper evidence detects mutation, deletion, insertion, reordering and substitution after commitment". `src/scripts/prove_stage9_signed_settlement.py:95` reads the path from there. `CanonicalBody` shows it; `VerifiedListAgrees` is what holds.
- Two source-of-record events of one attempt without sequence numbers and with different states are kept by arrival (`evidence/reducer.py:65`, and `evidence/pipeline.py:99` where the number is optional), where `docs/architecture/pact-graph.md:49` says "Arrival order is not a truth source". `Supersedes` shows it, and `CaughtUpIsTrue` allows for it (`Unordered`).
- Firestore evidence that fails an unknown outcome leaves the slot document behind (`evidence/firestore.py:299`), where `docs/architecture/firestore-reservations.md:47` has it released; `ReconcileByEvidence` and the third conjunct of `HolderAccurate` show the difference.
- Evidence that arrives while its operation is EXECUTING is consumed without effect, and the outcome recorded as unknown afterwards is not resolved by a redelivery (`evidence/firestore.py:289`, ADR-004); hence `EvidencePending` in `PendingEvidenceResolves`.
- No amount of a refund or a label is compared with the order (`gateway/interceptor.py:110`); a single refund above it is allowed, and the position then exceeds the order by more than the goodwill limit. `ExposureContained` says what is bounded.
- A claim appended after settlement moves `selected_resolution` away from the proof (`evidence/firestore.py:124`), and a proof projects the operation of the last evidence, whichever path it is of (`evidence/firestore.py:337`).
- Two approvers can both decide one approval (`resolver/engine.py:48`).
- An issuer that dies between storing the checkpoint and storing the receipt leaves a checkpoint whose receipt cannot be issued: every later run fails to create the same checkpoint until another claim is appended (`src/scripts/prove_stage9_signed_settlement.py:318`). `CreateCheckpoint` and `AbandonIssue` show it; the reader is not harmed (`LiveProofHolds`).
- An evaluation of older facts stored after one of newer facts moves the lifecycle and the open conflicts back, and marks conflicts that still stand RESOLVED (`invariants/firestore.py:49`); `persist` compares no revision.
- A conflict's identity contains the operations it fails on (`invariants/engine.py:161`): one that gains an operation is a new document with a new `first_detected_at`, and the former is RESOLVED although nothing was resolved; one that is found again after it was resolved is dated anew (`invariants/firestore.py:40` looks at open ones only). Hence "as long as it stays open" in `ConflictHistoryKept`.
- The currency rule cannot fail: `EconomicReducer.reduce` raises before any rule is asked (`invariants/economics.py:134`), so a mismatch is an exception and never a conflict.
- Replacements have no value bound: `ExposureBounded` holds only without them.
- A cancellation confirmed under another plan of the same conflicts does not free the release that depends on it (`resolver/engine.py:102`).
- A plan that releases the stock without cancelling the label passes the validator (`resolver/validator.py:51` asks for states only), and its release then always ends PRECONDITION_FAILED (`resolver/engine.py:102`).
- A registry action is bound to the first target of its system, whatever state that is in (`resolver/context.py:15`), so an eligible second target is not reached; `TargetFor` shows it.
- The selection is hashed in the order of the proposal (`resolver/validator.py:54`): the same actions in another order are another plan. A rejected proposal may have the `plan_id` of a valid one, whose document its own then overwrites (`resolver/repository.py:69`).
- A request repeated under its `request_id` finds the decision claim of the first with another content and is answered 400 (`services/outcome_gateway/main.py:301`, `evidence/firestore.py:111`), after its reservation went to EXECUTING, where it stays; `RecordDecision` shows it.
- The decision claim is ACCEPTED before the external call; a call that then fails leaves a pact that waits (`services/outcome_gateway/main.py:301`). `PendingHasAuthority` says what is still true of it.
- The reply 503 says `external_call_executed: false` after a call that took effect (`services/outcome_gateway/main.py:372`); hence "every reply but 503" in `RepliesTruthful`.
- A pact activated a second time has its root reset under claims, evidence, evaluations and proofs that remain (`evidence/firestore.py:70`); every later append aborts on an evaluation that exists. A settled pact is OPEN then, where `docs/architecture/system-contract.md:31` has SETTLED "Terminal except a new, explicitly linked escalation/correction case". `ReactivatedStaysOpen` says what the graph is then.
- A text is screened once: when the model fails after its screening was recorded, compiling the same text again is refused for good (`security/model_armor.py:55`).
- An event and a query's answer about it are two economic events (`evidence/firestore.py:250`), where `docs/architecture/pact-graph.md:18` has them deduplicated; `FactsCountedOnce` is of events alone. A query reports attempt 1 whatever attempt the refund is in (`evidence/query.py:26`), so it never replaces what is known of a later one.
- A refund whose settlement is scheduled in the past is created and booked, and then raises (`simulator/services.py:139`, `simulator/clock.py:31`): the run breaks off and the reservation stays EXECUTING, which `ReservationsMatchServices` allows for.

## 6. Not modelled

- *Cryptography*: signatures of webhooks, tokens and receipts accept or refuse before, or are the identity of their signer; secrets, the age of a signature and key rotation are left out. The models say what follows from acceptance and refusal.
- *The agents themselves* (`agents/fleet.py`): prompts, model providers, tool inventories, tracing. What they can do to the system is any sequence of requests with any token, which is what `Service` has.
- *Normalisation of text and hashing*: an operation is the record of what is hashed (`OperationOf`), so a collision of SHA-256 and the folding of case and blanks by `_token` are not covered.
- *Read-only endpoints* of the service other than the live proof, which change nothing; `activate` and `cleanup_pact` of the reservation repository, test setup and teardown.
- *Observability*, the web front end, deployment, and the scripts that call what is modelled and print it.
- *Documents nothing reads*: deliveries, participants, evaluations, plans, approval decisions. Names, wording, timestamps where nothing compares them.

Inside the models, one pact at a time: no transaction of the code touches two.
What is left to TLC alone is liveness (section 4).
