-------------------------- MODULE EvidencePipeline --------------------------
(***************************************************************************)
(* How a pact is activated and how evidence reaches its graph.  The        *)
(* payment system and the carrier move on their own and publish what       *)
(* happens; webhooks and a Pub/Sub subscription deliver each event any     *)
(* number of times, late, in any order or never.  A query reads the state  *)
(* of the refund, and its answer is ingested later.  Participants claim    *)
(* what they believe.  The ticket compiled first activates the pact, and a *)
(* second ticket of the same order activates it again.                     *)
(*                                                                         *)
(* Each append and each ingestion is one transaction that creates the      *)
(* evaluation of its revision and, when it settles, the proof of the       *)
(* generation: it aborts when such a document exists.                      *)
(*                                                                         *)
(* Abstracted: signatures and their age (an event a webhook refuses is not *)
(* delivered), delivery records, and the amounts of economic events.  An   *)
(* event may come without a sequence number, but names its attempt, as the *)
(* repository's producers do; ingest_event takes it for the first one      *)
(* otherwise.                                                              *)
(***************************************************************************)
EXTENDS PactCompiler, PactGraph

CONSTANTS
  Order,        \* the order the pact is about
  MaxAttempt,   \* bound on attempts at the refund
  MaxHappened,  \* bound on what the systems of record publish
  MaxAnswers,   \* bound on answers held at once
  CarrierEvents,\* what the carrier publishes of the replacement
  Numbering     \* by type, whether events carry their number: TRUE, FALSE or either

VARIABLES
  pact,        \* fields of the root that activation alone writes
  revision,    \* graph_revision
  evaluated,   \* settlement_evaluations: the documents 1..evaluated exist
  refund,      \* state of the refund at the payment system
  attempt,     \* the attempt it is in
  happened,    \* the events published, in the order of their happening
  answers      \* answers to queries not ingested yet

rootVars == <<pact, revision, evaluated>>
worldVars == <<refund, attempt, happened>>
pipelineVars == <<compilerVars, vars, rootVars, worldVars, answers>>

PipelineInit ==
  /\ CompilerInit
  /\ Init
  /\ pact = NoPact
  /\ revision = 0
  /\ evaluated = 0
  /\ refund = "NONE"
  /\ attempt = 0
  /\ happened = <<>>
  /\ answers = {}

-----------------------------------------------------------------------------
(* EVENT_RULES: what an event type says, and on whose word.                *)
Rule(type) ==
  CASE type = "stripe.refund.succeeded" ->
         [source |-> "stripe", path |-> "successful_refund", state |-> "SUCCEEDED", rank |-> 1]
    [] type = "stripe.refund.failed" ->
         [source |-> "stripe", path |-> "successful_refund", state |-> "FAILED", rank |-> 1]
    [] type = "stripe.refund.reversed" ->
         [source |-> "stripe", path |-> "successful_refund", state |-> "REVERSED", rank |-> 1]
    [] type = "stripe.refund.pending" ->
         [source |-> "stripe", path |-> "successful_refund", state |-> "PENDING", rank |-> 3]
    [] type = "carrier.shipment.accepted" ->
         [source |-> "carrier", path |-> "confirmed_replacement", state |-> "SUCCEEDED", rank |-> 1]

Supported == {"stripe.refund.succeeded", "stripe.refund.failed", "stripe.refund.reversed",
              "stripe.refund.pending", "carrier.shipment.accepted"}

(* Mutant: the identity of evidence contains how it was delivered.         *)
LogicalEvidenceIdByDelivery(i, mechanism) == <<mechanism, i>>

(* logical_evidence_id: of the event, whoever delivers it.                 *)
LogicalEvidenceId(i, mechanism) == <<"event", i>>

(* The evidence ingest_event makes of the i-th event.                      *)
EventEvidence(i, mechanism) ==
  LET rule == Rule(happened[i].type)
  IN  [id |-> LogicalEvidenceId(i, mechanism), type |-> happened[i].type,
       op |-> rule.path, path |-> rule.path, source |-> rule.source,
       state |-> rule.state, rank |-> rule.rank, attempt |-> happened[i].attempt,
       sequence |-> IF happened[i].numbered THEN i ELSE NoSequence, time |-> i]

(* The evidence a query makes of the refund as it is: always of attempt 1,  *)
(* and without a sequence number.                                          *)
QueryEvidence ==
  [id |-> <<"query", refund, Len(happened)>>,
   type |-> CASE refund = "SUCCEEDED" -> "stripe.refund.succeeded"
              [] refund = "FAILED"    -> "stripe.refund.failed"
              [] OTHER                -> "stripe.refund.pending",
   op |-> "successful_refund", path |-> "successful_refund", source |-> "stripe",
   state |-> refund, rank |-> 2, attempt |-> 1, sequence |-> NoSequence,
   time |-> Len(happened)]

(* What the pipeline may ever ingest; a rank below 3 is a source's own word. *)
PipelineEvidence ==
  [id : ({"event"} \X Nat) \cup ({"query"} \X ImmediateState \X Nat),
   type : Supported, op : PrimaryPath, path : PrimaryPath, source : {"stripe", "carrier"},
   state : ImmediateState, rank : 1..3, attempt : Nat,
   sequence : Nat \cup {NoSequence}, time : Nat]

(* The trusted policy of a missing order, and a carrier that does not speak  *)
(* for the payment system.                                                  *)
ASSUME PipelineAssumption ==
  /\ PrimaryPath = {"successful_refund", "confirmed_replacement"}
  /\ PrimaryPath \subseteq Operation
  /\ RequiredType["successful_refund"] = {"stripe.refund.succeeded"}
  /\ RequiredType["confirmed_replacement"] = {"carrier.shipment.accepted"}
  /\ \A type \in CarrierEvents \cup Supported : Numbering[type] \subseteq BOOLEAN
  /\ CarrierEvents \cap Supported \subseteq {"carrier.shipment.accepted"}
  /\ NoEvidence \notin PipelineEvidence

(* What ingest_evidence makes of evidence, once, along with the evidence.   *)
EconomicEvent(e) ==
  [evidence |-> e.id, kind |-> e.path,
   phase |-> IF e.state = "SUCCEEDED" THEN "SETTLED" ELSE "FAILED", occurred |-> e.time]

EconomicEvents ==
  {EconomicEvent(e) : e \in {e \in ingested : e.rank <= 2 /\ e.state \in {"SUCCEEDED", "FAILED"}}}

(* record_replay_claims: what is claimed of an action a scenario replayed,  *)
(* by its target, whether it was carried out and the object it left.        *)
ReplayClaim(result) ==
  [path |-> CASE result.tool = "create_refund"                  -> "successful_refund"
              [] result.system \in {"carrier", "warehouse"} -> "confirmed_replacement"
              [] OTHER                                       -> NoPath,
   state |-> CASE ~result.executed              -> "UNKNOWN"
               [] result.object = "PENDING"     -> "PENDING"
               [] result.tool = "close_ticket"  -> "CLOSED"
               [] OTHER                         -> "ACCEPTED"]

-----------------------------------------------------------------------------
(* The systems of record: a refund that fails may be tried again, one that  *)
(* succeeded may be reversed.                                              *)
Publish(type, n) ==
  \E numbered \in Numbering[type] :
    happened' = Append(happened, [type |-> type, attempt |-> n, numbered |-> numbered])

Moves ==
  {<<"NONE", "PENDING">>, <<"PENDING", "SUCCEEDED">>, <<"PENDING", "FAILED">>,
   <<"FAILED", "PENDING">>, <<"SUCCEEDED", "REVERSED">>}

TypeOf(state) ==
  CASE state = "PENDING"   -> "stripe.refund.pending"
    [] state = "SUCCEEDED" -> "stripe.refund.succeeded"
    [] state = "FAILED"    -> "stripe.refund.failed"
    [] state = "REVERSED"  -> "stripe.refund.reversed"

RefundMoves(state) ==
  /\ Len(happened) < MaxHappened
  /\ <<refund, state>> \in Moves
  /\ attempt' = IF state = "PENDING" THEN attempt + 1 ELSE attempt
  /\ attempt' <= MaxAttempt
  /\ refund' = state
  /\ Publish(TypeOf(state), attempt')
  /\ UNCHANGED <<compilerVars, vars, rootVars, answers>>

(* The carrier may publish more than the pipeline supports.                *)
ShipmentMoves(type) ==
  /\ Len(happened) < MaxHappened
  /\ \A i \in DOMAIN happened : happened[i].type # type
  /\ Publish(type, 1)
  /\ UNCHANGED <<compilerVars, vars, rootVars, refund, attempt, answers>>

-----------------------------------------------------------------------------
(* Mutant: documents that exist are overwritten.                           *)
CreatesOverwriting(settles) == pact # NoPact

(* The transaction finds the pact active and its documents new.            *)
Creates(settles) ==
  /\ pact # NoPact
  /\ revision + 1 > evaluated
  /\ settles => proofs = {}

Committed ==
  /\ Creates(lifecycle # "SETTLED" /\ lifecycle' = "SETTLED")
  /\ revision' = revision + 1
  /\ evaluated' = IF revision + 1 > evaluated THEN revision + 1 ELSE evaluated
  /\ UNCHANGED pact

(* record_claim, record_text_claim                                         *)
RecordClaim(c) ==
  /\ AppendClaim(c)
  /\ Committed
  /\ UNCHANGED <<compilerVars, worldVars, answers>>

(* ingest_event refuses a type it has no rule for.                         *)
IngestEvent(i, mechanism) ==
  /\ happened[i].type \in Supported
  /\ IngestEvidence(EventEvidence(i, mechanism))
  /\ Committed
  /\ UNCHANGED <<compilerVars, worldVars, answers>>

(* The webhook takes the payment system's events only.                     *)
DeliverByWebhook(i) ==
  /\ happened[i].type \in Supported => Rule(happened[i].type).source = "stripe"
  /\ IngestEvent(i, "webhook")

(* A subscriber acknowledges what it has ingested, and what it did not ask  *)
(* for; what it fails on comes again.                                      *)
DeliverBySubscription(i) == IngestEvent(i, "pubsub")

(* A query knows three states; it raises on a refund that was reversed.    *)
Query ==
  /\ refund \in {"PENDING", "SUCCEEDED", "FAILED"}
  /\ Cardinality(answers) < MaxAnswers
  /\ QueryEvidence \notin answers \cup ingested
  /\ answers' = answers \cup {QueryEvidence}
  /\ UNCHANGED <<compilerVars, vars, rootVars, worldVars>>

IngestVerifiedQuery(e) ==
  /\ e \in answers
  /\ IngestEvidence(e)
  /\ Committed
  /\ answers' = answers \ {e}
  /\ UNCHANGED <<compilerVars, worldVars>>

(* activate_graph sets the root as if the pact were new, and deletes none  *)
(* of its documents.                                                       *)
ActivateGraph(t) ==
  /\ Activate(t)
  /\ draft[t].order = Order
  /\ pact' = PactFrom(draft[t], CaseOf[t])
  /\ revision' = 0
  /\ lifecycle' = "OPEN"
  /\ selected' = NoPath
  /\ resolved' = [o \in Operation |-> NoEvidence]
  /\ transitions' = 0
  /\ UNCHANGED <<ingested, claims, evaluation, proofs, evaluated, worldVars, answers>>

CompileStep(t) ==
  /\ \/ CompileFails(t)
     \/ \E candidate \in Candidate : Compile(t, candidate)
  /\ UNCHANGED <<vars, rootVars, worldVars, answers>>

(* The draft is of another order, hence of another pact.                   *)
ActivateOther(t) ==
  /\ Activate(t)
  /\ draft[t].order # Order
  /\ UNCHANGED <<vars, rootVars, worldVars, answers>>

PipelineNext ==
  \/ \E t \in Ticket : CompileStep(t) \/ ActivateGraph(t) \/ ActivateOther(t)
  \/ \E state \in {"PENDING", "SUCCEEDED", "FAILED", "REVERSED"} : RefundMoves(state)
  \/ \E type \in CarrierEvents : ShipmentMoves(type)
  \/ \E c \in Claim : RecordClaim(c)
  \/ \E i \in DOMAIN happened : DeliverByWebhook(i) \/ DeliverBySubscription(i)
  \/ Query
  \/ \E e \in answers : IngestVerifiedQuery(e)

PipelineSpec == PipelineInit /\ [][PipelineNext]_pipelineVars

-----------------------------------------------------------------------------
(* The root was reset under documents that remain.                         *)
Behind == revision < evaluated

(* A draft the validator passed is one the activation takes: their two     *)
(* checks of subjects and paths, against the same case, agree whatever the *)
(* model answered.                                                         *)
EveryDraftActivates ==
  \A t \in Ticket : status[t] \in {"VALID", "ACTIVE"} => Activatable(draft[t], CaseOf[t])

(* A pact settles on what took place: by its refund only if the payment    *)
(* system had paid, by its replacement only if the carrier had accepted    *)
(* the parcel, whatever was claimed, queried, late or delivered twice.     *)
SettledMeansPaid ==
  \A p \in proofs :
    LET type == IF p.selection = "successful_refund"
                THEN "stripe.refund.succeeded" ELSE "carrier.shipment.accepted"
    IN  \E i \in DOMAIN happened : happened[i].type = type

(* The success and the reversal of the present attempt cannot be put in    *)
(* order: one of them carries no number.                                   *)
Unordered ==
  /\ refund = "REVERSED"
  /\ \E i \in DOMAIN happened :
       /\ happened[i].attempt = attempt
       /\ happened[i].type \in {"stripe.refund.succeeded", "stripe.refund.reversed"}
       /\ ~happened[i].numbered

(* With the event of its present state in, whatever else came before or    *)
(* after it, late, twice or never, the graph knows the refund as the       *)
(* payment system does; only a reversal that cannot be ordered against its *)
(* success may leave that success standing.                                *)
CaughtUpIsTrue ==
  LET seen == {i \in DOMAIN happened : \E e \in ingested : e.id = <<"event", i>>}
      kept == resolved["successful_refund"]
  IN  /\ ~Behind
      /\ refund # "NONE"
      /\ \A i \in DOMAIN happened : happened[i].type = TypeOf(refund) => i \in seen
      => /\ kept # NoEvidence
         /\ kept.attempt = attempt
         /\ kept.state = refund \/ (Unordered /\ kept.state = "SUCCEEDED")

(* The economic events made of one published event are one, through how    *)
(* many deliveries of both kinds it may come.                              *)
FactsCountedOnce ==
  \A e, f \in EconomicEvents :
    e.occurred = f.occurred /\ "query" \notin {e.evidence[1], f.evidence[1]} => e = f

(* A pact activated again under documents that remain takes in nothing: it *)
(* does not settle a second time, and its root stays as activation left it.*)
ReactivatedStaysOpen ==
  Behind => /\ lifecycle = "OPEN"
            /\ selected = NoPath
            /\ \A o \in Operation : resolved[o] = NoEvidence

(* A settlement is proved once, over all activations, and its proof stands. *)
SettlementStands == [][proofs # {} => proofs' = proofs]_pipelineVars
=============================================================================
