-------------------------------- MODULE Service --------------------------------
(***************************************************************************)
(* The outcome gateway service: an HTTP handler that authenticates an agent, *)
(* puts its action to the interceptor, appends the decision to the pact      *)
(* graph, calls the external adapter, records the outcome, appends what the  *)
(* adapter answered, and replies.  It composes Gateway, whose requests some  *)
(* callers of the interceptor make directly, with PactGraph, whose claims    *)
(* are the handler's and whose evidence is that which Gateway delivers.      *)
(*                                                                          *)
(* Each step is one Firestore transaction or one write; a request stops      *)
(* between any two of them, with an error reply or with none.  Abstracted:   *)
(* what makes a token valid, bodies (well formed or not), timings and the    *)
(* fields of a reply.                                                        *)
(***************************************************************************)
EXTENDS Gateway

CONSTANTS
  Direct,       \* requests of callers that use the interceptor themselves
  TokenOf,      \* bearer token of a request: its subject, and whether it verifies
  RoleOfSubject,\* AGENT_SUBJECTS: roles of the subjects the service knows
  NoRole,       \* what the caller of a request has who is not authenticated
  KindOf,       \* action_kind of a request
  RequestId,    \* request_id in the body: a retry repeats it
  Malformed,    \* requests whose body or identifiers are refused
  PathOf,       \* resolution path of an operation
  Path, PrimaryPath, NoPath, NoEvidence, NoSequence, MaxRank, RequiredType,
  RankOf        \* evidence rank of a source

Kind == {"refund", "replacement", "goodwill"}

AgentRole == {"SUPPORT", "FULFILLMENT", "RETENTION", "RESOLVER"}

(* CAPABILITY_MATRIX, as far as it lets a role act.                         *)
Capable(role, kind) ==
  \/ role = "SUPPORT" /\ kind = "refund"
  \/ role = "FULFILLMENT" /\ kind = "replacement"
  \/ role = "RETENTION" /\ kind = "goodwill"

ASSUME ServiceAssumption ==
  /\ Direct \subseteq Request
  /\ DOMAIN TokenOf = Request \ Direct
  /\ \A r \in Request \ Direct : TokenOf[r].valid \in BOOLEAN
  /\ \A subject \in DOMAIN RoleOfSubject : RoleOfSubject[subject] \in AgentRole
  /\ KindOf \in [Request \ Direct -> Kind]
  /\ DOMAIN RequestId = Request \ Direct
  /\ PathOf \in [Operation -> Path]
  /\ PrimaryPath \subseteq Path /\ NoPath \notin Path
  /\ RankOf \in [Source -> 1..2]

Called == Request \ Direct

VARIABLES
  handler,     \* where the handler of each request stands
  reply,       \* status of the reply, "NONE" before it; 503 stands for none as well
  objects,     \* operations that have an external object
  lifecycle, selected, resolved, evidence, claims, evaluation, transitions, proofs

handlerVars == <<handler, reply>>
graphVars == <<lifecycle, selected, resolved, evidence, claims, evaluation, transitions, proofs>>
serviceVars == <<vars, handlerVars, objects, graphVars>>

ClaimOf(r, kind, state) ==
  [kind |-> kind, id |-> RequestId[r], path |-> PathOf[OpOf[r]], state |-> state]

(* Evidence of a source about the call of a request.                        *)
EvidenceOf(r, source) ==
  [op |-> OpOf[r], path |-> PathOf[OpOf[r]], source |-> source, rank |-> RankOf[source],
   type |-> IF r \in effected THEN "success" ELSE "failure",
   state |-> IF r \in effected THEN "SUCCEEDED" ELSE "FAILED",
   attempt |-> attemptOf[r], sequence |-> NoSequence, time |-> attemptOf[r]]

(* What the handlers claim, and what is ever reported to the graph.         *)
ServiceClaim ==
  {ClaimOf(r, kind, state) : r \in Called, kind \in {"gateway", "remote"},
                             state \in {"ACCEPTED", "PENDING", "UNKNOWN"}}

ServiceEvidence ==
  [op : Operation, path : Path, source : Source, rank : 1..2,
   type : {"success", "failure"}, state : {"SUCCEEDED", "FAILED"},
   attempt : 0..MaxAttempts, sequence : {NoSequence}, time : 0..MaxAttempts]

Graph ==
  INSTANCE PactGraph WITH
    ingested <- evidence, Claim <- ServiceClaim, Evidence <- ServiceEvidence

ASSUME GraphAssumption == Graph!PactGraphAssumption

ServiceInit ==
  /\ GatewayInit
  /\ handler = [r \in Request |-> IF r \in Direct THEN "over" ELSE "received"]
  /\ reply = [r \in Request |-> "NONE"]
  /\ objects = {}
  /\ Graph!Init

-----------------------------------------------------------------------------
To(r, stage) == handler' = [handler EXCEPT ![r] = stage] /\ UNCHANGED reply

Reply(r, status) ==
  /\ reply' = [reply EXCEPT ![r] = status]
  /\ handler' = [handler EXCEPT ![r] = "over"]

(* The interceptor hears no more of the request.                            *)
Stop(r) ==
  /\ Goto(r, "done")
  /\ UNCHANGED <<resVars, attemptOf, worldVars, evidenceVars>>

(* The subject of a token that verifies decides the role, whatever the body *)
(* says; a subject the service does not know has none.                      *)
RoleOf(r) ==
  IF TokenOf[r].valid /\ TokenOf[r].subject \in DOMAIN RoleOfSubject
  THEN RoleOfSubject[TokenOf[r].subject] ELSE NoRole

(* Authentication, capability, identifiers: the first that fails answers.   *)
Refusal(r) ==
  CASE RoleOf(r) = NoRole                 -> "401"
    [] ~Capable(RoleOf(r), KindOf[r])     -> "403"
    [] r \in Malformed                    -> "400"
    [] OTHER                              -> "NONE"

Reject(r) ==
  /\ handler[r] = "received"
  /\ Refusal(r) # "NONE"
  /\ Reply(r, Refusal(r))
  /\ Stop(r)
  /\ UNCHANGED <<objects, graphVars>>

Admit(r) ==
  /\ handler[r] = "received"
  /\ Refusal(r) = "NONE"
  /\ To(r, "deciding")
  /\ UNCHANGED <<vars, objects, graphVars>>

(* gateway.intercept: policy, the reservation, and the begin of execution.  *)
Intercept(r) ==
  /\ handler[r] = "deciding"
  /\ Refuse(r) \/ Authorize(r) \/ Begin(r)
  /\ To(r, IF pc'[r] \in {"call", "done"} THEN "decided" ELSE "deciding")
  /\ UNCHANGED <<objects, graphVars>>

(* Whatever the repository raises in intercept becomes the decision DEFER.  *)
Defer(r) ==
  /\ handler[r] = "deciding"
  /\ Abort(r)
  /\ To(r, "decided")
  /\ UNCHANGED <<objects, graphVars>>

Granting(r) == pc[r] = "call"

(* A stored claim of the same identity is never of the same content: it was *)
(* written at another time.  append_claim raises.                           *)
Recorded(r, kind) == \E c \in claims : c.kind = kind /\ c.id = RequestId[r]

(* Mutant: the claim is accepted whatever was decided.                      *)
DecisionOptimistic(r) == "ACCEPTED"

DecisionState(r) == IF Granting(r) THEN "ACCEPTED" ELSE "UNKNOWN"

(* Mutant: the external call comes before the claim that it was authorised. *)
RecordDecisionAfterCall(r) ==
  /\ handler[r] = "decided"
  /\ IF Granting(r)
     THEN Call(r) /\ pc'[r] = "OK" /\ objects' = objects \cup {OpOf[r]}
     ELSE Stop(r) /\ UNCHANGED objects
  /\ IF Recorded(r, "gateway")
     THEN Reply(r, "400") /\ UNCHANGED graphVars
     ELSE /\ Graph!AppendClaim(ClaimOf(r, "gateway", DecisionState(r)))
          /\ IF Granting(r) THEN To(r, "performed") ELSE Reply(r, "409")

(* record_gateway_decision_claim                                            *)
RecordDecision(r) ==
  /\ handler[r] = "decided"
  /\ IF Recorded(r, "gateway")
     THEN Stop(r) /\ Reply(r, "400") /\ UNCHANGED graphVars
     ELSE /\ Graph!AppendClaim(ClaimOf(r, "gateway", DecisionState(r)))
          /\ IF Granting(r) THEN To(r, "claimed") ELSE Reply(r, "409")
          /\ UNCHANGED vars
  /\ UNCHANGED objects

(* external_execute creates the object of the operation, or raises when it  *)
(* exists.                                                                  *)
Execute(r) ==
  /\ handler[r] = "claimed"
  /\ IF OpOf[r] \in objects
     THEN Stop(r) /\ Reply(r, "503") /\ UNCHANGED objects
     ELSE /\ Call(r) /\ pc'[r] = "OK"
          /\ objects' = objects \cup {OpOf[r]}
          /\ To(r, "performed")
  /\ UNCHANGED graphVars

(* after_external_call; what it cannot persist it swallows.                 *)
Conclude(r) ==
  /\ handler[r] = "performed"
  /\ Record(r) \/ Abort(r)
  /\ To(r, "recorded")
  /\ UNCHANGED <<objects, graphVars>>

(* record_pending_claim, and the reply.                                     *)
RecordPending(r) ==
  /\ handler[r] = "recorded"
  /\ IF Recorded(r, "remote")
     THEN Reply(r, "400") /\ UNCHANGED graphVars
     ELSE /\ Graph!AppendClaim(
               ClaimOf(r, "remote", IF KindOf[r] = "refund" THEN "PENDING" ELSE "ACCEPTED"))
          /\ Reply(r, "200")
  /\ UNCHANGED <<vars, objects>>

(* A write raises, before its commit or after it, and is answered by 503; or *)
(* the process dies, and the caller hears as little of its request.          *)
Fail(r) ==
  /\ handler[r] \notin {"received", "over"}
  /\ Reply(r, "503")
  /\ Stop(r)
  /\ UNCHANGED <<objects, graphVars>>

HandlerStep(r) ==
  \/ Reject(r) \/ Admit(r) \/ Intercept(r) \/ RecordDecision(r)
  \/ Execute(r) \/ Conclude(r) \/ RecordPending(r)

(* A caller that is not the service, with results the service never gives   *)
(* the interceptor: TIMEOUT and FAILED.                                     *)
DirectStep(r) ==
  /\ RequestStep(r)
  /\ UNCHANGED <<handlerVars, objects, graphVars>>

DirectAbort(r) ==
  /\ Abort(r)
  /\ UNCHANGED <<handlerVars, objects, graphVars>>

(* ingest_evidence is one transaction on the reservation and on the graph.  *)
Report(r, source) ==
  /\ Deliver(r, source)
  /\ Graph!IngestEvidence(EvidenceOf(r, source))
  /\ UNCHANGED <<handlerVars, objects>>

ServiceNext ==
  \/ \E r \in Called : HandlerStep(r) \/ Defer(r) \/ Fail(r)
  \/ \E r \in Direct : DirectStep(r) \/ DirectAbort(r)
  \/ \E r \in Request, source \in Source : Report(r, source)

ServiceSpec == ServiceInit /\ [][ServiceNext]_serviceVars

(* A handler that is running runs on; evidence is delivered in the end.     *)
FairServiceSpec ==
  /\ ServiceSpec
  /\ \A r \in Called : WF_serviceVars(HandlerStep(r))
  /\ \A r \in Direct : WF_serviceVars(DirectStep(r))
  /\ \A r \in Request, source \in Source : WF_serviceVars(Report(r, source))

-----------------------------------------------------------------------------
(* external_call_executed is true to the outside world in every reply but    *)
(* 503: a 200 tells of an effect that is there, held by its operation, and   *)
(* of claims that are stored; any other reply tells of a call never made,    *)
(* retries of one request_id included.                                       *)
RepliesTruthful ==
  \A r \in Called :
    /\ reply[r] = "200" =>
         /\ r \in effected /\ OpOf[r] \in objects /\ Live(OpOf[r])
         /\ Recorded(r, "gateway") /\ Recorded(r, "remote")
    /\ reply[r] \in {"400", "401", "403", "409"} => r \notin effected

(* Nothing is done to the outside world by the service before the decision   *)
(* that allowed it is on the claim chain, whatever fails in between.         *)
EffectsAreClaimed ==
  \A r \in Called \cap effected : ClaimOf(r, "gateway", "ACCEPTED") \in claims

(* A PENDING pact waits for somebody: an operation of the selected path      *)
(* holds authority, though the call that was claimed may have failed and the *)
(* handler be long gone.  No refused request moves the selection.            *)
PendingHasAuthority ==
  lifecycle = "PENDING" =>
    \E o \in Operation : PathOf[o] = selected /\ Live(o)

(* What the graph has settled on, the reservations have not given away: the  *)
(* operation whose success settled the pact still holds its authority,       *)
(* unless evidence of another attempt was misread for it.                    *)
SettledHoldsAuthority ==
  \A p \in proofs : \A e \in p.evidence :
    e.op \notin misread => Live(e.op)

(* Nobody waits on anybody: every caller of the service is answered or sees  *)
(* its connection drop, and every handler and every other caller is then     *)
(* done with the interceptor.                                                *)
EveryCallAnswered ==
  <>(\A r \in Request : handler[r] = "over" /\ pc[r] = "done")
=============================================================================
