-------------------------------- MODULE Gateway --------------------------------
(***************************************************************************)
(* Requests of agents crossing the enforcement boundary of one pact: the    *)
(* interceptor reserves and begins, the caller performs the external call,  *)
(* the interceptor records the outcome; evidence about the calls arrives    *)
(* later, from several sources, in any order.  The documents they share are *)
(* those of Reservations.                                                   *)
(*                                                                          *)
(* An exception is a request that stops (Abort): a transaction that raised  *)
(* before its commit is an abort before the step, one whose commit went     *)
(* through and whose reply was lost is an abort after it, and so is a crash *)
(* of the process.                                                          *)
(***************************************************************************)
EXTENDS Reservations

CONSTANTS
  Request,     \* intercepted actions, one interceptor call each
  OpOf,        \* semantic operation each action normalises to
  Refused,     \* actions policy refuses before the repository is asked
  Source       \* evidence sources reporting on a call (webhook, system query)

ASSUME GatewayAssumption ==
  /\ OpOf \in [Request -> Operation]
  /\ Refused \subseteq Request
  /\ IsFiniteSet(Request)
  /\ Cardinality(Request) <= MaxAttempts

VARIABLES
  pc,         \* where each request stands
  attemptOf,  \* attempt_count the request was granted under, 0 before
  effected,   \* requests whose external call took effect
  uneffected, \* requests whose external call provably took no effect
  ingested,   \* <<request, source>> of the evidence already ingested
  misread     \* history: operations resolved by evidence of an older attempt

requestVars == <<pc, attemptOf>>
worldVars == <<effected, uneffected>>
evidenceVars == <<ingested, misread>>
vars == <<resVars, requestVars, worldVars, evidenceVars>>

(* The result the caller hands to after_external_call, as it is kept in pc. *)
CallStatus == {"OK", "TIMEOUT", "FAILED"}

Executing == {"call"} \cup CallStatus

Active == {"begin"} \cup Executing

Stage == {"start", "done"} \cup Active

OutcomeOf(status) ==
  CASE status = "OK"      -> "CONFIRMED"
    [] status = "TIMEOUT" -> "OUTCOME_UNKNOWN"
    [] OTHER              -> "FAILED_AUTHORITATIVELY"

Goto(r, stage) == pc' = [pc EXCEPT ![r] = stage]

RequestsFor(o) == {r \in Request : OpOf[r] = o}

GatewayInit ==
  /\ ReservationInit
  /\ pc = [r \in Request |-> "start"]
  /\ attemptOf = [r \in Request |-> 0]
  /\ effected = {}
  /\ uneffected = {}
  /\ ingested = {}
  /\ misread = {}

-----------------------------------------------------------------------------
(* intercept, when the path is not allowed or goodwill needs an approval.   *)
Refuse(r) ==
  /\ pc[r] = "start"
  /\ r \in Refused
  /\ Goto(r, "done")
  /\ UNCHANGED <<resVars, attemptOf, worldVars, evidenceVars>>

(* Mutant: a request that is not granted waits instead of being answered.   *)
AuthorizeWaiting(r) ==
  /\ pc[r] = "start"
  /\ r \notin Refused
  /\ Granted(OpOf[r])
  /\ Reserve(OpOf[r])
  /\ Goto(r, "begin")
  /\ attemptOf' = [attemptOf EXCEPT ![r] = attempts'[OpOf[r]]]
  /\ UNCHANGED <<worldVars, evidenceVars>>

(* intercept, engine.authorize: reserve, or the answer BLOCK or DEFER.      *)
Authorize(r) ==
  /\ pc[r] = "start"
  /\ r \notin Refused
  /\ IF Granted(OpOf[r])
     THEN /\ Reserve(OpOf[r])
          /\ Goto(r, "begin")
          /\ attemptOf' = [attemptOf EXCEPT ![r] = attempts'[OpOf[r]]]
     ELSE Goto(r, "done") /\ UNCHANGED <<resVars, attemptOf>>
  /\ UNCHANGED <<worldVars, evidenceVars>>

(* intercept, engine.begin_execution: a failed compare-and-set raises, so   *)
(* it is an Abort like every other exception.                               *)
Begin(r) ==
  /\ pc[r] = "begin"
  /\ BeginExecution(OpOf[r])
  /\ Goto(r, "call")
  /\ UNCHANGED <<attemptOf, worldVars, evidenceVars>>

(* The call of the external service, outside every transaction.  A timeout  *)
(* says nothing about the effect; an exception ends the request.            *)
Call(r) ==
  /\ pc[r] = "call"
  /\ \/ Goto(r, "OK") /\ effected' = effected \cup {r} /\ UNCHANGED uneffected
     \/ /\ Goto(r, "TIMEOUT") \/ Goto(r, "done")
        /\ \/ effected' = effected \cup {r} /\ UNCHANGED uneffected
           \/ uneffected' = uneffected \cup {r} /\ UNCHANGED effected
     \/ Goto(r, "FAILED") /\ uneffected' = uneffected \cup {r} /\ UNCHANGED effected
  /\ UNCHANGED <<resVars, attemptOf, evidenceVars>>

(* Mutant: a call that timed out is recorded as failed.                     *)
RecordTimeoutAsFailure(r) ==
  /\ pc[r] \in CallStatus
  /\ RecordOutcome(OpOf[r], IF pc[r] = "OK" THEN "CONFIRMED" ELSE "FAILED_AUTHORITATIVELY")
  /\ Goto(r, "done")
  /\ UNCHANGED <<attemptOf, worldVars, evidenceVars>>

(* after_external_call: record_outcome; its failure is swallowed (Abort).   *)
Record(r) ==
  /\ pc[r] \in CallStatus
  /\ RecordOutcome(OpOf[r], OutcomeOf(pc[r]))
  /\ Goto(r, "done")
  /\ UNCHANGED <<attemptOf, worldVars, evidenceVars>>

(* The process dies, a transaction raises, a decision claim cannot be       *)
(* written, or the outcome cannot be persisted: nothing is undone.          *)
Abort(r) ==
  /\ pc[r] # "done"
  /\ Goto(r, "done")
  /\ UNCHANGED <<resVars, attemptOf, worldVars, evidenceVars>>

(* Mutant: evidence also decides an operation that is still executing.      *)
DeliverToExecuting(r, source) ==
  /\ r \in effected \cup uneffected
  /\ <<r, source>> \notin ingested
  /\ ingested' = ingested \cup {<<r, source>>}
  /\ IF resState[OpOf[r]] \in {"OUTCOME_UNKNOWN", "EXECUTING"}
     THEN resState' = [resState EXCEPT ![OpOf[r]] =
                         IF r \in effected THEN "CONFIRMED" ELSE "FAILED_AUTHORITATIVELY"]
     ELSE UNCHANGED resState
  /\ UNCHANGED <<attempts, holder, overtaken, misread, requestVars, worldVars>>

(* Mutant: a failure ingested for an unknown outcome resolves nothing.      *)
DeliverSuccessOnly(r, source) ==
  /\ r \in effected \cup uneffected
  /\ <<r, source>> \notin ingested
  /\ ingested' = ingested \cup {<<r, source>>}
  /\ IF resState[OpOf[r]] = "OUTCOME_UNKNOWN" /\ r \in effected
     THEN ReconcileByEvidence(OpOf[r], TRUE) ELSE UNCHANGED resVars
  /\ UNCHANGED <<requestVars, worldVars, misread>>

(* Evidence of a source about the call of r.  A second delivery finds the   *)
(* evidence document and changes nothing; a first one is consumed whatever  *)
(* the state of the reservation, and resolves an unknown outcome whatever   *)
(* attempt it is about.                                                     *)
Deliver(r, source) ==
  /\ r \in effected \cup uneffected
  /\ <<r, source>> \notin ingested
  /\ ingested' = ingested \cup {<<r, source>>}
  /\ IF resState[OpOf[r]] = "OUTCOME_UNKNOWN"
     THEN /\ ReconcileByEvidence(OpOf[r], r \in effected)
          /\ misread' = IF attemptOf[r] # attempts[OpOf[r]]
                        THEN misread \cup {OpOf[r]} ELSE misread
     ELSE UNCHANGED <<resVars, misread>>
  /\ UNCHANGED <<requestVars, worldVars>>

RequestStep(r) == Refuse(r) \/ Authorize(r) \/ Begin(r) \/ Call(r) \/ Record(r)

GatewayNext ==
  \/ \E r \in Request : RequestStep(r) \/ Abort(r)
  \/ \E r \in Request, source \in Source : Deliver(r, source)

GatewaySpec == GatewayInit /\ [][GatewayNext]_vars

(* The same behaviours as long as no retry overtakes a live holder and no   *)
(* evidence of an older attempt is taken for news of the current one.       *)
OrderlyGatewaySpec ==
  GatewayInit /\ [][GatewayNext /\ overtaken' = {} /\ misread' = {}]_vars

-----------------------------------------------------------------------------
(* Requests, grants and evidence are of their kinds; a call took effect or  *)
(* provably did not, never both; evidence is about calls that were made.    *)
GatewayTypeOK ==
  /\ pc \in [Request -> Stage]
  /\ attemptOf \in [Request -> 0..MaxAttempts]
  /\ effected \subseteq Request
  /\ uneffected \subseteq Request \ effected
  /\ ingested \subseteq (effected \cup uneffected) \X Source
  /\ misread \subseteq Operation

(* A request between its grant and its recorded outcome is the only one of  *)
(* its operation, under the attempt it was granted, and the operation is in *)
(* the state its next compare-and-set expects: no reply, crash, retry or    *)
(* evidence of others takes the authority from under it.                    *)
ExecutorOwnsAuthority ==
  \A r \in Request : pc[r] \in Active =>
    /\ resState[OpOf[r]] = IF pc[r] = "begin" THEN "RESERVED" ELSE "EXECUTING"
    /\ attemptOf[r] = attempts[OpOf[r]]
    /\ \A q \in RequestsFor(OpOf[r]) \ {r} : pc[q] \notin Active

(* Zero duplicate consequential executions, whatever was lost: an operation *)
(* takes effect at most once, unless evidence of an older attempt was taken *)
(* for evidence of the one whose outcome is unknown.                        *)
NoDuplicateEffect ==
  \A r \in effected, q \in effected :
    OpOf[r] = OpOf[q] /\ OpOf[r] \notin misread => r = q

(* An effect never looks like something one may retry or replace: the       *)
(* operation that took effect stays live, under the attempt that did it.    *)
EffectKeepsAuthority ==
  \A r \in effected : OpOf[r] \notin misread =>
    /\ resState[OpOf[r]] \in {"EXECUTING", "OUTCOME_UNKNOWN", "CONFIRMED"}
    /\ attemptOf[r] = attempts[OpOf[r]]

(* One winner for each exclusive slot: two operations that compete for it   *)
(* never both take effect, unless a retry overtook the holder of the slot   *)
(* or the evidence about one of them was misread.                           *)
OneEffectPerSlot ==
  \A r \in effected, q \in effected :
    /\ SlotOf[OpOf[r]] = SlotOf[OpOf[q]]
    /\ SlotOf[OpOf[r]] \in Slot \ overtaken
    /\ OpOf[r] \notin misread /\ OpOf[q] \notin misread
    => OpOf[r] = OpOf[q]

(* The pact as the outside world sees it: authority of the live operations, *)
(* effects counted.                                                         *)
Authority ==
  INSTANCE OutcomeAuthority WITH
    authorized <- {o \in Operation : Live(o)},
    performed <- [o \in Operation |-> Cardinality({r \in effected : OpOf[r] = o})]

(* The gateway keeps the promise of OutcomeAuthority, step by step.         *)
KeepsOutcomeAuthority == Authority!Spec

(* With everything that can go wrong allowed, every step that does not make  *)
(* a retry overtake and does not misread evidence, before or in that step,   *)
(* still is one the promise allows: authority is granted to one competitor,  *)
(* used once, and given back only unused.                                    *)
KeepsAuthorityWhileOrderly ==
  /\ Authority!Init
  /\ [][overtaken' = {} /\ misread' = {} => [Authority!Next]_(Authority!vars)]_vars

(* An unknown outcome is resolved while evidence about its attempt is still *)
(* on its way.                                                              *)
EvidencePending(o) ==
  \E r \in RequestsFor(o), source \in Source :
    /\ r \in effected \cup uneffected
    /\ attemptOf[r] = attempts[o]
    /\ <<r, source>> \notin ingested

PendingEvidenceResolves ==
  \A o \in Operation :
    resState[o] = "OUTCOME_UNKNOWN" /\ EvidencePending(o)
      ~> resState[o] # "OUTCOME_UNKNOWN"

(* System contract, acceptance boundary: zero duplicate consequential       *)
(* executions.                                                              *)
ZeroDuplicateExecutions ==
  \A r \in effected, q \in effected : OpOf[r] = OpOf[q] => r = q
=============================================================================
