------------------------------- MODULE PactGraph -------------------------------
(***************************************************************************)
(* The evidence side of one pact: claims say what participants believe,    *)
(* evidence says what the systems of record report, and the pact settles   *)
(* when the evidence about the selected resolution satisfies the policy.   *)
(* append_claim and ingest_evidence are each one transaction on the pact   *)
(* root, so each is one action; what is appended and ingested, and in      *)
(* which order, is up to the environment.                                  *)
(*                                                                         *)
(* Abstracted: hashes and sequence numbers of the claim chain (a claim is  *)
(* its identity), delivery records, and the values of economic events.     *)
(***************************************************************************)
EXTENDS Integers, FiniteSets

CONSTANTS
  Path,         \* resolution paths of the pact
  PrimaryPath,  \* paths listed under exclusive_slots.primary_compensation
  NoPath,       \* no resolution selected, or a claim about none
  Operation,    \* keys of resolved_operations
  Evidence,     \* the evidence that may ever be ingested, one record per identity
  Claim,        \* the claims participants may append, one record per identity
  MaxRank,      \* evidence_max_rank of the pinned policy
  RequiredType, \* completion_evidence of the pinned policy
  NoEvidence,   \* no resolved state for an operation
  NoSequence    \* the source gave no sequence number

ImmediateState == {"ACCEPTED", "PENDING", "SUCCEEDED", "FAILED", "REVERSED",
                   "CLOSED", "COMPLETE", "UNKNOWN"}

Lifecycle == {"OPEN", "PENDING", "SETTLED"}

(* From the authoritative event of a settled transaction, 1, down to what   *)
(* somebody wrote in plain words, 5.                                       *)
EvidenceRank == 1..5

(* What a source says of one attempt at an operation; "op" is its operation *)
(* identity, or its path when it names none, "time" when it occurred.      *)
IsEvidence(e) ==
  /\ e.op \in Operation /\ e.path \in Path /\ e.state \in ImmediateState
  /\ e.rank \in EvidenceRank /\ e.attempt \in Nat /\ e.time \in Nat
  /\ e.sequence \in Nat \cup {NoSequence}

(* What a participant says: a path, or none, and its state.                *)
IsStateClaim(c) == c.path \in Path \cup {NoPath} /\ c.state \in ImmediateState

ASSUME PactGraphAssumption ==
  /\ PrimaryPath \subseteq Path
  /\ NoPath \notin Path
  /\ NoSequence \in Int \ Nat
  /\ \A e \in Evidence : IsEvidence(e)
  /\ \A c \in Claim : IsStateClaim(c)
  /\ MaxRank \in [Path -> EvidenceRank]
  /\ DOMAIN RequiredType = Path
  /\ NoEvidence \notin Evidence

VARIABLES
  lifecycle,   \* graph_state
  selected,    \* selected_resolution
  resolved,    \* resolved_operations: the evidence each projection came from
  ingested,    \* evidence documents
  claims,      \* claim documents appended by participants
  evaluation,  \* result of the settlement evaluation of the latest revision
  transitions, \* settlement_transition_count
  proofs       \* settlement_proofs: selection, qualifying evidence, state projected

vars == <<lifecycle, selected, resolved, ingested, claims, evaluation, transitions, proofs>>

Init ==
  /\ lifecycle = "OPEN"
  /\ selected = NoPath
  /\ resolved = [o \in Operation |-> NoEvidence]
  /\ ingested = {}
  /\ claims = {}
  /\ evaluation = "OPEN"
  /\ transitions = 0
  /\ proofs = {}

-----------------------------------------------------------------------------
(* The reducer: which of two observations of an operation stands.          *)
Finality(state) ==
  CASE state = "UNKNOWN"                                       -> 0
    [] state \in {"ACCEPTED", "PENDING", "CLOSED", "COMPLETE"} -> 1
    [] state \in {"SUCCEEDED", "FAILED"}                       -> 2
    [] OTHER                                                   -> 3

(* AUTHORITATIVE_TRANSITIONS. *)
Corrections(source, state) ==
  CASE source = "stripe" /\ state = "PENDING"   -> {"SUCCEEDED", "FAILED"}
    [] source = "stripe" /\ state = "SUCCEEDED" -> {"REVERSED"}
    [] OTHER                                    -> {}

Sequenced(new, old) == new.sequence # NoSequence /\ old.sequence # NoSequence

(* Mutant: the last authoritative event to arrive wins.                    *)
SupersedesByArrival(new, old) == new.state # old.state \/ new.time > old.time

(* Two authoritative events of one attempt. *)
Supersedes(new, old) ==
  \/ /\ new.state = old.state
     /\ IF Sequenced(new, old) THEN new.sequence > old.sequence ELSE new.time > old.time
  \/ /\ new.state # old.state
     /\ Sequenced(new, old)
     /\ new.sequence > old.sequence
     /\ new.state \in Corrections(new.source, old.state)

(* Two observations of one weaker rank. *)
Outweighs(new, old) ==
  \/ Finality(new.state) > Finality(old.state)
  \/ Finality(new.state) = Finality(old.state) /\ new.time > old.time

(* should_replace_resolved *)
Replaces(new, old) ==
  \/ new.attempt > old.attempt
  \/ /\ new.attempt = old.attempt
     /\ \/ new.rank < old.rank
        \/ new.rank = old.rank /\ new.rank = 1 /\ Supersedes(new, old)
        \/ new.rank = old.rank /\ new.rank > 1 /\ Outweighs(new, old)

(* reduce_operation *)
Reduced(e) ==
  IF resolved[e.op] = NoEvidence \/ Replaces(e, resolved[e.op])
  THEN [resolved EXCEPT ![e.op] = e]
  ELSE resolved

(* evaluate_graph, as a function of the root it reads. *)
OnPath(projection, path) ==
  {projection[o] : o \in {p \in Operation : /\ projection[p] # NoEvidence
                                            /\ projection[p].path = path}}

AuthoritativeFailure(e) == e.state = "FAILED" /\ e.rank <= 2

Failing(projection, path) == \E e \in OnPath(projection, path) : AuthoritativeFailure(e)

(* Mutant: an acceptance or a pending state is as good as a success.       *)
QualifiesOptimistically(e) ==
  /\ e.state \in {"SUCCEEDED", "ACCEPTED", "PENDING"}
  /\ e.rank <= 3

Qualifies(e) ==
  /\ e.state = "SUCCEEDED"
  /\ e.type \in RequiredType[e.path]
  /\ e.rank <= MaxRank[e.path]

Qualifying(projection, path) == {e \in OnPath(projection, path) : Qualifies(e)}

Evaluate(state, selection, projection) ==
  IF state = "SETTLED" THEN "SETTLED"
  ELSE IF selection = NoPath \/ Failing(projection, selection) THEN "OPEN"
  ELSE IF Qualifying(projection, selection) # {} THEN "SETTLED"
  ELSE "PENDING"

-----------------------------------------------------------------------------
(* append_claim: a claim already stored changes nothing.  An accepted or   *)
(* pending claim on a primary path selects it; the evaluation is recorded  *)
(* and not acted upon.                                                     *)
AppendClaim(c) ==
  /\ c \notin claims
  /\ claims' = claims \cup {c}
  /\ IF c.path \in PrimaryPath /\ c.state \in {"ACCEPTED", "PENDING"}
     THEN /\ selected' = c.path
          /\ lifecycle' = IF lifecycle = "SETTLED" THEN "SETTLED" ELSE "PENDING"
     ELSE UNCHANGED <<selected, lifecycle>>
  /\ evaluation' = Evaluate(lifecycle', selected', resolved)
  /\ UNCHANGED <<resolved, ingested, transitions, proofs>>

(* Mutant: evidence leaves the selection to the claims.                    *)
IngestEvidenceUnselecting(e) ==
  /\ e \notin ingested
  /\ ingested' = ingested \cup {e}
  /\ resolved' = Reduced(e)
  /\ lifecycle' = Evaluate(lifecycle, selected, resolved')
  /\ evaluation' = lifecycle'
  /\ IF lifecycle # "SETTLED" /\ lifecycle' = "SETTLED"
     THEN /\ transitions' = transitions + 1
          /\ proofs' = proofs \cup
               {[selection |-> selected, evidence |-> Qualifying(resolved', selected),
                 projected |-> resolved'[e.op]]}
     ELSE UNCHANGED <<transitions, proofs>>
  /\ UNCHANGED <<selected, claims>>

(* ingest_evidence: evidence already stored changes nothing, however often *)
(* it is delivered.                                                        *)
IngestEvidence(e) ==
  /\ e \notin ingested
  /\ ingested' = ingested \cup {e}
  /\ resolved' = Reduced(e)
  /\ selected' = IF selected = NoPath /\ e.path \in PrimaryPath THEN e.path ELSE selected
  /\ lifecycle' = Evaluate(lifecycle, selected', resolved')
  /\ evaluation' = lifecycle'
  /\ IF lifecycle # "SETTLED" /\ lifecycle' = "SETTLED"
     THEN /\ transitions' = transitions + 1
          /\ proofs' = proofs \cup
               {[selection |-> selected', evidence |-> Qualifying(resolved', selected'),
                 projected |-> resolved'[e.op]]}
     ELSE UNCHANGED <<transitions, proofs>>
  /\ UNCHANGED claims

Next ==
  \/ \E c \in Claim : AppendClaim(c)
  \/ \E e \in Evidence : IngestEvidence(e)

Spec == Init /\ [][Next]_vars

-----------------------------------------------------------------------------
(* The graph holds what its documents may hold.  A settlement proof exists *)
(* exactly while the pact is SETTLED, was written once and names a primary *)
(* path, the only kind that can be selected.                               *)
Proof == [selection : PrimaryPath, evidence : SUBSET Evidence, projected : Evidence]

GraphTypeOK ==
  /\ lifecycle \in Lifecycle
  /\ selected \in PrimaryPath \cup {NoPath}
  /\ resolved \in [Operation -> Evidence \cup {NoEvidence}]
  /\ ingested \subseteq Evidence
  /\ claims \subseteq Claim
  /\ evaluation \in Lifecycle
  /\ transitions \in {0, 1}
  /\ proofs \subseteq Proof
  /\ \A p, q \in proofs : p = q
  /\ lifecycle = "SETTLED" <=> transitions = 1
  /\ lifecycle = "SETTLED" <=> proofs # {}

(* A pact settles on evidence only: whatever claims were appended, and in  *)
(* whatever order the evidence came, its proof names ingested successes of *)
(* the type and the rank the pinned policy asks of one primary path.       *)
SettlementIsEvidenced ==
  \A p \in proofs :
    /\ p.evidence # {}
    /\ \A e \in p.evidence :
         /\ e \in ingested
         /\ e.path = p.selection
         /\ e.state = "SUCCEEDED"
         /\ e.type \in RequiredType[p.selection]
         /\ e.rank <= MaxRank[p.selection]

(* Once settled, a pact stays settled on the same proof, whatever is       *)
(* claimed or reported later: a reversal, a rival path, a failure.         *)
SettlementIsFinal ==
  [][lifecycle = "SETTLED" =>
       lifecycle' = "SETTLED" /\ UNCHANGED <<transitions, proofs>>]_vars

(* What the reducer keeps of an operation is outranked by nothing ingested *)
(* about it: by no later attempt, and by no stronger rank of the same one. *)
NeverOutranked ==
  \A e \in ingested :
    /\ resolved[e.op] \in ingested
    /\ resolved[e.op].op = e.op
    /\ e.attempt <= resolved[e.op].attempt
    /\ e.attempt = resolved[e.op].attempt => resolved[e.op].rank <= e.rank

(* OPEN means there is nothing to wait for: no primary path is selected,   *)
(* or the systems of record say the selected one failed.                   *)
OpenNeedsNewWork ==
  lifecycle = "OPEN" => selected = NoPath \/ Failing(resolved, selected)

(* PENDING: a path is selected "but required evidence is absent or         *)
(* insufficiently ranked" (pact-graph.md).  append_claim moves the         *)
(* selection to a path whose evidence is already in, records an evaluation *)
(* that says SETTLED, and leaves the pact PENDING.                         *)
PendingMeansEvidenceMissing ==
  lifecycle = "PENDING" => Qualifying(resolved, selected) = {}

(* Evidence delivered at least once settles the pact in the end, in        *)
(* whichever order it comes, when no rival path is claimed and no success  *)
(* is later reversed.                                                      *)
SettlesEventually == <>(lifecycle = "SETTLED")
=============================================================================
