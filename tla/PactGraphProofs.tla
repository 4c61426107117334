--------------------------- MODULE PactGraphProofs ---------------------------
(***************************************************************************)
(* Proofs about the evidence graph: what holds of every set of evidence    *)
(* and claims, in every order of arrival.  The inductive invariant is the  *)
(* conjunction of the type invariant, SettlementIsEvidenced,               *)
(* NeverOutranked and ProjectionsIngested; the action property holds step  *)
(* by step.                                                                *)
(***************************************************************************)
EXTENDS PactGraph, TLAPS

(* Reading an operation's projection after a reduction.                    *)
LEMMA ReducedTyped ==
  ASSUME GraphTypeOK, NEW e \in Evidence
  PROVE  Reduced(e) \in [Operation -> Evidence \cup {NoEvidence}]
  BY PactGraphAssumption DEF GraphTypeOK, Reduced

(* The incoming evidence is kept or the projection stands, and no other    *)
(* operation is touched.                                                   *)
LEMMA ReducedCases ==
  ASSUME GraphTypeOK, NEW e \in Evidence, NEW o \in Operation
  PROVE  /\ o # e.op => Reduced(e)[o] = resolved[o]
         /\ o = e.op => \/ Reduced(e)[o] = e
                        \/ /\ Reduced(e)[o] = resolved[o]
                           /\ resolved[o] # NoEvidence
                           /\ ~Replaces(e, resolved[o])
  BY PactGraphAssumption DEF GraphTypeOK, Reduced

(* What an evaluation may find is one of the three lifecycle states.       *)
LEMMA EvaluateTyped ==
  ASSUME NEW state \in Lifecycle, NEW selection, NEW projection
  PROVE  Evaluate(state, selection, projection) \in Lifecycle
  BY DEF Evaluate, Lifecycle

(* An evaluation only finds a pact settled anew when a selected path has   *)
(* qualifying evidence.                                                    *)
LEMMA EvaluateSettles ==
  ASSUME NEW state \in Lifecycle, state # "SETTLED", NEW selection, NEW projection,
         Evaluate(state, selection, projection) = "SETTLED"
  PROVE  selection # NoPath /\ Qualifying(projection, selection) # {}
  BY DEF Evaluate

LEMMA QualifyingEvidence ==
  ASSUME NEW projection \in [Operation -> Evidence \cup {NoEvidence}], NEW path,
         NEW e \in Qualifying(projection, path)
  PROVE  /\ e \in Evidence /\ e.path = path /\ Qualifies(e)
         /\ \E o \in Operation : e = projection[o]
  BY DEF Qualifying, OnPath

-----------------------------------------------------------------------------
(* The strengthening: a projection is of evidence about its operation.     *)
ProjectionsIngested ==
  \A o \in Operation :
    resolved[o] # NoEvidence => resolved[o] \in ingested /\ resolved[o].op = o

GraphInvariant ==
  GraphTypeOK /\ SettlementIsEvidenced /\ NeverOutranked /\ ProjectionsIngested

LEMMA GraphInitHolds ==
  ASSUME Init
  PROVE  GraphInvariant
BY PactGraphAssumption
DEF Init, GraphInvariant, GraphTypeOK, SettlementIsEvidenced, NeverOutranked,
    ProjectionsIngested, Lifecycle

LEMMA GraphNextKeepsInv ==
  ASSUME GraphInvariant, [Next]_vars
  PROVE  GraphInvariant'
<1>. USE DEF GraphInvariant
<1>1. CASE UNCHANGED vars
  BY <1>1 DEF vars, GraphTypeOK, SettlementIsEvidenced, NeverOutranked,
     ProjectionsIngested
<1>2. ASSUME NEW c \in Claim, AppendClaim(c)
      PROVE  GraphInvariant'
  <2>1. /\ lifecycle' \in Lifecycle
        /\ lifecycle' = "SETTLED" <=> lifecycle = "SETTLED"
        /\ selected' \in PrimaryPath \cup {NoPath}
        /\ claims' \subseteq Claim
    BY <1>2 DEF AppendClaim, GraphTypeOK, Lifecycle
  <2>2. evaluation' \in Lifecycle
    BY <2>1, <1>2, EvaluateTyped DEF AppendClaim
  <2>3. UNCHANGED <<resolved, ingested, transitions, proofs>>
    BY <1>2 DEF AppendClaim
  <2>4. GraphTypeOK'
    BY <2>1, <2>2, <2>3 DEF GraphTypeOK
  <2>. QED BY <2>3, <2>4 DEF SettlementIsEvidenced, NeverOutranked, ProjectionsIngested
<1>3. ASSUME NEW e \in Evidence, IngestEvidence(e)
      PROVE  GraphInvariant'
  <2>1. resolved' = Reduced(e) /\ resolved' \in [Operation -> Evidence \cup {NoEvidence}]
    BY <1>3, ReducedTyped DEF IngestEvidence
  <2>2. ingested' = ingested \cup {e} /\ ingested' \subseteq Evidence
    BY <1>3 DEF IngestEvidence, GraphTypeOK
  <2>3. selected' \in PrimaryPath \cup {NoPath}
    BY <1>3 DEF IngestEvidence, GraphTypeOK
  <2>4. lifecycle' = Evaluate(lifecycle, selected', resolved') /\ lifecycle' \in Lifecycle
    BY <1>3, EvaluateTyped DEF IngestEvidence, GraphTypeOK
  <2>5. evaluation' = lifecycle' /\ claims' = claims
    BY <1>3 DEF IngestEvidence
  <2>6. NeverOutranked'
    <3>1. SUFFICES ASSUME NEW f \in ingested'
                   PROVE  /\ resolved'[f.op] \in ingested'
                          /\ resolved'[f.op].op = f.op
                          /\ f.attempt <= resolved'[f.op].attempt
                          /\ f.attempt = resolved'[f.op].attempt =>
                               resolved'[f.op].rank <= f.rank
      BY DEF NeverOutranked
    <3>2. f \in Evidence /\ f.op \in Operation
      BY <2>2, PactGraphAssumption DEF IsEvidence
    <3>3. CASE f.op # e.op
      <4>1. f \in ingested
        BY <2>2, <3>3
      <4>2. resolved'[f.op] = resolved[f.op]
        BY <2>1, <3>2, <3>3, ReducedCases
      <4>. QED BY <2>2, <4>1, <4>2 DEF NeverOutranked
    <3>4. CASE f.op = e.op /\ resolved'[f.op] = e
      <4>1. CASE f = e
        BY <2>2, <3>4, <4>1, PactGraphAssumption DEF IsEvidence, EvidenceRank
      <4>2. CASE f \in ingested
        <5> DEFINE r == resolved[f.op]
        <5>1. /\ r \in ingested /\ r \in Evidence /\ r.op = f.op
              /\ f.attempt <= r.attempt
              /\ f.attempt = r.attempt => r.rank <= f.rank
          BY <4>2 DEF NeverOutranked, GraphTypeOK
        <5>2. e = r \/ Replaces(e, r)
          BY <2>1, <3>2, <3>4, <5>1, PactGraphAssumption DEF Reduced
        <5>3. \/ e.attempt > r.attempt
              \/ e.attempt = r.attempt /\ e.rank <= r.rank
          BY <5>1, <5>2, PactGraphAssumption DEF Replaces, IsEvidence, EvidenceRank
        <5>. QED BY <2>2, <3>2, <3>4, <5>1, <5>3, PactGraphAssumption DEF IsEvidence, EvidenceRank
      <4>. QED BY <2>2, <4>1, <4>2
    <3>5. CASE f.op = e.op /\ resolved'[f.op] # e
      <4> DEFINE r == resolved[f.op]
      <4>1. resolved'[f.op] = r /\ r # NoEvidence /\ ~Replaces(e, r)
        BY <2>1, <3>2, <3>5, ReducedCases
      <4>2. r \in Evidence
        BY <3>2, <4>1 DEF GraphTypeOK
      <4>3. CASE f \in ingested
        BY <2>2, <4>1, <4>3 DEF NeverOutranked
      <4>4. CASE f = e
        <5>1. /\ ~(e.attempt > r.attempt)
              /\ e.attempt = r.attempt => ~(e.rank < r.rank)
          BY <4>1 DEF Replaces
        <5>2. /\ e.attempt <= r.attempt
              /\ e.attempt = r.attempt => r.rank <= e.rank
          BY <4>2, <5>1, PactGraphAssumption DEF IsEvidence, EvidenceRank
        <5>3. r \in ingested /\ r.op = f.op
          BY <3>2, <4>1 DEF ProjectionsIngested
        <5>. QED BY <2>2, <4>1, <4>4, <5>2, <5>3
      <4>. QED BY <2>2, <4>3, <4>4
    <3>. QED BY <3>3, <3>4, <3>5
  <2>7. ProjectionsIngested'
    <3>1. SUFFICES ASSUME NEW o \in Operation, resolved'[o] # NoEvidence
                   PROVE  resolved'[o] \in ingested' /\ resolved'[o].op = o
      BY DEF ProjectionsIngested
    <3>2. \/ resolved'[o] = resolved[o]
          \/ o = e.op /\ resolved'[o] = e
      BY <2>1, ReducedCases
    <3>. QED BY <2>2, <3>1, <3>2 DEF ProjectionsIngested
  <2>8. CASE lifecycle # "SETTLED" /\ lifecycle' = "SETTLED"
    <3> DEFINE q == Qualifying(resolved', selected')
    <3>1. /\ transitions' = transitions + 1
          /\ proofs' = proofs \cup
               {[selection |-> selected', evidence |-> q, projected |-> resolved'[e.op]]}
      BY <1>3, <2>8 DEF IngestEvidence
    <3>2. transitions = 0 /\ proofs = {}
      BY <2>8 DEF GraphTypeOK
    <3>3. selected' # NoPath /\ q # {}
      BY <2>4, <2>8, EvaluateSettles DEF GraphTypeOK
    <3>4. selected' \in PrimaryPath
      BY <2>3, <3>3
    <3>5. ASSUME NEW f \in q
          PROVE  f \in Evidence /\ f \in ingested' /\ f.path = selected' /\ Qualifies(f)
      <4>1. /\ f \in Evidence /\ f.path = selected' /\ Qualifies(f)
            /\ \E o \in Operation : f = resolved'[o]
        BY <2>1, <3>5, QualifyingEvidence
      <4>. QED BY <2>7, <4>1, PactGraphAssumption DEF ProjectionsIngested
    <3>6. resolved'[e.op] \in Evidence
      BY <2>2, <2>6 DEF NeverOutranked
    <3>7. proofs' \subseteq Proof /\ proofs' # {} /\ \A p1, p2 \in proofs' : p1 = p2
      BY <3>1, <3>2, <3>4, <3>5, <3>6 DEF Proof
    <3>8. GraphTypeOK'
      BY <2>1, <2>2, <2>3, <2>4, <2>5, <2>8, <3>1, <3>2, <3>7 DEF GraphTypeOK
    <3>9. SettlementIsEvidenced'
      BY <3>1, <3>2, <3>3, <3>5 DEF SettlementIsEvidenced, Qualifies
    <3>. QED BY <2>6, <2>7, <3>8, <3>9
  <2>9. CASE ~(lifecycle # "SETTLED" /\ lifecycle' = "SETTLED")
    <3>1. UNCHANGED <<transitions, proofs>>
      BY <1>3, <2>9 DEF IngestEvidence
    <3>2. lifecycle' = "SETTLED" <=> lifecycle = "SETTLED"
      BY <2>4, <2>9 DEF Evaluate
    <3>3. GraphTypeOK'
      BY <2>1, <2>2, <2>3, <2>4, <2>5, <3>1, <3>2 DEF GraphTypeOK
    <3>. QED BY <2>2, <2>6, <2>7, <3>1, <3>3 DEF SettlementIsEvidenced
  <2>. QED BY <2>8, <2>9
<1>. QED BY <1>1, <1>2, <1>3 DEF Next

(* Every state of the graph satisfies the inductive invariant.             *)
THEOREM GraphInvariance == Spec => []GraphInvariant
<1>1. Init => GraphInvariant
  BY GraphInitHolds
<1>2. GraphInvariant /\ [Next]_vars => GraphInvariant'
  BY GraphNextKeepsInv
<1>. QED BY <1>1, <1>2, PTL DEF Spec

(* The graph's documents hold what they may hold.                          *)
THEOREM GraphTypeCorrect == Spec => []GraphTypeOK
BY GraphInvariance, PTL DEF GraphInvariant

(* No claim and no order of arrival settles a pact without qualifying      *)
(* evidence of its selected path.                                          *)
THEOREM SettledOnEvidence == Spec => []SettlementIsEvidenced
BY GraphInvariance, PTL DEF GraphInvariant

(* A projection is never of an older attempt, nor of a weaker rank, than   *)
(* some evidence already ingested.                                         *)
THEOREM ProjectionsNeverOutranked == Spec => []NeverOutranked
BY GraphInvariance, PTL DEF GraphInvariant

(* SETTLED is terminal for the lifecycle, its count and its proof.         *)
THEOREM SettledForGood == Spec => SettlementIsFinal
<1>1. [Next]_vars => [lifecycle = "SETTLED" =>
        lifecycle' = "SETTLED" /\ UNCHANGED <<transitions, proofs>>]_vars
  BY DEF Next, AppendClaim, IngestEvidence, Evaluate, vars
<1>. QED BY <1>1, PTL DEF Spec, SettlementIsFinal

(* Work is left to do in every state that a step leaves OPEN.              *)
LEMMA OpenStep ==
  ASSUME OpenNeedsNewWork, [Next]_vars
  PROVE  OpenNeedsNewWork'
<1>1. CASE UNCHANGED vars
  BY <1>1 DEF vars, OpenNeedsNewWork, Failing, OnPath
<1>2. ASSUME NEW c \in Claim, AppendClaim(c)
      PROVE  OpenNeedsNewWork'
  BY <1>2 DEF AppendClaim, OpenNeedsNewWork, Failing, OnPath
<1>3. ASSUME NEW e \in Evidence, IngestEvidence(e)
      PROVE  OpenNeedsNewWork'
  BY <1>3 DEF IngestEvidence, Evaluate, OpenNeedsNewWork, Failing, OnPath
<1>. QED BY <1>1, <1>2, <1>3 DEF Next

(* A pact is OPEN only while no path is selected or the selected one has   *)
(* failed.                                                                 *)
THEOREM OpenPactsNeedWork == Spec => []OpenNeedsNewWork
<1>1. Init => OpenNeedsNewWork
  BY DEF Init, OpenNeedsNewWork
<1>2. OpenNeedsNewWork /\ [Next]_vars => OpenNeedsNewWork'
  BY OpenStep
<1>. QED BY <1>1, <1>2, PTL DEF Spec
=============================================================================
