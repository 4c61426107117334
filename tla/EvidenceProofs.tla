---------------------------- MODULE EvidenceProofs ----------------------------
(***************************************************************************)
(* Proofs about what stands around the evidence graph: the claim chain and *)
(* the artifacts issued over it, and the pipeline that activates pacts and *)
(* delivers evidence to them.                                              *)
(*                                                                         *)
(* Receipts, for any claims, evidence and issuers: the inductive invariant *)
(* relates each thing an issuer or the reader holds to the history it was  *)
(* read from, which only grows.                                            *)
(*                                                                         *)
(* Pipeline, for any tickets, cases and answers of the model, any claims,  *)
(* and any number of attempts, deliveries and queries: what the payment    *)
(* system has published tells the state it is in (HistoryInv); whatever is *)
(* ingested, or answered and not yet ingested, was published or read there *)
(* (EvidencePublished); and until its root is reset under its documents    *)
(* the graph is one of PactGraph's, whose projection of the refund is the  *)
(* last event ingested of its attempt (RootInv).                           *)
(***************************************************************************)
EXTENDS EvidencePipeline, Receipts, PactGraphProofs, SumTheorems, SequenceTheorems

-----------------------------------------------------------------------------
(* A graph with its chain and its artifacts is a graph.                    *)
LEMMA ReceiptsStepIsGraphStep == [ReceiptsNext]_receiptsVars => [Next]_vars
<1>. SUFFICES ASSUME [ReceiptsNext]_receiptsVars PROVE [Next]_vars
  OBVIOUS
<1>1. CASE UNCHANGED receiptsVars
  BY <1>1 DEF receiptsVars
<1>2. ASSUME NEW c \in Claim, AppendChained(c) PROVE Next
  BY <1>2 DEF AppendChained, Next
<1>3. ASSUME NEW e \in Evidence, IngestChained(e) PROVE Next
  BY <1>3 DEF IngestChained, Next
<1>4. ASSUME NEW i \in Issuer, IssuerStep(i) PROVE UNCHANGED vars
  BY <1>4 DEF IssuerStep, IssuerOnly, ReadPact, ReadClaims, ReadEvidence, CreateCheckpoint,
     CreateReceipt, ReadForReissue, ReadEvidenceAgain, Reissue, AbandonIssue
<1>5. ASSUME ReaderStep PROVE UNCHANGED vars
  BY <1>5 DEF ReaderStep, ReaderOnly, ReadReceipts, ReadCheckpoint, LiveProof
<1>. QED BY <1>1, <1>2, <1>3, <1>4, <1>5 DEF ReceiptsNext

LEMMA GraphOfReceipts == ReceiptsSpec => []GraphInvariant
<1>1. ReceiptsInit => Init
  BY DEF ReceiptsInit
<1>. QED BY <1>1, ReceiptsStepIsGraphStep, GraphInvariance, PTL DEF ReceiptsSpec, Spec

-----------------------------------------------------------------------------
(* Hashes and documents are of their kinds.                                *)
LEMMA ClaimHashTyped ==
  ASSUME NEW previous \in Hash, NEW sequence \in Nat, NEW body \in Body
  PROVE  ClaimHash(previous, sequence, body) \in Hash
  BY AppendProperties DEF ClaimHash, Hash

LEMMA ClaimHashInjective ==
  ASSUME NEW p \in Hash, NEW m \in Nat, NEW b \in Body,
         NEW q \in Hash, NEW n \in Nat, NEW c \in Body,
         ClaimHash(p, m, b) = ClaimHash(q, n, c)
  PROVE  p = q /\ m = n /\ b = c
<1>1. p \in Seq(Nat \X Body) /\ q \in Seq(Nat \X Body) /\ <<m, b>> \in Nat \X Body
      /\ <<n, c>> \in Nat \X Body
  BY DEF Hash
<1>2. Append(p, <<m, b>>) = Append(q, <<n, c>>)
  BY DEF ClaimHash
<1>3. p = q /\ <<m, b>> = <<n, c>>
  BY <1>1, <1>2, AppendInjective
<1>. QED BY <1>3

LEMMA TerminalHashTyped ==
  ASSUME NEW list \in Seq(ClaimDocument)
  PROVE  TerminalHash(list) \in Hash
<1>1. CASE list = <<>>
  BY <1>1 DEF TerminalHash, Hash
<1>2. CASE list # <<>>
  <2>1. Len(list) \in 1..Len(list)
    BY <1>2
  <2>2. list[Len(list)] \in ClaimDocument
    BY <2>1
  <2>. QED BY <1>2, <2>2 DEF TerminalHash, ClaimDocument
<1>. QED BY <1>1, <1>2

(* Appending a claim keeps what a prefix of the history is, and a prefix   *)
(* of a chain is a chain.                                                  *)
LEMMA PrefixStable ==
  ASSUME NEW list \in Seq(ClaimDocument), NEW d \in ClaimDocument, NEW n \in 0..Len(list)
  PROVE  SubSeq(Append(list, d), 1, n) = SubSeq(list, 1, n)
  OBVIOUS

LEMMA PrefixVerifies ==
  ASSUME NEW list \in Seq(ClaimDocument), NEW n \in 0..Len(list), VerifyClaimChain(list)
  PROVE  /\ SubSeq(list, 1, n) \in Seq(ClaimDocument)
         /\ Len(SubSeq(list, 1, n)) = n
         /\ VerifyClaimChain(SubSeq(list, 1, n))
<1>1. SubSeq(list, 1, n) \in Seq(ClaimDocument) /\ Len(SubSeq(list, 1, n)) = n
  OBVIOUS
<1>2. \A k \in 1..n : SubSeq(list, 1, n)[k] = list[k]
  OBVIOUS
<1>. QED BY <1>1, <1>2 DEF VerifyClaimChain

(* A claim as it is made, and as it is chained: normalizing its payload    *)
(* once more changes nothing of what is hashed.                            *)
LEMMA CanonicalBodyTyped ==
  ASSUME NEW id \in Identity, NEW stated \in Statement, NEW payload \in Content \cup {NoPayload},
         NEW claim, claim.id = id, claim.stated = stated, claim.payload = payload
  PROVE  NormalizedPayload(claim) \in Content /\ CanonicalBody(claim) \in Body
<1>1. NormalizedPayload(claim) \in Content
  BY DEF NormalizedPayload, Content
<1>. QED BY <1>1 DEF CanonicalBody, Body

LEMMA ChainClaimTyped ==
  ASSUME NEW id \in Identity, NEW stated \in Statement, NEW payload \in Content \cup {NoPayload},
         NEW claim, claim.id = id, claim.stated = stated, claim.payload = payload,
         NEW n \in Nat, NEW previous \in Hash
  PROVE  /\ ChainClaim(claim, n, previous) \in ClaimDocument
         /\ CanonicalBody(ChainClaim(claim, n, previous)) = CanonicalBody(claim)
<1>1. NormalizedPayload(claim) \in Content /\ CanonicalBody(claim) \in Body
  BY CanonicalBodyTyped
<1>2. ClaimHash(previous, n, CanonicalBody(claim)) \in Hash
  BY <1>1, ClaimHashTyped
<1>3. NormalizedPayload(claim) # NoPayload
  BY <1>1, ReceiptsAssumption DEF Content, Statement
<1>4. CanonicalBody(ChainClaim(claim, n, previous)) = CanonicalBody(claim)
  BY <1>3 DEF CanonicalBody, NormalizedPayload, ChainClaim
<1>. HIDE DEF CanonicalBody, NormalizedPayload, ClaimHash
<1>. QED BY <1>1, <1>2, <1>4 DEF ChainClaim, ClaimDocument

LEMMA StateClaimTyped ==
  ASSUME NEW x \in Identity
  PROVE  /\ StateClaim(x).id = x
         /\ StateClaim(x).stated \in Statement
         /\ StateClaim(x).payload \in Content \cup {NoPayload}
<1>1. x.path \in Path \cup {NoPath} /\ x.state \in ImmediateState
  BY PactGraphAssumption DEF Identity, IsEvidence, IsStateClaim
<1>2. x \in Claim => GivenPayload[x] \in Content \cup {NoPayload}
  BY ReceiptsAssumption DEF Content
<1>. QED BY <1>1, <1>2 DEF StateClaim, Statement

LEMMA DocumentBodyTyped ==
  ASSUME NEW d \in ClaimDocument
  PROVE  CanonicalBody(d) \in Body
<1>1. d.id \in Identity /\ d.stated \in Statement /\ d.payload \in Content \cup {NoPayload}
  BY DEF ClaimDocument
<1>. QED BY <1>1, CanonicalBodyTyped

(* Two chains of one length with one terminal hash agree in all that is    *)
(* hashed: the last place where they differed would have to have differed  *)
(* in its hash.                                                            *)
LEMMA TerminalHashDetermines ==
  ASSUME NEW a \in Seq(ClaimDocument), NEW b \in Seq(ClaimDocument),
         VerifyClaimChain(a), VerifyClaimChain(b),
         Len(a) = Len(b), TerminalHash(a) = TerminalHash(b)
  PROVE  \A n \in 1..Len(a) : Hashed(a[n]) = Hashed(b[n])
<1>. DEFINE L == Len(a)
            Differing == {d \in 0..(L - 1) : Hashed(a[L - d]) # Hashed(b[L - d])}
<1>1. L \in Nat /\ Differing \in SUBSET Nat
  OBVIOUS
<1>2. \A d \in 0..(L - 1) : a[L - d] \in ClaimDocument /\ b[L - d] \in ClaimDocument
  BY <1>1
<1>3. ASSUME Differing # {}
      PROVE  FALSE
  <2>1. PICK d \in Differing : \A m \in Differing : d <= m
    BY <1>1, <1>3, LeastNumber
  <2>. DEFINE k == L - d
  <2>2. k \in 1..L /\ d \in 0..(L - 1) /\ k \in 1..Len(a) /\ k \in 1..Len(b)
    BY <1>1
  <2>3. a[k].hash = b[k].hash
    <3>1. CASE d = 0
      BY <1>1, <2>2, <3>1 DEF TerminalHash
    <3>2. CASE d # 0
      <4>1. d - 1 \in 0..(L - 1) /\ L - (d - 1) = k + 1 /\ k + 1 \in 1..L /\ k + 1 # 1
        BY <1>1, <2>2, <3>2
      <4>2. Hashed(a[k + 1]) = Hashed(b[k + 1])
        <5>1. ASSUME d - 1 \in Differing
              PROVE  FALSE
          <6>1. d <= d - 1
            BY <2>1, <5>1, Zenon
          <6>. QED BY <1>1, <2>2, <6>1
        <5>. QED BY <4>1, <5>1
      <4>3. a[k + 1].previous = a[k].hash /\ b[k + 1].previous = b[k].hash
        <5>1. \A list : VerifyClaimChain(list) =>
                \A n \in 1..Len(list) : n # 1 => list[n].previous = list[n - 1].hash
          BY DEF VerifyClaimChain
        <5>2. k + 1 \in 1..Len(a) /\ k + 1 \in 1..Len(b) /\ (k + 1) - 1 = k
          BY <1>1, <2>2, <4>1
        <5>. HIDE DEF k
        <5>. QED BY <4>1, <5>1, <5>2
      <4>4. a[k + 1].previous = b[k + 1].previous
        BY <4>2 DEF Hashed
      <4>. QED BY <4>3, <4>4
    <3>. QED BY <3>1, <3>2
  <2>4. /\ a[k].hash = ClaimHash(a[k].previous, a[k].sequence, CanonicalBody(a[k]))
        /\ b[k].hash = ClaimHash(b[k].previous, b[k].sequence, CanonicalBody(b[k]))
    BY <2>2 DEF VerifyClaimChain
  <2>5. a[k] \in ClaimDocument /\ b[k] \in ClaimDocument
    BY <1>2, <2>2
  <2>6. /\ a[k].previous = b[k].previous
        /\ a[k].sequence = b[k].sequence
        /\ CanonicalBody(a[k]) = CanonicalBody(b[k])
    <3>1. /\ a[k].previous \in Hash /\ a[k].sequence \in Nat
          /\ b[k].previous \in Hash /\ b[k].sequence \in Nat
      <4>1. \A document \in ClaimDocument : document.previous \in Hash /\ document.sequence \in Nat
        BY DEF ClaimDocument
      <4>. QED BY <2>5, <4>1
    <3>. HIDE DEF k
    <3>2. CanonicalBody(a[k]) \in Body /\ CanonicalBody(b[k]) \in Body
      BY <2>5, DocumentBodyTyped
    <3>3. ClaimHash(a[k].previous, a[k].sequence, CanonicalBody(a[k]))
            = ClaimHash(b[k].previous, b[k].sequence, CanonicalBody(b[k]))
      BY <2>3, <2>4
    <3>. QED BY <3>1, <3>2, <3>3, ClaimHashInjective
  <2>7. Hashed(a[k]) = Hashed(b[k])
    BY <2>3, <2>6 DEF Hashed
  <2>. QED BY <2>2, <2>7
<1>4. \A k \in 1..L : Hashed(a[k]) = Hashed(b[k])
  <2>1. SUFFICES ASSUME NEW k \in 1..L PROVE Hashed(a[k]) = Hashed(b[k])
    OBVIOUS
  <2>2. L - k \in 0..(L - 1) /\ L - (L - k) = k
    BY <1>1
  <2>3. L - k \notin Differing
    BY <1>3
  <2>. QED BY <2>2, <2>3
<1>. QED BY <1>4

-----------------------------------------------------------------------------
(* The chain, and the claims and evidence that are on it.                  *)
ChainInv ==
  /\ history \in Seq(ClaimDocument)
  /\ ChainUnforked

LEMMA ChainInit == ReceiptsInit => ChainInv
  BY DEF ReceiptsInit, Init, ChainInv, ChainUnforked, VerifyClaimChain, TerminalHash

(* Chaining a claim that is not on the chain yet.                          *)
LEMMA ChainGrows ==
  ASSUME ChainInv, NEW x \in Identity, x \notin claims \cup ingested, Chain(x)
  PROVE  /\ \E d \in ClaimDocument : history' = Append(history, d)
         /\ history' \in Seq(ClaimDocument)
         /\ VerifyClaimChain(history')
         /\ head' = [sequence |-> Len(history'), hash |-> TerminalHash(history')]
         /\ {history'[n].id : n \in 1..Len(history')} = claims \cup ingested \cup {x}
         /\ \A m, n \in 1..Len(history') : history'[m].id = history'[n].id => m = n
<1>. DEFINE L == Len(history)
            hash == TerminalHash(history)
            claim == StateClaim(x)
            d == ChainClaim(claim, L + 1, hash)
<1>1. history \in Seq(ClaimDocument) /\ L \in Nat /\ hash \in Hash
  BY TerminalHashTyped DEF ChainInv
<1>2. history' = Append(history, d)
      /\ head' = [sequence |-> d.sequence, hash |-> d.hash]
  BY DEF ChainInv, ChainUnforked, Chain
<1>4. d \in ClaimDocument /\ CanonicalBody(d) = CanonicalBody(claim)
  <2>1. L + 1 \in Nat
    BY <1>1
  <2>. HIDE DEF L, hash, claim
  <2>. QED BY <1>1, <2>1, StateClaimTyped, ChainClaimTyped DEF claim
<1>3. d.id = x /\ d.sequence = L + 1 /\ d.previous = hash
      /\ d.hash = ClaimHash(hash, L + 1, CanonicalBody(d))
  <2>1. claim.id = x
    BY StateClaimTyped
  <2>. HIDE DEF L, hash, claim
  <2>. QED BY <1>4, <2>1 DEF ChainClaim
<1>. HIDE DEF d, claim
<1>5. /\ history' \in Seq(ClaimDocument)
      /\ Len(history') = L + 1
      /\ history'[L + 1] = d
      /\ \A n \in 1..L : history'[n] = history[n]
  BY <1>1, <1>2, <1>4
<1>6. VerifyClaimChain(history')
  <2>1. ASSUME NEW n \in 1..L
        PROVE  /\ history'[n].sequence = n
               /\ history'[n].previous = IF n = 1 THEN <<>> ELSE history'[n - 1].hash
               /\ history'[n].hash = ClaimHash(history'[n].previous, history'[n].sequence,
                                               CanonicalBody(history'[n]))
    <3>1. n # 1 => n - 1 \in 1..L
      BY <1>1
    <3>. QED BY <1>5, <3>1 DEF ChainInv, ChainUnforked, VerifyClaimChain
  <2>2. hash = IF L + 1 = 1 THEN <<>> ELSE history'[L].hash
    <3>1. CASE L = 0
      BY <1>1, <3>1 DEF TerminalHash
    <3>2. CASE L # 0
      <4>1. history # <<>> /\ L \in 1..L
        BY <1>1, <3>2
      <4>. QED BY <1>1, <1>5, <3>2, <4>1 DEF TerminalHash
    <3>. QED BY <3>1, <3>2
  <2>3. \A n \in 1..(L + 1) : n \in 1..L \/ n = L + 1
    BY <1>1
  <2>4. ClaimHash(d.previous, d.sequence, CanonicalBody(d)) = d.hash
    BY <1>3
  <2>5. (L + 1) - 1 = L
    BY <1>1
  <2>. HIDE DEF L, hash
  <2>. QED BY <1>3, <1>5, <2>1, <2>2, <2>3, <2>4, <2>5 DEF VerifyClaimChain
<1>7. head' = [sequence |-> Len(history'), hash |-> TerminalHash(history')]
  <2>1. history' # <<>>
    BY <1>1, <1>5
  <2>. QED BY <1>2, <1>3, <1>5, <2>1 DEF TerminalHash
<1>8. /\ {history'[n].id : n \in 1..Len(history')} = claims \cup ingested \cup {x}
      /\ \A m, n \in 1..Len(history') : history'[m].id = history'[n].id => m = n
  <2>1. \A n \in 1..(L + 1) : n \in 1..L \/ n = L + 1
    BY <1>1
  <2>2. \A n \in 1..L : n \in 1..(L + 1)
    BY <1>1
  <2>3. L + 1 \in 1..(L + 1)
    BY <1>1
  <2>4. {history[n].id : n \in 1..L} = claims \cup ingested
        /\ \A m, n \in 1..L : history[m].id = history[n].id => m = n
    BY DEF ChainInv, ChainUnforked
  <2>. HIDE DEF L
  <2>. QED BY <1>3, <1>5, <2>1, <2>2, <2>3, <2>4
<1>. QED BY <1>2, <1>4, <1>5, <1>6, <1>7, <1>8

LEMMA ChainStep ==
  ASSUME ChainInv, GraphTypeOK, [ReceiptsNext]_receiptsVars
  PROVE  /\ ChainInv'
         /\ history' = history \/ \E d \in ClaimDocument : history' = Append(history, d)
<1>1. CASE UNCHANGED chainVars /\ UNCHANGED vars
  BY <1>1 DEF ChainInv, ChainUnforked, chainVars, vars
<1>2. ASSUME NEW c \in Claim, AppendChained(c)
      PROVE  ChainInv' /\ \E d \in ClaimDocument : history' = Append(history, d)
  <2>1. c \in Identity /\ c \notin claims \cup ingested
    BY <1>2, ReceiptsAssumption DEF AppendChained, AppendClaim, Identity, GraphTypeOK
  <2>2. claims' = claims \cup {c} /\ ingested' = ingested /\ Chain(c)
    BY <1>2 DEF AppendChained, AppendClaim
  <2>. QED BY <2>1, <2>2, ChainGrows DEF ChainInv, ChainUnforked
<1>3. ASSUME NEW e \in Evidence, IngestChained(e)
      PROVE  ChainInv' /\ \E d \in ClaimDocument : history' = Append(history, d)
  <2>1. e \in Identity /\ e \notin claims \cup ingested
    BY <1>3, ReceiptsAssumption DEF IngestChained, IngestEvidence, Identity, GraphTypeOK
  <2>2. claims' = claims /\ ingested' = ingested \cup {e} /\ Chain(e)
    BY <1>3 DEF IngestChained, IngestEvidence
  <2>. QED BY <2>1, <2>2, ChainGrows DEF ChainInv, ChainUnforked
<1>4. ASSUME NEW i \in Issuer, IssuerStep(i) PROVE UNCHANGED chainVars /\ UNCHANGED vars
  BY <1>4 DEF IssuerStep, IssuerOnly, ReadPact, ReadClaims, ReadEvidence, CreateCheckpoint,
     CreateReceipt, ReadForReissue, ReadEvidenceAgain, Reissue, AbandonIssue
<1>5. ASSUME ReaderStep PROVE UNCHANGED chainVars /\ UNCHANGED vars
  BY <1>5 DEF ReaderStep, ReaderOnly, ReadReceipts, ReadCheckpoint, LiveProof
<1>. QED BY <1>1, <1>2, <1>3, <1>4, <1>5 DEF ReceiptsNext, receiptsVars, chainVars

(* Every reachable history is such a chain.                                *)
THEOREM ChainInvariance == ReceiptsSpec => []ChainInv
<1>1. GraphInvariant => GraphTypeOK
  BY DEF GraphInvariant
<1>2. ChainInv /\ GraphTypeOK /\ [ReceiptsNext]_receiptsVars => ChainInv'
  BY ChainStep
<1>. QED BY <1>1, <1>2, ChainInit, GraphOfReceipts, PTL DEF ReceiptsSpec

(* The claim chain neither forks nor skips, whoever appends to it.         *)
THEOREM ChainsNeverFork == ReceiptsSpec => []ChainUnforked
<1>1. ChainInv => ChainUnforked
  BY DEF ChainInv
<1>. QED BY <1>1, ChainInvariance, PTL

-----------------------------------------------------------------------------
(* The artifacts, and what an issuer or the reader holds of them: every    *)
(* list is a prefix of the history, evidence read is ingested, and states  *)
(* read are of evidence ingested, or read after them.                      *)
Evidenced(states, evidence) ==
  \A o \in Operation : states[o] # NoEvidence => states[o] \in evidence

CheckpointInv ==
  /\ \A c \in checkpoints :
       /\ c.through \in 0..Len(history)
       /\ c.terminal = TerminalHash(Through(c.through))
       /\ c.evidence \subseteq ingested
  /\ \A c, d \in checkpoints : c.through = d.through => c = d

ReceiptInv ==
  \A r \in receipts : \E c \in checkpoints :
    /\ r.through = c.through /\ r.terminal = c.terminal
    /\ r.evidence \subseteq c.evidence
    /\ \A o \in Operation :
         r.states[o] # NoEvidence /\ (r.kind = "original" \/ r.states[o].rank = 1)
           => r.states[o] \in c.evidence

HeldInv(i) ==
  /\ stage[i] \in {"pact", "claims", "reissue"} => Evidenced(seen[i].states, ingested)
  /\ stage[i] \in {"claims", "evidence", "checkpoint"} =>
       \E n \in 0..Len(history) : seen[i].list = Through(n)
  /\ stage[i] \in {"evidence", "checkpoint", "reissued"} =>
       Evidenced(seen[i].states, seen[i].evidence)
  /\ stage[i] \in {"evidence", "checkpoint"} => seen[i].evidence \subseteq ingested
  /\ stage[i] = "checkpoint" => Checkpoint(seen[i].list, seen[i].evidence) \in checkpoints
  /\ stage[i] \in {"reissue", "reissued"} => seen[i].checkpoint \in checkpoints

ReaderInv ==
  /\ reading = <<>> \/ \E r \in receipts :
       reading = <<r>> \/ \E c \in checkpoints : c.through = r.through /\ reading = <<r, c>>
  /\ ~refuted

ArtifactInv ==
  /\ stage \in [Issuer -> Stage]
  /\ seen \in [Issuer -> {seen[i] : i \in Issuer}]
  /\ CheckpointInv /\ ReceiptInv /\ ReaderInv
  /\ \A i \in Issuer : HeldInv(i)

LEMMA ArtifactInit == ReceiptsInit => ArtifactInv
  BY DEF ReceiptsInit, ArtifactInv, CheckpointInv, ReceiptInv, ReaderInv, HeldInv, Stage

(* What was covered stays covered, by the same claims.                     *)
LEMMA ThroughStable ==
  ASSUME ChainInv, GraphTypeOK, [ReceiptsNext]_receiptsVars
  PROVE  \A n \in 0..Len(history) : n \in 0..Len(history') /\ Through(n)' = Through(n)
<1>1. CASE history' = history
  BY <1>1 DEF Through
<1>2. ASSUME NEW d \in ClaimDocument, history' = Append(history, d)
      PROVE  \A n \in 0..Len(history) : n \in 0..Len(history') /\ Through(n)' = Through(n)
  <2>1. history \in Seq(ClaimDocument)
    BY DEF ChainInv
  <2>2. Len(history') = Len(history) + 1
    BY <1>2, <2>1
  <2>. QED BY <1>2, <2>1, <2>2, PrefixStable DEF Through
<1>. QED BY <1>1, <1>2, ChainStep

LEMMA ThroughVerifies ==
  ASSUME ChainInv, NEW n \in 0..Len(history)
  PROVE  /\ Through(n) \in Seq(ClaimDocument)
         /\ Len(Through(n)) = n
         /\ VerifyClaimChain(Through(n))
  BY PrefixVerifies DEF ChainInv, ChainUnforked, Through

(* A receipt verifies against its checkpoint and the claims that covers.   *)
LEMMA BundlesVerify ==
  ASSUME ChainInv, CheckpointInv, NEW c \in checkpoints, NEW r,
         r.through = c.through, r.terminal = c.terminal, r.evidence \subseteq c.evidence
  PROVE  VerifyBundle(r, c, Through(c.through))
<1>1. c.through \in 0..Len(history) /\ c.terminal = TerminalHash(Through(c.through))
  BY DEF CheckpointInv
<1>. QED BY <1>1, ThroughVerifies DEF VerifyBundle, Bound

(* Steps that issue nothing keep the artifacts and what is held of them.   *)
LEMMA GraphStepKeepsArtifacts ==
  ASSUME ChainInv, GraphTypeOK, ArtifactInv, [ReceiptsNext]_receiptsVars,
         UNCHANGED <<artifactVars, issuerVars>>, ReaderInv'
  PROVE  ArtifactInv'
<1>1. \A n \in 0..Len(history) : n \in 0..Len(history') /\ Through(n)' = Through(n)
  BY ThroughStable
<1>2. ingested \subseteq ingested'
  <2>1. [Next]_vars
    BY ReceiptsStepIsGraphStep
  <2>. QED BY <2>1 DEF Next, vars, AppendClaim, IngestEvidence
<1>3. UNCHANGED <<checkpoints, receipts, stage, seen>>
  BY DEF artifactVars, issuerVars
<1>4. CheckpointInv'
  <2>1. SUFFICES ASSUME NEW c \in checkpoints
                 PROVE  /\ c.through \in 0..Len(history')
                        /\ c.terminal = TerminalHash(Through(c.through)')
                        /\ c.evidence \subseteq ingested'
    BY <1>3 DEF ArtifactInv, CheckpointInv, TerminalHash
  <2>. QED BY <1>1, <1>2 DEF ArtifactInv, CheckpointInv
<1>5. ReceiptInv'
  BY <1>3 DEF ArtifactInv, ReceiptInv
<1>6. ASSUME NEW i \in Issuer
      PROVE  HeldInv(i)'
  <2>1. HeldInv(i)
    BY DEF ArtifactInv
  <2>2. \A states : Evidenced(states, ingested) => Evidenced(states, ingested')
    BY <1>2 DEF Evidenced
  <2>3. (\E n \in 0..Len(history) : seen[i].list = Through(n)) =>
          \E n \in 0..Len(history') : seen[i].list = Through(n)'
    BY <1>1
  <2>. QED BY <1>2, <1>3, <2>1, <2>2, <2>3 DEF HeldInv
<1>. QED BY <1>3, <1>4, <1>5, <1>6 DEF ArtifactInv

(* A step of one issuer that leaves the receipts alone, or adds one that   *)
(* is bound to a checkpoint, and adds no checkpoint but such as it holds.  *)
LEMMA IssuerFrame ==
  ASSUME ArtifactInv, NEW i \in Issuer, NEW s \in Stage, NEW what,
         Goto(i, s), See(i, what), IssuerOnly,
         checkpoints \subseteq checkpoints', CheckpointInv', ReceiptInv',
         receipts \subseteq receipts', HeldInv(i)'
  PROVE  ArtifactInv'
<1>1. /\ stage' \in [Issuer -> Stage]
      /\ \A j \in Issuer \ {i} : stage'[j] = stage[j] /\ seen'[j] = seen[j]
      /\ seen' \in [Issuer -> {seen'[j] : j \in Issuer}]
  BY DEF ArtifactInv, Goto, See
<1>2. UNCHANGED <<ingested, history, reading, refuted>>
  BY DEF IssuerOnly, vars, chainVars, readerVars
<1>3. ASSUME NEW j \in Issuer
      PROVE  HeldInv(j)'
  <2>1. CASE j = i
    BY <2>1
  <2>2. CASE j # i
    <3>1. HeldInv(j) /\ stage'[j] = stage[j] /\ seen'[j] = seen[j]
      BY <1>1, <2>2 DEF ArtifactInv
    <3>. QED BY <1>2, <3>1 DEF HeldInv, Through, Evidenced, Checkpoint
  <2>. QED BY <2>1, <2>2
<1>4. ReaderInv'
  BY <1>2 DEF ArtifactInv, ReaderInv
<1>. QED BY <1>1, <1>3, <1>4 DEF ArtifactInv

(* The same with a state of its own left as it was.                        *)
LEMMA IssuerArtifactsKept ==
  ASSUME ArtifactInv, IssuerOnly, UNCHANGED artifactVars
  PROVE  /\ checkpoints' = checkpoints /\ receipts' = receipts
         /\ CheckpointInv' /\ ReceiptInv'
  BY DEF ArtifactInv, IssuerOnly, artifactVars, CheckpointInv, ReceiptInv, vars, chainVars,
     Through, TerminalHash

LEMMA IdleHoldsNothing ==
  ASSUME ArtifactInv, NEW i \in Issuer, GiveUp(i)
  PROVE  HeldInv(i)'
  BY DEF ArtifactInv, GiveUp, Goto, See, HeldInv

LEMMA ReadingKeepsArtifacts ==
  ASSUME ChainInv, GraphInvariant, ArtifactInv, NEW i \in Issuer,
         \/ ReadPact(i) \/ ReadClaims(i) \/ ReadEvidence(i)
         \/ ReadForReissue(i) \/ ReadEvidenceAgain(i) \/ AbandonIssue(i)
  PROVE  ArtifactInv'
<1>1. IssuerOnly /\ UNCHANGED artifactVars
  BY DEF ReadPact, ReadClaims, ReadEvidence, ReadForReissue, ReadEvidenceAgain, AbandonIssue
<1>2. /\ checkpoints' = checkpoints /\ receipts' = receipts
      /\ CheckpointInv' /\ ReceiptInv'
  BY <1>1, IssuerArtifactsKept
<1>3. UNCHANGED <<ingested, history>>
  BY <1>1 DEF IssuerOnly, vars, chainVars
<1>4. Evidenced(resolved, ingested)
  BY DEF GraphInvariant, ProjectionsIngested, Evidenced
<1>5. \A s : Goto(i, s) => stage'[i] = s
  BY DEF Goto, ArtifactInv
<1>6. \A what : See(i, what) => seen'[i] = what
  BY DEF See, ArtifactInv
<1>7. CASE ReadPact(i)
  <2>1. stage'[i] = "pact" /\ seen'[i].states = resolved
    BY <1>5, <1>6, <1>7 DEF ReadPact
  <2>2. HeldInv(i)'
    BY <1>3, <1>4, <2>1 DEF HeldInv, Evidenced
  <2>. QED BY <1>1, <1>2, <1>7, <2>2, IssuerFrame DEF ReadPact, Stage
<1>8. CASE ReadClaims(i)
  <2>1. CASE GiveUp(i)
    BY <1>1, <1>2, <2>1, IdleHoldsNothing, IssuerFrame DEF GiveUp, Stage
  <2>2. CASE Goto(i, "claims") /\ See(i, [states |-> seen[i].states, list |-> history])
    <3>1. stage'[i] = "claims" /\ seen'[i].states = seen[i].states /\ seen'[i].list = history
      BY <1>5, <1>6, <2>2
    <3>2. Evidenced(seen[i].states, ingested)
      BY <1>8 DEF ArtifactInv, HeldInv, ReadClaims
    <3>3. Len(history) \in 0..Len(history) /\ history = Through(Len(history))
      BY SubSeqFull DEF ChainInv, Through
    <3>4. HeldInv(i)'
      BY <1>3, <3>1, <3>2, <3>3 DEF HeldInv, Evidenced, Through
    <3>. QED BY <1>1, <1>2, <2>2, <3>4, IssuerFrame DEF Stage
  <2>. QED BY <1>8, <2>1, <2>2 DEF ReadClaims
<1>9. CASE ReadEvidence(i)
  <2>1. stage'[i] = "evidence" /\ seen'[i].states = seen[i].states
        /\ seen'[i].list = seen[i].list /\ seen'[i].evidence = ingested
    BY <1>5, <1>6, <1>9 DEF ReadEvidence
  <2>2. /\ Evidenced(seen[i].states, ingested)
        /\ \E n \in 0..Len(history) : seen[i].list = Through(n)
    BY <1>9 DEF ArtifactInv, HeldInv, ReadEvidence
  <2>3. HeldInv(i)'
    BY <1>3, <2>1, <2>2 DEF HeldInv, Evidenced, Through
  <2>. QED BY <1>1, <1>2, <1>9, <2>3, IssuerFrame DEF ReadEvidence, Stage
<1>10. CASE ReadForReissue(i)
  <2>1. PICK c \in checkpoints :
          See(i, [states |-> resolved, checkpoint |-> c, list |-> Through(c.through)])
    BY <1>10 DEF ReadForReissue
  <2>2. stage'[i] = "reissue" /\ seen'[i].states = resolved /\ seen'[i].checkpoint = c
    BY <1>5, <1>6, <1>10, <2>1 DEF ReadForReissue
  <2>3. HeldInv(i)'
    BY <1>2, <1>3, <1>4, <2>2 DEF HeldInv, Evidenced
  <2>. QED BY <1>1, <1>2, <1>10, <2>1, <2>3, IssuerFrame DEF ReadForReissue, Stage
<1>11. CASE ReadEvidenceAgain(i)
  <2>1. stage'[i] = "reissued" /\ seen'[i].states = seen[i].states
        /\ seen'[i].checkpoint = seen[i].checkpoint /\ seen'[i].evidence = ingested
    BY <1>5, <1>6, <1>11 DEF ReadEvidenceAgain
  <2>2. Evidenced(seen[i].states, ingested) /\ seen[i].checkpoint \in checkpoints
    BY <1>11 DEF ArtifactInv, HeldInv, ReadEvidenceAgain
  <2>3. HeldInv(i)'
    BY <1>2, <1>3, <2>1, <2>2 DEF HeldInv, Evidenced
  <2>. QED BY <1>1, <1>2, <1>11, <2>3, IssuerFrame DEF ReadEvidenceAgain, Stage
<1>12. CASE AbandonIssue(i)
  BY <1>1, <1>2, <1>12, IdleHoldsNothing, IssuerFrame DEF AbandonIssue, GiveUp, Stage
<1>. QED BY <1>7, <1>8, <1>9, <1>10, <1>11, <1>12

LEMMA CreateCheckpointKeepsArtifacts ==
  ASSUME ChainInv, ArtifactInv, NEW i \in Issuer, CreateCheckpoint(i)
  PROVE  ArtifactInv'
<1>1. IssuerOnly /\ receipts' = receipts /\ UNCHANGED <<ingested, history>>
  BY DEF CreateCheckpoint, IssuerOnly, vars, chainVars
<1>2. CASE GiveUp(i) /\ UNCHANGED checkpoints
  <2>1. UNCHANGED artifactVars
    BY <1>1, <1>2 DEF artifactVars
  <2>2. /\ checkpoints' = checkpoints /\ receipts' = receipts
        /\ CheckpointInv' /\ ReceiptInv'
    BY <1>1, <2>1, IssuerArtifactsKept
  <2>. QED BY <1>1, <1>2, <2>2, IdleHoldsNothing, IssuerFrame DEF GiveUp, Stage
<1>3. CASE /\ stage[i] = "evidence"
           /\ ~ \E c \in checkpoints : c.through = Len(seen[i].list)
           /\ checkpoints' = checkpoints \cup {Checkpoint(seen[i].list, seen[i].evidence)}
           /\ Goto(i, "checkpoint") /\ UNCHANGED seen
  <2>. DEFINE made == Checkpoint(seen[i].list, seen[i].evidence)
  <2>1. PICK n \in 0..Len(history) : seen[i].list = Through(n)
    BY <1>3 DEF ArtifactInv, HeldInv
  <2>2. made.through = n /\ made.terminal = TerminalHash(Through(n))
        /\ made.evidence = seen[i].evidence /\ n = Len(seen[i].list)
    BY <2>1, ThroughVerifies DEF Checkpoint
  <2>3. seen[i].evidence \subseteq ingested /\ Evidenced(seen[i].states, seen[i].evidence)
    BY <1>3 DEF ArtifactInv, HeldInv
  <2>. HIDE DEF made
  <2>4. checkpoints' = checkpoints \cup {made}
    BY <1>3 DEF made
  <2>5. CheckpointInv'
    <3>1. \A c \in checkpoints : /\ c.through \in 0..Len(history)
                                 /\ c.terminal = TerminalHash(Through(c.through))
                                 /\ c.evidence \subseteq ingested
                                 /\ c.through # n
      BY <1>3, <2>2 DEF ArtifactInv, CheckpointInv
    <3>2. \A c, d \in checkpoints : c.through = d.through => c = d
      BY DEF ArtifactInv, CheckpointInv
    <3>3. \A c \in checkpoints' : /\ c.through \in 0..Len(history)
                                  /\ c.terminal = TerminalHash(Through(c.through))
                                  /\ c.evidence \subseteq ingested
      BY <2>2, <2>3, <2>4, <3>1
    <3>4. \A c, d \in checkpoints' : c.through = d.through => c = d
      BY <2>2, <2>4, <3>1, <3>2
    <3>. QED BY <1>1, <3>3, <3>4 DEF CheckpointInv, Through, TerminalHash
  <2>6. ReceiptInv'
    BY <1>1, <2>4 DEF ArtifactInv, ReceiptInv
  <2>7. stage'[i] = "checkpoint" /\ seen'[i] = seen[i]
    BY <1>3 DEF Goto, ArtifactInv
  <2>8. HeldInv(i)'
    BY <1>1, <2>1, <2>3, <2>4, <2>7 DEF HeldInv, Through, Evidenced, made
  <2>9. See(i, seen[i])
    BY <1>3 DEF See, ArtifactInv
  <2>. QED BY <1>1, <1>3, <2>4, <2>5, <2>6, <2>8, <2>9, IssuerFrame DEF Stage
<1>. QED BY <1>2, <1>3 DEF CreateCheckpoint

(* A receipt bound to a checkpoint that is stored may be stored.           *)
LEMMA IssuingKeepsArtifacts ==
  ASSUME ChainInv, ArtifactInv, NEW i \in Issuer, NEW made, NEW c \in checkpoints,
         made.through = c.through, made.terminal = c.terminal, made.evidence \subseteq c.evidence,
         \A o \in Operation :
           made.states[o] # NoEvidence /\ (made.kind = "original" \/ made.states[o].rank = 1)
             => made.states[o] \in c.evidence,
         receipts' \in {receipts, receipts \cup {made}}, GiveUp(i), IssuerOnly,
         UNCHANGED checkpoints
  PROVE  ArtifactInv'
<1>1. CheckpointInv'
  BY DEF ArtifactInv, CheckpointInv, IssuerOnly, vars, chainVars, Through, TerminalHash
<1>2. ReceiptInv'
  BY DEF ArtifactInv, ReceiptInv
<1>3. receipts \subseteq receipts'
  OBVIOUS
<1>. QED BY <1>1, <1>2, <1>3, IdleHoldsNothing, IssuerFrame DEF GiveUp, Stage

LEMMA CreateReceiptKeepsArtifacts ==
  ASSUME ChainInv, ArtifactInv, NEW i \in Issuer, CreateReceipt(i)
  PROVE  ArtifactInv'
<1>. DEFINE c == Checkpoint(seen[i].list, seen[i].evidence)
            made == Receipt("original", seen[i].states, c, seen[i].evidence)
<1>1. c \in checkpoints /\ Evidenced(seen[i].states, seen[i].evidence)
  BY DEF ArtifactInv, HeldInv, CreateReceipt
<1>2. /\ made.through = c.through /\ made.terminal = c.terminal
      /\ made.evidence \subseteq c.evidence /\ made.states = seen[i].states
      /\ c.evidence = seen[i].evidence
  BY DEF Receipt, Checkpoint, Authoritative
<1>3. receipts' \in {receipts, receipts \cup {made}} /\ GiveUp(i) /\ IssuerOnly
      /\ UNCHANGED checkpoints
  BY DEF CreateReceipt
<1>. HIDE DEF c, made
<1>. QED BY <1>1, <1>2, <1>3, IssuingKeepsArtifacts DEF Evidenced

LEMMA ReissueKeepsArtifacts ==
  ASSUME ChainInv, ArtifactInv, NEW i \in Issuer, Reissue(i)
  PROVE  ArtifactInv'
<1>. DEFINE c == seen[i].checkpoint
            made == Receipt("reissued", seen[i].states, c, seen[i].evidence)
<1>1. c \in checkpoints /\ Evidenced(seen[i].states, seen[i].evidence)
  BY DEF ArtifactInv, HeldInv, Reissue
<1>2. /\ made.through = c.through /\ made.terminal = c.terminal
      /\ made.kind = "reissued" /\ made.states = seen[i].states
      /\ made.evidence = Authoritative(seen[i].evidence)
  BY DEF Receipt
<1>3. GiveUp(i) /\ IssuerOnly /\ UNCHANGED checkpoints
  BY DEF Reissue
<1>4. CASE VerifyBundle(made, c, seen[i].list) /\ receipts' = receipts \cup {made}
  <2>1. made.evidence \subseteq c.evidence
    BY <1>4 DEF VerifyBundle
  <2>2. ASSUME NEW o \in Operation, made.states[o] # NoEvidence,
               made.kind = "original" \/ made.states[o].rank = 1
        PROVE  made.states[o] \in c.evidence
    <3>1. made.states[o] \in seen[i].evidence /\ made.states[o].rank = 1
      BY <1>1, <1>2, <2>2 DEF Evidenced
    <3>. QED BY <1>2, <2>1, <3>1 DEF Authoritative
  <2>. HIDE DEF c, made
  <2>. QED BY <1>1, <1>2, <1>3, <1>4, <2>1, <2>2, IssuingKeepsArtifacts
<1>5. CASE receipts' = receipts
  <2>1. UNCHANGED artifactVars
    BY <1>3, <1>5 DEF artifactVars
  <2>2. /\ checkpoints' = checkpoints /\ receipts' = receipts
        /\ CheckpointInv' /\ ReceiptInv'
    BY <1>3, <2>1, IssuerArtifactsKept
  <2>. QED BY <1>3, <2>2, IdleHoldsNothing, IssuerFrame DEF GiveUp, Stage
<1>. QED BY <1>4, <1>5 DEF Reissue

(* The reader finds the checkpoint of its receipt, and a bundle of them    *)
(* that verifies.                                                          *)
LEMMA ReaderStepKeepsReader ==
  ASSUME ChainInv, ArtifactInv, ReaderStep
  PROVE  ReaderInv' /\ UNCHANGED <<vars, chainVars, artifactVars, issuerVars>>
<1>1. UNCHANGED <<vars, chainVars, artifactVars, issuerVars>>
  BY DEF ReaderStep, ReadReceipts, ReadCheckpoint, LiveProof, ReaderOnly
<1>2. checkpoints' = checkpoints /\ receipts' = receipts
  BY <1>1 DEF artifactVars
<1>. SUFFICES ReaderInv'
  BY <1>1
<1>. DEFINE Pair(r, c) == r \in receipts /\ c \in checkpoints /\ c.through = r.through
<1>6. /\ ~refuted
      /\ \/ reading = <<>>
         \/ \E r \in receipts : reading = <<r>>
         \/ \E r, c : Pair(r, c) /\ reading = <<r, c>>
  BY DEF ArtifactInv, ReaderInv
<1>7. ASSUME ~refuted', NEW r, NEW c,
             reading' = <<>> \/ (r \in receipts /\ reading' = <<r>>)
               \/ (Pair(r, c) /\ reading' = <<r, c>>)
      PROVE  ReaderInv'
  BY <1>2, <1>7 DEF ReaderInv
<1>8. /\ Len(<<>>) = 0
      /\ \A r : Len(<<r>>) = 1 /\ <<r>>[1] = r
      /\ \A r, c : Len(<<r, c>>) = 2 /\ <<r, c>>[1] = r /\ <<r, c>>[2] = c
  OBVIOUS
<1>3. CASE ReadReceipts
  BY <1>3, <1>6, <1>7 DEF ReadReceipts
<1>4. CASE ReadCheckpoint
  <2>1. PICK r \in receipts : reading[1] = r
    BY <1>4, <1>6, <1>8 DEF ReadCheckpoint
  <2>. DEFINE named == {c \in checkpoints : c.through = r.through}
  <2>2. named # {}
    BY DEF ArtifactInv, ReceiptInv
  <2>3. (\E c \in named : reading' = <<r, c>>) /\ refuted' = refuted
    BY <1>4, <2>1, <2>2 DEF ReadCheckpoint
  <2>4. PICK c \in named : reading' = <<r, c>>
    BY <2>3
  <2>. QED BY <1>6, <1>7, <2>3, <2>4
<1>5. CASE LiveProof
  <2>1. PICK r, c : Pair(r, c) /\ reading = <<r, c>>
    <3>1. Len(reading) = 2
      BY <1>5 DEF LiveProof
    <3>2. reading # <<>> /\ \A r : reading # <<r>>
      BY <1>8, <3>1
    <3>. QED BY <1>6, <3>2, Zenon
  <2>2. r.terminal = c.terminal /\ r.evidence \subseteq c.evidence
    BY <2>1 DEF ArtifactInv, ReceiptInv, CheckpointInv
  <2>3. VerifyBundle(r, c, Through(c.through))
    BY <2>1, <2>2, BundlesVerify DEF ArtifactInv
  <2>4. reading[1] = r /\ reading[2] = c
    BY <1>8, <2>1
  <2>5. ~refuted' /\ reading' = <<>>
    BY <1>5, <1>6, <2>3, <2>4, Zenon DEF LiveProof
  <2>. QED BY <1>7, <2>5, Zenon
<1>. QED BY <1>1, <1>3, <1>4, <1>5 DEF ReaderStep

LEMMA ArtifactStep ==
  ASSUME ChainInv, GraphInvariant, ArtifactInv, [ReceiptsNext]_receiptsVars
  PROVE  ArtifactInv'
<1>. USE DEF GraphInvariant
<1>1. CASE UNCHANGED receiptsVars
  BY <1>1, GraphStepKeepsArtifacts
     DEF receiptsVars, artifactVars, issuerVars, readerVars, ArtifactInv, ReaderInv
<1>2. CASE (\E c \in Claim : AppendChained(c)) \/ (\E e \in Evidence : IngestChained(e))
  <2>1. UNCHANGED <<artifactVars, issuerVars, readerVars>>
    BY <1>2 DEF AppendChained, IngestChained
  <2>2. ReaderInv'
    BY <2>1 DEF artifactVars, readerVars, ArtifactInv, ReaderInv
  <2>. QED BY <2>1, <2>2, GraphStepKeepsArtifacts
<1>3. ASSUME NEW i \in Issuer, IssuerStep(i)
      PROVE  ArtifactInv'
  BY <1>3, ReadingKeepsArtifacts, CreateCheckpointKeepsArtifacts, CreateReceiptKeepsArtifacts,
     ReissueKeepsArtifacts DEF IssuerStep
<1>4. CASE ReaderStep
  BY <1>4, ReaderStepKeepsReader, GraphStepKeepsArtifacts
<1>. QED BY <1>1, <1>2, <1>3, <1>4 DEF ReceiptsNext

(* Every reachable state satisfies the invariant of chain and artifacts.   *)
THEOREM ReceiptsInvariance == ReceiptsSpec => [](ChainInv /\ ArtifactInv)
<1>1. ChainInv /\ ArtifactInv /\ GraphInvariant /\ [ReceiptsNext]_receiptsVars => ArtifactInv'
  BY ArtifactStep
<1>. QED BY <1>1, ArtifactInit, ChainInvariance, GraphOfReceipts, PTL DEF ReceiptsSpec

(* Stored receipts verify for ever after.                                  *)
THEOREM ReceiptsVerifyForGood == ReceiptsSpec => []IssuedReceiptsVerify
<1>1. ChainInv /\ ArtifactInv => IssuedReceiptsVerify
  <2>1. SUFFICES ASSUME ChainInv, ArtifactInv, NEW r \in receipts
                 PROVE  \E c \in checkpoints :
                          c.through = r.through /\ VerifyBundle(r, c, Through(c.through))
    BY DEF IssuedReceiptsVerify
  <2>2. PICK c \in checkpoints : /\ r.through = c.through /\ r.terminal = c.terminal
                                 /\ r.evidence \subseteq c.evidence
    BY <2>1 DEF ArtifactInv, ReceiptInv
  <2>. QED BY <2>1, <2>2, BundlesVerify DEF ArtifactInv
<1>. QED BY <1>1, ReceiptsInvariance, PTL

(* What receipts report is in the evidence their checkpoints commit to.    *)
THEOREM ReportsAreCommitted == ReceiptsSpec => []ReportedStatesCommitted
<1>1. ArtifactInv => ReportedStatesCommitted
  BY DEF ArtifactInv, ReceiptInv, CheckpointInv, ReportedStatesCommitted
<1>. QED BY <1>1, ReceiptsInvariance, PTL

(* The service's live proof never fails of its own readings.               *)
THEOREM LiveProofsHold == ReceiptsSpec => []LiveProofHolds
<1>1. ArtifactInv => LiveProofHolds
  BY DEF ArtifactInv, ReaderInv, LiveProofHolds
<1>. QED BY <1>1, ReceiptsInvariance, PTL

-----------------------------------------------------------------------------
(* What may be presented in the place of a history is a list of claim      *)
(* documents, and all those with its terminal hash are hashed alike.       *)
LEMMA EditedTyped ==
  ASSUME NEW d \in ClaimDocument
  PROVE  Edited(d) \subseteq ClaimDocument
<1>1. \A x \in Identity : StateClaim(x).stated \in Statement
                        /\ NormalizedPayload(StateClaim(x)) \in Content
  <2>1. SUFFICES ASSUME NEW x \in Identity
                 PROVE  StateClaim(x).stated \in Statement
                        /\ NormalizedPayload(StateClaim(x)) \in Content
    OBVIOUS
  <2>2. /\ StateClaim(x).id = x
        /\ StateClaim(x).stated \in Statement
        /\ StateClaim(x).payload \in Content \cup {NoPayload}
    BY StateClaimTyped
  <2>. QED BY <2>2, CanonicalBodyTyped
<1>2. \A x \in Identity : [d EXCEPT !.id = x] \in ClaimDocument
  BY DEF ClaimDocument
<1>3. \A x \in Statement : [d EXCEPT !.stated = x] \in ClaimDocument
  BY DEF ClaimDocument
<1>4. \A x \in Content \cup {NoPayload} : [d EXCEPT !.payload = x] \in ClaimDocument
  BY DEF ClaimDocument
<1>. QED BY <1>1, <1>2, <1>3, <1>4 DEF Edited

LEMMA AlteredTyped ==
  ASSUME NEW list \in Seq(ClaimDocument)
  PROVE  Altered(list) \subseteq Seq(ClaimDocument)
<1>1. ASSUME NEW n \in 1..Len(list), NEW d \in Edited(list[n])
      PROVE  [list EXCEPT ![n] = d] \in Seq(ClaimDocument)
  <2>1. list[n] \in ClaimDocument
    OBVIOUS
  <2>2. d \in ClaimDocument
    BY <2>1, EditedTyped
  <2>. QED BY <2>2
<1>2. ASSUME NEW m \in 1..Len(list)
      PROVE  [n \in 1..(Len(list) - 1) |-> IF n < m THEN list[n] ELSE list[n + 1]] \in Seq(ClaimDocument)
  <2>1. Len(list) - 1 \in Nat
    OBVIOUS
  <2>2. \A n \in 1..(Len(list) - 1) : n \in 1..Len(list) /\ n + 1 \in 1..Len(list)
    OBVIOUS
  <2>. QED BY <2>1, <2>2
<1>3. ASSUME NEW m \in 1..Len(list), NEW n \in 1..Len(list)
      PROVE  [list EXCEPT ![m] = list[n], ![n] = list[m]] \in Seq(ClaimDocument)
  OBVIOUS
<1>4. ASSUME NEW m \in 1..Len(list)
      PROVE  [n \in 1..(Len(list) + 1) |-> IF n <= m THEN list[n] ELSE list[n - 1]] \in Seq(ClaimDocument)
  <2>1. \A n \in 1..(Len(list) + 1) : /\ n <= m => n \in 1..Len(list)
                                      /\ ~(n <= m) => n - 1 \in 1..Len(list)
    OBVIOUS
  <2>2. Len(list) + 1 \in Nat
    OBVIOUS
  <2>3. \A n \in 1..(Len(list) + 1) : (IF n <= m THEN list[n] ELSE list[n - 1]) \in ClaimDocument
    BY <2>1
  <2>. QED BY <2>2, <2>3
<1>5. ASSUME NEW x \in Altered(list)
      PROVE  x \in Seq(ClaimDocument)
  <2>1. Rewritten(list) \subseteq Seq(ClaimDocument)
    BY <1>1 DEF Rewritten
  <2>2. Shortened(list) \subseteq Seq(ClaimDocument)
    BY <1>2, Zenon DEF Shortened
  <2>3. Exchanged(list) \subseteq Seq(ClaimDocument)
    BY <1>3 DEF Exchanged
  <2>4. Lengthened(list) \subseteq Seq(ClaimDocument)
    BY <1>4, Zenon DEF Lengthened
  <2>. QED BY <1>5, <2>1, <2>2, <2>3, <2>4 DEF Altered
<1>. QED BY <1>5

LEMMA RechainedTyped ==
  ASSUME NEW list \in Seq(ClaimDocument)
  PROVE  Rechained(list) \in Seq(ClaimDocument)
<1>1. ASSUME NEW n \in 1..Len(list)
      PROVE  ChainClaim(list[n], n, HashThrough(list, n - 1)) \in ClaimDocument
  <2>1. \A k \in 1..(n - 1) : <<k, CanonicalBody(list[k])>> \in Nat \X Body
    <3>1. SUFFICES ASSUME NEW k \in 1..(n - 1)
                   PROVE  k \in Nat /\ CanonicalBody(list[k]) \in Body
      OBVIOUS
    <3>2. k \in Nat /\ list[k] \in ClaimDocument
      OBVIOUS
    <3>. QED BY <3>2, DocumentBodyTyped
  <2>2. HashThrough(list, n - 1) \in Hash /\ n \in Nat
    <3>1. n - 1 \in Nat
      OBVIOUS
    <3>. QED BY <2>1, <3>1 DEF Hash, HashThrough
  <2>3. /\ list[n].id \in Identity /\ list[n].stated \in Statement
        /\ list[n].payload \in Content \cup {NoPayload}
    <3>1. list[n] \in ClaimDocument
      OBVIOUS
    <3>. QED BY <3>1 DEF ClaimDocument
  <2>. QED BY <2>2, <2>3, ChainClaimTyped
<1>2. Len(list) \in Nat
  OBVIOUS
<1>3. Rechained(list) \in [1..Len(list) -> ClaimDocument]
  BY <1>1, Zenon DEF Rechained
<1>. QED BY <1>2, <1>3, SeqDef

LEMMA PresentableTyped ==
  ASSUME NEW list \in Seq(ClaimDocument)
  PROVE  Presentable(list) \subseteq Seq(ClaimDocument)
<1>1. Altered(list) \subseteq Seq(ClaimDocument)
  BY AlteredTyped
<1>2. \A other \in Altered(list) : Rechained(other) \in Seq(ClaimDocument)
  BY <1>1, RechainedTyped
<1>. QED BY <1>1, <1>2 DEF Presentable

(* All lists of claim documents whatever that verify agree with the        *)
(* history in all that is hashed.                                          *)
LEMMA VerifiedListIsHashedAlike ==
  ASSUME ChainInv, CheckpointInv, NEW c \in checkpoints, NEW r,
         NEW list \in Seq(ClaimDocument), VerifyBundle(r, c, list)
  PROVE  /\ Len(list) = Len(Through(c.through))
         /\ \A n \in 1..Len(Through(c.through)) : Hashed(list[n]) = Hashed(Through(c.through)[n])
<1>1. c.through \in 0..Len(history) /\ c.terminal = TerminalHash(Through(c.through))
  BY DEF CheckpointInv
<1>2. /\ Through(c.through) \in Seq(ClaimDocument)
      /\ Len(Through(c.through)) = c.through
      /\ VerifyClaimChain(Through(c.through))
  BY <1>1, ThroughVerifies
<1>3. VerifyClaimChain(list) /\ TerminalHash(list) = c.terminal /\ Len(list) = c.through
  BY DEF VerifyBundle, Bound
<1>. QED BY <1>1, <1>2, <1>3, TerminalHashDetermines

(* No history altered in what is hashed, shortened, lengthened or          *)
(* reordered verifies.                                                     *)
THEOREM HashedTamperingDetected == ReceiptsSpec => []VerifiedListAgrees
<1>1. ChainInv /\ ArtifactInv => VerifiedListAgrees
  <2>1. SUFFICES ASSUME ChainInv, ArtifactInv, NEW c \in checkpoints, NEW r \in receipts,
                        NEW list \in Presentable(Through(c.through)), VerifyBundle(r, c, list)
                 PROVE  /\ r.through = c.through
                        /\ Len(list) = Len(Through(c.through))
                        /\ \A n \in 1..Len(Through(c.through)) :
                             Hashed(list[n]) = Hashed(Through(c.through)[n])
    BY DEF VerifiedListAgrees
  <2>2. CheckpointInv /\ c.through \in 0..Len(history)
    BY <2>1 DEF ArtifactInv, CheckpointInv
  <2>3. list \in Seq(ClaimDocument)
    BY <2>1, <2>2, ThroughVerifies, PresentableTyped
  <2>4. r.through = c.through
    BY <2>1 DEF VerifyBundle, Bound
  <2>. QED BY <2>1, <2>2, <2>3, <2>4, VerifiedListIsHashedAlike
<1>. QED BY <1>1, ReceiptsInvariance, PTL

-----------------------------------------------------------------------------
(* The graph as the pipeline feeds it.                                     *)
Facts == INSTANCE PactGraphProofs WITH Evidence <- PipelineEvidence

-----------------------------------------------------------------------------
(* Drafts: what the validator passed stands as long as the case does.      *)
DraftsOK ==
  /\ status \in [Ticket -> {"NONE", "VALID", "ACTIVE"}]
  /\ DOMAIN draft = Ticket
  /\ EveryDraftActivates

LEMMA OrderOfFound ==
  ASSUME NEW t \in Ticket, NEW id, OrderOf(CaseOf[t], id) # NoOrder
  PROVE  \E i \in DOMAIN CaseOf[t].orders :
           CaseOf[t].orders[i].id = id /\ OrderOf(CaseOf[t], id) = CaseOf[t].orders[i]
<1> DEFINE found == {i \in DOMAIN CaseOf[t].orders : CaseOf[t].orders[i].id = id}
           Least(i) == \A j \in found : i <= j
<1>1. found # {}
  BY DEF OrderOf
<1>2. DOMAIN CaseOf[t].orders = 1..Len(CaseOf[t].orders)
  BY CompilerAssumption DEF IsCase
<1>3. found \in SUBSET Nat
  BY <1>2
<1>4. \E i \in found : Least(i)
  BY <1>1, <1>3, LeastNumber, Zenon
<1>5. (CHOOSE i \in found : Least(i)) \in found
  BY <1>4, Zenon
<1>6. OrderOf(CaseOf[t], id) = CaseOf[t].orders[CHOOSE i \in found : Least(i)]
  BY <1>1 DEF OrderOf
<1>7. QED
  BY <1>5, <1>6

(* The draft of an acceptable candidate names an order of the case, with   *)
(* the customer of that order, and paths of the policy.                    *)
LEMMA AcceptedDraftActivatable ==
  ASSUME NEW t \in Ticket, NEW candidate, ResultOf(candidate, CaseOf[t]) = "VALID"
  PROVE  Activatable(DraftOf(candidate, CaseOf[t]), CaseOf[t])
<1> DEFINE d == DraftOf(candidate, CaseOf[t])
           order == OrderOf(CaseOf[t], Extracted(candidate, "order_id"))
<1>1. Acceptable(candidate, CaseOf[t])
  BY DEF ResultOf
<1>2. order # NoOrder
  BY <1>1 DEF Acceptable, SubjectsKnown
<1>3. PICK i \in DOMAIN CaseOf[t].orders : order = CaseOf[t].orders[i]
  BY <1>2, OrderOfFound
<1>4. d.order = order.id /\ d.customer = order.customer
  BY DEF DraftOf
<1>5. d.paths \subseteq AllowedPath
  BY <1>1, CompilerAssumption DEF Acceptable, DraftOf, IsTrustedPolicy
<1>6. QED
  BY <1>3, <1>4, <1>5 DEF Activatable

LEMMA DraftsInitially ==
  ASSUME CompilerInit
  PROVE  DraftsOK
BY DEF CompilerInit, DraftsOK, EveryDraftActivates

LEMMA CompilingKeepsDrafts ==
  ASSUME DraftsOK, NEW t \in Ticket,
         CompileStep(t) \/ ActivateGraph(t) \/ ActivateOther(t)
  PROVE  DraftsOK'
<1>1. ASSUME NEW candidate \in Candidate, Compile(t, candidate)
      PROVE  DraftsOK'
  <2>1. CASE ResultOf(candidate, CaseOf[t]) = "VALID"
    <3>1. Activatable(DraftOf(candidate, CaseOf[t]), CaseOf[t])
      BY <2>1, AcceptedDraftActivatable
    <3>2. /\ status' = [status EXCEPT ![t] = "VALID"]
          /\ draft' = [draft EXCEPT ![t] = DraftOf(candidate, CaseOf[t])]
      BY <1>1, <2>1 DEF Compile
    <3>3. QED
      BY <3>1, <3>2 DEF DraftsOK, EveryDraftActivates
  <2>2. CASE ResultOf(candidate, CaseOf[t]) # "VALID"
    BY <1>1, <2>2 DEF Compile, DraftsOK, EveryDraftActivates
  <2>3. QED
    BY <2>1, <2>2
<1>2. CASE CompileFails(t)
  BY <1>2 DEF CompileFails, DraftsOK, EveryDraftActivates
<1>3. CASE Activate(t)
  BY <1>3 DEF Activate, DraftsOK, EveryDraftActivates
<1>4. QED
  BY <1>1, <1>2, <1>3 DEF CompileStep, ActivateGraph, ActivateOther

LEMMA PipelineKeepsDrafts ==
  ASSUME DraftsOK, [PipelineNext]_pipelineVars
  PROVE  DraftsOK'
<1>1. CASE UNCHANGED compilerVars
  BY <1>1 DEF compilerVars, DraftsOK, EveryDraftActivates
<1>2. QED
  BY <1>1, CompilingKeepsDrafts
  DEF PipelineNext, pipelineVars, RefundMoves, ShipmentMoves, RecordClaim, IngestEvent,
      DeliverByWebhook, DeliverBySubscription, Query, IngestVerifiedQuery

(* A draft the validator passed is one the activation takes, whatever the    *)
(* cases list, the policy allows and the model answers.                      *)
THEOREM ValidDraftsActivate == PipelineSpec => []EveryDraftActivates
<1>1. PipelineInit => DraftsOK
  BY DraftsInitially DEF PipelineInit
<1>2. DraftsOK /\ [PipelineNext]_pipelineVars => DraftsOK'
  BY PipelineKeepsDrafts
<1>3. DraftsOK => EveryDraftActivates
  BY DEF DraftsOK
<1>4. QED
  BY <1>1, <1>2, <1>3, PTL DEF PipelineSpec

-----------------------------------------------------------------------------
(* A proof of settlement is written once and never touched again, over any   *)
(* number of activations.                                                    *)
THEOREM ProofsStand == PipelineSpec => SettlementStands
<1>1. [PipelineNext]_pipelineVars => [proofs # {} => proofs' = proofs]_pipelineVars
  BY DEF PipelineNext, pipelineVars, vars, CompileStep, ActivateGraph, ActivateOther,
     RefundMoves, ShipmentMoves, RecordClaim, AppendClaim, IngestEvent, IngestEvidence,
     DeliverByWebhook, DeliverBySubscription, Query, IngestVerifiedQuery, Committed, Creates
<1>2. QED
  BY <1>1, PTL DEF PipelineSpec, SettlementStands

-----------------------------------------------------------------------------
(* The payment system's history, as its events tell it.                    *)
RefundEvents ==
  {"stripe.refund.pending", "stripe.refund.succeeded", "stripe.refund.failed",
   "stripe.refund.reversed"}

RefundStates == {"NONE", "PENDING", "SUCCEEDED", "FAILED", "REVERSED"}

IsRefundEvent(i) == i \in DOMAIN happened /\ happened[i].type \in RefundEvents

(* Of two events of one attempt the earlier one is its start, or the       *)
(* success of which the later one is the reversal.                         *)
InOrder(earlier, later) ==
  \/ earlier = "stripe.refund.pending" /\ later # "stripe.refund.pending"
  \/ earlier = "stripe.refund.succeeded" /\ later = "stripe.refund.reversed"

(* The event that brought the refund into the state it is in.              *)
TellsOfNow(i) ==
  /\ IsRefundEvent(i)
  /\ happened[i].type = TypeOf(refund)
  /\ happened[i].attempt = attempt
  /\ \A j \in DOMAIN happened : IsRefundEvent(j) => j <= i

Event == [type : RefundEvents \cup CarrierEvents, attempt : Nat, numbered : BOOLEAN]

HistoryInv ==
  /\ happened \in Seq(Event)
  /\ refund \in RefundStates
  /\ attempt \in Nat
  /\ IF refund = "NONE"
     THEN attempt = 0 /\ \A i \in DOMAIN happened : ~IsRefundEvent(i)
     ELSE attempt > 0 /\ \E i \in DOMAIN happened : TellsOfNow(i)
  /\ \A i \in DOMAIN happened : IsRefundEvent(i) => happened[i].attempt <= attempt
  /\ \A i, j \in DOMAIN happened :
       /\ IsRefundEvent(i) /\ IsRefundEvent(j)
       /\ happened[i].attempt = happened[j].attempt
       /\ i < j
       => InOrder(happened[i].type, happened[j].type)

(* Evidence is of an event as it was published, or of a query that read    *)
(* the first attempt and no later state of it than the present one.        *)
Published(e) ==
  /\ e.time \in DOMAIN happened
  /\ happened[e.time].type \in Supported
  /\ e = EventEvidence(e.time, "webhook")

Read(e) ==
  /\ e.id[1] = "query"
  /\ e.op = "successful_refund" /\ e.path = "successful_refund"
  /\ e.rank = 2 /\ e.attempt = 1
  /\ attempt > 0
  /\ attempt = 1 /\ refund = "PENDING" => e.state = "PENDING"
  /\ e.state = "SUCCEEDED" =>
       \E i \in DOMAIN happened : happened[i].type = "stripe.refund.succeeded"

EvidencePublished ==
  /\ ingested \cup answers \subseteq PipelineEvidence
  /\ \A e \in ingested : Published(e) \/ Read(e)
  /\ \A e \in answers : Read(e)

(* The refund is projected as the last event ingested of its attempt says,  *)
(* of those that carry their numbers.                                      *)
ProjectionIsLatest ==
  LET kept == resolved["successful_refund"]
  IN  \A e \in ingested :
        /\ e.op = "successful_refund"
        /\ e.rank = 1 /\ kept.rank = 1
        /\ e.attempt = kept.attempt
        /\ Sequenced(e, kept)
        => e.sequence <= kept.sequence

RootInv ==
  /\ revision \in Nat /\ evaluated \in Nat /\ revision <= evaluated
  /\ evaluated = 0 => Init
  /\ ~Behind => Facts!GraphInvariant /\ ProjectionIsLatest
  /\ ReactivatedStaysOpen
  /\ SettlementIsEvidenced
  /\ \A p \in proofs : p.selection \in PrimaryPath

PipelineInv == HistoryInv /\ EvidencePublished /\ RootInv

-----------------------------------------------------------------------------
(* An event published is one more, and those before it stay as they were.  *)
LEMMA PublishAppends ==
  ASSUME HistoryInv, NEW type \in RefundEvents \cup CarrierEvents, NEW n \in Nat,
         Publish(type, n)
  PROVE  /\ happened' \in Seq(Event)
         /\ DOMAIN happened = 1..Len(happened)
         /\ DOMAIN happened' = 1..(Len(happened) + 1)
         /\ Len(happened) \in Nat
         /\ \A i \in DOMAIN happened : i \in DOMAIN happened' /\ happened'[i] = happened[i]
         /\ happened'[Len(happened) + 1].type = type
         /\ happened'[Len(happened) + 1].attempt = n
<1>1. PICK numbered \in Numbering[type] :
        happened' = Append(happened, [type |-> type, attempt |-> n, numbered |-> numbered])
  BY DEF Publish
<1>2. [type |-> type, attempt |-> n, numbered |-> numbered] \in Event
  BY PipelineAssumption DEF Event, Supported, RefundEvents
<1>3. QED
  BY <1>1, <1>2 DEF HistoryInv

LEMMA PublishedTyped ==
  ASSUME HistoryInv
  PROVE  \A i \in DOMAIN happened :
           /\ happened[i].type \in RefundEvents \cup CarrierEvents
           /\ happened[i].attempt \in Nat
           /\ happened[i].numbered \in BOOLEAN
<1>1. happened \in Seq(Event)
  BY DEF HistoryInv
<1>2. \A i \in DOMAIN happened : happened[i] \in Event
  BY <1>1
<1>3. QED
  BY <1>2 DEF Event

LEMMA HistoryInitially ==
  ASSUME PipelineInit
  PROVE  HistoryInv
BY DEF PipelineInit, HistoryInv, RefundStates, IsRefundEvent

LEMMA RefundKeepsHistory ==
  ASSUME HistoryInv, NEW state \in {"PENDING", "SUCCEEDED", "FAILED", "REVERSED"},
         RefundMoves(state)
  PROVE  HistoryInv'
<1>0. PICK n \in Nat : n = Len(happened)
  BY DEF HistoryInv
<1>1. /\ <<refund, state>> \in Moves
      /\ attempt' = IF state = "PENDING" THEN attempt + 1 ELSE attempt
      /\ refund' = state
      /\ Publish(TypeOf(state), attempt')
  BY DEF RefundMoves
<1>2. attempt \in Nat /\ attempt' \in Nat /\ attempt <= attempt'
  BY <1>1 DEF HistoryInv
<1>3. TypeOf(state) \in RefundEvents
  BY DEF TypeOf, RefundEvents
<1>4. /\ happened' \in Seq(Event)
      /\ DOMAIN happened = 1..n /\ DOMAIN happened' = 1..(n + 1)
      /\ \A i \in DOMAIN happened : i \in DOMAIN happened' /\ happened'[i] = happened[i]
      /\ happened'[n + 1].type = TypeOf(state) /\ happened'[n + 1].attempt = attempt'
  BY <1>0, <1>1, <1>2, <1>3, PublishAppends
<1>5. TellsOfNow(n + 1)'
  BY <1>1, <1>3, <1>4 DEF TellsOfNow, IsRefundEvent
<1>6. refund = "NONE" => state = "PENDING"
  BY <1>1 DEF Moves
<1>7. attempt' > 0
  BY <1>1, <1>2, <1>6 DEF HistoryInv
<1>8. \A i \in 1..n : IsRefundEvent(i)' <=> IsRefundEvent(i)
  BY <1>4 DEF IsRefundEvent
<1>9. \A i \in DOMAIN happened' : IsRefundEvent(i)' => happened'[i].attempt <= attempt'
  <2>1. SUFFICES ASSUME NEW i \in 1..(n + 1), IsRefundEvent(i)'
                 PROVE  happened'[i].attempt <= attempt'
    BY <1>4
  <2>2. CASE i = n + 1
    BY <1>2, <1>4, <2>2
  <2>3. CASE i \in 1..n
    <3>1. happened[i].attempt <= attempt
      BY <1>4, <1>8, <2>1, <2>3 DEF HistoryInv
    <3>2. happened'[i] = happened[i] /\ happened[i].attempt \in Nat
      BY <1>0, <1>4, <2>3, PublishedTyped
    <3>3. QED
      BY <1>2, <3>1, <3>2
  <2>4. QED
    BY <1>4, <2>2, <2>3
<1>10. ASSUME NEW i \in 1..n, IsRefundEvent(i), happened[i].attempt = attempt'
       PROVE  InOrder(happened[i].type, TypeOf(state))
  <2>1. happened[i].attempt <= attempt
    BY <1>4, <1>10 DEF HistoryInv
  <2>2. state # "PENDING" /\ refund # "NONE" /\ attempt' = attempt
    BY <1>1, <1>2, <1>6, <1>10, <2>1
  <2>3. PICK l \in DOMAIN happened : TellsOfNow(l)
    BY <2>2 DEF HistoryInv
  <2>4. i <= l /\ happened[l].type = TypeOf(refund) /\ happened[l].attempt = attempt
        /\ IsRefundEvent(l)
    BY <1>4, <1>10, <2>3 DEF TellsOfNow
  <2>5. i = l \/ InOrder(happened[i].type, TypeOf(refund))
    BY <1>4, <1>10, <2>2, <2>4 DEF HistoryInv
  <2>6. QED
    BY <1>1, <2>2, <2>4, <2>5 DEF InOrder, TypeOf, Moves
<1>11. \A i, j \in DOMAIN happened' :
         /\ IsRefundEvent(i)' /\ IsRefundEvent(j)'
         /\ happened'[i].attempt = happened'[j].attempt
         /\ i < j
         => InOrder(happened'[i].type, happened'[j].type)
  <2>1. SUFFICES ASSUME NEW i \in 1..(n + 1), NEW j \in 1..(n + 1),
                        IsRefundEvent(i)', IsRefundEvent(j)',
                        happened'[i].attempt = happened'[j].attempt, i < j
                 PROVE  InOrder(happened'[i].type, happened'[j].type)
    BY <1>4
  <2>2. i \in 1..n
    BY <1>4, <2>1
  <2>3. CASE j = n + 1
    BY <1>4, <1>8, <1>10, <2>1, <2>2, <2>3
  <2>4. CASE j \in 1..n
    BY <1>4, <1>8, <2>1, <2>2, <2>4 DEF HistoryInv
  <2>5. QED
    BY <1>4, <2>3, <2>4
<1>12. refund' \in RefundStates /\ refund' # "NONE"
  BY <1>1 DEF RefundStates
<1>13. n + 1 \in DOMAIN happened'
  BY <1>4
<1>14. QED
  BY <1>2, <1>4, <1>5, <1>7, <1>9, <1>11, <1>12, <1>13 DEF HistoryInv

LEMMA ShipmentKeepsHistory ==
  ASSUME HistoryInv, NEW type \in CarrierEvents, ShipmentMoves(type)
  PROVE  HistoryInv'
<1> DEFINE n == Len(happened)
<1>1. Publish(type, 1) /\ refund' = refund /\ attempt' = attempt
  BY DEF ShipmentMoves
<1>2. /\ happened' \in Seq(Event)
      /\ n \in Nat /\ DOMAIN happened = 1..n /\ DOMAIN happened' = 1..(n + 1)
      /\ \A i \in DOMAIN happened : i \in DOMAIN happened' /\ happened'[i] = happened[i]
      /\ happened'[n + 1].type = type
  BY <1>1, PublishAppends
<1>3. type \notin RefundEvents
  BY PipelineAssumption DEF Supported, RefundEvents
<1>4. \A i : IsRefundEvent(i)' <=> IsRefundEvent(i)
  BY <1>2, <1>3 DEF IsRefundEvent
<1>5. \A i : IsRefundEvent(i) => i \in 1..n /\ happened'[i] = happened[i]
  BY <1>2 DEF IsRefundEvent
<1>6. \A i \in DOMAIN happened : TellsOfNow(i) => TellsOfNow(i)'
  BY <1>1, <1>2, <1>4, <1>5 DEF TellsOfNow
<1>7. IF refund = "NONE"
      THEN attempt = 0 /\ \A i \in DOMAIN happened' : ~IsRefundEvent(i)'
      ELSE attempt > 0 /\ \E i \in DOMAIN happened' : TellsOfNow(i)'
  BY <1>2, <1>4, <1>5, <1>6 DEF HistoryInv
<1>8. \A i \in DOMAIN happened' : IsRefundEvent(i)' => happened'[i].attempt <= attempt
  BY <1>2, <1>4, <1>5 DEF HistoryInv
<1>9. ASSUME NEW i, NEW j, IsRefundEvent(i)', IsRefundEvent(j)',
             happened'[i].attempt = happened'[j].attempt, i < j
      PROVE  InOrder(happened'[i].type, happened'[j].type)
  BY <1>2, <1>4, <1>5, <1>9 DEF HistoryInv
<1>10. QED
  BY <1>1, <1>2, <1>7, <1>8, <1>9 DEF HistoryInv

LEMMA PipelineKeepsHistory ==
  ASSUME HistoryInv, [PipelineNext]_pipelineVars
  PROVE  HistoryInv'
<1>1. CASE UNCHANGED worldVars
  BY <1>1 DEF worldVars, HistoryInv, IsRefundEvent, TellsOfNow
<1>2. QED
  BY <1>1, RefundKeepsHistory, ShipmentKeepsHistory
  DEF PipelineNext, pipelineVars, CompileStep, ActivateGraph, ActivateOther, RecordClaim,
      IngestEvent, DeliverByWebhook, DeliverBySubscription, Query, IngestVerifiedQuery

-----------------------------------------------------------------------------
(* What the pipeline makes of an event it has a rule for.                  *)
LEMMA RuleTyped ==
  ASSUME NEW type \in Supported
  PROVE  /\ Rule(type).source \in {"stripe", "carrier"}
         /\ Rule(type).path \in {"successful_refund", "confirmed_replacement"}
         /\ Rule(type).state \in ImmediateState
         /\ Rule(type).rank \in 1..3
         /\ Rule(type).path = "successful_refund" => type \in RefundEvents
         /\ type \in RefundEvents => Rule(type).source = "stripe"
BY DEF Supported, Rule, ImmediateState, RefundEvents

LEMMA EventIsEvidence ==
  ASSUME HistoryInv, NEW i \in DOMAIN happened, happened[i].type \in Supported, NEW mechanism
  PROVE  /\ EventEvidence(i, mechanism) \in PipelineEvidence
         /\ EventEvidence(i, mechanism).time = i
         /\ EventEvidence(i, mechanism) = EventEvidence(i, "webhook")
         /\ Published(EventEvidence(i, mechanism))
<1> DEFINE e == EventEvidence(i, mechanism)
           rule == Rule(happened[i].type)
<1>1. i \in Nat /\ happened[i].attempt \in Nat
  BY PublishedTyped DEF HistoryInv
<1>2. /\ rule.source \in {"stripe", "carrier"}
      /\ rule.path \in PrimaryPath
      /\ rule.state \in ImmediateState /\ rule.rank \in 1..3
  BY RuleTyped, PipelineAssumption
<1>3. <<"event", i>> \in {"event"} \X Nat
  BY <1>1
<1>4. e \in PipelineEvidence
  BY <1>1, <1>2, <1>3 DEF EventEvidence, LogicalEvidenceId, PipelineEvidence
<1>5. e.time = i /\ e = EventEvidence(i, "webhook")
  BY DEF EventEvidence, LogicalEvidenceId
<1>6. QED
  BY <1>4, <1>5 DEF Published

LEMMA QueryIsEvidence ==
  ASSUME HistoryInv, refund \in {"PENDING", "SUCCEEDED", "FAILED"}
  PROVE  QueryEvidence \in PipelineEvidence /\ Read(QueryEvidence)
<1> DEFINE e == QueryEvidence
<1>1. Len(happened) \in Nat /\ attempt > 0
  BY DEF HistoryInv
<1>2. <<"query", refund, Len(happened)>> \in {"query"} \X ImmediateState \X Nat
  BY <1>1 DEF ImmediateState
<1>3. e.id[1] = "query"
  BY DEF QueryEvidence
<1>4. /\ e.type \in Supported /\ e.state \in ImmediateState
      /\ e.state = refund
  BY DEF QueryEvidence, Supported, ImmediateState
<1>5. e \in PipelineEvidence
  BY <1>1, <1>2, <1>4, PipelineAssumption DEF QueryEvidence, PipelineEvidence
<1>6. e.state = "SUCCEEDED" =>
        \E i \in DOMAIN happened : happened[i].type = "stripe.refund.succeeded"
  BY <1>4 DEF HistoryInv, TellsOfNow, TypeOf
<1>7. QED
  BY <1>1, <1>3, <1>4, <1>5, <1>6 DEF QueryEvidence, Read

(* Evidence published or read remains so, whatever is published later.     *)
LEMMA PublishedStays ==
  ASSUME HistoryInv, NEW e \in PipelineEvidence,
         \/ \E state \in {"PENDING", "SUCCEEDED", "FAILED", "REVERSED"} : RefundMoves(state)
         \/ \E type \in CarrierEvents : ShipmentMoves(type)
         \/ UNCHANGED worldVars
  PROVE  /\ Published(e) => Published(e)'
         /\ Read(e) => Read(e)'
<1>1. CASE UNCHANGED worldVars
  BY <1>1 DEF worldVars, Published, Read, EventEvidence
<1>2. ASSUME NEW type \in RefundEvents \cup CarrierEvents, NEW n \in Nat, Publish(type, n)
      PROVE  /\ Published(e) => Published(e)'
             /\ \A i \in DOMAIN happened : i \in DOMAIN happened' /\ happened'[i] = happened[i]
  BY <1>2, PublishAppends DEF Published, EventEvidence
<1>3. ASSUME NEW state \in {"PENDING", "SUCCEEDED", "FAILED", "REVERSED"}, RefundMoves(state)
      PROVE  /\ Published(e) => Published(e)'
             /\ Read(e) => Read(e)'
  <2>1. /\ <<refund, state>> \in Moves
        /\ attempt' = IF state = "PENDING" THEN attempt + 1 ELSE attempt
        /\ refund' = state /\ attempt \in Nat /\ attempt' \in Nat
        /\ Publish(TypeOf(state), attempt')
    BY <1>3 DEF RefundMoves, HistoryInv
  <2>2. TypeOf(state) \in RefundEvents
    BY DEF TypeOf, RefundEvents
  <2>3. Read(e) => Read(e)'
    <3>1. SUFFICES ASSUME Read(e) PROVE Read(e)'
      OBVIOUS
    <3>2. attempt' > 0 /\ ~(attempt' = 1 /\ refund' = "PENDING")
      BY <2>1, <3>1 DEF Read
    <3>3. QED
      BY <1>2, <2>1, <2>2, <3>1, <3>2 DEF Read
  <2>4. QED
    BY <1>2, <2>1, <2>2, <2>3
<1>4. ASSUME NEW type \in CarrierEvents, ShipmentMoves(type)
      PROVE  /\ Published(e) => Published(e)'
             /\ Read(e) => Read(e)'
  <2>1. Publish(type, 1) /\ refund' = refund /\ attempt' = attempt
    BY <1>4 DEF ShipmentMoves
  <2>2. QED
    BY <1>2, <2>1 DEF Read
<1>5. QED
  BY <1>1, <1>3, <1>4

LEMMA PipelineKeepsPublished ==
  ASSUME HistoryInv, EvidencePublished, [PipelineNext]_pipelineVars
  PROVE  EvidencePublished'
<1>1. ASSUME \/ \E state \in {"PENDING", "SUCCEEDED", "FAILED", "REVERSED"} : RefundMoves(state)
             \/ \E type \in CarrierEvents : ShipmentMoves(type)
             \/ UNCHANGED worldVars
      PROVE  \A e \in PipelineEvidence : (Published(e) => Published(e)') /\ (Read(e) => Read(e)')
  BY <1>1, PublishedStays
<1>2. CASE \/ \E state \in {"PENDING", "SUCCEEDED", "FAILED", "REVERSED"} : RefundMoves(state)
           \/ \E type \in CarrierEvents : ShipmentMoves(type)
  <2>1. ingested' = ingested /\ answers' = answers
    BY <1>2 DEF RefundMoves, ShipmentMoves, vars
  <2>2. QED
    BY <1>1, <1>2, <2>1 DEF EvidencePublished
<1>3. ASSUME UNCHANGED worldVars, ingested' = ingested, answers' \subseteq answers
      PROVE  EvidencePublished'
  BY <1>1, <1>3 DEF EvidencePublished
<1>4. CASE Query
  <2>1. /\ QueryEvidence \in PipelineEvidence /\ Read(QueryEvidence)
        /\ answers' = answers \cup {QueryEvidence} /\ ingested' = ingested
    BY <1>4, QueryIsEvidence DEF Query, vars
  <2>2. UNCHANGED worldVars
    BY <1>4 DEF Query
  <2>3. QED
    BY <1>1, <2>1, <2>2 DEF EvidencePublished
<1>5. ASSUME NEW i \in DOMAIN happened, NEW mechanism, IngestEvent(i, mechanism)
      PROVE  EvidencePublished'
  <2> DEFINE e == EventEvidence(i, mechanism)
  <2>1. /\ happened[i].type \in Supported
        /\ ingested' = ingested \cup {e} /\ answers' = answers /\ UNCHANGED worldVars
    BY <1>5 DEF IngestEvent, IngestEvidence
  <2>2. e \in PipelineEvidence /\ Published(e)
    BY <2>1, EventIsEvidence
  <2>3. QED
    BY <1>1, <2>1, <2>2 DEF EvidencePublished
<1>6. ASSUME NEW e \in answers, IngestVerifiedQuery(e)
      PROVE  EvidencePublished'
  <2>1. /\ ingested' = ingested \cup {e} /\ answers' \subseteq answers /\ UNCHANGED worldVars
    BY <1>6 DEF IngestVerifiedQuery, IngestEvidence
  <2>2. QED
    BY <1>1, <2>1 DEF EvidencePublished
<1>7. ASSUME NEW t \in Ticket, CompileStep(t) \/ ActivateGraph(t) \/ ActivateOther(t)
      PROVE  EvidencePublished'
  BY <1>3, <1>7 DEF CompileStep, ActivateGraph, ActivateOther, vars
<1>8. ASSUME NEW c \in Claim, RecordClaim(c)
      PROVE  EvidencePublished'
  BY <1>3, <1>8 DEF RecordClaim, AppendClaim
<1>9. CASE UNCHANGED pipelineVars
  BY <1>3, <1>9 DEF pipelineVars, vars
<1>10. QED
  BY <1>2, <1>4, <1>5, <1>6, <1>7, <1>8, <1>9
  DEF PipelineNext, DeliverByWebhook, DeliverBySubscription

-----------------------------------------------------------------------------
(* The graph of the pipeline is a graph of PactGraph whose evidence is the *)
(* pipeline's.                                                             *)
LEMMA FactsAreOfTheGraph ==
  /\ Facts!PactGraphAssumption
  /\ Init => Facts!Init
  /\ vars = Facts!vars
  /\ Facts!NeverOutranked <=> NeverOutranked
  /\ Facts!SettlementIsEvidenced <=> SettlementIsEvidenced
  /\ \A c : AppendClaim(c) => Facts!AppendClaim(c)
  /\ \A e : IngestEvidence(e) => Facts!IngestEvidence(e)
<1>1. Facts!PactGraphAssumption
  <2>1. ASSUME NEW e \in PipelineEvidence
        PROVE  Facts!IsEvidence(e)
    <3>1. /\ e.op \in Operation /\ e.path \in Path
          /\ e.state \in Facts!ImmediateState /\ e.rank \in Facts!EvidenceRank
      BY <2>1, PactGraphAssumption, PipelineAssumption
      DEF PipelineEvidence, ImmediateState, Facts!ImmediateState, Facts!EvidenceRank
    <3>2. e.attempt \in Nat /\ e.time \in Nat /\ e.sequence \in Nat \cup {NoSequence}
      BY <2>1 DEF PipelineEvidence
    <3>3. QED
      BY <3>1, <3>2 DEF Facts!IsEvidence
  <2>2. QED
    BY <2>1, PactGraphAssumption, PipelineAssumption
    DEF Facts!PactGraphAssumption, IsStateClaim, Facts!IsStateClaim, EvidenceRank,
        Facts!EvidenceRank, ImmediateState, Facts!ImmediateState
<1>2. Init => Facts!Init
  BY DEF Init, Facts!Init
<1>3. vars = Facts!vars
  BY DEF vars, Facts!vars
<1>4. /\ Facts!NeverOutranked <=> NeverOutranked
      /\ Facts!SettlementIsEvidenced <=> SettlementIsEvidenced
  BY DEF NeverOutranked, Facts!NeverOutranked, SettlementIsEvidenced, Facts!SettlementIsEvidenced
<1>5. \A state, selection, projection :
        Evaluate(state, selection, projection) = Facts!Evaluate(state, selection, projection)
  BY DEF Evaluate, Facts!Evaluate, Failing, Facts!Failing, OnPath, Facts!OnPath,
     AuthoritativeFailure, Facts!AuthoritativeFailure, Qualifying, Facts!Qualifying,
     Qualifies, Facts!Qualifies
<1>6. ASSUME NEW c, AppendClaim(c)
      PROVE  Facts!AppendClaim(c)
  BY <1>5, <1>6 DEF AppendClaim, Facts!AppendClaim
<1>7. ASSUME NEW e, IngestEvidence(e)
      PROVE  Facts!IngestEvidence(e)
  <2>1. Reduced(e) = Facts!Reduced(e)
    BY DEF Reduced, Facts!Reduced, Replaces, Facts!Replaces, Supersedes, Facts!Supersedes,
       Outweighs, Facts!Outweighs, Sequenced, Facts!Sequenced, Corrections, Facts!Corrections,
       Finality, Facts!Finality
  <2>2. \A projection, path : Qualifying(projection, path) = Facts!Qualifying(projection, path)
    BY DEF Qualifying, Facts!Qualifying, Qualifies, Facts!Qualifies, OnPath, Facts!OnPath
  <2>3. QED
    BY <1>5, <1>7, <2>1, <2>2 DEF IngestEvidence, Facts!IngestEvidence
<1>8. QED
  BY <1>1, <1>2, <1>3, <1>4, <1>6, <1>7

(* What commits is an append or an ingestion that found the root up to its *)
(* documents, and it leaves it so.                                         *)
LEMMA CommitKeepsPace ==
  ASSUME RootInv, Committed
  PROVE  /\ ~Behind /\ ~Behind'
         /\ revision' \in Nat /\ evaluated' \in Nat
         /\ revision' <= evaluated' /\ evaluated' # 0
BY DEF RootInv, Committed, Creates, Behind

LEMMA RootInitially ==
  ASSUME PipelineInit
  PROVE  RootInv
<1>1. Facts!GraphInvariant
  BY FactsAreOfTheGraph, Facts!GraphInitHolds DEF PipelineInit
<1>2. QED
  BY <1>1 DEF PipelineInit, Init, RootInv, ProjectionIsLatest, ReactivatedStaysOpen, Behind,
     SettlementIsEvidenced

LEMMA GraphStep ==
  ASSUME Facts!GraphInvariant, [Facts!Next]_(Facts!vars)
  PROVE  /\ Facts!GraphInvariant'
         /\ SettlementIsEvidenced'
         /\ \A p \in proofs' : p.selection \in PrimaryPath
<1>1. Facts!GraphInvariant'
  BY FactsAreOfTheGraph, Facts!GraphNextKeepsInv
<1>2. Facts!SettlementIsEvidenced' => SettlementIsEvidenced'
  BY DEF SettlementIsEvidenced, Facts!SettlementIsEvidenced
<1>3. QED
  BY <1>1, <1>2 DEF Facts!GraphInvariant, Facts!GraphTypeOK, Facts!Proof

LEMMA GraphStutter ==
  ASSUME Facts!GraphInvariant, UNCHANGED vars
  PROVE  Facts!GraphInvariant'
BY FactsAreOfTheGraph, Facts!GraphNextKeepsInv DEF vars, Facts!vars

(* Of two events of one attempt that the payment system has authority over *)
(* the earlier one is a success and the later one its reversal.            *)
LEMMA SuccessThenReversal ==
  ASSUME HistoryInv, NEW e \in PipelineEvidence, NEW f \in PipelineEvidence,
         Published(e), Published(f), e.op = "successful_refund", f.op = "successful_refund",
         e.rank = 1, f.rank = 1, e.attempt = f.attempt, f.time < e.time
  PROVE  /\ f.state = "SUCCEEDED" /\ e.state = "REVERSED"
         /\ happened[f.time].type = "stripe.refund.succeeded"
         /\ happened[e.time].type = "stripe.refund.reversed"
<1> DEFINE i == e.time
           j == f.time
<1>1. /\ i \in DOMAIN happened /\ j \in DOMAIN happened
      /\ happened[i].type \in Supported /\ happened[j].type \in Supported
      /\ e = EventEvidence(i, "webhook") /\ f = EventEvidence(j, "webhook")
  BY DEF Published
<1>2. /\ Rule(happened[i].type).path = "successful_refund"
      /\ Rule(happened[j].type).path = "successful_refund"
      /\ Rule(happened[i].type).rank = 1 /\ Rule(happened[j].type).rank = 1
      /\ happened[i].attempt = happened[j].attempt
  BY <1>1 DEF EventEvidence
<1>3. /\ happened[i].type \in RefundEvents /\ happened[j].type \in RefundEvents
      /\ e.state = Rule(happened[i].type).state /\ f.state = Rule(happened[j].type).state
  BY <1>1, <1>2, RuleTyped DEF EventEvidence
<1>4. InOrder(happened[j].type, happened[i].type)
  BY <1>1, <1>2, <1>3 DEF HistoryInv, IsRefundEvent
<1>5. /\ happened[j].type = "stripe.refund.succeeded"
      /\ happened[i].type = "stripe.refund.reversed"
  BY <1>2, <1>4 DEF InOrder, Rule
<1>6. QED
  BY <1>3, <1>5 DEF Rule

(* Evidence of the highest rank about the refund is of an event, and its   *)
(* number, when it has one, is when it happened.                           *)
LEMMA RankOneIsPublished ==
  ASSUME HistoryInv, NEW e \in PipelineEvidence, Published(e) \/ Read(e),
         e.op = "successful_refund", e.rank = 1
  PROVE  /\ Published(e) /\ e.time \in Nat
         /\ e.sequence # NoSequence => e.sequence = e.time
<1>1. Published(e)
  BY DEF Read
<1>2. e = EventEvidence(e.time, "webhook")
  BY <1>1 DEF Published
<1>3. e.sequence # NoSequence => e.sequence = e.time
  BY <1>2 DEF EventEvidence
<1>4. QED
  BY <1>1, <1>3 DEF PipelineEvidence

(* With numbers the later one corrects the earlier one.                    *)
LEMMA LaterEventSupersedes ==
  ASSUME HistoryInv, NEW e \in PipelineEvidence, NEW f \in PipelineEvidence,
         Published(e), Published(f), e.op = "successful_refund", f.op = "successful_refund",
         e.rank = 1, f.rank = 1, e.attempt = f.attempt, Sequenced(e, f),
         e.sequence > f.sequence
  PROVE  Supersedes(e, f)
<1>1. e.sequence = e.time /\ f.sequence = f.time
  BY RankOneIsPublished DEF Sequenced
<1>2. f.state = "SUCCEEDED" /\ e.state = "REVERSED"
  BY <1>1, SuccessThenReversal DEF PipelineEvidence
<1>3. e.source = "stripe"
  BY RuleTyped DEF Published, EventEvidence, PipelineEvidence
<1>4. QED
  BY <1>2, <1>3 DEF Supersedes, Corrections

LEMMA IngestKeepsLatest ==
  ASSUME HistoryInv, EvidencePublished, Facts!GraphInvariant, ProjectionIsLatest,
         NEW e \in PipelineEvidence, Published(e) \/ Read(e), IngestEvidence(e)
  PROVE  ProjectionIsLatest'
<1> DEFINE refunded == "successful_refund"
           kept == resolved[refunded]
<1>1. /\ e \notin ingested
      /\ ingested' = ingested \cup {e}
      /\ resolved' = Reduced(e)
  BY DEF IngestEvidence
<1>2. refunded \in Operation
  BY PipelineAssumption
<1>3. NeverOutranked /\ resolved \in [Operation -> PipelineEvidence \cup {NoEvidence}]
      /\ ingested \subseteq PipelineEvidence
  BY FactsAreOfTheGraph DEF Facts!GraphInvariant, Facts!GraphTypeOK
<1>4. SUFFICES ASSUME NEW f \in ingested', f.op = refunded, f.rank = 1, kept'.rank = 1,
                      f.attempt = kept'.attempt, Sequenced(f, kept')
               PROVE  f.sequence <= kept'.sequence
  BY DEF ProjectionIsLatest, Sequenced
<1>5. f \in PipelineEvidence /\ (f \in ingested => Published(f) \/ Read(f))
  BY <1>1, <1>3 DEF EvidencePublished
<1>6. f.sequence \in Nat /\ Published(f) /\ f.sequence = f.time
  BY <1>1, <1>4, <1>5, RankOneIsPublished DEF Sequenced
<1>7. CASE e.op # refunded
  <2>1. kept' = kept /\ f \in ingested
    BY <1>1, <1>2, <1>3, <1>4, <1>7 DEF Reduced
  <2>2. QED
    BY <1>4, <2>1 DEF ProjectionIsLatest
<1>8. CASE e.op = refunded /\ kept' = e
  <2>1. CASE f = e
    BY <1>6, <1>8, <2>1
  <2>2. CASE f \in ingested
    <3>1. /\ kept \in ingested /\ kept.op = refunded
          /\ f.attempt <= kept.attempt
          /\ f.attempt = kept.attempt => kept.rank <= f.rank
      BY <1>3, <1>4, <2>2 DEF NeverOutranked
    <3>2. kept \in PipelineEvidence /\ kept # NoEvidence /\ kept # e
      BY <1>1, <1>3, <3>1, PipelineAssumption
    <3>3. Replaces(e, kept)
      BY <1>1, <1>2, <1>3, <1>8, <3>2 DEF Reduced
    <3>4. e.attempt = kept.attempt /\ kept.rank = 1 /\ e.rank = 1
      BY <1>4, <1>8, <3>1, <3>2, <3>3 DEF Replaces, PipelineEvidence
    <3>5. Supersedes(e, kept)
      BY <3>2, <3>3, <3>4 DEF Replaces, PipelineEvidence
    <3>6. Published(kept) /\ kept.time \in Nat
          /\ (kept.sequence # NoSequence => kept.sequence = kept.time)
      BY <3>1, <3>2, <3>4, RankOneIsPublished DEF EvidencePublished
    <3>7. Published(e) /\ e.sequence = e.time /\ e.time \in Nat /\ e.sequence # NoSequence
      BY <1>4, <1>8, <3>4, RankOneIsPublished DEF Sequenced
    <3>8. e.time # kept.time
      BY <3>2, <3>6, <3>7 DEF Published
    <3>9. e.state # kept.state
      BY <1>8, <3>1, <3>2, <3>4, <3>6, <3>7, <3>8, SuccessThenReversal
    <3>10. Sequenced(e, kept) /\ e.sequence > kept.sequence
      BY <3>5, <3>9 DEF Supersedes
    <3>11. f.sequence <= kept.sequence
      BY <1>4, <1>8, <2>2, <3>4, <3>10 DEF ProjectionIsLatest, Sequenced
    <3>12. QED
      BY <1>6, <1>8, <3>6, <3>7, <3>10, <3>11 DEF Sequenced
  <2>3. QED
    BY <1>1, <2>1, <2>2
<1>9. CASE e.op = refunded /\ kept' # e
  <2>1. kept' = kept /\ kept # NoEvidence /\ ~Replaces(e, kept)
    BY <1>1, <1>2, <1>3, <1>9 DEF Reduced
  <2>2. CASE f \in ingested
    BY <1>4, <2>1, <2>2 DEF ProjectionIsLatest
  <2>3. CASE f = e
    <3>1. kept \in PipelineEvidence /\ kept \in ingested /\ kept.op = refunded
      BY <1>2, <1>3, <2>1 DEF Facts!GraphInvariant, Facts!ProjectionsIngested
    <3>2. ~Supersedes(e, kept)
      BY <1>4, <2>1, <2>3 DEF Replaces
    <3>3. Published(kept) /\ kept.sequence = kept.time /\ kept.time \in Nat
      BY <1>4, <2>1, <3>1, RankOneIsPublished DEF EvidencePublished, Sequenced
    <3>4. ~(e.sequence > kept.sequence)
      BY <1>4, <1>6, <1>9, <2>1, <2>3, <3>1, <3>2, <3>3, LaterEventSupersedes
    <3>5. QED
      BY <1>6, <2>1, <2>3, <3>3, <3>4
  <2>4. QED
    BY <1>1, <2>2, <2>3
<1>10. QED
  BY <1>7, <1>8, <1>9

(* An ingestion, of either kind of evidence, keeps the root.               *)
LEMMA IngestionKeepsRoot ==
  ASSUME HistoryInv, EvidencePublished, RootInv,
         NEW e \in PipelineEvidence, Published(e) \/ Read(e), IngestEvidence(e), Committed
  PROVE  RootInv'
<1>1. /\ ~Behind /\ ~Behind'
      /\ revision' \in Nat /\ evaluated' \in Nat
      /\ revision' <= evaluated' /\ evaluated' # 0
  BY CommitKeepsPace
<1>2. Facts!GraphInvariant /\ ProjectionIsLatest
  BY <1>1 DEF RootInv
<1>3. Facts!GraphInvariant' /\ SettlementIsEvidenced'
      /\ \A p \in proofs' : p.selection \in PrimaryPath
  BY <1>2, FactsAreOfTheGraph, GraphStep DEF Facts!Next
<1>4. ProjectionIsLatest'
  BY <1>2, IngestKeepsLatest
<1>5. QED
  BY <1>1, <1>3, <1>4 DEF RootInv, ReactivatedStaysOpen

LEMMA ClaimKeepsRoot ==
  ASSUME RootInv, NEW c \in Claim, RecordClaim(c)
  PROVE  RootInv'
<1>1. /\ ~Behind /\ ~Behind'
      /\ revision' \in Nat /\ evaluated' \in Nat
      /\ revision' <= evaluated' /\ evaluated' # 0
  BY CommitKeepsPace DEF RecordClaim
<1>2. Facts!GraphInvariant /\ ProjectionIsLatest
  BY <1>1 DEF RootInv
<1>3. Facts!GraphInvariant' /\ SettlementIsEvidenced'
      /\ \A p \in proofs' : p.selection \in PrimaryPath
  BY <1>2, FactsAreOfTheGraph, GraphStep DEF Facts!Next, RecordClaim
<1>4. ProjectionIsLatest'
  BY <1>2 DEF RecordClaim, AppendClaim, ProjectionIsLatest
<1>5. QED
  BY <1>1, <1>3, <1>4 DEF RootInv, ReactivatedStaysOpen

(* The first activation finds the root as it sets it; a later one leaves it  *)
(* behind its documents.                                                     *)
LEMMA ActivationKeepsRoot ==
  ASSUME RootInv, NEW t \in Ticket, ActivateGraph(t)
  PROVE  RootInv'
<1>1. /\ revision' = 0 /\ evaluated' = evaluated /\ lifecycle' = "OPEN" /\ selected' = NoPath
      /\ resolved' = [o \in Operation |-> NoEvidence] /\ transitions' = 0
      /\ UNCHANGED <<ingested, claims, evaluation, proofs>>
  BY DEF ActivateGraph
<1>2. evaluated \in Nat /\ SettlementIsEvidenced' /\ \A p \in proofs' : p.selection \in PrimaryPath
  BY <1>1 DEF RootInv, SettlementIsEvidenced
<1>3. ReactivatedStaysOpen'
  BY <1>1 DEF ReactivatedStaysOpen
<1>4. CASE evaluated = 0
  <2>1. Init /\ revision = 0
    BY <1>4 DEF RootInv
  <2>2. Init' /\ UNCHANGED vars
    BY <1>1, <2>1 DEF Init, vars
  <2>3. Facts!GraphInvariant' /\ ProjectionIsLatest'
    <3>1. Facts!GraphInvariant
      BY <1>4, <2>1 DEF RootInv, Behind
    <3>2. QED
      BY <2>2, <3>1, GraphStutter DEF Init, ProjectionIsLatest
  <2>4. QED
    BY <1>1, <1>2, <1>3, <1>4, <2>2, <2>3 DEF RootInv
<1>5. CASE evaluated # 0
  BY <1>1, <1>2, <1>3, <1>5 DEF RootInv, Behind
<1>6. QED
  BY <1>4, <1>5

LEMMA PipelineKeepsRoot ==
  ASSUME HistoryInv, EvidencePublished, RootInv, [PipelineNext]_pipelineVars
  PROVE  RootInv'
<1>1. CASE UNCHANGED <<vars, rootVars>>
  <2>1. UNCHANGED <<vars, revision, evaluated>> /\ (Behind' <=> Behind)
    BY <1>1 DEF rootVars, Behind
  <2>2. Facts!GraphInvariant => Facts!GraphInvariant'
    BY <2>1, GraphStutter
  <2>3. QED
    BY <2>1, <2>2
    DEF RootInv, vars, Init, ProjectionIsLatest, ReactivatedStaysOpen, SettlementIsEvidenced
<1>2. ASSUME NEW i \in DOMAIN happened, NEW mechanism, IngestEvent(i, mechanism)
      PROVE  RootInv'
  BY <1>2, EventIsEvidence, IngestionKeepsRoot DEF IngestEvent
<1>3. ASSUME NEW e \in answers, IngestVerifiedQuery(e)
      PROVE  RootInv'
  BY <1>3, IngestionKeepsRoot DEF IngestVerifiedQuery, EvidencePublished
<1>4. QED
  BY <1>1, <1>2, <1>3, ClaimKeepsRoot, ActivationKeepsRoot
  DEF PipelineNext, pipelineVars, CompileStep, ActivateOther, RefundMoves, ShipmentMoves,
      DeliverByWebhook, DeliverBySubscription, Query

(* Every state of the pipeline satisfies the inductive invariant.          *)
THEOREM PipelineInvariance == PipelineSpec => []PipelineInv
<1>1. PipelineInit => PipelineInv
  BY HistoryInitially, RootInitially
  DEF PipelineInit, Init, PipelineInv, EvidencePublished
<1>2. PipelineInv /\ [PipelineNext]_pipelineVars => PipelineInv'
  BY PipelineKeepsHistory, PipelineKeepsPublished, PipelineKeepsRoot DEF PipelineInv
<1>3. QED
  BY <1>1, <1>2, PTL DEF PipelineSpec

-----------------------------------------------------------------------------
(* A pact settles on evidence, over any number of activations.             *)
THEOREM PipelineSettlesOnEvidence == PipelineSpec => []SettlementIsEvidenced
<1>1. PipelineInv => SettlementIsEvidenced
  BY DEF PipelineInv, RootInv
<1>2. QED
  BY <1>1, PipelineInvariance, PTL

(* A pact whose root was reset under its documents stays as the activation   *)
(* left it: no claim and no evidence moves it, and it does not settle again. *)
THEOREM ReactivatedPactStaysOpen == PipelineSpec => []ReactivatedStaysOpen
<1>1. PipelineInv => ReactivatedStaysOpen
  BY DEF PipelineInv, RootInv
<1>2. QED
  BY <1>1, PipelineInvariance, PTL

(* No claim, query, late or repeated delivery settles a pact that the        *)
(* payment system has not paid, or the carrier not accepted.                 *)
THEOREM SettledPactsWerePaid == PipelineSpec => []SettledMeansPaid
<1>1. ASSUME PipelineInv, NEW p \in proofs
      PROVE  \E i \in DOMAIN happened :
               happened[i].type = IF p.selection = "successful_refund"
                                  THEN "stripe.refund.succeeded" ELSE "carrier.shipment.accepted"
  <2>1. p.selection \in {"successful_refund", "confirmed_replacement"}
    BY <1>1, PipelineAssumption DEF PipelineInv, RootInv
  <2>2. PICK e \in p.evidence :
          /\ e \in ingested /\ e.path = p.selection /\ e.state = "SUCCEEDED"
          /\ e.type \in RequiredType[p.selection]
    BY <1>1 DEF PipelineInv, RootInv, SettlementIsEvidenced
  <2>3. Published(e) \/ Read(e)
    BY <1>1, <2>2 DEF PipelineInv, EvidencePublished
  <2>4. CASE Published(e)
    BY <2>1, <2>2, <2>4, PipelineAssumption DEF Published, EventEvidence
  <2>5. CASE Read(e)
    BY <2>2, <2>5 DEF Read
  <2>6. QED
    BY <2>3, <2>4, <2>5
<1>2. PipelineInv => SettledMeansPaid
  BY <1>1 DEF SettledMeansPaid
<1>3. QED
  BY <1>2, PipelineInvariance, PTL

(* However many webhooks and subscriptions deliver an event, and however     *)
(* often, it makes one economic event.                                       *)
THEOREM EventsCountedOnce == PipelineSpec => []FactsCountedOnce
<1>1. ASSUME PipelineInv, NEW e \in ingested, NEW f \in ingested,
             e.time = f.time, e.id[1] # "query", f.id[1] # "query"
      PROVE  e = f
  BY <1>1 DEF PipelineInv, EvidencePublished, Published, Read
<1>2. ASSUME PipelineInv, NEW a \in EconomicEvents, NEW b \in EconomicEvents,
             a.occurred = b.occurred, "query" \notin {a.evidence[1], b.evidence[1]}
      PROVE  a = b
  <2>1. PICK e \in ingested, f \in ingested : a = EconomicEvent(e) /\ b = EconomicEvent(f)
    BY <1>2 DEF EconomicEvents
  <2>2. e.time = f.time /\ e.id[1] # "query" /\ f.id[1] # "query"
    BY <1>2, <2>1 DEF EconomicEvent
  <2>3. QED
    BY <1>1, <1>2, <2>1, <2>2
<1>3. PipelineInv => FactsCountedOnce
  BY <1>2 DEF FactsCountedOnce
<1>4. QED
  BY <1>3, PipelineInvariance, PTL

-----------------------------------------------------------------------------
(* What published evidence of the refund says of it.                       *)
LEMMA PublishedRefund ==
  ASSUME HistoryInv, NEW e \in PipelineEvidence, Published(e), e.op = "successful_refund"
  PROVE  /\ IsRefundEvent(e.time) /\ e.time \in Nat
         /\ e.attempt = happened[e.time].attempt /\ e.attempt <= attempt
         /\ e.state = Rule(happened[e.time].type).state
         /\ e.rank = Rule(happened[e.time].type).rank
         /\ e.sequence = IF happened[e.time].numbered THEN e.time ELSE NoSequence
<1>1. /\ e = EventEvidence(e.time, "webhook") /\ e.time \in DOMAIN happened
      /\ happened[e.time].type \in Supported
  BY DEF Published
<1>2. Rule(happened[e.time].type).path = "successful_refund"
  BY <1>1 DEF EventEvidence
<1>3. IsRefundEvent(e.time)
  BY <1>1, <1>2, RuleTyped DEF IsRefundEvent
<1>4. e.sequence = IF happened[e.time].numbered THEN e.time ELSE NoSequence
  BY <1>1 DEF EventEvidence
<1>5. /\ e.attempt = happened[e.time].attempt
      /\ e.state = Rule(happened[e.time].type).state
      /\ e.rank = Rule(happened[e.time].type).rank
  BY <1>1 DEF EventEvidence
<1>6. e.time \in Nat /\ e.attempt <= attempt
  BY <1>1, <1>3, <1>5 DEF PipelineEvidence, HistoryInv
<1>7. QED
  BY <1>3, <1>4, <1>5, <1>6

LEMMA StateOfNow ==
  ASSUME refund \in RefundStates, refund # "NONE"
  PROVE  /\ TypeOf(refund) \in RefundEvents
         /\ TypeOf(refund) \in Supported
         /\ Rule(TypeOf(refund)).state = refund
         /\ Rule(TypeOf(refund)).path = "successful_refund"
         /\ refund # "PENDING" => Rule(TypeOf(refund)).rank = 1
         /\ refund = "PENDING" => TypeOf(refund) = "stripe.refund.pending"
BY DEF RefundStates, TypeOf, RefundEvents, Supported, Rule

(* The projection is of the attempt the refund is in, and of its state, or *)
(* of the success whose reversal cannot be ordered against it.             *)
LEMMA ProjectionTellsNow ==
  ASSUME HistoryInv, EvidencePublished, RootInv, ~Behind, refund # "NONE",
         \A i \in DOMAIN happened :
           happened[i].type = TypeOf(refund) => \E e \in ingested : e.id = <<"event", i>>
  PROVE  /\ resolved["successful_refund"] # NoEvidence
         /\ resolved["successful_refund"].attempt = attempt
         /\ \/ resolved["successful_refund"].state = refund
            \/ Unordered /\ resolved["successful_refund"].state = "SUCCEEDED"
<1> DEFINE r == resolved["successful_refund"]
<1>1. /\ refund \in RefundStates /\ attempt \in Nat /\ attempt > 0
      /\ \E i \in DOMAIN happened : TellsOfNow(i)
  BY DEF HistoryInv
<1>2. PICK l \in DOMAIN happened : TellsOfNow(l)
  BY <1>1
<1>3. PICK e \in ingested : e.id = <<"event", l>>
  BY <1>2 DEF TellsOfNow
<1>4. e \in PipelineEvidence /\ Published(e) /\ e.time = l
  <2>1. e \in PipelineEvidence /\ (Published(e) \/ Read(e))
    BY DEF EvidencePublished
  <2>2. Published(e)
    BY <1>3, <2>1 DEF Read
  <2>3. e.id = <<"event", e.time>>
    BY <2>2 DEF Published, EventEvidence, LogicalEvidenceId
  <2>4. QED
    BY <1>3, <2>1, <2>2, <2>3
<1>5. e.op = "successful_refund"
  BY <1>1, <1>2, <1>4, StateOfNow DEF Published, EventEvidence, TellsOfNow
<1>6. /\ e.attempt = attempt /\ e.state = refund
      /\ refund # "PENDING" => e.rank = 1
  BY <1>1, <1>2, <1>4, <1>5, PublishedRefund, StateOfNow DEF TellsOfNow
<1>7. /\ r \in ingested /\ r.op = "successful_refund" /\ r # NoEvidence
      /\ e.attempt <= r.attempt
      /\ e.attempt = r.attempt => r.rank <= e.rank
  BY <1>5, FactsAreOfTheGraph, PipelineAssumption
  DEF RootInv, Facts!GraphInvariant, NeverOutranked, EvidencePublished
<1>8. r \in PipelineEvidence /\ (Published(r) \/ Read(r))
  BY <1>7 DEF EvidencePublished
<1>9. r.attempt = attempt
  <2>1. r.attempt <= attempt
    BY <1>1, <1>7, <1>8, PublishedRefund DEF Read
  <2>2. QED
    BY <1>1, <1>6, <1>7, <1>8, <2>1 DEF PipelineEvidence
<1>10. Published(r) /\ r.time = l => r.state = refund
  BY <1>1, <1>2, <1>7, <1>8, PublishedRefund, StateOfNow DEF TellsOfNow
<1>11. ASSUME Published(r)
       PROVE  r.time \in Nat /\ r.time <= l /\ l \in Nat /\ IsRefundEvent(r.time)
  BY <1>2, <1>4, <1>7, <1>8, <1>11, PublishedRefund
  DEF TellsOfNow, IsRefundEvent, PipelineEvidence
<1>12. r.state = refund \/ (Unordered /\ r.state = "SUCCEEDED")
  <2>1. CASE refund = "PENDING"
    <3>1. CASE Read(r)
      BY <1>9, <2>1, <3>1 DEF Read
    <3>2. CASE Published(r)
      <4>1. r.time < l => InOrder(happened[r.time].type, TypeOf(refund))
        BY <1>2, <1>7, <1>8, <1>9, <1>11, <3>2, PublishedRefund
        DEF HistoryInv, TellsOfNow, IsRefundEvent
      <4>2. ~InOrder(happened[r.time].type, TypeOf(refund))
        BY <1>1, <2>1, StateOfNow DEF InOrder
      <4>3. QED
        BY <1>10, <1>11, <3>2, <4>1, <4>2
    <3>3. QED
      BY <1>8, <3>1, <3>2
  <2>2. CASE refund # "PENDING"
    <3>1. e.rank = 1 /\ r.rank = 1
      BY <1>6, <1>7, <1>8, <1>9, <2>2 DEF PipelineEvidence
    <3>2. Published(r)
      BY <1>7, <1>8, <3>1 DEF Read
    <3>3. CASE r.time = l
      BY <1>10, <3>2, <3>3
    <3>4. CASE r.time < l
      <4>1. /\ r.state = "SUCCEEDED" /\ refund = "REVERSED"
            /\ happened[r.time].type = "stripe.refund.succeeded"
            /\ happened[l].type = "stripe.refund.reversed"
        BY <1>4, <1>5, <1>6, <1>7, <1>8, <1>9, <3>1, <3>2, <3>4, SuccessThenReversal
      <4>2. /\ e.sequence = IF happened[l].numbered THEN l ELSE NoSequence
            /\ r.sequence = IF happened[r.time].numbered THEN r.time ELSE NoSequence
            /\ happened[r.time].attempt = attempt /\ r.time \in DOMAIN happened
        BY <1>4, <1>5, <1>7, <1>8, <1>9, <3>2, PublishedRefund DEF IsRefundEvent
      <4>3. ~happened[l].numbered \/ ~happened[r.time].numbered
        <5>1. SUFFICES ASSUME happened[l].numbered, happened[r.time].numbered
                       PROVE  FALSE
          BY PublishedTyped
        <5>2. e.sequence = l /\ r.sequence = r.time /\ l \in Nat /\ r.time \in Nat
          BY <1>11, <3>2, <4>2, <5>1
        <5>3. Sequenced(e, r)
          BY <5>2, PactGraphAssumption DEF Sequenced
        <5>4. e.sequence <= r.sequence
          BY <1>5, <1>6, <1>9, <3>1, <5>3 DEF RootInv, ProjectionIsLatest
        <5>5. QED
          BY <3>4, <5>2, <5>4
      <4>4. happened[l].attempt = attempt
        BY <1>2 DEF TellsOfNow
      <4>5. Unordered
        BY <4>1, <4>2, <4>3, <4>4 DEF Unordered
      <4>6. QED
        BY <4>1, <4>5
    <3>5. QED
      BY <1>11, <3>2, <3>3, <3>4
  <2>3. QED
    BY <2>1, <2>2
<1>13. QED
  BY <1>7, <1>9, <1>12

(* With the event of its present state in, the graph knows the refund as the *)
(* payment system does, through any number of attempts, deliveries and       *)
(* queries, in every order, with and without sequence numbers; only when the *)
(* success or the reversal of an attempt has none may the success stand.     *)
THEOREM GraphKnowsTheRefund == PipelineSpec => []CaughtUpIsTrue
<1>1. PipelineInv => CaughtUpIsTrue
  BY ProjectionTellsNow DEF PipelineInv, CaughtUpIsTrue
<1>2. QED
  BY <1>1, PipelineInvariance, PTL
===============================================================================
