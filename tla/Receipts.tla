------------------------------- MODULE Receipts -------------------------------
(***************************************************************************)
(* The claim chain of a pact and the signed artifacts about it.  Every     *)
(* claim, and every piece of evidence as a claim of its own, is chained to *)
(* its predecessor in the transaction that stores it.  An issuer reads the *)
(* settled pact, its claims and its evidence one after the other, signs a  *)
(* checkpoint of the chain and a receipt bound to it, and stores both; a   *)
(* later run may issue the receipt again over the same checkpoint.  The    *)
(* service reads the stored artifacts back and verifies them.              *)
(*                                                                         *)
(* Abstracted: a hash is the sequence of what was hashed, so two hashes    *)
(* are equal exactly when their inputs are; a signed document is one the   *)
(* signer made; documents keep the fields that verification compares and   *)
(* the states a receipt reports.  A claim's identity stands for all its    *)
(* hashed fields but sequence, predecessor and payload; its path and state *)
(* stand for the five fields a document states beside its payload, which   *)
(* are hashed only as far as the payload repeats them.  Economic positions *)
(* are left out.                                                           *)
(***************************************************************************)
EXTENDS PactGraph, Sequences

CONSTANTS
  Payload,        \* payloads a service gives its claims
  NoPayload,      \* a claim without one
  GivenPayload,   \* the payload each participant's claim is made with
  Issuer,         \* runs of the issuing scripts that may overlap
  MaxCheckpoints, \* bound on the checkpoints issued for the pact
  Nothing         \* an issuer that has read nothing

(* A claim's identity is never that of the claim made of a piece of evidence. *)
ASSUME ReceiptsAssumption ==
  /\ Claim \cap Evidence = {}
  /\ GivenPayload \in [Claim -> Payload \cup {NoPayload}]
  /\ NoPayload \notin Payload
  /\ \A path \in Path \cup {NoPath}, state \in ImmediateState :
       NoPayload # [path |-> path, state |-> state]
  /\ MaxCheckpoints \in Nat

VARIABLES
  history,     \* claim documents, in sequence order
  head,        \* claim_sequence and terminal_claim_hash of the pact root
  checkpoints, \* graph_checkpoints
  receipts,    \* settlement_receipts
  stage,       \* where each issuer stands
  seen,        \* what each issuer has read
  reading,     \* what the service's reader has read: a receipt, then a checkpoint
  refuted      \* history: a live proof missed a checkpoint or did not verify

chainVars == <<history, head>>
artifactVars == <<checkpoints, receipts>>
issuerVars == <<stage, seen>>
readerVars == <<reading, refuted>>
receiptsVars == <<vars, chainVars, artifactVars, issuerVars, readerVars>>

Stage == {"idle", "pact", "claims", "evidence", "checkpoint", "reissue", "reissued"}

Statement == [path : Path \cup {NoPath}, state : ImmediateState]
Content == Statement \cup Payload
Identity == Claim \cup Evidence
Body == Identity \X Content
Hash == Seq(Nat \X Body)
ClaimDocument ==
  [id : Identity, stated : Statement, payload : Content \cup {NoPayload},
   sequence : Nat, previous : Hash, hash : Hash]
CheckpointDocument == [through : Nat, terminal : Hash, evidence : SUBSET Evidence]
ReceiptDocument ==
  [kind : {"original", "reissued"}, states : [Operation -> Evidence \cup {NoEvidence}],
   through : Nat, terminal : Hash, evidence : SUBSET Evidence]

ReceiptsInit ==
  /\ Init
  /\ history = <<>>
  /\ head = [sequence |-> 0, hash |-> <<>>]
  /\ checkpoints = {}
  /\ receipts = {}
  /\ stage = [i \in Issuer |-> "idle"]
  /\ seen = [i \in Issuer |-> Nothing]
  /\ reading = <<>>
  /\ refuted = FALSE

-----------------------------------------------------------------------------
(* A claim as its maker writes it: services give theirs a payload, which   *)
(* need not repeat what the document states; others, and the claims made   *)
(* of evidence, come without one.                                          *)
StateClaim(x) ==
  [id |-> x, stated |-> [path |-> x.path, state |-> x.state],
   payload |-> IF x \in Claim THEN GivenPayload[x] ELSE NoPayload]

(* normalized_claim_payload: what is stated, for want of a payload.        *)
NormalizedPayload(claim) ==
  IF claim.payload = NoPayload THEN claim.stated ELSE claim.payload

(* canonical_claim_body, but for the sequence number and the predecessor.  *)
CanonicalBody(claim) == <<claim.id, NormalizedPayload(claim)>>

ClaimHash(previous, sequence, body) == Append(previous, <<sequence, body>>)

ChainClaim(claim, sequence, previous) ==
  [id |-> claim.id, stated |-> claim.stated, payload |-> NormalizedPayload(claim),
   sequence |-> sequence, previous |-> previous,
   hash |-> ClaimHash(previous, sequence, CanonicalBody(claim))]

TerminalHash(list) == IF list = <<>> THEN <<>> ELSE list[Len(list)].hash

(* verify_claim_chain: the list is verified in the order it is given.      *)
VerifyClaimChain(list) ==
  \A n \in 1..Len(list) :
    /\ list[n].sequence = n
    /\ list[n].previous = IF n = 1 THEN <<>> ELSE list[n - 1].hash
    /\ list[n].hash = ClaimHash(list[n].previous, list[n].sequence, CanonicalBody(list[n]))

(* Mutant: the root keeps the predecessor's hash as the terminal one.      *)
ChainStaleHead(x) ==
  LET stored == ChainClaim(StateClaim(x), head.sequence + 1, head.hash)
  IN  /\ history' = Append(history, stored)
      /\ head' = [sequence |-> stored.sequence, hash |-> stored.previous]

Chain(x) ==
  LET stored == ChainClaim(StateClaim(x), head.sequence + 1, head.hash)
  IN  /\ history' = Append(history, stored)
      /\ head' = [sequence |-> stored.sequence, hash |-> stored.hash]

(* append_claim and ingest_evidence with the chain they extend.            *)
AppendChained(c) ==
  AppendClaim(c) /\ Chain(c) /\ UNCHANGED <<artifactVars, issuerVars, readerVars>>

IngestChained(e) ==
  IngestEvidence(e) /\ Chain(e) /\ UNCHANGED <<artifactVars, issuerVars, readerVars>>

(* Mutant: every claim is verified, those since the checkpoint included.   *)
ThroughTheLatest(n) == history

(* The claims a checkpoint covers, of all that have been appended: those   *)
(* numbered up to n, in the order of their numbers.                        *)
Through(n) == SubSeq(history, 1, n)

-----------------------------------------------------------------------------
(* Verification of a receipt, a checkpoint and a list of claims.           *)
Authoritative(evidence) == {e \in evidence : e.rank = 1}

(* Mutant: the checkpoint is compared by its sequence number only.         *)
BoundByCountOnly(receipt, checkpoint, list) ==
  /\ receipt.through = checkpoint.through
  /\ Len(list) = checkpoint.through

(* The receipt names the checkpoint, and the checkpoint the list's end.    *)
Bound(receipt, checkpoint, list) ==
  /\ receipt.through = checkpoint.through
  /\ receipt.terminal = checkpoint.terminal
  /\ TerminalHash(list) = checkpoint.terminal
  /\ Len(list) = checkpoint.through

(* verify_integrity_bundle, of a receipt and a checkpoint as they were     *)
(* signed: a receipt is only built of a settled pact.                      *)
VerifyBundle(receipt, checkpoint, list) ==
  /\ Bound(receipt, checkpoint, list)
  /\ receipt.evidence \subseteq checkpoint.evidence
  /\ VerifyClaimChain(list)

-----------------------------------------------------------------------------
Goto(i, s) == stage' = [stage EXCEPT ![i] = s]
See(i, what) == seen' = [seen EXCEPT ![i] = what]
GiveUp(i) == Goto(i, "idle") /\ See(i, Nothing)
IssuerOnly == UNCHANGED <<vars, chainVars, readerVars>>

(* A run that reads an unsettled pact ends without a trace.                *)
ReadPact(i) ==
  /\ stage[i] = "idle"
  /\ lifecycle = "SETTLED"
  /\ Cardinality(checkpoints) < MaxCheckpoints
  /\ Goto(i, "pact")
  /\ See(i, [states |-> resolved])
  /\ IssuerOnly /\ UNCHANGED artifactVars

(* The chain must verify.                                                  *)
ReadClaims(i) ==
  /\ stage[i] = "pact"
  /\ IF VerifyClaimChain(history)
     THEN Goto(i, "claims") /\ See(i, [states |-> seen[i].states, list |-> history])
     ELSE GiveUp(i)
  /\ IssuerOnly /\ UNCHANGED artifactVars

ReadEvidence(i) ==
  /\ stage[i] = "claims"
  /\ Goto(i, "evidence")
  /\ See(i, [states |-> seen[i].states, list |-> seen[i].list, evidence |-> ingested])
  /\ IssuerOnly /\ UNCHANGED artifactVars

Checkpoint(list, evidence) ==
  [through |-> Len(list), terminal |-> TerminalHash(list), evidence |-> evidence]

(* build_settlement_receipt *)
Receipt(kind, states, checkpoint, evidence) ==
  [kind |-> kind, states |-> states, through |-> checkpoint.through,
   terminal |-> checkpoint.terminal, evidence |-> Authoritative(evidence)]

(* A checkpoint's identity is the number of claims it covers and creating  *)
(* it fails when it exists.                                                *)
CreateCheckpoint(i) ==
  /\ stage[i] = "evidence"
  /\ IF \E c \in checkpoints : c.through = Len(seen[i].list)
     THEN GiveUp(i) /\ UNCHANGED checkpoints
     ELSE /\ Cardinality(checkpoints) < MaxCheckpoints
          /\ checkpoints' = checkpoints \cup {Checkpoint(seen[i].list, seen[i].evidence)}
          /\ Goto(i, "checkpoint")
          /\ UNCHANGED seen
  /\ IssuerOnly /\ UNCHANGED receipts

(* Mutant: the states are read when the receipt is stored.                 *)
CreateReceiptOfNow(i) ==
  /\ stage[i] = "checkpoint"
  /\ LET made == Receipt("original", resolved,
                         Checkpoint(seen[i].list, seen[i].evidence), seen[i].evidence)
     IN  receipts' = IF \E r \in receipts : r.kind = made.kind /\ r.through = made.through
                     THEN receipts ELSE receipts \cup {made}
  /\ GiveUp(i)
  /\ IssuerOnly /\ UNCHANGED checkpoints

CreateReceipt(i) ==
  /\ stage[i] = "checkpoint"
  /\ LET made == Receipt("original", seen[i].states,
                         Checkpoint(seen[i].list, seen[i].evidence), seen[i].evidence)
     IN  receipts' = IF \E r \in receipts : r.kind = made.kind /\ r.through = made.through
                     THEN receipts ELSE receipts \cup {made}
  /\ GiveUp(i)
  /\ IssuerOnly /\ UNCHANGED checkpoints

(* The receipt is issued again over the artifacts an earlier run kept: the *)
(* pact and its evidence are read anew, the checkpoint and its claims are  *)
(* the old ones, and what does not verify is not stored.                   *)
ReadForReissue(i) ==
  /\ stage[i] = "idle"
  /\ lifecycle = "SETTLED"
  /\ \E c \in checkpoints :
       /\ \E r \in receipts : r.kind = "original" /\ r.through = c.through
       /\ See(i, [states |-> resolved, checkpoint |-> c,
                  list |-> Through(c.through)])
  /\ Goto(i, "reissue")
  /\ IssuerOnly /\ UNCHANGED artifactVars

ReadEvidenceAgain(i) ==
  /\ stage[i] = "reissue"
  /\ Goto(i, "reissued")
  /\ See(i, [states |-> seen[i].states, checkpoint |-> seen[i].checkpoint,
             list |-> seen[i].list, evidence |-> ingested])
  /\ IssuerOnly /\ UNCHANGED artifactVars

(* Mutant: the receipt issued again is stored without being verified.      *)
ReissueUnverified(i) ==
  /\ stage[i] = "reissued"
  /\ LET made == Receipt("reissued", seen[i].states, seen[i].checkpoint, seen[i].evidence)
     IN  receipts' = IF \E r \in receipts : r.kind = made.kind /\ r.through = made.through
                     THEN receipts ELSE receipts \cup {made}
  /\ GiveUp(i)
  /\ IssuerOnly /\ UNCHANGED checkpoints

Reissue(i) ==
  /\ stage[i] = "reissued"
  /\ LET made == Receipt("reissued", seen[i].states, seen[i].checkpoint, seen[i].evidence)
     IN  receipts' =
           IF \/ ~VerifyBundle(made, seen[i].checkpoint, seen[i].list)
              \/ \E r \in receipts : r.kind = made.kind /\ r.through = made.through
           THEN receipts ELSE receipts \cup {made}
  /\ GiveUp(i)
  /\ IssuerOnly /\ UNCHANGED checkpoints

(* A run dies, or the key service is unavailable, between any two steps.   *)
AbandonIssue(i) ==
  /\ stage[i] # "idle"
  /\ GiveUp(i)
  /\ IssuerOnly /\ UNCHANGED artifactVars

IssuerStep(i) ==
  \/ ReadPact(i) \/ ReadClaims(i) \/ ReadEvidence(i)
  \/ CreateCheckpoint(i) \/ CreateReceipt(i)
  \/ ReadForReissue(i) \/ ReadEvidenceAgain(i) \/ Reissue(i)
  \/ AbandonIssue(i)

-----------------------------------------------------------------------------
(* The service's live proof: receipts are read, then checkpoints, then     *)
(* claims.  Of the receipts only one that covers most is used.             *)
ReaderOnly == UNCHANGED <<vars, chainVars, artifactVars, issuerVars>>

ReadReceipts ==
  /\ reading = <<>>
  /\ \E r \in receipts :
       /\ \A q \in receipts : q.through <= r.through
       /\ reading' = <<r>>
  /\ UNCHANGED refuted /\ ReaderOnly

ReadCheckpoint ==
  /\ Len(reading) = 1
  /\ LET named == {c \in checkpoints : c.through = reading[1].through}
     IN  IF named = {}
         THEN reading' = <<>> /\ refuted' = TRUE
         ELSE (\E c \in named : reading' = <<reading[1], c>>) /\ UNCHANGED refuted
  /\ ReaderOnly

LiveProof ==
  /\ Len(reading) = 2
  /\ refuted' = (refuted \/ ~VerifyBundle(reading[1], reading[2], Through(reading[2].through)))
  /\ reading' = <<>>
  /\ ReaderOnly

ReaderStep == ReadReceipts \/ ReadCheckpoint \/ LiveProof

ReceiptsNext ==
  \/ \E c \in Claim : AppendChained(c)
  \/ \E e \in Evidence : IngestChained(e)
  \/ \E i \in Issuer : IssuerStep(i)
  \/ ReaderStep

ReceiptsSpec == ReceiptsInit /\ [][ReceiptsNext]_receiptsVars

(* A message published at least once is ingested in the end; nobody has to *)
(* claim, to issue or to read.                                             *)
FairReceiptsSpec ==
  ReceiptsSpec /\ \A e \in Evidence : WF_receiptsVars(IngestChained(e))

-----------------------------------------------------------------------------
(* The chain grows by one document per claim and per piece of evidence     *)
(* ever stored, each once, and the root names its end: appends of claims   *)
(* and of evidence, whoever makes them, neither fork it nor skip in it.    *)
ChainUnforked ==
  /\ VerifyClaimChain(history)
  /\ head = [sequence |-> Len(history), hash |-> TerminalHash(history)]
  /\ {history[n].id : n \in 1..Len(history)} = claims \cup ingested
  /\ \A m, n \in 1..Len(history) : history[m].id = history[n].id => m = n

(* A stored receipt can be verified against its checkpoint and the claims  *)
(* the checkpoint covers for ever after, whatever is claimed, ingested,    *)
(* issued again or abandoned half-way since.                               *)
IssuedReceiptsVerify ==
  \A r \in receipts : \E c \in checkpoints :
    c.through = r.through /\ VerifyBundle(r, c, Through(c.through))

(* What a receipt reports of an operation on the word of a source of       *)
(* record comes from evidence its checkpoint commits to, although pact,    *)
(* claims and evidence are read one after the other.                       *)
ReportedStatesCommitted ==
  \A r \in receipts, c \in checkpoints, o \in Operation :
    (c.through = r.through /\ r.states[o] # NoEvidence
       /\ (r.kind = "original" \/ r.states[o].rank = 1))
      => r.states[o] \in c.evidence

(* The service's proof of a case, read while artifacts are issued and the  *)
(* chain grows, never finds a receipt without its checkpoint, or one that  *)
(* fails to verify.                                                        *)
LiveProofHolds == ~refuted

(* What may be written for one stored document, its hash left as it was.   *)
Edited(stored) ==
  LET known == {StateClaim(x) : x \in Identity}
  IN  {[stored EXCEPT !.id = x] : x \in Identity}
        \cup {[stored EXCEPT !.stated = claim.stated] : claim \in known}
        \cup {[stored EXCEPT !.payload = p] :
                p \in {NoPayload} \cup {NormalizedPayload(claim) : claim \in known}}

(* What may be presented for a list of claims: the list altered, its       *)
(* hashes as they were or made consistent again.                           *)
Rewritten(list) ==
  UNION {{[list EXCEPT ![n] = d] : d \in Edited(list[n])} : n \in 1..Len(list)}
Shortened(list) ==
  {[n \in 1..(Len(list) - 1) |-> IF n < m THEN list[n] ELSE list[n + 1]] : m \in 1..Len(list)}
Exchanged(list) == {[list EXCEPT ![m] = list[n], ![n] = list[m]] : m, n \in 1..Len(list)}
Lengthened(list) ==
  {[n \in 1..(Len(list) + 1) |-> IF n <= m THEN list[n] ELSE list[n - 1]] : m \in 1..Len(list)}

Altered(list) == Rewritten(list) \cup Shortened(list) \cup Exchanged(list) \cup Lengthened(list)

HashThrough(list, n) == [k \in 1..n |-> <<k, CanonicalBody(list[k])>>]
Rechained(list) ==
  [n \in 1..Len(list) |-> ChainClaim(list[n], n, HashThrough(list, n - 1))]

Presentable(list) ==
  LET altered == Altered(list) IN altered \cup {Rechained(other) : other \in altered}

(* All of a document that its hash covers: not what it states.             *)
Hashed(document) ==
  [sequence |-> document.sequence, previous |-> document.previous,
   hash |-> document.hash, body |-> CanonicalBody(document)]

(* Of the lists of claims that may be presented for the history a receipt  *)
(* covers, with their hashes left as they were or made consistent again,   *)
(* those that verify have its claims, each in its place and with its       *)
(* payload, and none verifies under another checkpoint.  What a document   *)
(* states beside its payload is not told apart.                            *)
VerifiedListAgrees ==
  \A c \in checkpoints :
    LET truth == Through(c.through)
    IN  \A list \in Presentable(truth), r \in receipts :
          VerifyBundle(r, c, list) =>
            /\ r.through = c.through
            /\ Len(list) = Len(truth)
            /\ \A n \in 1..Len(truth) : Hashed(list[n]) = Hashed(truth[n])

(* Documents are of their kinds; a checkpoint's identity names one         *)
(* checkpoint and a receipt's one receipt.                                 *)
ReceiptsTypeOK ==
  /\ GraphTypeOK
  /\ history \in Seq(ClaimDocument)
  /\ checkpoints \subseteq CheckpointDocument
  /\ receipts \subseteq ReceiptDocument
  /\ stage \in [Issuer -> Stage]
  /\ \A c, d \in checkpoints : c.through = d.through => c = d
  /\ \A r, q \in receipts : r.kind = q.kind /\ r.through = q.through => r = q
=============================================================================
