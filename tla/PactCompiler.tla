---------------------------- MODULE PactCompiler ----------------------------
(***************************************************************************)
(* From a customer's words to an active pact.  A language model answers a  *)
(* request with a candidate, which has no authority; the validator checks  *)
(* it against the case the retailer's own systems describe and the trusted *)
(* policy, and makes a draft; the activation of a draft checks it again,   *)
(* against the same case, and resolves the policy's whole envelope.        *)
(*                                                                         *)
(* A request that is not VALID leaves no draft and may be tried again.     *)
(* Its text is screened under an identity made of the text, and the record *)
(* of a screening is created once: a text is screened once and for all.    *)
(*                                                                         *)
(* Abstracted: prompts, excerpts, groundings, metadata and reason codes.   *)
(***************************************************************************)
EXTENDS Naturals, Sequences

CONSTANTS
  Ticket,          \* requests to compile, each the text of a ticket
  Text,            \* the text of a ticket and of its context
  Screened,        \* tickets whose provider has a screener that keeps records
  CaseOf,          \* authoritative context of a ticket
  Candidate,       \* what the model may answer
  NoOrder, NoAmount, NoDraft, NoPact,
  PathOfConcept,   \* resolution_path_mapping of the policy
  AllowedPath,     \* allowed_resolution_paths of the policy
  EvidenceConcept  \* evidence concepts a candidate may name

Concept == DOMAIN PathOfConcept

ValidationStatus == {"VALID", "NEEDS_CLARIFICATION", "REJECTED"}

(* What the model answers has this form, or the provider has failed; of a    *)
(* type of subject it may name several.                                     *)
IsCandidate(c) ==
  /\ DOMAIN c = {"outcome", "references", "concepts", "both", "evidence", "ambiguous", "amount"}
  /\ \A i \in DOMAIN c.references : DOMAIN c.references[i] = {"type", "value"}
  /\ {c.both, c.ambiguous} \subseteq BOOLEAN
  /\ c.amount = NoAmount \/ c.amount \in Nat

(* The retailer's own account of a case; only a tenant, domain and type of   *)
(* case that select a policy make it "mapped".                              *)
IsCase(case) ==
  /\ case.mapped \in BOOLEAN
  /\ DOMAIN case.orders = 1..Len(case.orders)
  /\ \A i \in DOMAIN case.orders :
       case.orders[i].id # NoOrder /\ case.orders[i].amount \in Nat

IsTrustedPolicy == PathOfConcept \in [Concept -> AllowedPath]

ASSUME CompilerAssumption ==
  /\ IsTrustedPolicy
  /\ Screened \subseteq Ticket
  /\ DOMAIN Text = Ticket
  /\ \A t \in Ticket : IsCase(CaseOf[t])
  /\ \A c \in Candidate : IsCandidate(c)

VARIABLES
  status,      \* "VALID" with a draft, "ACTIVE" once it is activated, else "NONE"
  draft,       \* trusted draft of a ticket
  screenings   \* texts with a record in security_screenings

compilerVars == <<status, draft, screenings>>

CompilerInit ==
  /\ status = [t \in Ticket |-> "NONE"]
  /\ draft = [t \in Ticket |-> NoDraft]
  /\ screenings = {}

-----------------------------------------------------------------------------
(* The first order of a case that has an identifier.                       *)
OrderOf(case, id) ==
  LET found == {i \in DOMAIN case.orders : case.orders[i].id = id}
  IN  IF found = {} THEN NoOrder
      ELSE case.orders[CHOOSE i \in found : \A j \in found : i <= j]

(* Of several references to one type of subject the last one counts.       *)
Extracted(candidate, type) ==
  LET found == {i \in DOMAIN candidate.references : candidate.references[i].type = type}
  IN  IF found = {} THEN NoOrder
      ELSE candidate.references[CHOOSE i \in found : \A j \in found : j <= i].value

(* The order and its customer are named, and no ticket but this one.       *)
SubjectsKnown(candidate, case) ==
  LET order == OrderOf(case, Extracted(candidate, "order_id"))
  IN  /\ order # NoOrder
      /\ Extracted(candidate, "customer_id") = order.customer
      /\ Extracted(candidate, "ticket_id") \in {NoOrder, case.ticket}

AmountAgrees(candidate, case) ==
  \/ candidate.amount = NoAmount
  \/ candidate.amount = OrderOf(case, Extracted(candidate, "order_id")).amount

(* The reasons for which validate rejects, none of which applies.          *)
Acceptable(candidate, case) ==
  /\ candidate.outcome = "resolve_missing_order"
  /\ SubjectsKnown(candidate, case)
  /\ candidate.concepts \subseteq Concept
  /\ ~(candidate.both /\ {"refund", "replacement"} \subseteq candidate.concepts)
  /\ candidate.evidence \subseteq EvidenceConcept
  /\ AmountAgrees(candidate, case)

ResultOf(candidate, case) ==
  CASE ~case.mapped                 -> "REJECTED"
    [] candidate.ambiguous          -> "NEEDS_CLARIFICATION"
    [] Acceptable(candidate, case)  -> "VALID"
    [] OTHER                        -> "REJECTED"

DraftOf(candidate, case) ==
  LET order == OrderOf(case, Extracted(candidate, "order_id"))
  IN  [order |-> order.id, customer |-> order.customer, ticket |-> case.ticket,
       paths |-> {PathOfConcept[c] : c \in candidate.concepts}]

-----------------------------------------------------------------------------
(* A screener without a record of its own lets every text pass again.      *)
ScreeningDefers(t) == t \in Screened /\ Text[t] \in screenings

Screen(t) == screenings' = IF t \in Screened THEN screenings \cup {Text[t]} ELSE screenings

(* The screener blocks the text or has a record of it, or the model is down *)
(* or answers with what is no candidate.  A screener that is down leaves    *)
(* nothing behind.                                                         *)
CompileFails(t) ==
  /\ status[t] = "NONE"
  /\ Screen(t)
  /\ UNCHANGED <<status, draft>>

(* PactCompiler.compile, the model having answered.                        *)
Compile(t, candidate) ==
  /\ status[t] = "NONE"
  /\ ~ScreeningDefers(t)
  /\ Screen(t)
  /\ IF ResultOf(candidate, CaseOf[t]) = "VALID"
     THEN /\ status' = [status EXCEPT ![t] = "VALID"]
          /\ draft' = [draft EXCEPT ![t] = DraftOf(candidate, CaseOf[t])]
     ELSE UNCHANGED <<status, draft>>

(* Mutant: the difference of the paths is taken the other way.             *)
ActivatableWhole(d, case) ==
  /\ AllowedPath \subseteq d.paths
  /\ \E i \in DOMAIN case.orders :
       case.orders[i].id = d.order /\ case.orders[i].customer = d.customer

(* What activate_validated_draft demands of a draft.                       *)
Activatable(d, case) ==
  /\ d.paths \subseteq AllowedPath
  /\ \E i \in DOMAIN case.orders :
       case.orders[i].id = d.order /\ case.orders[i].customer = d.customer

(* The pact is of the order and of the policy; the draft's paths were only   *)
(* checked.                                                                *)
PactFrom(d, case) ==
  [order |-> d.order, customer |-> d.customer, ticket |-> case.ticket,
   amount |-> OrderOf(case, d.order).amount, paths |-> AllowedPath]

Activate(t) ==
  /\ status[t] = "VALID"
  /\ Activatable(draft[t], CaseOf[t])
  /\ status' = [status EXCEPT ![t] = "ACTIVE"]
  /\ UNCHANGED <<draft, screenings>>
=============================================================================
