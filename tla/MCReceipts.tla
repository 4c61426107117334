------------------------------ MODULE MCReceipts ------------------------------
(* The pact of MCPactGraph with a refund whose first attempt a query       *)
(* reports and whose second the system of record does: either settles it,  *)
(* and what a receipt reports of it may change while it is being issued.   *)
(* The claim is a service's: its payload is a decision.                    *)
EXTENDS Receipts, MCPactGraph

ReceiptEvidence == {Queried, Succeeded}
ReceiptClaim == {c \in MCClaim : c.path = "successful_refund"}
ReceiptGiven == [c \in ReceiptClaim |-> CHOOSE p \in Payload : TRUE]
=============================================================================
