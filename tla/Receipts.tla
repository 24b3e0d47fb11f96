------------------------------ MODULE Receipts ------------------------------
(***************************************************************************)
(* Portable receipts and proof cards: issueReceipt of backend/src/receipts *)
(* /service.ts and proofFor of proofs/service.ts, beside the processes     *)
(* that write the action rows they are made from.  A receipt is built from *)
(* the row, waits for the signing key and is kept for good under the       *)
(* action's id, and so is a proof, which waits for nothing: whoever holds  *)
(* one takes the outcome it names to others, who do not ask the chain.     *)
(* Of what they say only the outcome is kept here.                         *)
(***************************************************************************)
EXTENDS Watchdog

CONSTANT Asked  \* the actions whose receipts and proofs are asked for

ASSUME ReceiptsAssumption == Asked \subseteq Actions

VARIABLES
  signing,   \* the receipts that requests have built and not yet signed
  receipts,  \* the table signed_receipts
  proofs     \* the table proof_cache

receiptVars == <<signing, receipts, proofs>>

ReceiptsInit ==
  /\ Init
  /\ signing = {}
  /\ receipts = {}
  /\ proofs = {}

Names(cards, a) == {card \in cards : card.action = a}

Card(a) ==
  [action |-> a,
   outcome |-> IF row[a].status = "ResolvedSlash" THEN "SLASHED" ELSE "REFUNDED"]

\* What is kept is returned as it is; otherwise the row decides.
BuildReceipt(a) ==
  /\ Names(receipts, a) = {}
  /\ terminal(row[a].status)
  /\ signing' = signing \cup {Card(a)}
  /\ UNCHANGED <<vars, receipts, proofs>>

\* The upsert replaces what another request has kept in the meantime.
IssueReceipt(card) ==
  /\ card \in signing
  /\ signing' = signing \ {card}
  /\ receipts' = (receipts \ Names(receipts, card.action)) \cup {card}
  /\ UNCHANGED <<vars, proofs>>

\* The signing key cannot be read, or the process is restarted.
SigningFails(card) ==
  /\ card \in signing
  /\ signing' = signing \ {card}
  /\ UNCHANGED <<vars, receipts, proofs>>

ProofFor(a) ==
  /\ Names(proofs, a) = {}
  /\ terminal(row[a].status)
  /\ proofs' = proofs \cup {Card(a)}
  /\ UNCHANGED <<vars, signing, receipts>>

Readers ==
  \/ \E a \in Asked : BuildReceipt(a) \/ ProofFor(a)
  \/ \E card \in signing : IssueReceipt(card) \/ SigningFails(card)

ReceiptsNext == (Next /\ UNCHANGED receiptVars) \/ Readers

ReceiptsSpec == ReceiptsInit /\ [][ReceiptsNext]_<<vars, receiptVars>>

\* As in Watchdog, and a rest of the keeper ends; nobody has to ask for a
\* receipt.
ReceiptsFair ==
  /\ ReceiptsSpec
  /\ WF_<<vars, receiptVars>>(CoolsDown /\ UNCHANGED <<watchVars, receiptVars>>)
  /\ WF_<<vars, receiptVars>>(ListenerStep /\ UNCHANGED <<watchVars, receiptVars>>)
  /\ WF_<<vars, receiptVars>>(WatchStep /\ UNCHANGED receiptVars)

-----------------------------------------------------------------------------
(***************************************************************************)
(* Every receipt and every proof that was ever kept, or is being signed,   *)
(* names the outcome that the chain has settled for good: the rows behind  *)
(* them are written by several processes, each from what it read earlier,  *)
(* and neither a receipt nor a proof is ever built a second time.          *)
(***************************************************************************)
OutcomeIsFinal ==
  \A card \in signing \cup receipts \cup proofs :
    status[card.action] =
      IF card.outcome = "SLASHED" THEN "ResolvedSlash" ELSE "ResolvedRefund"
=============================================================================
