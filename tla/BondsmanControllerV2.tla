----------------------- MODULE BondsmanControllerV2 -----------------------
(***************************************************************************)
(* The deployed suite (deployments/testnet.json, "current": "v2"):         *)
(* contracts/bondsman_controller_v2 with its registry of fault verifiers.  *)
(* A challenge names a fault class and the registered verifier of that     *)
(* class decides it: the duplicate verifier asks the pool, the delivery    *)
(* verifier checks a buyer's signed attestation and consumes it.  All else *)
(* is the life cycle of BondsmanController, entry point by entry point.    *)
(***************************************************************************)
EXTENDS BondsmanController

CONSTANTS
  Deadlines,     \* expected_delivery_deadline of invoices (input bound)
  Attestations,  \* the attestations callers have to present (input bound)
  NoEvidence     \* bytes that are no attestation

(***************************************************************************)
(* The 120 bytes of an attestation.  "authentic" abstracts what does not   *)
(* depend on the state: the length, and the signature of the first 56      *)
(* bytes under the buyer's key.                                            *)
(***************************************************************************)
Evidence ==
  [actionId: ActionIds, invoiceId: InvoiceIds, occurredAt: Nat,
   nonce: Nat, authentic: BOOLEAN]

ASSUME EvidenceAssumption ==
  /\ Attestations \subseteq Evidence
  /\ Deadlines \subseteq Nat
  /\ NoEvidence \notin Evidence

VARIABLES
  faultVerifiers,  \* the fault classes with a registered verifier
  terms,           \* terms[i]: what an invoice says about its delivery
  usedEvidence,    \* the delivery verifier's used_evidence
  faults           \* fault_class and evidence_root of the actions

v2Vars == <<faultVerifiers, terms, usedEvidence, faults>>

FaultClasses == {"duplicate_claim", "delivery_contradiction"}

NoFault == [class |-> "", evidence |-> NoEvidence]

V2Init ==
  /\ faultVerifiers = {}
  /\ terms = [i \in InvoiceIds |-> [deadline |-> 0, keyValid |-> FALSE]]
  /\ usedEvidence = {}
  /\ faults = [id \in ActionIds |-> NoFault]

RegisterVerifier(caller, class) ==
  /\ caller = Deployer
  /\ faultVerifiers' = faultVerifiers \cup {class}
  /\ UNCHANGED <<vars, terms, usedEvidence, faults>>

WirePool(caller) ==
  /\ SetPoolController(caller, Controller)
  /\ UNCHANGED <<vaultVars, ctlVars, blockTime, v2Vars>>

AddInvoiceV2(caller, i) ==
  /\ AddInvoice(caller, i)
  /\ \E deadline \in Deadlines, keyValid \in BOOLEAN :
       terms' = [terms EXCEPT ![i] = [deadline |-> deadline, keyValid |-> keyValid]]
  /\ UNCHANGED <<faultVerifiers, usedEvidence, faults>>

\* Mutant of BoundTo: of the invoice only.
BoundToInvoice(e, id, i) == id \in ActionIds /\ e.invoiceId = i

BoundTo(e, id, i) == e.actionId = id /\ e.invoiceId = i

Fresh(e) == e \notin usedEvidence

(***************************************************************************)
(* DeliveryContradictionVerifierV2.verify: of the named action and invoice,*)
(* not before the deadline, not in the future, signed, and not yet used.   *)
(***************************************************************************)
DeliveryConfirmed(id, i, e) ==
  /\ invoices[i].state # "None"
  /\ terms[i].keyValid
  /\ Fresh(e)
  /\ BoundTo(e, id, i)
  /\ e.occurredAt >= terms[i].deadline
  /\ e.occurredAt <= blockTime
  /\ e.authentic

(***************************************************************************)
(* verify is an entry point of its own, and the pool it asks is one of its *)
(* arguments: whatever deadline and key that address answers with, a call  *)
(* outside a challenge consumes the attestation all the same.              *)
(***************************************************************************)
VerifyDelivery(e) ==
  /\ Fresh(e)
  /\ e.occurredAt <= blockTime
  /\ usedEvidence' = usedEvidence \cup {e}
  /\ UNCHANGED <<vars, faultVerifiers, terms, faults>>

(***************************************************************************)
(* What both classes of challenge do once the verifier has confirmed.      *)
(***************************************************************************)
Accuse(challenger, id, class, e) ==
  /\ class \in faultVerifiers
  /\ Challengeable(id)
  /\ ctlPool = Pool
  /\ actions' = [actions EXCEPT ![id].challenger = challenger,
                                ![id].status = "Challenged"]
  /\ faults' = [faults EXCEPT ![id] = [class |-> class, evidence |-> e]]
  /\ UNCHANGED <<tokenVars, vaultVars, poolVars, ctlPool, ctlPoolFinalized,
                 nextActionId, reputation, blockTime, faultVerifiers, terms>>

(***************************************************************************)
(* The duplicate verifier needs no evidence: whatever bytes come with the  *)
(* challenge are recorded and not consumed.                                *)
(***************************************************************************)
ChallengeDuplicate(challenger, id, e) ==
  /\ IsActionDuplicate(id)
  /\ Accuse(challenger, id, "duplicate_claim", e)
  /\ UNCHANGED usedEvidence

ChallengeDelivery(challenger, id, e) ==
  /\ actions[id].status = "Executed"
  /\ DeliveryConfirmed(id, actions[id].invoiceId, e)
  /\ Accuse(challenger, id, "delivery_contradiction", e)
  /\ usedEvidence' = usedEvidence \cup {e}

NextV2 ==
  \/ SharedNext /\ UNCHANGED v2Vars
  \/ \E u \in Users :
       \/ WirePool(u)
       \/ \E class \in FaultClasses : RegisterVerifier(u, class)
       \/ \E i \in InvoiceIds : AddInvoiceV2(u, i)
       \/ \E id \in ActionIds, e \in Attestations \cup {NoEvidence} :
            ChallengeDuplicate(u, id, e)
       \/ \E id \in ActionIds, e \in Attestations : ChallengeDelivery(u, id, e)
  \/ \E e \in Attestations : VerifyDelivery(e)

InitV2 == Init /\ V2Init

SpecV2 == InitV2 /\ [][NextV2]_<<vars, v2Vars>>
-----------------------------------------------------------------------------
V2TypeOK ==
  /\ TypeOK
  /\ faultVerifiers \subseteq FaultClasses
  /\ terms \in [InvoiceIds -> [deadline: Nat, keyValid: BOOLEAN]]
  /\ usedEvidence \subseteq Attestations
  /\ \A id \in ActionIds :
       faults[id] = NoFault
       \/ /\ faults[id].class \in FaultClasses
          /\ faults[id].evidence \in Attestations \cup {NoEvidence}

(***************************************************************************)
(* Nobody loses a bond on an accuser's word: an accused action has a fault *)
(* on record, and the fault is a second payment of a claim that another    *)
(* action paid first, or a consumed attestation of this very action and    *)
(* invoice, of an event from the agreed deadline on and no later than the  *)
(* challenge window.  An action that is not accused has no fault on record.*)
(***************************************************************************)
Accused(id) == Status(id) \in {"Challenged", "ResolvedSlash"}

DuplicateProof(id) == id \in actionDup /\ FirstPayer(id) # id

DeliveryProof(id, e) ==
  /\ e \in usedEvidence
  /\ e.authentic
  /\ e.actionId = id
  /\ e.invoiceId = actions[id].invoiceId
  /\ e.occurredAt \in terms[e.invoiceId].deadline..actions[id].windowEnd

FaultIsProven ==
  \A id \in ActionIds :
    IF Accused(id)
    THEN \/ faults[id].class = "duplicate_claim" /\ DuplicateProof(id)
         \/ /\ faults[id].class = "delivery_contradiction"
            /\ DeliveryProof(id, faults[id].evidence)
    ELSE faults[id] = NoFault
=============================================================================
