--------------------- MODULE BondsmanControllerV2Proofs ---------------------
(***************************************************************************)
(* Theorems about the deployed version 2 suite: it keeps everything that   *)
(* is proved of version 1, and an accused action has a proven fault.       *)
(***************************************************************************)
EXTENDS BondsmanControllerV2, BondsmanControllerProofs

v2AllVars == <<vars, v2Vars>>

LEMMA NextV2IsSuiteNext == [NextV2]_v2AllVars => SuiteNext
BY DEF NextV2, SuiteNext, v2AllVars, WirePool, PoolWired, RegisterVerifier,
       AddInvoiceV2, ChallengeDuplicate, ChallengeDelivery, Accuse, Accusation,
       VerifyDelivery

(***************************************************************************)
(* The types of the added variables.                                       *)
(***************************************************************************)
Fault == [class: FaultClasses \cup {""}, evidence: Attestations \cup {NoEvidence}]

V2Types ==
  /\ faultVerifiers \subseteq FaultClasses
  /\ terms \in [InvoiceIds -> [deadline: Nat, keyValid: BOOLEAN]]
  /\ usedEvidence \subseteq Attestations
  /\ faults \in [ActionIds -> Fault]

(***************************************************************************)
(* The inductive invariant.  PayersInv says which invoice an accused       *)
(* action has paid: a paid invoice is never submitted again, so that the   *)
(* deadline a fault was measured against stays what it was.                *)
(***************************************************************************)
V2Inv == SuiteInv /\ PayersInv /\ V2Types /\ FaultIsProven

LEMMA V2Start == InitV2 => V2Inv
<1> SUFFICES ASSUME InitV2
             PROVE  V2Inv
  OBVIOUS
<1>1. SuiteInv /\ PayersInv
  BY SuiteInit, PayersInit DEF InitV2
<1>2. V2Types
  BY DEF InitV2, V2Init, V2Types, Fault, NoFault
<1>3. FaultIsProven
  BY DEF InitV2, Init, CtlInit, V2Init, NotInMapping, FaultIsProven, Accused, Status
<1> QED BY <1>1, <1>2, <1>3 DEF V2Inv

(***************************************************************************)
(* What a step leaves of the record that a fault is proved from: the same  *)
(* actions are accused, of the same invoice and claim and with the same    *)
(* window, and flagged actions stay flagged.                               *)
(***************************************************************************)
AccusedStatus == {"Challenged", "ResolvedSlash"}

KeepsRecord(id) ==
  /\ Status(id)' \in AccusedStatus <=> Status(id) \in AccusedStatus
  /\ Status(id) \in AccusedStatus =>
       /\ actions'[id].invoiceId = actions[id].invoiceId
       /\ actions'[id].windowEnd = actions[id].windowEnd
  /\ id \in actionDup => id \in actionDup'

LEMMA UpdateKeepsRecord ==
  ASSUME SuiteInv, NEW id \in ActionIds, NEW new,
         actions' = [actions EXCEPT ![id] = new],
         new.status \in AccusedStatus <=> Status(id) \in AccusedStatus,
         Status(id) \in AccusedStatus =>
           /\ new.invoiceId = actions[id].invoiceId
           /\ new.windowEnd = actions[id].windowEnd,
         \A k \in ActionIds : k \in actionDup => k \in actionDup'
  PROVE  \A k \in ActionIds : KeepsRecord(k)
<1>1. actions'[id] = new /\ \A k \in ActionIds : k # id => actions'[k] = actions[k]
  BY DEF SuiteInv, CtlTypeOK
<1> QED BY <1>1 DEF KeepsRecord, Status

LEMMA FrameKeepsRecord ==
  UNCHANGED <<actions, actionDup>> => \A k \in ActionIds : KeepsRecord(k)
BY DEF KeepsRecord, Status

LEMMA InitiateKeepsRecord ==
  ASSUME SuiteInv, NEW agent, NEW i, NEW h, NEW amount,
         InitiateAction(agent, i, h, amount)
  PROVE  \A k \in ActionIds : KeepsRecord(k)
<1> DEFINE new == [agent |-> agent, invoiceId |-> i, claimHash |-> h,
                   amount |-> amount, bondRequired |-> BondRequired(amount, agent),
                   bondPosted |-> 0, windowEnd |-> 0, status |-> "Initiated",
                   challenger |-> NoAddress]
<1>1. /\ actions' = [actions EXCEPT ![nextActionId] = new]
      /\ new.status = "Initiated"
      /\ actionDup' = actionDup
  BY DEF InitiateAction, poolVars
<1> HIDE DEF new
<1>2. nextActionId \in ActionIds /\ Status(nextActionId) = "None"
  BY DEF InitiateAction, SuiteInv, CtlTypeOK, UnusedIds
<1>3. new.status \notin AccusedStatus /\ Status(nextActionId) \notin AccusedStatus
  BY <1>1, <1>2 DEF AccusedStatus
<1> QED BY <1>1, <1>2, <1>3, UpdateKeepsRecord

LEMMA PostBondKeepsRecord ==
  ASSUME SuiteInv, NEW caller, NEW id \in ActionIds, PostBond(caller, id)
  PROVE  \A k \in ActionIds : KeepsRecord(k)
<1> DEFINE new == [actions[id] EXCEPT !.bondPosted = actions[id].bondRequired,
                                      !.status = "Bonded"]
<1>1. /\ Status(id) = "Initiated"
      /\ actions' = [actions EXCEPT ![id] = new]
      /\ actionDup' = actionDup
  BY DEF PostBond, Status, poolVars
<1>2. new.status = "Bonded"
  BY <1>1, InMapping DEF Action
<1> HIDE DEF new
<1>3. new.status \notin AccusedStatus /\ Status(id) \notin AccusedStatus
  BY <1>1, <1>2 DEF AccusedStatus
<1> QED BY <1>1, <1>3, UpdateKeepsRecord

LEMMA ExecuteKeepsRecord ==
  ASSUME SuiteInv, NEW caller, NEW id \in ActionIds, ExecuteAction(caller, id)
  PROVE  \A k \in ActionIds : KeepsRecord(k)
<1> DEFINE new == [actions[id] EXCEPT !.windowEnd = blockTime + Window,
                                      !.status = "Executed"]
<1>1. /\ Status(id) = "Bonded"
      /\ actions' = [actions EXCEPT ![id] = new]
      /\ RecordClaim(id, actions[id].claimHash)
  BY DEF ExecuteAction, Status, Payout
<1>2. new.status = "Executed"
  BY <1>1, InMapping DEF Action
<1>3. \A k \in ActionIds : k \in actionDup => k \in actionDup'
  BY <1>1 DEF RecordClaim
<1> HIDE DEF new
<1>4. new.status \notin AccusedStatus /\ Status(id) \notin AccusedStatus
  BY <1>1, <1>2 DEF AccusedStatus
<1> QED BY <1>1, <1>3, <1>4, UpdateKeepsRecord

LEMMA RefundKeepsRecord ==
  ASSUME SuiteInv, NEW id \in ActionIds, ResolveRefund(id)
  PROVE  \A k \in ActionIds : KeepsRecord(k)
<1> DEFINE new == [actions[id] EXCEPT !.status = "ResolvedRefund"]
<1>1. /\ Status(id) = "Executed"
      /\ actions' = [actions EXCEPT ![id] = new]
      /\ actionDup' = actionDup
  BY DEF ResolveRefund, Status, poolVars
<1>2. new.status = "ResolvedRefund"
  BY <1>1, InMapping DEF Action
<1> HIDE DEF new
<1>3. new.status \notin AccusedStatus /\ Status(id) \notin AccusedStatus
  BY <1>1, <1>2 DEF AccusedStatus
<1> QED BY <1>1, <1>3, UpdateKeepsRecord

LEMMA SlashKeepsRecord ==
  ASSUME SuiteInv, NEW id \in ActionIds, ResolveSlash(id)
  PROVE  \A k \in ActionIds : KeepsRecord(k)
<1> DEFINE new == [actions[id] EXCEPT !.status = "ResolvedSlash"]
<1>1. /\ Status(id) = "Challenged"
      /\ actions' = [actions EXCEPT ![id] = new]
      /\ actionDup' = actionDup
  BY DEF ResolveSlash, Status, AddToReserve
<1>2. /\ new.status = "ResolvedSlash"
      /\ new.invoiceId = actions[id].invoiceId
      /\ new.windowEnd = actions[id].windowEnd
  BY <1>1, InMapping DEF Action
<1> HIDE DEF new
<1>3. new.status \in AccusedStatus /\ Status(id) \in AccusedStatus
  BY <1>1, <1>2 DEF AccusedStatus
<1> QED BY <1>1, <1>2, <1>3, UpdateKeepsRecord

LEMMA SharedKeepsRecord ==
  SuiteInv /\ SharedNext => \A k \in ActionIds : KeepsRecord(k)
<1> SUFFICES ASSUME SuiteInv, SharedNext
             PROVE  \A k \in ActionIds : KeepsRecord(k)
  OBVIOUS
<1>1. CASE UNCHANGED <<actions, actionDup>>
  BY <1>1, FrameKeepsRecord
<1>2. CASE \E u \in Users, id \in ActionIds : PostBond(u, id) \/ ExecuteAction(u, id)
  BY <1>2, PostBondKeepsRecord, ExecuteKeepsRecord
<1>3. CASE \E id \in ActionIds : ResolveSlash(id) \/ ResolveRefund(id)
  BY <1>3, SlashKeepsRecord, RefundKeepsRecord
<1>4. CASE \E a \in Agents, i \in InvoiceIds, h \in ClaimHashes,
              amount \in InvoiceAmounts : InitiateAction(a, i, h, amount)
  BY <1>4, InitiateKeepsRecord
<1>5. CASE UseToken \/ (\E u \in Users : WireVault(u) \/ SetPool(u, Pool)) \/ Tick
  BY <1>5, <1>1 DEF UseToken, WireVault, SetPool, Tick, poolVars, ctlVars
<1> QED BY <1>2, <1>3, <1>4, <1>5 DEF SharedNext

-----------------------------------------------------------------------------
(***************************************************************************)
(* FaultIsProven, action by action.                                        *)
(***************************************************************************)
FaultOf(id) ==
  IF Accused(id)
  THEN \/ faults[id].class = "duplicate_claim" /\ DuplicateProof(id)
       \/ /\ faults[id].class = "delivery_contradiction"
          /\ DeliveryProof(id, faults[id].evidence)
  ELSE faults[id] = NoFault

(***************************************************************************)
(* The invoice an accused action names is paid.                            *)
(***************************************************************************)
LEMMA AccusedIsPaid ==
  ASSUME SuiteInv, PayersInv, NEW id \in ActionIds, Accused(id)
  PROVE  /\ Paid(id)
         /\ actions[id].invoiceId \in InvoiceIds
         /\ invoices[actions[id].invoiceId].state = "Paid"
<1>1. Paid(id)
  BY DEF Accused, Paid
<1>2. actions[id].invoiceId \in InvoiceIds
  BY <1>1, InMapping DEF Paid, Action
<1>3. id \in Payers(actions[id].invoiceId)
  BY <1>1 DEF Payers
<1> QED BY <1>1, <1>2, <1>3 DEF PayersInv, InvoicePaidOnce

LEMMA FaultKept ==
  ASSUME V2Inv, PayersInv', NEW id \in ActionIds, KeepsRecord(id),
         faults'[id] = faults[id], usedEvidence \subseteq usedEvidence',
         \A i \in InvoiceIds : invoices[i].state = "Paid" => terms'[i] = terms[i]
  PROVE  FaultOf(id)'
<1>1. FaultOf(id)
  BY DEF V2Inv, FaultIsProven, FaultOf
<1>2. Accused(id)' <=> Accused(id)
  BY DEF KeepsRecord, Accused, AccusedStatus
<1>3. CASE ~Accused(id)
  BY <1>1, <1>2, <1>3 DEF FaultOf
<1>4. CASE Accused(id)
  <2>1. /\ actions'[id].invoiceId = actions[id].invoiceId
        /\ actions'[id].windowEnd = actions[id].windowEnd
    BY <1>4 DEF KeepsRecord, Accused, AccusedStatus
  <2>2. DuplicateProof(id) => DuplicateProof(id)'
    <3>1. Paid(id)'
      BY <1>2, <1>4 DEF Accused, Paid
    <3>2. id \in actionDup => id \in actionDup'
      BY DEF KeepsRecord
    <3>3. id \in actionDup' => FirstPayer(id)' # id
      BY <3>1 DEF PayersInv, DuplicatesAreLaterPayers
    <3> QED BY <3>2, <3>3 DEF DuplicateProof
  <2>3. DeliveryProof(id, faults[id].evidence) => DeliveryProof(id, faults[id].evidence)'
    <3>1. terms'[actions[id].invoiceId] = terms[actions[id].invoiceId]
      BY <1>4, AccusedIsPaid DEF V2Inv
    <3> QED BY <2>1, <3>1 DEF DeliveryProof
  <2> QED BY <1>1, <1>2, <1>4, <2>2, <2>3 DEF FaultOf
<1> QED BY <1>3, <1>4

LEMMA FaultsKept ==
  ASSUME V2Inv, PayersInv', \A k \in ActionIds : KeepsRecord(k),
         faults' = faults, usedEvidence \subseteq usedEvidence',
         \A i \in InvoiceIds : invoices[i].state = "Paid" => terms'[i] = terms[i]
  PROVE  FaultIsProven'
<1>1. \A id \in ActionIds : FaultOf(id)'
  BY FaultKept
<1> QED BY <1>1 DEF FaultIsProven, FaultOf

(***************************************************************************)
(* A challenge proves the fault it records.                                *)
(***************************************************************************)
LEMMA AccuseKeepsOthers ==
  ASSUME V2Inv, PayersInv', NEW challenger, NEW id \in ActionIds, NEW class, NEW e,
         Accuse(challenger, id, class, e), usedEvidence \subseteq usedEvidence'
  PROVE  /\ Accused(id)'
         /\ faults'[id] = [class |-> class, evidence |-> e]
         /\ actions'[id].invoiceId = actions[id].invoiceId
         /\ actions'[id].windowEnd = actions[id].windowEnd
         /\ Paid(id) /\ Paid(id)'
         /\ \A k \in ActionIds : k # id => FaultOf(k)'
<1> DEFINE new == [actions[id] EXCEPT !.challenger = challenger,
                                      !.status = "Challenged"]
<1>1. /\ Status(id) = "Executed"
      /\ actions' = [actions EXCEPT ![id] = new]
      /\ faults' = [faults EXCEPT ![id] = [class |-> class, evidence |-> e]]
      /\ terms' = terms /\ actionDup' = actionDup
  BY DEF Accuse, Challengeable, Status, poolVars
<1>2. /\ new.status = "Challenged"
      /\ new.invoiceId = actions[id].invoiceId
      /\ new.windowEnd = actions[id].windowEnd
  BY <1>1, InMapping DEF Action, V2Inv
<1> HIDE DEF new
<1>3. actions'[id] = new /\ \A k \in ActionIds : k # id => actions'[k] = actions[k]
  BY <1>1 DEF V2Inv, SuiteInv, CtlTypeOK
<1>4. /\ faults'[id] = [class |-> class, evidence |-> e]
      /\ \A k \in ActionIds : k # id => faults'[k] = faults[k]
  BY <1>1 DEF V2Inv, V2Types
<1>5. ASSUME NEW k \in ActionIds, k # id
      PROVE  FaultOf(k)'
  <2>1. KeepsRecord(k)
    BY <1>1, <1>3, <1>5 DEF KeepsRecord, Status
  <2> QED BY <1>1, <1>4, <1>5, <2>1, FaultKept
<1> QED BY <1>1, <1>2, <1>3, <1>4, <1>5 DEF Accused, Paid, Status

LEMMA DuplicateChallengeProves ==
  ASSUME V2Inv, PayersInv', NEW challenger, NEW id \in ActionIds, NEW e,
         ChallengeDuplicate(challenger, id, e)
  PROVE  FaultIsProven'
<1>1. /\ Accuse(challenger, id, "duplicate_claim", e)
      /\ id \in actionDup
      /\ usedEvidence' = usedEvidence
  BY DEF ChallengeDuplicate, IsActionDuplicate
<1>2. /\ Accused(id)' /\ Paid(id)'
      /\ faults'[id] = [class |-> "duplicate_claim", evidence |-> e]
      /\ \A k \in ActionIds : k # id => FaultOf(k)'
  BY <1>1, AccuseKeepsOthers
<1>3. DuplicateProof(id)'
  <2>1. id \in actionDup'
    BY <1>1 DEF Accuse, poolVars
  <2>2. FirstPayer(id)' # id
    BY <1>2, <2>1 DEF PayersInv, DuplicatesAreLaterPayers
  <2> QED BY <2>1, <2>2 DEF DuplicateProof
<1>4. FaultOf(id)'
  BY <1>2, <1>3 DEF FaultOf
<1>5. \A k \in ActionIds : FaultOf(k)'
  BY <1>2, <1>4
<1> QED BY <1>5 DEF FaultIsProven, FaultOf

LEMMA DeliveryChallengeProves ==
  ASSUME V2Inv, PayersInv', NEW challenger, NEW id \in ActionIds,
         NEW e \in Attestations, ChallengeDelivery(challenger, id, e)
  PROVE  FaultIsProven'
<1> DEFINE i == actions[id].invoiceId
<1>1. /\ Accuse(challenger, id, "delivery_contradiction", e)
      /\ usedEvidence' = usedEvidence \cup {e}
      /\ DeliveryConfirmed(id, i, e)
  BY DEF ChallengeDelivery
<1>2. /\ Accused(id)' /\ Paid(id)
      /\ faults'[id] = [class |-> "delivery_contradiction", evidence |-> e]
      /\ actions'[id].invoiceId = i
      /\ actions'[id].windowEnd = actions[id].windowEnd
      /\ \A k \in ActionIds : k # id => FaultOf(k)'
  BY <1>1, AccuseKeepsOthers
<1>3. actions[id] \in Action
  BY <1>2, InMapping DEF Paid, V2Inv
<1>4. e.actionId = id /\ e.invoiceId = i /\ e.authentic
  BY <1>1 DEF DeliveryConfirmed, BoundTo
<1>5. e.occurredAt \in terms[i].deadline..actions[id].windowEnd
  <2>1. e.occurredAt >= terms[i].deadline /\ e.occurredAt <= blockTime
    BY <1>1 DEF DeliveryConfirmed
  <2>2. blockTime <= actions[id].windowEnd
    BY <1>1 DEF Accuse, Challengeable, WindowOpen
  <2>3. /\ e.occurredAt \in Nat /\ blockTime \in Nat
        /\ terms[i].deadline \in Nat /\ actions[id].windowEnd \in Nat
    BY <1>3, EvidenceAssumption DEF V2Inv, V2Types, SuiteInv, CtlTypeOK, Action, Evidence
  <2> QED BY <2>1, <2>2, <2>3
<1>6. terms' = terms
  BY <1>1 DEF Accuse
<1>7. DeliveryProof(id, faults[id].evidence)'
  BY <1>1, <1>2, <1>4, <1>5, <1>6 DEF DeliveryProof
<1>8. FaultOf(id)'
  BY <1>2, <1>7 DEF FaultOf
<1>9. \A k \in ActionIds : FaultOf(k)'
  BY <1>2, <1>8
<1> QED BY <1>9 DEF FaultIsProven, FaultOf

LEMMA V2TypesStep ==
  ASSUME V2Types, [NextV2]_v2AllVars
  PROVE  V2Types'
<1>1. CASE UNCHANGED v2Vars
  BY <1>1 DEF V2Types, v2Vars
<1>2. ASSUME NEW u \in Users, NEW class \in FaultClasses, RegisterVerifier(u, class)
      PROVE  V2Types'
  BY <1>2 DEF RegisterVerifier, V2Types
<1>3. ASSUME NEW u \in Users, NEW i \in InvoiceIds, AddInvoiceV2(u, i)
      PROVE  V2Types'
  BY <1>3, EvidenceAssumption DEF AddInvoiceV2, V2Types
<1>4. ASSUME NEW u \in Users, NEW id \in ActionIds,
             NEW e \in Attestations \cup {NoEvidence}, ChallengeDuplicate(u, id, e)
      PROVE  V2Types'
  BY <1>4 DEF ChallengeDuplicate, Accuse, V2Types, Fault, FaultClasses
<1>5. ASSUME NEW u \in Users, NEW id \in ActionIds, NEW e \in Attestations,
             ChallengeDelivery(u, id, e)
      PROVE  V2Types'
  BY <1>5 DEF ChallengeDelivery, Accuse, V2Types, Fault, FaultClasses
<1>6. ASSUME NEW e \in Attestations, VerifyDelivery(e)
      PROVE  V2Types'
  BY <1>6 DEF VerifyDelivery, V2Types
<1> QED BY <1>1, <1>2, <1>3, <1>4, <1>5, <1>6 DEF NextV2, v2AllVars, WirePool

LEMMA FaultsStep ==
  ASSUME V2Inv, PayersInv', [NextV2]_v2AllVars
  PROVE  FaultIsProven'
<1>1. ASSUME UNCHANGED <<actions, actionDup, terms, faults>>,
             usedEvidence \subseteq usedEvidence'
      PROVE  FaultIsProven'
  BY <1>1, FrameKeepsRecord, FaultsKept
<1>2. CASE SharedNext /\ UNCHANGED v2Vars
  BY <1>2, SharedKeepsRecord, FaultsKept DEF v2Vars, V2Inv
<1>3. ASSUME NEW u \in Users, NEW class, WirePool(u) \/ RegisterVerifier(u, class)
      PROVE  FaultIsProven'
  BY <1>1, <1>3 DEF WirePool, SetPoolController, RegisterVerifier, v2Vars, ctlVars,
                    vars, poolVars
<1>4. ASSUME NEW u \in Users, NEW i \in InvoiceIds, AddInvoiceV2(u, i)
      PROVE  FaultIsProven'
  <2>1. /\ invoices[i].state = "None"
        /\ UNCHANGED <<actions, actionDup, faults, usedEvidence>>
    BY <1>4 DEF AddInvoiceV2, AddInvoice, SubmitInvoice, ctlVars
  <2>2. \A k \in InvoiceIds : invoices[k].state = "Paid" => terms'[k] = terms[k]
    BY <1>4, <2>1 DEF AddInvoiceV2, V2Inv, V2Types
  <2> QED BY <2>1, <2>2, FrameKeepsRecord, FaultsKept
<1>5. ASSUME NEW u \in Users, NEW id \in ActionIds, NEW e, ChallengeDuplicate(u, id, e)
      PROVE  FaultIsProven'
  BY <1>5, DuplicateChallengeProves
<1>6. ASSUME NEW u \in Users, NEW id \in ActionIds, NEW e \in Attestations,
             ChallengeDelivery(u, id, e)
      PROVE  FaultIsProven'
  BY <1>6, DeliveryChallengeProves
<1>7. ASSUME NEW e \in Attestations, VerifyDelivery(e)
      PROVE  FaultIsProven'
  BY <1>1, <1>7 DEF VerifyDelivery, vars, ctlVars, poolVars
<1>8. CASE UNCHANGED v2AllVars
  BY <1>1, <1>8 DEF v2AllVars, v2Vars, vars, ctlVars, poolVars
<1> QED BY <1>2, <1>3, <1>4, <1>5, <1>6, <1>7, <1>8 DEF NextV2

LEMMA V2Step == V2Inv /\ [NextV2]_v2AllVars => V2Inv'
<1> SUFFICES ASSUME V2Inv, [NextV2]_v2AllVars
             PROVE  V2Inv'
  OBVIOUS
<1>1. SuiteInv' /\ PayersInv'
  BY NextV2IsSuiteNext, SuiteStep, PayersStep DEF V2Inv
<1>2. V2Types'
  BY V2TypesStep DEF V2Inv
<1>3. FaultIsProven'
  BY <1>1, FaultsStep
<1> QED BY <1>1, <1>2, <1>3 DEF V2Inv

LEMMA V2Always == SpecV2 => []V2Inv
BY V2Start, V2Step, PTL DEF SpecV2, v2AllVars

-----------------------------------------------------------------------------
(***************************************************************************)
(* Type correctness of the deployed suite.                                 *)
(***************************************************************************)
THEOREM DeployedTypeCorrect == SpecV2 => []V2TypeOK
<1>1. V2Inv => V2TypeOK
  <2> SUFFICES ASSUME V2Inv
               PROVE  V2TypeOK
    OBVIOUS
  <2>1. TypeOK
    BY DEF V2Inv, SuiteInv, VaultInv, TypeOK
  <2>2. ASSUME NEW id \in ActionIds, faults[id] # NoFault
        PROVE  /\ faults[id].class \in FaultClasses
               /\ faults[id].evidence \in Attestations \cup {NoEvidence}
    <3>1. Accused(id)
      BY <2>2 DEF V2Inv, FaultIsProven
    <3>2. faults[id].class \in FaultClasses
      BY <3>1 DEF V2Inv, FaultIsProven, FaultClasses
    <3> QED BY <3>2 DEF V2Inv, V2Types, Fault
  <2> QED BY <2>1, <2>2 DEF V2Inv, V2Types, V2TypeOK
<1> QED BY <1>1, V2Always, PTL

(***************************************************************************)
(* Nobody loses a bond on an accuser's word, in every deployment: whoever  *)
(* calls the verifier or the challenge with whatever attestation, an       *)
(* accused action has paid a claim a second time, or has a consumed        *)
(* attestation of its own invoice against it.                              *)
(***************************************************************************)
THEOREM AccusedAreAtFault == SpecV2 => []FaultIsProven
<1>1. V2Inv => FaultIsProven
  BY DEF V2Inv
<1> QED BY <1>1, V2Always, PTL

(***************************************************************************)
(* The deployed suite mirrors its bonds in the vault as version 1 does.    *)
(***************************************************************************)
THEOREM DeployedVaultMirrors == SpecV2 => []VaultMirrorsActions
<1>1. V2Inv => VaultMirrorsActions
  BY DEF V2Inv, SuiteInv
<1> QED BY <1>1, V2Always, PTL

(***************************************************************************)
(* In the deployed suite, too, one action pays an invoice: no fault class  *)
(* opens a way to a second payment.                                        *)
(***************************************************************************)
THEOREM DeployedPaysOnce == SpecV2 => []PaidByOneAction
<1>1. V2Inv => PaidByOneAction
  BY PayersCounted DEF V2Inv
<1> QED BY <1>1, V2Always, PTL

(***************************************************************************)
(* And it is the same escrow: a bond is held once, returned whole or       *)
(* forfeited, and the reserve books what the challenger's share leaves.    *)
(***************************************************************************)
THEOREM DeployedIsEscrow == SpecV2 => ImplementsEscrow
<1>1. InitV2 => Escrow!EscrowInit
  BY EscrowStart DEF InitV2
<1>2. V2Inv /\ [NextV2]_v2AllVars => [Escrow!EscrowNext]_(Escrow!escrowVars)
  BY NextV2IsSuiteNext, EscrowStep DEF V2Inv
<1> QED BY <1>1, <1>2, V2Always, PTL
        DEF SpecV2, v2AllVars, ImplementsEscrow, Escrow!EscrowSpec
=============================================================================
