------------------------ MODULE BondsmanController ------------------------
(***************************************************************************)
(* The controller that takes an action through its life, and the contracts *)
(* it calls: contracts/bondsman_controller/src/bondsman_controller.rs with *)
(* the vault, the pool and the token.  An entry point and every contract   *)
(* call it makes are one transaction: one action below, and a revert       *)
(* anywhere leaves no step.                                                *)
(*                                                                         *)
(* The deployer is the party the contracts trust; here it wires the suite  *)
(* to itself (scripts/wire-v2.ts) and does not use the time before that to *)
(* call the vault as its placeholder controller.                           *)
(***************************************************************************)
EXTENDS BondVault, InvoicePool, FiniteSets
LOCAL INSTANCE Functions

CONSTANTS
  Controller,      \* the controller's own address
  PoolAtInstall,   \* the pool address given to the controller's init
  TokenUnit,       \* 10^9 motes of the token
  Window,          \* window_secs * 1000, in ms of block time
  ChallengerBps,   \* the challenger's share of a slashed bond
  Agents,          \* users that initiate actions (input bound)
  MaxTime,         \* bound on block time (see Tick)
  NoAddress        \* Option<Address>::None

ASSUME ControllerAssumption ==
  /\ Controller \in Accounts \ Users
  /\ PoolAtInstall \in Accounts
  /\ Pool # Vault
  /\ TokenUnit \in Nat
  /\ Window \in Nat
  /\ ChallengerBps \in 0..10000
  /\ Agents \subseteq Users
  /\ MaxTime \in Nat
  /\ NoAddress \notin Accounts

VARIABLES
  ctlPool,           \* the pool the controller calls
  ctlPoolFinalized,
  nextActionId,
  actions,           \* actions[id]; status "None" is an id not in the mapping
  reputation,
  blockTime

ctlVars == <<ctlPool, ctlPoolFinalized, nextActionId, actions, reputation>>

vars == <<tokenVars, vaultVars, poolVars, ctlVars, blockTime>>

Unsettled == {"Bonded", "Executed", "Challenged"}

ActionStatus ==
  {"Initiated", "ResolvedSlash", "ResolvedRefund"} \cup Unsettled

Action ==
  [agent: Users, invoiceId: InvoiceIds, claimHash: ClaimHashes, amount: Nat,
   bondRequired: Nat, bondPosted: Nat, windowEnd: Nat, status: ActionStatus,
   challenger: Users \cup {NoAddress}]

NotInMapping == [status |-> "None"]

Rep == [clean: Nat, slashed: Nat, score: Int]

CtlInit ==
  /\ ctlPool = PoolAtInstall
  /\ ctlPoolFinalized = FALSE
  /\ nextActionId = 0
  /\ actions = [id \in ActionIds |-> NotInMapping]
  /\ reputation = [u \in Users |-> [clean |-> 0, slashed |-> 0, score |-> 0]]
  /\ blockTime = 0

SetPool(caller, pool) ==
  /\ caller = Deployer
  /\ ~ctlPoolFinalized
  /\ ctlPool' = pool
  /\ ctlPoolFinalized' = TRUE
  /\ UNCHANGED <<tokenVars, vaultVars, poolVars, nextActionId, actions,
                 reputation, blockTime>>

(***************************************************************************)
(* The base tier grows with the amount; a negative score adds its          *)
(* magnitude in basis points, at most 300.  The U256 division floors.      *)
(***************************************************************************)
BaseBps(amount) ==
  IF amount >= 50000 * TokenUnit THEN 500
  ELSE IF amount >= 10000 * TokenUnit THEN 300
  ELSE 200

PenaltyBps(score) ==
  IF score >= 0 THEN 0 ELSE IF -score < 300 THEN -score ELSE 300

BondRequired(amount, agent) ==
  (amount * (BaseBps(amount) + PenaltyBps(reputation[agent].score))) \div 10000

(***************************************************************************)
(* Anyone may initiate, for any invoice id and claim: nothing is checked   *)
(* against the pool until execution.  The bond is fixed here.              *)
(***************************************************************************)
InitiateAction(agent, i, claimHash, amount) ==
  /\ nextActionId \in ActionIds
  /\ actions' = [actions EXCEPT ![nextActionId] =
       [agent |-> agent, invoiceId |-> i, claimHash |-> claimHash,
        amount |-> amount, bondRequired |-> BondRequired(amount, agent),
        bondPosted |-> 0, windowEnd |-> 0, status |-> "Initiated",
        challenger |-> NoAddress]]
  /\ nextActionId' = nextActionId + 1
  /\ UNCHANGED <<tokenVars, vaultVars, poolVars, ctlPool, ctlPoolFinalized,
                 reputation, blockTime>>

PostBond(caller, id) ==
  /\ actions[id].status = "Initiated"
  /\ caller = actions[id].agent
  /\ DepositAndLock(Controller, id, actions[id].agent, actions[id].bondRequired)
  /\ actions' = [actions EXCEPT ![id].bondPosted = actions[id].bondRequired,
                                ![id].status = "Bonded"]
  /\ UNCHANGED <<poolVars, ctlPool, ctlPoolFinalized, nextActionId, reputation,
                 blockTime>>

(***************************************************************************)
(* The pool pays the vendor in the same transaction that opens the window. *)
(***************************************************************************)
ExecuteAction(caller, id) ==
  /\ actions[id].status = "Bonded"
  /\ caller = actions[id].agent
  /\ actions[id].bondPosted >= actions[id].bondRequired
  /\ ctlPool = Pool
  /\ Payout(Controller, actions[id].invoiceId, id, actions[id].claimHash,
            actions[id].amount)
  /\ actions' = [actions EXCEPT ![id].windowEnd = blockTime + Window,
                                ![id].status = "Executed"]
  /\ UNCHANGED <<vaultVars, ctlPool, ctlPoolFinalized, nextActionId, reputation,
                 blockTime>>

WindowOpen(id) == blockTime <= actions[id].windowEnd

\* Mutant of Challengeable: whatever the status.
InWindow(id) == actions[id].status # "None" /\ WindowOpen(id)

Challengeable(id) == actions[id].status = "Executed" /\ WindowOpen(id)

ChallengeAction(challenger, id) ==
  /\ Challengeable(id)
  /\ ctlPool = Pool /\ IsActionDuplicate(id)
  /\ actions' = [actions EXCEPT ![id].challenger = challenger,
                                ![id].status = "Challenged"]
  /\ UNCHANGED <<tokenVars, vaultVars, poolVars, ctlPool, ctlPoolFinalized,
                 nextActionId, reputation, blockTime>>

\* Mutants of ReserveShare: the challenger's share; the difference turned round.
ChallengerShare(amount) == Reward(amount, ChallengerBps)

ReserveDebt(amount) == Reward(amount, ChallengerBps) - amount

ReserveShare(amount) == amount - Reward(amount, ChallengerBps)

RatedSlashed(agent) ==
  [reputation EXCEPT ![agent].slashed = @ + 1, ![agent].score = @ - 50]

RatedClean(agent) ==
  [reputation EXCEPT ![agent].clean = @ + 1, ![agent].score = @ + 10]

(***************************************************************************)
(* resolve_action, open to anyone: of a challenged action ...              *)
(***************************************************************************)
ResolveSlash(id) ==
  /\ actions[id].status = "Challenged"
  /\ actions[id].challenger # NoAddress
  /\ ctlPool = Pool
  /\ Slash(Controller, id, actions[id].challenger, ctlPool, ChallengerBps)
  /\ AddToReserve(Controller, ReserveShare(actions[id].bondPosted))
  /\ reputation' = RatedSlashed(actions[id].agent)
  /\ actions' = [actions EXCEPT ![id].status = "ResolvedSlash"]
  /\ UNCHANGED <<ctlPool, ctlPoolFinalized, nextActionId, blockTime>>

(***************************************************************************)
(* ... and of an executed one whose window has passed unchallenged.        *)
(***************************************************************************)
ResolveRefund(id) ==
  /\ actions[id].status = "Executed"
  /\ ~WindowOpen(id)
  /\ Release(Controller, id)
  /\ reputation' = RatedClean(actions[id].agent)
  /\ actions' = [actions EXCEPT ![id].status = "ResolvedRefund"]
  /\ UNCHANGED <<poolVars, ctlPool, ctlPoolFinalized, nextActionId, blockTime>>

(***************************************************************************)
(* Bound: after MaxTime the clock runs on only while a window is open, so  *)
(* that every window that opens also ends.                                 *)
(***************************************************************************)
Tick ==
  /\ \/ blockTime < MaxTime
     \/ \E id \in ActionIds : actions[id].status = "Executed" /\ WindowOpen(id)
  /\ blockTime' = blockTime + 1
  /\ UNCHANGED <<tokenVars, vaultVars, poolVars, ctlVars>>

-----------------------------------------------------------------------------
(***************************************************************************)
(* The deployer's set-up calls, in any order, and the invoices it submits. *)
(***************************************************************************)
WireVault(caller) ==
  /\ SetVaultController(caller, Controller)
  /\ UNCHANGED <<poolVars, ctlVars, blockTime>>

AddInvoice(caller, i) ==
  /\ \E amount \in InvoiceAmounts, vendor \in Vendors, h \in ClaimHashes :
       SubmitInvoice(caller, i, amount, vendor, h)
  /\ UNCHANGED <<vaultVars, ctlVars, blockTime>>

UseToken == TokenNext /\ UNCHANGED <<vaultVars, poolVars, ctlVars, blockTime>>

(***************************************************************************)
(* Everything the two versions of the suite have in common; they differ in *)
(* what an invoice records and in the challenge.                           *)
(***************************************************************************)
SharedNext ==
  \/ UseToken
  \/ \E u \in Users : WireVault(u) \/ SetPool(u, Pool)
  \/ \E a \in Agents, i \in InvoiceIds, h \in ClaimHashes,
        amount \in InvoiceAmounts : InitiateAction(a, i, h, amount)
  \/ \E u \in Users, id \in ActionIds : PostBond(u, id) \/ ExecuteAction(u, id)
  \/ \E id \in ActionIds : ResolveSlash(id) \/ ResolveRefund(id)
  \/ Tick

Next ==
  \/ SharedNext
  \/ \E u \in Users, i \in InvoiceIds : AddInvoice(u, i)
  \/ \E u \in Users, id \in ActionIds : ChallengeAction(u, id)

Init == TokenInit /\ VaultInit /\ PoolInit /\ CtlInit

Spec == Init /\ [][Next]_vars

(***************************************************************************)
(* Block time advances, and somebody keeps trying to resolve, since the    *)
(* entry point is open.  The listener retries only expired clean actions   *)
(* on a timer; a challenged one is left to whom it pays, the challenger.   *)
(***************************************************************************)
ResolveFairness ==
  /\ WF_vars(Tick)
  /\ \A id \in ActionIds : WF_vars(ResolveSlash(id)) /\ WF_vars(ResolveRefund(id))

FairSpec == Spec /\ ResolveFairness
-----------------------------------------------------------------------------
CtlTypeOK ==
  /\ ctlPool \in Accounts
  /\ ctlPoolFinalized \in BOOLEAN
  /\ nextActionId \in Nat
  /\ actions \in [ActionIds -> Action \cup {NotInMapping}]
  /\ reputation \in [Users -> Rep]
  /\ blockTime \in Nat

TypeOK == VaultTypeOK /\ PoolTypeOK /\ CtlTypeOK

Status(id) == actions[id].status

Paid(id) == Status(id) \in {"Executed", "Challenged", "ResolvedSlash", "ResolvedRefund"}

(***************************************************************************)
(* Two contracts, one story: the vault's bond of an action is locked       *)
(* exactly while the controller has it bonded and unsettled, and released  *)
(* or slashed exactly as the controller resolved it, for the agent and the *)
(* amount the controller recorded.                                         *)
(***************************************************************************)
BondStatusOf(status) ==
  CASE status \in {"None", "Initiated"} -> "None"
    [] status \in Unsettled             -> "Locked"
    [] status = "ResolvedRefund"        -> "Released"
    [] status = "ResolvedSlash"         -> "Slashed"

Mirrors(bond, action) ==
  /\ bond.status = BondStatusOf(action.status)
  /\ bond.status # "None" =>
       /\ bond.agent = action.agent
       /\ bond.amount = action.bondPosted
       /\ action.bondPosted = action.bondRequired

VaultMirrorsActions == \A id \in ActionIds : Mirrors(bonds[id], actions[id])

(***************************************************************************)
(* However many actions are initiated and bonded for one invoice, exactly  *)
(* one of them pays a paid invoice, and none an unpaid one.                *)
(***************************************************************************)
PaidByOneAction ==
  \A i \in InvoiceIds :
    LET payers == {id \in ActionIds : Paid(id) /\ actions[id].invoiceId = i}
    IN  Cardinality(payers) = IF invoices[i].state = "Paid" THEN 1 ELSE 0

(***************************************************************************)
(* An executed action is flagged as a duplicate exactly when some other    *)
(* action was the first to pay the same claim hash; that one has executed  *)
(* too, and is not flagged.  Hence a slash has a proven fault behind it    *)
(* and the first payer of a claim can never lose its bond.                 *)
(***************************************************************************)
FirstPayer(id) == paidClaims[actions[id].claimHash]

DuplicatesAreLaterPayers ==
  /\ \A id \in actionDup : Paid(id)
  /\ \A id \in ActionIds : Paid(id) =>
       /\ FirstPayer(id) \in ActionIds
       /\ Paid(FirstPayer(id))
       /\ actions[FirstPayer(id)].claimHash = actions[id].claimHash
       /\ id \in actionDup <=> FirstPayer(id) # id

(***************************************************************************)
(* Once an action has executed, its bond is returned or taken.             *)
(***************************************************************************)
ExecutedIsSettled ==
  \A id \in ActionIds :
    Status(id) \in {"Executed", "Challenged"} ~>
      Status(id) \in {"ResolvedSlash", "ResolvedRefund"}

(***************************************************************************)
(* The suite implements the escrow: the state of the stake is read off the *)
(* controller's status and its amount off bond_posted, while what is held  *)
(* is the vault's total and the reserve the pool's, so every step has to   *)
(* move the three contracts together.                                      *)
(***************************************************************************)
StakeState(status) ==
  CASE status \in {"None", "Initiated"} -> "none"
    [] status \in Unsettled             -> "held"
    [] status = "ResolvedRefund"        -> "returned"
    [] status = "ResolvedSlash"         -> "forfeited"

StakeOf(action) ==
  [state  |-> StakeState(action.status),
   amount |-> IF action.status = "None" THEN 0 ELSE action.bondPosted]

stakes == [id \in ActionIds |-> StakeOf(actions[id])]

Escrow ==
  INSTANCE BondEscrow WITH
    Ids <- ActionIds, Bps <- ChallengerBps,
    stake <- stakes,
    held <- totalLocked, reserve <- reserveBalance

ImplementsEscrow == Escrow!EscrowSpec
=============================================================================
