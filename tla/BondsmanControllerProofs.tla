---------------------- MODULE BondsmanControllerProofs ----------------------
(***************************************************************************)
(* Theorems about the version 1 suite for every deployment: any accounts,  *)
(* action ids, invoices, amounts, window and challenger's share.  The      *)
(* first part is the vault and the controller telling one story; the       *)
(* second is who is paid and who pays.                                     *)
(***************************************************************************)
EXTENDS BondsmanController, BondVaultProofs, FiniteSetTheorems

(***************************************************************************)
(* Ids not handed out yet are not in the mapping; without this fact an     *)
(* initiation could overwrite an action whose bond is locked.              *)
(***************************************************************************)
UnusedIds ==
  \A id \in ActionIds : id >= nextActionId => Status(id) = "None"

(***************************************************************************)
(* The inductive invariant.  The vault's own invariant carries its types   *)
(* and the solvency; the mirror needs the types of the actions and the     *)
(* unused ids, and a payout those of the invoices.                         *)
(***************************************************************************)
SuiteInv ==
  VaultInv /\ PoolTypeOK /\ CtlTypeOK /\ UnusedIds /\ VaultMirrorsActions

(***************************************************************************)
(* The steps of either version of the suite, as far as they concern the    *)
(* variables of this one: the versions differ in what a challenge asks of  *)
(* its evidence and in when the pool is wired.  The lemmas are about       *)
(* SuiteNext, so that the proofs of both versions cite them.               *)
(***************************************************************************)
Accusation(challenger, id) ==
  /\ Challengeable(id)
  /\ actions' = [actions EXCEPT ![id].challenger = challenger,
                                ![id].status = "Challenged"]
  /\ UNCHANGED <<tokenVars, vaultVars, poolVars, ctlPool, ctlPoolFinalized,
                 nextActionId, reputation, blockTime>>

PoolWired(caller) ==
  SetPoolController(caller, Controller) /\ UNCHANGED <<vaultVars, ctlVars, blockTime>>

SuiteNext ==
  \/ SharedNext
  \/ \E u \in Users, i \in InvoiceIds : AddInvoice(u, i)
  \/ \E u \in Users, id \in ActionIds : Accusation(u, id)
  \/ \E u \in Users : PoolWired(u)
  \/ UNCHANGED vars

LEMMA NextIsSuiteNext == [Next]_vars => SuiteNext
BY DEF Next, SuiteNext, ChallengeAction, Accusation

(***************************************************************************)
(* A penalty is at most 300 basis points, so the required bond is a        *)
(* natural number whatever the score.                                      *)
(***************************************************************************)
LEMMA BondRequiredNat ==
  ASSUME reputation \in [Users -> Rep], NEW agent \in Users, NEW amount \in Nat
  PROVE  BondRequired(amount, agent) \in Nat
<1> DEFINE bps == BaseBps(amount) + PenaltyBps(reputation[agent].score)
<1>1. reputation[agent].score \in Int
  BY DEF Rep
<1>2. BaseBps(amount) \in Nat
  BY DEF BaseBps
<1>3. PenaltyBps(reputation[agent].score) \in Nat
  BY <1>1 DEF PenaltyBps
<1>4. bps \in Nat
  BY <1>2, <1>3
<1> HIDE DEF bps
<1>5. amount * bps \in Nat
  BY <1>4
<1>6. ASSUME NEW p \in Nat PROVE (p \div 10000) \in Nat
  OBVIOUS
<1>7. (amount * bps) \div 10000 \in Nat
  BY <1>5, <1>6
<1> QED BY <1>7 DEF BondRequired, bps

(***************************************************************************)
(* The state of the bond that goes with each status of an action.          *)
(***************************************************************************)
LEMMA BondStatuses ==
  /\ BondStatusOf("None") = "None"
  /\ BondStatusOf("Initiated") = "None"
  /\ BondStatusOf("Bonded") = "Locked"
  /\ BondStatusOf("Executed") = "Locked"
  /\ BondStatusOf("Challenged") = "Locked"
  /\ BondStatusOf("ResolvedRefund") = "Released"
  /\ BondStatusOf("ResolvedSlash") = "Slashed"
BY DEF BondStatusOf, Unsettled

LEMMA SuiteInit == Init => SuiteInv
<1> SUFFICES ASSUME Init
             PROVE  SuiteInv
  OBVIOUS
<1>1. VaultInv
  BY VaultInitInv DEF Init
<1>2. PoolTypeOK
  BY PoolAssumption DEF Init, PoolInit, PoolTypeOK, Invoice
<1>3. CtlTypeOK
  <2>1. reputation \in [Users -> Rep]
    BY DEF Init, CtlInit, Rep
  <2>2. actions \in [ActionIds -> Action \cup {NotInMapping}]
    BY DEF Init, CtlInit
  <2>3. /\ ctlPool = PoolAtInstall
        /\ ctlPoolFinalized = FALSE
        /\ nextActionId = 0
        /\ blockTime = 0
    BY DEF Init, CtlInit
  <2>4. PoolAtInstall \in Accounts
    BY ControllerAssumption
  <2> QED BY <2>1, <2>2, <2>3, <2>4 DEF CtlTypeOK
<1>4. UnusedIds
  BY DEF Init, CtlInit, UnusedIds, Status, NotInMapping
<1>5. VaultMirrorsActions
  <2>1. ASSUME NEW id \in ActionIds
        PROVE  bonds[id].status = "None" /\ actions[id].status = "None"
    BY DEF Init, CtlInit, VaultInit, NotInMapping
  <2> QED BY <2>1, BondStatuses DEF VaultMirrorsActions, Mirrors
<1> QED BY <1>1, <1>2, <1>3, <1>4, <1>5 DEF SuiteInv

(***************************************************************************)
(* An id whose status is not "None" is in the mapping.                     *)
(***************************************************************************)
LEMMA InMapping ==
  ASSUME SuiteInv, NEW id \in ActionIds, Status(id) # "None"
  PROVE  actions[id] \in Action
BY DEF SuiteInv, CtlTypeOK, Status, NotInMapping

(***************************************************************************)
(* What the steps of an action in the mapping have in common: they replace *)
(* that action and at most that bond, so the mirror has to be shown for    *)
(* the two of them only.                                                   *)
(***************************************************************************)
LEMMA UpdateInv ==
  ASSUME SuiteInv, NEW id \in ActionIds, Status(id) # "None",
         NEW new \in Action,
         actions' = [actions EXCEPT ![id] = new],
         \A k \in ActionIds : k # id => bonds'[k] = bonds[k],
         Mirrors(bonds'[id], new),
         VaultInv', PoolTypeOK',
         UNCHANGED <<ctlPool, ctlPoolFinalized, nextActionId, blockTime>>,
         reputation' \in [Users -> Rep]
  PROVE  SuiteInv'
<1>1. actions'[id] = new /\ \A k \in ActionIds : k # id => actions'[k] = actions[k]
  BY DEF SuiteInv, CtlTypeOK
<1>2. CtlTypeOK'
  BY DEF SuiteInv, CtlTypeOK
<1>3. UnusedIds'
  BY <1>1 DEF SuiteInv, UnusedIds, Status
<1>4. VaultMirrorsActions'
  <2> SUFFICES ASSUME NEW k \in ActionIds
               PROVE  Mirrors(bonds'[k], actions'[k])
    BY DEF VaultMirrorsActions, Mirrors, BondStatusOf
  <2> QED BY <1>1 DEF SuiteInv, VaultMirrorsActions
<1> QED BY <1>2, <1>3, <1>4 DEF SuiteInv

(***************************************************************************)
(* The vault's invariant and the pool's types depend on their own          *)
(* contracts' variables only.                                              *)
(***************************************************************************)
LEMMA VaultFrame == VaultInv /\ UNCHANGED <<tokenVars, vaultVars>> => VaultInv'
BY DEF VaultInv, VaultTypeOK, TokenTypeOK, VaultSolvent, tokenVars, vaultVars

LEMMA PoolFrame == PoolTypeOK /\ UNCHANGED poolVars => PoolTypeOK'
BY DEF PoolTypeOK, poolVars

LEMMA InitiateInv ==
  ASSUME SuiteInv, NEW agent \in Users, NEW i \in InvoiceIds,
         NEW h \in ClaimHashes, NEW amount \in Nat,
         InitiateAction(agent, i, h, amount)
  PROVE  SuiteInv'
<1> DEFINE id == nextActionId
           new == [agent |-> agent, invoiceId |-> i, claimHash |-> h,
                   amount |-> amount, bondRequired |-> BondRequired(amount, agent),
                   bondPosted |-> 0, windowEnd |-> 0, status |-> "Initiated",
                   challenger |-> NoAddress]
<1>1. /\ id \in ActionIds
      /\ actions' = [actions EXCEPT ![id] = new]
      /\ nextActionId' = id + 1
      /\ UNCHANGED <<tokenVars, vaultVars, poolVars, ctlPool, ctlPoolFinalized,
                     reputation, blockTime>>
  BY DEF InitiateAction
<1>2. new \in Action
  BY BondRequiredNat DEF SuiteInv, CtlTypeOK, Action, ActionStatus
<1>3. VaultInv' /\ PoolTypeOK'
  BY <1>1, VaultFrame, PoolFrame DEF SuiteInv
<1>4. CtlTypeOK'
  BY <1>1, <1>2 DEF SuiteInv, CtlTypeOK
<1>5. UnusedIds'
  BY <1>1, AccountsAssumption DEF SuiteInv, CtlTypeOK, UnusedIds, Status
<1>6. VaultMirrorsActions'
  <2> SUFFICES ASSUME NEW k \in ActionIds
               PROVE  Mirrors(bonds'[k], actions'[k])
    BY DEF VaultMirrorsActions, Mirrors, BondStatusOf
  <2>1. bonds'[k] = bonds[k]
    BY <1>1 DEF vaultVars
  <2>2. CASE k = id
    <3>1. Status(k) = "None"
      BY <2>2, <1>1 DEF SuiteInv, CtlTypeOK, UnusedIds
    <3>2. bonds[k].status = "None"
      BY <3>1, BondStatuses DEF SuiteInv, VaultMirrorsActions, Mirrors, Status
    <3>3. actions'[k].status = "Initiated"
      BY <2>2, <1>1 DEF SuiteInv, CtlTypeOK
    <3> QED BY <2>1, <3>2, <3>3, BondStatuses DEF Mirrors
  <2>3. CASE k # id
    <3>1. actions'[k] = actions[k]
      BY <2>3, <1>1 DEF SuiteInv, CtlTypeOK
    <3> QED BY <2>1, <3>1 DEF SuiteInv, VaultMirrorsActions
  <2> QED BY <2>2, <2>3
<1> QED BY <1>3, <1>4, <1>5, <1>6 DEF SuiteInv

LEMMA PostBondInv ==
  ASSUME SuiteInv, NEW caller \in Users, NEW id \in ActionIds,
         PostBond(caller, id)
  PROVE  SuiteInv'
<1> DEFINE old == actions[id]
           new == [old EXCEPT !.bondPosted = old.bondRequired, !.status = "Bonded"]
<1>1. /\ Status(id) = "Initiated"
      /\ DepositAndLock(Controller, id, old.agent, old.bondRequired)
      /\ actions' = [actions EXCEPT ![id] = new]
      /\ UNCHANGED <<poolVars, ctlPool, ctlPoolFinalized, nextActionId,
                     reputation, blockTime>>
  BY DEF PostBond, Status
<1>2. old \in Action
  BY <1>1, InMapping
<1>3. /\ new \in Action
      /\ old.agent \in Accounts
      /\ old.bondRequired \in Nat
      /\ new.status = "Bonded" /\ new.agent = old.agent
      /\ new.bondPosted = old.bondRequired /\ new.bondRequired = old.bondRequired
  BY <1>2, AccountsAssumption DEF Action, ActionStatus, Unsettled
<1> HIDE DEF old, new
<1>4. VaultInv'
  BY <1>1, <1>3, DepositInv, ControllerAssumption DEF SuiteInv
<1>5. /\ bonds'[id] = [agent |-> old.agent, amount |-> old.bondRequired,
                       status |-> "Locked"]
      /\ \A k \in ActionIds : k # id => bonds'[k] = bonds[k]
  BY <1>1 DEF DepositAndLock, SuiteInv, VaultInv, VaultTypeOK
<1>6. Mirrors(bonds'[id], new)
  BY <1>3, <1>5, BondStatuses DEF Mirrors
<1>7. PoolTypeOK' /\ reputation' \in [Users -> Rep]
  BY <1>1, PoolFrame DEF SuiteInv, CtlTypeOK
<1> QED BY <1>1, <1>3, <1>4, <1>5, <1>6, <1>7, UpdateInv

(***************************************************************************)
(* A payout touches the pool's tokens, never the vault's.                  *)
(***************************************************************************)
LEMMA PayoutInv ==
  ASSUME VaultInv, PoolTypeOK, NEW caller \in Accounts, NEW i \in InvoiceIds,
         NEW id \in ActionIds, NEW h \in ClaimHashes, NEW amount \in Nat,
         Payout(caller, i, id, h, amount), UNCHANGED vaultVars
  PROVE  VaultInv' /\ PoolTypeOK'
<1> DEFINE vendor == invoices[i].vendor
<1>1. /\ invoices[i].state = "Unpaid"
      /\ CanMove(balances, Pool, vendor, amount)
      /\ balances' = Moved(balances, Pool, vendor, amount)
      /\ UNCHANGED <<allowances, totalSupply>>
      /\ RecordClaim(id, h)
      /\ invoices' = [invoices EXCEPT ![i].state = "Paid"]
      /\ UNCHANGED <<poolController, poolFinalized, reserveBalance>>
  BY DEF Payout, Payable, Transfer
<1>2. invoices[i] \in [amount: Nat, vendor: Accounts, claimHash: ClaimHashes,
                       state: {"Unpaid", "Paid"}]
  BY <1>1 DEF PoolTypeOK, Invoice
<1>3. vendor \in Accounts /\ Pool \in Accounts /\ Vault \in Accounts /\ Pool # Vault
  BY <1>2, PoolAssumption, VaultAssumption, ControllerAssumption
<1>4. balances \in [Accounts -> Nat]
  BY DEF VaultInv, VaultTypeOK, TokenTypeOK
<1>5. VaultInv'
  <2> HIDE DEF vendor
  <2>1. balances' \in [Accounts -> Nat]
    BY <1>1, <1>3, <1>4, MovedBalances
  <2>2. balances'[Vault] >= balances[Vault]
    <3>1. CASE vendor = Vault
      BY <3>1, <1>1, <1>3, <1>4, MovedBalances
    <3>2. CASE vendor # Vault
      BY <3>2, <1>1, <1>3, <1>4 DEF Moved
    <3> QED BY <3>1, <3>2
  <2>3. balances[Vault] \in Nat /\ balances'[Vault] \in Nat
    BY <2>1, <1>3, <1>4
  <2>4. TokenTypeOK'
    BY <1>1, <2>1 DEF VaultInv, VaultTypeOK, TokenTypeOK
  <2> QED BY <2>2, <2>3, <2>4 DEF VaultInv, VaultTypeOK, VaultSolvent, vaultVars
<1>6. PoolTypeOK'
  <2>1. invoices' \in [InvoiceIds -> Invoice]
    <3>1. [invoices[i] EXCEPT !.state = "Paid"] \in Invoice
      BY <1>2 DEF Invoice
    <3> QED BY <1>1, <3>1 DEF PoolTypeOK
  <2>2. /\ paidClaims' \in [ClaimHashes -> ActionIds \cup {NoAction}]
        /\ actionDup' \subseteq ActionIds
    BY <1>1 DEF PoolTypeOK, RecordClaim
  <2> QED BY <1>1, <2>1, <2>2 DEF PoolTypeOK
<1> QED BY <1>5, <1>6

LEMMA ExecuteInv ==
  ASSUME SuiteInv, NEW caller \in Users, NEW id \in ActionIds,
         ExecuteAction(caller, id)
  PROVE  SuiteInv'
<1> DEFINE old == actions[id]
           new == [old EXCEPT !.windowEnd = blockTime + Window,
                              !.status = "Executed"]
<1>1. /\ Status(id) = "Bonded"
      /\ Payout(Controller, old.invoiceId, id, old.claimHash, old.amount)
      /\ actions' = [actions EXCEPT ![id] = new]
      /\ UNCHANGED <<vaultVars, ctlPool, ctlPoolFinalized, nextActionId,
                     reputation, blockTime>>
  BY DEF ExecuteAction, Status
<1>2. old \in Action
  BY <1>1, InMapping
<1>3. blockTime + Window \in Nat
  BY ControllerAssumption DEF SuiteInv, CtlTypeOK
<1>4. /\ new \in Action
      /\ new.status = "Executed" /\ new.agent = old.agent
      /\ new.bondPosted = old.bondPosted /\ new.bondRequired = old.bondRequired
  BY <1>2, <1>3 DEF Action, ActionStatus, Unsettled
<1>5. /\ old.invoiceId \in InvoiceIds
      /\ old.claimHash \in ClaimHashes
      /\ old.amount \in Nat
  BY <1>2 DEF Action
<1>6. bonds' = bonds /\ Mirrors(bonds[id], old) /\ old.status = "Bonded"
  BY <1>1 DEF vaultVars, SuiteInv, VaultMirrorsActions, Status
<1> HIDE DEF old, new
<1>7. VaultInv' /\ PoolTypeOK'
  BY <1>1, <1>5, PayoutInv, ControllerAssumption DEF SuiteInv
<1>8. Mirrors(bonds'[id], new)
  BY <1>4, <1>6, BondStatuses DEF Mirrors
<1>9. reputation' \in [Users -> Rep]
  BY <1>1 DEF SuiteInv, CtlTypeOK
<1> QED BY <1>1, <1>4, <1>6, <1>7, <1>8, <1>9, UpdateInv

LEMMA ChallengeInv ==
  ASSUME SuiteInv, NEW challenger \in Users, NEW id \in ActionIds,
         Accusation(challenger, id)
  PROVE  SuiteInv'
<1> DEFINE old == actions[id]
           new == [old EXCEPT !.challenger = challenger, !.status = "Challenged"]
<1>1. /\ Status(id) = "Executed"
      /\ actions' = [actions EXCEPT ![id] = new]
      /\ UNCHANGED <<tokenVars, vaultVars, poolVars, ctlPool, ctlPoolFinalized,
                     nextActionId, reputation, blockTime>>
  BY DEF Accusation, Challengeable, Status
<1>2. old \in Action
  BY <1>1, InMapping
<1>3. /\ new \in Action
      /\ new.status = "Challenged" /\ new.agent = old.agent
      /\ new.bondPosted = old.bondPosted /\ new.bondRequired = old.bondRequired
  BY <1>2 DEF Action, ActionStatus, Unsettled
<1>4. bonds' = bonds /\ Mirrors(bonds[id], old) /\ old.status = "Executed"
  BY <1>1 DEF vaultVars, SuiteInv, VaultMirrorsActions, Status
<1> HIDE DEF old, new
<1>5. Mirrors(bonds'[id], new)
  BY <1>3, <1>4, BondStatuses DEF Mirrors
<1>6. VaultInv' /\ PoolTypeOK' /\ reputation' \in [Users -> Rep]
  BY <1>1, VaultFrame, PoolFrame DEF SuiteInv, CtlTypeOK
<1> QED BY <1>1, <1>3, <1>4, <1>5, <1>6, UpdateInv

(***************************************************************************)
(* Settling changes the status of the one bond and nothing else of it.     *)
(***************************************************************************)
LEMMA SettledBond ==
  ASSUME VaultInv, NEW id \in ActionIds, NEW status, Settle(id, status)
  PROVE  /\ bonds'[id].status = status
         /\ bonds'[id].agent = bonds[id].agent
         /\ bonds'[id].amount = bonds[id].amount
         /\ \A k \in ActionIds : k # id => bonds'[k] = bonds[k]
BY DEF Settle, VaultInv, VaultTypeOK, Bond

LEMMA RefundInv ==
  ASSUME SuiteInv, NEW id \in ActionIds, ResolveRefund(id)
  PROVE  SuiteInv'
<1> DEFINE old == actions[id]
           new == [old EXCEPT !.status = "ResolvedRefund"]
<1>1. /\ Status(id) = "Executed"
      /\ Release(Controller, id)
      /\ reputation' = [reputation EXCEPT ![old.agent].clean = @ + 1,
                                          ![old.agent].score = @ + 10]
      /\ actions' = [actions EXCEPT ![id] = new]
      /\ UNCHANGED <<poolVars, ctlPool, ctlPoolFinalized, nextActionId,
                     blockTime>>
  BY DEF ResolveRefund, RatedClean, Status
<1>2. old \in Action
  BY <1>1, InMapping
<1>3. /\ new \in Action
      /\ new.status = "ResolvedRefund" /\ new.agent = old.agent
      /\ new.bondPosted = old.bondPosted /\ new.bondRequired = old.bondRequired
  BY <1>2 DEF Action, ActionStatus, Unsettled
<1>4. Mirrors(bonds[id], old) /\ old.status = "Executed"
  BY <1>1 DEF SuiteInv, VaultMirrorsActions, Status
<1>5. reputation' \in [Users -> Rep]
  BY <1>1, <1>2 DEF SuiteInv, CtlTypeOK, Rep, Action
<1> HIDE DEF old, new
<1>6. VaultInv'
  <2>1. VaultInv /\ Controller \in Accounts /\ Release(Controller, id)
    BY <1>1, ControllerAssumption DEF SuiteInv
  <2> QED BY <2>1, ReleaseInv
<1>7. /\ bonds'[id].status = "Released"
      /\ bonds'[id].agent = bonds[id].agent
      /\ bonds'[id].amount = bonds[id].amount
      /\ \A k \in ActionIds : k # id => bonds'[k] = bonds[k]
  BY <1>1, SettledBond DEF Release, SuiteInv
<1>8. Mirrors(bonds'[id], new)
  BY <1>3, <1>4, <1>7, BondStatuses DEF Mirrors
<1>9. PoolTypeOK'
  BY <1>1, PoolFrame DEF SuiteInv
<1> QED BY <1>1, <1>3, <1>5, <1>6, <1>7, <1>8, <1>9, UpdateInv

LEMMA SlashResolveInv ==
  ASSUME SuiteInv, NEW id \in ActionIds, ResolveSlash(id)
  PROVE  SuiteInv'
<1> DEFINE old  == actions[id]
           new  == [old EXCEPT !.status = "ResolvedSlash"]
           kept == old.bondPosted - Reward(old.bondPosted, ChallengerBps)
<1>1. /\ Status(id) = "Challenged"
      /\ old.challenger # NoAddress
      /\ Slash(Controller, id, old.challenger, ctlPool, ChallengerBps)
      /\ AddToReserve(Controller, kept)
      /\ reputation' = [reputation EXCEPT ![old.agent].slashed = @ + 1,
                                          ![old.agent].score = @ - 50]
      /\ actions' = [actions EXCEPT ![id] = new]
      /\ UNCHANGED <<ctlPool, ctlPoolFinalized, nextActionId, blockTime>>
  BY DEF ResolveSlash, ReserveShare, RatedSlashed, Status
<1>2. old \in Action
  BY <1>1, InMapping
<1>3. /\ new \in Action
      /\ new.status = "ResolvedSlash" /\ new.agent = old.agent
      /\ new.bondPosted = old.bondPosted /\ new.bondRequired = old.bondRequired
  BY <1>2 DEF Action, ActionStatus, Unsettled
<1>4. Mirrors(bonds[id], old) /\ old.status = "Challenged"
  BY <1>1 DEF SuiteInv, VaultMirrorsActions, Status
<1>5. reputation' \in [Users -> Rep]
  BY <1>1, <1>2 DEF SuiteInv, CtlTypeOK, Rep, Action
<1>6. kept \in Nat
  <2>1. old.bondPosted \in Nat /\ ChallengerBps \in Nat /\ ChallengerBps <= 10000
    BY <1>2, ControllerAssumption DEF Action
  <2>2. /\ Reward(old.bondPosted, ChallengerBps) \in Nat
        /\ Reward(old.bondPosted, ChallengerBps) <= old.bondPosted
    BY <2>1, RewardBound
  <2> QED BY <2>1, <2>2
<1>7. old.challenger \in Accounts /\ ChallengerBps \in Nat
  <2>1. old.challenger \in Users
    BY <1>1, <1>2 DEF Action
  <2> QED BY <2>1, AccountsAssumption, ControllerAssumption
<1> HIDE DEF old, new, kept
<1>8. VaultInv'
  <2>1. VaultInv /\ Controller \in Accounts
    BY ControllerAssumption DEF SuiteInv
  <2>2. ctlPool \in Accounts
    BY DEF SuiteInv, CtlTypeOK
  <2>3. Slash(Controller, id, old.challenger, ctlPool, ChallengerBps)
    BY <1>1
  <2> QED BY <1>7, <2>1, <2>2, <2>3, SlashInv
<1>9. /\ bonds'[id].status = "Slashed"
      /\ bonds'[id].agent = bonds[id].agent
      /\ bonds'[id].amount = bonds[id].amount
      /\ \A k \in ActionIds : k # id => bonds'[k] = bonds[k]
  BY <1>1, SettledBond DEF Slash, SuiteInv
<1>10. Mirrors(bonds'[id], new)
  BY <1>3, <1>4, <1>9, BondStatuses DEF Mirrors
<1>11. PoolTypeOK'
  BY <1>1, <1>6 DEF SuiteInv, PoolTypeOK, AddToReserve
<1> QED BY <1>1, <1>3, <1>5, <1>8, <1>9, <1>10, <1>11, UpdateInv

(***************************************************************************)
(* The deployer's calls, the users' own use of the token, and time leave   *)
(* the actions and the bonds alone.                                        *)
(***************************************************************************)
LEMMA MirrorFrame ==
  ASSUME SuiteInv, UNCHANGED <<bonds, actions, nextActionId>>,
         VaultInv', PoolTypeOK', CtlTypeOK'
  PROVE  SuiteInv'
<1>1. UnusedIds'
  BY DEF SuiteInv, UnusedIds, Status
<1>2. VaultMirrorsActions'
  <2> SUFFICES ASSUME NEW k \in ActionIds
               PROVE  Mirrors(bonds'[k], actions'[k])
    BY DEF VaultMirrorsActions, Mirrors, BondStatusOf
  <2> QED BY DEF SuiteInv, VaultMirrorsActions
<1> QED BY <1>1, <1>2 DEF SuiteInv

LEMMA CtlFrame ==
  CtlTypeOK /\ UNCHANGED <<ctlVars, blockTime>> => CtlTypeOK'
BY DEF CtlTypeOK, ctlVars

LEMMA UseTokenInv == SuiteInv /\ UseToken => SuiteInv'
<1> SUFFICES ASSUME SuiteInv, UseToken
             PROVE  SuiteInv'
  OBVIOUS
<1>1. TokenNext /\ UNCHANGED <<vaultVars, poolVars, ctlVars, blockTime>>
  BY DEF UseToken
<1>2. VaultInv'
  BY <1>1, TokenStepInv DEF SuiteInv
<1>3. PoolTypeOK' /\ CtlTypeOK'
  BY <1>1, PoolFrame, CtlFrame DEF SuiteInv
<1> QED BY <1>1, <1>2, <1>3, MirrorFrame DEF vaultVars, ctlVars

LEMMA WireVaultInv ==
  ASSUME SuiteInv, NEW caller \in Users, WireVault(caller)
  PROVE  SuiteInv'
<1>1. /\ SetVaultController(caller, Controller)
      /\ UNCHANGED <<poolVars, ctlVars, blockTime>>
  BY DEF WireVault
<1>2. VaultInv'
  BY <1>1, SetVaultControllerInv, AccountsAssumption, ControllerAssumption
     DEF SuiteInv
<1>3. PoolTypeOK' /\ CtlTypeOK'
  BY <1>1, PoolFrame, CtlFrame DEF SuiteInv
<1> QED BY <1>1, <1>2, <1>3, MirrorFrame DEF SetVaultController, ctlVars

LEMMA SetPoolInv ==
  ASSUME SuiteInv, NEW caller \in Users, SetPool(caller, Pool)
  PROVE  SuiteInv'
<1>1. /\ ctlPool' = Pool /\ ctlPoolFinalized' = TRUE
      /\ UNCHANGED <<tokenVars, vaultVars, poolVars, nextActionId, actions,
                     reputation, blockTime>>
  BY DEF SetPool
<1>2. VaultInv' /\ PoolTypeOK'
  BY <1>1, VaultFrame, PoolFrame DEF SuiteInv
<1>3. CtlTypeOK'
  BY <1>1, PoolAssumption DEF SuiteInv, CtlTypeOK
<1> QED BY <1>1, <1>2, <1>3, MirrorFrame DEF vaultVars

LEMMA AddInvoiceInv ==
  ASSUME SuiteInv, NEW caller \in Users, NEW i \in InvoiceIds,
         AddInvoice(caller, i)
  PROVE  SuiteInv'
<1>1. PICK amount \in InvoiceAmounts, vendor \in Vendors, h \in ClaimHashes :
        SubmitInvoice(caller, i, amount, vendor, h)
  BY DEF AddInvoice
<1>2. /\ invoices' = [invoices EXCEPT ![i] =
           [amount |-> amount, vendor |-> vendor, claimHash |-> h,
            state |-> "Unpaid"]]
      /\ UNCHANGED <<poolController, poolFinalized, paidClaims, actionDup,
                     reserveBalance, tokenVars, vaultVars, ctlVars, blockTime>>
  BY <1>1 DEF SubmitInvoice, AddInvoice
<1>3. [amount |-> amount, vendor |-> vendor, claimHash |-> h, state |-> "Unpaid"]
        \in Invoice
  BY PoolAssumption, AccountsAssumption DEF Invoice
<1>4. PoolTypeOK'
  BY <1>2, <1>3 DEF SuiteInv, PoolTypeOK
<1>5. VaultInv' /\ CtlTypeOK'
  BY <1>2, VaultFrame, CtlFrame DEF SuiteInv
<1> QED BY <1>2, <1>4, <1>5, MirrorFrame DEF vaultVars, ctlVars

LEMMA PoolWiredInv ==
  ASSUME SuiteInv, NEW caller \in Users, PoolWired(caller)
  PROVE  SuiteInv'
<1>1. /\ poolController' = Controller /\ poolFinalized' = TRUE
      /\ UNCHANGED <<invoices, paidClaims, actionDup, reserveBalance, tokenVars,
                     vaultVars, ctlVars, blockTime>>
  BY DEF PoolWired, SetPoolController
<1>2. VaultInv' /\ CtlTypeOK'
  BY <1>1, VaultFrame, CtlFrame DEF SuiteInv
<1>3. PoolTypeOK'
  BY <1>1, ControllerAssumption DEF SuiteInv, PoolTypeOK
<1> QED BY <1>1, <1>2, <1>3, MirrorFrame DEF vaultVars, ctlVars

LEMMA TickInv == SuiteInv /\ Tick => SuiteInv'
<1> SUFFICES ASSUME SuiteInv, Tick
             PROVE  SuiteInv'
  OBVIOUS
<1>1. blockTime' = blockTime + 1 /\ UNCHANGED <<tokenVars, vaultVars, poolVars, ctlVars>>
  BY DEF Tick
<1>2. VaultInv' /\ PoolTypeOK'
  BY <1>1, VaultFrame, PoolFrame DEF SuiteInv
<1>3. CtlTypeOK'
  BY <1>1 DEF SuiteInv, CtlTypeOK, ctlVars
<1> QED BY <1>1, <1>2, <1>3, MirrorFrame DEF vaultVars, ctlVars

LEMMA SuiteStep == SuiteInv /\ SuiteNext => SuiteInv'
<1> SUFFICES ASSUME SuiteInv, SuiteNext
             PROVE  SuiteInv'
  OBVIOUS
<1>1. CASE UseToken
  BY <1>1, UseTokenInv
<1>2. ASSUME NEW u \in Users, WireVault(u)
      PROVE  SuiteInv'
  BY <1>2, WireVaultInv
<1>3. ASSUME NEW u \in Users, SetPool(u, Pool)
      PROVE  SuiteInv'
  BY <1>3, SetPoolInv
<1>4. ASSUME NEW a \in Agents, NEW i \in InvoiceIds, NEW h \in ClaimHashes,
             NEW amount \in InvoiceAmounts, InitiateAction(a, i, h, amount)
      PROVE  SuiteInv'
  BY <1>4, InitiateInv, PoolAssumption, ControllerAssumption
<1>5. ASSUME NEW u \in Users, NEW id \in ActionIds, PostBond(u, id)
      PROVE  SuiteInv'
  BY <1>5, PostBondInv
<1>6. ASSUME NEW u \in Users, NEW id \in ActionIds, ExecuteAction(u, id)
      PROVE  SuiteInv'
  BY <1>6, ExecuteInv
<1>7. ASSUME NEW u \in Users, NEW id \in ActionIds, Accusation(u, id)
      PROVE  SuiteInv'
  BY <1>7, ChallengeInv
<1>8. ASSUME NEW id \in ActionIds, ResolveSlash(id)
      PROVE  SuiteInv'
  BY <1>8, SlashResolveInv
<1>9. ASSUME NEW id \in ActionIds, ResolveRefund(id)
      PROVE  SuiteInv'
  BY <1>9, RefundInv
<1>10. ASSUME NEW u \in Users, NEW i \in InvoiceIds, AddInvoice(u, i)
       PROVE  SuiteInv'
  BY <1>10, AddInvoiceInv
<1>11. CASE Tick
  BY <1>11, TickInv
<1>12. CASE UNCHANGED vars
  <2>1. UNCHANGED <<tokenVars, vaultVars>> /\ UNCHANGED poolVars
        /\ UNCHANGED <<ctlVars, blockTime>>
    BY <1>12 DEF vars
  <2>2. VaultInv' /\ PoolTypeOK' /\ CtlTypeOK'
    BY <2>1, VaultFrame, PoolFrame, CtlFrame DEF SuiteInv
  <2> QED BY <2>1, <2>2, MirrorFrame DEF vaultVars, ctlVars
<1>13. ASSUME NEW u \in Users, PoolWired(u)
       PROVE  SuiteInv'
  BY <1>13, PoolWiredInv
<1> QED BY <1>1, <1>2, <1>3, <1>4, <1>5, <1>6, <1>7, <1>8, <1>9, <1>10, <1>11,
           <1>12, <1>13 DEF SuiteNext, SharedNext

(***************************************************************************)
(* Type correctness of the whole suite.                                    *)
(***************************************************************************)
THEOREM SuiteTypeCorrect == Spec => []TypeOK
<1>1. SuiteInv => TypeOK
  BY DEF SuiteInv, VaultInv, TypeOK
<1> QED BY <1>1, SuiteInit, SuiteStep, NextIsSuiteNext, PTL DEF Spec

(***************************************************************************)
(* The vault and the controller, two contracts with two mappings, never    *)
(* disagree about a bond: it is locked exactly while its action is bonded  *)
(* and unsettled, and settled the way the controller resolved it, for the  *)
(* agent and the amount the controller recorded.                           *)
(***************************************************************************)
THEOREM VaultAlwaysMirrors == Spec => []VaultMirrorsActions
<1>1. SuiteInv => VaultMirrorsActions
  BY DEF SuiteInv
<1> QED BY <1>1, SuiteInit, SuiteStep, NextIsSuiteNext, PTL DEF Spec

(***************************************************************************)
(* Composed with the controller the vault stays solvent as well.           *)
(***************************************************************************)
THEOREM SuiteAlwaysSolvent == Spec => []VaultSolvent
<1>1. SuiteInv => VaultSolvent
  BY DEF SuiteInv, VaultInv
<1> QED BY <1>1, SuiteInit, SuiteStep, NextIsSuiteNext, PTL DEF Spec
-----------------------------------------------------------------------------
(***************************************************************************)
(* Who is paid, and who pays: one action pays an invoice, the duplicates   *)
(* of a claim are its later payers, and a settlement takes exactly the     *)
(* bond out of the vault.                                                  *)
(***************************************************************************)
PaidStatus == {"Executed", "Challenged", "ResolvedSlash", "ResolvedRefund"}

Payers(i) == {id \in ActionIds : Paid(id) /\ actions[id].invoiceId = i}

(***************************************************************************)
(* A claim on record names an action that has paid it.  Without this the   *)
(* flag of a new payer could point at an action that is no payer.          *)
(***************************************************************************)
RecordedPayers ==
  \A h \in ClaimHashes :
    paidClaims[h] # NoAction =>
      /\ paidClaims[h] \in ActionIds
      /\ Paid(paidClaims[h])
      /\ actions[paidClaims[h]].claimHash = h

InvoicePaidOnce ==
  \A i \in InvoiceIds :
    IF invoices[i].state = "Paid"
    THEN \E id \in ActionIds : Payers(i) = {id}
    ELSE Payers(i) = {}

(***************************************************************************)
(* The inductive invariant on top of SuiteInv.                             *)
(***************************************************************************)
PayersInv == RecordedPayers /\ DuplicatesAreLaterPayers /\ InvoicePaidOnce

LEMMA PayersInit == Init => PayersInv
<1> SUFFICES ASSUME Init
             PROVE  PayersInv
  OBVIOUS
<1>1. \A id \in ActionIds : ~Paid(id)
  BY DEF Init, CtlInit, Paid, Status, NotInMapping
<1>2. /\ \A h \in ClaimHashes : paidClaims[h] = NoAction
      /\ actionDup = {}
      /\ \A i \in InvoiceIds : invoices[i].state # "Paid"
  BY DEF Init, PoolInit
<1> QED BY <1>1, <1>2
        DEF PayersInv, RecordedPayers, DuplicatesAreLaterPayers, InvoicePaidOnce,
            Payers

(***************************************************************************)
(* A step that pays nothing: the same actions count as paid, for the same  *)
(* invoices and claims, and the pool's records stay.                       *)
(***************************************************************************)
PaysNothing ==
  /\ \A id \in ActionIds :
       /\ Status(id)' \in PaidStatus <=> Status(id) \in PaidStatus
       /\ Status(id) \in PaidStatus =>
            /\ actions'[id].invoiceId = actions[id].invoiceId
            /\ actions'[id].claimHash = actions[id].claimHash
  /\ \A i \in InvoiceIds : invoices'[i].state = "Paid" <=> invoices[i].state = "Paid"
  /\ UNCHANGED <<paidClaims, actionDup>>

LEMMA PaysNothingInv == SuiteInv /\ PayersInv /\ PaysNothing => PayersInv'
<1> SUFFICES ASSUME SuiteInv, PayersInv, PaysNothing
             PROVE  PayersInv'
  OBVIOUS
<1>1. \A id \in ActionIds : Paid(id)' <=> Paid(id)
  BY DEF PaysNothing, Paid, PaidStatus
<1>2. ASSUME NEW id \in ActionIds, Paid(id)
      PROVE  /\ actions'[id].invoiceId = actions[id].invoiceId
             /\ actions'[id].claimHash = actions[id].claimHash
  BY <1>2 DEF PaysNothing, Paid, PaidStatus
<1>3. paidClaims' = paidClaims /\ actionDup' = actionDup
  BY DEF PaysNothing
<1>4. RecordedPayers'
  BY <1>1, <1>2, <1>3 DEF PayersInv, RecordedPayers
<1>5. DuplicatesAreLaterPayers'
  <2>1. \A id \in actionDup' : Paid(id)'
    BY <1>1, <1>3 DEF PayersInv, DuplicatesAreLaterPayers, SuiteInv, PoolTypeOK
  <2>2. ASSUME NEW id \in ActionIds, Paid(id)'
        PROVE  /\ FirstPayer(id)' \in ActionIds
               /\ Paid(FirstPayer(id))'
               /\ actions'[FirstPayer(id)'].claimHash = actions'[id].claimHash
               /\ id \in actionDup' <=> FirstPayer(id)' # id
    <3>1. FirstPayer(id)' = FirstPayer(id)
      BY <1>1, <1>2, <1>3, <2>2 DEF FirstPayer
    <3>2. /\ FirstPayer(id) \in ActionIds
          /\ Paid(FirstPayer(id))
          /\ actions[FirstPayer(id)].claimHash = actions[id].claimHash
          /\ id \in actionDup <=> FirstPayer(id) # id
      BY <1>1, <2>2 DEF PayersInv, DuplicatesAreLaterPayers
    <3>3. Paid(FirstPayer(id))'
      <4>1. Paid(FirstPayer(id))' <=> actions'[FirstPayer(id)].status \in PaidStatus
        BY <3>1 DEF Paid, Status, PaidStatus
      <4> QED BY <1>1, <3>2, <4>1 DEF Paid, Status, PaidStatus
    <3> QED BY <1>1, <1>2, <1>3, <2>2, <3>1, <3>2, <3>3
  <2> QED BY <2>1, <2>2 DEF DuplicatesAreLaterPayers
<1>6. InvoicePaidOnce'
  <2>1. \A i \in InvoiceIds : Payers(i)' = Payers(i)
    BY <1>1, <1>2 DEF Payers
  <2> QED BY <2>1 DEF PayersInv, InvoicePaidOnce, PaysNothing
<1> QED BY <1>4, <1>5, <1>6 DEF PayersInv

(***************************************************************************)
(* A step that replaces one action of the mapping by one that is as paid   *)
(* as before and pays for the same thing.                                  *)
(***************************************************************************)
LEMMA UpdatePaysNothing ==
  ASSUME SuiteInv, NEW id \in ActionIds, NEW new,
         actions' = [actions EXCEPT ![id] = new],
         new.status \in PaidStatus <=> Status(id) \in PaidStatus,
         Status(id) \in PaidStatus =>
           /\ new.invoiceId = actions[id].invoiceId
           /\ new.claimHash = actions[id].claimHash,
         UNCHANGED <<invoices, paidClaims, actionDup>>
  PROVE  PaysNothing
<1>1. actions'[id] = new /\ \A k \in ActionIds : k # id => actions'[k] = actions[k]
  BY DEF SuiteInv, CtlTypeOK
<1> QED BY <1>1 DEF PaysNothing, Status

LEMMA FramePaysNothing ==
  UNCHANGED <<actions, invoices, paidClaims, actionDup>> => PaysNothing
BY DEF PaysNothing, Status

LEMMA InitiatePaysNothing ==
  ASSUME SuiteInv, NEW agent, NEW i, NEW h, NEW amount,
         InitiateAction(agent, i, h, amount)
  PROVE  PaysNothing
<1> DEFINE new == [agent |-> agent, invoiceId |-> i, claimHash |-> h,
                   amount |-> amount, bondRequired |-> BondRequired(amount, agent),
                   bondPosted |-> 0, windowEnd |-> 0, status |-> "Initiated",
                   challenger |-> NoAddress]
<1>1. actions' = [actions EXCEPT ![nextActionId] = new] /\ new.status = "Initiated"
  BY DEF InitiateAction
<1> HIDE DEF new
<1>2. nextActionId \in ActionIds /\ Status(nextActionId) = "None"
  BY DEF InitiateAction, SuiteInv, CtlTypeOK, UnusedIds
<1>3. UNCHANGED <<invoices, paidClaims, actionDup>>
  BY DEF InitiateAction, poolVars
<1>4. new.status \notin PaidStatus /\ Status(nextActionId) \notin PaidStatus
  BY <1>1, <1>2 DEF PaidStatus
<1> QED BY <1>1, <1>2, <1>3, <1>4, UpdatePaysNothing

LEMMA PostBondPaysNothing ==
  ASSUME SuiteInv, NEW caller, NEW id \in ActionIds, PostBond(caller, id)
  PROVE  PaysNothing
<1> DEFINE new == [actions[id] EXCEPT !.bondPosted = actions[id].bondRequired,
                                      !.status = "Bonded"]
<1>1. Status(id) = "Initiated" /\ actions' = [actions EXCEPT ![id] = new]
  BY DEF PostBond, Status
<1>2. new.status = "Bonded"
  BY <1>1, InMapping DEF Action
<1>3. UNCHANGED <<invoices, paidClaims, actionDup>>
  BY DEF PostBond, poolVars
<1> HIDE DEF new
<1>4. new.status \notin PaidStatus /\ Status(id) \notin PaidStatus
  BY <1>1, <1>2 DEF PaidStatus
<1> QED BY <1>1, <1>3, <1>4, UpdatePaysNothing

LEMMA ChallengePaysNothing ==
  ASSUME SuiteInv, NEW challenger, NEW id \in ActionIds,
         Accusation(challenger, id)
  PROVE  PaysNothing
<1> DEFINE new == [actions[id] EXCEPT !.challenger = challenger,
                                      !.status = "Challenged"]
<1>1. Status(id) = "Executed" /\ actions' = [actions EXCEPT ![id] = new]
  BY DEF Accusation, Challengeable, Status
<1>2. /\ new.status = "Challenged"
      /\ new.invoiceId = actions[id].invoiceId
      /\ new.claimHash = actions[id].claimHash
  BY <1>1, InMapping DEF Action
<1>3. UNCHANGED <<invoices, paidClaims, actionDup>>
  BY DEF Accusation, poolVars
<1> HIDE DEF new
<1>4. new.status \in PaidStatus /\ Status(id) \in PaidStatus
  BY <1>1, <1>2 DEF PaidStatus
<1> QED BY <1>1, <1>2, <1>3, <1>4, UpdatePaysNothing

LEMMA ResolvePaysNothing ==
  ASSUME SuiteInv, NEW id \in ActionIds, ResolveSlash(id) \/ ResolveRefund(id)
  PROVE  PaysNothing
<1>1. PICK status \in {"ResolvedSlash", "ResolvedRefund"} :
        actions' = [actions EXCEPT ![id].status = status]
  BY DEF ResolveSlash, ResolveRefund
<1> DEFINE new == [actions[id] EXCEPT !.status = status]
<1>2. Status(id) \in {"Challenged", "Executed"} /\ actions' = [actions EXCEPT ![id] = new]
  BY <1>1 DEF ResolveSlash, ResolveRefund, Status
<1>3. /\ new.status = status
      /\ new.invoiceId = actions[id].invoiceId
      /\ new.claimHash = actions[id].claimHash
  BY <1>2, InMapping DEF Action
<1>4. UNCHANGED <<invoices, paidClaims, actionDup>>
  BY DEF ResolveSlash, ResolveRefund, AddToReserve, poolVars
<1> HIDE DEF new
<1>5. new.status \in PaidStatus /\ Status(id) \in PaidStatus
  BY <1>2, <1>3 DEF PaidStatus
<1> QED BY <1>2, <1>3, <1>4, <1>5, UpdatePaysNothing

LEMMA AddInvoicePaysNothing ==
  ASSUME SuiteInv, NEW caller, NEW i \in InvoiceIds, AddInvoice(caller, i)
  PROVE  PaysNothing
<1>1. PICK amount, vendor, h : SubmitInvoice(caller, i, amount, vendor, h)
  BY DEF AddInvoice
<1>2. invoices[i].state = "None"
  BY <1>1 DEF SubmitInvoice
<1>3. /\ invoices'[i].state = "Unpaid"
      /\ \A k \in InvoiceIds : k # i => invoices'[k] = invoices[k]
  BY <1>1 DEF SubmitInvoice, SuiteInv, PoolTypeOK
<1>4. UNCHANGED <<actions, paidClaims, actionDup>>
  BY <1>1 DEF SubmitInvoice, AddInvoice, ctlVars
<1> QED BY <1>2, <1>3, <1>4 DEF PaysNothing, Status

(***************************************************************************)
(* The one step that pays: the executing action becomes a payer of its     *)
(* invoice, which was unpaid and so had none, and of its claim.            *)
(***************************************************************************)
LEMMA ExecutePayers ==
  ASSUME SuiteInv, PayersInv, NEW caller, NEW id \in ActionIds,
         ExecuteAction(caller, id)
  PROVE  PayersInv'
<1> DEFINE old == actions[id]
           new == [old EXCEPT !.windowEnd = blockTime + Window,
                              !.status = "Executed"]
<1>0. Status(id) = "Bonded" /\ old \in Action
  BY InMapping DEF ExecuteAction, Status
<1> PICK i \in InvoiceIds, h \in ClaimHashes : i = old.invoiceId /\ h = old.claimHash
  BY <1>0 DEF Action
<1>1. /\ Status(id) = "Bonded"
      /\ actions' = [actions EXCEPT ![id] = new]
      /\ invoices[i].state = "Unpaid"
      /\ invoices' = [invoices EXCEPT ![i].state = "Paid"]
      /\ RecordClaim(id, h)
  BY DEF ExecuteAction, Status, Payout, Payable
<1>2. old \in Action /\ i \in InvoiceIds /\ h \in ClaimHashes
  BY <1>0
<1>3. new.status = "Executed" /\ new.invoiceId = i /\ new.claimHash = h
  BY <1>2 DEF Action
<1>4. /\ actions'[id] = new
      /\ \A k \in ActionIds : k # id => actions'[k] = actions[k]
  BY <1>1 DEF SuiteInv, CtlTypeOK
<1> HIDE DEF new
<1>5. ~Paid(id) /\ \A k \in ActionIds : actions'[k].status \in PaidStatus <=> Paid(k) \/ k = id
  BY <1>1, <1>3, <1>4 DEF Paid, Status, PaidStatus
<1>6. /\ \A k \in ActionIds : Paid(k)' <=> Paid(k) \/ k = id
      /\ \A k \in ActionIds : actions'[k].claimHash = actions[k].claimHash
      /\ \A k \in ActionIds : actions'[k].invoiceId = actions[k].invoiceId
  BY <1>3, <1>4, <1>5 DEF Paid, Status, PaidStatus
<1>7. paidClaims \in [ClaimHashes -> ActionIds \cup {NoAction}] /\ actionDup \subseteq ActionIds
  BY DEF SuiteInv, PoolTypeOK
<1>8. NoAction \notin ActionIds
  BY AccountsAssumption DEF NoAction
<1>9. InvoicePaidOnce'
  <2>1. Payers(i) = {}
    BY <1>1, <1>2 DEF PayersInv, InvoicePaidOnce
  <2>2. Payers(i)' = {id}
    BY <1>6, <2>1 DEF Payers
  <2>3. ASSUME NEW k \in InvoiceIds, k # i
        PROVE  Payers(k)' = Payers(k) /\ invoices'[k] = invoices[k]
    BY <1>1, <1>2, <1>6, <2>3 DEF Payers, SuiteInv, PoolTypeOK
  <2>4. invoices'[i].state = "Paid"
    <3>1. invoices[i] \in Invoice
      BY <1>2 DEF SuiteInv, PoolTypeOK
    <3> QED BY <1>1, <1>2, <3>1 DEF Invoice, SuiteInv, PoolTypeOK
  <2> SUFFICES ASSUME NEW k \in InvoiceIds
               PROVE  IF invoices'[k].state = "Paid"
                      THEN \E a \in ActionIds : Payers(k)' = {a}
                      ELSE Payers(k)' = {}
    BY DEF InvoicePaidOnce, Payers
  <2>5. CASE k = i
    <3>1. Payers(k)' = {id}
      BY <2>2, <2>5 DEF Payers
    <3>2. invoices'[k].state = "Paid"
      BY <2>4, <2>5
    <3> QED BY <3>1, <3>2
  <2>6. CASE k # i
    BY <2>3, <2>6 DEF PayersInv, InvoicePaidOnce
  <2> QED BY <2>5, <2>6
<1>10. CASE paidClaims[h] # NoAction
  <2>1. paidClaims' = paidClaims /\ actionDup' = actionDup \cup {id}
    BY <1>1, <1>10 DEF RecordClaim
  <2>2. /\ paidClaims[h] \in ActionIds
        /\ Paid(paidClaims[h])
        /\ actions[paidClaims[h]].claimHash = h
    BY <1>2, <1>10 DEF PayersInv, RecordedPayers
  <2>3. \A k \in ActionIds : FirstPayer(k)' = FirstPayer(k)
    BY <1>6, <2>1 DEF FirstPayer
  <2>4. FirstPayer(id) = paidClaims[h]
    BY DEF FirstPayer
  <2>5. RecordedPayers'
    BY <1>6, <2>1 DEF PayersInv, RecordedPayers, Paid, Status
  <2>6. DuplicatesAreLaterPayers'
    <3>1. \A k \in actionDup' : Paid(k)'
      BY <1>6, <1>7, <2>1 DEF PayersInv, DuplicatesAreLaterPayers
    <3>2. ASSUME NEW k \in ActionIds, Paid(k)'
          PROVE  /\ FirstPayer(k) \in ActionIds
                 /\ Paid(FirstPayer(k))
                 /\ actions[FirstPayer(k)].claimHash = actions[k].claimHash
                 /\ k \in actionDup' <=> FirstPayer(k) # k
      <4>1. CASE k = id
        BY <1>5, <2>1, <2>2, <2>4, <4>1
      <4>2. CASE k # id
        BY <1>6, <2>1, <3>2, <4>2 DEF PayersInv, DuplicatesAreLaterPayers
      <4> QED BY <4>1, <4>2
    <3>3. ASSUME NEW k \in ActionIds, Paid(k)'
          PROVE  /\ FirstPayer(k)' \in ActionIds
                 /\ Paid(FirstPayer(k))'
                 /\ actions'[FirstPayer(k)'].claimHash = actions'[k].claimHash
                 /\ k \in actionDup' <=> FirstPayer(k)' # k
      <4>1. Paid(FirstPayer(k))'
        BY <1>6, <2>3, <3>2, <3>3 DEF Paid, Status
      <4> QED BY <1>6, <2>3, <3>2, <3>3, <4>1
    <3> QED BY <3>1, <3>3 DEF DuplicatesAreLaterPayers
  <2> QED BY <1>9, <2>5, <2>6 DEF PayersInv
<1>11. CASE paidClaims[h] = NoAction
  <2>1. /\ paidClaims' = [paidClaims EXCEPT ![h] = id]
        /\ actionDup' = actionDup
    BY <1>1, <1>11 DEF RecordClaim
  <2>2. ASSUME NEW k \in ActionIds, Paid(k)
        PROVE  actions[k].claimHash # h
    BY <1>8, <1>11, <2>2 DEF PayersInv, DuplicatesAreLaterPayers, FirstPayer
  <2>3. paidClaims'[h] = id /\ \A g \in ClaimHashes : g # h => paidClaims'[g] = paidClaims[g]
    BY <1>2, <1>7, <2>1
  <2>4. RecordedPayers'
    <3> SUFFICES ASSUME NEW g \in ClaimHashes, paidClaims'[g] # NoAction
                 PROVE  /\ paidClaims'[g] \in ActionIds
                        /\ actions'[paidClaims'[g]].status \in PaidStatus
                        /\ actions'[paidClaims'[g]].claimHash = g
      BY DEF RecordedPayers, Paid, Status, PaidStatus
    <3>1. CASE g = h
      BY <1>4, <1>5, <1>6, <2>3, <3>1
    <3>2. CASE g # h
      BY <1>5, <1>6, <2>3, <3>2 DEF PayersInv, RecordedPayers
    <3> QED BY <3>1, <3>2
  <2>5. DuplicatesAreLaterPayers'
    <3>1. \A k \in actionDup' : Paid(k)'
      BY <1>6, <1>7, <2>1 DEF PayersInv, DuplicatesAreLaterPayers
    <3>2. ASSUME NEW k \in ActionIds, Paid(k)'
          PROVE  /\ paidClaims'[actions'[k].claimHash] \in ActionIds
                 /\ actions'[paidClaims'[actions'[k].claimHash]].status \in PaidStatus
                 /\ actions'[paidClaims'[actions'[k].claimHash]].claimHash = actions'[k].claimHash
                 /\ k \in actionDup' <=> paidClaims'[actions'[k].claimHash] # k
      <4>1. CASE k = id
        <5>1. id \notin actionDup'
          BY <1>5, <2>1 DEF PayersInv, DuplicatesAreLaterPayers
        <5> QED BY <1>4, <1>5, <1>6, <2>3, <4>1, <5>1
      <4>2. CASE k # id
        <5>1. Paid(k) /\ actions[k].claimHash # h
          BY <1>6, <2>2, <3>2, <4>2
        <5>2. actions[k] \in Action
          BY <5>1, InMapping DEF Paid
        <5>3. paidClaims'[actions[k].claimHash] = FirstPayer(k)
          BY <2>3, <5>1, <5>2 DEF FirstPayer, Action
        <5>4. /\ FirstPayer(k) \in ActionIds
              /\ Paid(FirstPayer(k))
              /\ actions[FirstPayer(k)].claimHash = actions[k].claimHash
              /\ k \in actionDup <=> FirstPayer(k) # k
          BY <5>1 DEF PayersInv, DuplicatesAreLaterPayers
        <5> QED BY <1>5, <1>6, <2>1, <5>3, <5>4
      <4> QED BY <4>1, <4>2
    <3> QED BY <3>1, <3>2 DEF DuplicatesAreLaterPayers, FirstPayer, Paid, Status, PaidStatus
  <2> QED BY <1>9, <2>4, <2>5 DEF PayersInv
<1> QED BY <1>10, <1>11

LEMMA PayersStep == SuiteInv /\ PayersInv /\ SuiteNext => PayersInv'
<1> SUFFICES ASSUME SuiteInv, PayersInv, SuiteNext
             PROVE  PayersInv'
  OBVIOUS
<1>1. ASSUME UNCHANGED <<actions, invoices, paidClaims, actionDup>>
      PROVE  PayersInv'
  BY <1>1, FramePaysNothing, PaysNothingInv
<1>2. CASE UseToken \/ Tick \/ UNCHANGED vars
  BY <1>1, <1>2 DEF UseToken, Tick, vars, poolVars, ctlVars
<1>3. ASSUME NEW u \in Users, WireVault(u) \/ SetPool(u, Pool)
      PROVE  PayersInv'
  BY <1>1, <1>3 DEF WireVault, SetPool, poolVars, ctlVars
<1>4. ASSUME NEW a \in Agents, NEW i \in InvoiceIds, NEW h \in ClaimHashes,
             NEW amount \in InvoiceAmounts, InitiateAction(a, i, h, amount)
      PROVE  PayersInv'
  BY <1>4, InitiatePaysNothing, PaysNothingInv
<1>5. ASSUME NEW u \in Users, NEW id \in ActionIds, PostBond(u, id)
      PROVE  PayersInv'
  BY <1>5, PostBondPaysNothing, PaysNothingInv
<1>6. ASSUME NEW u \in Users, NEW id \in ActionIds, ExecuteAction(u, id)
      PROVE  PayersInv'
  BY <1>6, ExecutePayers
<1>7. ASSUME NEW u \in Users, NEW id \in ActionIds, Accusation(u, id)
      PROVE  PayersInv'
  BY <1>7, ChallengePaysNothing, PaysNothingInv
<1>8. ASSUME NEW id \in ActionIds, ResolveSlash(id) \/ ResolveRefund(id)
      PROVE  PayersInv'
  BY <1>8, ResolvePaysNothing, PaysNothingInv
<1>9. ASSUME NEW u \in Users, NEW i \in InvoiceIds, AddInvoice(u, i)
      PROVE  PayersInv'
  BY <1>9, AddInvoicePaysNothing, PaysNothingInv
<1>10. ASSUME NEW u \in Users, PoolWired(u)
       PROVE  PayersInv'
  BY <1>1, <1>10 DEF PoolWired, SetPoolController, ctlVars
<1> QED BY <1>2, <1>3, <1>4, <1>5, <1>6, <1>7, <1>8, <1>9, <1>10
        DEF SuiteNext, SharedNext

LEMMA PayersCounted == PayersInv => PaidByOneAction
<1> SUFFICES ASSUME PayersInv, NEW i \in InvoiceIds
             PROVE  Cardinality(Payers(i)) = IF invoices[i].state = "Paid" THEN 1 ELSE 0
  BY DEF PaidByOneAction, Payers
<1>1. CASE invoices[i].state = "Paid"
  BY <1>1, FS_Singleton DEF PayersInv, InvoicePaidOnce
<1>2. CASE invoices[i].state # "Paid"
  BY <1>2, FS_EmptySet DEF PayersInv, InvoicePaidOnce
<1> QED BY <1>1, <1>2

(***************************************************************************)
(* However many actions are initiated and bonded for an invoice, exactly   *)
(* one of them pays a paid invoice and none an unpaid one.                 *)
(***************************************************************************)
THEOREM InvoicesPaidByOneAction == Spec => []PaidByOneAction
<1>1. SuiteInv /\ PayersInv /\ [Next]_vars => (SuiteInv /\ PayersInv)'
  BY SuiteStep, PayersStep, NextIsSuiteNext
<1> QED BY <1>1, SuiteInit, PayersInit, PayersCounted, PTL DEF Spec

(***************************************************************************)
(* An executed action is flagged exactly when another executed action paid *)
(* its claim first, and the first payer is never flagged: no slash without *)
(* a fault.                                                                *)
(***************************************************************************)
THEOREM FlaggedAreLaterPayers == Spec => []DuplicatesAreLaterPayers
<1>1. SuiteInv /\ PayersInv /\ [Next]_vars => (SuiteInv /\ PayersInv)'
  BY SuiteStep, PayersStep, NextIsSuiteNext
<1>2. PayersInv => DuplicatesAreLaterPayers
  BY DEF PayersInv
<1> QED BY <1>1, <1>2, SuiteInit, PayersInit, PTL DEF Spec

-----------------------------------------------------------------------------
(***************************************************************************)
(* Of the suite's steps only the two resolutions settle a bond.            *)
(***************************************************************************)
LEMMA SuiteStepSettles == SuiteInv /\ SuiteNext => SettledAtAmount
<1> SUFFICES ASSUME SuiteInv, SuiteNext
             PROVE  SettledAtAmount
  OBVIOUS
<1>1. VaultInv /\ Controller \in Accounts /\ ChallengerBps \in Nat
  BY ControllerAssumption DEF SuiteInv
<1>2. CASE UNCHANGED bonds
  BY <1>2, BondsFrame
<1>3. ASSUME NEW u \in Users, NEW id \in ActionIds, PostBond(u, id)
      PROVE  SettledAtAmount
  <2>1. /\ DepositAndLock(Controller, id, actions[id].agent, actions[id].bondRequired)
        /\ Status(id) = "Initiated"
    BY <1>3 DEF PostBond, Status
  <2>2. actions[id].agent \in Accounts /\ actions[id].bondRequired \in Nat
    BY <2>1, InMapping, AccountsAssumption DEF Action
  <2> QED BY <1>1, <2>1, <2>2, DepositSettlesNothing
<1>4. ASSUME NEW id \in ActionIds, ResolveRefund(id)
      PROVE  SettledAtAmount
  BY <1>1, <1>4, ReleaseSettles DEF ResolveRefund
<1>5. ASSUME NEW id \in ActionIds, ResolveSlash(id)
      PROVE  SettledAtAmount
  <2>1. /\ Slash(Controller, id, actions[id].challenger, ctlPool, ChallengerBps)
        /\ Status(id) = "Challenged" /\ actions[id].challenger # NoAddress
    BY <1>5 DEF ResolveSlash, Status
  <2>2. actions[id].challenger \in Accounts /\ ctlPool \in Accounts
    BY <2>1, InMapping, AccountsAssumption DEF Action, SuiteInv, CtlTypeOK
  <2> QED BY <1>1, <2>1, <2>2, SlashSettles
<1>6. ASSUME ~ UNCHANGED bonds
      PROVE  \E id \in ActionIds :
               \/ \E u \in Users : PostBond(u, id)
               \/ ResolveSlash(id) \/ ResolveRefund(id)
  BY <1>6 DEF SuiteNext, SharedNext, UseToken, WireVault, SetVaultController, SetPool,
              InitiateAction, ExecuteAction, Accusation, AddInvoice, PoolWired, Tick,
              vars, vaultVars
<1> QED BY <1>2, <1>3, <1>4, <1>5, <1>6

(***************************************************************************)
(* In the suite, too, a settlement takes exactly the bond out of the       *)
(* vault, whatever the challenger's share rounds to.                       *)
(***************************************************************************)
THEOREM SuiteSettlesWhole == Spec => SettlementPaysBond
<1>1. SuiteInv /\ [Next]_vars => [SettledAtAmount]_vaultVars
  BY SuiteStepSettles, NextIsSuiteNext
<1>2. Spec => [][SettledAtAmount]_vaultVars
  BY <1>1, SuiteInit, SuiteStep, NextIsSuiteNext, PTL DEF Spec
<1> QED BY <1>2 DEF SettlementPaysBond, SettledAtAmount

-----------------------------------------------------------------------------
(***************************************************************************)
(* The third part: the suite implements the escrow of BondEscrow.  Every   *)
(* step of the contracts holds, returns or forfeits one stake, or changes  *)
(* nothing the escrow can see.                                             *)
(***************************************************************************)
LEMMA StakeStates ==
  /\ StakeState("None") = "none"
  /\ StakeState("Initiated") = "none"
  /\ StakeState("Bonded") = "held"
  /\ StakeState("Executed") = "held"
  /\ StakeState("Challenged") = "held"
  /\ StakeState("ResolvedRefund") = "returned"
  /\ StakeState("ResolvedSlash") = "forfeited"
BY DEF StakeState, Unsettled

(***************************************************************************)
(* A step that replaces one action replaces at most its stake.             *)
(***************************************************************************)
LEMMA OneStake ==
  ASSUME SuiteInv, NEW id \in ActionIds, NEW new \in Action,
         actions' = [actions EXCEPT ![id] = new],
         NEW state, StakeState(new.status) = state
  PROVE  stakes' = [stakes EXCEPT ![id] =
                      [state |-> state, amount |-> new.bondPosted]]
<1> DEFINE st == [state |-> state, amount |-> new.bondPosted]
<1>1. actions'[id] = new /\ \A k \in ActionIds : k # id => actions'[k] = actions[k]
  BY DEF SuiteInv, CtlTypeOK
<1>2. StakeOf(new) = st
  BY DEF StakeOf, Action, ActionStatus, Unsettled
<1>3. stakes' = [k \in ActionIds |-> StakeOf(actions'[k])]
  BY DEF stakes, StakeOf, StakeState
<1> HIDE DEF st
<1>4. stakes' = [k \in ActionIds |-> IF k = id THEN st ELSE StakeOf(actions[k])]
  BY <1>1, <1>2, <1>3
<1>5. stakes = [k \in ActionIds |-> StakeOf(actions[k])]
  BY DEF stakes
<1>6. [stakes EXCEPT ![id] = st]
        = [k \in ActionIds |-> IF k = id THEN st ELSE StakeOf(actions[k])]
  BY <1>5
<1> QED BY <1>4, <1>6 DEF st

(***************************************************************************)
(* An action in the mapping has its status and bond_posted as its stake.   *)
(***************************************************************************)
LEMMA StakeInMapping ==
  ASSUME NEW id \in ActionIds, NEW status, actions[id].status = status,
         status # "None"
  PROVE  /\ stakes[id].state = StakeState(status)
         /\ stakes[id].amount = actions[id].bondPosted
BY DEF stakes, StakeOf

EscrowView == <<stakes, totalLocked, reserveBalance>>

(***************************************************************************)
(* Initiating adds an action with no stake to an id that had none.         *)
(***************************************************************************)
LEMMA InitiateUnseen ==
  ASSUME SuiteInv, NEW agent \in Users, NEW i \in InvoiceIds,
         NEW h \in ClaimHashes, NEW amount \in Nat,
         InitiateAction(agent, i, h, amount)
  PROVE  UNCHANGED EscrowView
<1> DEFINE id == nextActionId
           new == [agent |-> agent, invoiceId |-> i, claimHash |-> h,
                   amount |-> amount, bondRequired |-> BondRequired(amount, agent),
                   bondPosted |-> 0, windowEnd |-> 0, status |-> "Initiated",
                   challenger |-> NoAddress]
           st == [state |-> "none", amount |-> 0]
<1>1. /\ id \in ActionIds
      /\ actions' = [actions EXCEPT ![id] = new]
      /\ UNCHANGED <<vaultVars, poolVars>>
  BY DEF InitiateAction
<1>2. new \in Action /\ new.status = "Initiated" /\ new.bondPosted = 0
  BY BondRequiredNat DEF SuiteInv, CtlTypeOK, Action, ActionStatus
<1>3. StakeOf(actions[id]) = st
  <2>1. actions[id].status = "None"
    BY <1>1 DEF SuiteInv, CtlTypeOK, UnusedIds, Status
  <2> QED BY <2>1, StakeStates DEF StakeOf
<1> HIDE DEF new, id
<1>4. stakes' = [stakes EXCEPT ![id] = st]
  <2>1. StakeState(new.status) = "none"
    BY <1>2, StakeStates
  <2> QED BY <1>1, <1>2, <2>1, OneStake
<1>5. stakes[id] = st
  BY <1>1, <1>3 DEF stakes
<1> HIDE DEF st
<1>6. stakes = [k \in ActionIds |-> StakeOf(actions[k])]
  BY DEF stakes
<1>7. stakes' = stakes
  BY <1>1, <1>4, <1>5, <1>6
<1> QED BY <1>1, <1>7 DEF EscrowView, vaultVars, poolVars

LEMMA PostBondHolds ==
  ASSUME SuiteInv, NEW caller \in Users, NEW id \in ActionIds,
         PostBond(caller, id)
  PROVE  Escrow!Hold(id)
<1> DEFINE old == actions[id]
           new == [old EXCEPT !.bondPosted = old.bondRequired, !.status = "Bonded"]
           amount == old.bondRequired
           st == [state |-> "held", amount |-> amount]
<1>1. /\ old.status = "Initiated"
      /\ totalLocked' = totalLocked + amount
      /\ actions' = [actions EXCEPT ![id] = new]
      /\ UNCHANGED reserveBalance
  BY DEF PostBond, DepositAndLock, poolVars
<1>2. old \in Action
  BY <1>1, InMapping DEF Status
<1>3. new \in Action /\ new.status = "Bonded" /\ new.bondPosted = amount
  BY <1>2 DEF Action, ActionStatus, Unsettled
<1>4. stakes[id].state = "none"
  BY <1>1, StakeInMapping, StakeStates
<1> HIDE DEF new, amount
<1>5. stakes' = [stakes EXCEPT ![id] = st]
  <2>1. StakeState(new.status) = "held"
    BY <1>3, StakeStates
  <2> QED BY <1>1, <1>3, <2>1, OneStake
<1>6. stakes = [k \in ActionIds |-> StakeOf(actions[k])]
  BY DEF stakes
<1>7. stakes'[id].amount = amount
  BY <1>5, <1>6
<1> QED BY <1>1, <1>4, <1>5, <1>7 DEF Escrow!Hold

(***************************************************************************)
(* A step that keeps the stake's state and amount is not seen.             *)
(***************************************************************************)
LEMMA SameStake ==
  ASSUME SuiteInv, NEW id \in ActionIds, NEW new \in Action,
         actions' = [actions EXCEPT ![id] = new],
         actions[id].status \in Unsettled, new.status \in Unsettled,
         new.bondPosted = actions[id].bondPosted
  PROVE  stakes' = stakes
<1>1. StakeState(new.status) = "held" /\ StakeState(actions[id].status) = "held"
  BY StakeStates DEF Unsettled
<1>2. stakes' = [stakes EXCEPT ![id] =
                   [state |-> "held", amount |-> new.bondPosted]]
  BY <1>1, OneStake
<1>3. StakeOf(actions[id]) = [state |-> "held", amount |-> new.bondPosted]
  BY <1>1 DEF StakeOf, Unsettled
<1>4. stakes = [k \in ActionIds |-> StakeOf(actions[k])]
  BY DEF stakes
<1> QED BY <1>2, <1>3, <1>4

LEMMA ExecuteUnseen ==
  ASSUME SuiteInv, NEW caller \in Users, NEW id \in ActionIds,
         ExecuteAction(caller, id)
  PROVE  UNCHANGED EscrowView
<1> DEFINE old == actions[id]
           new == [old EXCEPT !.windowEnd = blockTime + Window,
                              !.status = "Executed"]
<1>1. /\ old.status = "Bonded"
      /\ actions' = [actions EXCEPT ![id] = new]
      /\ UNCHANGED <<vaultVars, reserveBalance>>
  BY DEF ExecuteAction, Payout
<1>2. old \in Action
  BY <1>1, InMapping DEF Status
<1>3. blockTime + Window \in Nat
  BY ControllerAssumption DEF SuiteInv, CtlTypeOK
<1>4. new \in Action /\ new.status = "Executed" /\ new.bondPosted = old.bondPosted
  BY <1>2, <1>3 DEF Action, ActionStatus, Unsettled
<1> HIDE DEF new
<1>5. stakes' = stakes
  BY <1>1, <1>4, SameStake DEF Unsettled
<1> QED BY <1>1, <1>5 DEF EscrowView, vaultVars

LEMMA ChallengeUnseen ==
  ASSUME SuiteInv, NEW challenger \in Users, NEW id \in ActionIds,
         Accusation(challenger, id)
  PROVE  UNCHANGED EscrowView
<1> DEFINE old == actions[id]
           new == [old EXCEPT !.challenger = challenger, !.status = "Challenged"]
<1>1. /\ old.status = "Executed"
      /\ actions' = [actions EXCEPT ![id] = new]
      /\ UNCHANGED <<vaultVars, poolVars>>
  BY DEF Accusation, Challengeable
<1>2. old \in Action
  BY <1>1, InMapping DEF Status
<1>3. new \in Action /\ new.status = "Challenged" /\ new.bondPosted = old.bondPosted
  BY <1>2 DEF Action, ActionStatus, Unsettled
<1> HIDE DEF new
<1>4. stakes' = stakes
  BY <1>1, <1>3, SameStake DEF Unsettled
<1> QED BY <1>1, <1>4 DEF EscrowView, vaultVars, poolVars

(***************************************************************************)
(* Settling a stake keeps its amount, which is the vault's bond.           *)
(***************************************************************************)
LEMMA SettledStake ==
  ASSUME SuiteInv, NEW id \in ActionIds,
         actions[id].status \in {"Executed", "Challenged"},
         NEW state, NEW new \in Action,
         actions' = [actions EXCEPT ![id] = new],
         StakeState(new.status) = state,
         new.bondPosted = actions[id].bondPosted
  PROVE  /\ stakes[id].state = "held"
         /\ stakes[id].amount = actions[id].bondPosted
         /\ bonds[id].amount = actions[id].bondPosted
         /\ actions[id].bondPosted \in Nat
         /\ stakes' = [stakes EXCEPT ![id].state = state]
<1> DEFINE old == actions[id]
<1>1. old \in Action
  BY InMapping DEF Status
<1>2. old.bondPosted \in Nat
  BY <1>1 DEF Action
<1>3. stakes[id].state = "held" /\ stakes[id].amount = old.bondPosted
  BY StakeInMapping, StakeStates
<1>4. bonds[id].amount = old.bondPosted
  <2>1. Mirrors(bonds[id], old)
    BY DEF SuiteInv, VaultMirrorsActions
  <2>2. BondStatusOf(old.status) = "Locked"
    BY BondStatuses
  <2> QED BY <2>1, <2>2 DEF Mirrors
<1>5. stakes' = [stakes EXCEPT ![id] = [state |-> state, amount |-> new.bondPosted]]
  BY OneStake
<1>6. stakes' = [stakes EXCEPT ![id] = [state |-> state, amount |-> old.bondPosted]]
  BY <1>5
<1>7. StakeOf(old) = [state |-> "held", amount |-> old.bondPosted]
  <2>1. StakeState(old.status) = "held"
    BY StakeStates
  <2> QED BY <2>1 DEF StakeOf
<1>8. stakes = [k \in ActionIds |-> StakeOf(actions[k])]
  BY DEF stakes
<1>9. stakes' = [stakes EXCEPT ![id].state = state]
  <2>1. stakes[id] = [state |-> "held", amount |-> old.bondPosted]
    BY <1>7, <1>8
  <2>2. [stakes[id] EXCEPT !.state = state]
          = [state |-> state, amount |-> old.bondPosted]
    BY <2>1
  <2> QED BY <1>6, <2>2
<1> QED BY <1>2, <1>3, <1>4, <1>9

LEMMA RefundReturns ==
  ASSUME SuiteInv, NEW id \in ActionIds, ResolveRefund(id)
  PROVE  Escrow!Return(id)
<1> DEFINE old == actions[id]
           new == [old EXCEPT !.status = "ResolvedRefund"]
<1>1. /\ old.status = "Executed"
      /\ totalLocked' = totalLocked - bonds[id].amount
      /\ actions' = [actions EXCEPT ![id] = new]
      /\ UNCHANGED reserveBalance
  BY DEF ResolveRefund, Release, Settle, poolVars
<1>2. old \in Action
  BY <1>1, InMapping DEF Status
<1>3. new \in Action /\ new.status = "ResolvedRefund" /\ new.bondPosted = old.bondPosted
  BY <1>2 DEF Action, ActionStatus, Unsettled
<1> HIDE DEF new
<1>4. StakeState(new.status) = "returned"
  BY <1>3, StakeStates
<1>5. /\ stakes[id].state = "held"
      /\ stakes[id].amount = bonds[id].amount
      /\ stakes' = [stakes EXCEPT ![id].state = "returned"]
  BY <1>1, <1>3, <1>4, SettledStake
<1> QED BY <1>1, <1>5 DEF Escrow!Return

LEMMA SlashForfeits ==
  ASSUME SuiteInv, NEW id \in ActionIds, ResolveSlash(id)
  PROVE  Escrow!Forfeit(id)
<1> DEFINE old == actions[id]
           new == [old EXCEPT !.status = "ResolvedSlash"]
           amount == old.bondPosted
           reward == (amount * ChallengerBps) \div 10000
<1>1. /\ old.status = "Challenged"
      /\ totalLocked' = totalLocked - bonds[id].amount
      /\ actions' = [actions EXCEPT ![id] = new]
  BY DEF ResolveSlash, Slash, Settle
<1>2. reserveBalance' = reserveBalance + (amount - reward)
  BY DEF ResolveSlash, AddToReserve, ReserveShare, Reward
<1>3. old \in Action
  BY <1>1, InMapping DEF Status
<1>4. new \in Action /\ new.status = "ResolvedSlash" /\ new.bondPosted = old.bondPosted
  BY <1>3 DEF Action, ActionStatus, Unsettled
<1> HIDE DEF new
<1>5. StakeState(new.status) = "forfeited"
  BY <1>4, StakeStates
<1>6. /\ stakes[id].state = "held"
      /\ stakes[id].amount = amount
      /\ bonds[id].amount = amount
      /\ amount \in Nat
      /\ stakes' = [stakes EXCEPT ![id].state = "forfeited"]
  BY <1>1, <1>4, <1>5, SettledStake
<1> HIDE DEF amount
<1>7. reward \in Int
  <2>1. ChallengerBps \in Nat /\ ChallengerBps <= 10000
    BY ControllerAssumption
  <2> QED BY <1>6, <2>1, RewardBound DEF Reward
<1>8. reserveBalance \in Int
  BY DEF SuiteInv, PoolTypeOK
<1> HIDE DEF reward
<1>9. reserveBalance' = reserveBalance + amount - reward
  BY <1>2, <1>6, <1>7, <1>8
<1>10. stakes[id].amount = amount
  BY <1>6
<1>11. totalLocked' = totalLocked - stakes[id].amount
  BY <1>1, <1>6
<1>12. reserveBalance' = reserveBalance + stakes[id].amount
                          - (stakes[id].amount * ChallengerBps) \div 10000
  BY <1>9, <1>10 DEF reward
<1>13. /\ stakes[id].state = "held"
       /\ stakes' = [stakes EXCEPT ![id].state = "forfeited"]
  BY <1>6
<1> QED BY <1>11, <1>12, <1>13 DEF Escrow!Forfeit

(***************************************************************************)
(* The other steps leave the actions, the bonds and the reserve alone.     *)
(***************************************************************************)
LEMMA OthersUnseen ==
  ASSUME UNCHANGED <<actions, totalLocked, reserveBalance>>
  PROVE  UNCHANGED EscrowView
BY DEF EscrowView, stakes, StakeOf, StakeState

LEMMA EscrowStep ==
  SuiteInv /\ SuiteNext => [Escrow!EscrowNext]_(Escrow!escrowVars)
<1> SUFFICES ASSUME SuiteInv, SuiteNext
             PROVE  UNCHANGED EscrowView \/ Escrow!EscrowNext
  BY DEF EscrowView, Escrow!escrowVars
<1>1. CASE UseToken
  BY <1>1, OthersUnseen DEF UseToken, vaultVars, poolVars, ctlVars
<1>2. ASSUME NEW u \in Users, WireVault(u)
      PROVE  UNCHANGED EscrowView
  BY <1>2, OthersUnseen DEF WireVault, SetVaultController, poolVars, ctlVars
<1>3. ASSUME NEW u \in Users, SetPool(u, Pool)
      PROVE  UNCHANGED EscrowView
  BY <1>3, OthersUnseen DEF SetPool, vaultVars, poolVars
<1>4. ASSUME NEW a \in Agents, NEW i \in InvoiceIds, NEW h \in ClaimHashes,
             NEW amount \in InvoiceAmounts, InitiateAction(a, i, h, amount)
      PROVE  UNCHANGED EscrowView
  BY <1>4, InitiateUnseen, PoolAssumption, ControllerAssumption
<1>5. ASSUME NEW u \in Users, NEW id \in ActionIds, PostBond(u, id)
      PROVE  Escrow!EscrowNext
  BY <1>5, PostBondHolds DEF Escrow!EscrowNext
<1>6. ASSUME NEW u \in Users, NEW id \in ActionIds, ExecuteAction(u, id)
      PROVE  UNCHANGED EscrowView
  BY <1>6, ExecuteUnseen
<1>7. ASSUME NEW u \in Users, NEW id \in ActionIds, Accusation(u, id)
      PROVE  UNCHANGED EscrowView
  BY <1>7, ChallengeUnseen
<1>8. ASSUME NEW id \in ActionIds, ResolveSlash(id)
      PROVE  Escrow!EscrowNext
  BY <1>8, SlashForfeits DEF Escrow!EscrowNext
<1>9. ASSUME NEW id \in ActionIds, ResolveRefund(id)
      PROVE  Escrow!EscrowNext
  BY <1>9, RefundReturns DEF Escrow!EscrowNext
<1>10. ASSUME NEW u \in Users, NEW i \in InvoiceIds, AddInvoice(u, i)
       PROVE  UNCHANGED EscrowView
  BY <1>10, OthersUnseen DEF AddInvoice, SubmitInvoice, vaultVars, ctlVars
<1>11. CASE Tick
  BY <1>11, OthersUnseen DEF Tick, vaultVars, poolVars, ctlVars
<1>12. CASE UNCHANGED vars
  BY <1>12, OthersUnseen DEF vars, vaultVars, poolVars, ctlVars
<1>13. ASSUME NEW u \in Users, PoolWired(u)
       PROVE  UNCHANGED EscrowView
  BY <1>13, OthersUnseen DEF PoolWired, SetPoolController, vaultVars, ctlVars
<1> QED BY <1>1, <1>2, <1>3, <1>4, <1>5, <1>6, <1>7, <1>8, <1>9, <1>10, <1>11,
           <1>12, <1>13 DEF SuiteNext, SharedNext

LEMMA EscrowStart == Init => Escrow!EscrowInit
<1> SUFFICES ASSUME Init
             PROVE  Escrow!EscrowInit
  OBVIOUS
<1>1. ASSUME NEW id \in ActionIds
      PROVE  StakeOf(actions[id]) = [state |-> "none", amount |-> 0]
  <2>1. actions[id].status = "None"
    BY DEF Init, CtlInit, NotInMapping
  <2> QED BY <2>1, StakeStates DEF StakeOf
<1>2. totalLocked = 0 /\ reserveBalance = 0
  BY DEF Init, VaultInit, PoolInit
<1> QED BY <1>1, <1>2 DEF Escrow!EscrowInit, stakes

(***************************************************************************)
(* The three contracts together are an escrow: a bond is held once,        *)
(* returned whole or forfeited, and what the reserve books is what the     *)
(* challenger's share leaves of it.                                        *)
(***************************************************************************)
THEOREM SuiteIsEscrow == Spec => ImplementsEscrow
<1> QED BY SuiteInit, SuiteStep, NextIsSuiteNext, EscrowStart, EscrowStep, PTL
        DEF Spec, ImplementsEscrow, Escrow!EscrowSpec
=============================================================================
