-------------------------- MODULE BondVaultProofs --------------------------
(***************************************************************************)
(* The vault keeps its types and stays solvent, for every set of accounts, *)
(* action ids, amounts and basis points and whoever its controller is.     *)
(***************************************************************************)
EXTENDS BondVault, TLAPS

(***************************************************************************)
(* The challenger's share is a natural number and at most the bond.        *)
(***************************************************************************)
LEMMA RewardBound ==
  ASSUME NEW amount \in Nat, NEW bps \in Nat, bps <= 10000
  PROVE  Reward(amount, bps) \in Nat /\ Reward(amount, bps) <= amount
<1>1. amount * bps \in Nat /\ amount * bps <= amount * 10000
  <2>1. amount * (10000 - bps) >= 0
    OBVIOUS
  <2>2. amount * (10000 - bps) = amount * 10000 - amount * bps
    OBVIOUS
  <2> QED BY <2>1, <2>2
<1>2. ASSUME NEW p \in Nat, p <= amount * 10000
      PROVE  (p \div 10000) \in Nat /\ (p \div 10000) <= amount
  BY <1>2
<1> QED BY <1>1, <1>2 DEF Reward

(***************************************************************************)
(* Moving tokens between two addresses leaves natural balances.            *)
(***************************************************************************)
LEMMA MovedBalances ==
  ASSUME NEW bal \in [Accounts -> Nat], NEW from \in Accounts,
         NEW to \in Accounts, NEW amount \in Nat,
         CanMove(bal, from, to, amount)
  PROVE  /\ Moved(bal, from, to, amount) \in [Accounts -> Nat]
         /\ Moved(bal, from, to, amount)[from] = bal[from] - amount
         /\ Moved(bal, from, to, amount)[to] = bal[to] + amount
BY DEF Moved, CanMove

(***************************************************************************)
(* The inductive invariant: the types, and a balance that covers the       *)
(* promised total.  The types are needed for the arithmetic of solvency.   *)
(***************************************************************************)
VaultInv == VaultTypeOK /\ VaultSolvent

LEMMA VaultInitInv == TokenInit /\ VaultInit => VaultInv
<1> SUFFICES ASSUME TokenInit, VaultInit
             PROVE  VaultInv
  OBVIOUS
<1>1. TokenTypeOK
  BY AccountsAssumption, TokenAssumption DEF TokenInit, TokenTypeOK
<1>2. bonds \in [ActionIds -> Bond]
  BY VaultAssumption DEF VaultInit, Bond, BondStatus
<1>3. /\ vaultController \in Accounts
      /\ vaultFinalized \in BOOLEAN
      /\ totalLocked = 0
  BY VaultAssumption DEF VaultInit
<1>4. balances[Vault] \in Nat
  BY <1>1, VaultAssumption DEF TokenTypeOK
<1> QED BY <1>1, <1>2, <1>3, <1>4 DEF VaultInv, VaultTypeOK, VaultSolvent

(***************************************************************************)
(* Each entry point, called by anyone with any argument, keeps VaultInv.   *)
(* The composed modules cite these lemmas for the calls they make.         *)
(***************************************************************************)
LEMMA TokenStepInv == VaultInv /\ TokenNext /\ UNCHANGED vaultVars => VaultInv'
<1> SUFFICES ASSUME VaultInv, TokenNext, UNCHANGED vaultVars
             PROVE  VaultInv'
  OBVIOUS
<1>1. PICK u \in Holders, amount \in Amounts :
        \/ \E a \in Accounts : Mint(u, a, amount) \/ Transfer(u, a, amount)
        \/ \E s \in Spenders : Approve(u, s, amount)
  BY DEF TokenNext
<1>2. amount \in Nat /\ u \in Accounts /\ u # Vault /\ Vault \in Accounts
  BY AccountsAssumption, TokenAssumption, VaultAssumption
<1>3. balances \in [Accounts -> Nat] /\ totalSupply \in Nat
  BY DEF VaultInv, VaultTypeOK, TokenTypeOK
<1>4. SUFFICES /\ TokenTypeOK'
               /\ balances'[Vault] >= balances[Vault]
  BY <1>2, <1>3 DEF VaultInv, VaultTypeOK, TokenTypeOK, VaultSolvent, vaultVars
<1>5. ASSUME NEW a \in Accounts, Mint(u, a, amount)
      PROVE  TokenTypeOK' /\ balances'[Vault] >= balances[Vault]
  <2>1. /\ balances' = [balances EXCEPT ![a] = @ + amount]
        /\ totalSupply' = totalSupply + amount
        /\ UNCHANGED allowances
    BY <1>5 DEF Mint
  <2> QED BY <1>2, <1>3, <2>1 DEF VaultInv, VaultTypeOK, TokenTypeOK
<1>6. ASSUME NEW a \in Accounts, Transfer(u, a, amount)
      PROVE  TokenTypeOK' /\ balances'[Vault] >= balances[Vault]
  <2>1. /\ CanMove(balances, u, a, amount)
        /\ balances' = Moved(balances, u, a, amount)
        /\ UNCHANGED <<allowances, totalSupply>>
    BY <1>6 DEF Transfer
  <2>2. balances' \in [Accounts -> Nat]
    BY <1>2, <1>3, <2>1, MovedBalances
  <2>3. balances'[Vault] >= balances[Vault]
    <3>1. CASE a = Vault
      BY <1>2, <1>3, <2>1, <3>1, MovedBalances
    <3>2. CASE a # Vault
      BY <1>2, <1>3, <2>1, <3>2 DEF Moved
    <3> QED BY <3>1, <3>2
  <2> QED BY <2>1, <2>2, <2>3 DEF VaultInv, VaultTypeOK, TokenTypeOK
<1>7. ASSUME NEW s \in Spenders, Approve(u, s, amount)
      PROVE  TokenTypeOK' /\ balances'[Vault] >= balances[Vault]
  <2>1. /\ allowances' = [allowances EXCEPT ![u][s] = amount]
        /\ UNCHANGED <<balances, totalSupply>>
    BY <1>7 DEF Approve
  <2>2. allowances' \in [Accounts -> [Accounts -> Nat]]
    BY <1>2, <2>1, TokenAssumption DEF VaultInv, VaultTypeOK, TokenTypeOK
  <2> QED BY <1>2, <1>3, <2>1, <2>2 DEF VaultInv, VaultTypeOK, TokenTypeOK
<1> QED BY <1>1, <1>5, <1>6, <1>7

LEMMA SetVaultControllerInv ==
  ASSUME VaultInv, NEW caller \in Accounts, NEW other \in Accounts,
         SetVaultController(caller, other)
  PROVE  VaultInv'
BY DEF VaultInv, VaultTypeOK, TokenTypeOK, VaultSolvent, SetVaultController,
       tokenVars

LEMMA DepositInv ==
  ASSUME VaultInv, NEW caller \in Accounts, NEW agent \in Accounts,
         NEW id \in ActionIds, NEW amount \in Nat,
         DepositAndLock(caller, id, agent, amount)
  PROVE  VaultInv'
<1>1. /\ CanMove(balances, agent, Vault, amount)
      /\ balances' = Moved(balances, agent, Vault, amount)
      /\ allowances[agent][Vault] >= amount
      /\ allowances' = [allowances EXCEPT ![agent][Vault] = @ - amount]
      /\ totalSupply' = totalSupply
  BY DEF DepositAndLock, TransferFrom
<1>2. /\ balances \in [Accounts -> Nat]
      /\ allowances \in [Accounts -> [Accounts -> Nat]]
      /\ totalLocked \in Nat
      /\ Vault \in Accounts
  BY VaultAssumption DEF VaultInv, VaultTypeOK, TokenTypeOK
<1>3. /\ balances' \in [Accounts -> Nat]
      /\ balances'[Vault] = balances[Vault] + amount
  BY <1>1, <1>2, MovedBalances, ZenonT(30)
<1>4. allowances' \in [Accounts -> [Accounts -> Nat]]
  BY <1>1, <1>2
<1>5. TokenTypeOK'
  BY <1>1, <1>3, <1>4 DEF VaultInv, VaultTypeOK, TokenTypeOK
<1>6. bonds' \in [ActionIds -> Bond]
  BY DEF DepositAndLock, VaultInv, VaultTypeOK, Bond, BondStatus
<1>7. /\ totalLocked' = totalLocked + amount
      /\ UNCHANGED <<vaultController, vaultFinalized>>
  BY DEF DepositAndLock
<1> QED BY <1>2, <1>3, <1>5, <1>6, <1>7
        DEF VaultInv, VaultTypeOK, TokenTypeOK, VaultSolvent

(***************************************************************************)
(* Settle takes exactly the bond out of the total and keeps the types.     *)
(***************************************************************************)
LEMMA SettleEffect ==
  ASSUME VaultInv, NEW id \in ActionIds, NEW status \in BondStatus,
         Settle(id, status)
  PROVE  /\ bonds[id].amount \in Nat
         /\ totalLocked' = totalLocked - bonds[id].amount
         /\ totalLocked' \in Nat
         /\ bonds' \in [ActionIds -> Bond]
         /\ vaultController' \in Accounts
         /\ vaultFinalized' \in BOOLEAN
BY DEF Settle, LockedBond, VaultInv, VaultTypeOK, Bond

LEMMA ReleaseInv ==
  ASSUME VaultInv, NEW caller \in Accounts, NEW id \in ActionIds,
         Release(caller, id)
  PROVE  VaultInv' /\ balances'[Vault] = balances[Vault] - bonds[id].amount
<1> USE VaultAssumption
<1> DEFINE agent  == bonds[id].agent
           amount == bonds[id].amount
<1>1. /\ Settle(id, "Released")
      /\ CanMove(balances, Vault, agent, amount)
      /\ balances' = Moved(balances, Vault, agent, amount)
      /\ UNCHANGED <<allowances, totalSupply>>
  BY DEF Release, Transfer
<1>2. agent \in Accounts /\ amount \in Nat
  BY DEF VaultInv, VaultTypeOK, Bond
<1>3. /\ totalLocked' = totalLocked - amount
      /\ totalLocked' \in Nat
      /\ bonds' \in [ActionIds -> Bond]
      /\ vaultController' \in Accounts
      /\ vaultFinalized' \in BOOLEAN
  BY <1>1, SettleEffect DEF BondStatus
<1>4. balances \in [Accounts -> Nat] /\ totalLocked \in Nat
  BY DEF VaultInv, VaultTypeOK, TokenTypeOK
<1> HIDE DEF agent, amount
<1>5. /\ balances' \in [Accounts -> Nat]
      /\ balances'[Vault] = balances[Vault] - amount
  BY <1>1, <1>2, <1>4, MovedBalances
<1> QED BY <1>1, <1>2, <1>3, <1>4, <1>5
        DEF VaultInv, VaultTypeOK, TokenTypeOK, VaultSolvent, amount

LEMMA SlashInv ==
  ASSUME VaultInv, NEW caller \in Accounts, NEW id \in ActionIds,
         NEW challenger \in Accounts, NEW pool \in Accounts, NEW bps \in Nat,
         Slash(caller, id, challenger, pool, bps)
  PROVE  VaultInv' /\ balances'[Vault] = balances[Vault] - bonds[id].amount
<1> USE VaultAssumption
<1> DEFINE amount == bonds[id].amount
           reward == Reward(amount, bps)
           rest   == amount - reward
           paid   == Moved(balances, Vault, challenger, reward)
<1>1. /\ bps <= 10000
      /\ Settle(id, "Slashed")
      /\ CanMove(balances, Vault, challenger, reward)
      /\ CanMove(paid, Vault, pool, rest)
      /\ balances' = Moved(paid, Vault, pool, rest)
      /\ UNCHANGED <<allowances, totalSupply>>
  BY DEF Slash, ValidBps, PoolShare
<1>2. amount \in Nat
  BY DEF VaultInv, VaultTypeOK, Bond
<1>3. reward \in Nat /\ rest \in Nat
  <2>1. reward \in Nat /\ reward <= amount
    BY <1>1, <1>2, RewardBound
  <2> QED BY <1>2, <2>1
<1>4. /\ totalLocked' = totalLocked - amount
      /\ totalLocked' \in Nat
      /\ bonds' \in [ActionIds -> Bond]
      /\ vaultController' \in Accounts
      /\ vaultFinalized' \in BOOLEAN
  BY <1>1, SettleEffect DEF BondStatus
<1> HIDE DEF reward
<1>5. balances \in [Accounts -> Nat] /\ totalLocked \in Nat
  BY DEF VaultInv, VaultTypeOK, TokenTypeOK
<1>6. /\ paid \in [Accounts -> Nat]
      /\ paid[Vault] = balances[Vault] - reward
  BY <1>1, <1>3, <1>5, MovedBalances
<1> HIDE DEF paid
<1>7. /\ balances' \in [Accounts -> Nat]
      /\ balances'[Vault] = paid[Vault] - rest
  BY <1>1, <1>3, <1>6, MovedBalances
<1>8. balances'[Vault] = balances[Vault] - amount
  BY <1>2, <1>3, <1>6, <1>7, <1>5
<1> QED BY <1>1, <1>2, <1>4, <1>5, <1>7, <1>8
        DEF VaultInv, VaultTypeOK, TokenTypeOK, VaultSolvent

LEMMA VaultStepInv ==
  VaultInv /\ [VaultNext]_<<tokenVars, vaultVars>> => VaultInv'
<1> SUFFICES ASSUME VaultInv, [VaultNext]_<<tokenVars, vaultVars>>
             PROVE  VaultInv'
  OBVIOUS
<1>1. CASE TokenNext /\ UNCHANGED vaultVars
  BY <1>1, TokenStepInv
<1>2. ASSUME NEW caller \in Accounts, NEW other \in Accounts,
             SetVaultController(caller, other)
      PROVE  VaultInv'
  BY <1>2, SetVaultControllerInv
<1>3. ASSUME NEW caller \in Accounts, NEW other \in Accounts,
             NEW id \in ActionIds, NEW amount \in Amounts,
             DepositAndLock(caller, id, other, amount)
      PROVE  VaultInv'
  BY <1>3, DepositInv, TokenAssumption
<1>4. ASSUME NEW caller \in Accounts, NEW id \in ActionIds,
             Release(caller, id)
      PROVE  VaultInv'
  BY <1>4, ReleaseInv
<1>5. ASSUME NEW caller \in Accounts, NEW other \in Accounts,
             NEW id \in ActionIds, NEW pool \in Accounts, NEW bps \in BpsInputs,
             Slash(caller, id, other, pool, bps)
      PROVE  VaultInv'
  BY <1>5, SlashInv, VaultAssumption
<1>6. CASE UNCHANGED <<tokenVars, vaultVars>>
  BY <1>6 DEF VaultInv, VaultTypeOK, TokenTypeOK, VaultSolvent, tokenVars,
              vaultVars
<1> QED BY <1>1, <1>2, <1>3, <1>4, <1>5, <1>6 DEF VaultNext

(***************************************************************************)
(* Only a release or a slash settles a bond: the other calls leave every   *)
(* locked bond locked, a deposit because it needs an id without a bond.    *)
(***************************************************************************)
SettledAtAmount ==
  \A id \in ActionIds :
    bonds[id].status = "Locked" /\ bonds'[id].status # "Locked" =>
      balances'[Vault] = balances[Vault] - bonds[id].amount

LEMMA DepositSettlesNothing ==
  ASSUME VaultInv, NEW caller \in Accounts, NEW agent \in Accounts,
         NEW id \in ActionIds, NEW amount \in Nat,
         DepositAndLock(caller, id, agent, amount)
  PROVE  SettledAtAmount
BY DEF DepositAndLock, NotDeposited, VaultInv, VaultTypeOK, SettledAtAmount

LEMMA ReleaseSettles ==
  ASSUME VaultInv, NEW caller \in Accounts, NEW id \in ActionIds,
         Release(caller, id)
  PROVE  SettledAtAmount
<1>1. balances'[Vault] = balances[Vault] - bonds[id].amount
  BY ReleaseInv
<1>2. \A k \in ActionIds : k # id => bonds'[k] = bonds[k]
  BY DEF Release, Settle, VaultInv, VaultTypeOK
<1> QED BY <1>1, <1>2 DEF SettledAtAmount

LEMMA SlashSettles ==
  ASSUME VaultInv, NEW caller \in Accounts, NEW id \in ActionIds,
         NEW challenger \in Accounts, NEW pool \in Accounts, NEW bps \in Nat,
         Slash(caller, id, challenger, pool, bps)
  PROVE  SettledAtAmount
<1>1. balances'[Vault] = balances[Vault] - bonds[id].amount
  BY SlashInv
<1>2. \A k \in ActionIds : k # id => bonds'[k] = bonds[k]
  BY DEF Slash, Settle, VaultInv, VaultTypeOK
<1> QED BY <1>1, <1>2 DEF SettledAtAmount

LEMMA BondsFrame == UNCHANGED bonds => SettledAtAmount
BY DEF SettledAtAmount

LEMMA VaultStepSettles ==
  VaultInv /\ [VaultNext]_<<tokenVars, vaultVars>> => SettledAtAmount
<1> SUFFICES ASSUME VaultInv, [VaultNext]_<<tokenVars, vaultVars>>
             PROVE  SettledAtAmount
  OBVIOUS
<1>1. CASE UNCHANGED vaultVars
  BY <1>1, BondsFrame DEF vaultVars
<1>2. ASSUME NEW caller \in Accounts, NEW other \in Accounts,
             SetVaultController(caller, other)
      PROVE  SettledAtAmount
  BY <1>2, BondsFrame DEF SetVaultController
<1>3. ASSUME NEW caller \in Accounts, NEW other \in Accounts,
             NEW id \in ActionIds, NEW amount \in Amounts,
             DepositAndLock(caller, id, other, amount)
      PROVE  SettledAtAmount
  BY <1>3, DepositSettlesNothing, TokenAssumption
<1>4. ASSUME NEW caller \in Accounts, NEW id \in ActionIds, Release(caller, id)
      PROVE  SettledAtAmount
  BY <1>4, ReleaseSettles
<1>5. ASSUME NEW caller \in Accounts, NEW other \in Accounts,
             NEW id \in ActionIds, NEW pool \in Accounts, NEW bps \in BpsInputs,
             Slash(caller, id, other, pool, bps)
      PROVE  SettledAtAmount
  BY <1>5, SlashSettles, VaultAssumption
<1> QED BY <1>1, <1>2, <1>3, <1>4, <1>5 DEF VaultNext

(***************************************************************************)
(* Type correctness of the token and the vault under arbitrary callers.    *)
(***************************************************************************)
THEOREM VaultTypeCorrect == VaultSpec => []VaultTypeOK
<1>1. VaultInv => VaultTypeOK
  BY DEF VaultInv
<1> QED BY <1>1, VaultInitInv, VaultStepInv, PTL DEF VaultSpec, VaultAlone

(***************************************************************************)
(* The vault never promises more than it holds, whoever controls it: the   *)
(* transfers of deposit_and_lock, release and slash move exactly what      *)
(* total_locked changes by, also when a share is rounded.                  *)
(***************************************************************************)
THEOREM VaultAlwaysSolvent == VaultSpec => []VaultSolvent
<1>1. VaultInv => VaultSolvent
  BY DEF VaultInv
<1> QED BY <1>1, VaultInitInv, VaultStepInv, PTL DEF VaultSpec, VaultAlone

(***************************************************************************)
(* The vault settles a bond to the last unit, whoever controls it and      *)
(* whatever the basis points round to.                                     *)
(***************************************************************************)
THEOREM VaultSettlesWhole == VaultSpec => SettlementPaysBond
<1>1. VaultInv /\ [VaultNext]_<<tokenVars, vaultVars>> => [SettledAtAmount]_vaultVars
  BY VaultStepSettles
<1>2. VaultSpec => [][SettledAtAmount]_vaultVars
  BY <1>1, VaultInitInv, VaultStepInv, PTL DEF VaultSpec, VaultAlone
<1> QED BY <1>2 DEF SettlementPaysBond, SettledAtAmount
=============================================================================
