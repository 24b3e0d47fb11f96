----------------------------- MODULE BondVault -----------------------------
(***************************************************************************)
(* The vault that holds the bonds: contracts/bond_vault/src/bond_vault.rs  *)
(* (contracts/bond_vault_v2 has the same entry points and guards).  The    *)
(* vault trusts one address, its controller, which the owner may replace   *)
(* exactly once; whoever that address is, the vault itself must stay       *)
(* solvent and settle a bond once.  VaultSpec therefore lets every address *)
(* call every entry point with every argument.                             *)
(***************************************************************************)
EXTENDS Cep18
LOCAL INSTANCE Functions

CONSTANTS
  Vault,        \* the vault's own address
  Placeholder,  \* the controller address given at installation
  BpsInputs     \* basis points a caller of slash passes (input bound)

ASSUME VaultAssumption ==
  /\ Vault \in Accounts \ Users
  /\ Placeholder \in Accounts
  /\ BpsInputs \subseteq Nat

VARIABLES
  vaultController,  \* the address the mutating entry points accept
  vaultFinalized,   \* controller_finalized
  bonds,            \* bonds[id]; status "None" is an id not in the mapping
  totalLocked

vaultVars == <<vaultController, vaultFinalized, bonds, totalLocked>>

BondStatus == {"None", "Locked", "Released", "Slashed"}

Bond == [agent: Accounts, amount: Nat, status: BondStatus]

VaultInit ==
  /\ vaultController = Placeholder
  /\ vaultFinalized = FALSE
  /\ bonds = [id \in ActionIds |->
                [agent |-> Placeholder, amount |-> 0, status |-> "None"]]
  /\ totalLocked = 0

SetVaultController(caller, controller) ==
  /\ caller = Deployer
  /\ ~vaultFinalized
  /\ vaultController' = controller
  /\ vaultFinalized' = TRUE
  /\ UNCHANGED <<bonds, totalLocked, tokenVars>>

NotDeposited(id) == bonds[id].status = "None"

DepositAndLock(caller, id, agent, amount) ==
  /\ caller = vaultController
  /\ NotDeposited(id)
  /\ TransferFrom(Vault, agent, Vault, amount)
  /\ bonds' = [bonds EXCEPT ![id] =
                 [agent |-> agent, amount |-> amount, status |-> "Locked"]]
  /\ totalLocked' = totalLocked + amount
  /\ UNCHANGED <<vaultController, vaultFinalized>>

LockedBond(id) == bonds[id].status = "Locked"

(***************************************************************************)
(* Settling takes the bond out of the total; the U256 subtraction reverts  *)
(* rather than wraps.                                                      *)
(***************************************************************************)
Settle(id, status) ==
  /\ LockedBond(id)
  /\ totalLocked >= bonds[id].amount
  /\ totalLocked' = totalLocked - bonds[id].amount
  /\ bonds' = [bonds EXCEPT ![id].status = status]
  /\ UNCHANGED <<vaultController, vaultFinalized>>

Release(caller, id) ==
  /\ caller = vaultController
  /\ Transfer(Vault, bonds[id].agent, bonds[id].amount)
  /\ Settle(id, "Released")

(***************************************************************************)
(* The challenger's share is rounded down and the pool gets what is left.  *)
(***************************************************************************)
Reward(amount, bps) == (amount * bps) \div 10000

\* Mutants of PoolShare: rounded down on its own; the reward on top of the bond.
PoolShareRounded(amount, bps) == Reward(amount, 10000 - bps)

PoolShareWhole(amount, bps) == IF bps > 0 THEN amount ELSE 0

PoolShare(amount, bps) == amount - Reward(amount, bps)

ValidBps(bps) == bps <= 10000

Slash(caller, id, challenger, pool, bps) ==
  /\ caller = vaultController
  /\ ValidBps(bps)
  /\ LET reward == Reward(bonds[id].amount, bps)
         rest   == PoolShare(bonds[id].amount, bps)
         paid   == Moved(balances, Vault, challenger, reward)
     IN /\ CanMove(balances, Vault, challenger, reward)
        /\ CanMove(paid, Vault, pool, rest)
        /\ balances' = Moved(paid, Vault, pool, rest)
  /\ UNCHANGED <<allowances, totalSupply>>
  /\ Settle(id, "Slashed")

VaultNext ==
  \/ TokenNext /\ UNCHANGED vaultVars
  \/ \E caller, other \in Accounts :
       \/ SetVaultController(caller, other)
       \/ \E id \in ActionIds :
            \/ \E amount \in Amounts : DepositAndLock(caller, id, other, amount)
            \/ Release(caller, id)
            \/ \E pool \in Accounts, bps \in BpsInputs :
                 Slash(caller, id, other, pool, bps)

VaultAlone == TokenInit /\ VaultInit

VaultSpec == VaultAlone /\ [][VaultNext]_<<tokenVars, vaultVars>>
-----------------------------------------------------------------------------
VaultTypeOK ==
  /\ TokenTypeOK
  /\ vaultController \in Accounts
  /\ vaultFinalized \in BOOLEAN
  /\ bonds \in [ActionIds -> Bond]
  /\ totalLocked \in Nat

(***************************************************************************)
(* Whatever the controller asks for, the vault holds at least the tokens   *)
(* it has promised: total_locked never exceeds its balance.                *)
(***************************************************************************)
VaultSolvent == balances[Vault] >= totalLocked

(***************************************************************************)
(* Settling pays out the bond to the last unit, whatever the basis points  *)
(* round to: the vault's balance falls by exactly the settled amount.      *)
(***************************************************************************)
SettlementPaysBond ==
  [][\A id \in ActionIds :
       bonds[id].status = "Locked" /\ bonds'[id].status # "Locked" =>
         balances'[Vault] = balances[Vault] - bonds[id].amount]_vaultVars
=============================================================================
