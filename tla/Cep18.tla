------------------------------- MODULE Cep18 -------------------------------
(***************************************************************************)
(* csprUSD, the CEP-18 token that bonds, payouts and rewards are made in:  *)
(* contracts/mock_cspr_usd/src/mock_cspr_usd.rs.  That contract owns the   *)
(* mint; everything else is delegated to odra_modules' Cep18, which is not *)
(* part of the repository: its entry points are modelled from how the      *)
(* vault and the pool rely on them (a call that cannot be honoured reverts *)
(* the whole transaction, so it is a guard here).                          *)
(*                                                                         *)
(* A transaction is atomic on Casper: each action below, and each action   *)
(* of the modules that extend this one, is one whole transaction.          *)
(***************************************************************************)
EXTENDS Integers

\* The account space of the deployment, which every contract here refers to,
\* and the u64 ids by which the controller, the vault and the pool name an
\* action to each other.
CONSTANTS
  Users,      \* who signs transactions
  Deployer,   \* the one of them that installed the contracts and owns them
  Accounts,   \* users and contracts: whoever may hold tokens or make a call
  ActionIds   \* as many ids as a behaviour may use

ASSUME AccountsAssumption ==
  /\ Deployer \in Users
  /\ Users \subseteq Accounts
  /\ ActionIds \subseteq Nat

CONSTANTS
  Holders,         \* users that call the token on their own (input bound)
  Spenders,        \* addresses they give allowances to (input bound)
  Amounts,         \* amounts they pass to the token (input bound)
  InitialBalances, \* what the set-up script has minted to whom
  InitialSupply,   \* and all of it together
  MaxSupply        \* bound on what the owner mints

ASSUME TokenAssumption ==
  /\ Holders \subseteq Users
  /\ Spenders \subseteq Accounts
  /\ Amounts \subseteq Nat
  /\ MaxSupply \in Nat
  /\ InitialBalances \in [Accounts -> Nat]
  /\ InitialSupply \in Nat

VARIABLES
  balances,    \* balances[a]: tokens that address a holds
  allowances,  \* allowances[a][s]: what s may still move out of a
  totalSupply

tokenVars == <<balances, allowances, totalSupply>>

(***************************************************************************)
(* The balances after amount has moved between two different addresses.    *)
(***************************************************************************)
Moved(bal, from, to, amount) ==
  [bal EXCEPT ![from] = @ - amount, ![to] = @ + amount]

CanMove(bal, from, to, amount) == from # to /\ bal[from] >= amount

TokenInit ==
  /\ balances = InitialBalances
  /\ allowances = [a \in Accounts |-> [s \in Accounts |-> 0]]
  /\ totalSupply = InitialSupply

Mint(caller, to, amount) ==
  /\ caller = Deployer
  /\ totalSupply + amount <= MaxSupply
  /\ balances' = [balances EXCEPT ![to] = @ + amount]
  /\ totalSupply' = totalSupply + amount
  /\ UNCHANGED allowances

Approve(owner, spender, amount) ==
  /\ owner # spender
  /\ allowances' = [allowances EXCEPT ![owner][spender] = amount]
  /\ UNCHANGED <<balances, totalSupply>>

Transfer(from, to, amount) ==
  /\ CanMove(balances, from, to, amount)
  /\ balances' = Moved(balances, from, to, amount)
  /\ UNCHANGED <<allowances, totalSupply>>

TransferFrom(spender, owner, to, amount) ==
  /\ allowances[owner][spender] >= amount
  /\ CanMove(balances, owner, to, amount)
  /\ balances' = Moved(balances, owner, to, amount)
  /\ allowances' = [allowances EXCEPT ![owner][spender] = @ - amount]
  /\ UNCHANGED totalSupply

(***************************************************************************)
(* What users do with the token of their own accord.                       *)
(***************************************************************************)
TokenNext ==
  \E u \in Holders, amount \in Amounts :
    \/ \E a \in Accounts : Mint(u, a, amount) \/ Transfer(u, a, amount)
    \/ \E s \in Spenders : Approve(u, s, amount)

TokenTypeOK ==
  /\ balances \in [Accounts -> Nat]
  /\ allowances \in [Accounts -> [Accounts -> Nat]]
  /\ totalSupply \in Nat
=============================================================================
