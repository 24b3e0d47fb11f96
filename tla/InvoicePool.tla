---------------------------- MODULE InvoicePool ----------------------------
(***************************************************************************)
(* The pool that pays invoices and keeps the reserve:                      *)
(* contracts/invoice_pool/src/invoice_pool.rs, with the set_controller of  *)
(* contracts/invoice_pool_v2 (version 1 fixes the controller when it is    *)
(* installed).  The pool learns of a duplicate claim by paying it: payout  *)
(* records the first action that paid a claim hash and flags every later   *)
(* one.                                                                    *)
(***************************************************************************)
EXTENDS Cep18

CONSTANTS
  Pool,           \* the pool's own address
  PoolInstalled,  \* the controller address given at installation
  InvoiceIds,
  InvoiceAmounts, \* amounts of invoices and actions (input bound)
  Vendors,        \* accounts invoices are payable to (input bound)
  ClaimHashes

ASSUME PoolAssumption ==
  /\ Pool \in Accounts \ Users
  /\ PoolInstalled \in Accounts
  /\ InvoiceAmounts \subseteq Nat
  /\ Vendors \subseteq Users

VARIABLES
  poolController,
  poolFinalized,   \* controller_finalized (version 2)
  invoices,        \* invoices[i]; state "None" is an id not in the mapping
  paidClaims,      \* paidClaims[h]: the first action that paid h, or NoAction
  actionDup,       \* the actions flagged as duplicates
  reserveBalance

poolVars ==
  <<poolController, poolFinalized, invoices, paidClaims, actionDup,
    reserveBalance>>

NoAction == -1

Invoice == [amount: Nat, vendor: Accounts, claimHash: ClaimHashes,
            state: {"Unpaid", "Paid"}]
           \cup [state: {"None"}]

PoolInit ==
  /\ poolController = PoolInstalled
  /\ poolFinalized = FALSE
  /\ invoices = [i \in InvoiceIds |-> [state |-> "None"]]
  /\ paidClaims = [h \in ClaimHashes |-> NoAction]
  /\ actionDup = {}
  /\ reserveBalance = 0

SetPoolController(caller, controller) ==
  /\ caller = Deployer
  /\ ~poolFinalized
  /\ poolController' = controller
  /\ poolFinalized' = TRUE
  /\ UNCHANGED <<invoices, paidClaims, actionDup, reserveBalance, tokenVars>>

SubmitInvoice(caller, i, amount, vendor, claimHash) ==
  /\ caller = Deployer
  /\ invoices[i].state = "None"
  /\ invoices' = [invoices EXCEPT ![i] =
       [amount |-> amount, vendor |-> vendor, claimHash |-> claimHash,
        state |-> "Unpaid"]]
  /\ UNCHANGED <<poolController, poolFinalized, paidClaims, actionDup,
                 reserveBalance, tokenVars>>

\* Mutant of RecordClaim: the record follows the latest payer.
RecordLatest(id, claimHash) ==
  /\ paidClaims' = [paidClaims EXCEPT ![claimHash] = id]
  /\ actionDup' =
       IF paidClaims[claimHash] # NoAction THEN actionDup \cup {id} ELSE actionDup

RecordClaim(id, claimHash) ==
  IF paidClaims[claimHash] # NoAction
  THEN actionDup' = actionDup \cup {id} /\ UNCHANGED paidClaims
  ELSE paidClaims' = [paidClaims EXCEPT ![claimHash] = id] /\ UNCHANGED actionDup

\* Mutant of Payable: a paid invoice is paid again.
PayableAgain(i, claimHash, amount) ==
  /\ invoices[i].state # "None"
  /\ invoices[i].amount = amount
  /\ invoices[i].claimHash = claimHash

Payable(i, claimHash, amount) ==
  /\ invoices[i].state = "Unpaid"
  /\ invoices[i].amount = amount
  /\ invoices[i].claimHash = claimHash

Payout(caller, i, id, claimHash, amount) ==
  /\ caller = poolController
  /\ Payable(i, claimHash, amount)
  /\ Transfer(Pool, invoices[i].vendor, amount)
  /\ RecordClaim(id, claimHash)
  /\ invoices' = [invoices EXCEPT ![i].state = "Paid"]
  /\ UNCHANGED <<poolController, poolFinalized, reserveBalance>>

(***************************************************************************)
(* A book entry: the tokens themselves reach the pool from the vault.      *)
(***************************************************************************)
\* Mutant of AddToReserve: the owner's call.
ReserveOfOwner(caller, amount) ==
  /\ caller = Deployer
  /\ reserveBalance' = reserveBalance + amount
  /\ UNCHANGED <<poolController, poolFinalized, invoices, paidClaims, actionDup>>

AddToReserve(caller, amount) ==
  /\ caller = poolController
  /\ reserveBalance' = reserveBalance + amount
  /\ UNCHANGED <<poolController, poolFinalized, invoices, paidClaims, actionDup>>

IsActionDuplicate(id) == id \in actionDup

PoolTypeOK ==
  /\ poolController \in Accounts
  /\ poolFinalized \in BOOLEAN
  /\ invoices \in [InvoiceIds -> Invoice]
  /\ paidClaims \in [ClaimHashes -> ActionIds \cup {NoAction}]
  /\ actionDup \subseteq ActionIds
  /\ reserveBalance \in Nat
=============================================================================
