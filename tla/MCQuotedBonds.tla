---------------------------- MODULE MCQuotedBonds ---------------------------
(***************************************************************************)
(* A small deployment: the deployer, who also challenges and is the        *)
(* vendor, and one agent, with one claim hash on every invoice.            *)
(***************************************************************************)
EXTENDS QuotedBonds

CONSTANTS deployer, agent, vault, pool, controller, PoolFunds, AgentFunds

MCUsers == {deployer, agent}
MCAccounts == MCUsers \cup {vault, pool, controller}
MCInitialBalances ==
  [a \in MCAccounts |->
     CASE a = pool -> PoolFunds [] a = agent -> AgentFunds [] OTHER -> 0]
MCInitialSupply == PoolFunds + AgentFunds
MCUnknown == -20

(***************************************************************************)
(* Bound: invoice 1 and what is initiated for it are of the demo amount,   *)
(* invoice 2 is larger; a delivery is quoted for the larger amount, a      *)
(* duplicate for either.                                                   *)
(***************************************************************************)
MCAmountOf(i) == IF i = 1 THEN 500 ELSE 550

MCAmountsFixed ==
  /\ \A i \in InvoiceIds :
       invoices[i].state # "None" => invoices[i].amount = MCAmountOf(i)
  /\ \A id \in ActionIds : actions[id].status # "None" =>
       actions[id].amount = MCAmountOf(actions[id].invoiceId)
  /\ \A q \in 1..Len(quotes) :
       quotes[q].class = "delivery" => quotes[q].amount = MCAmountOf(2)
=============================================================================
