--------------------------- MODULE MCControllerV2 ---------------------------
(***************************************************************************)
(* The deployed suite in small: two actions, two invoices with one claim   *)
(* hash, one attestation the buyer signed, and one the buyer did not.      *)
(***************************************************************************)
EXTENDS BondsmanControllerV2

CONSTANTS deployer, agent, vault, pool, controller, PoolFunds, AgentFunds

MCUsers == {deployer, agent}
MCAccounts == MCUsers \cup {vault, pool, controller}
MCInitialBalances ==
  [a \in MCAccounts |->
     CASE a = pool -> PoolFunds [] a = agent -> AgentFunds [] OTHER -> 0]
MCInitialSupply == PoolFunds + AgentFunds

Attested(id, i, t, authentic) ==
  [actionId |-> id, invoiceId |-> i, occurredAt |-> t, nonce |-> 0,
   authentic |-> authentic]

MCAttestations ==
  {Attested(0, 1, 1, TRUE), Attested(1, 1, 2, FALSE)}
=============================================================================
