------------------------------ MODULE MCServices ------------------------------
(***************************************************************************)
(* The services and scripts that share no state, in one run: TLC takes     *)
(* part after part, each from its own initial states, with the variables   *)
(* of the others standing still.                                           *)
(***************************************************************************)
EXTENDS Operations, Service, Funding, Payments, Assurance, SlashRuns, Redeploys

CONSTANTS k1, t1, t2, v1, p1, p2

Balances ==
  [a \in {"deployer", "agent", "watchdog"} |-> IF a = "deployer" THEN 8 ELSE 1]
WatchedAccounts == <<"agent", "watchdog">>
RateLimits == [mutations |-> 1, analyses |-> 2]

VARIABLE part

servicesVars == <<part, operationsVars, serviceVars, fundingVars, paymentVars,
                  assuranceVars, slashVars, redeployVars>>

Parts == {"operations", "service", "funding", "payments", "assurance", "slash", "redeploys"}

Init ==
  /\ part \in Parts
  /\ OperationsInit /\ FundingInit /\ PaymentsInit /\ SlashInit /\ RedeploysInit
  /\ ServiceInit /\ AssuranceInit
  /\ part # "service" => columns /\ \A d \in Directories : place[d] = "none"
  /\ part # "assurance" => configured

\* One part moves, and all the others stand still.
OperationsPart ==
  /\ part = "operations" /\ OperationsNext
  /\ UNCHANGED <<part, serviceVars, fundingVars, paymentVars, assuranceVars, slashVars, redeployVars>>

ServicePart ==
  /\ part = "service" /\ ServiceNext
  /\ UNCHANGED <<part, operationsVars, fundingVars, paymentVars, assuranceVars, slashVars, redeployVars>>

FundingPart ==
  /\ part = "funding" /\ FundingNext
  /\ UNCHANGED <<part, operationsVars, serviceVars, paymentVars, assuranceVars, slashVars, redeployVars>>

PaymentsPart ==
  /\ part = "payments" /\ PaymentsNext
  /\ UNCHANGED <<part, operationsVars, serviceVars, fundingVars, assuranceVars, slashVars, redeployVars>>

AssurancePart ==
  /\ part = "assurance" /\ AssuranceNext
  /\ UNCHANGED <<part, operationsVars, serviceVars, fundingVars, paymentVars, slashVars, redeployVars>>

SlashPart ==
  /\ part = "slash" /\ SlashNext
  /\ UNCHANGED <<part, operationsVars, serviceVars, fundingVars, paymentVars, assuranceVars, redeployVars>>

RedeploysPart ==
  /\ part = "redeploys" /\ RedeploysNext
  /\ UNCHANGED <<part, operationsVars, serviceVars, fundingVars, paymentVars, assuranceVars, slashVars>>

Next ==
  \/ OperationsPart \/ ServicePart \/ FundingPart \/ PaymentsPart
  \/ AssurancePart \/ SlashPart \/ RedeploysPart

Spec == Init /\ [][Next]_servicesVars

-----------------------------------------------------------------------------
(* What each part promises, alone and under its own fairness.              *)

ReadyPoolFills == part = "operations" /\ OperationsFairness => PoolFills
StreamIsReconciled == part = "service" /\ ServiceFairness => EventIsReconciled
WatchedIsFunded == part = "funding" /\ FundingFairness => LowAccountIsFunded
===============================================================================
