-------------------------------- MODULE Funding --------------------------------
(***************************************************************************)
(* The CSPR that pays for gas, which three programs move from the deployer *)
(* to the other accounts without knowing of each other: ops/funding-       *)
(* monitor.ts every hour, the arm service before each run (ensureDemo-     *)
(* Funding and runFundedDemoAction of api/arm.ts), and the scripts seed,   *)
(* deploy and setup-watchdog.  All use fundToTarget of casper/funding.ts:  *)
(* it reads a balance, sends what is missing, and waits.                   *)
(***************************************************************************)
EXTENDS Naturals, Sequences, SequencesExt

CONSTANTS
  Watched,      \* the accounts the monitor looks at, in its order
  Motes,        \* what each account has at first
  OperatingFloor, OperatingTarget, AlertFloor, \* the monitor's
  GasTarget, GasReserve,                       \* the arm service's
  SubaccountTarget,                            \* the scripts'
  MinimumTransfer,
  MaxSpent,     \* bound on what the accounts spend elsewhere
  MaxLosses     \* bound on reads, transfers and waits that fail, and restarts

ASSUME FundingAssumption ==
  /\ Watched \in Seq(DOMAIN Motes \ {"deployer"})
  /\ {"deployer", "agent"} \subseteq DOMAIN Motes
  /\ \A a \in DOMAIN Motes : Motes[a] \in Nat
  /\ {OperatingFloor, OperatingTarget, AlertFloor, GasTarget, GasReserve,
      SubaccountTarget, MinimumTransfer, MaxSpent, MaxLosses} \subseteq Nat
  /\ OperatingFloor <= OperatingTarget /\ 0 < OperatingFloor
  /\ MinimumTransfer <= OperatingTarget

VARIABLES
  motes,     \* balances
  transfers, \* sent, and not yet executed
  funding,   \* each program's call of fundToTarget
  check,     \* the monitor: account and the deployer's balance it has read
  gas,       \* the arm service: its attempt, and what it has read
  script,    \* the accounts that a script has yet to fund
  spent,
  losses

fundingVars == <<motes, transfers, funding, check, gas, script, spent, losses>>

Holders == DOMAIN Motes
NotFunding == [pc |-> "none", to |-> "agent", target |-> 0]
NoCheck == [pc |-> "none", at |-> 1, deployer |-> 0]
NoGas == [pc |-> "none", attempt |-> 1, agent |-> 0]

FundingInit ==
  /\ motes = Motes
  /\ transfers = <<>>
  /\ funding = [f \in {"monitor", "arm", "script"} |-> NotFunding]
  /\ check = NoCheck
  /\ gas = NoGas
  /\ script = <<>>
  /\ spent = 0
  /\ losses = 0

Loses == losses < MaxLosses /\ losses' = losses + 1

-----------------------------------------------------------------------------
(* fundToTarget.                                                           *)

TransferableTopUp(current, target) ==
  IF current >= target THEN 0
  ELSE IF target - current < MinimumTransfer THEN MinimumTransfer
  ELSE target - current

Funds(f, to, target) ==
  funding' = [funding EXCEPT ![f] = [pc |-> "reads", to |-> to, target |-> target]]

\* The balance is read, and the deploy put.
SendsTopUp(f) ==
  LET amount == TransferableTopUp(motes[funding[f].to], funding[f].target) IN
  /\ funding[f].pc = "reads"
  /\ IF amount = 0
     THEN funding' = [funding EXCEPT ![f].pc = "done"] /\ UNCHANGED transfers
     ELSE /\ funding' = [funding EXCEPT ![f].pc = "waits"]
          /\ transfers' = Append(transfers, [by |-> f, to |-> funding[f].to, amount |-> amount, awaited |-> TRUE])
  /\ UNCHANGED <<motes, check, gas, script, spent, losses>>

\* Executed, with or without success, of which waitForDeploy says nothing.
TransferExecuted(n) ==
  LET t == transfers[n] IN
  /\ transfers' = RemoveAt(transfers, n)
  /\ motes' = IF motes["deployer"] < t.amount THEN motes
              ELSE [motes EXCEPT !["deployer"] = @ - t.amount, ![t.to] = @ + t.amount]
  /\ funding' = IF t.awaited THEN [funding EXCEPT ![t.by].pc = "done"] ELSE funding
  /\ UNCHANGED <<check, gas, script, spent, losses>>

\* Nobody waits any more; what was sent may be executed all the same.
Abandons(programs) ==
  /\ funding' = [f \in DOMAIN funding |-> IF f \in programs THEN NotFunding ELSE funding[f]]
  /\ transfers' = [n \in DOMAIN transfers |->
                     IF transfers[n].by \in programs THEN [transfers[n] EXCEPT !.awaited = FALSE]
                     ELSE transfers[n]]

Done(f) == funding[f].pc = "done" /\ funding' = [funding EXCEPT ![f] = NotFunding]

-----------------------------------------------------------------------------
(* The monitor.                                                            *)

CheckBegins ==
  /\ check = NoCheck
  /\ check' = [NoCheck EXCEPT !.pc = "account", !.deployer = motes["deployer"]]
  /\ UNCHANGED <<motes, transfers, funding, gas, script, spent, losses>>

Passed == check' = [check EXCEPT !.pc = "account", !.at = @ + 1]

ChecksAccount ==
  /\ check.pc = "account"
  /\ IF check.at > Len(Watched)
     THEN check' = NoCheck /\ UNCHANGED funding
     ELSE IF motes[Watched[check.at]] >= OperatingFloor \/ check.deployer < AlertFloor
     THEN Passed /\ UNCHANGED funding
     ELSE check' = [check EXCEPT !.pc = "funds"] /\ Funds("monitor", Watched[check.at], OperatingTarget)
  /\ UNCHANGED <<motes, transfers, gas, script, spent, losses>>

AccountFunded ==
  /\ check.pc = "funds"
  /\ Done("monitor")
  /\ Passed
  /\ UNCHANGED <<motes, transfers, gas, script, spent, losses>>

\* Mutant of CheckFails: the check under way is forgotten after a success only.
CheckFailsActive ==
  /\ check # NoCheck
  /\ Loses
  /\ check' = [check EXCEPT !.pc = "failed"]
  /\ Abandons({"monitor"})
  /\ UNCHANGED <<motes, gas, script, spent>>

\* A balance is not read, the deploy not taken, or it takes longer than a
\* quarter of an hour.
CheckFails ==
  /\ check # NoCheck
  /\ Loses
  /\ check' = NoCheck
  /\ Abandons({"monitor"})
  /\ UNCHANGED <<motes, gas, script, spent>>

-----------------------------------------------------------------------------
(* The arm service.                                                        *)

GasBegins ==
  /\ gas = NoGas
  /\ spent < MaxSpent
  /\ gas' = [NoGas EXCEPT !.pc = "checks", !.agent = motes["agent"]]
  /\ UNCHANGED <<motes, transfers, funding, check, script, spent, losses>>

\* The deployer must have what the agent lacks and both reserves.
GasChecked ==
  LET amount == TransferableTopUp(gas.agent, GasTarget) IN
  /\ gas.pc = "checks"
  /\ IF motes["deployer"] < amount + 2 * GasReserve
     THEN gas' = NoGas /\ UNCHANGED funding
     ELSE IF amount = 0
     THEN gas' = [gas EXCEPT !.pc = "runs"] /\ UNCHANGED funding
     ELSE gas' = [gas EXCEPT !.pc = "funds"] /\ Funds("arm", "agent", GasTarget)
  /\ UNCHANGED <<motes, transfers, check, script, spent, losses>>

GasFunded ==
  /\ gas.pc = "funds"
  /\ Done("arm")
  /\ gas' = IF motes["agent"] < GasTarget THEN NoGas ELSE [gas EXCEPT !.pc = "runs"]
  /\ UNCHANGED <<motes, transfers, check, script, spent, losses>>

Pays(a) ==
  /\ motes[a] > 0 /\ spent < MaxSpent
  /\ motes' = [motes EXCEPT ![a] = @ - 1]
  /\ spent' = spent + 1

\* The operation pays with the agent's key and the owner's, or fails for lack
\* of funds; that is tried once more, and answered with 503 then.
GasSpent ==
  /\ gas.pc = "runs"
  /\ \E a \in {"agent", "deployer"} :
       \/ Pays(a) /\ gas' = NoGas
       \/ /\ motes[a] = 0
          /\ gas' = IF gas.attempt = 1
                    THEN [pc |-> "checks", attempt |-> 2, agent |-> motes["agent"]]
                    ELSE NoGas
          /\ UNCHANGED <<motes, spent>>
  /\ UNCHANGED <<transfers, funding, check, script, losses>>

GasFails ==
  /\ gas # NoGas
  /\ Loses
  /\ gas' = NoGas
  /\ Abandons({"arm"})
  /\ UNCHANGED <<motes, check, script, spent>>

-----------------------------------------------------------------------------
(* A script, which ends with the first failure.                            *)

ScriptBegins ==
  /\ script = <<>>
  /\ Loses
  /\ script' = Watched
  /\ UNCHANGED <<motes, transfers, funding, check, gas, spent>>

ScriptFunds ==
  /\ script # <<>>
  /\ \/ /\ funding["script"] = NotFunding
        /\ Funds("script", Head(script), SubaccountTarget)
        /\ UNCHANGED script
     \/ Done("script") /\ script' = Tail(script)
  /\ UNCHANGED <<motes, transfers, check, gas, spent, losses>>

ScriptFails ==
  /\ script # <<>>
  /\ Loses
  /\ script' = <<>>
  /\ Abandons({"script"})
  /\ UNCHANGED <<motes, check, gas, spent>>

-----------------------------------------------------------------------------
\* Watchdog, keeper and wallets pay for their transactions.
Spends(a) ==
  /\ Pays(a)
  /\ UNCHANGED <<transfers, funding, check, gas, script, losses>>

\* The API restarts, and with it the monitor and the arm service.
FundingRestarts ==
  /\ Loses
  /\ check' = NoCheck /\ gas' = NoGas
  /\ Abandons({"monitor", "arm"})
  /\ UNCHANGED <<motes, script, spent>>

MonitorSteps == ChecksAccount \/ AccountFunded
FundingSteps == \E f \in DOMAIN funding : SendsTopUp(f)
TransfersExecute == \E n \in DOMAIN transfers : TransferExecuted(n)

FundingNext ==
  \/ CheckBegins \/ MonitorSteps \/ CheckFails
  \/ GasBegins \/ GasChecked \/ GasFunded \/ GasSpent \/ GasFails
  \/ ScriptBegins \/ ScriptFunds \/ ScriptFails
  \/ FundingSteps \/ TransfersExecute
  \/ (\E a \in Holders : Spends(a)) \/ FundingRestarts

(***************************************************************************)
(* The hourly timer goes on, a check goes on until it has an answer, and   *)
(* the chain executes what was sent.                                       *)
(***************************************************************************)
FundingFairness ==
  /\ WF_fundingVars(CheckBegins) /\ WF_fundingVars(MonitorSteps)
  /\ WF_fundingVars(FundingSteps) /\ WF_fundingVars(TransfersExecute)

-----------------------------------------------------------------------------
(***************************************************************************)
(* A watched account that has run low is funded again, or the deployer     *)
(* itself has come below its alert: whatever transfers of others come in   *)
(* between, are lost or come late, and however often a check has failed.   *)
(***************************************************************************)
LowAccountIsFunded ==
  \A n \in DOMAIN Watched :
    motes[Watched[n]] < OperatingFloor
      ~> (motes[Watched[n]] >= OperatingFloor \/ motes["deployer"] < AlertFloor)
=============================================================================
