------------------------------- MODULE Wiring -------------------------------
(***************************************************************************)
(* Bringing the deployed suite up: the deployment script of contracts/cli  *)
(* /src/v2.rs, which scripts/deploy-v2.ts runs, and scripts/wire-v2.ts,    *)
(* which the operator turns to where the first has stopped half way.  Both *)
(* send the same calls one after another, and both end by naming the suite *)
(* in deployments/testnet.json, which every other program reads.  A script *)
(* that stops leaves a call behind that may still be included; and three   *)
(* of the calls revert when they are made again.                           *)
(***************************************************************************)
EXTENDS Naturals

CONSTANT MaxDeaths  \* bound on calls whose sender does not learn the outcome

ASSUME WiringAssumption == MaxDeaths \in Nat

VARIABLES
  installed,  \* how many of the contracts the registry has
  wired,      \* the calls that have taken effect, by their position
  lateWires,  \* calls of a stopped script that may still be included, while
              \* nobody has made them anew, after which they change nothing
  script,     \* the script that runs, and where it is
  served,     \* the deployment file names the suite
  deaths

wiringVars == <<installed, wired, lateWires, script, served>>

Contracts == 6
\* set_controller of the vault, set_pool, set_controller of the pool, the two
\* verifiers, and the tokens minted for the agent and for the pool.
Wirings == 1..7
Finalizing == 1..3
Minting == 6

NoScript == [name |-> "none", at |-> 0]
Stops == script' = NoScript

WiringInit ==
  /\ installed = 0
  /\ wired = {}
  /\ lateWires = {}
  /\ script = NoScript
  /\ served = FALSE
  /\ deaths = 0

\* deploy-v2.ts, at any time until the suite is served.
StartDeploy ==
  /\ script = NoScript
  /\ ~served
  /\ script' = [name |-> "deploy", at |-> 0]
  /\ UNCHANGED <<installed, wired, lateWires, served, deaths>>

\* load_or_deploy: a contract that the registry has is not installed again.
Install ==
  /\ script.at = 0 /\ script.name = "deploy"
  /\ IF installed < Contracts
     THEN installed' = installed + 1 /\ UNCHANGED script
     ELSE script' = [script EXCEPT !.at = 1] /\ UNCHANGED installed
  /\ UNCHANGED <<wired, lateWires, served, deaths>>

\* An install that fails; the registry names only what was confirmed.
InstallFails ==
  /\ script.at = 0 /\ script.name = "deploy"
  /\ deaths < MaxDeaths
  /\ deaths' = deaths + 1
  /\ Stops
  /\ UNCHANGED <<installed, wired, lateWires, served>>

\* wire-v2.ts needs every contract.  The operator asks for the mints only
\* (V2_RESUME_MINTS) after a run that has passed the other calls.
StartWire ==
  /\ script = NoScript
  /\ ~served
  /\ installed = Contracts
  /\ \/ script' = [name |-> "wire", at |-> 1]
     \/ /\ 1..Minting - 1 \subseteq wired
        /\ script' = [name |-> "wire", at |-> Minting]
  /\ UNCHANGED <<installed, wired, lateWires, served, deaths>>

Finalized(w) == w \in Finalizing \cap wired

GoesOn == script' = [script EXCEPT !.at = @ + 1]

CallSucceeds ==
  /\ script.at \in Wirings
  /\ ~Finalized(script.at)
  /\ wired' = wired \cup {script.at}
  /\ lateWires' = lateWires \ {script.at}
  /\ GoesOn
  /\ UNCHANGED <<installed, served, deaths>>

Tolerates == script.name = "wire"

\* allowAlreadyFinalized of wire-v2.ts; the deployment script panics.
CallReverts ==
  /\ script.at \in Wirings
  /\ Finalized(script.at)
  /\ IF Tolerates THEN GoesOn ELSE Stops
  /\ UNCHANGED <<installed, wired, lateWires, served, deaths>>

\* Mutant of AfterTimeout: the script goes on with the next call.
AfterTimeoutGoesOn == GoesOn

AfterTimeout == Stops

\* The wait times out, or the sender dies: the call may be included later.
CallUnanswered ==
  /\ script.at \in Wirings
  /\ deaths < MaxDeaths
  /\ deaths' = deaths + 1
  /\ lateWires' \in {lateWires, lateWires \cup ({script.at} \ wired)}
  /\ AfterTimeout
  /\ UNCHANGED <<installed, wired, served>>

WireLands(w) ==
  /\ w \in lateWires
  /\ lateWires' = lateWires \ {w}
  /\ wired' = wired \cup {w}
  /\ UNCHANGED <<installed, script, served, deaths>>

Serve ==
  /\ script.at > 7
  /\ served' = TRUE
  /\ Stops
  /\ UNCHANGED <<installed, wired, lateWires, deaths>>

ScriptStep == Install \/ CallSucceeds \/ CallReverts \/ Serve

WiringNext ==
  \/ StartDeploy \/ StartWire
  \/ ScriptStep
  \/ InstallFails \/ CallUnanswered
  \/ \E w \in lateWires : WireLands(w)

-----------------------------------------------------------------------------
(***************************************************************************)
(* The programs that read the deployment file find a suite that is wired   *)
(* to itself and funded, whichever scripts were run, stopped and run again *)
(* before, and whatever calls of theirs were included late.                *)
(***************************************************************************)
ServedIsWired == served => Wirings \subseteq wired

=============================================================================
