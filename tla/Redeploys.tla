------------------------------- MODULE Redeploys -------------------------------
(***************************************************************************)
(* The version 1 scripts, deploy.ts and redeploy.ts, which both run the    *)
(* deployment of contracts/cli/src/main.rs: the first installs everything  *)
(* anew, the second keeps the token and what an earlier redeployment has   *)
(* left half done.  That it does so rests on comparing two files, the      *)
(* registry that the CLI writes contract by contract and the deployment    *)
(* file that is written at the end.  Scripts stop anywhere, and the call   *)
(* that was under way may still be included.                               *)
(***************************************************************************)
EXTENDS Naturals, Sequences, SequencesExt, FiniteSets

CONSTANTS
  MaxJobs,   \* bound on runs of the scripts
  MaxStops   \* bound on runs that end without an answer

ASSUME RedeploysAssumption == {MaxJobs, MaxStops} \subseteq Nat

VARIABLES
  built,     \* the contracts on chain: what each was made with, and what it
             \* was wired to
  registry,  \* contracts/resources/casper-test-contracts.toml
  file,      \* deployments/testnet.json
  job,       \* the script that runs
  lateSets,  \* its calls that may still be included
  jobs, stops

redeployVars == <<built, registry, file, job, lateSets, jobs, stops>>

Kinds == <<"token", "vault", "controller", "pool">>
Nothing == [k \in ToSet(Kinds) |-> 0]
NoScriptJob == [name |-> "none", at |-> 0]

RedeploysInit ==
  /\ built = <<>>
  /\ registry = Nothing
  /\ file = Nothing
  /\ job = NoScriptJob
  /\ lateSets = {}
  /\ jobs = 0
  /\ stops = 0

JobBegins(name) ==
  /\ job = NoScriptJob
  /\ jobs < MaxJobs
  /\ jobs' = jobs + 1
  /\ job' = [name |-> name, at |-> 1]

\* --deploy-mode override: the registry begins empty.
DeployBegins ==
  /\ JobBegins("deploy")
  /\ registry' = Nothing
  /\ UNCHANGED <<built, file, lateSets, stops>>

\* Mutant of Kept: a pool is always kept, since it can be wired again.
KeptWithPool(k) == k \in {"token", "pool"} \/ registry[k] # file[k]

\* prepareRedeployRegistry: what differs from the deployment file was left by
\* an earlier run.
Kept(k) == k = "token" \/ registry[k] # file[k]

RedeployBegins ==
  /\ file # Nothing
  /\ registry["token"] \in {0, file["token"]}
  /\ JobBegins("redeploy")
  /\ registry' = [k \in DOMAIN registry |-> IF Kept(k) THEN registry[k] ELSE 0]
  /\ UNCHANGED <<built, file, lateSets, stops>>

Advances == job' = [job EXCEPT !.at = @ + 1]
JobEnds == job' = NoScriptJob

\* What the constructor is given: the contract before it.
Given(n) == IF n = 1 THEN 0 ELSE registry[Kinds[n - 1]]
NewContract(n) ==
  [kind |-> Kinds[n], token |-> registry["token"], of |-> Given(n), wired |-> 0]

\* load_or_deploy.
Loads ==
  /\ job.at \in 1..Len(Kinds)
  /\ LET k == Kinds[job.at] IN
     IF registry[k] # 0 THEN UNCHANGED <<built, registry>>
     ELSE /\ built' = Append(built, NewContract(job.at))
          /\ registry' = [registry EXCEPT ![k] = Len(built) + 1]
  /\ Advances
  /\ UNCHANGED <<file, lateSets, jobs, stops>>

\* vault.set_controller and controller.set_pool, each for good; then two mints.
Sets(n) ==
  IF n = 5 THEN [on |-> registry["vault"], to |-> registry["controller"]]
  ELSE [on |-> registry["controller"], to |-> registry["pool"]]

WiredTo(s) == built' = [built EXCEPT ![s.on].wired = s.to]

SetsOrReverts ==
  /\ job.at \in 5..6
  /\ IF built[Sets(job.at).on].wired = 0
     THEN WiredTo(Sets(job.at)) /\ Advances
     ELSE JobEnds /\ UNCHANGED built
  /\ UNCHANGED <<registry, file, lateSets, jobs, stops>>

Mints ==
  /\ job.at \in 7..8
  /\ Advances
  /\ UNCHANGED <<built, registry, file, lateSets, jobs, stops>>

\* What the registry has is resolved and written, in one step; version 2 is
\* dropped from the file by deploy, and kept by redeploy beside the new suite.
WritesDeployment ==
  /\ job.at = 9
  /\ IF job.name = "redeploy" /\ registry["token"] # file["token"] THEN UNCHANGED file
     ELSE file' = registry
  /\ JobEnds
  /\ UNCHANGED <<built, registry, lateSets, jobs, stops>>

\* deploy-v2 (Wiring) names other contracts, with the same token, in the file.
VersionTwo ==
  /\ job = NoScriptJob
  /\ file # Nothing /\ file["vault"] # 0
  /\ file' = [Nothing EXCEPT !["token"] = file["token"]]
  /\ UNCHANGED <<built, registry, job, lateSets, jobs, stops>>

\* It is installed and not registered, wired or not; or nothing was sent.
JobStops ==
  /\ job # NoScriptJob
  /\ stops < MaxStops
  /\ stops' = stops + 1
  /\ JobEnds
  /\ \/ UNCHANGED <<built, lateSets>>
     \/ /\ job.at \in 1..Len(Kinds)
        /\ registry[Kinds[job.at]] = 0
        /\ built' = Append(built, NewContract(job.at))
        /\ UNCHANGED lateSets
     \/ /\ job.at \in 5..6
        /\ lateSets' = lateSets \cup {Sets(job.at)}
        /\ UNCHANGED built
  /\ UNCHANGED <<registry, file, jobs>>

LateSetIncluded(s) ==
  /\ lateSets' = lateSets \ {s}
  /\ IF built[s.on].wired = 0 THEN WiredTo(s) ELSE UNCHANGED built
  /\ UNCHANGED <<registry, file, job, jobs, stops>>

RedeploysNext ==
  \/ DeployBegins \/ RedeployBegins
  \/ Loads \/ SetsOrReverts \/ Mints \/ WritesDeployment
  \/ VersionTwo
  \/ JobStops \/ \E s \in lateSets : LateSetIncluded(s)

-----------------------------------------------------------------------------
(***************************************************************************)
(* The deployment file always names one suite: its vault pays by the word  *)
(* of its controller, the controller by that of its pool, the pool was     *)
(* made for that controller, and all hold the file's token, out of however *)
(* many runs the contracts come.  What may happen is that no redeployment  *)
(* succeeds any more, as a half-wired contract is kept and reverts.        *)
(***************************************************************************)
FileIsOneSuite ==
  file["vault"] # 0 =>
    /\ built[file["vault"]].wired = file["controller"]
    /\ built[file["controller"]].wired = file["pool"]
    /\ built[file["controller"]].of = file["vault"]
    /\ built[file["pool"]].of = file["controller"]
    /\ \A k \in {"vault", "controller", "pool"} : built[file[k]].token = file["token"]
=============================================================================
