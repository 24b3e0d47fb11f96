----------------------------- MODULE Challenges -----------------------------
(***************************************************************************)
(* Challenges through the API, beside the listener and the watchdog: the   *)
(* jobs of backend/src/api/demo-jobs.ts and their table, the signer queue  *)
(* behind api/resolution.ts, the endpoints of api/routes.ts that start     *)
(* them, api/wallet-challenge.ts, and restarts: scripts/railway-boot.mjs   *)
(* runs API, listener and watchdog as one service, so that when one of     *)
(* them exits all three start again.  The job statuses queued and          *)
(* challenge_finalized are left out: no other code runs between them and   *)
(* the next one.                                                           *)
(***************************************************************************)
EXTENDS Watchdog

CONSTANTS
  Api,          \* the API, as the worker that reconciles what it resolved
  Boot,         \* the API, as the worker that reconciles when it starts
  MaxJobs,      \* bound on the rows of demo_jobs
  MaxRequests,  \* bound on the requests that wait for resolve_action
  MaxRestarts   \* bound on restarts of the service

ASSUME ChallengesAssumption ==
  /\ {Api, Boot} \subseteq Workers \ {Listener, Watch}
  /\ Api # Boot
  /\ MaxJobs \in Nat
  /\ MaxRequests \in Nat
  /\ MaxRestarts \in Nat

VARIABLES
  jobs,      \* the table demo_jobs
  running,   \* the jobs whose work is under way in this process
  signer,    \* the calls queued for the challenger's key, the head running
  settling,  \* the head's resolve_action has landed
  stray,     \* calls sent by a process that is gone
  deploys,   \* the wallet's challenge transactions
  requests,  \* the answers of resolve and wallet-resolve
  restarts

jobVars == <<jobs, running, signer, settling>>
walletVars == <<deploys, requests>>
apiVars == <<jobVars, walletVars, stray, restarts>>
challengeVars == <<vars, apiVars>>

ChallengesInit ==
  /\ Init
  /\ jobs = <<>>
  /\ running = {}
  /\ signer = <<>>
  /\ settling = FALSE
  /\ stray = {}
  /\ deploys = <<>>
  /\ requests = <<>>
  /\ restarts = 0

-----------------------------------------------------------------------------
(* Jobs.                                                                   *)

Ended == {"resolved", "failed"}

LiveJobs(a) ==
  {j \in 1..Len(jobs) :
     /\ jobs[j].kind = "challenge"
     /\ jobs[j].action = {a}
     /\ jobs[j].status \notin Ended}

ChallengeEligible(a) ==
  row[a].status = "Executed" /\ a \notin expired /\ a \in Duplicates

Job(kind, action, first) == [kind |-> kind, action |-> action, status |-> first]
JobUpdated(j, st) == [jobs EXCEPT ![j].status = st]
Call(entrypoint, a, caller) ==
  [entrypoint |-> entrypoint, action |-> a, caller |-> caller]
ForJob(j) == <<"job", j>>
ForWallet(r) == <<"wallet", r>>
ForOperator(r) == <<"operator", r>>

Adds(row0) ==
  /\ Len(jobs) < MaxJobs
  /\ jobs' = Append(jobs, row0)
  /\ running' = running \cup {Len(jobs) + 1}

\* POST /api/challenge, where no job for the action is live yet; where one
\* is, it is returned and nothing changes.
StartChallenge(a) ==
  /\ ChallengeEligible(a)
  /\ LiveJobs(a) = {}
  /\ Adds(Job("challenge", {a}, "submitting_challenge"))
  /\ signer' = Append(signer, Call("challenge", a, ForJob(Len(jobs) + 1)))
  /\ UNCHANGED <<vars, settling, walletVars, stray, restarts>>

\* GET /api/jobs/:id shows, and stores, a slash that the projection has.
Refreshed(j) ==
  IF /\ jobs[j].kind = "challenge"
     /\ \E a \in jobs[j].action : row[a].status = "ResolvedSlash"
  THEN JobUpdated(j, "resolved")
  ELSE jobs

ReadJob(j) ==
  /\ jobs' = Refreshed(j)
  /\ UNCHANGED <<vars, running, signer, settling, walletVars, stray, restarts>>

ArmKind(a) == IF a \in Reserved THEN "arm" ELSE "watchdog"

\* POST /api/demo/arm/async and /api/watchdog/demo/async.
StartArm(kind) ==
  /\ Adds(Job(kind, {}, "arming"))
  /\ UNCHANGED <<vars, signer, settling, walletVars, stray, restarts>>

ArmReturns(a) == arm[a] = "stored" /\ arm' = [arm EXCEPT ![a] = "ended"]

\* The arm service returns the action of its run, if its last poll still sees
\* it executed, or it throws.
ArmEnds(j) ==
  /\ j \in running
  /\ jobs[j].status = "arming"
  /\ \/ \E a \in Actions :
          /\ jobs[j].kind = ArmKind(a)
          /\ ArmReturns(a)
          /\ jobs' = IF status[a] = "Executed"
                     THEN [jobs EXCEPT ![j].action = {a}, ![j].status = "action_ready"]
                     ELSE JobUpdated(j, "failed")
          /\ UNCHANGED failures
     \/ /\ Failure
        /\ jobs' = JobUpdated(j, "failed")
        /\ UNCHANGED arm
  /\ running' = running \ {j}
  /\ UNCHANGED <<chainVars, cooling, rowVars, worker, watchVars, signer, settling,
                 walletVars, stray, restarts>>

-----------------------------------------------------------------------------
(* The signer queue: one call of the challenger's key at a time.           *)

Runs(entrypoint, a) ==
  /\ signer # <<>>
  /\ Head(signer).entrypoint = entrypoint
  /\ Head(signer).action = a
  /\ ~settling

Caller == Head(signer).caller

\* Mutant of Answer: the caller is not told.
AnswerLost(outcome) ==
  signer' = Tail(signer) /\ outcome \in STRING /\ UNCHANGED <<jobs, running, requests>>

\* What the caller of the head does once its call, or its job, has ended.
Answer(outcome) ==
  /\ signer' = Tail(signer)
  /\ IF Caller[1] = "job"
     THEN /\ jobs' = JobUpdated(Caller[2], outcome)
          /\ running' = running \ {Caller[2]}
     ELSE UNCHANGED <<jobs, running>>
  /\ requests' = IF Caller[1] = "job" THEN requests
                 ELSE [requests EXCEPT ![Caller[2]] = outcome]

ChallengeLands(a) ==
  /\ Runs("challenge", a)
  /\ Provable(a)
  /\ Becomes(a, "Executed", "Challenged")
  /\ \/ /\ jobs' = JobUpdated(Caller[2], "resolving")
        /\ signer' = Append(Tail(signer), Call("resolve", a, Caller))
        /\ UNCHANGED <<failures, running, requests>>
     \/ Failure /\ Answer("failed")
  /\ UNCHANGED <<rowVars, worker, watchVars, settling, deploys, stray, restarts>>

\* What resolve_action makes of the action on chain.
Resolution(a) ==
  IF a \in expired /\ status[a] = "Executed"
  THEN Becomes(a, "Executed", "ResolvedRefund")
  ELSE Becomes(a, "Challenged", "ResolvedSlash")

\* The hash is merged into the evidence and the projection reconciled.
ResolveLands(a) ==
  /\ Runs("resolve", a)
  /\ Resolution(a)
  /\ \/ /\ settling' = TRUE
        /\ BeginReconcile(Api)
        /\ UNCHANGED <<failures, jobs, running, signer, requests>>
     \/ /\ Failure
        /\ Answer("failed")
        /\ UNCHANGED <<worker, settling>>
  /\ UNCHANGED <<rowVars, watchVars, deploys, stray, restarts>>

\* A wallet's answer is checked against the projection and its events.
Confirmed(a) ==
  /\ row[a].status = "ResolvedSlash"
  /\ \A k \in 1..Len(log) : log[k] = a => k <= cursor

ResolveEnds ==
  /\ settling
  /\ settling' = FALSE
  /\ \/ /\ ReconcileDone(Api)
        /\ Answer(IF Caller[1] = "wallet" /\ ~Confirmed(Head(signer).action)
                  THEN "failed" ELSE "resolved")
     \/ At(Api, "thrown") /\ Answer("failed")
  /\ worker' = [worker EXCEPT ![Api] = IdleWorker]
  /\ UNCHANGED <<outerVars, rowVars, failures, watchVars, deploys, stray, restarts>>

\* Mutant of Refused: a challenged action is refused until its window is over.
RefusedInWindow(entrypoint, a) == entrypoint = "resolve" /\ a \notin expired

Refused(entrypoint, a) ==
  CASE entrypoint = "challenge" -> status[a] # "Executed" \/ ~Provable(a)
    [] OTHER -> /\ status[a] # "Challenged"
                /\ status[a] # "Executed" \/ a \notin expired

\* The call reverts, or it never lands.
CallThrows(entrypoint, a) ==
  /\ Runs(entrypoint, a)
  /\ \/ Refused(entrypoint, a) /\ UNCHANGED failures
     \/ Failure
  /\ Answer("failed")
  /\ UNCHANGED <<outerVars, rowVars, worker, watchVars, settling, deploys,
                 stray, restarts>>

SignerStep ==
  \/ \E a \in Actions :
       \/ ChallengeLands(a)
       \/ ResolveLands(a)
       \/ \E entrypoint \in {"challenge", "resolve"} : CallThrows(entrypoint, a)
  \/ Reconciles(Api) /\ UNCHANGED <<watchVars, apiVars>>
  \/ ResolveEnds

Asks(answer) ==
  /\ Len(requests) < MaxRequests
  /\ requests' = Append(requests, answer)

\* POST /api/resolve, for which the action's status is not looked at.
OperatorResolves(a) ==
  /\ Asks("asked")
  /\ signer' = Append(signer, Call("resolve", a, ForOperator(Len(requests'))))
  /\ UNCHANGED <<vars, jobs, running, settling, deploys, stray, restarts>>

-----------------------------------------------------------------------------
(* A visitor's own wallet.                                                 *)

\* The signed challenge reaches a node.
WalletSubmits(a) ==
  /\ Len(deploys) < MaxRequests
  /\ deploys' = Append(deploys, [action |-> a, status |-> "pending"])
  /\ UNCHANGED <<outerVars, rowVars, worker, watchVars, jobVars, requests, stray,
                 restarts>>

\* It is executed, or never.
DeployExecutes(n) ==
  LET a == deploys[n].action IN
  /\ deploys[n].status = "pending"
  /\ \/ /\ Provable(a)
        /\ Becomes(a, "Executed", "Challenged")
        /\ deploys' = [deploys EXCEPT ![n].status = "success"]
     \/ /\ Refused("challenge", a)
        /\ deploys' = [deploys EXCEPT ![n].status = "failed"]
        /\ UNCHANGED outerVars
  /\ UNCHANGED <<rowVars, worker, failures, watchVars, jobVars, requests, stray,
                 restarts>>

\* The transaction is final, successful, and what was asked about: a wallet's
\* deploys are all calls of challenge_action at this controller.
ChallengeIntent(n) == deploys[n].status = "success"

\* POST /api/challenge/wallet-resolve.  The API's node may lag behind the
\* one the browser has asked.
WalletResolve(n) ==
  LET a == deploys[n].action IN
  /\ \/ deploys[n].status # "failed" /\ Asks("not_final") /\ UNCHANGED <<failures, signer>>
     \/ deploys[n].status = "failed" /\ Asks("failed") /\ UNCHANGED <<failures, signer>>
     \/ Failure /\ Asks("failed") /\ UNCHANGED signer
     \/ /\ ChallengeIntent(n)
        /\ UNCHANGED failures
        /\ \/ /\ status[a] = "Challenged"
              /\ Asks("asked")
              /\ signer' = Append(signer, Call("resolve", a, ForWallet(Len(requests'))))
           \/ /\ status[a] = "ResolvedSlash"
              /\ Asks("failed") \/ (Confirmed(a) /\ Asks("resolved"))
              /\ UNCHANGED signer
  /\ UNCHANGED <<outerVars, rowVars, worker, watchVars, jobs, running, settling,
                 deploys, stray, restarts>>

-----------------------------------------------------------------------------
(* The service: it starts again whenever one of its processes exits.       *)

\* What had been sent may still land; the tables stay; all else is gone.
Restart ==
  /\ restarts < MaxRestarts
  /\ restarts' = restarts + 1
  /\ worker' = [w \in Workers |->
                  IF w = Boot
                  THEN [IdleWorker EXCEPT !.pc = "starting"]
                  ELSE IdleWorker]
  /\ scan' = NoScan
  /\ stray' = stray
       \cup (IF signer = <<>> \/ settling THEN {}
             ELSE {Call(Head(signer).entrypoint, Head(signer).action, <<>>)})
       \cup {Call(scan.pc, a, <<>>) :
               a \in {b \in scan.current : scan.pc \in {"challenge", "resolve"}}}
  /\ signer' = <<>>
  /\ settling' = FALSE
  /\ running' = {}
  /\ arm' = [a \in Actions |-> IF arm[a] = "new" THEN "new" ELSE "ended"]
  /\ requests' = [r \in 1..Len(requests) |->
                    IF requests[r] = "asked" THEN "failed" ELSE requests[r]]
  /\ UNCHANGED <<chainVars, cooling, rowVars, failures, attested, catches, jobs,
                 deploys>>

StrayLands(call) ==
  /\ stray' = stray \ {call}
  /\ \/ /\ call.entrypoint = "challenge"
        /\ Provable(call.action)
        /\ Becomes(call.action, "Executed", "Challenged")
     \/ call.entrypoint = "resolve" /\ Resolution(call.action)
  /\ UNCHANGED <<rowVars, worker, failures, watchVars, jobVars, walletVars, restarts>>

\* The reconciliation at start-up, which the API does not wait for.
BootStep ==
  \/ Reconciles(Boot) /\ UNCHANGED <<watchVars, apiVars>>
  \/ /\ ReconcileDone(Boot) \/ At(Boot, "thrown")
     /\ worker' = [worker EXCEPT ![Boot] = IdleWorker]
     /\ UNCHANGED <<outerVars, rowVars, failures, watchVars, apiVars>>

-----------------------------------------------------------------------------
Others ==
  \/ ChainStep /\ UNCHANGED watchVars
  \/ \E a \in Actions : PostAttestation(a) \/ OutsiderActs(a)

Requested ==
  \/ \E a \in Actions : StartChallenge(a)
  \/ \E j \in 1..Len(jobs) : ReadJob(j)

ChallengesNext ==
  \/ (Others \/ (ListenerStep /\ UNCHANGED watchVars) \/ WatchStep) /\ UNCHANGED apiVars
  \/ Requested
  \/ SignerStep

ChallengesSpec == ChallengesInit /\ [][ChallengesNext]_challengeVars

(***************************************************************************)
(* As in Watchdog, and the API goes on with what it has begun: a call at   *)
(* the head of the queue is answered in the end, since odra-cli exits and  *)
(* a transaction lives half an hour at most.  Nobody has to ask anything.  *)
(***************************************************************************)
ServiceFairness ==
  /\ WF_challengeVars(ListenerStep /\ UNCHANGED <<watchVars, apiVars>>)
  /\ WF_challengeVars(WatchStep /\ UNCHANGED apiVars)
  /\ WF_challengeVars(SignerStep)

ChallengesFair == ChallengesSpec /\ ServiceFairness

\* The same service, which may be restarted.
Outage ==
  \/ Restart
  \/ BootStep
  \/ \E call \in stray : StrayLands(call)

OutageFair ==
  /\ ChallengesInit
  /\ [][ChallengesNext \/ Outage]_challengeVars
  /\ ServiceFairness
  /\ WF_challengeVars(BootStep)

-----------------------------------------------------------------------------
\* A challenge under way, in status st.
InStatus(j, a, st) ==
  j \in 1..Len(jobs) /\ jobs[j] = [kind |-> "challenge", action |-> {a}, status |-> st]

(***************************************************************************)
(* An action that a job has challenged is slashed, while the service is up *)
(* and unless a transaction or a read fails.                               *)
(***************************************************************************)
ChallengedIsSettled ==
  \A j \in 1..MaxJobs : \A a \in Actions :
    InStatus(j, a, "resolving") ~>
      (status[a] = "ResolvedSlash" \/ failures > 0)
=============================================================================
