-------------------------------- MODULE Arena -------------------------------
(***************************************************************************)
(* The page of one visitor: the Arena of frontend/components/arena, that   *)
(* is ArenaClient.tsx, its card ManualChallenge.tsx and the demo of        *)
(* WatchdogEconomy.tsx, with what they keep in the browser's localStorage, *)
(* on top of the service in Challenges.  An effect of React runs with the  *)
(* change of phase that causes it.  A phase that is left in the same step  *)
(* (building, submitted, backend_submitting) is left out; what a reload    *)
(* then loses is what a lost answer loses.  The clocks of browser and      *)
(* chain are one: the window is over for both or for neither.              *)
(***************************************************************************)
EXTENDS Challenges

CONSTANTS
  Buttons,   \* what the visitor uses: challenge, wallet, arm, economy
  MaxVisits  \* bound on the loads of the page

ASSUME ArenaAssumption ==
  /\ Buttons \subseteq {"challenge", "wallet", "arm", "economy"}
  /\ MaxVisits \in Nat

VARIABLES
  page,    \* what is mounted
  store,   \* localStorage
  visits

pageVars == <<page, store, visits>>
arenaVars == <<challengeVars, pageVars>>

\* shown: the action of the card; seen: its status as last fetched; hash:
\* the deploy at hand, 0 for none; polling: the job polled, 0 for none;
\* answer: the job fetched, before the action is; resumed: the effect that
\* resumes a job has run; asked: the request of wallet-resolve that is waited
\* for, by whom; arming: the job of "Prepare Fresh Case"; economy and demo:
\* the phase and the job of the watchdog's demo.
Closed ==
  [open |-> FALSE, shown |-> {}, phase |-> "none", seen |-> "None", hash |-> 0,
   polling |-> 0, answer |-> {}, resumed |-> FALSE, asked |-> 0, by |-> "nobody",
   arming |-> 0, economy |-> "idle", demo |-> 0]

ArenaInit ==
  /\ ChallengesInit
  /\ page = Closed
  /\ store = [pending |-> [a \in Actions |-> 0],
              backend |-> [a \in Actions |-> 0], active |-> 0]
  /\ visits = 0

Phase(p) == page' = [page EXCEPT !.phase = p]
Forget(key, a) == store' = [store EXCEPT ![key][a] = 0]
\* clearBackendJob removes the pointer to the active job as well.
ForgetJob(a) == store' = [store EXCEPT !.backend[a] = 0, !.active = 0]

-----------------------------------------------------------------------------
(* The card of an action.                                                  *)

Challengeable(a, seen) == seen = "Executed" /\ a \notin expired

\* The card c when its phase becomes idle, after its effects: a job that is
\* kept is resumed once, a pending deploy is offered for another check.
Idle(c, a) ==
  IF ~c.resumed /\ store.backend[a] # 0
  THEN [c EXCEPT !.phase = "backend_pending", !.resumed = TRUE,
                 !.polling = store.backend[a]]
  ELSE IF store.pending[a] # 0 /\ Challengeable(a, c.seen)
  THEN [c EXCEPT !.phase = "timeout", !.hash = store.pending[a]]
  ELSE [c EXCEPT !.phase = IF a \in expired THEN "expired" ELSE "idle"]

\* The card as first rendered for what the API answers.
Mounted(c, a) ==
  LET s == row[a].status
      fresh == [c EXCEPT !.shown = {a}, !.seen = s] IN
  CASE s = "ResolvedSlash" -> [fresh EXCEPT !.phase = "backend_resolved"]
    [] s # "ResolvedSlash" /\ store.backend[a] # 0 -> Idle(fresh, a)
    [] s # "ResolvedSlash" /\ store.backend[a] = 0 ->
         IF Challengeable(a, s) THEN Idle(fresh, a)
         ELSE [fresh EXCEPT !.phase = "expired"]

OnCard(a, phase) == a \in page.shown /\ page.phase = phase
ServiceWaits == UNCHANGED challengeVars
StoreWaits == UNCHANGED <<store, visits>>
\* A fetch of the browser fails.
FetchFails == Failure /\ UNCHANGED <<outerVars, rowVars, worker, watchVars, apiVars>>

\* The buttons Back and Try again.  A pending deploy is forgotten when the
\* card of an action that cannot be challenged any more becomes idle.
TryAgain(a) ==
  /\ OnCard(a, "rejected") \/ OnCard(a, "error")
  /\ page' = Idle(page, a)
  /\ IF Challengeable(a, page.seen) THEN UNCHANGED store ELSE Forget("pending", a)
  /\ UNCHANGED visits /\ ServiceWaits

WindowCloses(a) ==
  /\ OnCard(a, "idle")
  /\ a \in expired
  /\ Phase("expired") /\ StoreWaits /\ ServiceWaits

-----------------------------------------------------------------------------
(* The challenge with the demo key: a job of the API.                      *)

Latest(set) == CHOOSE j \in set : \A k \in set : k <= j

BackendChallenge(a) ==
  LET j == IF LiveJobs(a) = {} THEN Len(jobs) + 1 ELSE Latest(LiveJobs(a)) IN
  /\ "challenge" \in Buttons
  /\ OnCard(a, "idle")
  /\ a \notin expired
  /\ \/ /\ StartChallenge(a) \/ (ChallengeEligible(a) /\ LiveJobs(a) # {} /\ ServiceWaits)
        /\ page' = [page EXCEPT !.phase = "backend_pending", !.polling = j]
        /\ store' = [store EXCEPT !.backend[a] = j, !.active = j]
     \/ /\ FetchFails \/ (~ChallengeEligible(a) /\ ServiceWaits)
        /\ Phase("error") /\ UNCHANGED store
  /\ UNCHANGED visits

\* checkBackendJob fetches the job, then the action.
PollJob ==
  /\ page.polling # 0
  /\ page.answer = {}
  /\ ReadJob(page.polling)
  /\ page' = [page EXCEPT !.answer = {jobs'[page.polling].status}]
  /\ StoreWaits

PollAction(a) ==
  LET over == row[a].status = "ResolvedSlash" \/ "resolved" \in page.answer
      failed == "failed" \in page.answer
  IN
  /\ a \in page.shown
  /\ page.answer # {}
  /\ page' = [page EXCEPT
                !.seen = row[a].status, !.answer = {},
                !.polling = IF page.answer \subseteq Ended THEN 0 ELSE @,
                !.phase = CASE failed -> "error"
                            [] over /\ ~failed -> "backend_resolved"
                            [] OTHER -> @]
  /\ IF over THEN ForgetJob(a) ELSE UNCHANGED store
  /\ UNCHANGED visits /\ ServiceWaits

\* After 300 rounds pollBackendJob returns.
PollGivesUp ==
  /\ page.polling # 0
  /\ page.answer = {}
  /\ page' = [page EXCEPT !.polling = 0]
  /\ StoreWaits /\ ServiceWaits

-----------------------------------------------------------------------------
(* The challenge with the visitor's wallet.                                *)

WalletChallenge(a) ==
  /\ "wallet" \in Buttons
  /\ OnCard(a, "idle")
  /\ a \notin expired
  /\ \/ page' = [page EXCEPT !.phase = "signing", !.hash = 0] /\ ServiceWaits
     \/ FetchFails /\ Phase("error")
  /\ StoreWaits

\* The wallet signs or not; the deploy is sent, with or without an answer.
WalletSigns(a) ==
  /\ OnCard(a, "signing")
  /\ \/ Phase("rejected") /\ ServiceWaits /\ UNCHANGED store
     \/ /\ WalletSubmits(a) /\ UNCHANGED failures
        /\ page' = [page EXCEPT !.phase = "finalizing", !.hash = Len(deploys')]
        /\ store' = [store EXCEPT !.pending[a] = Len(deploys')]
     \/ /\ WalletSubmits(a) /\ Failure
        /\ Phase("error")
        /\ UNCHANGED store
     \/ FetchFails /\ Phase("error") /\ UNCHANGED store
  /\ UNCHANGED visits

AsksResolve(by) ==
  /\ WalletResolve(page.hash)
  /\ page' = [page EXCEPT !.phase = "resolving", !.asked = Len(requests'), !.by = by]
  /\ UNCHANGED store

\* The deploy is seen final, or it is still pending when the time is over.
Finality(a, by) ==
  LET seen == deploys[page.hash].status IN
  /\ \/ seen = "success" /\ AsksResolve(by)
     \/ seen = "failed" /\ Phase("error") /\ Forget("pending", a) /\ ServiceWaits
     \/ Phase("timeout") /\ UNCHANGED store /\ ServiceWaits
  /\ UNCHANGED visits

WalletPolls(a) == OnCard(a, "finalizing") /\ Finality(a, "wallet")
RecheckFinality(a) == OnCard(a, "timeout") /\ Finality(a, "recheck")

RetryResolve(a) ==
  /\ OnCard(a, "resolve_error")
  /\ AsksResolve("retry")
  /\ UNCHANGED visits

\* Mutant of Unresolved: a wallet's challenge that is over counts as paid.
UnresolvedIsPaid(answer) == IF answer = "failed" THEN "success" ELSE "resolve_error"

\* Where a wallet-resolve that did not succeed leaves the card.
Unresolved(answer) ==
  CASE page.by = "recheck" -> "timeout"
    [] page.by = "wallet" /\ answer # "not_final" -> "error"
    [] OTHER -> "resolve_error"

\* The browser waits half a minute; the request goes on without it.
WalletAnswered(a) ==
  LET answer == requests[page.asked] IN
  /\ OnCard(a, "resolving")
  /\ IF answer = "resolved"
     THEN Phase("success") /\ Forget("pending", a)
     ELSE Phase(Unresolved(answer)) /\ UNCHANGED store
  /\ UNCHANGED visits /\ ServiceWaits

-----------------------------------------------------------------------------
(* The page around the card.                                               *)

\* demoReadyResponse: a case that is not about to expire.
ReadyCase(a) == ChallengeEligible(a) /\ row[a].reserved

Fresh == [Closed EXCEPT !.open = TRUE]
ShowsReady ==
  \/ page' = Fresh
  \/ \E a \in Actions : ReadyCase(a) /\ page' = Mounted(Fresh, a)

\* recoverActiveChallenge, and the ready case where it finds nothing.
Visit ==
  /\ ~page.open
  /\ visits < MaxVisits
  /\ visits' = visits + 1
  /\ IF store.active = 0
     THEN ShowsReady /\ UNCHANGED store /\ ServiceWaits
     ELSE \/ /\ ReadJob(store.active)
             /\ IF jobs'[store.active].status = "failed"
                THEN ShowsReady /\ store' = [store EXCEPT !.active = 0]
                ELSE /\ \E a \in jobs[store.active].action : page' = Mounted(Fresh, a)
                     /\ UNCHANGED store
          \/ FetchFails /\ ShowsReady /\ store' = [store EXCEPT !.active = 0]

Leave ==
  /\ page.open
  /\ page' = Closed
  /\ StoreWaits /\ ServiceWaits

PrepareFreshCase ==
  /\ "arm" \in Buttons
  /\ page.open /\ page.shown = {} /\ page.arming = 0
  /\ StartArm("arm")
  /\ page' = [page EXCEPT !.arming = Len(jobs')]
  /\ StoreWaits

ArmPolls ==
  LET j == page.arming IN
  /\ j # 0
  /\ \/ /\ jobs[j].status = "action_ready"
        /\ \E a \in jobs[j].action : page' = Mounted([page EXCEPT !.arming = 0], a)
     \/ page' = [page EXCEPT !.arming = 0]
  /\ StoreWaits /\ ServiceWaits

RunEconomy ==
  /\ "economy" \in Buttons
  /\ page.open /\ page.economy \in {"idle", "error"}
  /\ StartArm("watchdog")
  /\ page' = [page EXCEPT !.economy = "running", !.demo = Len(jobs')]
  /\ StoreWaits

EconomyPolls ==
  LET j == page.demo
      Ends(phase) == page' = [page EXCEPT !.economy = phase, !.demo = 0]
  IN
  /\ page.economy = "running"
  /\ \/ jobs[j].status = "failed" /\ Ends("error")
     \/ /\ \E a \in jobs[j].action : row[a].status = "ResolvedSlash"
        /\ page' = [page EXCEPT !.economy = "done"]
     \/ jobs[j].status # "failed" /\ Ends("timeout")
  /\ StoreWaits /\ ServiceWaits

PagePolls == PollJob \/ \E a \in Actions : PollAction(a)

PageStep ==
  \/ Visit \/ Leave
  \/ PagePolls \/ PollGivesUp
  \/ \E a \in Actions :
       \/ TryAgain(a) \/ WindowCloses(a)
       \/ BackendChallenge(a)
       \/ WalletChallenge(a) \/ WalletSigns(a) \/ WalletPolls(a)
       \/ RecheckFinality(a) \/ RetryResolve(a) \/ WalletAnswered(a)
  \/ PrepareFreshCase \/ ArmPolls
  \/ RunEconomy \/ EconomyPolls

\* What the page brings about besides challenges: an arm job that ends, a
\* deploy that is executed; and an operator who resolves beside it.
ServiceStep ==
  \/ ChallengesNext \/ Outage
  \/ \E a \in Actions : OperatorResolves(a)
  \/ \E j \in 1..Len(jobs) : ArmEnds(j)
  \/ \E n \in 1..Len(deploys) : DeployExecutes(n)

ArenaNext == (ServiceStep /\ UNCHANGED pageVars) \/ PageStep

ArenaSpec == ArenaInit /\ [][ArenaNext]_arenaVars

\* The loops of an open page go on; visitors do what they like.
ArenaFair ==
  /\ ArenaSpec
  /\ WF_arenaVars(ListenerStep /\ UNCHANGED <<watchVars, apiVars, pageVars>>)
  /\ WF_arenaVars(SignerStep /\ UNCHANGED pageVars)
  /\ WF_arenaVars(BootStep /\ UNCHANGED pageVars)
  /\ WF_arenaVars(PagePolls)

-----------------------------------------------------------------------------
(***************************************************************************)
(* "Bond slashed" and "Payout challenged" are shown only for an action the *)
(* chain has slashed, "you claimed" only to a visitor whose own deploy     *)
(* challenged it, however the answers, reloads and other challengers fall. *)
(***************************************************************************)
SlashShownIsSlash ==
  \A a \in page.shown :
    /\ page.phase = "success" => deploys[page.hash].status = "success"
    /\ page.phase = "success" \/ (page.phase = "backend_resolved" /\ page.seen = "ResolvedSlash")
         => status[a] = "ResolvedSlash"

(***************************************************************************)
(* A pending card gets an answer, unless the visitor leaves, the polls are *)
(* used up or the service restarts.                                        *)
(***************************************************************************)
PendingIsAnswered ==
  page.phase = "backend_pending" ~>
    (page.phase # "backend_pending" \/ page.polling = 0 \/ restarts > 0)
=============================================================================
