------------------------------ MODULE Watchdog ------------------------------
(***************************************************************************)
(* The watchdog beside the listener: scanOnce of backend/src/watchdog/     *)
(* service.ts, the detection of watchdog/detection.ts, transact and tick   *)
(* of watchdog/main.ts, and the catches of db/repositories.ts.             *)
(* A scan takes its candidates once; for each it waits, looks again,       *)
(* challenges, reconciles and resolves.  used_action_id is left out: the   *)
(* attestation of an action names it, so the same action alone uses it.    *)
(***************************************************************************)
EXTENDS Projection

CONSTANTS
  Watch,       \* the watchdog, as a worker
  Watching,    \* FALSE where no watchdog runs
  Deliveries,  \* the actions a buyer's attestation contradicts
  Outsiders    \* TRUE if others challenge as well: the operator, a wallet

ASSUME WatchdogAssumption ==
  /\ Watch \in Workers \ {Listener}
  /\ Deliveries \subseteq Actions \ Duplicates
  /\ Watching \in BOOLEAN
  /\ Outsiders \in BOOLEAN

VARIABLES
  attested,   \* the actions with an attestation in the database
  catches,    \* the actions with a recorded catch
  scan        \* where scanOnce is

watchVars == <<attested, catches, scan>>
vars == <<projectionVars, watchVars>>

\* todo: the candidates left; current: the one at hand; done and thrown:
\* where the scan goes when the reconciliation it waits for ends.
NoScan == [pc |-> "idle", todo |-> {}, caught |-> FALSE, current |-> {},
           done |-> "none", thrown |-> "none"]

Init ==
  /\ ProjectionInit
  /\ attested = {}
  /\ catches = {}
  /\ scan = NoScan

\* What a challenge of a must prove to the controller.
Provable(a) == a \in Duplicates \cup Deliveries /\ a \notin expired

Eligible(a) ==
  /\ row[a].status = "Executed"
  /\ ~row[a].reserved
  /\ a \notin expired
  /\ a \in Duplicates \cup attested

-----------------------------------------------------------------------------
\* POST /api/delivery-attestation, for an action the projection knows.
PostAttestation(a) ==
  /\ a \in Deliveries \ attested
  /\ row[a].status # "None"
  /\ attested' = attested \cup {a}
  /\ UNCHANGED <<projectionVars, catches, scan>>

\* Another challenger, whose transactions race with the watchdog's.
OutsiderActs(a) ==
  /\ Outsiders
  /\ \/ Provable(a) /\ Becomes(a, "Executed", "Challenged")
     \/ Becomes(a, "Challenged", "ResolvedSlash")
  /\ UNCHANGED <<rowVars, worker, failures, watchVars>>

ScanBegins ==
  LET found == {a \in Actions : Eligible(a)} \ catches IN
  /\ Watching
  /\ scan.pc = "idle"
  /\ found # {}
  /\ scan' = [scan EXCEPT !.pc = "next", !.todo = found]
  /\ UNCHANGED <<projectionVars, attested, catches>>

\* After the delay the candidate is looked up again.
ScanTakes(a) ==
  /\ scan.pc = "next"
  /\ a \in scan.todo
  /\ scan' = IF Eligible(a)
             THEN [scan EXCEPT !.pc = "challenge", !.todo = @ \ {a},
                               !.current = {a}]
             ELSE [scan EXCEPT !.todo = @ \ {a}]
  /\ UNCHANGED <<projectionVars, attested, catches>>

ReconcileThen(done, thrown) ==
  /\ BeginReconcile(Watch)
  /\ scan' = [scan EXCEPT !.pc = "reconcile", !.done = done, !.thrown = thrown]

ReconcileReturns ==
  /\ scan.pc = "reconcile"
  /\ \/ ReconcileDone(Watch) /\ scan' = [scan EXCEPT !.pc = scan.done]
     \/ At(Watch, "thrown") /\ scan' = [scan EXCEPT !.pc = scan.thrown]
  /\ worker' = [worker EXCEPT ![Watch] = IdleWorker]
  /\ UNCHANGED <<outerVars, rowVars, failures, attested, catches>>

\* The transaction has landed, and its sender learns it; or it does not.
Landed(done, thrown) ==
  \/ ReconcileThen(done, thrown) /\ UNCHANGED failures
  \/ /\ Failure
     /\ scan' = [scan EXCEPT !.pc = "failed"]
     /\ UNCHANGED worker

Challenge(a) ==
  /\ scan.pc = "challenge" /\ a \in scan.current
  /\ Provable(a)
  /\ Becomes(a, "Executed", "Challenged")
  /\ Landed("resolve", "failed")
  /\ UNCHANGED <<rowVars, attested, catches>>

\* Mutant of Resolve: the error of resolve_action is swallowed.
ResolveUnchecked(a) ==
  /\ scan.pc = "resolve" /\ a \in scan.current
  /\ Landed("record", "abort")
  /\ UNCHANGED <<outerVars, rowVars, attested, catches>>

Resolve(a) ==
  /\ scan.pc = "resolve" /\ a \in scan.current
  /\ Becomes(a, "Challenged", "ResolvedSlash")
  /\ Landed("record", "abort")
  /\ UNCHANGED <<rowVars, attested, catches>>

Reverts(a) ==
  \/ scan.pc = "challenge" /\ (status[a] # "Executed" \/ ~Provable(a))
  \/ scan.pc = "resolve" /\ status[a] # "Challenged"

\* The transaction reverts, or it never lands.
TransactThrows(a) ==
  /\ scan.pc \in {"challenge", "resolve"} /\ a \in scan.current
  /\ \/ Reverts(a) /\ UNCHANGED failures
     \/ Failure
  /\ scan' = [scan EXCEPT !.pc = "failed"]
  /\ UNCHANGED <<outerVars, rowVars, worker, attested, catches>>

\* Mutant of CandidateFailed: the candidate counts as caught.
CandidateGivenUp ==
  /\ scan.pc = "failed"
  /\ catches' = catches \cup scan.current
  /\ ReconcileThen("next", "abort")
  /\ UNCHANGED <<outerVars, rowVars, failures, attested>>

\* The catch block: reconcile, and go on with the next candidate.
CandidateFailed ==
  /\ scan.pc = "failed"
  /\ ReconcileThen("next", "abort")
  /\ UNCHANGED <<outerVars, rowVars, failures, attested, catches>>

RecordCatch(a) ==
  /\ scan.pc = "record" /\ a \in scan.current
  /\ row' = [row EXCEPT ![a] = [status |-> "ResolvedSlash", reserved |-> FALSE]]
  /\ catches' = catches \cup {a}
  /\ scan' = [scan EXCEPT !.pc = "next", !.caught = TRUE]
  /\ UNCHANGED <<outerVars, cursor, worker, failures, attested>>

\* The tick reconciles once more if the scan caught anything.
ScanEnds ==
  /\ \/ /\ scan.pc = "next"
        /\ scan.todo = {}
        /\ IF scan.caught THEN ReconcileThen("abort", "abort")
           ELSE scan' = NoScan /\ UNCHANGED worker
     \/ scan.pc = "abort" /\ scan' = NoScan /\ UNCHANGED worker
  /\ UNCHANGED <<outerVars, rowVars, failures, attested, catches>>

WatchStep ==
  \/ ScanBegins
  \/ Reconciles(Watch) /\ UNCHANGED watchVars
  \/ ReconcileReturns
  \/ \E a \in Actions :
       \/ ScanTakes(a)
       \/ Challenge(a)
       \/ Resolve(a)
       \/ TransactThrows(a)
       \/ RecordCatch(a)
  \/ CandidateFailed
  \/ ScanEnds

Next ==
  \/ ChainStep /\ UNCHANGED watchVars
  \/ ListenerStep /\ UNCHANGED watchVars
  \/ WatchStep
  \/ \E a \in Actions : PostAttestation(a) \/ OutsiderActs(a)

Spec == Init /\ [][Next]_vars

(***************************************************************************)
(* The heartbeat schedules ticks for ever and the poll schedules scans; a  *)
(* step of theirs that can be taken is taken.  Nothing else is assumed: no *)
(* agent has to act, no operator to challenge, no window to end.           *)
(***************************************************************************)
FairSpec ==
  /\ Spec
  /\ WF_vars(ListenerStep /\ UNCHANGED watchVars)
  /\ WF_vars(WatchStep)

-----------------------------------------------------------------------------
Rank(s) == CHOOSE k \in 1..Len(Order) : Order[k] = s

(* Types; a scan that reconciles has its worker running.                   *)
TypeOK ==
  /\ status \in [Actions -> Statuses]
  /\ expired \subseteq Actions
  /\ cursor \in 0..Len(log)
  /\ row \in [Actions -> [status: Statuses, reserved: BOOLEAN]]
  /\ failures \in 0..MaxFailures
  /\ attested \subseteq Deliveries
  /\ catches \subseteq Actions
  /\ scan.pc = "reconcile" <=> ~At(Watch, "idle")

(***************************************************************************)
(* The projection never runs ahead of the chain, whichever process wrote   *)
(* last: a row shows a status its action has already reached.              *)
(***************************************************************************)
RowNeverAhead ==
  \A a \in Actions : Rank(row[a].status) <= Rank(status[a])

(***************************************************************************)
(* A catch is recorded, and its reward counted, only for an action that    *)
(* was slashed on chain, though manual challenges race with the scan and   *)
(* transactions fail.                                                      *)
(***************************************************************************)
CatchIsSlash == \A a \in catches : status[a] = "ResolvedSlash"

\* What can set the row of a back for good: its events were taken by a
\* reconciliation that threw, or an older read is written over a newer one.
Disturbed(a) ==
  \/ \E w \in Workers :
       \/ At(w, "thrown") /\ a \in worker[w].todo
       \/ \E read \in worker[w].held :
            read[1] = a /\ Rank(read[2].status) < Rank(row[a].status)
  \/ arm[a] = "seen" /\ Rank(row[a].status) > Rank("Executed")

(***************************************************************************)
(* The projection catches up: the row of an action shows its last status   *)
(* for good, though reads fail, the listener and the watchdog project side *)
(* by side and the arm service writes what it has read.  A row that stays  *)
(* behind was disturbed after its action's last change; what was disturbed *)
(* earlier is repaired by the next event.                                  *)
(***************************************************************************)
ProjectionCatchesUp ==
  \A a \in Actions, s \in Statuses :
    \/ <>[](status[a] = s => row[a].status = s)
    \/ <>(status[a] = s /\ Disturbed(a))

(***************************************************************************)
(* The keeper returns the bond of every executed action whose window has   *)
(* ended without a challenge, whatever ticks fail, sweeps break off and    *)
(* rests follow; unless the action's own execution was taken by a          *)
(* reconciliation that threw, and its row never shows it.                  *)
(***************************************************************************)
ExpiredIsResolved ==
  \A a \in Actions :
    \/ (a \in expired /\ status[a] = "Executed") ~> (status[a] = "ResolvedRefund")
    \/ <>(status[a] = "Executed" /\ Disturbed(a))

(***************************************************************************)
(* A failed challenge is tried again: no action stays a candidate for ever *)
(* while it is executed on chain, whatever transactions fail or are not    *)
(* answered and whoever else challenges.                                   *)
(***************************************************************************)
CandidateIsTried ==
  \A a \in Actions : []<>~(Eligible(a) /\ status[a] = "Executed")

=============================================================================
