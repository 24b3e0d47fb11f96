----------------------------- MODULE Projection -----------------------------
(***************************************************************************)
(* The SQLite projection of the chain: reconcileChain and the keeper       *)
(* resolveExpiredClean of backend/src/listener/reconcile.ts, the listener  *)
(* loop of listener/main.ts, and the action rows and event cursor of       *)
(* db/repositories.ts, beside the run of api/arm.ts that makes an action.  *)
(* API, listener and watchdog are processes that share the database, so    *)
(* reconcileChain may run in several at once.                              *)
(* Only the controller's events and cursor are kept, since those of the    *)
(* token and the vault name no action that the controller's do not; of a   *)
(* row, its status and reservation; and Initiated stands with Bonded.      *)
(***************************************************************************)
EXTENDS Integers, Sequences, FiniteSets, SequencesExt

CONSTANTS
  Actions,
  Workers,      \* the processes that run reconcileChain
  Listener,     \* the worker that is also the keeper
  Duplicates,   \* the actions the pool flags as duplicates
  Reserved,     \* the actions armed with reservedForManual
  EventWindow,  \* how many recent events one read returns
  MaxFailures   \* bound on reads and transactions that fail

ASSUME ProjectionAssumption ==
  /\ Listener \in Workers
  /\ Duplicates \subseteq Actions
  /\ Reserved \subseteq Actions
  /\ EventWindow \in Nat \ {0}
  /\ MaxFailures \in Nat

VARIABLES
  status,    \* status[a]: the action on chain
  expired,   \* the actions whose challenge window is over
  log,       \* the controller's events: the action of each
  arm,       \* arm[a]: where the arm service is with a
  cooling,   \* the keeper is to rest: its last sweep ran out of funds
  row,       \* row[a]: status and reservation in the actions table
  cursor,    \* the last event index projected
  worker,    \* worker[w]: where reconcileChain of w is
  failures

chainVars == <<status, expired, log>>
outerVars == <<chainVars, arm, cooling>>
rowVars == <<row, cursor>>
projectionVars == <<outerVars, rowVars, worker, failures>>

Order == <<"None", "Bonded", "Executed", "Challenged", "ResolvedSlash",
           "ResolvedRefund">>
Statuses == ToSet(Order)

\* Mutant of terminal: an action that is challenged is over.
Disputed(s) == s \in {"Challenged", "ResolvedSlash", "ResolvedRefund"}

terminal(s) == s \in {"ResolvedSlash", "ResolvedRefund"}

\* The run that makes an action: before it sees the action executed, until
\* the row is stored, until the call returns, and after it has ended.
ArmPhases == {"new", "seen", "stored", "ended"}

NoRow == [status |-> "None", reserved |-> FALSE]
\* since: the cursor when it began; todo: the actions left, or the ones that
\* were left when it threw; held: the row about to be written; kept: the
\* keeper has resolved in this tick; broke: it was out of funds.
IdleWorker ==
  [pc |-> "idle", since |-> 0, todo |-> {}, held |-> {}, kept |-> FALSE,
   broke |-> FALSE]

ProjectionInit ==
  /\ status = [a \in Actions |-> "None"]
  /\ expired = {}
  /\ log = <<>>
  /\ arm = [a \in Actions |-> "new"]
  /\ cooling = FALSE
  /\ row = [a \in Actions |-> NoRow]
  /\ cursor = 0
  /\ worker = [w \in Workers |-> IdleWorker]
  /\ failures = 0

-----------------------------------------------------------------------------
(* The chain: every change of an action emits an event.                    *)

Becomes(a, old, new) ==
  /\ status[a] = old
  /\ status' = [status EXCEPT ![a] = new]
  /\ log' = Append(log, a)
  /\ UNCHANGED <<expired, arm, cooling>>

\* The arm service bonds and executes the action.
AgentActs(a) ==
  /\ \/ Becomes(a, "None", "Bonded")
     \/ Becomes(a, "Bonded", "Executed")
  /\ UNCHANGED <<rowVars, worker, failures>>

WindowEnds(a) ==
  /\ status[a] \notin {"None", "Bonded"}
  /\ expired' = expired \cup {a}
  /\ UNCHANGED <<status, log, arm, cooling, rowVars, worker, failures>>

\* A poll of the arm service reads the action as executed; its other read,
\* of the duplicate flag, may take longer.
ArmSees(a) ==
  /\ arm[a] = "new"
  /\ status[a] = "Executed"
  /\ arm' = [arm EXCEPT ![a] = "seen"]
  /\ UNCHANGED <<chainVars, cooling, rowVars, worker, failures>>

\* It then writes what it has read, whatever the chain and the row are by now.
ArmRecords(a) ==
  /\ arm[a] = "seen"
  /\ arm' = [arm EXCEPT ![a] = "stored"]
  /\ row' = [row EXCEPT ![a] =
               [status |-> "Executed", reserved |-> a \in Reserved]]
  /\ UNCHANGED <<chainVars, cooling, cursor, worker, failures>>

\* EXPIRY_FAILURE_COOLDOWN_MS have passed.
CoolsDown ==
  /\ cooling
  /\ cooling' = FALSE
  /\ UNCHANGED <<chainVars, arm, rowVars, worker, failures>>

-----------------------------------------------------------------------------
(* reconcileChain, in any worker.                                          *)

At(w, pc) == worker[w].pc = pc

BeginReconcile(w) == worker' = [worker EXCEPT ![w].pc = "starting"]

ReadCursor(w) ==
  /\ At(w, "starting")
  /\ worker' = [worker EXCEPT ![w].pc = "fetching", ![w].since = cursor]
  /\ UNCHANGED <<outerVars, rowVars, failures>>

\* Mutant of NewEvents: an off-by-one at the cursor.
EventsAfterNext(since) ==
  {k \in 1..Len(log) : k > Len(log) - EventWindow /\ k > since + 1}

NewEvents(since) ==
  {k \in 1..Len(log) : k > Len(log) - EventWindow /\ k > since}

\* Each event is stored and the cursor moved before any action is read.
TakeEvents(w) ==
  LET new == NewEvents(worker[w].since) IN
  /\ At(w, "fetching")
  /\ cursor' = Max({cursor} \cup new)
  /\ worker' = [worker EXCEPT ![w].pc = "projecting", ![w].since = 0,
                              ![w].todo = {log[k] : k \in new}]
  /\ UNCHANGED <<outerVars, row, failures>>

\* The row reconcileChain makes of what it reads of the chain and of the row.
RowOf(a) == [status |-> status[a], reserved |-> row[a].reserved]

\* The chain and the row are read; other reads follow before the write.
ReadAction(w, a) ==
  /\ At(w, "projecting")
  /\ worker[w].held = {}
  /\ a \in worker[w].todo
  /\ worker' = [worker EXCEPT ![w].todo = @ \ {a},
                              ![w].held = {<<a, RowOf(a)>>}]
  /\ UNCHANGED <<outerVars, rowVars, failures>>

WriteRow(w, a) ==
  /\ \E read \in worker[w].held :
       /\ read[1] = a
       /\ row' = [row EXCEPT ![a] = read[2]]
  /\ worker' = [worker EXCEPT ![w].held = {}]
  /\ UNCHANGED <<outerVars, cursor, failures>>

ReconcileDone(w) ==
  At(w, "projecting") /\ worker[w].todo = {} /\ worker[w].held = {}

Failure ==
  /\ failures < MaxFailures
  /\ failures' = failures + 1

\* The actions whose events w has taken and whose rows it has yet to write.
Pending(w) == worker[w].todo \cup {read[1] : read \in worker[w].held}

\* A read fails, and reconcileChain throws; the cursor stays where it is.
ReconcileThrows(w) ==
  /\ worker[w].pc \in {"fetching", "projecting"}
  /\ Failure
  /\ worker' = [worker EXCEPT ![w] =
                  [IdleWorker EXCEPT !.pc = "thrown", !.todo = Pending(w)]]
  /\ UNCHANGED <<outerVars, rowVars>>

Projects(w, a) == ReadAction(w, a) \/ (At(w, "projecting") /\ WriteRow(w, a))

Reconciles(w) ==
  \/ ReadCursor(w)
  \/ TakeEvents(w)
  \/ \E a \in Actions : Projects(w, a)
  \/ ReconcileThrows(w)

-----------------------------------------------------------------------------
(* The listener's tick: reconcileChain, then the keeper resolveExpiredClean, *)
(* and reconcileChain again if the keeper has resolved anything.             *)

TickBegins ==
  /\ At(Listener, "idle")
  /\ BeginReconcile(Listener)
  /\ UNCHANGED <<outerVars, rowVars, failures>>

\* Mutant of ExpiredClean: the rows of bonded actions instead.
ExpiredBonded == {a \in expired : row[a].status = "Bonded"}

ExpiredClean == {a \in expired : row[a].status = "Executed"}

TickKeeps ==
  /\ ReconcileDone(Listener)
  /\ ~worker[Listener].kept
  /\ worker' = [worker EXCEPT ![Listener].pc = "keeping",
                              ![Listener].todo = IF cooling THEN {} ELSE ExpiredClean]
  /\ UNCHANGED <<outerVars, rowVars, failures>>

\* The row and the chain are read.
KeeperLooks(a) ==
  /\ At(Listener, "keeping")
  /\ worker[Listener].held = {}
  /\ a \in worker[Listener].todo
  /\ worker' = [worker EXCEPT ![Listener].todo = @ \ {a},
                              ![Listener].held = {<<a, RowOf(a)>>}]
  /\ UNCHANGED <<outerVars, rowVars, failures>>

FoundExecuted(a) ==
  /\ At(Listener, "keeping")
  /\ \E read \in worker[Listener].held : read[1] = a /\ read[2].status = "Executed"

\* The chain no longer has the action executed: only the row is corrected.
KeeperCorrects(a) ==
  /\ At(Listener, "keeping")
  /\ ~FoundExecuted(a)
  /\ WriteRow(Listener, a)

\* resolve_action returns the bond.
KeeperResolves(a) ==
  /\ FoundExecuted(a)
  /\ Becomes(a, "Executed", "ResolvedRefund")
  /\ worker' = [worker EXCEPT ![Listener].held = {}, ![Listener].kept = TRUE]
  /\ UNCHANGED <<rowVars, failures>>

\* A read fails, or resolve_action reverts, is lost or lands unanswered: the
\* action is left to the next tick.
KeeperFails(a) ==
  /\ \/ /\ At(Listener, "keeping") /\ worker[Listener].held = {}
        /\ a \in worker[Listener].todo
        /\ Failure /\ UNCHANGED outerVars
     \/ /\ FoundExecuted(a)
        /\ \/ status[a] # "Executed" /\ UNCHANGED <<outerVars, failures>>
           \/ Failure /\ UNCHANGED outerVars
           \/ Failure /\ Becomes(a, "Executed", "ResolvedRefund")
  /\ worker' = [worker EXCEPT ![Listener].todo = @ \ {a}, ![Listener].held = {}]
  /\ UNCHANGED rowVars

\* Out of funds, or over the spend limit: the rest of the sweep is left as well.
KeeperBreaks(a) ==
  /\ FoundExecuted(a)
  /\ Failure
  /\ worker' = [worker EXCEPT ![Listener].todo = {}, ![Listener].held = {},
                              ![Listener].broke = TRUE]
  /\ UNCHANGED <<outerVars, rowVars>>

\* The sweep's outcome is kept for the next one.
Rests ==
  /\ cooling' = (cooling \/ worker[Listener].broke)
  /\ UNCHANGED <<chainVars, arm>>

KeeperEnds ==
  /\ At(Listener, "keeping")
  /\ worker[Listener].todo = {} /\ worker[Listener].held = {}
  /\ IF worker[Listener].kept
     THEN BeginReconcile(Listener) /\ UNCHANGED outerVars
     ELSE worker' = [worker EXCEPT ![Listener] = IdleWorker] /\ Rests
  /\ UNCHANGED <<rowVars, failures>>

TickEnds ==
  /\ \/ At(Listener, "thrown") /\ UNCHANGED outerVars
     \/ ReconcileDone(Listener) /\ worker[Listener].kept /\ Rests
  /\ worker' = [worker EXCEPT ![Listener] = IdleWorker]
  /\ UNCHANGED <<rowVars, failures>>

Keeps(a) ==
  \/ KeeperLooks(a)
  \/ KeeperCorrects(a)
  \/ KeeperResolves(a)
  \/ KeeperFails(a)
  \/ KeeperBreaks(a)

ListenerStep ==
  \/ TickBegins
  \/ Reconciles(Listener)
  \/ TickKeeps
  \/ \E a \in Actions : Keeps(a)
  \/ KeeperEnds
  \/ TickEnds

ChainStep ==
  \/ \E a \in Actions : AgentActs(a) \/ WindowEnds(a) \/ ArmSees(a) \/ ArmRecords(a)
  \/ CoolsDown
=============================================================================
