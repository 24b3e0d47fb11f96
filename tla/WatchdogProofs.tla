--------------------------- MODULE WatchdogProofs ---------------------------
(***************************************************************************)
(* Theorems about the projection of the chain and what is built on it: the *)
(* rows, the watchdog's catches, receipts and proofs, challenges through   *)
(* the API, the evidence files and their replay, and a visitor's page.     *)
(* The first part is what all of them share, an invariant of the chain,    *)
(* the rows, the workers and the scan.                                     *)
(***************************************************************************)
EXTENDS Arena, Receipts, Replay, SequenceTheorems, TLAPS

\* How the chain changes the status of one action.
Leads(s, t) ==
  \/ s = t
  \/ s = "None" /\ t = "Bonded"
  \/ s = "Bonded" /\ t = "Executed"
  \/ s = "Executed" /\ t \in {"Challenged", "ResolvedRefund"}
  \/ s = "Challenged" /\ t = "ResolvedSlash"

\* An action in status t has been in status s.
Reached(s, t) ==
  \/ s = t
  \/ /\ ~terminal(s)
     /\ Rank(s) < Rank(t)
     /\ s = "Challenged" => t = "ResolvedSlash"

Onward == \A a \in Actions : Leads(status[a], status'[a])

LEMMA StatusList ==
  /\ Statuses = {"None", "Bonded", "Executed", "Challenged", "ResolvedSlash",
                 "ResolvedRefund"}
  /\ Len(Order) = 6
BY DEF Statuses, Order, ToSet

LEMMA Ranks ==
  /\ Rank("None") = 1
  /\ Rank("Bonded") = 2
  /\ Rank("Executed") = 3
  /\ Rank("Challenged") = 4
  /\ Rank("ResolvedSlash") = 5
  /\ Rank("ResolvedRefund") = 6
BY DEF Rank, Order

LEMMA ReachedOn ==
  ASSUME NEW s \in Statuses, NEW t \in Statuses, NEW u \in Statuses,
         Reached(s, t), Leads(t, u)
  PROVE  Reached(s, u)
BY StatusList, Ranks DEF Reached, Leads, terminal

\* What is over stays as it is, and a dispute can only end in a slash.
LEMMA ReachedLate ==
  ASSUME NEW s \in Statuses, NEW t \in Statuses, Reached(s, t)
  PROVE  /\ Rank(s) <= Rank(t)
         /\ terminal(s) => t = s
         /\ s = "Challenged" => t \in {"Challenged", "ResolvedSlash"}
BY StatusList, Ranks DEF Reached, terminal


-----------------------------------------------------------------------------
Row == [status: Statuses, reserved: BOOLEAN]
WorkerState ==
  [pc: {"idle", "starting", "fetching", "projecting", "keeping", "thrown"},
   since: Nat, todo: SUBSET Actions, held: SUBSET (Actions \X Row), kept: BOOLEAN,
   broke: BOOLEAN]
ScanState ==
  [pc: {"idle", "next", "challenge", "resolve", "record", "failed", "abort", "reconcile"},
   todo: SUBSET Actions, caught: BOOLEAN, current: SUBSET Actions,
   done: {"none", "resolve", "record", "next", "abort"}, thrown: {"none", "failed", "abort"}]

TableTypes ==
  /\ status \in [Actions -> Statuses]
  /\ expired \subseteq Actions
  /\ log \in Seq(Actions)
  /\ arm \in [Actions -> ArmPhases]
  /\ row \in [Actions -> Row]
  /\ cursor \in 0..Len(log)
  /\ failures \in 0..MaxFailures
  /\ attested \subseteq Deliveries
  /\ catches \subseteq Actions

RunnerTypes ==
  /\ worker \in [Workers -> WorkerState]
  /\ scan \in ScanState
  /\ \A a, b \in scan.current : a = b
  /\ scan.pc = "reconcile" => scan.done # "none" /\ scan.thrown # "none"
  /\ scan.pc = "reconcile" <=> ~At(Watch, "idle")

(***************************************************************************)
(* A row shows a status that its action has been in, and so does what a    *)
(* worker holds; a worker's write may set a row back but never ahead.      *)
(***************************************************************************)
RowsReached == \A a \in Actions : Reached(row[a].status, status[a])

HeldReached ==
  \A w \in Workers : \A read \in worker[w].held :
    Reached(read[2].status, status[read[1]])

\* A run of the arm service that has seen its action executed.
ArmReached ==
  \A a \in Actions : arm[a] # "new" => Reached("Executed", status[a])

(***************************************************************************)
(* The watchdog has seen its own resolution succeed before it records, and *)
(* still when it waits for a reconciliation in between.                    *)
(***************************************************************************)
Recording == scan.pc = "record" \/ (scan.pc = "reconcile" /\ scan.done = "record")

KnownSlashed == catches \cup {a \in scan.current : Recording}

CaughtIsSlash == \A a \in KnownSlashed : status[a] = "ResolvedSlash"

ProjectionInv ==
  /\ TableTypes /\ RunnerTypes
  /\ RowsReached /\ HeldReached /\ ArmReached
  /\ CaughtIsSlash

LEMMA ProjectionStart == Init => ProjectionInv
<1> SUFFICES ASSUME Init  PROVE ProjectionInv
  OBVIOUS
<1> USE DEF Init, ProjectionInit, NoScan, IdleWorker, NoRow
<1>1. TableTypes
  <2>1. status \in [Actions -> Statuses] /\ row \in [Actions -> Row]
    BY StatusList DEF Row
  <2>2. log \in Seq(Actions) /\ cursor \in 0..Len(log)
    BY EmptySeq
  <2> QED  BY <2>1, <2>2, ProjectionAssumption DEF TableTypes, ArmPhases
<1>2. RunnerTypes
  BY WatchdogAssumption DEF RunnerTypes, WorkerState, ScanState, At
<1>3. RowsReached
  BY DEF RowsReached, Reached
<1>4. HeldReached
  BY DEF HeldReached
<1>5. CaughtIsSlash
  BY DEF CaughtIsSlash, KnownSlashed, Recording
<1>6. ArmReached
  BY DEF ArmReached
<1> QED  BY <1>1, <1>2, <1>3, <1>4, <1>5, <1>6 DEF ProjectionInv

(***************************************************************************)
(* What a step must show of the rows, of what is held and of the catches.  *)
(***************************************************************************)
RowsFollow ==
  \A a \in Actions :
    \/ row'[a].status = row[a].status
    \/ Reached(row'[a].status, status'[a])

HeldFollows ==
  \A w \in Workers : \A read \in worker'[w].held :
    \/ read \in worker[w].held
    \/ Reached(read[2].status, status[read[1]])

CatchesFollow ==
  \A a \in KnownSlashed' : a \in KnownSlashed \/ status'[a] = "ResolvedSlash"

ArmFollows ==
  \A a \in Actions :
    arm'[a] # "new" => arm[a] # "new" \/ Reached("Executed", status[a])

LEMMA ProjectionKept ==
  ASSUME ProjectionInv, Onward, TableTypes', RunnerTypes', RowsFollow,
         HeldFollows, ArmFollows, CatchesFollow
  PROVE  ProjectionInv'
<1> USE DEF ProjectionInv
<1>1. ASSUME NEW s \in Statuses, NEW a \in Actions, Reached(s, status[a])
      PROVE  Reached(s, status'[a])
  <2>1. status[a] \in Statuses /\ status'[a] \in Statuses /\ Leads(status[a], status'[a])
    BY DEF TableTypes, Onward
  <2> QED  BY <1>1, <2>1, ReachedOn
<1>2. RowsReached'
  <2> SUFFICES ASSUME NEW a \in Actions  PROVE Reached(row'[a].status, status'[a])
    BY DEF RowsReached
  <2>1. row[a].status \in Statuses
    BY DEF TableTypes, Row
  <2>2. Reached(row[a].status, status[a])
    BY DEF RowsReached
  <2> QED  BY <1>1, <2>1, <2>2 DEF RowsFollow
<1>3. HeldReached'
  <2> SUFFICES ASSUME NEW w \in Workers, NEW read \in worker'[w].held
               PROVE  Reached(read[2].status, status'[read[1]])
    BY DEF HeldReached
  <2>1. read[1] \in Actions /\ read[2].status \in Statuses
    BY DEF RunnerTypes, WorkerState, Row
  <2>2. Reached(read[2].status, status[read[1]])
    BY DEF HeldReached, HeldFollows
  <2> QED  BY <1>1, <2>1, <2>2
<1>4. CaughtIsSlash'
  <2> SUFFICES ASSUME NEW a \in KnownSlashed'  PROVE status'[a] = "ResolvedSlash"
    BY DEF CaughtIsSlash
  <2>1. CASE a \in KnownSlashed
    <3>1. a \in Actions /\ status[a] = "ResolvedSlash"
      BY <2>1 DEF CaughtIsSlash, KnownSlashed, TableTypes, RunnerTypes, ScanState
    <3> QED  BY <3>1 DEF Onward, Leads
  <2> QED  BY <2>1 DEF CatchesFollow
<1>5. ArmReached'
  <2> SUFFICES ASSUME NEW a \in Actions, arm'[a] # "new"
               PROVE  Reached("Executed", status'[a])
    BY DEF ArmReached
  <2>1. Reached("Executed", status[a])
    BY DEF ArmReached, ArmFollows
  <2> QED  BY <1>1, <2>1, StatusList
<1> QED  BY <1>2, <1>3, <1>4, <1>5

LEMMA ArmStays == ASSUME UNCHANGED arm  PROVE ArmFollows
BY DEF ArmFollows

LEMMA Moved ==
  ASSUME ProjectionInv, NEW a \in Actions, NEW old, NEW new \in Statuses,
         Leads(old, new), Becomes(a, old, new)
  PROVE  /\ Onward
         /\ status' \in [Actions -> Statuses]
         /\ status'[a] = new /\ status[a] = old
         /\ \A b \in Actions : b # a => status'[b] = status[b]
         /\ log' \in Seq(Actions) /\ Len(log') = Len(log) + 1
         /\ expired' = expired /\ arm' = arm
<1> USE DEF ProjectionInv, TableTypes, Becomes
<1>1. /\ status' \in [Actions -> Statuses]
      /\ status'[a] = new /\ status[a] = old
      /\ \A b \in Actions : b # a => status'[b] = status[b]
  OBVIOUS
<1>2. Onward
  BY <1>1 DEF Onward, Leads
<1>3. log' \in Seq(Actions) /\ Len(log') = Len(log) + 1
  BY AppendProperties
<1> QED  BY <1>1, <1>2, <1>3

\* An action moves on the chain, and the tables stay.
LEMMA MovedKeeps ==
  ASSUME ProjectionInv, NEW a \in Actions, NEW old, NEW new \in Statuses,
         Leads(old, new), Becomes(a, old, new),
         UNCHANGED <<rowVars, attested, catches>>, failures' \in 0..MaxFailures,
         RunnerTypes', HeldFollows, CatchesFollow
  PROVE  ProjectionInv' /\ Onward
<1>1. TableTypes'
  BY Moved DEF ProjectionInv, TableTypes, rowVars
<1>2. RowsFollow
  BY DEF RowsFollow, rowVars
<1> QED  BY <1>1, <1>2, Moved, ArmStays, ProjectionKept

\* The chain and the tables stay, while the arm service returns or is gone.
LEMMA ArmMovesKeeps ==
  ASSUME ProjectionInv, UNCHANGED <<chainVars, rowVars, attested, catches>>,
         arm' \in [Actions -> ArmPhases],
         \A a \in Actions : arm[a] = "new" => arm'[a] = "new",
         failures' \in 0..MaxFailures, RunnerTypes', HeldFollows, CatchesFollow
  PROVE  ProjectionInv' /\ Onward
<1>1. TableTypes'
  BY DEF ProjectionInv, TableTypes, rowVars, chainVars
<1>2. RowsFollow /\ ArmFollows
  BY DEF RowsFollow, ArmFollows, rowVars
<1>3. Onward
  BY DEF Onward, Leads, chainVars
<1> QED  BY <1>1, <1>2, <1>3, ProjectionKept

\* The chain and the tables stay.
LEMMA StillKeeps ==
  ASSUME ProjectionInv, UNCHANGED <<chainVars, arm, rowVars, attested, catches>>,
         failures' \in 0..MaxFailures, RunnerTypes', HeldFollows, CatchesFollow
  PROVE  ProjectionInv' /\ Onward
BY ArmMovesKeeps DEF ProjectionInv, TableTypes

\* Runners that stay, and what they know.
LEMMA RunnersStay ==
  ASSUME ProjectionInv
  PROVE  /\ UNCHANGED <<worker, scan>> => RunnerTypes'
         /\ UNCHANGED worker => HeldFollows
         /\ UNCHANGED <<scan, catches>> => CatchesFollow
<1>1. UNCHANGED <<worker, scan>> => RunnerTypes'
  BY DEF ProjectionInv, RunnerTypes, At
<1>2. UNCHANGED worker => HeldFollows
  BY DEF HeldFollows
<1>3. UNCHANGED <<scan, catches>> => CatchesFollow
  BY DEF CatchesFollow, KnownSlashed, Recording
<1> QED  BY <1>1, <1>2, <1>3

LEMMA Failed == ASSUME ProjectionInv, Failure  PROVE failures' \in 0..MaxFailures
BY ProjectionAssumption DEF ProjectionInv, TableTypes, Failure

\* The arm service writes what it has seen, late as it may be.
LEMMA ArmedKeeps ==
  ASSUME ProjectionInv, NEW a \in Actions, ArmRecords(a), UNCHANGED watchVars
  PROVE  ProjectionInv' /\ Onward
<1>1. row' \in [Actions -> Row] /\ arm' \in [Actions -> ArmPhases]
  BY StatusList DEF ArmRecords, ArmPhases, ProjectionInv, TableTypes, Row
<1>2. TableTypes'
  BY <1>1 DEF ArmRecords, ProjectionInv, TableTypes, chainVars, watchVars
<1>3. Reached("Executed", status[a])
  BY DEF ArmRecords, ProjectionInv, ArmReached
<1>4. RowsFollow /\ ArmFollows
  BY <1>3 DEF ArmRecords, RowsFollow, ArmFollows, chainVars, ProjectionInv, TableTypes
<1>5. Onward
  BY DEF ArmRecords, Onward, Leads, chainVars
<1> QED  BY <1>2, <1>4, <1>5, RunnersStay, ProjectionKept DEF ArmRecords, watchVars

LEMMA ArmSeesKeeps ==
  ASSUME ProjectionInv, NEW a \in Actions, ArmSees(a), UNCHANGED watchVars
  PROVE  ProjectionInv' /\ Onward
<1>1. arm' \in [Actions -> ArmPhases]
  BY DEF ArmSees, ArmPhases, ProjectionInv, TableTypes
<1>2. TableTypes'
  BY <1>1 DEF ArmSees, ProjectionInv, TableTypes, chainVars, rowVars, watchVars
<1>3. RowsFollow /\ ArmFollows
  BY DEF ArmSees, RowsFollow, ArmFollows, Reached, rowVars, ProjectionInv, TableTypes
<1>4. Onward
  BY DEF ArmSees, Onward, Leads, chainVars
<1> QED  BY <1>2, <1>3, <1>4, RunnersStay, ProjectionKept DEF ArmSees, watchVars

\* The call of the arm service ends.
LEMMA ArmReturnsKeeps ==
  ASSUME ProjectionInv, NEW a \in Actions, ArmReturns(a),
         UNCHANGED <<chainVars, rowVars, worker, watchVars>>, failures' \in 0..MaxFailures
  PROVE  ProjectionInv' /\ Onward
<1>1. /\ arm' \in [Actions -> ArmPhases]
      /\ \A b \in Actions : arm[b] = "new" => arm'[b] = "new"
  BY DEF ArmReturns, ArmPhases, ProjectionInv, TableTypes
<1> QED  BY <1>1, RunnersStay, ArmMovesKeeps DEF watchVars

LEMMA ChainKeeps ==
  ASSUME ProjectionInv, ChainStep, UNCHANGED watchVars
  PROVE  ProjectionInv' /\ Onward
<1>1. failures \in 0..MaxFailures
  BY DEF ProjectionInv, TableTypes
<1>2. ASSUME NEW a \in Actions, AgentActs(a)  PROVE ProjectionInv' /\ Onward
  <2>1. PICK old, new \in Statuses : Leads(old, new) /\ Becomes(a, old, new)
    BY <1>2, StatusList DEF AgentActs, Leads
  <2> QED  BY <1>1, <1>2, <2>1, RunnersStay, MovedKeeps DEF AgentActs, watchVars
<1>3. ASSUME NEW a \in Actions, WindowEnds(a)  PROVE ProjectionInv' /\ Onward
  <2>1. TableTypes'
    BY <1>3 DEF WindowEnds, ProjectionInv, TableTypes, rowVars, watchVars
  <2>2. Onward /\ RowsFollow /\ ArmFollows
    BY <1>3 DEF WindowEnds, Onward, Leads, RowsFollow, ArmFollows, rowVars
  <2> QED  BY <1>3, <2>1, <2>2, RunnersStay, ProjectionKept DEF WindowEnds, watchVars
<1>4. CASE CoolsDown
  BY <1>1, <1>4, RunnersStay, StillKeeps DEF CoolsDown, watchVars
<1> QED  BY <1>2, <1>3, <1>4, ArmedKeeps, ArmSeesKeeps DEF ChainStep

(***************************************************************************)
(* The new events are the last of the log, so that the cursor moves to its *)
(* end, or there are none and it stays.                                    *)
(***************************************************************************)
LEMMA CursorInLog ==
  ASSUME ProjectionInv, NEW since \in Nat
  PROVE  /\ Max({cursor} \cup NewEvents(since)) \in 0..Len(log)
         /\ \A k \in NewEvents(since) : log[k] \in Actions
<1> DEFINE N == NewEvents(since)
           S == {cursor} \cup N
<1>1. cursor \in 0..Len(log) /\ Len(log) \in Nat /\ EventWindow \in Nat \ {0}
  BY ProjectionAssumption DEF ProjectionInv, TableTypes
<1>2. N \subseteq 1..Len(log)
  BY DEF NewEvents
<1>3. \E x \in S : \A y \in S : x >= y
  <2>1. CASE N = {}
    BY <1>1, <2>1
  <2>2. CASE N # {}
    <3>1. Len(log) \in N
      BY <1>1, <2>2 DEF NewEvents
    <3> QED  BY <1>1, <1>2, <3>1
  <2> QED  BY <2>1, <2>2
<1>4. Max(S) \in S
  BY <1>3 DEF Max
<1>5. S \subseteq 0..Len(log)
  BY <1>1, <1>2
<1>6. \A k \in N : log[k] \in Actions
  BY <1>1, <1>2 DEF ProjectionInv, TableTypes
<1> QED  BY <1>4, <1>5, <1>6

\* A worker is set to another state.
LEMMA WorkerSet ==
  ASSUME ProjectionInv, NEW w \in Workers, NEW state \in WorkerState,
         worker' = [worker EXCEPT ![w] = state], UNCHANGED scan,
         w = Watch => (worker[w].pc # "idle" /\ state.pc # "idle"),
         \A read \in state.held :
           read \in worker[w].held \/ Reached(read[2].status, status[read[1]])
  PROVE  RunnerTypes' /\ HeldFollows
<1>1. worker' \in [Workers -> WorkerState] /\ worker'[w] = state
  BY DEF ProjectionInv, RunnerTypes
<1>2. \A v \in Workers : v # w => worker'[v] = worker[v]
  BY DEF ProjectionInv, RunnerTypes
<1>3. Watch \in Workers
  BY WatchdogAssumption
<1>4. RunnerTypes'
  BY <1>1, <1>2, <1>3 DEF ProjectionInv, RunnerTypes, At
<1>5. HeldFollows
  BY <1>1, <1>2 DEF HeldFollows
<1> QED  BY <1>4, <1>5

\* A worker reads the chain and the row of an action.
LEMMA ReadKeeps ==
  ASSUME ProjectionInv, NEW w \in Workers, NEW a \in Actions,
         worker[w].pc # "idle",
         worker' = [worker EXCEPT ![w].todo = @ \ {a}, ![w].held = {<<a, RowOf(a)>>}],
         UNCHANGED <<outerVars, rowVars, failures, watchVars>>
  PROVE  ProjectionInv' /\ Onward
<1> DEFINE read == <<a, RowOf(a)>>
           new == [worker[w] EXCEPT !.todo = @ \ {a}, !.held = {read}]
<1>1. worker[w] \in WorkerState /\ worker \in [Workers -> WorkerState]
      /\ failures \in 0..MaxFailures
  BY DEF ProjectionInv, RunnerTypes, TableTypes
<1>2. RowOf(a) \in Row
  BY DEF RowOf, Row, ProjectionInv, TableTypes
<1>3. new \in WorkerState /\ new.held = {read} /\ new.pc = worker[w].pc
  <2>1. {read} \in SUBSET (Actions \X Row)
    BY <1>2
  <2> HIDE DEF read
  <2> QED  BY <1>1, <2>1 DEF WorkerState
<1>4. worker' = [worker EXCEPT ![w] = new]
  BY <1>1
<1>5. Reached(read[2].status, status[read[1]])
  BY DEF RowOf, Reached
<1>6. RunnerTypes' /\ HeldFollows
  <2>1. \A other \in new.held : Reached(other[2].status, status[other[1]])
    BY <1>3, <1>5
  <2> HIDE DEF new
  <2> QED  BY <1>3, <1>4, <2>1, WorkerSet DEF watchVars
<1> QED  BY <1>1, <1>6, RunnersStay, StillKeeps DEF outerVars, watchVars

\* A worker writes the row that it has read.
LEMMA WriteKeeps ==
  ASSUME ProjectionInv, NEW w \in Workers, NEW a \in Actions, WriteRow(w, a),
         UNCHANGED watchVars
  PROVE  ProjectionInv' /\ Onward
<1> DEFINE new == [worker[w] EXCEPT !.held = {}]
<1>1. worker[w] \in WorkerState /\ worker \in [Workers -> WorkerState]
  BY DEF ProjectionInv, RunnerTypes
<1>2. CatchesFollow
  BY RunnersStay DEF watchVars
<1>3. new \in WorkerState /\ new.held = {} /\ new.pc = worker[w].pc
  BY <1>1 DEF WorkerState
<1>4. worker' = [worker EXCEPT ![w] = new]
  BY <1>1 DEF WriteRow
<1>5. worker'[w] = new /\ \A v \in Workers : v # w => worker'[v] = worker[v]
  BY <1>1, <1>4
<1>6. RunnerTypes' /\ HeldFollows
  <2> HIDE DEF new
  <2>1. worker' \in [Workers -> WorkerState]
    BY <1>1, <1>3, <1>4
  <2>2. \A v \in Workers : worker'[v].pc = worker[v].pc
    BY <1>3, <1>5
  <2>3. RunnerTypes'
    BY <2>1, <2>2, WatchdogAssumption
       DEF ProjectionInv, RunnerTypes, At, watchVars
  <2>4. HeldFollows
    BY <1>3, <1>5 DEF HeldFollows
  <2> QED  BY <2>3, <2>4
<1>7. PICK read \in worker[w].held : read[1] = a /\ row' = [row EXCEPT ![a] = read[2]]
  BY DEF WriteRow
<1>8. read[2] \in Row /\ Reached(read[2].status, status[a])
  BY <1>1, <1>7 DEF WorkerState, ProjectionInv, HeldReached
<1>9. TableTypes'
  BY <1>7, <1>8
     DEF WriteRow, ProjectionInv, TableTypes, outerVars, chainVars, watchVars
<1>10. RowsFollow /\ ArmFollows /\ Onward
  BY <1>7, <1>8
     DEF WriteRow, RowsFollow, ArmFollows, Onward, Leads, outerVars, chainVars,
         ProjectionInv, TableTypes
<1> QED  BY <1>2, <1>6, <1>9, <1>10, ProjectionKept

LEMMA ReconcileKeeps ==
  ASSUME ProjectionInv, NEW w \in Workers, Reconciles(w), UNCHANGED watchVars
  PROVE  ProjectionInv' /\ Onward
<1> DEFINE state == worker[w]
<1>1. /\ worker[w] \in WorkerState /\ failures \in 0..MaxFailures
      /\ cursor \in 0..Len(log) /\ Len(log) \in Nat
      /\ worker \in [Workers -> WorkerState]
  BY DEF ProjectionInv, RunnerTypes, TableTypes
<1>2. CatchesFollow
  BY RunnersStay DEF watchVars
<1>3. CASE ReadCursor(w)
  <2> DEFINE new == [worker[w] EXCEPT !.pc = "fetching", !.since = cursor]
  <2>0. cursor \in Nat
    BY <1>1
  <2>1. new \in WorkerState /\ new.held = worker[w].held /\ new.pc # "idle"
    BY <1>1, <2>0 DEF WorkerState
  <2>2. worker' = [worker EXCEPT ![w] = new] /\ worker[w].pc # "idle"
    BY <1>1, <1>3 DEF ReadCursor, At
  <2>3. RunnerTypes' /\ HeldFollows
    <3> HIDE DEF new
    <3> QED  BY <2>1, <2>2, WorkerSet DEF watchVars
  <2> QED  BY <1>1, <1>2, <1>3, <2>3, StillKeeps DEF ReadCursor, outerVars, watchVars
<1>4. CASE TakeEvents(w)
  <2> DEFINE found == NewEvents(worker[w].since)
             todo == {log[k] : k \in found}
             new == [worker[w] EXCEPT !.pc = "projecting", !.since = 0, !.todo = todo]
  <2>1. Max({cursor} \cup found) \in 0..Len(log) /\ todo \subseteq Actions
    <3>1. worker[w].since \in Nat
      BY <1>1 DEF WorkerState
    <3>2. /\ Max({cursor} \cup found) \in 0..Len(log)
          /\ \A k \in found : log[k] \in Actions
      BY <3>1, CursorInLog
    <3> HIDE DEF found
    <3> QED  BY <3>2
  <2>2. new \in WorkerState /\ new.held = worker[w].held /\ new.pc # "idle"
    <3> HIDE DEF todo
    <3> QED  BY <1>1, <2>1 DEF WorkerState
  <2>3. worker' = [worker EXCEPT ![w] = new] /\ worker[w].pc # "idle"
    BY <1>1, <1>4 DEF TakeEvents, At
  <2>4. RunnerTypes' /\ HeldFollows
    <3> HIDE DEF new
    <3> QED  BY <2>2, <2>3, WorkerSet DEF watchVars
  <2>5. TableTypes'
    BY <1>4, <2>1
       DEF TakeEvents, ProjectionInv, TableTypes, outerVars, chainVars, watchVars
  <2>6. RowsFollow /\ ArmFollows /\ Onward
    BY <1>4 DEF TakeEvents, RowsFollow, ArmFollows, Onward, Leads, outerVars, chainVars
  <2> QED  BY <1>2, <2>4, <2>5, <2>6, ProjectionKept
<1>5. ASSUME NEW a \in Actions, ReadAction(w, a)
      PROVE  ProjectionInv' /\ Onward
  BY <1>5, ReadKeeps DEF ReadAction, At
<1>6. ASSUME NEW a \in Actions, WriteRow(w, a)
      PROVE  ProjectionInv' /\ Onward
  BY <1>6, WriteKeeps
<1>7. CASE ReconcileThrows(w)
  <2> DEFINE new == [IdleWorker EXCEPT !.pc = "thrown", !.todo = Pending(w)]
  <2>0. Pending(w) \in SUBSET Actions
    BY <1>1 DEF Pending, WorkerState
  <2>1. new \in WorkerState /\ new.held = {} /\ new.pc # "idle"
    BY <2>0 DEF WorkerState, IdleWorker
  <2>2. worker' = [worker EXCEPT ![w] = new] /\ worker[w].pc # "idle"
    BY <1>7 DEF ReconcileThrows
  <2>3. RunnerTypes' /\ HeldFollows
    <3> HIDE DEF new
    <3> QED  BY <2>1, <2>2, WorkerSet DEF watchVars
  <2> QED
    BY <1>2, <1>7, <2>3, Failed, StillKeeps DEF ReconcileThrows, outerVars, watchVars
<1> QED  BY <1>3, <1>4, <1>5, <1>6, <1>7 DEF Reconciles, Projects

\* Workers other than the watchdog begin and end as they like.
LEMMA BeginsOrEnds ==
  ASSUME ProjectionInv, NEW w \in Workers \ {Watch}, UNCHANGED scan,
         \/ BeginReconcile(w)
         \/ worker' = [worker EXCEPT ![w] = IdleWorker]
  PROVE  RunnerTypes' /\ HeldFollows
<1>1. worker[w] \in WorkerState
  BY DEF ProjectionInv, RunnerTypes
<1>2. CASE BeginReconcile(w)
  <2> DEFINE new == [worker[w] EXCEPT !.pc = "starting"]
  <2>1. new \in WorkerState /\ new.held = worker[w].held
    BY <1>1 DEF WorkerState
  <2>2. worker' = [worker EXCEPT ![w] = new]
    BY <1>2 DEF BeginReconcile, ProjectionInv, RunnerTypes
  <2> HIDE DEF new
  <2> QED  BY <2>1, <2>2, WorkerSet
<1>3. CASE worker' = [worker EXCEPT ![w] = IdleWorker]
  <2>1. IdleWorker \in WorkerState /\ IdleWorker.held = {}
    BY DEF WorkerState, IdleWorker
  <2> QED  BY <1>3, <2>1, WorkerSet
<1> QED  BY <1>2, <1>3

\* The keeper's own list does not matter to any other part.
LEMMA KeeperSet ==
  ASSUME ProjectionInv, UNCHANGED scan, NEW state \in WorkerState,
         state.held \subseteq worker[Listener].held,
         worker' = [worker EXCEPT ![Listener] = state]
  PROVE  RunnerTypes' /\ HeldFollows
BY WorkerSet, ProjectionAssumption, WatchdogAssumption

LEMMA KeeperKeeps ==
  ASSUME ProjectionInv, NEW a \in Actions, Keeps(a), UNCHANGED watchVars
  PROVE  ProjectionInv' /\ Onward
<1> DEFINE old == worker[Listener]
<1>1. /\ Listener \in Workers \ {Watch}
      /\ worker \in [Workers -> WorkerState] /\ old \in WorkerState
      /\ failures \in 0..MaxFailures
  BY ProjectionAssumption, WatchdogAssumption DEF ProjectionInv, RunnerTypes, TableTypes
<1>2. CatchesFollow /\ UNCHANGED <<scan, attested, catches>>
  BY RunnersStay DEF watchVars
<1>3. CASE KeeperLooks(a)
  BY <1>1, <1>3, ReadKeeps DEF KeeperLooks, At
<1>4. CASE KeeperCorrects(a)
  BY <1>1, <1>4, WriteKeeps DEF KeeperCorrects
<1>5. "ResolvedRefund" \in Statuses /\ Leads("Executed", "ResolvedRefund")
  BY StatusList DEF Leads
<1>6. CASE KeeperResolves(a)
  <2> DEFINE new == [old EXCEPT !.held = {}, !.kept = TRUE]
  <2>1. new \in WorkerState /\ new.held = {}
    BY <1>1 DEF WorkerState
  <2>2. worker' = [worker EXCEPT ![Listener] = new]
    BY <1>1, <1>6 DEF KeeperResolves
  <2> HIDE DEF new
  <2> QED
    BY <1>1, <1>2, <1>5, <1>6, <2>1, <2>2, KeeperSet, MovedKeeps DEF KeeperResolves
<1>7. CASE KeeperFails(a)
  <2> DEFINE new == [old EXCEPT !.todo = @ \ {a}, !.held = {}]
  <2>1. new \in WorkerState /\ new.held = {}
    BY <1>1 DEF WorkerState
  <2>2. worker' = [worker EXCEPT ![Listener] = new]
    BY <1>1, <1>7 DEF KeeperFails
  <2> HIDE DEF new
  <2>3. RunnerTypes' /\ HeldFollows
    BY <1>2, <2>1, <2>2, KeeperSet
  <2>4. UNCHANGED rowVars /\ failures' \in 0..MaxFailures
    BY <1>1, <1>7, Failed DEF KeeperFails
  <2>5. UNCHANGED outerVars \/ Becomes(a, "Executed", "ResolvedRefund")
    BY <1>7 DEF KeeperFails
  <2> QED
    BY <1>2, <1>5, <2>3, <2>4, <2>5, StillKeeps, MovedKeeps DEF outerVars
<1>8. CASE KeeperBreaks(a)
  <2> DEFINE new == [old EXCEPT !.todo = {}, !.held = {}, !.broke = TRUE]
  <2>1. new \in WorkerState /\ new.held = {}
    BY <1>1 DEF WorkerState
  <2>2. worker' = [worker EXCEPT ![Listener] = new]
    BY <1>1, <1>8 DEF KeeperBreaks
  <2> HIDE DEF new
  <2> QED
    BY <1>2, <1>8, <2>1, <2>2, Failed, KeeperSet, StillKeeps DEF KeeperBreaks, outerVars
<1> QED  BY <1>3, <1>4, <1>6, <1>7, <1>8 DEF Keeps

LEMMA ListenerKeeps ==
  ASSUME ProjectionInv, ListenerStep, UNCHANGED watchVars
  PROVE  ProjectionInv' /\ Onward
<1>1. /\ Listener \in Workers \ {Watch}
      /\ worker \in [Workers -> WorkerState] /\ worker[Listener] \in WorkerState
      /\ failures \in 0..MaxFailures
  BY ProjectionAssumption, WatchdogAssumption DEF ProjectionInv, RunnerTypes, TableTypes
<1>2. CatchesFollow /\ UNCHANGED <<scan, attested, catches>>
  BY RunnersStay DEF watchVars
<1>3. CASE TickBegins
  BY <1>1, <1>2, <1>3, BeginsOrEnds, StillKeeps DEF TickBegins, outerVars
<1>4. CASE Reconciles(Listener)
  BY <1>1, <1>4, ReconcileKeeps
<1>5. CASE TickKeeps
  <2> DEFINE todo == IF cooling THEN {} ELSE ExpiredClean
             new == [worker[Listener] EXCEPT !.pc = "keeping", !.todo = todo]
  <2>1. todo \in SUBSET Actions
    BY DEF ExpiredClean, ProjectionInv, TableTypes
  <2>2. new \in WorkerState /\ new.held = worker[Listener].held
    <3> HIDE DEF todo
    <3> QED  BY <1>1, <2>1 DEF WorkerState
  <2>3. worker' = [worker EXCEPT ![Listener] = new]
    BY <1>1, <1>5 DEF TickKeeps
  <2> HIDE DEF new
  <2> QED
    BY <1>1, <1>2, <1>5, <2>2, <2>3, KeeperSet, StillKeeps DEF TickKeeps, outerVars
<1>6. ASSUME NEW a \in Actions, Keeps(a)  PROVE ProjectionInv' /\ Onward
  BY <1>6, KeeperKeeps
<1>7. CASE KeeperEnds \/ TickEnds
  <2>1. RunnerTypes' /\ HeldFollows
    BY <1>1, <1>2, <1>7, BeginsOrEnds DEF KeeperEnds, TickEnds
  <2>2. UNCHANGED <<chainVars, arm, rowVars, failures>>
    BY <1>7 DEF KeeperEnds, TickEnds, Rests, outerVars
  <2> QED  BY <1>1, <1>2, <2>1, <2>2, StillKeeps
<1> QED  BY <1>3, <1>4, <1>5, <1>6, <1>7 DEF ListenerStep

LEMMA OutsiderKeeps ==
  ASSUME ProjectionInv, NEW a \in Actions, PostAttestation(a) \/ OutsiderActs(a)
  PROVE  ProjectionInv' /\ Onward
<1>1. failures \in 0..MaxFailures
  BY DEF ProjectionInv, TableTypes
<1>2. CASE PostAttestation(a)
  <2>1. TableTypes'
    BY <1>2 DEF PostAttestation, ProjectionInv, TableTypes, projectionVars,
                outerVars, chainVars, rowVars
  <2>2. RowsFollow /\ ArmFollows /\ Onward
    BY <1>2 DEF PostAttestation, RowsFollow, ArmFollows, Onward, Leads, projectionVars,
                outerVars, chainVars, rowVars
  <2> QED  BY <1>2, <2>1, <2>2, RunnersStay, ProjectionKept
           DEF PostAttestation, projectionVars
<1>3. CASE OutsiderActs(a)
  <2>1. PICK old, new \in Statuses : Leads(old, new) /\ Becomes(a, old, new)
    BY <1>3, StatusList DEF OutsiderActs, Leads
  <2> QED  BY <1>1, <1>3, <2>1, RunnersStay, MovedKeeps DEF OutsiderActs, watchVars
<1> QED  BY <1>2, <1>3

\* The scan goes to another step without a reconciliation.
LEMMA ScanSet ==
  ASSUME ProjectionInv, UNCHANGED worker, scan' \in ScanState,
         scan.pc # "reconcile", scan'.pc # "reconcile",
         \A a, b \in scan'.current : a = b
  PROVE  RunnerTypes' /\ HeldFollows
BY RunnersStay DEF ProjectionInv, RunnerTypes, At

\* The scan waits for a reconciliation of its own.
LEMMA ScanWaits ==
  ASSUME ProjectionInv, NEW done \in {"resolve", "record", "next", "abort"},
         NEW thrown \in {"failed", "abort"}, ReconcileThen(done, thrown)
  PROVE  /\ RunnerTypes' /\ HeldFollows
         /\ scan'.done = done /\ scan'.current = scan.current
         /\ scan'.pc = "reconcile"
<1> DEFINE new == [worker[Watch] EXCEPT !.pc = "starting"]
<1>1. Watch \in Workers /\ worker[Watch] \in WorkerState /\ scan \in ScanState
  BY WatchdogAssumption DEF ProjectionInv, RunnerTypes
<1>2. /\ scan' \in ScanState /\ scan'.pc = "reconcile" /\ scan'.done = done
      /\ scan'.current = scan.current /\ scan'.thrown = thrown
  BY <1>1 DEF ReconcileThen, ScanState
<1>3. new \in WorkerState /\ new.held = worker[Watch].held /\ new.pc = "starting"
  BY <1>1 DEF WorkerState
<1>4. worker' = [worker EXCEPT ![Watch] = new]
  BY DEF ReconcileThen, BeginReconcile, ProjectionInv, RunnerTypes
<1> HIDE DEF new
<1>5. /\ worker' \in [Workers -> WorkerState] /\ worker'[Watch] = new
      /\ \A v \in Workers : v # Watch => worker'[v] = worker[v]
  BY <1>1, <1>3, <1>4 DEF ProjectionInv, RunnerTypes
<1>6. RunnerTypes'
  BY <1>2, <1>3, <1>5 DEF ProjectionInv, RunnerTypes, At
<1>7. HeldFollows
  BY <1>3, <1>5 DEF HeldFollows
<1> QED  BY <1>2, <1>6, <1>7

\* Where nothing is to be recorded, nothing new is known to be slashed.
LEMMA NothingRecorded ==
  ASSUME UNCHANGED catches, scan'.pc # "record",
         scan'.pc = "reconcile" => scan'.done # "record"
  PROVE  CatchesFollow
BY DEF CatchesFollow, KnownSlashed, Recording

LEMMA WatchKeeps ==
  ASSUME ProjectionInv, WatchStep
  PROVE  ProjectionInv' /\ Onward
<1>1. /\ Watch \in Workers /\ worker[Watch] \in WorkerState
      /\ worker \in [Workers -> WorkerState] /\ scan \in ScanState
      /\ failures \in 0..MaxFailures
      /\ \A a, b \in scan.current : a = b
      /\ scan.pc = "reconcile" => scan.done # "none" /\ scan.thrown # "none"
  BY WatchdogAssumption DEF ProjectionInv, RunnerTypes, TableTypes
<1>2. UNCHANGED projectionVars =>
        UNCHANGED <<outerVars, rowVars, worker, failures>>
  BY DEF projectionVars
<1>3. CASE ScanBegins
  <2>1. scan' \in ScanState /\ scan'.pc = "next" /\ scan'.current = scan.current
    BY <1>1, <1>3 DEF ScanBegins, ScanState
  <2>2. RunnerTypes' /\ HeldFollows
    BY <1>1, <1>2, <1>3, <2>1, ScanSet DEF ScanBegins
  <2> QED  BY <1>1, <1>2, <1>3, <2>1, <2>2, NothingRecorded, StillKeeps DEF ScanBegins, outerVars
<1>4. CASE Reconciles(Watch) /\ UNCHANGED watchVars
  BY <1>1, <1>4, ReconcileKeeps
<1>5. CASE ReconcileReturns
  <2>1. /\ scan.pc = "reconcile" /\ scan' \in ScanState
        /\ scan'.pc # "reconcile" /\ scan'.current = scan.current
        /\ scan'.pc = "record" => scan.done = "record"
    BY <1>1, <1>5 DEF ReconcileReturns, ScanState
  <2>2. IdleWorker \in WorkerState /\ IdleWorker.held = {} /\ IdleWorker.pc = "idle"
    BY DEF WorkerState, IdleWorker
  <2>3. /\ worker' \in [Workers -> WorkerState] /\ worker'[Watch] = IdleWorker
        /\ \A v \in Workers : v # Watch => worker'[v] = worker[v]
    BY <1>1, <1>5, <2>2 DEF ReconcileReturns
  <2>4. RunnerTypes'
    BY <1>1, <2>1, <2>2, <2>3 DEF RunnerTypes, At
  <2>5. HeldFollows
    BY <2>2, <2>3 DEF HeldFollows
  <2>6. CatchesFollow
    BY <1>5, <2>1 DEF ReconcileReturns, CatchesFollow, KnownSlashed, Recording
  <2> QED  BY <1>1, <1>5, <2>4, <2>5, <2>6, StillKeeps DEF ReconcileReturns, outerVars
<1>6. ASSUME NEW a \in Actions, ScanTakes(a)
      PROVE  ProjectionInv' /\ Onward
  <2>1. /\ scan.pc = "next" /\ scan' \in ScanState /\ scan'.pc \in {"next", "challenge"}
        /\ \A b, c \in scan'.current : b = c
    BY <1>1, <1>6 DEF ScanTakes, ScanState
  <2>2. RunnerTypes' /\ HeldFollows
    BY <1>1, <1>2, <1>6, <2>1, ScanSet DEF ScanTakes
  <2> QED  BY <1>1, <1>2, <1>6, <2>1, <2>2, NothingRecorded, StillKeeps DEF ScanTakes, outerVars
<1>7. ASSUME NEW a \in Actions, Challenge(a)
      PROVE  ProjectionInv' /\ Onward
  <2>1. "Challenged" \in Statuses /\ Leads("Executed", "Challenged")
    BY StatusList DEF Leads
  <2>2. RunnerTypes' /\ HeldFollows /\ CatchesFollow /\ failures' \in 0..MaxFailures
    <3>1. CASE ReconcileThen("resolve", "failed") /\ UNCHANGED failures
      BY <1>1, <1>7, <3>1, ScanWaits, NothingRecorded DEF Challenge
    <3>2. CASE /\ Failure
               /\ scan' = [scan EXCEPT !.pc = "failed"]
               /\ UNCHANGED worker
      <4>1. scan' \in ScanState /\ scan'.pc = "failed" /\ scan'.current = scan.current
        BY <1>1, <3>2 DEF ScanState
      <4> QED  BY <1>1, <1>7, <3>2, <4>1, ScanSet, NothingRecorded, Failed DEF Challenge
    <3> QED  BY <1>7, <3>1, <3>2 DEF Challenge, Landed
  <2> QED  BY <1>7, <2>1, <2>2, MovedKeeps DEF Challenge
<1>8. ASSUME NEW a \in Actions, Resolve(a)
      PROVE  ProjectionInv' /\ Onward
  <2>1. "ResolvedSlash" \in Statuses /\ Leads("Challenged", "ResolvedSlash")
    BY StatusList DEF Leads
  <2>2. status'[a] = "ResolvedSlash" /\ a \in scan.current
    BY <1>8, <2>1, Moved DEF Resolve
  <2>3. RunnerTypes' /\ HeldFollows /\ CatchesFollow /\ failures' \in 0..MaxFailures
    <3>1. CASE ReconcileThen("record", "abort") /\ UNCHANGED failures
      <4>1. RunnerTypes' /\ HeldFollows /\ scan'.current = scan.current
        BY <3>1, ScanWaits
      <4>2. CatchesFollow
        BY <1>1, <1>8, <2>2, <4>1 DEF Resolve, CatchesFollow, KnownSlashed
      <4> QED  BY <1>1, <3>1, <4>1, <4>2
    <3>2. CASE /\ Failure
               /\ scan' = [scan EXCEPT !.pc = "failed"]
               /\ UNCHANGED worker
      <4>1. scan' \in ScanState /\ scan'.pc = "failed" /\ scan'.current = scan.current
        BY <1>1, <3>2 DEF ScanState
      <4> QED  BY <1>1, <1>8, <3>2, <4>1, ScanSet, NothingRecorded, Failed DEF Resolve
    <3> QED  BY <1>8, <3>1, <3>2 DEF Resolve, Landed
  <2> QED  BY <1>8, <2>1, <2>3, MovedKeeps DEF Resolve
<1>9. ASSUME NEW a \in Actions, TransactThrows(a)
      PROVE  ProjectionInv' /\ Onward
  <2>1. /\ scan' \in ScanState /\ scan'.pc = "failed" /\ scan'.current = scan.current
        /\ scan.pc # "reconcile"
    BY <1>1, <1>9 DEF TransactThrows, ScanState
  <2>2. RunnerTypes' /\ HeldFollows
    BY <1>1, <1>9, <2>1, ScanSet DEF TransactThrows
  <2>3. failures' \in 0..MaxFailures
    BY <1>1, <1>9, Failed DEF TransactThrows
  <2> QED  BY <1>9, <2>1, <2>2, <2>3, NothingRecorded, StillKeeps DEF TransactThrows, outerVars
<1>10. ASSUME NEW a \in Actions, RecordCatch(a)
       PROVE  ProjectionInv' /\ Onward
  <2>1. scan' \in ScanState /\ scan'.pc = "next" /\ scan'.current = scan.current
    BY <1>1, <1>10 DEF RecordCatch, ScanState
  <2>2. RunnerTypes' /\ HeldFollows
    BY <1>1, <1>10, <2>1, ScanSet DEF RecordCatch
  <2>3. a \in KnownSlashed
    BY <1>10 DEF RecordCatch, KnownSlashed, Recording
  <2>4. status[a] = "ResolvedSlash"
    BY <2>3 DEF ProjectionInv, CaughtIsSlash
  <2>5. CatchesFollow
    BY <1>10, <2>1, <2>3 DEF RecordCatch, CatchesFollow, KnownSlashed, Recording
  <2>6. row' \in [Actions -> Row] /\ row'[a].status = "ResolvedSlash"
        /\ \A b \in Actions : b # a => row'[b] = row[b]
    BY <1>10, StatusList DEF RecordCatch, ProjectionInv, TableTypes, Row
  <2>7. TableTypes'
    BY <1>1, <1>10, <2>6 DEF RecordCatch, ProjectionInv, TableTypes, outerVars, chainVars
  <2>8. RowsFollow /\ ArmFollows /\ Onward
    BY <1>10, <2>4, <2>6
       DEF RecordCatch, RowsFollow, Reached, ArmFollows, Onward, Leads, outerVars, chainVars
  <2> QED  BY <2>2, <2>5, <2>7, <2>8, ProjectionKept
<1>11. CASE CandidateFailed
  BY <1>1, <1>11, ScanWaits, NothingRecorded, StillKeeps DEF CandidateFailed, outerVars
<1>12. CASE ScanEnds
  <2>1. RunnerTypes' /\ HeldFollows /\ CatchesFollow
    <3>1. CASE ReconcileThen("abort", "abort")
      BY <1>12, <3>1, ScanWaits, NothingRecorded DEF ScanEnds
    <3>2. CASE scan' = NoScan /\ UNCHANGED worker
      <4>1. scan' \in ScanState /\ scan'.pc = "idle" /\ scan'.current = {}
        BY <3>2 DEF ScanState, NoScan
      <4> QED  BY <1>12, <3>2, <4>1, ScanSet, NothingRecorded DEF ScanEnds
    <3> QED  BY <1>12, <3>1, <3>2 DEF ScanEnds
  <2> QED  BY <1>1, <1>12, <2>1, StillKeeps DEF ScanEnds, outerVars
<1> QED  BY <1>3, <1>4, <1>5, <1>6, <1>7, <1>8, <1>9, <1>10, <1>11, <1>12
         DEF WatchStep

LEMMA NextKeeps ==
  ASSUME ProjectionInv, [Next]_vars
  PROVE  ProjectionInv' /\ Onward
<1>1. CASE UNCHANGED vars
  <2>1. failures \in 0..MaxFailures
    BY DEF ProjectionInv, TableTypes
  <2> QED  BY <1>1, <2>1, RunnersStay, StillKeeps DEF vars, projectionVars, watchVars, outerVars
<1> QED  BY <1>1, ChainKeeps, ListenerKeeps, WatchKeeps, OutsiderKeeps DEF Next

LEMMA ProjectionShows ==
  ASSUME ProjectionInv
  PROVE  TypeOK /\ RowNeverAhead /\ CatchIsSlash
<1>1. TypeOK
  BY DEF TypeOK, ProjectionInv, TableTypes, RunnerTypes, Row
<1>2. RowNeverAhead
  BY ReachedLate DEF RowNeverAhead, ProjectionInv, RowsReached, TableTypes, Row
<1>3. CatchIsSlash
  BY DEF CatchIsSlash, ProjectionInv, CaughtIsSlash, KnownSlashed
<1> QED  BY <1>1, <1>2, <1>3

(***************************************************************************)
(* Types of the projection, the workers and the watchdog's scan.           *)
(***************************************************************************)
THEOREM WatchdogTypeCorrect == Spec => []TypeOK
<1> QED  BY ProjectionStart, NextKeeps, ProjectionShows, PTL DEF Spec

(***************************************************************************)
(* A row that reconcileChain, the arm service, the keeper or the watchdog  *)
(* has written never claims more than the chain has: listener/reconcile.ts *)
(* writes what it has read some time ago, whatever happened since.         *)
(***************************************************************************)
THEOREM RowsNeverAhead == Spec => []RowNeverAhead
<1> QED  BY ProjectionStart, NextKeeps, ProjectionShows, PTL DEF Spec

-----------------------------------------------------------------------------
(***************************************************************************)
(* Receipts and proofs.                                                    *)
(***************************************************************************)
Cards == [action: Actions, outcome: {"SLASHED", "REFUNDED"}]

ReceiptsInv ==
  /\ ProjectionInv
  /\ signing \cup receipts \cup proofs \subseteq Cards
  /\ OutcomeIsFinal

\* A row that is over shows the end of its action.
LEMMA SettledRow ==
  ASSUME ProjectionInv, NEW a \in Actions, terminal(row[a].status)
  PROVE  status[a] = row[a].status
BY ReachedLate DEF ProjectionInv, RowsReached, TableTypes, Row

LEMMA CardIsFinal ==
  ASSUME ProjectionInv, NEW a \in Actions, terminal(row[a].status)
  PROVE  /\ Card(a) \in Cards /\ Card(a).action = a
         /\ status[a] = IF Card(a).outcome = "SLASHED" THEN "ResolvedSlash"
                        ELSE "ResolvedRefund"
BY SettledRow DEF Card, Cards, terminal

LEMMA ReceiptsStart == ReceiptsInit => ReceiptsInv
BY ProjectionStart DEF ReceiptsInit, ReceiptsInv, OutcomeIsFinal

LEMMA ReadersKeep ==
  ASSUME ReceiptsInv, Readers
  PROVE  ReceiptsInv'
<1>1. UNCHANGED vars
  BY DEF Readers, BuildReceipt, ProofFor, IssueReceipt, SigningFails
<1>2. ProjectionInv' /\ UNCHANGED status
  BY <1>1, NextKeeps DEF ReceiptsInv, vars, projectionVars, outerVars, chainVars
<1>3. ASSUME NEW card \in (signing \cup receipts \cup proofs)',
             card \notin signing \cup receipts \cup proofs
      PROVE  /\ card \in Cards
             /\ status[card.action] = IF card.outcome = "SLASHED" THEN "ResolvedSlash"
                                      ELSE "ResolvedRefund"
  <2>1. PICK a \in Actions : terminal(row[a].status) /\ card = Card(a)
    BY <1>3, ReceiptsAssumption
       DEF Readers, BuildReceipt, ProofFor, IssueReceipt, SigningFails
  <2> QED  BY <2>1, CardIsFinal DEF ReceiptsInv
<1> QED  BY <1>2, <1>3 DEF ReceiptsInv, OutcomeIsFinal

LEMMA ReceiptsStep ==
  ASSUME ReceiptsInv, [ReceiptsNext]_<<vars, receiptVars>>
  PROVE  ReceiptsInv'
<1>1. CASE [Next]_vars /\ UNCHANGED receiptVars
  <2>1. ProjectionInv' /\ Onward
    BY <1>1, NextKeeps DEF ReceiptsInv
  <2>2. ASSUME NEW card \in signing \cup receipts \cup proofs
        PROVE  status'[card.action] = status[card.action]
    <3>1. card.action \in Actions /\ terminal(status[card.action])
      BY DEF ReceiptsInv, OutcomeIsFinal, Cards, terminal
    <3> QED  BY <2>1, <3>1 DEF Onward, Leads, terminal
  <2> QED  BY <1>1, <2>1, <2>2 DEF ReceiptsInv, OutcomeIsFinal, receiptVars
<1>2. CASE Readers
  BY <1>2, ReadersKeep
<1> QED  BY <1>1, <1>2 DEF ReceiptsNext

(***************************************************************************)
(* Receipts and proofs name the outcome the chain has settled for good,    *)
(* whichever process wrote the row that receipts/service.ts built them     *)
(* from, and however long the signing took.                                *)
(***************************************************************************)
THEOREM OutcomesAreFinal == ReceiptsSpec => []OutcomeIsFinal
<1>1. ReceiptsInv => OutcomeIsFinal
  BY DEF ReceiptsInv
<1> QED  BY <1>1, ReceiptsStart, ReceiptsStep, PTL DEF ReceiptsSpec

-----------------------------------------------------------------------------
(***************************************************************************)
(* Challenges through the API: types of its tables and queues, and the     *)
(* projection's invariant through every step of it, restarts included.     *)
(***************************************************************************)
JobRow ==
  [kind: {"challenge", "arm", "watchdog"}, action: SUBSET Actions,
   status: {"submitting_challenge", "resolving", "resolved", "failed", "arming",
            "action_ready"}]
Queued ==
  [entrypoint: {"challenge", "resolve"}, action: Actions,
   caller: {"job", "wallet", "operator"} \X Nat]
Sent == [entrypoint: {"challenge", "resolve"}, action: Actions, caller: {<<>>}]
Deploys == [action: Actions, status: {"pending", "success", "failed"}]
Answers == {"asked", "resolved", "failed", "not_final"}

ApiTypes ==
  /\ jobs \in Seq(JobRow)
  /\ signer \in Seq(Queued)
  /\ settling \in BOOLEAN
  /\ settling => signer # <<>>
  /\ stray \subseteq Sent
  /\ deploys \in Seq(Deploys)
  /\ requests \in Seq(Answers)

ServiceInv == ProjectionInv /\ ApiTypes

LEMMA ServiceStart == ChallengesInit => ServiceInv
<1> SUFFICES ASSUME ChallengesInit  PROVE ApiTypes
  BY ProjectionStart DEF ChallengesInit, ServiceInv
<1> QED  BY EmptySeq DEF ChallengesInit, ApiTypes

\* Replacing one element, or none where the index is not one.
LEMMA SeqUpdated ==
  ASSUME NEW S, NEW s \in Seq(S), NEW j, NEW e, j \in 1..Len(s) => e \in S
  PROVE  /\ [s EXCEPT ![j] = e] \in Seq(S)
         /\ Len([s EXCEPT ![j] = e]) = Len(s)
         /\ \A k \in 1..Len(s) : [s EXCEPT ![j] = e][k] = IF k = j THEN e ELSE s[k]
<1>1. CASE j \in 1..Len(s)
  BY <1>1
<1>2. CASE j \notin 1..Len(s)
  <2>1. s = [k \in 1..Len(s) |-> s[k]]
    OBVIOUS
  <2>2. [s EXCEPT ![j] = e] = [k \in 1..Len(s) |-> s[k]]
    BY <1>2
  <2> QED  BY <1>2, <2>1, <2>2
<1> QED  BY <1>1, <1>2

\* A row of demo_jobs keeps its action while its status changes.
LEMMA JobUpdates ==
  ASSUME jobs \in Seq(JobRow), NEW j,
         NEW st \in {"resolving", "resolved", "failed"}
  PROVE  /\ JobUpdated(j, st) \in Seq(JobRow)
         /\ Len(JobUpdated(j, st)) = Len(jobs)
         /\ \A k \in 1..Len(jobs) :
              /\ JobUpdated(j, st)[k].action = jobs[k].action
              /\ JobUpdated(j, st)[k].kind = jobs[k].kind
              /\ JobUpdated(j, st)[k].status = IF k = j THEN st ELSE jobs[k].status
<1> DEFINE new == [jobs[j] EXCEPT !.status = st]
<1>1. \A k \in 1..Len(jobs) : jobs[k] \in JobRow
  BY ElementOfSeq
<1>2. ASSUME j \in 1..Len(jobs)
      PROVE  /\ new \in JobRow /\ new.status = st
             /\ new.action = jobs[j].action /\ new.kind = jobs[j].kind
  BY <1>1, <1>2 DEF JobRow
<1>3. JobUpdated(j, st) = [jobs EXCEPT ![j] = new]
  BY DEF JobUpdated
<1> HIDE DEF new
<1> QED  BY <1>2, <1>3, SeqUpdated

\* The head of the queue is a call of an action.
LEMMA QueueHead ==
  ASSUME signer \in Seq(Queued), signer # <<>>
  PROVE  /\ Head(signer) \in Queued /\ Head(signer) = signer[1] /\ Len(signer) > 0
         /\ Tail(signer) \in Seq(Queued) /\ Len(Tail(signer)) = Len(signer) - 1
         /\ \A k \in 1..Len(signer) - 1 : Tail(signer)[k] = signer[k + 1]
BY HeadTailProperties, EmptySeq

LEMMA Answered ==
  ASSUME ApiTypes, signer # <<>>, NEW outcome \in {"failed", "resolved"},
         Answer(outcome)
  PROVE  /\ signer' = Tail(signer) /\ signer' \in Seq(Queued)
         /\ jobs' \in Seq(JobRow) /\ Len(jobs') = Len(jobs)
         /\ \A k \in 1..Len(jobs) :
              jobs'[k].action = jobs[k].action /\ jobs'[k].kind = jobs[k].kind
         /\ requests' \in Seq(Answers) /\ Len(requests') = Len(requests)
<1>1. signer' = Tail(signer) /\ signer' \in Seq(Queued)
  BY QueueHead DEF Answer, ApiTypes
<1>2. /\ jobs' \in Seq(JobRow) /\ Len(jobs') = Len(jobs)
      /\ \A k \in 1..Len(jobs) :
           jobs'[k].action = jobs[k].action /\ jobs'[k].kind = jobs[k].kind
  BY JobUpdates DEF Answer, ApiTypes
<1>3. requests' \in Seq(Answers) /\ Len(requests') = Len(requests)
  <2>1. requests \in Seq(Answers) /\ outcome \in Answers
    BY DEF ApiTypes, Answers
  <2>2. \/ requests' = requests
        \/ requests' = [requests EXCEPT ![Caller[2]] = outcome]
    BY DEF Answer
  <2> QED  BY <2>1, <2>2, SeqUpdated
<1> QED  BY <1>1, <1>2, <1>3

LEMMA CallAdded ==
  ASSUME NEW queue \in Seq(Queued), NEW call \in Queued
  PROVE  /\ Append(queue, call) \in Seq(Queued)
         /\ Append(queue, call) # <<>>
         /\ Len(Append(queue, call)) = Len(queue) + 1
         /\ \A k \in 1..Len(queue) + 1 :
              Append(queue, call)[k] = IF k = Len(queue) + 1 THEN call ELSE queue[k]
<1>1. Append(queue, call) \in Seq(Queued) /\ Len(Append(queue, call)) = Len(queue) + 1
  BY AppendProperties
<1>2. Len(queue) \in Nat /\ Len(<<>>) = 0
  BY LenProperties
<1> QED  BY <1>1, <1>2, AppendProperties

LEMMA StartChallengeKeeps ==
  ASSUME ServiceInv, NEW a \in Actions, StartChallenge(a)
  PROVE  ServiceInv' /\ Onward
<1>1. ProjectionInv' /\ Onward
  BY NextKeeps DEF ServiceInv, StartChallenge
<1>2. Job("challenge", {a}, "submitting_challenge") \in JobRow
  BY DEF Job, JobRow
<1>3. jobs' \in Seq(JobRow)
  BY <1>2, AppendProperties DEF StartChallenge, Adds, ServiceInv, ApiTypes
<1>4. Call("challenge", a, ForJob(Len(jobs) + 1)) \in Queued
  <2>1. Len(jobs) + 1 \in Nat
    BY DEF ServiceInv, ApiTypes
  <2>2. ForJob(Len(jobs) + 1) \in {"job", "wallet", "operator"} \X Nat
    BY <2>1 DEF ForJob
  <2> QED  BY <2>2 DEF Call, Queued
<1>5. signer' \in Seq(Queued) /\ signer' # <<>>
  BY <1>4, CallAdded DEF StartChallenge, ServiceInv, ApiTypes
<1> QED  BY <1>1, <1>3, <1>5 DEF StartChallenge, ServiceInv, ApiTypes, walletVars

LEMMA ReadJobKeeps ==
  ASSUME ServiceInv, NEW j, ReadJob(j)
  PROVE  ServiceInv' /\ Onward /\ Len(jobs') = Len(jobs)
<1>1. ProjectionInv' /\ Onward
  BY NextKeeps DEF ServiceInv, ReadJob
<1>2. jobs' \in Seq(JobRow) /\ Len(jobs') = Len(jobs)
  BY JobUpdates DEF ReadJob, Refreshed, ServiceInv, ApiTypes
<1> QED  BY <1>1, <1>2 DEF ReadJob, ServiceInv, ApiTypes, walletVars

\* A step of the projection, the watchdog or others beside the API.
LEMMA ApiStays ==
  ASSUME ServiceInv, ProjectionInv', UNCHANGED apiVars
  PROVE  ServiceInv'
BY DEF ServiceInv, ApiTypes, apiVars, jobVars, walletVars

\* The caller of the head is told how its call has ended.
LEMMA AnswerKeeps ==
  ASSUME ServiceInv, signer # <<>>, NEW outcome \in {"failed", "resolved"},
         Answer(outcome), ProjectionInv', settling' = FALSE,
         UNCHANGED <<deploys, stray>>
  PROVE  ServiceInv'
BY Answered DEF ServiceInv, ApiTypes

LEMMA ChallengeLandsKeeps ==
  ASSUME ServiceInv, NEW a \in Actions, ChallengeLands(a)
  PROVE  ServiceInv' /\ Onward
<1>1. "Challenged" \in Statuses /\ Leads("Executed", "Challenged")
  BY StatusList DEF Leads
<1>2. signer # <<>> /\ ~settling
  BY DEF ChallengeLands, Runs
<1>3. failures' \in 0..MaxFailures
  BY Failed DEF ChallengeLands, ServiceInv, ProjectionInv, TableTypes
<1>4. ProjectionInv' /\ Onward
  BY <1>1, <1>3, RunnersStay, MovedKeeps DEF ServiceInv, ChallengeLands, watchVars
<1>5. CASE Answer("failed")
  BY <1>2, <1>4, <1>5, AnswerKeeps DEF ChallengeLands, ServiceInv, ApiTypes
<1>6. CASE /\ jobs' = JobUpdated(Caller[2], "resolving")
           /\ signer' = Append(Tail(signer), Call("resolve", a, Caller))
           /\ UNCHANGED <<failures, running, requests>>
  <2>1. jobs' \in Seq(JobRow)
    BY <1>6, JobUpdates DEF ServiceInv, ApiTypes
  <2>2. Call("resolve", a, Caller) \in Queued /\ Tail(signer) \in Seq(Queued)
    BY <1>2, QueueHead DEF Call, Caller, Queued, ServiceInv, ApiTypes
  <2>3. signer' \in Seq(Queued) /\ signer' # <<>>
    BY <1>6, <2>2, CallAdded
  <2> QED  BY <1>4, <1>6, <2>1, <2>3 DEF ChallengeLands, ServiceInv, ApiTypes
<1> QED  BY <1>5, <1>6 DEF ChallengeLands

LEMMA Resolved ==
  ASSUME NEW a, Resolution(a)
  PROVE  \E old, new \in Statuses : Leads(old, new) /\ Becomes(a, old, new)
BY StatusList DEF Resolution, Leads

LEMMA ApiWorkers ==
  /\ Api \in Workers \ {Watch} /\ Boot \in Workers \ {Watch}
  /\ Api # Listener /\ Boot # Listener /\ Api # Boot
BY ChallengesAssumption

LEMMA ResolveLandsKeeps ==
  ASSUME ServiceInv, NEW a \in Actions, ResolveLands(a)
  PROVE  ServiceInv' /\ Onward
<1>1. PICK old, new \in Statuses : Leads(old, new) /\ Becomes(a, old, new)
  BY Resolved DEF ResolveLands
<1>2. signer # <<>> /\ ~settling /\ UNCHANGED <<rowVars, scan, attested, catches>>
  BY DEF ResolveLands, Runs, watchVars
<1>3. failures' \in 0..MaxFailures
  BY Failed DEF ResolveLands, ServiceInv, ProjectionInv, TableTypes
<1>4. RunnerTypes' /\ HeldFollows
  BY <1>2, ApiWorkers, BeginsOrEnds, RunnersStay DEF ServiceInv, ResolveLands
<1>5. ProjectionInv' /\ Onward
  BY <1>1, <1>2, <1>3, <1>4, RunnersStay, MovedKeeps DEF ServiceInv
<1>6. CASE Answer("failed") /\ UNCHANGED settling
  BY <1>2, <1>5, <1>6, AnswerKeeps DEF ResolveLands, ServiceInv, ApiTypes
<1>7. CASE settling' = TRUE /\ UNCHANGED <<failures, jobs, running, signer, requests>>
  BY <1>2, <1>5, <1>7 DEF ResolveLands, ServiceInv, ApiTypes
<1> QED  BY <1>6, <1>7 DEF ResolveLands

LEMMA ResolveEndsKeeps ==
  ASSUME ServiceInv, ResolveEnds
  PROVE  ServiceInv' /\ Onward
<1>1. signer # <<>> /\ UNCHANGED <<outerVars, rowVars, scan, attested, catches>>
  BY DEF ResolveEnds, ServiceInv, ApiTypes, watchVars
<1>2. RunnerTypes' /\ HeldFollows
  BY <1>1, ApiWorkers, BeginsOrEnds DEF ServiceInv, ResolveEnds
<1>3. failures' \in 0..MaxFailures
  BY DEF ResolveEnds, ServiceInv, ProjectionInv, TableTypes
<1>4. ProjectionInv' /\ Onward
  BY <1>1, <1>2, <1>3, RunnersStay, StillKeeps DEF ServiceInv, outerVars
<1>5. \E outcome \in {"failed", "resolved"} : Answer(outcome)
  BY DEF ResolveEnds
<1> QED  BY <1>1, <1>4, <1>5, AnswerKeeps DEF ResolveEnds

LEMMA CallThrowsKeeps ==
  ASSUME ServiceInv, NEW entrypoint, NEW a \in Actions, CallThrows(entrypoint, a)
  PROVE  ServiceInv' /\ Onward
<1>1. signer # <<>> /\ ~settling
  BY DEF CallThrows, Runs
<1>2. failures' \in 0..MaxFailures
  BY Failed DEF CallThrows, ServiceInv, ProjectionInv, TableTypes
<1>3. ProjectionInv' /\ Onward
  BY <1>2, RunnersStay, StillKeeps DEF CallThrows, ServiceInv, watchVars, outerVars
<1> QED  BY <1>1, <1>3, AnswerKeeps DEF CallThrows, ServiceInv, ApiTypes

LEMMA SignerKeeps ==
  ASSUME ServiceInv, SignerStep
  PROVE  ServiceInv' /\ Onward
<1>1. CASE Reconciles(Api) /\ UNCHANGED <<watchVars, apiVars>>
  BY <1>1, ApiWorkers, ReconcileKeeps, ApiStays DEF ServiceInv
<1> QED  BY <1>1, ChallengeLandsKeeps, ResolveLandsKeeps, ResolveEndsKeeps,
            CallThrowsKeeps DEF SignerStep

LEMMA ChallengesKeep ==
  ASSUME ServiceInv, ChallengesNext
  PROVE  ServiceInv' /\ Onward
<1>1. CASE (Others \/ (ListenerStep /\ UNCHANGED watchVars) \/ WatchStep)
           /\ UNCHANGED apiVars
  <2>1. ProjectionInv' /\ Onward
    BY <1>1, ChainKeeps, ListenerKeeps, WatchKeeps, OutsiderKeeps
       DEF Others, ServiceInv
  <2> QED  BY <1>1, <2>1, ApiStays
<1> QED  BY <1>1, StartChallengeKeeps, ReadJobKeeps, SignerKeeps
         DEF ChallengesNext, Requested

(***************************************************************************)
(* A restart: rows, catches and jobs stay, and what was sent may land.     *)
(***************************************************************************)
LEMMA RestartKeeps ==
  ASSUME ServiceInv, Restart
  PROVE  ServiceInv' /\ Onward
<1> USE DEF ServiceInv
<1>1. /\ IdleWorker \in WorkerState /\ IdleWorker.held = {}
      /\ [IdleWorker EXCEPT !.pc = "starting"] \in WorkerState
      /\ [IdleWorker EXCEPT !.pc = "starting"].held = {}
      /\ IdleWorker.pc = "idle"
  BY DEF WorkerState, IdleWorker
<1>2. /\ worker' \in [Workers -> WorkerState]
      /\ \A w \in Workers : worker'[w].held = {}
      /\ Watch \in Workers /\ worker'[Watch] = IdleWorker
  BY <1>1, ApiWorkers, WatchdogAssumption DEF Restart
<1>3. scan' \in ScanState /\ scan'.pc = "idle" /\ scan'.current = {}
  BY DEF Restart, NoScan, ScanState
<1>4. RunnerTypes' /\ HeldFollows
  BY <1>1, <1>2, <1>3 DEF RunnerTypes, HeldFollows, At
<1>5. failures' \in 0..MaxFailures /\ UNCHANGED <<chainVars, rowVars, attested, catches>>
  BY DEF Restart, ProjectionInv, TableTypes
<1>6. /\ arm' \in [Actions -> ArmPhases]
      /\ \A a \in Actions : arm[a] = "new" => arm'[a] = "new"
  BY DEF Restart, ArmPhases
<1>10. ProjectionInv' /\ Onward
  BY <1>3, <1>4, <1>5, <1>6, NothingRecorded, ArmMovesKeeps
<1>7. stray' \subseteq Sent
  <2>1. ASSUME signer # <<>>
        PROVE  Call(Head(signer).entrypoint, Head(signer).action, <<>>) \in Sent
    BY <2>1, QueueHead DEF Call, Sent, Queued, ApiTypes
  <2>2. ASSUME NEW a \in scan.current, scan.pc \in {"challenge", "resolve"}
        PROVE  Call(scan.pc, a, <<>>) \in Sent
    BY <2>2 DEF Call, Sent, ProjectionInv, RunnerTypes, ScanState
  <2>3. ASSUME NEW call \in stray'  PROVE call \in Sent
    BY <2>1, <2>2, <2>3 DEF Restart, ApiTypes
  <2> QED  BY <2>3
<1>8. signer' \in Seq(Queued)
  BY EmptySeq DEF Restart
<1>9. requests' \in Seq(Answers) /\ Len(requests') = Len(requests)
      /\ \A r \in 1..Len(requests) : requests'[r] = "resolved" => requests[r] = "resolved"
  <2>1. Len(requests) \in Nat /\ \A r \in 1..Len(requests) : requests[r] \in Answers
    BY ElementOfSeq, LenProperties DEF ApiTypes
  <2>2. requests' \in [1..Len(requests) -> Answers]
    BY <2>1 DEF Restart, Answers
  <2> QED  BY <2>1, <2>2 DEF Restart
<1> QED  BY <1>7, <1>8, <1>9, <1>10 DEF Restart, ApiTypes

LEMMA StrayKeeps ==
  ASSUME ServiceInv, NEW call \in stray, StrayLands(call)
  PROVE  ServiceInv' /\ Onward
<1>1. call.action \in Actions
  BY DEF ServiceInv, ApiTypes, Sent
<1>2. PICK old, new \in Statuses : Leads(old, new) /\ Becomes(call.action, old, new)
  BY Resolved, StatusList DEF StrayLands, Leads
<1>3. ProjectionInv' /\ Onward
  BY <1>1, <1>2, RunnersStay, MovedKeeps
     DEF StrayLands, ServiceInv, watchVars, ProjectionInv, TableTypes
<1> QED  BY <1>3 DEF StrayLands, ServiceInv, ApiTypes, jobVars, walletVars

LEMMA OutageKeeps ==
  ASSUME ServiceInv, Outage
  PROVE  ServiceInv' /\ Onward
<1>1. CASE BootStep
  <2>1. CASE Reconciles(Boot) /\ UNCHANGED <<watchVars, apiVars>>
    BY <2>1, ApiWorkers, ReconcileKeeps, ApiStays DEF ServiceInv
  <2>2. CASE /\ worker' = [worker EXCEPT ![Boot] = IdleWorker]
             /\ UNCHANGED <<outerVars, rowVars, failures, watchVars, apiVars>>
    <3>1. RunnerTypes' /\ HeldFollows
      BY <2>2, ApiWorkers, BeginsOrEnds DEF ServiceInv, watchVars
    <3>2. failures' \in 0..MaxFailures
      BY <2>2 DEF ServiceInv, ProjectionInv, TableTypes
    <3>3. ProjectionInv' /\ Onward
      BY <2>2, <3>1, <3>2, RunnersStay, StillKeeps DEF ServiceInv, watchVars, outerVars
    <3> QED  BY <2>2, <3>3, ApiStays
  <2> QED  BY <1>1, <2>1, <2>2 DEF BootStep
<1> QED  BY <1>1, RestartKeeps, StrayKeeps DEF Outage

LEMMA ServiceStill ==
  ASSUME ServiceInv, UNCHANGED challengeVars
  PROVE  ServiceInv' /\ Onward
<1>1. ProjectionInv' /\ Onward
  BY NextKeeps DEF ServiceInv, challengeVars
<1> QED  BY <1>1, ApiStays DEF challengeVars

(***************************************************************************)
(* A catch is of an action that was slashed: whatever of the watchdog's,   *)
(* the jobs', outsiders' and a former process's transactions lands first,  *)
(* and however often the service starts again.                             *)
(***************************************************************************)
THEOREM CatchesAreSlashes ==
  ChallengesInit /\ [][ChallengesNext \/ Outage]_challengeVars => []CatchIsSlash
<1>1. ServiceInv /\ [ChallengesNext \/ Outage]_challengeVars => ServiceInv'
  BY ChallengesKeep, OutageKeeps, ServiceStill
<1>2. ServiceInv => CatchIsSlash
  BY ProjectionShows DEF ServiceInv
<1> QED  BY <1>1, <1>2, ServiceStart, PTL

-----------------------------------------------------------------------------
(***************************************************************************)
(* Evidence.  A set of hashes is backed by a status if each of them is of  *)
(* a transaction that an action in this status must have had.              *)
(***************************************************************************)
Backed(txs, s) ==
  /\ "execute" \in txs => Rank(s) >= Rank("Executed")
  /\ "challenge" \in txs => Rank(s) >= Rank("Challenged")
  /\ "resolve" \in txs => s = "ResolvedSlash"

LEMMA BackedOn ==
  ASSUME NEW s \in Statuses, NEW t \in Statuses, Leads(s, t), NEW txs, Backed(txs, s)
  PROVE  Backed(txs, t)
BY StatusList, Ranks DEF Backed, Leads

LEMMA BackedTogether ==
  ASSUME NEW s, NEW hashes, Backed(hashes, s), NEW files,
         \A run \in files : Backed(run.txs, s)
  PROVE  Backed(hashes \cup UNION {run.txs : run \in files}, s)
BY DEF Backed

LEMMA BackedPart ==
  ASSUME NEW s, NEW some, NEW more, some \subseteq more, Backed(more, s)
  PROVE  Backed(some, s)
BY DEF Backed

LEMMA SlashBacks == \A txs : Backed(txs, "ResolvedSlash")
BY Ranks DEF Backed

Hashes == {"execute", "challenge", "resolve"}
Run == [reasoned: BOOLEAN, txs: SUBSET Hashes]
Merge == [action: Actions, hashes: SUBSET Hashes, base: SUBSET (SUBSET Run)]
Files == [Actions -> SUBSET Run]

FileTypes ==
  /\ file \in Files
  /\ record \in [Actions -> SUBSET Hashes]
  /\ noted \in [Workers -> [files: Files, record: SUBSET Hashes]]
  /\ looked \subseteq Hashes
  /\ merging \in [Workers -> SUBSET Merge]

\* The watchdog works on a candidate it has looked at.
Acting ==
  \/ scan.pc \in {"challenge", "resolve", "record"}
  \/ scan.pc = "reconcile" /\ scan.done \in {"resolve", "record"}

FilesBacked == \A a \in Actions : \A run \in file[a] : Backed(run.txs, status[a])

RecordsBacked == \A a \in Actions : Backed(record[a], status[a])

(***************************************************************************)
(* What a reconciliation has read of the files, and the record it holds    *)
(* with the row; what the watchdog has looked at; and what is to be merged.*)
(***************************************************************************)
NotedBacked ==
  \A w \in Workers :
    /\ \A a \in Actions : \A run \in noted[w].files[a] : Backed(run.txs, status[a])
    /\ \A read \in worker[w].held : Backed(noted[w].record, status[read[1]])

LookedBacked == Acting => \A a \in scan.current : Backed(looked, status[a])

MergeBacked(merge, s) ==
  /\ Backed(merge.hashes, s)
  /\ \A base \in merge.base : \A run \in base : Backed(run.txs, s)

MergesBacked ==
  \A w \in Workers : \A merge \in merging[w] : MergeBacked(merge, status[merge.action])

FilesInv ==
  /\ FileTypes
  /\ FilesBacked /\ RecordsBacked /\ NotedBacked /\ LookedBacked /\ MergesBacked

(***************************************************************************)
(* What a step must show of each.                                          *)
(***************************************************************************)
FilesFollow ==
  \A a \in Actions : \A run \in file'[a] : run \in file[a] \/ Backed(run.txs, status'[a])

RecordsFollow ==
  \A a \in Actions : record'[a] = record[a] \/ Backed(record'[a], status'[a])

NotedFollows ==
  \A w \in Workers :
    /\ \A a \in Actions : \A run \in noted'[w].files[a] :
         run \in noted[w].files[a] \/ Backed(run.txs, status'[a])
    /\ \A read \in worker'[w].held :
         \/ read \in worker[w].held /\ noted'[w].record = noted[w].record
         \/ Backed(noted'[w].record, status'[read[1]])

LookedFollows ==
  \A a \in scan'.current :
    Acting' => \/ Acting /\ a \in scan.current /\ looked' = looked
               \/ Backed(looked', status'[a])

MergesFollow ==
  \A w \in Workers : \A merge \in merging'[w] :
    merge \in merging[w] \/ MergeBacked(merge, status'[merge.action])

LEMMA FilesKept ==
  ASSUME ServiceInv, ServiceInv', Onward, FilesInv, FileTypes',
         FilesFollow, RecordsFollow, NotedFollows, LookedFollows, MergesFollow
  PROVE  FilesInv'
<1> USE DEF FilesInv
<1>1. ASSUME NEW a \in Actions, NEW txs, Backed(txs, status[a])
      PROVE  Backed(txs, status'[a])
  <2>1. status[a] \in Statuses /\ status'[a] \in Statuses /\ Leads(status[a], status'[a])
    BY DEF ServiceInv, ProjectionInv, TableTypes, Onward
  <2> QED  BY <1>1, <2>1, BackedOn
<1>2. FilesBacked'
  BY <1>1 DEF FilesBacked, FilesFollow
<1>3. RecordsBacked'
  BY <1>1 DEF RecordsBacked, RecordsFollow
<1>4. NotedBacked'
  <2> SUFFICES ASSUME NEW w \in Workers
               PROVE  /\ \A a \in Actions : \A run \in noted'[w].files[a] :
                           Backed(run.txs, status'[a])
                      /\ \A read \in worker'[w].held :
                           Backed(noted'[w].record, status'[read[1]])
    BY DEF NotedBacked
  <2>1. \A a \in Actions : \A run \in noted'[w].files[a] : Backed(run.txs, status'[a])
    BY <1>1 DEF NotedBacked, NotedFollows
  <2>2. ASSUME NEW read \in worker'[w].held
        PROVE  Backed(noted'[w].record, status'[read[1]])
    <3>1. read[1] \in Actions
      BY <2>2 DEF ServiceInv, ProjectionInv, RunnerTypes, WorkerState
    <3> QED  BY <1>1, <2>2, <3>1 DEF NotedBacked, NotedFollows
  <2> QED  BY <2>1, <2>2
<1>5. LookedBacked'
  <2> SUFFICES ASSUME Acting', NEW a \in scan'.current
               PROVE  Backed(looked', status'[a])
    BY DEF LookedBacked
  <2>1. a \in Actions
    BY DEF ServiceInv, ProjectionInv, RunnerTypes, ScanState
  <2> QED  BY <1>1, <2>1 DEF LookedBacked, LookedFollows
<1>6. MergesBacked'
  <2> SUFFICES ASSUME NEW w \in Workers, NEW merge \in merging'[w]
               PROVE  MergeBacked(merge, status'[merge.action])
    BY DEF MergesBacked
  <2>1. merge.action \in Actions
    BY DEF FileTypes, Merge
  <2> QED  BY <1>1, <2>1 DEF MergesBacked, MergesFollow, MergeBacked
<1> QED  BY <1>2, <1>3, <1>4, <1>5, <1>6

HeldShrinks == \A w \in Workers : worker'[w].held \subseteq worker[w].held

CandidateStays == Acting' => Acting /\ scan'.current \subseteq scan.current

\* A step that leaves the files to themselves.
LEMMA FilesAlone ==
  ASSUME ServiceInv, ServiceInv', Onward, FilesInv, UNCHANGED fileVars,
         HeldShrinks, CandidateStays
  PROVE  FilesInv'
<1>1. FileTypes' /\ FilesFollow /\ RecordsFollow /\ MergesFollow
  BY DEF FilesInv, FileTypes, FilesFollow, RecordsFollow, MergesFollow, fileVars, readVars
<1>2. NotedFollows
  BY DEF NotedFollows, HeldShrinks, fileVars, readVars
<1>3. LookedFollows
  BY DEF LookedFollows, CandidateStays, fileVars, readVars
<1> QED  BY <1>1, <1>2, <1>3, FilesKept

LEMMA RunnersUnchanged ==
  /\ UNCHANGED worker => HeldShrinks
  /\ UNCHANGED scan => CandidateStays
BY DEF HeldShrinks, CandidateStays, Acting

\* What has been seen executed has its own hashes behind it.
LEMMA RunBacked ==
  ASSUME ProjectionInv, NEW a \in Actions, arm[a] # "new"
  PROVE  Backed({"execute"}, status[a])
BY StatusList, Ranks DEF ProjectionInv, ArmReached, TableTypes, Reached, Backed, terminal

LEMMA RecordsRowService ==
  ASSUME ServiceInv, NEW a \in Actions, RecordsRow(a), UNCHANGED <<watchVars, apiVars>>
  PROVE  ServiceInv' /\ Onward /\ UNCHANGED <<status, worker>>
<1>1. ProjectionInv' /\ Onward
  BY ArmedKeeps DEF RecordsRow, ServiceInv
<1>2. UNCHANGED <<status, worker>>
  BY DEF RecordsRow, ArmRecords, chainVars
<1> QED  BY <1>1, <1>2, ApiStays

LEMMA RecordsRowFiles ==
  ASSUME ServiceInv, FilesInv, NEW a \in Actions, RecordsRow(a),
         UNCHANGED <<watchVars, apiVars>>
  PROVE  FilesInv'
<1>1. ServiceInv' /\ Onward /\ UNCHANGED <<status, worker>>
  BY RecordsRowService
<1>2. /\ record' = [record EXCEPT ![a] = {"execute"}]
      /\ UNCHANGED <<file, noted, looked, merging, scan>>
  BY DEF RecordsRow, readVars, watchVars
<1>3. FileTypes'
  BY <1>2 DEF FilesInv, FileTypes, Hashes
<1>4. Backed({"execute"}, status'[a])
  BY <1>1, RunBacked DEF RecordsRow, ArmRecords, ServiceInv
<1>5. RecordsFollow
  BY <1>2, <1>4 DEF RecordsFollow, FilesInv, FileTypes
<1>6. FilesFollow /\ NotedFollows /\ LookedFollows /\ MergesFollow
  BY <1>1, <1>2 DEF FilesFollow, NotedFollows, LookedFollows, MergesFollow, Acting
<1> QED  BY <1>1, <1>3, <1>5, <1>6, FilesKept

LEMMA PersistRunService ==
  ASSUME ServiceInv, NEW a \in Actions, PersistRun(a), UNCHANGED <<watchVars, apiVars>>
  PROVE  ServiceInv' /\ Onward /\ UNCHANGED <<status, worker>>
<1>1. failures' \in 0..MaxFailures
  BY Failed DEF PersistRun, ServiceInv, ProjectionInv, TableTypes
<1>2. ProjectionInv' /\ Onward
  BY <1>1, ArmReturnsKeeps DEF PersistRun, ServiceInv
<1>3. UNCHANGED <<status, worker>>
  BY DEF PersistRun, chainVars
<1> QED  BY <1>2, <1>3, ApiStays

LEMMA PersistRunFiles ==
  ASSUME ServiceInv, FilesInv, NEW a \in Actions, PersistRun(a),
         UNCHANGED <<watchVars, apiVars>>
  PROVE  FilesInv'
<1> DEFINE run == [reasoned |-> TRUE, txs |-> {"execute"}]
<1>1. run \in Run /\ run.txs = {"execute"}
  BY DEF Run, Hashes
<1>2. /\ file' = file \/ file' = [file EXCEPT ![a] = {run}]
      /\ UNCHANGED <<record, noted, looked, merging, scan>>
  BY DEF PersistRun, Written, readVars, watchVars
<1> HIDE DEF run
<1>3. FileTypes'
  BY <1>1, <1>2 DEF FilesInv, FileTypes, Files
<1>4. ServiceInv' /\ Onward /\ UNCHANGED <<status, worker>>
  BY PersistRunService
<1>5. Backed({"execute"}, status'[a])
  BY <1>4, RunBacked DEF PersistRun, ArmReturns, ServiceInv
<1>6. FilesFollow
  <2> SUFFICES ASSUME NEW b \in Actions, NEW other \in file'[b], other \notin file[b]
               PROVE  Backed(other.txs, status'[b])
    BY DEF FilesFollow
  <2>1. b = a /\ other = run
    BY <1>2 DEF FilesInv, FileTypes, Files
  <2> QED  BY <1>1, <1>5, <2>1
<1>7. RecordsFollow /\ NotedFollows /\ LookedFollows /\ MergesFollow
  BY <1>2, <1>4 DEF RecordsFollow, NotedFollows, LookedFollows, MergesFollow, Acting
<1> QED  BY <1>3, <1>4, <1>6, <1>7, FilesKept

LEMMA MergeKeepsService ==
  ASSUME ServiceInv, UNCHANGED challengeVars
  PROVE  ServiceInv' /\ Onward /\ UNCHANGED <<status, worker, scan, catches>>
BY ServiceStill DEF challengeVars, vars, projectionVars, outerVars, chainVars, watchVars

\* Merging adds what the hashes name, and takes nothing away.
LEMMA MergedRuns ==
  ASSUME NEW files \in SUBSET Run, NEW hashes \in SUBSET Hashes
  PROVE  /\ Merged(files, hashes) \in SUBSET Run
         /\ \A run \in Merged(files, hashes) :
              run.txs = hashes \cup UNION {other.txs : other \in files}
         /\ Merged(files, hashes) # {}
<1> DEFINE txs == hashes \cup UNION {other.txs : other \in files}
           reasoned == \E other \in files : other.reasoned
           run == [reasoned |-> reasoned, txs |-> txs]
<1>1. txs \in SUBSET Hashes /\ reasoned \in BOOLEAN
  BY DEF Run
<1>2. Merged(files, hashes) = {run}
  BY DEF Merged, Written
<1> HIDE DEF txs, reasoned
<1>3. run \in Run /\ run.txs = txs
  BY <1>1 DEF Run
<1> HIDE DEF run
<1> QED  BY <1>2, <1>3 DEF txs

\* The merge has the file it has read, and no other.
LEMMA MergeReadsFiles ==
  ASSUME ServiceInv, FilesInv, NEW w \in Workers, MergeReads(w)
  PROVE  FilesInv'
<1>1. ServiceInv' /\ Onward /\ UNCHANGED <<status, worker, scan>>
  BY MergeKeepsService DEF MergeReads
<1>2. PICK merge \in merging[w] :
        merging' = [merging EXCEPT ![w] = {[merge EXCEPT !.base = {file[merge.action]}]}]
  BY DEF MergeReads
<1> DEFINE new == [merge EXCEPT !.base = {file[merge.action]}]
<1>3. /\ merge \in Merge /\ file[merge.action] \in SUBSET Run
      /\ Backed(merge.hashes, status[merge.action])
      /\ \A run \in file[merge.action] : Backed(run.txs, status[merge.action])
  BY DEF FilesInv, FileTypes, Files, Merge, MergesBacked, MergeBacked, FilesBacked
<1>4. /\ new \in Merge /\ new.action = merge.action /\ new.hashes = merge.hashes
      /\ new.base = {file[merge.action]}
  BY <1>3 DEF Merge
<1>5. MergeBacked(new, status'[new.action])
  <2> HIDE DEF new
  <2> QED  BY <1>1, <1>3, <1>4 DEF MergeBacked
<1>6. merging' = [merging EXCEPT ![w] = {new}] /\ UNCHANGED <<file, record, noted, looked>>
  BY <1>2 DEF MergeReads, readVars
<1> HIDE DEF new
<1>7. FileTypes' /\ MergesFollow
  BY <1>4, <1>5, <1>6 DEF FilesInv, FileTypes, MergesFollow
<1>8. FilesFollow /\ RecordsFollow /\ NotedFollows /\ LookedFollows
  BY <1>1, <1>6 DEF FilesFollow, RecordsFollow, NotedFollows, LookedFollows, Acting
<1> QED  BY <1>1, <1>7, <1>8, FilesKept

LEMMA MergeWritesFiles ==
  ASSUME ServiceInv, FilesInv, NEW w \in Workers, MergeWrites(w)
  PROVE  FilesInv'
<1>1. ServiceInv' /\ Onward /\ UNCHANGED <<status, worker, scan>>
  BY MergeKeepsService DEF MergeWrites
<1>2. PICK merge \in merging[w] : \E base \in merge.base :
        file' = [file EXCEPT ![merge.action] = Merged(base, merge.hashes)]
  BY DEF MergeWrites
<1>3. PICK base \in merge.base :
        file' = [file EXCEPT ![merge.action] = Merged(base, merge.hashes)]
  BY <1>2
<1> DEFINE a == merge.action
           new == Merged(base, merge.hashes)
<1>4. /\ a \in Actions /\ merge.hashes \in SUBSET Hashes /\ base \in SUBSET Run
      /\ Backed(merge.hashes, status[a])
      /\ \A run \in base : Backed(run.txs, status[a])
  <2>1. merge \in Merge
    BY DEF FilesInv, FileTypes
  <2>2. MergeBacked(merge, status[a])
    BY DEF FilesInv, MergesBacked
  <2>3. a \in Actions /\ merge.hashes \in SUBSET Hashes /\ base \in SUBSET Run
    BY <1>3, <2>1 DEF Merge
  <2>4. Backed(merge.hashes, status[a]) /\ \A run \in base : Backed(run.txs, status[a])
    BY <1>3, <2>2 DEF MergeBacked
  <2> QED  BY <2>3, <2>4
<1> DEFINE all == merge.hashes \cup UNION {run.txs : run \in base}
<1>5. new \in SUBSET Run /\ \A run \in new : Backed(run.txs, status[a])
  <2>1. new \in SUBSET Run /\ \A run \in new : run.txs = all
    BY <1>4, MergedRuns
  <2>2. Backed(all, status[a])
    BY <1>4, BackedTogether
  <2> HIDE DEF all, new
  <2> QED  BY <2>1, <2>2
<1>6. merging' = [merging EXCEPT ![w] = {}] /\ UNCHANGED <<record, noted, looked>>
  BY DEF MergeWrites, readVars
<1> HIDE DEF new
<1>7. FileTypes'
  BY <1>3, <1>4, <1>5, <1>6 DEF FilesInv, FileTypes, Files, new
<1>8. FilesFollow
  BY <1>1, <1>3, <1>4, <1>5 DEF FilesFollow, FilesInv, FileTypes, Files, new
<1>9. RecordsFollow /\ NotedFollows /\ LookedFollows
  BY <1>1, <1>6 DEF RecordsFollow, NotedFollows, LookedFollows, Acting
<1>10. MergesFollow
  BY <1>6 DEF MergesFollow, FilesInv, FileTypes
<1> QED  BY <1>1, <1>7, <1>8, <1>9, <1>10, FilesKept

LEMMA MergeFiles ==
  ASSUME ServiceInv, FilesInv, NEW w \in Workers, MergeActionTransactions(w)
  PROVE  FilesInv'
BY MergeReadsFiles, MergeWritesFiles DEF MergeActionTransactions

LEMMA ReconcilesFilesService ==
  ASSUME ServiceInv, NEW w \in Workers, ReconcilesFiles(w)
  PROVE  ServiceInv' /\ Onward
<1>1. Reconciles(w) /\ UNCHANGED <<watchVars, apiVars>>
  BY DEF ReconcilesFiles, ReadsFiles, ReadsRecord, WritesRecord, Throws, Reconciles, Projects
<1> QED  BY <1>1, ReconcileKeeps, ApiStays DEF ServiceInv

\* A worker holds the record that it will write with the row it has read.
LEMMA RecordHeld ==
  ASSUME ServiceInv, ServiceInv', Onward, FilesInv, NEW w \in Workers, NEW a \in Actions,
         NEW files \in Files, \A b \in Actions : files[b] \subseteq noted[w].files[b],
         NEW txs \in SUBSET Hashes, Backed(txs, status'[a]),
         noted' = [noted EXCEPT ![w] = [files |-> files, record |-> txs]],
         \A read \in worker'[w].held : read[1] = a,
         \A v \in Workers : v # w => worker'[v].held = worker[v].held,
         record' \in [Actions -> SUBSET Hashes], RecordsFollow,
         UNCHANGED <<file, looked, merging, scan>>
  PROVE  FilesInv'
<1> DEFINE new == [files |-> files, record |-> txs]
<1>1. /\ new \in [files: Files, record: SUBSET Hashes]
      /\ new.files = files /\ new.record = txs
  OBVIOUS
<1> HIDE DEF new
<1>2. /\ noted' \in [Workers -> [files: Files, record: SUBSET Hashes]]
      /\ noted'[w] = new /\ \A v \in Workers : v # w => noted'[v] = noted[v]
  BY <1>1 DEF FilesInv, FileTypes, new
<1>3. NotedFollows
  <2>1. ASSUME NEW v \in Workers, v # w
        PROVE  /\ noted'[v] = noted[v] /\ worker'[v].held = worker[v].held
    BY <1>2, <2>1
  <2>2. /\ \A b \in Actions : noted'[w].files[b] \subseteq noted[w].files[b]
        /\ \A read \in worker'[w].held : Backed(noted'[w].record, status'[read[1]])
    BY <1>1, <1>2
  <2> QED  BY <2>1, <2>2 DEF NotedFollows
<1>4. FileTypes'
  BY <1>2 DEF FilesInv, FileTypes
<1>5. FilesFollow /\ LookedFollows /\ MergesFollow
  BY DEF FilesFollow, LookedFollows, MergesFollow, Acting
<1> QED  BY <1>3, <1>4, <1>5, FilesKept

\* It writes it, and holds nothing any more.
LEMMA RecordIsWritten ==
  ASSUME ServiceInv, ServiceInv', Onward, FilesInv, NEW w \in Workers, NEW a \in Actions,
         WriteRow(w, a), RecordWritten(w, a), UNCHANGED <<looked, merging, scan>>
  PROVE  FilesInv'
<1>1. /\ worker \in [Workers -> WorkerState]
      /\ noted \in [Workers -> [files: Files, record: SUBSET Hashes]]
      /\ record \in [Actions -> SUBSET Hashes]
  BY DEF ServiceInv, ProjectionInv, RunnerTypes, FilesInv, FileTypes
<1>2. /\ UNCHANGED <<status, file>>
      /\ record' = [record EXCEPT ![a] = noted[w].record]
      /\ noted' = [noted EXCEPT ![w].record = {}]
      /\ \E read \in worker[w].held : read[1] = a
      /\ worker' = [worker EXCEPT ![w].held = {}]
  BY DEF RecordWritten, WriteRow, outerVars, chainVars
<1>3. Backed(noted[w].record, status[a]) /\ noted[w].record \in SUBSET Hashes
  BY <1>1, <1>2 DEF FilesInv, NotedBacked
<1>4. record' \in [Actions -> SUBSET Hashes] /\ RecordsFollow
  BY <1>1, <1>2, <1>3 DEF RecordsFollow
<1>5. /\ worker'[w].held = {}
      /\ \A v \in Workers : v # w => worker'[v].held = worker[v].held
  BY <1>1, <1>2 DEF WorkerState
<1> DEFINE files == noted[w].files
<1>6. files \in Files /\ noted' = [noted EXCEPT ![w] = [files |-> files, record |-> {}]]
  <2>1. noted[w] \in [files: Files, record: SUBSET Hashes]
    BY <1>1
  <2>2. [noted[w] EXCEPT !.record = {}] = [files |-> files, record |-> {}]
    BY <2>1
  <2>3. noted' = [noted EXCEPT ![w] = [noted[w] EXCEPT !.record = {}]]
    BY <1>2
  <2> QED  BY <2>1, <2>2, <2>3
<1>7. {} \in SUBSET Hashes /\ Backed({}, status'[a])
  BY DEF Backed
<1> HIDE DEF files
<1>8. \A b \in Actions : files[b] \subseteq noted[w].files[b]
  BY DEF files
<1>9. \A read \in worker'[w].held : read[1] = a
  BY <1>5
<1>10. UNCHANGED <<file, looked, merging, scan>>
  BY <1>2
<1> HIDE DEF WriteRow, RecordWritten
<1> QED  BY <1>4, <1>5, <1>6, <1>7, <1>8, <1>9, <1>10, RecordHeld

LEMMA ReconcilesFilesFiles ==
  ASSUME ServiceInv, FilesInv, NEW w \in Workers, ReconcilesFiles(w)
  PROVE  FilesInv'
<1>1. ServiceInv' /\ Onward
  BY ReconcilesFilesService
<1>2. /\ worker \in [Workers -> WorkerState]
      /\ noted \in [Workers -> [files: Files, record: SUBSET Hashes]]
      /\ noted[w] \in [files: Files, record: SUBSET Hashes]
      /\ file \in Files
      /\ UNCHANGED <<looked, merging, scan>>
  BY DEF ServiceInv, ProjectionInv, RunnerTypes, FilesInv, FileTypes,
         ReconcilesFiles, watchVars
<1>3. LookedFollows /\ MergesFollow
  BY <1>2 DEF LookedFollows, MergesFollow, Acting
<1>4. CASE ReadCursor(w) /\ UNCHANGED <<file, record, noted>>
  <2>1. HeldShrinks
    BY <1>2, <1>4 DEF ReadCursor, HeldShrinks, WorkerState
  <2>2. NotedFollows
    BY <1>4, <2>1 DEF NotedFollows, HeldShrinks
  <2>3. FileTypes' /\ FilesFollow /\ RecordsFollow
    BY <1>2, <1>4 DEF FilesInv, FileTypes, FilesFollow, RecordsFollow
  <2> QED  BY <1>1, <1>3, <2>2, <2>3, FilesKept
<1>5. CASE ReadsFiles(w)
  <2> DEFINE files == [a \in Actions |-> IF a \in worker'[w].todo THEN file[a] ELSE {}]
  <2>1. files \in Files /\ \A a \in Actions : files[a] \subseteq file[a]
    BY <1>2 DEF Files
  <2>2. noted' = [noted EXCEPT ![w].files = files]
    BY <1>5 DEF ReadsFiles
  <2> HIDE DEF files
  <2>3. /\ noted' \in [Workers -> [files: Files, record: SUBSET Hashes]]
        /\ \A v \in Workers : noted'[v].record = noted[v].record
        /\ \A v \in Workers : noted'[v].files = IF v = w THEN files ELSE noted[v].files
    BY <1>2, <2>1, <2>2
  <2>4. \A v \in Workers : worker'[v].held = worker[v].held
    BY <1>2, <1>5 DEF ReadsFiles, TakeEvents, WorkerState
  <2>5. \A a \in Actions : \A run \in file[a] : Backed(run.txs, status'[a])
    BY <1>5 DEF ReadsFiles, TakeEvents, outerVars, chainVars, FilesInv, FilesBacked
  <2>6. NotedFollows
    BY <2>1, <2>3, <2>4, <2>5 DEF NotedFollows
  <2>7. FileTypes' /\ FilesFollow /\ RecordsFollow
    BY <1>2, <1>5, <2>3
       DEF ReadsFiles, FilesInv, FileTypes, FilesFollow, RecordsFollow
  <2> QED  BY <1>1, <1>3, <2>6, <2>7, FilesKept
<1>6. ASSUME NEW a \in Actions, ReadsRecord(w, a)
      PROVE  FilesInv'
  <2> DEFINE txs == TransactionsOf(noted[w].files[a], a)
             files == [noted[w].files EXCEPT ![a] = {}]
  <2>1. /\ UNCHANGED <<status, file, record>>
        /\ noted' = [noted EXCEPT ![w].files[a] = {}, ![w].record = txs]
    BY <1>6 DEF ReadsRecord, ReadAction, outerVars, chainVars
  <2>2. txs \in SUBSET Hashes
    <3>1. \A run \in noted[w].files[a] : run.txs \subseteq Hashes
      BY <1>2 DEF Files, Run
    <3>2. Slashing \subseteq Hashes
      BY DEF Slashing, Hashes
    <3> DEFINE found == UNION {run.txs : run \in noted[w].files[a]}
    <3>3. found \subseteq Hashes
      BY <3>1
    <3>4. txs = found \cup IF a \in catches THEN Slashing ELSE {}
      BY DEF TransactionsOf
    <3> HIDE DEF txs, found
    <3>5. txs \subseteq found \cup Slashing
      BY <3>4
    <3> QED  BY <3>2, <3>3, <3>5
  <2>3. Backed(txs, status[a])
    <3>1. \A run \in noted[w].files[a] : Backed(run.txs, status[a])
      BY DEF FilesInv, NotedBacked
    <3>2. CASE a \in catches
      BY <3>2, SlashBacks
         DEF ServiceInv, ProjectionInv, CaughtIsSlash, KnownSlashed
    <3>3. CASE a \notin catches
      BY <3>1, <3>3 DEF TransactionsOf, Backed
    <3> QED  BY <3>2, <3>3
  <2> HIDE DEF txs
  <2>4. /\ files \in Files
        /\ \A b \in Actions : files[b] \subseteq noted[w].files[b]
        /\ noted' = [noted EXCEPT ![w] = [files |-> files, record |-> txs]]
    <3>1. noted[w] \in [files: Files, record: SUBSET Hashes]
      BY <1>2
    <3>2. files \in Files
      BY <3>1 DEF Files
    <3>3. \A b \in Actions : files[b] \subseteq noted[w].files[b]
      BY <3>1 DEF Files
    <3>4. /\ noted' \in [Workers -> [files: Files, record: SUBSET Hashes]]
          /\ noted'[w].files = files /\ noted'[w].record = txs
          /\ \A v \in Workers : v # w => noted'[v] = noted[v]
      BY <1>2, <2>1, <2>2, <3>2
    <3> HIDE DEF files
    <3>5. noted'[w] = [files |-> files, record |-> txs]
      BY <3>4
    <3>6. noted' = [noted EXCEPT ![w] = [files |-> files, record |-> txs]]
      BY <1>2, <3>4, <3>5
    <3> QED  BY <3>2, <3>3, <3>6
  <2>5. /\ worker'[w].held = {<<a, RowOf(a)>>}
        /\ \A v \in Workers : v # w => worker'[v].held = worker[v].held
    BY <1>2, <1>6 DEF ReadsRecord, ReadAction, WorkerState
  <2>6. \A read \in worker'[w].held : read[1] = a
    BY <2>5
  <2>7. record' \in [Actions -> SUBSET Hashes] /\ RecordsFollow /\ Backed(txs, status'[a])
    <3>1. record' \in [Actions -> SUBSET Hashes]
      BY <2>1 DEF FilesInv, FileTypes
    <3>2. RecordsFollow
      BY <2>1 DEF RecordsFollow
    <3>3. Backed(txs, status'[a])
      BY <2>1, <2>3 DEF Backed
    <3> QED  BY <3>1, <3>2, <3>3
  <2>8. UNCHANGED <<file, looked, merging, scan>>
    BY <1>2, <2>1
  <2> HIDE DEF files
  <2> QED  BY <1>1, <2>2, <2>4, <2>5, <2>6, <2>7, <2>8, RecordHeld
<1>7. ASSUME NEW a \in Actions, WritesRecord(w, a)
      PROVE  FilesInv'
  BY <1>1, <1>2, <1>7, RecordIsWritten DEF WritesRecord
<1>8. CASE Throws(w)
  <2>1. NothingNoted \in [files: Files, record: SUBSET Hashes]
        /\ \A a \in Actions : NothingNoted.files[a] = {}
    BY DEF NothingNoted, NoFiles, Files
  <2> DEFINE thrown == [IdleWorker EXCEPT !.pc = "thrown", !.todo = Pending(w)]
  <2>2. /\ UNCHANGED <<status, file, record>>
        /\ noted' = [noted EXCEPT ![w] = NothingNoted]
        /\ worker' = [worker EXCEPT ![w] = thrown]
    BY <1>8 DEF Throws, ReconcileThrows, outerVars, chainVars
  <2>3. thrown.held = {}
    BY DEF IdleWorker
  <2> HIDE DEF thrown
  <2>4. /\ worker'[w].held = {}
        /\ \A v \in Workers : v # w => worker'[v].held = worker[v].held
    BY <1>2, <2>2, <2>3
  <2>5. /\ noted' \in [Workers -> [files: Files, record: SUBSET Hashes]]
        /\ noted'[w] = NothingNoted
        /\ \A v \in Workers : v # w => noted'[v] = noted[v]
    BY <1>2, <2>1, <2>2
  <2>6. NotedFollows
    BY <2>1, <2>4, <2>5 DEF NotedFollows
  <2>7. FileTypes' /\ FilesFollow /\ RecordsFollow
    BY <1>2, <2>2, <2>5 DEF FilesInv, FileTypes, FilesFollow, RecordsFollow
  <2> QED  BY <1>1, <1>3, <2>6, <2>7, FilesKept
<1> QED  BY <1>4, <1>5, <1>6, <1>7, <1>8 DEF ReconcilesFiles

\* The watchdog's steps.
LEMMA WatchFilesService ==
  ASSUME ServiceInv, WatchFiles
  PROVE  ServiceInv' /\ Onward
<1>1. CASE ReconcilesFiles(Watch)
  BY <1>1, WatchdogAssumption, ReconcilesFilesService
<1>2. CASE WatchStep /\ UNCHANGED apiVars
  BY <1>2, WatchKeeps, ApiStays DEF ServiceInv
<1> QED  BY <1>1, <1>2 DEF WatchFiles, LooksAgain, CandidateThrows, WatchResolves,
                           RecordsCatch, WatchStep

LEMMA WatchFilesFiles ==
  ASSUME ServiceInv, FilesInv, WatchFiles
  PROVE  FilesInv'
<1>1. ServiceInv' /\ Onward
  BY WatchFilesService
<1>2. /\ worker \in [Workers -> WorkerState] /\ scan \in ScanState
      /\ Watch \in Workers /\ IdleWorker.held = {}
      /\ \A a, b \in scan.current : a = b
      /\ scan.pc = "reconcile" => scan.done # "none" /\ scan.thrown # "none"
  BY WatchdogAssumption DEF ServiceInv, ProjectionInv, RunnerTypes, IdleWorker
<1>3. CASE /\ \/ ScanBegins \/ ReconcileReturns \/ CandidateFailed \/ ScanEnds
              \/ \E a \in Actions : Challenge(a)
           /\ UNCHANGED fileVars
  <2>1. HeldShrinks
    <3>1. ASSUME BeginReconcile(Watch)  PROVE HeldShrinks
      BY <1>2, <3>1 DEF BeginReconcile, HeldShrinks
    <3>2. ASSUME ReconcileReturns  PROVE HeldShrinks
      BY <1>2, <3>2 DEF ReconcileReturns, HeldShrinks
    <3> QED
      BY <1>3, <3>1, <3>2, RunnersUnchanged
         DEF ScanBegins, CandidateFailed, ScanEnds, Challenge, ReconcileThen, Landed,
             projectionVars
  <2>2. CandidateStays
    <3> USE <1>2 DEF CandidateStays, Acting, ScanState
    <3>1. CASE ScanBegins
      BY <3>1 DEF ScanBegins
    <3>2. CASE ReconcileReturns
      BY <3>2 DEF ReconcileReturns
    <3>3. CASE CandidateFailed
      BY <3>3 DEF CandidateFailed, ReconcileThen
    <3>4. CASE ScanEnds
      <4>1. CASE ReconcileThen("abort", "abort")
        BY <4>1 DEF ReconcileThen
      <4>2. CASE scan' = NoScan
        BY <4>2 DEF NoScan
      <4> QED  BY <3>4, <4>1, <4>2 DEF ScanEnds
    <3>5. ASSUME NEW a \in Actions, Challenge(a)  PROVE CandidateStays
      BY <3>5 DEF Challenge, Landed, ReconcileThen
    <3> QED  BY <1>3, <3>1, <3>2, <3>3, <3>4, <3>5
  <2> QED  BY <1>1, <1>3, <2>1, <2>2, FilesAlone
<1>4. ASSUME NEW a \in Actions, LooksAgain(a)
      PROVE  FilesInv'
  <2>1. /\ UNCHANGED <<file, record, noted, merging, status, worker>>
        /\ looked' = record[a]
    BY <1>4 DEF LooksAgain, ScanTakes, projectionVars, outerVars, chainVars, readVars
  <2>2. FileTypes' /\ FilesFollow /\ RecordsFollow /\ NotedFollows /\ MergesFollow
    BY <2>1 DEF FilesInv, FileTypes, FilesFollow, RecordsFollow, NotedFollows, MergesFollow
  <2>3. Acting' => scan'.current = {a}
    BY <1>2, <1>4 DEF LooksAgain, ScanTakes, ScanState, Acting
  <2>4. LookedFollows
    BY <2>1, <2>3 DEF LookedFollows, FilesInv, RecordsBacked
  <2> QED  BY <1>1, <2>2, <2>4, FilesKept
<1>5. ASSUME NEW a \in Actions, WatchResolves(a)
      PROVE  FilesInv'
  <2>1. /\ UNCHANGED <<file, record, noted, looked>>
        /\ Becomes(a, "Challenged", "ResolvedSlash") /\ scan.pc = "resolve"
        /\ merging' = merging \/ merging' = [merging EXCEPT ![Watch] =
                                  {[action |-> a, hashes |-> Slashing, base |-> {}]}]
    BY <1>5 DEF WatchResolves, Resolve, Merges, readVars
  <2>2. status'[a] = "ResolvedSlash"
    BY <2>1 DEF Becomes, ServiceInv, ProjectionInv, TableTypes
  <2>3. [action |-> a, hashes |-> Slashing, base |-> {}] \in Merge
    BY DEF Merge, Slashing, Hashes
  <2>4. FileTypes'
    BY <1>2, <2>1, <2>3 DEF FilesInv, FileTypes
  <2>5. HeldShrinks
    <3>1. CASE BeginReconcile(Watch)
      BY <1>2, <3>1 DEF BeginReconcile, HeldShrinks
    <3>2. CASE UNCHANGED worker
      BY <3>2, RunnersUnchanged
    <3> QED
      BY <1>5, <3>1, <3>2 DEF WatchResolves, Resolve, Landed, ReconcileThen
  <2>6. FilesFollow /\ RecordsFollow /\ NotedFollows
    BY <2>1, <2>5 DEF FilesFollow, RecordsFollow, NotedFollows, HeldShrinks
  <2>7. MergesFollow
    <3> DEFINE merge == [action |-> a, hashes |-> Slashing, base |-> {}]
    <3>1. MergeBacked(merge, status'[merge.action])
      BY <2>2, SlashBacks DEF MergeBacked
    <3>2. merging' = merging \/ merging' = [merging EXCEPT ![Watch] = {merge}]
      BY <2>1
    <3> HIDE DEF merge
    <3>3. merging \in [Workers -> SUBSET Merge]
      BY DEF FilesInv, FileTypes
    <3> SUFFICES ASSUME NEW w \in Workers, NEW one \in merging'[w]
                 PROVE  one \in merging[w] \/ MergeBacked(one, status'[one.action])
      BY DEF MergesFollow
    <3>4. one \in merging[w] \/ one = merge
      BY <3>2, <3>3
    <3> QED  BY <3>1, <3>4
  <2>8. LookedFollows
    BY <1>2, <1>5, <2>1
       DEF LookedFollows, WatchResolves, Resolve, Landed, ReconcileThen, Acting, ScanState
  <2> QED  BY <1>1, <2>4, <2>6, <2>7, <2>8, FilesKept
<1>6. ASSUME NEW a \in Actions, RecordsCatch(a)
      PROVE  FilesInv'
  <2>1. /\ UNCHANGED <<file, noted, merging, status, worker>>
        /\ record' = [record EXCEPT ![a] = looked \cup Slashing] /\ looked' = {}
        /\ scan.pc = "record" /\ a \in scan.current
    BY <1>6 DEF RecordsCatch, RecordCatch, outerVars, chainVars
  <2>2. status'[a] = "ResolvedSlash"
    BY <2>1 DEF ServiceInv, ProjectionInv, CaughtIsSlash, KnownSlashed, Recording
  <2>3. record' \in [Actions -> SUBSET Hashes]
    BY <2>1 DEF FilesInv, FileTypes, Slashing, Hashes
  <2>4. RecordsFollow
    <3>1. \A txs : Backed(txs, status'[a])
      BY <2>2, SlashBacks
    <3> QED  BY <2>1, <3>1 DEF RecordsFollow, FilesInv, FileTypes
  <2>5. FileTypes' /\ FilesFollow /\ NotedFollows /\ MergesFollow
    BY <2>1, <2>3 DEF FilesInv, FileTypes, FilesFollow, NotedFollows, MergesFollow
  <2>6. LookedFollows
    BY <2>1 DEF LookedFollows, Backed
  <2> QED  BY <1>1, <2>4, <2>5, <2>6, FilesKept
<1>7. CASE ReconcilesFiles(Watch)
  BY <1>2, <1>7, ReconcilesFilesFiles
<1>8. ASSUME NEW a \in Actions, CandidateThrows(a)
      PROVE  FilesInv'
  <2>1. /\ UNCHANGED <<file, record, noted, merging, worker>> /\ looked' = {}
        /\ scan' = [scan EXCEPT !.pc = "failed"]
    BY <1>8 DEF CandidateThrows, TransactThrows
  <2>2. FileTypes' /\ FilesFollow /\ RecordsFollow /\ NotedFollows /\ MergesFollow
    BY <2>1 DEF FilesInv, FileTypes, FilesFollow, RecordsFollow, NotedFollows, MergesFollow
  <2>3. LookedFollows
    BY <2>1 DEF LookedFollows, Backed
  <2> QED  BY <1>1, <2>2, <2>3, FilesKept
<1> QED  BY <1>3, <1>4, <1>5, <1>6, <1>7, <1>8 DEF WatchFiles


\* A worker that begins, or goes back to idle, holds no more than before.
LEMMA HoldsNoMore ==
  ASSUME ServiceInv, NEW w \in Workers,
         \/ BeginReconcile(w)
         \/ worker' = [worker EXCEPT ![w] = IdleWorker]
  PROVE  HeldShrinks
<1>1. worker \in [Workers -> WorkerState] /\ IdleWorker.held = {}
  BY DEF ServiceInv, ProjectionInv, RunnerTypes, IdleWorker
<1>2. CASE BeginReconcile(w)
  BY <1>1, <1>2 DEF HeldShrinks, BeginReconcile, WorkerState
<1>3. CASE worker' = [worker EXCEPT ![w] = IdleWorker]
  BY <1>1, <1>3 DEF HeldShrinks
<1> QED  BY <1>2, <1>3

\* The listener's steps.
LEMMA KeeperService ==
  ASSUME ServiceInv, Keeper
  PROVE  ServiceInv' /\ Onward
<1>1. ListenerStep
  BY DEF Keeper, KeepsRecord, ListenerStep, Keeps
<1>2. ProjectionInv' /\ Onward
  BY <1>1, ListenerKeeps DEF Keeper, ServiceInv
<1> QED  BY <1>2, ApiStays DEF Keeper

LEMMA KeeperFiles ==
  ASSUME ServiceInv, FilesInv, Keeper
  PROVE  FilesInv'
<1> DEFINE L == Listener
<1>1. /\ ServiceInv' /\ Onward /\ L \in Workers
      /\ worker \in [Workers -> WorkerState] /\ worker[L] \in WorkerState
      /\ noted \in [Workers -> [files: Files, record: SUBSET Hashes]]
      /\ record \in [Actions -> SUBSET Hashes] /\ UNCHANGED scan
  BY KeeperService, ProjectionAssumption
     DEF ServiceInv, ProjectionInv, RunnerTypes, FilesInv, FileTypes, Keeper, watchVars
<1>2. CASE (TickBegins \/ TickKeeps \/ KeeperEnds \/ TickEnds) /\ UNCHANGED fileVars
  <2>1. CASE TickBegins \/ KeeperEnds \/ TickEnds
    BY <1>1, <1>2, <2>1, HoldsNoMore, RunnersUnchanged, FilesAlone
       DEF TickBegins, KeeperEnds, TickEnds
  <2>2. CASE TickKeeps
    <3>1. HeldShrinks
      BY <1>1, <2>2 DEF TickKeeps, HeldShrinks, WorkerState
    <3> QED  BY <1>1, <1>2, <3>1, RunnersUnchanged, FilesAlone
  <2> QED  BY <1>2, <2>1, <2>2
<1> DEFINE files == noted[L].files
<1>3. /\ files \in Files /\ \A b \in Actions : files[b] \subseteq noted[L].files[b]
      /\ \A txs : [noted EXCEPT ![L].record = txs]
                  = [noted EXCEPT ![L] = [files |-> files, record |-> txs]]
  BY <1>1
<1> HIDE DEF files
<1>4. ASSUME NEW a \in Actions, KeepsRecord(a), UNCHANGED <<looked, merging>>
      PROVE  FilesInv'
  <2>1. CASE KeeperLooks(a) /\ UNCHANGED <<file, record>>
             /\ noted' = [noted EXCEPT ![L].record = record[a]]
    <3>1. UNCHANGED status /\ record[a] \in SUBSET Hashes /\ Backed(record[a], status[a])
      BY <1>1, <2>1 DEF KeeperLooks, outerVars, chainVars, FilesInv, RecordsBacked
    <3>2. /\ worker'[L].held = {<<a, RowOf(a)>>}
          /\ \A v \in Workers : v # L => worker'[v].held = worker[v].held
      BY <1>1, <2>1 DEF KeeperLooks, WorkerState
    <3>3. \A read \in worker'[L].held : read[1] = a
      BY <3>2
    <3>4. noted' = [noted EXCEPT ![L] = [files |-> files, record |-> record[a]]]
      BY <1>3, <2>1
    <3>5. RecordsFollow /\ record' \in [Actions -> SUBSET Hashes]
      BY <1>1, <2>1 DEF RecordsFollow
    <3>6. Backed(record[a], status'[a])
      BY <3>1
    <3>7. UNCHANGED <<file, looked, merging, scan>>
      BY <1>1, <1>4, <2>1
    <3> QED
      BY <1>1, <1>3, <3>1, <3>2, <3>3, <3>4, <3>5, <3>6, <3>7, RecordHeld
  <2>2. CASE KeeperCorrects(a) /\ RecordWritten(L, a)
    BY <1>1, <1>4, <2>2, RecordIsWritten DEF KeeperCorrects
  <2>3. CASE /\ KeeperResolves(a) \/ KeeperFails(a) \/ KeeperBreaks(a)
             /\ noted' = [noted EXCEPT ![L].record = {}]
             /\ UNCHANGED <<file, record>>
    <3>1. /\ worker'[L].held = {}
          /\ \A v \in Workers : v # L => worker'[v].held = worker[v].held
      <4>1. CASE KeeperResolves(a)
        BY <1>1, <4>1 DEF KeeperResolves, WorkerState
      <4>2. CASE KeeperFails(a)
        BY <1>1, <4>2 DEF KeeperFails, WorkerState
      <4>3. CASE KeeperBreaks(a)
        BY <1>1, <4>3 DEF KeeperBreaks, WorkerState
      <4> QED  BY <2>3, <4>1, <4>2, <4>3
    <3>2. noted' = [noted EXCEPT ![L] = [files |-> files, record |-> {}]]
      BY <1>3, <2>3
    <3>3. RecordsFollow /\ record' \in [Actions -> SUBSET Hashes]
      BY <1>1, <2>3 DEF RecordsFollow
    <3>4. {} \in SUBSET Hashes /\ Backed({}, status'[a])
      BY DEF Backed
    <3>5. \A read \in worker'[L].held : read[1] = a
      BY <3>1
    <3>6. UNCHANGED <<file, looked, merging, scan>>
      BY <1>1, <1>4, <2>3
    <3> QED
      BY <1>1, <1>3, <3>1, <3>2, <3>3, <3>4, <3>5, <3>6, RecordHeld
  <2> QED  BY <1>4, <2>1, <2>2, <2>3 DEF KeepsRecord
<1> QED  BY <1>2, <1>4 DEF Keeper

\* The steps of the chain and the API in which no file has a part.
LEMMA OthersFiles ==
  ASSUME ServiceInv, FilesInv, UNCHANGED fileVars,
         \/ /\ \/ \E a \in Actions : AgentActs(a) \/ WindowEnds(a) \/ ArmSees(a)
               \/ CoolsDown
            /\ UNCHANGED <<watchVars, apiVars>>
         \/ \E a \in Actions : StartChallenge(a) \/ ChallengeLands(a)
         \/ \E a \in Actions : \E entrypoint \in {"challenge", "resolve"} :
              CallThrows(entrypoint, a)
         \/ ResolveEnds
  PROVE  ServiceInv' /\ Onward /\ FilesInv'
<1>1. ServiceInv' /\ Onward
  <2>1. CASE /\ \/ \E a \in Actions : AgentActs(a) \/ WindowEnds(a) \/ ArmSees(a)
                \/ CoolsDown
             /\ UNCHANGED <<watchVars, apiVars>>
    BY <2>1, ChainKeeps, ApiStays DEF ChainStep, ServiceInv
  <2> QED  BY <2>1, StartChallengeKeeps, ChallengeLandsKeeps, CallThrowsKeeps,
              ResolveEndsKeeps
<1>2. HeldShrinks
  BY HoldsNoMore, RunnersUnchanged, ApiWorkers
     DEF AgentActs, WindowEnds, ArmSees, CoolsDown, StartChallenge, ChallengeLands,
         CallThrows, ResolveEnds, vars, projectionVars
<1>3. CandidateStays
  BY RunnersUnchanged
     DEF AgentActs, WindowEnds, StartChallenge, ChallengeLands, CallThrows, ResolveEnds,
         vars, watchVars
<1> QED  BY <1>1, <1>2, <1>3, FilesAlone


(***************************************************************************)
(* Every call in the queue is a job's, for the job's action, and resolves  *)
(* only what a challenge has landed for: so it never refunds a bond.       *)
(***************************************************************************)
CallRight(call) ==
  /\ call.caller[1] = "job"
  /\ call.caller[2] \in 1..Len(jobs)
  /\ jobs[call.caller[2]].action = {call.action}
  /\ call.entrypoint = "resolve" => status[call.action] \in {"Challenged", "ResolvedSlash"}

CallsRight == \A k \in 1..Len(signer) : CallRight(signer[k])

\* The jobs keep their actions, more may be added.
JobsFollow ==
  /\ Len(jobs') >= Len(jobs)
  /\ \A j \in 1..Len(jobs) : jobs'[j].action = jobs[j].action

CallsFollow ==
  \A k \in 1..Len(signer') :
    \/ \E m \in 1..Len(signer) : signer'[k] = signer[m]
    \/ CallRight(signer[k])'

LEMMA CallsKept ==
  ASSUME ServiceInv, ServiceInv', Onward, CallsRight, JobsFollow, CallsFollow
  PROVE  CallsRight'
<1> SUFFICES ASSUME NEW k \in 1..Len(signer'),
                    NEW m \in 1..Len(signer), signer'[k] = signer[m]
             PROVE  CallRight(signer[k])'
  BY DEF CallsRight, CallsFollow
<1>1. CallRight(signer[m]) /\ signer[m] \in Queued
  BY ElementOfSeq DEF CallsRight, ServiceInv, ApiTypes
<1>2. Len(jobs) \in Nat /\ Len(jobs') \in Nat /\ Len(jobs') >= Len(jobs)
  BY LenProperties DEF ServiceInv, ApiTypes, JobsFollow
<1>3. signer[m].caller[2] \in 1..Len(jobs')
  BY <1>1, <1>2 DEF CallRight
<1>4. jobs'[signer[m].caller[2]].action = {signer[m].action}
  BY <1>1 DEF CallRight, JobsFollow
<1>5. signer[m].entrypoint = "resolve" =>
        status'[signer[m].action] \in {"Challenged", "ResolvedSlash"}
  BY <1>1 DEF CallRight, Onward, Leads, Queued
<1> QED  BY <1>1, <1>3, <1>4, <1>5 DEF CallRight

\* A queue that stays, or whose head is gone.
LEMMA CallsLeft ==
  ASSUME ServiceInv,
         signer' = signer \/ (signer # <<>> /\ signer' = Tail(signer))
  PROVE  CallsFollow
<1>1. CASE signer' = signer
  BY <1>1 DEF CallsFollow
<1>2. CASE signer # <<>> /\ signer' = Tail(signer)
  <2>1. signer \in Seq(Queued) /\ signer # <<>> /\ Len(signer) \in Nat
    BY <1>2, LenProperties DEF ServiceInv, ApiTypes
  <2> DEFINE tail == Tail(signer)
  <2>2. Len(tail) = Len(signer) - 1 /\ \A k \in 1..Len(signer) - 1 : tail[k] = signer[k + 1]
    BY <2>1, QueueHead
  <2>3. signer' = tail
    BY <1>2
  <2> HIDE DEF tail
  <2> SUFFICES ASSUME NEW k \in 1..Len(signer')
               PROVE  \E m \in 1..Len(signer) : signer'[k] = signer[m]
    BY DEF CallsFollow
  <2>4. k + 1 \in 1..Len(signer) /\ signer'[k] = signer[k + 1]
    BY <2>1, <2>2, <2>3
  <2> QED  BY <2>4
<1> QED  BY <1>1, <1>2

\* The head is answered: its job keeps its action.
LEMMA AnswerFollows ==
  ASSUME ServiceInv, signer # <<>>, NEW outcome \in {"failed", "resolved"},
         Answer(outcome)
  PROVE  JobsFollow /\ CallsFollow
<1>1. signer' = Tail(signer) /\ Len(jobs') = Len(jobs)
      /\ \A j \in 1..Len(jobs) : jobs'[j].action = jobs[j].action
  BY Answered DEF ServiceInv
<1>2. Len(jobs) \in Nat
  BY LenProperties DEF ServiceInv, ApiTypes
<1> QED  BY <1>1, <1>2, CallsLeft DEF JobsFollow

LEMMA QueueStays ==
  ASSUME ServiceInv, UNCHANGED <<jobs, signer>>
  PROVE  JobsFollow /\ CallsFollow
<1>1. Len(jobs) \in Nat
  BY LenProperties DEF ServiceInv, ApiTypes
<1> QED  BY <1>1, CallsLeft DEF JobsFollow

\* The head of a queue of right calls.
LEMMA HeadRight ==
  ASSUME ServiceInv, CallsRight, signer # <<>>
  PROVE  CallRight(Head(signer)) /\ Head(signer) \in Queued
<1>1. Head(signer) = signer[1] /\ Head(signer) \in Queued /\ Len(signer) > 0
  BY QueueHead DEF ServiceInv, ApiTypes
<1>2. Len(signer) \in Nat
  BY LenProperties DEF ServiceInv, ApiTypes
<1> QED  BY <1>1, <1>2 DEF CallsRight

LEMMA StartFollows ==
  ASSUME ServiceInv, NEW a \in Actions, StartChallenge(a)
  PROVE  JobsFollow /\ CallsFollow
<1> DEFINE n == Len(jobs) + 1
           new == Job("challenge", {a}, "submitting_challenge")
           call == Call("challenge", a, ForJob(n))
<1>1. Len(jobs) \in Nat /\ Len(signer) \in Nat
  BY LenProperties DEF ServiceInv, ApiTypes
<1>2. new \in JobRow /\ new.action = {a}
  BY DEF Job, JobRow
<1>3. call \in Queued
  <2>1. ForJob(n) \in {"job", "wallet", "operator"} \X Nat
    BY <1>1 DEF ForJob
  <2> QED  BY <2>1 DEF Call, Queued
<1>4. jobs' = Append(jobs, new) /\ signer' = Append(signer, call)
  BY DEF StartChallenge, Adds
<1>5. call.caller[1] = "job" /\ call.caller[2] = n /\ call.action = a
      /\ call.entrypoint = "challenge"
  BY DEF Call, ForJob
<1> HIDE DEF call, new
<1>6. /\ Len(jobs') = n /\ jobs'[n] = new
      /\ \A j \in 1..Len(jobs) : jobs'[j] = jobs[j]
  BY <1>1, <1>2, <1>4, AppendProperties DEF ServiceInv, ApiTypes
<1>7. /\ Len(signer') = Len(signer) + 1
      /\ \A k \in 1..Len(signer') :
           signer'[k] = IF k = Len(signer) + 1 THEN call ELSE signer[k]
  BY <1>3, <1>4, CallAdded DEF ServiceInv, ApiTypes
<1>8. \A k \in 1..Len(signer') : signer'[k] = call => CallRight(signer[k])'
  BY <1>1, <1>2, <1>5, <1>6 DEF CallRight
<1> QED  BY <1>1, <1>6, <1>7, <1>8 DEF JobsFollow, CallsFollow

LEMMA ChallengeFollows ==
  ASSUME ServiceInv, CallsRight, NEW a \in Actions, ChallengeLands(a)
  PROVE  JobsFollow /\ CallsFollow
<1>1. signer # <<>> /\ Head(signer).action = a
  BY DEF ChallengeLands, Runs
<1>2. CASE Answer("failed")
  BY <1>1, <1>2, AnswerFollows
<1>3. CASE /\ jobs' = JobUpdated(Caller[2], "resolving")
           /\ signer' = Append(Tail(signer), Call("resolve", a, Caller))
  <2> DEFINE call == Call("resolve", a, Caller)
  <2>1. /\ Len(jobs') = Len(jobs) /\ Len(jobs) \in Nat
        /\ \A j \in 1..Len(jobs) : jobs'[j].action = jobs[j].action
    BY <1>3, JobUpdates, LenProperties DEF ServiceInv, ApiTypes
  <2>2. CallRight(Head(signer)) /\ Head(signer) \in Queued
    BY <1>1, HeadRight
  <2>3. /\ call \in Queued /\ call.caller = Caller
        /\ call.action = a /\ call.entrypoint = "resolve"
    BY <2>2 DEF Call, Caller, Queued
  <2>4. status'[a] = "Challenged"
    BY DEF ChallengeLands, Becomes, ServiceInv, ProjectionInv, TableTypes
  <2> HIDE DEF call
  <2> DEFINE tail == Tail(signer)
  <2>5. /\ Len(signer) \in Nat /\ tail \in Seq(Queued)
        /\ Len(tail) = Len(signer) - 1
        /\ \A k \in 1..Len(signer) - 1 : tail[k] = signer[k + 1]
    BY <1>1, QueueHead, LenProperties DEF ServiceInv, ApiTypes
  <2> HIDE DEF tail
  <2>6. /\ Len(signer') = Len(signer)
        /\ \A k \in 1..Len(signer') :
             signer'[k] = IF k = Len(signer) THEN call ELSE tail[k]
    <3>1. signer' = Append(tail, call)
      BY <1>3 DEF call, tail
    <3>2. Len(tail) + 1 = Len(signer)
      BY <2>5
    <3> QED  BY <2>3, <2>5, <3>1, <3>2, CallAdded
  <2>7. ASSUME NEW k \in 1..Len(signer'), signer'[k] = call
        PROVE  CallRight(signer[k])'
    BY <1>1, <2>1, <2>2, <2>3, <2>4, <2>7 DEF CallRight, Caller
  <2>8. ASSUME NEW k \in 1..Len(signer'), k # Len(signer)
        PROVE  \E m \in 1..Len(signer) : signer'[k] = signer[m]
    <3>1. k + 1 \in 1..Len(signer) /\ signer'[k] = signer[k + 1]
      BY <2>5, <2>6, <2>8
    <3> QED  BY <3>1
  <2> QED  BY <2>1, <2>6, <2>7, <2>8 DEF JobsFollow, CallsFollow
<1> QED  BY <1>2, <1>3 DEF ChallengeLands


(***************************************************************************)
(* Where the hashes of a slash are: in the file of the action, unless the  *)
(* arm service has written over it, or still to be merged into it by the   *)
(* API, which has not begun to reconcile.  What is merged while jobs       *)
(* challenge are always both, so that it does not matter what a merge has  *)
(* read of the file.                                                       *)
(***************************************************************************)
Left(a) == a \in overwritten \/ \E run \in file[a] : Slashing \subseteq run.txs

MergesBoth == \A w \in Workers : \A merge \in merging[w] : Slashing \subseteq merge.hashes

ToMerge(a) ==
  /\ At(Api, "starting")
  /\ merging[Api] # {}
  /\ \A merge \in merging[Api] : merge.action = a

Settles == settling => LET a == Head(signer).action IN ToMerge(a) \/ Left(a)

EvidenceInv ==
  /\ ServiceInv /\ FilesInv
  /\ CallsRight /\ MergesBoth /\ Settles
  /\ ResolvedLeavesHashes

LEMMA EvidenceStart == EvidenceInit => EvidenceInv
<1> SUFFICES ASSUME EvidenceInit  PROVE EvidenceInv
  OBVIOUS
<1>1. ServiceInv /\ jobs = <<>> /\ signer = <<>> /\ settling = FALSE
  BY ServiceStart DEF EvidenceInit, ChallengesInit
<1>2. Len(jobs) = 0 /\ Len(signer) = 0
  BY <1>1
<1>3. scan = NoScan /\ worker = [w \in Workers |-> IdleWorker]
  BY DEF EvidenceInit, ChallengesInit, Init, ProjectionInit
<1>4. FileTypes
  BY DEF EvidenceInit, FileTypes, NoFiles, NothingNoted, Files
<1>5. FilesBacked /\ RecordsBacked /\ NotedBacked /\ LookedBacked /\ MergesBacked
  BY <1>3 DEF EvidenceInit, NoFiles, NothingNoted, Backed, IdleWorker, NoScan, Acting,
              FilesBacked, RecordsBacked, NotedBacked, LookedBacked, MergesBacked
<1>6. CallsRight /\ MergesBoth /\ Settles /\ ResolvedLeavesHashes
  BY <1>1, <1>2 DEF EvidenceInit, CallsRight, MergesBoth, Settles, ResolvedLeavesHashes
<1> QED  BY <1>1, <1>4, <1>5, <1>6 DEF FilesInv, EvidenceInv

\* What has been left in a file is not taken out of it again.
LEMMA LeftStays ==
  ASSUME FilesInv, MergesBoth,
         \/ UNCHANGED <<file, overwritten>>
         \/ \E a \in Actions : PersistRun(a)
         \/ \E w \in Workers : MergeWrites(w)
  PROVE  \A b \in Actions : Left(b) => Left(b)'
<1> SUFFICES ASSUME NEW b \in Actions, Left(b)  PROVE Left(b)'
  OBVIOUS
<1>1. overwritten \subseteq overwritten'
  BY DEF PersistRun, MergeWrites
<1>2. CASE b \in overwritten
  BY <1>1, <1>2 DEF Left
<1>3. CASE UNCHANGED file
  BY <1>1, <1>3 DEF Left
<1>4. ASSUME NEW run \in file[b], Slashing \subseteq run.txs,
             NEW a \in Actions, PersistRun(a)
      PROVE  Left(b)'
  <2>1. CASE UNCHANGED file
    BY <1>3, <2>1
  <2>2. CASE ~UNCHANGED file /\ a = b
    BY <1>4, <2>2 DEF PersistRun, Left
  <2>3. CASE a # b
    <3>1. file'[b] = file[b]
      BY <1>4, <2>3 DEF PersistRun, FilesInv, FileTypes, Files
    <3> QED  BY <1>4, <3>1 DEF Left
  <2> QED  BY <2>1, <2>2, <2>3
<1>5. ASSUME NEW run \in file[b], Slashing \subseteq run.txs,
             NEW w \in Workers, MergeWrites(w)
      PROVE  Left(b)'
  <2>1. PICK merge \in merging[w] : \E base \in merge.base :
          file' = [file EXCEPT ![merge.action] = Merged(base, merge.hashes)]
    BY <1>5 DEF MergeWrites
  <2>2. PICK base \in merge.base :
          file' = [file EXCEPT ![merge.action] = Merged(base, merge.hashes)]
    BY <2>1
  <2>3. /\ merge.hashes \in SUBSET Hashes /\ merge.action \in Actions
        /\ base \in SUBSET Run /\ file \in Files /\ Slashing \subseteq merge.hashes
    BY DEF FilesInv, FileTypes, Files, Merge, MergesBoth
  <2> DEFINE new == Merged(base, merge.hashes)
  <2>4. new # {} /\ \A other \in new : merge.hashes \subseteq other.txs
    BY <2>3, MergedRuns
  <2> HIDE DEF new
  <2>5. file'[b] = IF merge.action = b THEN new ELSE file[b]
    BY <2>2, <2>3 DEF Files, new
  <2> QED  BY <1>5, <2>3, <2>4, <2>5 DEF Left
<1> QED  BY <1>2, <1>3, <1>4, <1>5 DEF Left

\* The API's merge leaves the hashes of what it settles.
LEMMA MergeLeaves ==
  ASSUME FilesInv, MergesBoth, MergeWrites(Api), NEW a \in Actions, ToMerge(a)
  PROVE  Left(a)'
<1>1. Api \in Workers
  BY ApiWorkers
<1>2. PICK merge \in merging[Api] : \E base \in merge.base :
        file' = [file EXCEPT ![merge.action] = Merged(base, merge.hashes)]
  BY DEF MergeWrites
<1>3. PICK base \in merge.base :
        file' = [file EXCEPT ![merge.action] = Merged(base, merge.hashes)]
  BY <1>2
<1>4. /\ merge.hashes \in SUBSET Hashes /\ merge.action = a
      /\ base \in SUBSET Run /\ file \in Files /\ Slashing \subseteq merge.hashes
  BY <1>1 DEF FilesInv, FileTypes, Files, Merge, MergesBoth, ToMerge
<1> DEFINE new == Merged(base, merge.hashes)
<1>5. file'[a] = new
  BY <1>3, <1>4 DEF Files
<1>6. new # {} /\ \A run \in new : merge.hashes \subseteq run.txs
  BY <1>4, MergedRuns
<1> HIDE DEF new
<1> QED  BY <1>4, <1>5, <1>6 DEF Left

\* It reads, and goes on with the same hashes for the same action.
LEMMA MergeReadsOn ==
  ASSUME FilesInv, NEW w \in Workers, MergeReads(w)
  PROVE  /\ MergesBoth => MergesBoth'
         /\ \A a \in Actions : ToMerge(a) => ToMerge(a)'
<1>1. PICK merge \in merging[w] :
        merging' = [merging EXCEPT ![w] = {[merge EXCEPT !.base = {file[merge.action]}]}]
  BY DEF MergeReads
<1> DEFINE new == [merge EXCEPT !.base = {file[merge.action]}]
<1>2. /\ merging \in [Workers -> SUBSET Merge] /\ merge \in Merge
      /\ new.action = merge.action /\ new.hashes = merge.hashes
  BY DEF FilesInv, FileTypes, Merge
<1>3. merging' = [merging EXCEPT ![w] = {new}] /\ UNCHANGED worker
  BY <1>1 DEF MergeReads, challengeVars, vars, projectionVars
<1> HIDE DEF new
<1>4. /\ merging'[w] = {new}
      /\ \A v \in Workers : v # w => merging'[v] = merging[v]
  BY <1>2, <1>3
<1>5. ASSUME MergesBoth  PROVE MergesBoth'
  BY <1>2, <1>4, <1>5 DEF MergesBoth
<1>6. ASSUME NEW a \in Actions, ToMerge(a)  PROVE ToMerge(a)'
  <2>1. CASE w = Api
    BY <1>2, <1>3, <1>4, <1>6, <2>1 DEF ToMerge, At
  <2>2. CASE w # Api
    BY <1>3, <1>4, <1>6, <2>2, ApiWorkers DEF ToMerge, At
  <2> QED  BY <2>1, <2>2
<1> QED  BY <1>5, <1>6

(***************************************************************************)
(* The resolution of a call: the action was challenged, so it is slashed,  *)
(* and what is to be merged are both hashes.                               *)
(***************************************************************************)
LEMMA ManualResolvesKeeps ==
  ASSUME ServiceInv, FilesInv, CallsRight, NEW a \in Actions, ManualResolves(a)
  PROVE  /\ ServiceInv' /\ Onward /\ FilesInv' /\ JobsFollow /\ CallsFollow
         /\ settling' => ToMerge(a)' /\ signer' = signer /\ jobs' = jobs
                         /\ Head(signer).action = a
         /\ MergesBoth => MergesBoth'
<1> DEFINE merge == [action |-> a, hashes |-> Slashing, base |-> {}]
<1>1. ResolveLands(a)
  BY DEF ManualResolves
<1>2. ServiceInv' /\ Onward
  BY <1>1, ResolveLandsKeeps
<1>3. signer # <<>> /\ Head(signer).action = a /\ Head(signer).entrypoint = "resolve" /\ ~settling
  BY <1>1 DEF ResolveLands, Runs
<1>4. Caller[1] = "job" /\ status[a] \in {"Challenged", "ResolvedSlash"}
  BY <1>3, HeadRight DEF CallRight, Caller
<1>5. status'[a] = "ResolvedSlash"
  BY <1>1, <1>4
     DEF ResolveLands, Resolution, Becomes, ServiceInv, ProjectionInv, TableTypes
<1>6. MergeBacked(merge, status'[merge.action])
  BY <1>5, SlashBacks DEF MergeBacked
<1>7. merge \in Merge /\ merge.action = a /\ merge.hashes = Slashing
  BY DEF Merge, Slashing, Hashes
<1>8. /\ IF settling' THEN merging' = [merging EXCEPT ![Api] = {merge}] ELSE merging' = merging
      /\ UNCHANGED <<file, record, noted, looked>>
  BY <1>4 DEF ManualResolves, Merges, readVars
<1> HIDE DEF merge
<1>9. /\ Api \in Workers /\ worker \in [Workers -> WorkerState]
      /\ merging \in [Workers -> SUBSET Merge]
  BY ApiWorkers DEF ServiceInv, ProjectionInv, RunnerTypes, FilesInv, FileTypes
<1>10. FileTypes'
  BY <1>7, <1>8, <1>9 DEF FilesInv, FileTypes
<1>11. MergesFollow
  BY <1>6, <1>8, <1>9 DEF MergesFollow
<1>12. HeldShrinks /\ CandidateStays
  <2>1. BeginReconcile(Api) \/ UNCHANGED worker
    BY <1>1 DEF ResolveLands
  <2> QED  BY <1>1, <1>9, <2>1, HoldsNoMore, RunnersUnchanged DEF ResolveLands, watchVars
<1>13. FilesFollow /\ RecordsFollow /\ NotedFollows
  BY <1>8, <1>12 DEF FilesFollow, RecordsFollow, NotedFollows, HeldShrinks
<1>14. LookedFollows
  BY <1>8, <1>12 DEF LookedFollows, CandidateStays
<1>15. FilesInv'
  BY <1>2, <1>10, <1>11, <1>13, <1>14, FilesKept
<1>16. JobsFollow /\ CallsFollow
  BY <1>1, <1>3, QueueStays, AnswerFollows DEF ResolveLands
<1>17. ASSUME settling'
       PROVE  ToMerge(a)' /\ signer' = signer /\ jobs' = jobs
  <2>1. BeginReconcile(Api) /\ signer' = signer /\ jobs' = jobs
    BY <1>1, <1>3, <1>17 DEF ResolveLands
  <2>2. worker'[Api].pc = "starting"
    BY <1>9, <2>1 DEF BeginReconcile, WorkerState
  <2>3. merging'[Api] = {merge}
    BY <1>8, <1>9, <1>17
  <2> QED  BY <1>7, <2>1, <2>2, <2>3 DEF ToMerge, At
<1>18. ASSUME MergesBoth  PROVE MergesBoth'
  BY <1>7, <1>8, <1>9, <1>18 DEF MergesBoth
<1> QED  BY <1>2, <1>3, <1>15, <1>16, <1>17, <1>18


LEMMA EvidenceStep ==
  ASSUME ServiceInv, FilesInv, CallsRight, EvidenceNext
  PROVE  ServiceInv' /\ Onward /\ FilesInv' /\ JobsFollow /\ CallsFollow
<1>1. ASSUME NEW a \in Actions, RecordsRow(a) \/ PersistRun(a),
             UNCHANGED <<watchVars, apiVars>>
      PROVE  ServiceInv' /\ Onward /\ FilesInv' /\ JobsFollow /\ CallsFollow
  <2>1. ServiceInv' /\ Onward /\ FilesInv'
    BY <1>1, RecordsRowService, RecordsRowFiles, PersistRunService, PersistRunFiles
  <2> QED  BY <1>1, <2>1, QueueStays DEF apiVars, jobVars
<1>2. ASSUME NEW w \in Workers, ReconcilesFiles(w)
      PROVE  ServiceInv' /\ Onward /\ FilesInv' /\ JobsFollow /\ CallsFollow
  BY <1>2, ReconcilesFilesService, ReconcilesFilesFiles, QueueStays
     DEF ReconcilesFiles, apiVars, jobVars
<1>3. CASE WatchFiles
  <2>1. UNCHANGED <<jobs, signer>>
    BY <1>3 DEF WatchFiles, ReconcilesFiles, apiVars, jobVars
  <2> QED  BY <1>3, <2>1, WatchFilesService, WatchFilesFiles, QueueStays
<1>4. ASSUME NEW w \in Workers, MergeActionTransactions(w)
      PROVE  ServiceInv' /\ Onward /\ FilesInv' /\ JobsFollow /\ CallsFollow
  <2>1. UNCHANGED challengeVars
    BY <1>4 DEF MergeActionTransactions, MergeReads, MergeWrites
  <2>2. UNCHANGED <<jobs, signer>>
    BY <2>1 DEF challengeVars, apiVars, jobVars
  <2> QED  BY <1>4, <2>1, <2>2, MergeKeepsService, MergeFiles, QueueStays
<1>5. ASSUME UNCHANGED fileVars,
             \/ /\ \/ \E a \in Actions : AgentActs(a) \/ WindowEnds(a) \/ ArmSees(a)
                   \/ CoolsDown
                /\ UNCHANGED <<watchVars, apiVars>>
             \/ \E a \in Actions : StartChallenge(a) \/ ChallengeLands(a)
             \/ \E a \in Actions : \E entrypoint \in {"challenge", "resolve"} :
                  CallThrows(entrypoint, a)
             \/ ResolveEnds
      PROVE  ServiceInv' /\ Onward /\ FilesInv' /\ JobsFollow /\ CallsFollow
  <2>1. ServiceInv' /\ Onward /\ FilesInv'
    BY <1>5, OthersFiles
  <2>2. ASSUME UNCHANGED apiVars
        PROVE  JobsFollow /\ CallsFollow
    BY <2>2, QueueStays DEF apiVars, jobVars
  <2>3. ASSUME NEW a \in Actions, NEW entrypoint \in {"challenge", "resolve"},
               CallThrows(entrypoint, a)
        PROVE  JobsFollow /\ CallsFollow
    BY <2>3, AnswerFollows DEF CallThrows, Runs
  <2>4. CASE ResolveEnds
    <3>1. signer # <<>>
      BY <2>4 DEF ResolveEnds, ServiceInv, ApiTypes
    <3>2. \E outcome \in {"failed", "resolved"} : Answer(outcome)
      BY <2>4 DEF ResolveEnds
    <3> QED  BY <2>1, <3>1, <3>2, AnswerFollows
  <2> QED  BY <1>5, <2>1, <2>2, <2>3, <2>4, StartFollows, ChallengeFollows
<1>6. Listener \in Workers /\ Api \in Workers /\ Watch \in Workers
  BY ProjectionAssumption, WatchdogAssumption, ApiWorkers
<1>7. CASE Chain
  BY <1>1, <1>5, <1>7 DEF Chain
<1>8. CASE ListenerFiles
  <2>1. ASSUME Keeper  PROVE JobsFollow /\ CallsFollow
    BY <2>1, QueueStays DEF Keeper, apiVars, jobVars
  <2> QED  BY <1>2, <1>6, <1>8, <2>1, KeeperService, KeeperFiles DEF ListenerFiles
<1>9. CASE ApiFiles
  BY <1>2, <1>5, <1>6, <1>9, ManualResolvesKeeps DEF ApiFiles, ManualChallenge
<1> QED
  BY <1>3, <1>4, <1>5, <1>6, <1>7, <1>8, <1>9 DEF EvidenceNext

(***************************************************************************)
(* While the API does not settle, or a step leaves what it settles with.   *)
(***************************************************************************)
LEMMA SettlesOn ==
  ASSUME ServiceInv, CallsRight, Settles,
         settling' => settling /\ Head(signer') = Head(signer),
         \A b \in Actions : Left(b) => Left(b)',
         \A b \in Actions : ToMerge(b) => ToMerge(b)' \/ Left(b)'
  PROVE  Settles'
<1> SUFFICES ASSUME settling, Head(signer') = Head(signer)
             PROVE  LET a == Head(signer).action IN ToMerge(a)' \/ Left(a)'
  BY DEF Settles, ToMerge, Left, At
<1>1. Head(signer).action \in Actions
  BY HeadRight DEF ServiceInv, ApiTypes, Queued
<1> QED  BY <1>1 DEF Settles

LEMMA ResolvedOn ==
  ASSUME ServiceInv, ResolvedLeavesHashes, \A b \in Actions : Left(b) => Left(b)',
         Len(jobs') >= Len(jobs), jobs' \in Seq(JobRow),
         \A j \in 1..Len(jobs') : \A a \in jobs'[j].action :
           jobs'[j].status = "resolved" =>
             \/ Left(a)'
             \/ j \in 1..Len(jobs) /\ a \in jobs[j].action /\ jobs[j].status = "resolved"
  PROVE  ResolvedLeavesHashes'
<1> SUFFICES ASSUME NEW j \in 1..Len(jobs'), NEW a \in jobs'[j].action,
                    jobs'[j].status = "resolved"
             PROVE  Left(a)'
  BY DEF ResolvedLeavesHashes, Left
<1>1. jobs'[j] \in JobRow
  BY ElementOfSeq
<1>2. a \in Actions
  BY <1>1 DEF JobRow
<1> QED  BY <1>2 DEF ResolvedLeavesHashes, Left

\* The API's worker is its own, and so is what it merges.
ApiAlone ==
  /\ UNCHANGED <<jobs, signer, settling>>
  /\ worker'[Api].pc = worker[Api].pc
  /\ merging'[Api] = merging[Api]

LEMMA OthersAlone ==
  ASSUME ServiceInv, FilesInv,
         \/ Chain \/ ListenerFiles \/ WatchFiles
         \/ MergeActionTransactions(Watch)
  PROVE  ApiAlone
<1>1. /\ Api \in Workers /\ Api # Listener /\ Api # Watch /\ Watch \in Workers
      /\ worker \in [Workers -> WorkerState]
      /\ merging \in [Workers -> SUBSET Merge]
  BY ApiWorkers, WatchdogAssumption
     DEF ServiceInv, ProjectionInv, RunnerTypes, FilesInv, FileTypes
<1>2. UNCHANGED <<jobs, signer, settling>>
  BY DEF Chain, ListenerFiles, Keeper, ReconcilesFiles, WatchFiles,
         MergeActionTransactions, MergeReads, MergeWrites, challengeVars, apiVars, jobVars
<1>3. ASSUME NEW w \in {Listener, Watch}, ReconcilesFiles(w)
      PROVE  ApiAlone
  <2>1. \E state : worker' = [worker EXCEPT ![w] = state]
    <3>1. Reconciles(w)
      BY <1>3 DEF ReconcilesFiles, ReadsFiles, ReadsRecord, WritesRecord, Throws, Reconciles,
                  Projects
    <3>2. CASE ReadCursor(w)
      BY <3>2 DEF ReadCursor
    <3>3. CASE TakeEvents(w)
      BY <3>3 DEF TakeEvents
    <3>4. ASSUME NEW a \in Actions, Projects(w, a)
          PROVE  \E state : worker' = [worker EXCEPT ![w] = state]
      BY <3>4 DEF Projects, ReadAction, WriteRow
    <3>5. CASE ReconcileThrows(w)
      BY <3>5 DEF ReconcileThrows
    <3> QED  BY <3>1, <3>2, <3>3, <3>4, <3>5 DEF Reconciles
  <2> QED  BY <1>1, <1>2, <1>3, <2>1 DEF ApiAlone, ReconcilesFiles
<1>4. ASSUME UNCHANGED worker \/ BeginReconcile(Watch) \/ BeginReconcile(Listener)
             \/ (\E state : worker' = [worker EXCEPT ![Watch] = state])
             \/ (\E state : worker' = [worker EXCEPT ![Listener] = state]),
             merging' = merging \/ \E set : merging' = [merging EXCEPT ![Watch] = set]
      PROVE  ApiAlone
  BY <1>1, <1>2, <1>4 DEF ApiAlone, BeginReconcile
<1>5. CASE Chain
  BY <1>4, <1>5
     DEF Chain, AgentActs, WindowEnds, ArmSees, CoolsDown, RecordsRow, ArmRecords,
         PersistRun, fileVars
<1>6. CASE Keeper
  <2>1. \/ BeginReconcile(Listener)
        \/ \E state : worker' = [worker EXCEPT ![Listener] = state]
    BY <1>6 DEF Keeper, TickBegins, TickKeeps, KeepsRecord, KeeperLooks, KeeperCorrects,
                WriteRow, KeeperResolves, KeeperFails, KeeperBreaks, KeeperEnds, TickEnds
  <2> QED  BY <1>4, <1>6, <2>1 DEF Keeper, fileVars
<1>7. CASE ListenerFiles
  BY <1>3, <1>6, <1>7 DEF ListenerFiles
<1>8. CASE WatchFiles
  <2>1. CASE \/ ScanBegins \/ ReconcileReturns \/ CandidateFailed \/ ScanEnds
             \/ \E a \in Actions : \/ Challenge(a) \/ TransactThrows(a)
                                   \/ ScanTakes(a) \/ Resolve(a) \/ RecordCatch(a)
    <3>1. \/ UNCHANGED worker \/ BeginReconcile(Watch)
          \/ \E state : worker' = [worker EXCEPT ![Watch] = state]
      BY <2>1 DEF ScanBegins, ReconcileReturns, CandidateFailed, ScanEnds, Challenge,
                  TransactThrows, ScanTakes, Resolve, RecordCatch, Landed, ReconcileThen,
                  projectionVars
    <3>2. merging' = merging \/ \E set : merging' = [merging EXCEPT ![Watch] = set]
      BY <1>1, <1>8 DEF WatchFiles, fileVars, LooksAgain, CandidateThrows, WatchResolves,
                  RecordsCatch, Merges, ReconcilesFiles
    <3> QED  BY <1>4, <3>1, <3>2
  <2> QED  BY <1>3, <1>8, <2>1 DEF WatchFiles, LooksAgain, CandidateThrows, WatchResolves,
                                  RecordsCatch
<1>9. CASE MergeActionTransactions(Watch)
  <2>1. UNCHANGED worker
    BY <1>9 DEF MergeActionTransactions, MergeReads, MergeWrites, challengeVars, vars,
                projectionVars
  <2> QED  BY <1>4, <1>9, <2>1 DEF MergeActionTransactions, MergeReads, MergeWrites
<1> QED  BY <1>5, <1>7, <1>8, <1>9


\* Only ResolveEnds tells a job that it is resolved.
LEMMA AnsweredStatus ==
  ASSUME ServiceInv, signer # <<>>, NEW outcome \in {"failed", "resolved"},
         Answer(outcome)
  PROVE  \A j \in 1..Len(jobs) : jobs'[j].status = "resolved" =>
           \/ jobs[j].status = "resolved"
           \/ outcome = "resolved" /\ Caller[1] = "job" /\ j = Caller[2]
BY JobUpdates DEF Answer, ServiceInv, ApiTypes

LEMMA ResolvedKept ==
  ASSUME ServiceInv, FilesInv, CallsRight, Settles, ResolvedLeavesHashes,
         ServiceInv', JobsFollow, \A b \in Actions : Left(b) => Left(b)', EvidenceNext
  PROVE  ResolvedLeavesHashes'
<1>1. jobs' \in Seq(JobRow) /\ Len(jobs) \in Nat /\ Len(jobs') >= Len(jobs)
      /\ \A j \in 1..Len(jobs) : jobs'[j].action = jobs[j].action
  BY LenProperties DEF ServiceInv, ApiTypes, JobsFollow
<1>2. ASSUME Len(jobs') = Len(jobs),
             \A j \in 1..Len(jobs) :
               jobs'[j].status = "resolved" => jobs[j].status = "resolved"
      PROVE  ResolvedLeavesHashes'
  BY <1>1, <1>2, ResolvedOn
<1>3. CASE UNCHANGED jobs
  BY <1>2, <1>3
<1>4. ASSUME signer # <<>>, Answer("failed")
      PROVE  ResolvedLeavesHashes'
  BY <1>2, <1>4, Answered, AnsweredStatus DEF ServiceInv
<1>5. ASSUME NEW a \in Actions, StartChallenge(a)
      PROVE  ResolvedLeavesHashes'
  <2> DEFINE new == Job("challenge", {a}, "submitting_challenge")
  <2>1. new \in JobRow /\ new.status # "resolved"
    BY DEF Job, JobRow
  <2>2. jobs' = Append(jobs, new)
    BY <1>5 DEF StartChallenge, Adds
  <2> HIDE DEF new
  <2>3. /\ Len(jobs') = Len(jobs) + 1 /\ jobs'[Len(jobs) + 1] = new
        /\ \A j \in 1..Len(jobs) : jobs'[j] = jobs[j]
    BY <1>1, <2>1, <2>2, AppendProperties DEF ServiceInv, ApiTypes
  <2>4. \A j \in 1..Len(jobs') :
          jobs'[j].status = "resolved" => j \in 1..Len(jobs) /\ jobs'[j] = jobs[j]
    BY <1>1, <2>1, <2>3
  <2> QED  BY <1>1, <2>4, ResolvedOn
<1>6. ASSUME NEW a \in Actions, ChallengeLands(a)
      PROVE  ResolvedLeavesHashes'
  <2>1. signer # <<>>
    BY <1>6 DEF ChallengeLands, Runs
  <2>2. CASE jobs' = JobUpdated(Caller[2], "resolving")
    <3>1. /\ Len(JobUpdated(Caller[2], "resolving")) = Len(jobs)
          /\ \A j \in 1..Len(jobs) : JobUpdated(Caller[2], "resolving")[j].status =
               IF j = Caller[2] THEN "resolving" ELSE jobs[j].status
      BY JobUpdates DEF ServiceInv, ApiTypes
    <3> QED  BY <1>2, <2>2, <3>1
  <2> QED  BY <1>4, <1>6, <2>1, <2>2 DEF ChallengeLands
<1>7. CASE ResolveEnds
  <2>1. signer # <<>> /\ settling
    BY <1>7 DEF ResolveEnds, ServiceInv, ApiTypes
  <2>2. CallRight(Head(signer)) /\ Head(signer).action \in Actions
    BY <2>1, HeadRight DEF Queued
  <2>3. CASE Answer("failed")
    BY <1>4, <2>1, <2>3
  <2>4. CASE ReconcileDone(Api) /\ Answer("resolved")
    <3>1. \A b \in Actions : b = Head(signer).action => Left(b)'
      <4>1. \A b \in Actions : ~ToMerge(b)
        BY <2>4 DEF ToMerge, ReconcileDone, At
      <4> QED  BY <2>1, <2>2, <4>1 DEF Settles
    <3>2. Len(jobs') = Len(jobs)
      BY <2>1, <2>4, Answered DEF ServiceInv
    <3>3. \A j \in 1..Len(jobs) : jobs'[j].status = "resolved" =>
             jobs[j].status = "resolved" \/ jobs[j].action = {Head(signer).action}
      <4>1. \A j \in 1..Len(jobs) : jobs'[j].status = "resolved" =>
              jobs[j].status = "resolved" \/ j = Caller[2]
        BY <2>1, <2>4, AnsweredStatus
      <4> QED  BY <2>2, <4>1 DEF CallRight, Caller
    <3> QED  BY <1>1, <2>2, <3>1, <3>2, <3>3, ResolvedOn
  <2> QED  BY <1>7, <2>3, <2>4 DEF ResolveEnds
<1>8. CASE ApiFiles
  <2>1. ASSUME NEW a \in Actions, ManualResolves(a)
        PROVE  ResolvedLeavesHashes'
    BY <1>3, <1>4, <2>1 DEF ManualResolves, ResolveLands, Runs
  <2>2. ASSUME NEW a \in Actions, NEW entrypoint, CallThrows(entrypoint, a)
        PROVE  ResolvedLeavesHashes'
    BY <1>4, <2>2 DEF CallThrows, Runs
  <2>3. CASE ReconcilesFiles(Api)
    BY <1>3, <2>3 DEF ReconcilesFiles, apiVars, jobVars
  <2> QED  BY <1>6, <1>7, <1>8, <2>1, <2>2, <2>3 DEF ApiFiles, ManualChallenge
<1>9. CASE Chain \/ ListenerFiles \/ WatchFiles \/ MergeActionTransactions(Watch)
  BY <1>3, <1>9, OthersAlone DEF ApiAlone
<1>10. CASE MergeActionTransactions(Api)
  BY <1>3, <1>10 DEF MergeActionTransactions, MergeReads, MergeWrites, challengeVars,
                     apiVars, jobVars
<1> QED  BY <1>5, <1>8, <1>9, <1>10 DEF EvidenceNext

LEMMA SettlesKept ==
  ASSUME ServiceInv, FilesInv, CallsRight, MergesBoth, Settles,
         \A b \in Actions : Left(b) => Left(b)', EvidenceNext
  PROVE  Settles'
<1>1. CASE settling' = FALSE
  BY <1>1 DEF Settles
<1>2. ASSUME ApiAlone
      PROVE  Settles'
  <2>1. \A b \in Actions : ToMerge(b) => ToMerge(b)'
    BY <1>2 DEF ApiAlone, ToMerge, At
  <2> QED  BY <1>2, <2>1, SettlesOn DEF ApiAlone
<1>3. CASE MergeActionTransactions(Api)
  <2>1. UNCHANGED <<signer, settling>>
    BY <1>3 DEF MergeActionTransactions, MergeReads, MergeWrites, challengeVars, apiVars,
                jobVars
  <2>2. \A b \in Actions : ToMerge(b) => ToMerge(b)' \/ Left(b)'
    BY <1>3, ApiWorkers, MergeReadsOn, MergeLeaves DEF MergeActionTransactions
  <2> QED  BY <2>1, <2>2, SettlesOn
<1>4. CASE ReconcilesFiles(Api)
  <2>1. \A b \in Actions : ToMerge(b) => ToMerge(b)'
    <3>1. /\ Api \in Workers /\ worker \in [Workers -> WorkerState]
          /\ UNCHANGED merging
      BY <1>4, ApiWorkers DEF ServiceInv, ProjectionInv, RunnerTypes, ReconcilesFiles
    <3>2. ASSUME NEW a \in Actions, WritesRecord(Api, a)
          PROVE  worker'[Api].pc = worker[Api].pc
      BY <3>1, <3>2 DEF WritesRecord, WriteRow, WorkerState
    <3>3. ASSUME ~\E a \in Actions : WritesRecord(Api, a)
          PROVE  merging[Api] = {} \/ worker[Api].pc # "starting"
      BY <1>4, <3>3 DEF ReconcilesFiles, ReadsFiles, TakeEvents, ReadsRecord, ReadAction,
                        Throws, ReconcileThrows, At
    <3> QED  BY <3>1, <3>2, <3>3 DEF ToMerge, At
  <2>2. UNCHANGED <<signer, settling>>
    BY <1>4 DEF ReconcilesFiles, apiVars, jobVars
  <2> QED  BY <2>1, <2>2, SettlesOn
<1>5. ASSUME NEW a \in Actions, StartChallenge(a), UNCHANGED fileVars
      PROVE  Settles'
  <2>1. settling' = settling /\ UNCHANGED <<worker, merging>>
    BY <1>5 DEF StartChallenge, vars, projectionVars, fileVars
  <2>2. ASSUME settling
        PROVE  Head(signer') = Head(signer)
    <3>1. signer # <<>> /\ signer \in Seq(Queued)
      BY <2>2 DEF ServiceInv, ApiTypes
    <3> QED  BY <1>5, <3>1 DEF StartChallenge
  <2>3. \A b \in Actions : ToMerge(b) => ToMerge(b)'
    BY <2>1 DEF ToMerge, At
  <2> QED  BY <2>1, <2>2, <2>3, SettlesOn
<1>6. CASE ApiFiles
  <2>1. ASSUME NEW a \in Actions, ManualResolves(a)
        PROVE  Settles'
    BY <2>1, ManualResolvesKeeps DEF Settles, ToMerge, At
  <2>2. ASSUME NEW a \in Actions, ChallengeLands(a)  PROVE settling' = FALSE
    BY <2>2 DEF ChallengeLands, Runs, ServiceInv, ApiTypes
  <2>3. ASSUME NEW a \in Actions, NEW entrypoint, CallThrows(entrypoint, a)
        PROVE  settling' = FALSE
    BY <2>3 DEF CallThrows, Runs, ServiceInv, ApiTypes
  <2>4. CASE ResolveEnds
    BY <1>1, <2>4 DEF ResolveEnds
  <2> QED  BY <1>1, <1>4, <1>6, <2>1, <2>2, <2>3, <2>4 DEF ApiFiles, ManualChallenge
<1>7. CASE Chain \/ ListenerFiles \/ WatchFiles \/ MergeActionTransactions(Watch)
  BY <1>2, <1>7, OthersAlone
<1> QED  BY <1>3, <1>5, <1>6, <1>7 DEF EvidenceNext

LEMMA FileMoves ==
  ASSUME EvidenceNext
  PROVE  \/ UNCHANGED <<file, overwritten>>
         \/ \E a \in Actions : PersistRun(a)
         \/ \E w \in Workers : MergeWrites(w)
<1>1. Watch \in Workers /\ Api \in Workers
  BY WatchdogAssumption, ApiWorkers
<1>2. ASSUME NEW w, ReconcilesFiles(w)  PROVE UNCHANGED <<file, overwritten>>
  BY <1>2 DEF ReconcilesFiles, ReadsFiles, ReadsRecord, WritesRecord, RecordWritten, Throws
<1>3. CASE ListenerFiles \/ WatchFiles \/ ApiFiles
  BY <1>2, <1>3
     DEF ListenerFiles, Keeper, KeepsRecord, RecordWritten, WatchFiles, LooksAgain,
         CandidateThrows, WatchResolves, RecordsCatch, ApiFiles, ManualChallenge,
         ManualResolves, fileVars
<1>4. CASE \E w \in {Watch, Api} : MergeActionTransactions(w)
  BY <1>1, <1>4 DEF MergeActionTransactions, MergeReads
<1> QED  BY <1>3, <1>4 DEF EvidenceNext, Chain, RecordsRow, fileVars

\* Only resolutions give something to merge, and only the operator's not both.
LEMMA MergesKept ==
  ASSUME ServiceInv, FilesInv, CallsRight, MergesBoth, EvidenceNext
  PROVE  MergesBoth'
<1>1. /\ merging \in [Workers -> SUBSET Merge]
      /\ Watch \in Workers /\ Api \in Workers
  BY WatchdogAssumption, ApiWorkers DEF FilesInv, FileTypes
<1>2. CASE UNCHANGED merging
  BY <1>2 DEF MergesBoth
<1>3. ASSUME NEW a \in Actions, WatchResolves(a)  PROVE MergesBoth'
  <2> DEFINE merge == [action |-> a, hashes |-> Slashing, base |-> {}]
  <2>1. merging' = merging \/ merging' = [merging EXCEPT ![Watch] = {merge}]
    BY <1>3 DEF WatchResolves, Merges
  <2>2. merge.hashes = Slashing
    OBVIOUS
  <2> HIDE DEF merge
  <2> QED  BY <1>1, <2>1, <2>2 DEF MergesBoth
<1>4. ASSUME NEW a \in Actions, ManualResolves(a)  PROVE MergesBoth'
  BY <1>4, ManualResolvesKeeps
<1>5. ASSUME NEW w \in Workers, MergeActionTransactions(w)  PROVE MergesBoth'
  <2>1. CASE MergeWrites(w)
    <3>1. merging' = [merging EXCEPT ![w] = {}]
      BY <2>1 DEF MergeWrites
    <3> QED  BY <1>1, <3>1 DEF MergesBoth
  <2> QED  BY <1>5, <2>1, MergeReadsOn DEF MergeActionTransactions
<1>6. CASE Chain \/ ListenerFiles \/ \E a \in Actions : StartChallenge(a) /\ UNCHANGED fileVars
  BY <1>2, <1>6 DEF Chain, RecordsRow, PersistRun, ListenerFiles, Keeper, ReconcilesFiles,
                    fileVars
<1>7. CASE WatchFiles
  BY <1>2, <1>3, <1>7 DEF WatchFiles, LooksAgain, CandidateThrows, RecordsCatch,
                          ReconcilesFiles, fileVars
<1>8. CASE ApiFiles
  BY <1>2, <1>4, <1>8 DEF ApiFiles, ManualChallenge, ReconcilesFiles, fileVars
<1> QED  BY <1>1, <1>5, <1>6, <1>7, <1>8 DEF EvidenceNext

LEMMA EvidenceKeeps ==
  ASSUME EvidenceInv, [EvidenceNext]_evidenceVars
  PROVE  EvidenceInv' /\ Onward
<1>1. CASE EvidenceNext
  <2>1. ServiceInv' /\ Onward /\ FilesInv' /\ JobsFollow /\ CallsFollow
    BY <1>1, EvidenceStep DEF EvidenceInv
  <2>2. \A b \in Actions : Left(b) => Left(b)'
    BY <1>1, FileMoves, LeftStays DEF EvidenceInv
  <2> QED  BY <1>1, <2>1, <2>2, CallsKept, MergesKept, SettlesKept, ResolvedKept
           DEF EvidenceInv
<1>2. CASE UNCHANGED evidenceVars
  <2>1. UNCHANGED challengeVars /\ UNCHANGED fileVars
    BY <1>2 DEF evidenceVars
  <2>2. ServiceInv' /\ Onward /\ UNCHANGED <<status, worker, scan, jobs, signer, settling>>
    BY <2>1, MergeKeepsService DEF EvidenceInv, challengeVars, apiVars, jobVars
  <2>3. FilesInv'
    BY <2>1, <2>2, RunnersUnchanged, FilesAlone DEF EvidenceInv
  <2>4. CallsRight' /\ MergesBoth' /\ Settles' /\ ResolvedLeavesHashes'
    BY <2>1, <2>2 DEF EvidenceInv, CallsRight, CallRight, MergesBoth, Settles, ToMerge,
                      Left, At, ResolvedLeavesHashes, fileVars
  <2> QED  BY <2>2, <2>3, <2>4 DEF EvidenceInv
<1> QED  BY <1>1, <1>2

(***************************************************************************)
(* A hash in a row or a file is that of an executed transaction, whatever  *)
(* evidence/store.ts is told to merge and whenever listener/reconcile.ts   *)
(* reads the file and writes the row.                                      *)
(***************************************************************************)
THEOREM HashesExecuted == EvidenceSpec => []HashesAreExecuted
<1>1. EvidenceInv => HashesAreExecuted
  BY DEF EvidenceInv, FilesInv, FilesBacked, RecordsBacked, Backed, HashesAreExecuted, Known
<1> QED  BY <1>1, EvidenceStart, EvidenceKeeps, PTL DEF EvidenceSpec

(***************************************************************************)
(* What a visitor is told is resolved has left both hashes in the file,    *)
(* unless api/arm.ts has written over it: api/resolution.ts merges before  *)
(* it reconciles, and answers after that, and whoever merges beside it     *)
(* (evidence/store.ts reads, awaits and renames) merges both as well.      *)
(***************************************************************************)
THEOREM ResolvedLeaves == EvidenceSpec => []ResolvedLeavesHashes
<1>1. EvidenceInv => ResolvedLeavesHashes
  BY DEF EvidenceInv
<1> QED  BY <1>1, EvidenceStart, EvidenceKeeps, PTL DEF EvidenceSpec


-----------------------------------------------------------------------------
(***************************************************************************)
(* The replay of the canonical action: what is kept of it, or waits to be  *)
(* signed, names the outcome of the chain, and a validation that has seen  *)
(* a slash was right.                                                      *)
(***************************************************************************)
Right(outcome) ==
  status[Canonical] = IF outcome = "SLASHED" THEN "ResolvedSlash" ELSE "ResolvedRefund"

SeenRight(seen) == terminal(seen.status) => status[Canonical] = seen.status

ReplayInv ==
  /\ EvidenceInv
  /\ \A outcome \in receipt \cup proof : Right(outcome)
  /\ \A request \in awaiting : terminal(request.seen.status) /\ SeenRight(request.seen)
  /\ ReadyIsSlash

LEMMA ReplayStart == ReplayInit => ReplayInv
BY EvidenceStart DEF ReplayInit, ReplayInv, ReadyIsSlash

LEMMA NowIsRight ==
  ASSUME ReplayInv
  PROVE  /\ SeenRight(Seen)
         /\ terminal(Status) => Right(Outcome(Status))
         /\ terminal(Status) => \A outcome \in KeptProof : Right(outcome)
<1>1. terminal(Status) => status[Canonical] = Status
  BY SettledRow, ReplayAssumption DEF ReplayInv, EvidenceInv, ServiceInv, Status
<1>2. SeenRight(Seen)
  BY <1>1 DEF SeenRight, Seen
<1>3. terminal(Status) => Right(Outcome(Status))
  BY <1>1 DEF Right, Outcome, terminal
<1> QED  BY <1>2, <1>3 DEF KeptProof, ReplayInv

\* What a request concludes from what it has seen and what was issued.
LEMMA Concluded ==
  ASSUME ReplayInv, UNCHANGED evidenceVars, NEW ask, NEW seen, NEW issued,
         SeenRight(seen), \A outcome \in issued : Right(outcome),
         Concludes(ask, seen, issued)
  PROVE  (\A outcome \in proof' : Right(outcome)) /\ ReadyIsSlash'
<1>1. UNCHANGED status
  BY DEF evidenceVars, challengeVars, vars, projectionVars, outerVars, chainVars
<1>2. CASE UNCHANGED <<proof, answers>>
  BY <1>1, <1>2 DEF ReplayInv, ReadyIsSlash
<1>3. ASSUME Ready(seen, issued)
      PROVE  status[Canonical] = "ResolvedSlash" /\ issued = {"SLASHED"}
  BY <1>3 DEF Ready, SeenRight, Right, terminal
<1>4. CASE /\ Ready(seen, issued)
           /\ answers' = answers \cup issued
           /\ UNCHANGED proof
  BY <1>1, <1>3, <1>4 DEF ReplayInv, ReadyIsSlash
<1>5. CASE /\ Ready(seen, issued) /\ terminal(Status)
           /\ proof' = KeptProof
           /\ answers' = answers \cup issued \cup proof'
  <2>1. \A outcome \in proof' : Right(outcome) /\ outcome = "SLASHED"
    BY <1>3, <1>5, NowIsRight DEF Right
  <2> QED  BY <1>1, <1>3, <1>5, <2>1 DEF ReplayInv, ReadyIsSlash
<1> QED  BY <1>2, <1>4, <1>5 DEF Concludes, terminal

LEMMA VisitorsKeep ==
  ASSUME ReplayInv, Visitors, UNCHANGED evidenceVars
  PROVE  ReplayInv'
<1>1. EvidenceInv' /\ UNCHANGED status
  BY EvidenceKeeps
     DEF ReplayInv, evidenceVars, challengeVars, vars, projectionVars, outerVars, chainVars
<1>2. ASSUME NEW ask, AsksKept(ask)
      PROVE  ReplayInv'
  <2>1. (\A outcome \in proof' : Right(outcome)) /\ ReadyIsSlash'
    BY <1>2, NowIsRight, Concluded DEF AsksKept, ReplayInv
  <2> QED  BY <1>1, <1>2, <2>1 DEF AsksKept, ReplayInv, Right, SeenRight
<1>3. ASSUME NEW ask, AwaitsReceipt(ask)
      PROVE  ReplayInv'
  <2> DEFINE new == [ask |-> ask, seen |-> Seen]
  <2>1. terminal(new.seen.status) /\ SeenRight(new.seen)
    BY <1>3, NowIsRight DEF AwaitsReceipt, Seen
  <2>2. awaiting' = awaiting \cup {new} /\ UNCHANGED <<receipt, proof, answers>>
    BY <1>3 DEF AwaitsReceipt
  <2> HIDE DEF new
  <2> QED  BY <1>1, <2>1, <2>2 DEF ReplayInv, Right, SeenRight, ReadyIsSlash
<1>4. ASSUME NEW request \in awaiting, Signed(request)
      PROVE  ReplayInv'
  <2>1. SeenRight(request.seen) /\ Right(Outcome(request.seen.status))
    BY DEF ReplayInv, SeenRight, Right, Outcome, terminal
  <2>2. receipt' = {Outcome(request.seen.status)} /\ awaiting' \subseteq awaiting
        /\ Concludes(request.ask, request.seen, receipt')
    BY <1>4 DEF Signed
  <2>3. (\A outcome \in proof' : Right(outcome)) /\ ReadyIsSlash'
    BY <2>1, <2>2, Concluded
  <2> QED  BY <1>1, <2>1, <2>2, <2>3 DEF ReplayInv, Right, SeenRight
<1>5. ASSUME NEW request \in awaiting, NotSigned(request)
      PROVE  ReplayInv'
  BY <1>1, <1>5 DEF NotSigned, ReplayInv, Right, SeenRight, ReadyIsSlash
<1>6. CASE ProofAsked
  <2>1. \A outcome \in proof' : Right(outcome)
    BY <1>6, NowIsRight DEF ProofAsked
  <2> QED  BY <1>1, <1>6, <2>1 DEF ProofAsked, ReplayInv, Right, SeenRight, ReadyIsSlash
<1> QED  BY <1>2, <1>3, <1>4, <1>5, <1>6 DEF Visitors

LEMMA ReplayKeeps ==
  ASSUME ReplayInv, [ReplayNext]_<<evidenceVars, replayVars>>
  PROVE  ReplayInv'
<1>1. CASE Visitors /\ UNCHANGED evidenceVars
  BY <1>1, VisitorsKeep
<1>2. CASE [EvidenceNext]_evidenceVars /\ UNCHANGED replayVars
  <2>1. EvidenceInv' /\ Leads(status[Canonical], status'[Canonical])
    BY <1>2, EvidenceKeeps, ReplayAssumption DEF ReplayInv, Onward
  <2>2. terminal(status[Canonical]) => status'[Canonical] = status[Canonical]
    BY <2>1 DEF Leads, terminal
  <2> QED  BY <1>2, <2>1, <2>2
           DEF ReplayInv, replayVars, Right, SeenRight, ReadyIsSlash, terminal
<1> QED  BY <1>1, <1>2 DEF ReplayNext

(***************************************************************************)
(* What evidence/replay.ts has ever shown as ready is a slash on chain,    *)
(* and so say its receipt and its proof, which were built from the row at  *)
(* other moments.                                                          *)
(***************************************************************************)
THEOREM ReadyAreSlashes == ReplaySpec => []ReadyIsSlash
<1>1. ReplayInv => ReadyIsSlash
  BY DEF ReplayInv
<1> QED  BY <1>1, ReplayStart, ReplayKeeps, PTL DEF ReplaySpec


-----------------------------------------------------------------------------
(***************************************************************************)
(* A visitor's page.  First the service's steps that only it and an        *)
(* operator bring about.                                                   *)
(***************************************************************************)
LEMMA StartArmKeeps ==
  ASSUME ServiceInv, NEW kind \in {"arm", "watchdog"}, StartArm(kind)
  PROVE  ServiceInv' /\ Onward
<1>1. ProjectionInv' /\ Onward
  BY NextKeeps DEF ServiceInv, StartArm
<1>2. Job(kind, {}, "arming") \in JobRow
  BY DEF Job, JobRow
<1>3. jobs' \in Seq(JobRow)
  BY <1>2, AppendProperties DEF StartArm, Adds, ServiceInv, ApiTypes
<1> QED  BY <1>1, <1>3 DEF StartArm, ServiceInv, ApiTypes, walletVars

LEMMA ArmEndsKeeps ==
  ASSUME ServiceInv, NEW j \in 1..Len(jobs), ArmEnds(j)
  PROVE  ServiceInv' /\ Onward
<1>1. jobs \in Seq(JobRow) /\ jobs[j] \in JobRow /\ failures \in 0..MaxFailures
  BY ElementOfSeq DEF ServiceInv, ApiTypes, ProjectionInv, TableTypes
<1>2. ASSUME NEW a \in Actions, ArmReturns(a), UNCHANGED failures,
             jobs' = IF status[a] = "Executed"
                     THEN [jobs EXCEPT ![j].action = {a}, ![j].status = "action_ready"]
                     ELSE JobUpdated(j, "failed")
      PROVE  ProjectionInv' /\ Onward /\ jobs' \in Seq(JobRow)
  <2> DEFINE new == [jobs[j] EXCEPT !.action = {a}, !.status = "action_ready"]
  <2>1. ProjectionInv' /\ Onward
    BY <1>1, <1>2, ArmReturnsKeeps DEF ServiceInv, ArmEnds
  <2>2. new \in JobRow
    BY <1>1 DEF JobRow
  <2>3. [jobs EXCEPT ![j].action = {a}, ![j].status = "action_ready"]
        = [jobs EXCEPT ![j] = new]
    BY <1>1
  <2> HIDE DEF new
  <2>4. jobs' \in Seq(JobRow)
    BY <1>1, <1>2, <2>2, <2>3, SeqUpdated, JobUpdates
  <2> QED  BY <2>1, <2>4
<1>3. ASSUME Failure, jobs' = JobUpdated(j, "failed"), UNCHANGED arm
      PROVE  ProjectionInv' /\ Onward /\ jobs' \in Seq(JobRow)
  <2>1. ProjectionInv' /\ Onward
    BY <1>3, Failed, RunnersStay, StillKeeps DEF ServiceInv, ArmEnds, watchVars
  <2>2. jobs' \in Seq(JobRow)
    BY <1>1, <1>3, JobUpdates
  <2> QED  BY <2>1, <2>2
<1> QED  BY <1>2, <1>3 DEF ArmEnds, ServiceInv, ApiTypes, walletVars

LEMMA FetchFailsKeeps ==
  ASSUME ServiceInv, FetchFails
  PROVE  ServiceInv' /\ Onward
<1>1. ProjectionInv' /\ Onward
  BY Failed, RunnersStay, StillKeeps DEF ServiceInv, FetchFails, watchVars, outerVars
<1> QED  BY <1>1, ApiStays DEF FetchFails

LEMMA AsksTypes ==
  ASSUME ServiceInv, NEW answer \in Answers, Asks(answer)
  PROVE  /\ requests' \in Seq(Answers) /\ Len(requests') = Len(requests) + 1
         /\ Len(requests) \in Nat /\ requests'[Len(requests) + 1] = answer
         /\ \A r \in 1..Len(requests) : requests'[r] = requests[r]
BY AppendProperties, LenProperties DEF Asks, ServiceInv, ApiTypes

LEMMA CallTypes ==
  ASSUME NEW a \in Actions, NEW r \in Nat, NEW who \in {"wallet", "operator"}
  PROVE  /\ Call("resolve", a, <<who, r>>) \in Queued
         /\ Call("resolve", a, <<who, r>>).action = a
         /\ Call("resolve", a, <<who, r>>).caller = <<who, r>>
<1>1. <<who, r>> \in {"job", "wallet", "operator"} \X Nat
  OBVIOUS
<1> QED  BY <1>1 DEF Call, Queued

LEMMA OperatorKeeps ==
  ASSUME ServiceInv, NEW a \in Actions, OperatorResolves(a)
  PROVE  ServiceInv' /\ Onward
<1>1. ProjectionInv' /\ Onward
  BY NextKeeps DEF ServiceInv, OperatorResolves
<1>2. requests' \in Seq(Answers) /\ Len(requests') \in Nat
  BY AsksTypes DEF OperatorResolves, Answers
<1>3. Call("resolve", a, ForOperator(Len(requests'))) \in Queued
  BY <1>2, CallTypes DEF ForOperator
<1>4. signer' \in Seq(Queued) /\ signer' # <<>>
  BY <1>3, CallAdded DEF OperatorResolves, ServiceInv, ApiTypes
<1> QED  BY <1>1, <1>2, <1>4 DEF OperatorResolves, ServiceInv, ApiTypes

LEMMA WalletSubmitsKeeps ==
  ASSUME ServiceInv, NEW a \in Actions, WalletSubmits(a), UNCHANGED failures \/ Failure
  PROVE  ServiceInv' /\ Onward
<1>1. failures' \in 0..MaxFailures
  BY Failed DEF ServiceInv, ProjectionInv, TableTypes
<1>2. ProjectionInv' /\ Onward
  BY <1>1, RunnersStay, StillKeeps DEF ServiceInv, WalletSubmits, watchVars, outerVars
<1>3. [action |-> a, status |-> "pending"] \in Deploys
  BY DEF Deploys
<1>4. deploys' \in Seq(Deploys)
  BY <1>3, AppendProperties DEF WalletSubmits, ServiceInv, ApiTypes
<1> QED  BY <1>2, <1>4 DEF WalletSubmits, ServiceInv, ApiTypes, jobVars

LEMMA DeployKeeps ==
  ASSUME ServiceInv, NEW n \in 1..Len(deploys), DeployExecutes(n)
  PROVE  /\ ServiceInv' /\ Onward
         /\ Len(deploys') = Len(deploys)
         /\ \A m \in 1..Len(deploys) : /\ deploys'[m].action = deploys[m].action
                                       /\ m # n => deploys'[m] = deploys[m]
<1>1. deploys \in Seq(Deploys) /\ deploys[n] \in Deploys
  BY ElementOfSeq DEF ServiceInv, ApiTypes
<1> DEFINE a == deploys[n].action
<1>2. a \in Actions
  BY <1>1 DEF Deploys
<1>3. failures' \in 0..MaxFailures
  BY DEF DeployExecutes, ServiceInv, ProjectionInv, TableTypes
<1>4. ProjectionInv' /\ Onward
  <2>1. CASE Becomes(a, "Executed", "Challenged")
    BY <1>2, <1>3, <2>1, StatusList, RunnersStay, MovedKeeps
       DEF DeployExecutes, ServiceInv, watchVars, Leads
  <2>2. CASE UNCHANGED outerVars
    BY <1>3, <2>2, RunnersStay, StillKeeps DEF DeployExecutes, ServiceInv, watchVars, outerVars
  <2> QED  BY <2>1, <2>2 DEF DeployExecutes
<1>5. PICK st \in {"success", "failed"} : deploys' = [deploys EXCEPT ![n].status = st]
  BY DEF DeployExecutes
<1> DEFINE new == [deploys[n] EXCEPT !.status = st]
<1>6. new \in Deploys /\ new.action = deploys[n].action
  BY <1>1 DEF Deploys
<1>7. deploys' = [deploys EXCEPT ![n] = new]
  BY <1>1, <1>5
<1> HIDE DEF new
<1>8. /\ deploys' \in Seq(Deploys) /\ Len(deploys') = Len(deploys)
      /\ \A m \in 1..Len(deploys) : deploys'[m] = IF m = n THEN new ELSE deploys[m]
  BY <1>1, <1>6, <1>7, SeqUpdated
<1> QED  BY <1>4, <1>6, <1>8 DEF DeployExecutes, ServiceInv, ApiTypes, jobVars


\* What is not answered yet, or never.
LEMMA WalletAsks ==
  ASSUME ServiceInv, NEW n \in 1..Len(deploys), WalletResolve(n)
  PROVE  /\ ServiceInv' /\ Onward /\ UNCHANGED <<status, deploys>>
         /\ Len(requests) \in Nat /\ Len(requests') = Len(requests) + 1
         /\ \A r \in 1..Len(requests) : requests'[r] = requests[r]
         /\ requests'[Len(requests')] = "resolved" =>
              deploys[n].status = "success" /\ status[deploys[n].action] = "ResolvedSlash"
         /\ \/ signer' = signer
            \/ /\ deploys[n].status = "success"
               /\ signer' = Append(signer,
                              Call("resolve", deploys[n].action, ForWallet(Len(requests'))))
<1> DEFINE a == deploys[n].action
<1>1. a \in Actions
  <2>1. deploys[n] \in Deploys
    BY ElementOfSeq DEF ServiceInv, ApiTypes
  <2> QED  BY <2>1 DEF Deploys
<1>2. failures' \in 0..MaxFailures
  BY Failed DEF WalletResolve, ServiceInv, ProjectionInv, TableTypes
<1>3. ProjectionInv' /\ Onward
  BY <1>2, RunnersStay, StillKeeps DEF ServiceInv, WalletResolve, watchVars, outerVars
<1>4. PICK answer \in Answers :
        /\ Asks(answer)
        /\ answer = "resolved" => ChallengeIntent(n) /\ status[a] = "ResolvedSlash"
        /\ \/ signer' = signer
           \/ /\ ChallengeIntent(n)
              /\ signer' = Append(signer, Call("resolve", a, ForWallet(Len(requests'))))
  BY DEF WalletResolve, Answers
<1>5. /\ requests' \in Seq(Answers) /\ Len(requests') = Len(requests) + 1
      /\ Len(requests) \in Nat /\ requests'[Len(requests')] = answer
      /\ \A r \in 1..Len(requests) : requests'[r] = requests[r]
  BY <1>4, AsksTypes
<1>6. Call("resolve", a, ForWallet(Len(requests'))) \in Queued
  <2>1. Len(requests') \in Nat /\ ForWallet(Len(requests')) = <<"wallet", Len(requests')>>
    BY <1>5 DEF ForWallet
  <2> HIDE DEF a
  <2> QED  BY <1>1, <2>1, CallTypes
<1>7. signer' \in Seq(Queued) /\ (signer # <<>> => signer' # <<>>)
  BY <1>4, <1>6, CallAdded DEF ServiceInv, ApiTypes
<1>8. UNCHANGED <<status, deploys, jobs, settling, stray>>
  BY DEF WalletResolve, outerVars, chainVars
<1> QED  BY <1>3, <1>4, <1>5, <1>7, <1>8 DEF ChallengeIntent, ServiceInv, ApiTypes

(***************************************************************************)
(* What a page relies on of its deploys and its requests: a deploy is of   *)
(* its action, and a request that is resolved about a deploy, or will be   *)
(* by a call that waits, has had its challenge executed.                   *)
(***************************************************************************)
DeployOf(n, a) == n \in 1..Len(deploys) /\ deploys[n].action = a

Slashed(a) == status[a] = "ResolvedSlash"

Succeeded(n) == deploys[n].status = "success"

Answerable(r, n, a) ==
  /\ r \in 1..Len(requests)
  /\ requests[r] = "resolved" => Succeeded(n) /\ Slashed(a)
  /\ \A k \in 1..Len(signer) :
       signer[k].caller[1] # "job" /\ signer[k].caller[2] = r =>
         signer[k].caller[1] = "wallet" /\ signer[k].action = a /\ Succeeded(n)

CallsAsked ==
  \A k \in 1..Len(signer) :
    signer[k].caller[1] # "job" => signer[k].caller[2] \in 1..Len(requests)

(***************************************************************************)
(* What a step of the service must show.                                   *)
(***************************************************************************)
DeploysFollow ==
  /\ Len(deploys') >= Len(deploys)
  /\ \A n \in 1..Len(deploys) :
       /\ deploys'[n].action = deploys[n].action
       /\ Succeeded(n) => deploys'[n].status = "success"

\* A call stays, is a job's, or is that of a new request.
QueueFollows ==
  \A k \in 1..Len(signer') :
    \/ signer'[k].caller[1] = "job"
    \/ \E m \in 1..Len(signer) :
         signer'[k].caller = signer[m].caller /\ signer'[k].action = signer[m].action
    \/ signer'[k].caller[2] = Len(requests) + 1 /\ Len(requests') = Len(requests) + 1

\* A request is resolved by its call, and a wallet's with a slash.
AnswersFollow ==
  /\ Len(requests') >= Len(requests)
  /\ \A r \in 1..Len(requests) : requests'[r] = "resolved" =>
       \/ requests[r] = "resolved"
       \/ \E m \in 1..Len(signer) :
            /\ signer[m].caller[1] # "job" /\ signer[m].caller[2] = r
            /\ signer[m].caller[1] = "wallet" => status'[signer[m].action] = "ResolvedSlash"

Follows == DeploysFollow /\ QueueFollows /\ AnswersFollow

LEMMA PageStable ==
  ASSUME ServiceInv, ServiceInv', Onward, CallsAsked, Follows
  PROVE  /\ CallsAsked'
         /\ \A a \in Actions : Slashed(a) => status'[a] = "ResolvedSlash"
         /\ \A n, a : DeployOf(n, a) => n \in 1..Len(deploys') /\ deploys'[n].action = a
         /\ \A n, a : DeployOf(n, a) /\ Succeeded(n) => deploys'[n].status = "success"
         /\ \A r, n : \A a \in Actions :
              DeployOf(n, a) /\ Answerable(r, n, a) => Answerable(r, n, a)'
<1> USE DEF Follows
<1>1. /\ Len(deploys) \in Nat /\ Len(deploys') \in Nat
      /\ Len(requests) \in Nat /\ Len(requests') \in Nat
      /\ Len(requests') >= Len(requests)
  BY LenProperties DEF ServiceInv, ApiTypes, AnswersFollow
<1>2. CallsAsked'
  <2> SUFFICES ASSUME NEW k \in 1..Len(signer'), signer'[k].caller[1] # "job"
               PROVE  signer'[k].caller[2] \in 1..Len(requests')
    BY DEF CallsAsked
  <2>1. CASE \E m \in 1..Len(signer) : signer'[k].caller = signer[m].caller
    <3>1. signer'[k].caller[2] \in 1..Len(requests)
      BY <2>1 DEF CallsAsked
    <3> QED  BY <1>1, <3>1
  <2>2. CASE signer'[k].caller[2] = Len(requests) + 1 /\ Len(requests') = Len(requests) + 1
    BY <1>1, <2>2
  <2> QED  BY <2>1, <2>2 DEF QueueFollows
<1>3. \A a \in Actions : Slashed(a) => status'[a] = "ResolvedSlash"
  BY DEF Slashed, Onward, Leads
<1>4. \A n, a : DeployOf(n, a) => /\ n \in 1..Len(deploys') /\ deploys'[n].action = a
                                  /\ Succeeded(n) => deploys'[n].status = "success"
  BY <1>1 DEF DeployOf, DeploysFollow
<1>5. ASSUME NEW r, NEW n, NEW a \in Actions, DeployOf(n, a), Answerable(r, n, a)
      PROVE  Answerable(r, n, a)'
  <2>1. r \in 1..Len(requests) /\ r \in 1..Len(requests')
    BY <1>1, <1>5 DEF Answerable
  <2>2. ASSUME requests'[r] = "resolved"
        PROVE  deploys'[n].status = "success" /\ status'[a] = "ResolvedSlash"
    <3>1. CASE requests[r] = "resolved"
      BY <1>3, <1>4, <1>5, <3>1 DEF Answerable
    <3>2. CASE requests[r] # "resolved"
      <4>1. PICK m \in 1..Len(signer) :
              /\ signer[m].caller[1] # "job" /\ signer[m].caller[2] = r
              /\ signer[m].caller[1] = "wallet" => status'[signer[m].action] = "ResolvedSlash"
        BY <2>1, <2>2, <3>2 DEF AnswersFollow
      <4>2. signer[m].caller[1] = "wallet" /\ signer[m].action = a /\ Succeeded(n)
        BY <1>5, <4>1 DEF Answerable
      <4> QED  BY <1>4, <1>5, <4>1, <4>2
    <3> QED  BY <3>1, <3>2
  <2>3. ASSUME NEW k \in 1..Len(signer'), signer'[k].caller[1] # "job",
               signer'[k].caller[2] = r
        PROVE  /\ signer'[k].caller[1] = "wallet" /\ signer'[k].action = a
               /\ deploys'[n].status = "success"
    <3> DEFINE new == Len(requests) + 1
    <3>0. signer'[k].caller[2] # new
      BY <1>1, <2>1, <2>3
    <3> HIDE DEF new
    <3>1. PICK m \in 1..Len(signer) :
            signer'[k].caller = signer[m].caller /\ signer'[k].action = signer[m].action
      BY <2>3, <3>0 DEF QueueFollows, new
    <3>2. signer[m].caller[1] = "wallet" /\ signer[m].action = a /\ Succeeded(n)
      BY <1>5, <2>3, <3>1 DEF Answerable
    <3> QED  BY <1>4, <1>5, <3>1, <3>2
  <2> QED  BY <2>1, <2>2, <2>3 DEF Answerable, Succeeded, Slashed
<1> QED  BY <1>2, <1>3, <1>4, <1>5


LEMMA DeploysStay ==
  ASSUME ServiceInv
  PROVE  /\ UNCHANGED deploys => DeploysFollow
         /\ UNCHANGED requests => AnswersFollow
         /\ UNCHANGED signer => QueueFollows
<1>1. Len(deploys) \in Nat /\ Len(requests) \in Nat
  BY LenProperties DEF ServiceInv, ApiTypes
<1> QED  BY <1>1 DEF DeploysFollow, AnswersFollow, QueueFollows, Succeeded

\* A call is put at the end of a queue that is what it was, or its tail.
LEMMA QueueGrows ==
  ASSUME ServiceInv, NEW call \in Queued, signer' = Append(signer, call),
         call.caller[1] = "job" \/ (/\ call.caller[2] = Len(requests) + 1
                                    /\ Len(requests') = Len(requests) + 1)
  PROVE  QueueFollows
<1>1. /\ Len(signer) \in Nat /\ Len(signer') = Len(signer) + 1
      /\ \A k \in 1..Len(signer) + 1 :
           signer'[k] = IF k = Len(signer) + 1 THEN call ELSE signer[k]
  BY CallAdded, LenProperties DEF ServiceInv, ApiTypes
<1> QED  BY <1>1 DEF QueueFollows

LEMMA TailFollows ==
  ASSUME ServiceInv, signer # <<>>,
         \/ signer' = Tail(signer)
         \/ \E entrypoint \in {"challenge", "resolve"} :
              signer' = Append(Tail(signer), Call(entrypoint, Head(signer).action, Caller))
  PROVE  QueueFollows
<1> DEFINE tail == Tail(signer)
           head == Head(signer)
<1>1. /\ Len(signer) \in Nat /\ tail \in Seq(Queued)
      /\ Len(tail) = Len(signer) - 1
      /\ \A k \in 1..Len(signer) - 1 : tail[k] = signer[k + 1]
      /\ head \in Queued /\ head = signer[1] /\ Len(signer) > 0
  BY QueueHead, LenProperties DEF ServiceInv, ApiTypes
<1>2. CASE signer' = Tail(signer)
  <2>1. signer' = tail
    BY <1>2
  <2> HIDE DEF tail, head
  <2>2. \A k \in 1..Len(signer') : k + 1 \in 1..Len(signer) /\ signer'[k] = signer[k + 1]
    BY <1>1, <2>1
  <2> QED  BY <2>2 DEF QueueFollows
<1>3. ASSUME NEW entrypoint \in {"challenge", "resolve"},
             signer' = Append(Tail(signer), Call(entrypoint, Head(signer).action, Caller))
      PROVE  QueueFollows
  <2> DEFINE call == Call(entrypoint, head.action, head.caller)
  <2>1. call \in Queued /\ call.caller = head.caller /\ call.action = head.action
    BY <1>1 DEF Call, Queued
  <2>2. signer' = Append(tail, call)
    BY <1>3 DEF Caller
  <2> HIDE DEF tail, head, call
  <2>3. Len(tail) + 1 = Len(signer)
    BY <1>1
  <2>4. /\ Len(signer') = Len(signer)
        /\ \A k \in 1..Len(signer) : signer'[k] = IF k = Len(signer) THEN call ELSE tail[k]
    BY <1>1, <2>1, <2>2, <2>3, CallAdded
  <2> SUFFICES ASSUME NEW k \in 1..Len(signer')
               PROVE  \E m \in 1..Len(signer) :
                        /\ signer'[k].caller = signer[m].caller
                        /\ signer'[k].action = signer[m].action
    BY DEF QueueFollows
  <2>5. CASE k = Len(signer)
    BY <1>1, <2>1, <2>4, <2>5
  <2>6. CASE k # Len(signer)
    <3>1. k + 1 \in 1..Len(signer) /\ signer'[k] = signer[k + 1]
      BY <1>1, <2>4, <2>6
    <3> QED  BY <3>1
  <2> QED  BY <2>5, <2>6
<1> QED  BY <1>2, <1>3

\* The head's caller is answered; a wallet with success only for a slash.
LEMMA AnswerFits ==
  ASSUME ServiceInv, signer # <<>>, NEW outcome \in {"failed", "resolved"},
         Answer(outcome), UNCHANGED deploys,
         outcome = "resolved" /\ Caller[1] = "wallet"
           => status'[Head(signer).action] = "ResolvedSlash"
  PROVE  Follows
<1>1. signer' = Tail(signer) /\ Len(requests') = Len(requests)
  BY Answered DEF ServiceInv
<1>2. QueueFollows /\ DeploysFollow
  BY <1>1, TailFollows, DeploysStay
<1>3. Head(signer) = signer[1] /\ 1 \in 1..Len(signer) /\ Len(requests) \in Nat
  BY QueueHead, LenProperties DEF ServiceInv, ApiTypes
<1>4. ASSUME NEW r \in 1..Len(requests), requests'[r] = "resolved",
             requests[r] # "resolved"
      PROVE  outcome = "resolved" /\ Caller[1] # "job" /\ Caller[2] = r
  <2>1. requests' = requests
        \/ (Caller[1] # "job" /\ requests' = [requests EXCEPT ![Caller[2]] = outcome])
    BY DEF Answer
  <2>2. requests \in Seq(Answers) /\ outcome \in Answers
    BY DEF ServiceInv, ApiTypes, Answers
  <2> QED  BY <1>4, <2>1, <2>2, SeqUpdated
<1>5. AnswersFollow
  BY <1>1, <1>3, <1>4 DEF AnswersFollow, Caller
<1> QED  BY <1>2, <1>5 DEF Follows


LEMMA SignerFollows ==
  ASSUME ServiceInv, SignerStep
  PROVE  Follows
<1>1. ASSUME NEW a \in Actions, ChallengeLands(a)
      PROVE  Follows
  <2>1. signer # <<>> /\ Head(signer).action = a /\ UNCHANGED deploys
    BY <1>1 DEF ChallengeLands, Runs
  <2>2. CASE Answer("failed")
    BY <2>1, <2>2, AnswerFits
  <2>3. CASE /\ signer' = Append(Tail(signer), Call("resolve", a, Caller))
             /\ UNCHANGED requests
    BY <2>1, <2>3, TailFollows, DeploysStay DEF Follows
  <2> QED  BY <1>1, <2>2, <2>3 DEF ChallengeLands
<1>2. ASSUME NEW a \in Actions, ResolveLands(a)
      PROVE  Follows
  <2>1. signer # <<>> /\ UNCHANGED deploys
    BY <1>2 DEF ResolveLands, Runs
  <2>2. CASE Answer("failed")
    BY <2>1, <2>2, AnswerFits
  <2>3. CASE UNCHANGED <<signer, requests>>
    BY <2>1, <2>3, DeploysStay DEF Follows
  <2> QED  BY <1>2, <2>2, <2>3 DEF ResolveLands
<1>3. ASSUME NEW a \in Actions, NEW entrypoint, CallThrows(entrypoint, a)
      PROVE  Follows
  <2>1. signer # <<>> /\ UNCHANGED deploys /\ Answer("failed")
    BY <1>3 DEF CallThrows, Runs
  <2> QED  BY <2>1, AnswerFits
<1>4. CASE ResolveEnds
  <2>1. signer # <<>> /\ UNCHANGED <<deploys, status>>
    BY <1>4 DEF ResolveEnds, ServiceInv, ApiTypes, outerVars, chainVars
  <2>2. Head(signer) \in Queued
    BY <2>1, QueueHead DEF ServiceInv, ApiTypes
  <2>3. PICK outcome \in {"failed", "resolved"} :
          /\ Answer(outcome)
          /\ outcome = "resolved" /\ Caller[1] = "wallet" => Confirmed(Head(signer).action)
    BY <1>4 DEF ResolveEnds
  <2>4. \A a \in Actions : Confirmed(a) => status[a] = "ResolvedSlash"
    BY SettledRow DEF Confirmed, terminal, ServiceInv
  <2> QED  BY <2>1, <2>2, <2>3, <2>4, AnswerFits DEF Queued
<1>5. CASE UNCHANGED apiVars
  BY <1>5, DeploysStay DEF Follows, apiVars, jobVars, walletVars
<1> QED  BY <1>1, <1>2, <1>3, <1>4, <1>5 DEF SignerStep

LEMMA StartFits ==
  ASSUME ServiceInv, NEW a \in Actions, StartChallenge(a)
  PROVE  Follows
<1> DEFINE n == Len(jobs) + 1
           call == Call("challenge", a, ForJob(n))
<1>1. n \in Nat
  BY LenProperties DEF ServiceInv, ApiTypes
<1>2. call \in Queued /\ call.caller[1] = "job"
  <2>1. ForJob(n) \in {"job", "wallet", "operator"} \X Nat /\ ForJob(n)[1] = "job"
    BY <1>1 DEF ForJob
  <2> QED  BY <2>1 DEF Call, Queued
<1>3. signer' = Append(signer, call) /\ UNCHANGED <<deploys, requests>>
  BY DEF StartChallenge, walletVars
<1> HIDE DEF call
<1> QED  BY <1>2, <1>3, QueueGrows, DeploysStay DEF Follows

LEMMA OutageFollows ==
  ASSUME ServiceInv, Outage
  PROVE  Follows
<1>1. CASE Restart
  <2>1. signer' = <<>> /\ UNCHANGED deploys
    BY <1>1 DEF Restart
  <2>2. Len(requests) \in Nat /\ requests' = [r \in 1..Len(requests) |->
          IF requests[r] = "asked" THEN "failed" ELSE requests[r]]
    BY <1>1, LenProperties DEF Restart, ServiceInv, ApiTypes
  <2>3. Len(requests') = Len(requests)
        /\ \A r \in 1..Len(requests) : requests'[r] = "resolved" => requests[r] = "resolved"
    <3>1. \A r \in 1..Len(requests) : requests[r] \in Answers
      BY ElementOfSeq DEF ServiceInv, ApiTypes
    <3>2. requests' \in [1..Len(requests) -> Answers]
      BY <2>2, <3>1 DEF Answers
    <3> QED  BY <2>2, <3>2
  <2>4. QueueFollows
    BY <2>1 DEF QueueFollows
  <2>5. AnswersFollow
    BY <2>2, <2>3 DEF AnswersFollow
  <2> QED  BY <2>1, <2>4, <2>5, DeploysStay DEF Follows
<1>2. CASE BootStep \/ \E call \in stray : StrayLands(call)
  BY <1>2, DeploysStay DEF BootStep, StrayLands, Follows, apiVars, jobVars, walletVars
<1> QED  BY <1>1, <1>2 DEF Outage

LEMMA OperatorFits ==
  ASSUME ServiceInv, NEW a \in Actions, OperatorResolves(a)
  PROVE  Follows
<1>1. /\ Len(requests') = Len(requests) + 1 /\ Len(requests) \in Nat
      /\ \A r \in 1..Len(requests) : requests'[r] = requests[r]
  BY AsksTypes DEF OperatorResolves, Answers
<1> DEFINE n == Len(requests')
           call == Call("resolve", a, <<"operator", n>>)
<1>2. call \in Queued /\ call.caller = <<"operator", n>>
  <2>1. n \in Nat
    BY <1>1
  <2> HIDE DEF n
  <2> QED  BY <2>1, CallTypes
<1>3. signer' = Append(signer, call)
  BY DEF OperatorResolves, ForOperator
<1> HIDE DEF call
<1>4. QueueFollows
  BY <1>1, <1>2, <1>3, QueueGrows
<1>5. AnswersFollow
  BY <1>1 DEF AnswersFollow
<1> QED  BY <1>4, <1>5, DeploysStay DEF OperatorResolves, Follows

LEMMA ServiceFollows ==
  ASSUME ServiceInv, ServiceStep
  PROVE  ServiceInv' /\ Onward /\ Follows
<1>1. CASE ChallengesNext
  <2>1. ASSUME NEW j, ReadJob(j)
        PROVE  Follows
    BY <2>1, DeploysStay DEF ReadJob, Follows, walletVars
  <2>2. ASSUME UNCHANGED apiVars
        PROVE  Follows
    BY <2>2, DeploysStay DEF Follows, apiVars, jobVars, walletVars
  <2> QED  BY <1>1, <2>1, <2>2, ChallengesKeep, StartFits, SignerFollows
           DEF ChallengesNext, Requested
<1>2. CASE Outage
  BY <1>2, OutageKeeps, OutageFollows
<1>3. ASSUME NEW a \in Actions, OperatorResolves(a)
      PROVE  ServiceInv' /\ Onward /\ Follows
  BY <1>3, OperatorKeeps, OperatorFits
<1>4. ASSUME NEW j \in 1..Len(jobs), ArmEnds(j)
      PROVE  ServiceInv' /\ Onward /\ Follows
  BY <1>4, ArmEndsKeeps, DeploysStay DEF ArmEnds, Follows, walletVars
<1>5. ASSUME NEW n \in 1..Len(deploys), DeployExecutes(n)
      PROVE  ServiceInv' /\ Onward /\ Follows
  <2>1. deploys[n].status = "pending" /\ UNCHANGED <<signer, requests>>
    BY <1>5 DEF DeployExecutes, jobVars
  <2>2. DeploysFollow
    <3>1. Len(deploys) \in Nat
      BY LenProperties DEF ServiceInv, ApiTypes
    <3> QED  BY <1>5, <2>1, <3>1, DeployKeeps DEF DeploysFollow, Succeeded
  <2> QED  BY <1>5, <2>1, <2>2, DeployKeeps, DeploysStay DEF Follows
<1> QED  BY <1>1, <1>2, <1>3, <1>4, <1>5 DEF ServiceStep


(***************************************************************************)
(* The page: a card whose phase has a deploy at hand shows its action, one *)
(* that waits for an answer waits for one about it, and a slash was seen   *)
(* in the row; and a deploy kept in the browser is that of its action.     *)
(***************************************************************************)
PageFields ==
  {"open", "shown", "phase", "seen", "hash", "polling", "answer", "resumed", "asked",
   "by", "arming", "economy", "demo"}

PageTypes ==
  /\ page = [f \in PageFields |-> page[f]]
  /\ page.shown \subseteq Actions
  /\ \A a, b \in page.shown : a = b
  /\ store = [f \in {"pending", "backend", "active"} |-> store[f]]
  /\ store.pending \in [Actions -> Nat]

HashPhases == {"finalizing", "timeout", "resolving", "resolve_error", "success"}

CardHolds ==
  \A a \in page.shown :
    /\ page.phase \in HashPhases => DeployOf(page.hash, a)
    /\ page.phase = "resolving" => Answerable(page.asked, page.hash, a)
    /\ page.phase = "success" => Succeeded(page.hash) /\ Slashed(a)
    /\ page.seen = "ResolvedSlash" => Slashed(a)

KeptHolds == \A a \in Actions : store.pending[a] # 0 => DeployOf(store.pending[a], a)

ArenaInv == ServiceInv /\ CallsAsked /\ PageTypes /\ CardHolds /\ KeptHolds

\* What a step must show of the page.
CardFollows ==
  \A a \in page'.shown :
    /\ page'.phase \in HashPhases =>
         \/ DeployOf(page'.hash, a)
         \/ page'.hash \in 1..Len(deploys') /\ deploys'[page'.hash].action = a
    /\ page'.phase = "resolving" =>
         \/ DeployOf(page'.hash, a) /\ Answerable(page'.asked, page'.hash, a)
         \/ Answerable(page.asked, page.hash, a)'
    /\ page'.phase = "success" =>
         DeployOf(page'.hash, a) /\ Succeeded(page'.hash) /\ Slashed(a)
    /\ page'.seen = "ResolvedSlash" => Slashed(a)

KeptFollows ==
  \A a \in Actions : store'.pending[a] # 0 =>
    \/ DeployOf(store'.pending[a], a)
    \/ store'.pending[a] \in 1..Len(deploys') /\ deploys'[store'.pending[a]].action = a

LEMMA CardKept ==
  ASSUME ServiceInv, ServiceInv', Onward, CallsAsked, Follows, PageTypes',
         CardFollows, KeptFollows
  PROVE  ArenaInv'
<1>1. /\ CallsAsked'
      /\ \A a \in Actions : Slashed(a) => status'[a] = "ResolvedSlash"
      /\ \A n, a : DeployOf(n, a) => n \in 1..Len(deploys') /\ deploys'[n].action = a
      /\ \A n, a : DeployOf(n, a) /\ Succeeded(n) => deploys'[n].status = "success"
      /\ \A r, n : \A a \in Actions :
           DeployOf(n, a) /\ Answerable(r, n, a) => Answerable(r, n, a)'
  BY PageStable
<1>2. ASSUME NEW a \in page'.shown
      PROVE  /\ page'.phase \in HashPhases =>
                  page'.hash \in 1..Len(deploys') /\ deploys'[page'.hash].action = a
             /\ page'.phase = "resolving" => Answerable(page.asked, page.hash, a)'
             /\ page'.phase = "success" =>
                  deploys'[page'.hash].status = "success" /\ status'[a] = "ResolvedSlash"
             /\ page'.seen = "ResolvedSlash" => status'[a] = "ResolvedSlash"
  <2>1. a \in Actions
    BY DEF PageTypes
  <2>2. ASSUME DeployOf(page'.hash, a), Answerable(page'.asked, page'.hash, a)
        PROVE  Answerable(page.asked, page.hash, a)'
    BY <1>1, <2>1, <2>2
  <2> QED  BY <1>1, <2>1, <2>2 DEF CardFollows
<1>3. CardHolds'
  BY <1>2 DEF CardHolds, DeployOf, Succeeded, Slashed
<1>4. KeptHolds'
  BY <1>1 DEF KeptFollows, KeptHolds, DeployOf
<1> QED  BY <1>1, <1>3, <1>4 DEF ArenaInv

\* A step of the service that leaves the page alone.
LEMMA PageAlone ==
  ASSUME ArenaInv, ServiceInv', Onward, Follows, UNCHANGED pageVars
  PROVE  ArenaInv'
<1>1. PageTypes'
  BY DEF ArenaInv, PageTypes, pageVars
<1>2. CardFollows /\ KeptFollows
  BY DEF ArenaInv, CardHolds, KeptHolds, CardFollows, KeptFollows, pageVars, HashPhases
<1> QED  BY <1>1, <1>2, CardKept DEF ArenaInv

LEMMA ServiceWaiting ==
  ASSUME ServiceInv, ServiceWaits
  PROVE  ServiceInv' /\ Onward /\ Follows
BY ServiceStill, DeploysStay
   DEF ServiceWaits, Follows, challengeVars, apiVars, jobVars, walletVars

LEMMA FetchFollows ==
  ASSUME ServiceInv, FetchFails
  PROVE  ServiceInv' /\ Onward /\ Follows
BY FetchFailsKeeps, DeploysStay DEF FetchFails, Follows, apiVars, jobVars, walletVars

LEMMA JobFollows ==
  ASSUME ServiceInv
  PROVE  /\ \A j : ReadJob(j) => ServiceInv' /\ Onward /\ Follows
         /\ \A a \in Actions : StartChallenge(a) => ServiceInv' /\ Onward /\ Follows
         /\ \A kind \in {"arm", "watchdog"} :
              StartArm(kind) => ServiceInv' /\ Onward /\ Follows
<1>1. ASSUME NEW j, ReadJob(j)
      PROVE  ServiceInv' /\ Onward /\ Follows
  BY <1>1, ReadJobKeeps, DeploysStay DEF ReadJob, Follows, walletVars
<1>2. ASSUME NEW kind \in {"arm", "watchdog"}, StartArm(kind)
      PROVE  ServiceInv' /\ Onward /\ Follows
  BY <1>2, StartArmKeeps, DeploysStay DEF StartArm, Follows, walletVars
<1> QED  BY <1>1, <1>2, StartChallengeKeeps, StartFits


(***************************************************************************)
(* The browser keeps what it kept, or forgets a deploy.                    *)
(***************************************************************************)
KeptCalm ==
  /\ store' = [f \in {"pending", "backend", "active"} |-> store'[f]]
  /\ store'.pending \in [Actions -> Nat]
  /\ \A a \in Actions : store'.pending[a] \in {0, store.pending[a]}

LEMMA StoreCalm ==
  ASSUME PageTypes,
         \/ UNCHANGED store
         \/ \E a \in Actions : Forget("pending", a) \/ ForgetJob(a)
         \/ \E a, j : store' = [store EXCEPT !.backend[a] = j, !.active = j]
         \/ store' = [store EXCEPT !.active = 0]
  PROVE  KeptCalm
<1> DEFINE Keys == {"pending", "backend", "active"}
<1>1. store = [f \in Keys |-> store[f]] /\ store.pending \in [Actions -> Nat]
  BY DEF PageTypes
<1>2. CASE UNCHANGED store
  BY <1>1, <1>2 DEF KeptCalm
<1>3. ASSUME NEW a \in Actions, store' = [store EXCEPT !.pending[a] = 0]
      PROVE  KeptCalm
  BY <1>1, <1>3 DEF KeptCalm
<1>4. ASSUME NEW a, NEW j, store' = [store EXCEPT !.backend[a] = j, !.active = j]
      PROVE  KeptCalm
  BY <1>1, <1>4 DEF KeptCalm
<1>5. CASE store' = [store EXCEPT !.active = 0]
  BY <1>1, <1>5 DEF KeptCalm
<1> QED  BY <1>2, <1>3, <1>4, <1>5 DEF Forget, ForgetJob

(***************************************************************************)
(* The card goes on with the deploy at hand, or without any.               *)
(***************************************************************************)
LEMMA CardCalm ==
  ASSUME ArenaInv, ServiceInv', Onward, Follows, KeptCalm,
         page' = [f \in PageFields |-> page'[f]],
         page'.shown \subseteq page.shown,
         \A a \in page'.shown : page'.seen \in {page.seen, row[a].status},
         \/ page'.phase \notin HashPhases
         \/ /\ page'.phase = page.phase
            /\ page'.hash = page.hash /\ page'.asked = page.asked
         \/ /\ page'.phase \in {"timeout", "resolve_error"}
            /\ page.phase \in HashPhases /\ page'.hash = page.hash
  PROVE  ArenaInv'
<1>1. PageTypes'
  BY DEF ArenaInv, PageTypes, KeptCalm
<1>2. ASSUME NEW a \in page'.shown, page'.seen = "ResolvedSlash"
      PROVE  Slashed(a)
  <2>1. a \in page.shown /\ a \in Actions
    BY DEF ArenaInv, PageTypes
  <2>2. row[a].status = "ResolvedSlash" => Slashed(a)
    BY <2>1, SettledRow DEF Slashed, terminal, ArenaInv, ServiceInv
  <2> QED  BY <1>2, <2>1, <2>2 DEF ArenaInv, CardHolds
<1>3. CardFollows
  BY <1>2 DEF ArenaInv, CardHolds, CardFollows, HashPhases
<1>4. KeptFollows
  BY DEF ArenaInv, KeptHolds, KeptFollows, KeptCalm
<1> QED  BY <1>1, <1>3, <1>4, CardKept DEF ArenaInv

LEMMA PageSets ==
  ASSUME PageTypes, NEW p, page' = [page EXCEPT !.phase = p]
  PROVE  /\ page' = [f \in PageFields |-> page'[f]]
         /\ page'.phase = p
         /\ page'.shown = page.shown /\ page'.seen = page.seen
         /\ page'.hash = page.hash /\ page'.asked = page.asked
BY DEF PageTypes, PageFields

\* A card when its phase becomes idle.
LEMMA IdleCard ==
  ASSUME PageTypes, NEW c, c = [f \in PageFields |-> c[f]], NEW a
  PROVE  LET i == Idle(c, a) IN
         /\ i = [f \in PageFields |-> i[f]]
         /\ i.shown = c.shown /\ i.seen = c.seen
         /\ \/ i.phase \notin HashPhases
            \/ i.phase = "timeout" /\ store.pending[a] # 0 /\ i.hash = store.pending[a]
BY DEF Idle, PageFields, HashPhases

LEMMA MountedCard ==
  ASSUME PageTypes, NEW c, c = [f \in PageFields |-> c[f]], NEW a
  PROVE  LET m == Mounted(c, a) IN
         /\ m = [f \in PageFields |-> m[f]]
         /\ m.shown = {a} /\ m.seen = row[a].status
         /\ \/ m.phase \notin HashPhases
            \/ m.phase = "timeout" /\ store.pending[a] # 0 /\ m.hash = store.pending[a]
<1> DEFINE fresh == [c EXCEPT !.shown = {a}, !.seen = row[a].status]
<1>1. /\ fresh = [f \in PageFields |-> fresh[f]]
      /\ fresh.shown = {a} /\ fresh.seen = row[a].status
  BY DEF PageFields
<1>2. \/ Mounted(c, a) = [fresh EXCEPT !.phase = "backend_resolved"]
      \/ Mounted(c, a) = [fresh EXCEPT !.phase = "expired"]
      \/ Mounted(c, a) = Idle(fresh, a)
  BY DEF Mounted
<1> HIDE DEF fresh
<1>3. CASE Mounted(c, a) = Idle(fresh, a)
  <2> DEFINE i == Idle(fresh, a)
  <2>1. /\ i = [f \in PageFields |-> i[f]]
        /\ i.shown = fresh.shown /\ i.seen = fresh.seen
        /\ \/ i.phase \notin HashPhases
           \/ i.phase = "timeout" /\ store.pending[a] # 0 /\ i.hash = store.pending[a]
    BY <1>1, IdleCard
  <2> QED  BY <1>1, <1>3, <2>1
<1>4. CASE \E p \in {"backend_resolved", "expired"} :
             Mounted(c, a) = [fresh EXCEPT !.phase = p]
  BY <1>1, <1>4 DEF PageFields, HashPhases
<1> QED  BY <1>2, <1>3, <1>4


\* A card that is mounted, with the deploy the browser has kept for it.
LEMMA NewCard ==
  ASSUME ArenaInv, ServiceInv', Onward, Follows, KeptCalm,
         NEW c, c = [f \in PageFields |-> c[f]], NEW a \in Actions, page' = Mounted(c, a)
  PROVE  ArenaInv'
<1>1. /\ page' = [f \in PageFields |-> page'[f]]
      /\ page'.shown = {a} /\ page'.seen = row[a].status
      /\ \/ page'.phase \notin HashPhases
         \/ page'.phase = "timeout" /\ store.pending[a] # 0 /\ page'.hash = store.pending[a]
  <2> DEFINE m == Mounted(c, a)
  <2>1. /\ m = [f \in PageFields |-> m[f]]
        /\ m.shown = {a} /\ m.seen = row[a].status
        /\ \/ m.phase \notin HashPhases
           \/ m.phase = "timeout" /\ store.pending[a] # 0 /\ m.hash = store.pending[a]
    BY MountedCard DEF ArenaInv
  <2> HIDE DEF m
  <2>2. page' = m
    BY DEF m
  <2> QED  BY <2>1, <2>2
<1>2. PageTypes'
  BY <1>1 DEF PageTypes, KeptCalm
<1>3. row[a].status = "ResolvedSlash" => Slashed(a)
  BY SettledRow DEF Slashed, terminal, ArenaInv, ServiceInv
<1>4. page'.phase \in HashPhases => page'.phase = "timeout" /\ DeployOf(page'.hash, a)
  BY <1>1 DEF ArenaInv, KeptHolds
<1>5. CardFollows
  BY <1>1, <1>3, <1>4 DEF CardFollows, HashPhases
<1>6. KeptFollows
  BY DEF ArenaInv, KeptHolds, KeptFollows, KeptCalm
<1> QED  BY <1>2, <1>5, <1>6, CardKept DEF ArenaInv

\* An empty page, open or closed.
LEMMA NoCard ==
  ASSUME ArenaInv, ServiceInv', Onward, Follows, KeptCalm, page' \in {Fresh, Closed}
  PROVE  ArenaInv'
<1>1. page' = [f \in PageFields |-> page'[f]] /\ page'.shown = {}
  BY DEF Fresh, Closed, PageFields
<1>2. PageTypes' /\ CardFollows
  BY <1>1 DEF PageTypes, KeptCalm, CardFollows
<1>3. KeptFollows
  BY DEF ArenaInv, KeptHolds, KeptFollows, KeptCalm
<1> QED  BY <1>2, <1>3, CardKept DEF ArenaInv


LEMMA TryAgainKeeps ==
  ASSUME ArenaInv, NEW a \in Actions, TryAgain(a)
  PROVE  ArenaInv'
<1>1. ServiceInv' /\ Onward /\ Follows
  BY ServiceWaiting DEF TryAgain, ArenaInv
<1>2. KeptCalm
  BY StoreCalm DEF TryAgain, ArenaInv
<1>3. /\ page' = [f \in PageFields |-> page'[f]]
      /\ page'.shown = page.shown /\ page'.seen = page.seen
      /\ \/ page'.phase \notin HashPhases
         \/ page'.phase = "timeout" /\ store.pending[a] # 0 /\ page'.hash = store.pending[a]
  <2> DEFINE i == Idle(page, a)
  <2>1. /\ i = [f \in PageFields |-> i[f]]
        /\ i.shown = page.shown /\ i.seen = page.seen
        /\ \/ i.phase \notin HashPhases
           \/ i.phase = "timeout" /\ store.pending[a] # 0 /\ i.hash = store.pending[a]
    BY IdleCard DEF ArenaInv, PageTypes
  <2> HIDE DEF i
  <2>2. page' = i
    BY DEF TryAgain, i
  <2> QED  BY <2>1, <2>2
<1>4. \A b \in page.shown : b = a
  BY DEF TryAgain, OnCard, ArenaInv, PageTypes
<1>5. PageTypes'
  BY <1>2, <1>3 DEF ArenaInv, PageTypes, KeptCalm
<1>6. CardFollows
  BY <1>3, <1>4 DEF CardFollows, HashPhases, ArenaInv, CardHolds, KeptHolds
<1>7. KeptFollows
  BY <1>2 DEF ArenaInv, KeptHolds, KeptFollows, KeptCalm
<1> QED  BY <1>1, <1>5, <1>6, <1>7, CardKept DEF ArenaInv

LEMMA PollsKeep ==
  ASSUME ArenaInv, PagePolls \/ PollGivesUp
  PROVE  ArenaInv'
<1> USE DEF ArenaInv
<1>1. page = [f \in PageFields |-> page[f]]
  BY DEF PageTypes
<1>2. CASE PollJob
  <2>1. ServiceInv' /\ Onward /\ Follows
    BY <1>2, JobFollows DEF PollJob
  <2>2. KeptCalm
    BY <1>2, StoreCalm DEF PollJob, StoreWaits
  <2>3. PICK answer : page' = [page EXCEPT !.answer = answer]
    BY <1>2 DEF PollJob
  <2>4. /\ page' = [f \in PageFields |-> page'[f]]
        /\ page'.shown = page.shown /\ page'.seen = page.seen /\ page'.phase = page.phase
        /\ page'.hash = page.hash /\ page'.asked = page.asked
    BY <1>1, <2>3 DEF PageFields
  <2> QED  BY <2>1, <2>2, <2>4, CardCalm
<1>3. ASSUME NEW a \in Actions, PollAction(a)
      PROVE  ArenaInv'
  <2>1. ServiceInv' /\ Onward /\ Follows
    BY <1>3, ServiceWaiting DEF PollAction
  <2>2. KeptCalm
    BY <1>3, StoreCalm DEF PollAction
  <2>3. PICK phase \in {"error", "backend_resolved", page.phase} : \E polling :
          page' = [page EXCEPT !.seen = row[a].status, !.answer = {},
                               !.polling = polling, !.phase = phase]
    BY <1>3 DEF PollAction
  <2>4. /\ page' = [f \in PageFields |-> page'[f]]
        /\ page'.shown = page.shown /\ page'.seen = row[a].status /\ page'.phase = phase
        /\ page'.hash = page.hash /\ page'.asked = page.asked
    BY <1>1, <2>3 DEF PageFields
  <2>5. \A b \in page'.shown : b = a
    BY <1>3, <2>4 DEF PollAction, PageTypes
  <2> QED  BY <2>1, <2>2, <2>4, <2>5, CardCalm DEF HashPhases
<1>4. CASE PollGivesUp
  <2>1. ServiceInv' /\ Onward /\ Follows
    BY <1>4, ServiceWaiting DEF PollGivesUp
  <2>2. KeptCalm
    BY <1>4, StoreCalm DEF PollGivesUp, StoreWaits
  <2>3. /\ page' = [f \in PageFields |-> page'[f]]
        /\ page'.shown = page.shown /\ page'.seen = page.seen /\ page'.phase = page.phase
        /\ page'.hash = page.hash /\ page'.asked = page.asked
    BY <1>1, <1>4 DEF PageFields, PollGivesUp
  <2> QED  BY <2>1, <2>2, <2>3, CardCalm
<1> QED  BY <1>2, <1>3, <1>4 DEF PagePolls

\* A card that takes another phase, with or without the deploy at hand.
LEMMA CardTurns ==
  ASSUME ArenaInv, ServiceInv', Onward, Follows, KeptCalm,
         NEW p, page' = [page EXCEPT !.phase = p],
         p \notin HashPhases \/ (p \in {"timeout", "resolve_error"} /\ page.phase \in HashPhases)
  PROVE  ArenaInv'
BY PageSets, CardCalm DEF ArenaInv

LEMMA ChallengeButtons ==
  ASSUME ArenaInv, NEW a \in Actions, WindowCloses(a) \/ BackendChallenge(a) \/ WalletChallenge(a)
  PROVE  ArenaInv'
<1> USE DEF ArenaInv
<1>1. ServiceInv' /\ Onward /\ Follows
  BY ServiceWaiting, FetchFollows, JobFollows
     DEF WindowCloses, BackendChallenge, WalletChallenge
<1>2. KeptCalm
  BY StoreCalm DEF WindowCloses, BackendChallenge, WalletChallenge, StoreWaits
<1>3. CASE Phase("expired") \/ Phase("error")
  BY <1>1, <1>2, <1>3, CardTurns DEF Phase, HashPhases
<1>4. ASSUME NEW j, page' = [page EXCEPT !.phase = "backend_pending", !.polling = j]
      PROVE  ArenaInv'
  <2>1. /\ page' = [f \in PageFields |-> page'[f]]
        /\ page'.shown = page.shown /\ page'.seen = page.seen
        /\ page'.phase = "backend_pending"
    BY <1>4 DEF PageFields, PageTypes
  <2> QED  BY <1>1, <1>2, <2>1, CardCalm DEF HashPhases
<1>5. CASE page' = [page EXCEPT !.phase = "signing", !.hash = 0]
  <2>1. /\ page' = [f \in PageFields |-> page'[f]]
        /\ page'.shown = page.shown /\ page'.seen = page.seen
        /\ page'.phase = "signing"
    BY <1>5 DEF PageFields, PageTypes
  <2> QED  BY <1>1, <1>2, <2>1, CardCalm DEF HashPhases
<1> QED  BY <1>3, <1>4, <1>5 DEF WindowCloses, BackendChallenge, WalletChallenge


LEMMA SubmitFollows ==
  ASSUME ServiceInv, NEW a \in Actions, WalletSubmits(a), UNCHANGED failures \/ Failure
  PROVE  /\ ServiceInv' /\ Onward /\ Follows
         /\ Len(deploys') \in 1..Len(deploys') /\ deploys'[Len(deploys')].action = a
<1>1. [action |-> a, status |-> "pending"] \in Deploys
  BY DEF Deploys
<1>2. /\ Len(deploys) \in Nat /\ Len(deploys') = Len(deploys) + 1
      /\ deploys'[Len(deploys) + 1] = [action |-> a, status |-> "pending"]
      /\ \A n \in 1..Len(deploys) : deploys'[n] = deploys[n]
  BY <1>1, AppendProperties, LenProperties DEF WalletSubmits, ServiceInv, ApiTypes
<1>3. DeploysFollow
  BY <1>2 DEF DeploysFollow, Succeeded
<1> QED  BY <1>2, <1>3, WalletSubmitsKeeps, DeploysStay DEF WalletSubmits, Follows, jobVars

LEMMA WalletSignsKeeps ==
  ASSUME ArenaInv, NEW a \in Actions, WalletSigns(a)
  PROVE  ArenaInv'
<1> USE DEF ArenaInv
<1>1. ASSUME ServiceInv', Onward, Follows, UNCHANGED store,
             Phase("rejected") \/ Phase("error")
      PROVE  ArenaInv'
  <2>1. KeptCalm
    BY <1>1, StoreCalm
  <2> QED  BY <1>1, <2>1, CardTurns DEF Phase, HashPhases
<1>2. CASE /\ WalletSubmits(a) /\ UNCHANGED failures
           /\ page' = [page EXCEPT !.phase = "finalizing", !.hash = Len(deploys')]
           /\ store' = [store EXCEPT !.pending[a] = Len(deploys')]
  <2>1. /\ ServiceInv' /\ Onward /\ Follows
        /\ Len(deploys') \in 1..Len(deploys') /\ deploys'[Len(deploys')].action = a
        /\ Len(deploys') \in Nat
    BY <1>2, SubmitFollows, LenProperties DEF ServiceInv, ApiTypes
  <2>2. /\ page' = [f \in PageFields |-> page'[f]]
        /\ page'.shown = page.shown /\ page'.seen = page.seen
        /\ page'.phase = "finalizing" /\ page'.hash = Len(deploys')
    BY <1>2 DEF PageFields, PageTypes
  <2>3. /\ store' = [f \in {"pending", "backend", "active"} |-> store'[f]]
        /\ store'.pending = [store.pending EXCEPT ![a] = Len(deploys')]
    BY <1>2 DEF PageTypes
  <2>4. PageTypes'
    BY <2>1, <2>2, <2>3 DEF PageTypes
  <2>5. \A b \in page.shown : b = a
    BY DEF WalletSigns, OnCard, PageTypes
  <2>6. CardFollows
    BY <2>1, <2>2, <2>5 DEF CardFollows, CardHolds
  <2>7. KeptFollows
    BY <2>1, <2>3 DEF KeptFollows, KeptHolds, PageTypes
  <2> QED  BY <2>1, <2>4, <2>6, <2>7, CardKept
<1>3. CASE WalletSubmits(a) /\ Failure /\ Phase("error") /\ UNCHANGED store
  BY <1>1, <1>3, SubmitFollows
<1>4. CASE Phase("rejected") /\ ServiceWaits /\ UNCHANGED store
  BY <1>1, <1>4, ServiceWaiting
<1>5. CASE FetchFails /\ Phase("error") /\ UNCHANGED store
  BY <1>1, <1>5, FetchFollows
<1> QED  BY <1>2, <1>3, <1>4, <1>5 DEF WalletSigns

(***************************************************************************)
(* The browser asks for a resolve of the deploy at hand: its request is    *)
(* new, and the call it may put into the queue is that of its challenge.   *)
(***************************************************************************)
LEMMA AsksKeep ==
  ASSUME ArenaInv, NEW a \in Actions, a \in page.shown,
         page.phase \in HashPhases, NEW by, AsksResolve(by)
  PROVE  ArenaInv'
<1> USE DEF ArenaInv
<1> DEFINE n == page.hash
           call == Call("resolve", deploys[n].action, ForWallet(Len(requests')))
<1>1. DeployOf(n, a) /\ \A b \in page.shown : b = a
  BY DEF CardHolds, PageTypes
<1>2. WalletResolve(n) /\ n \in 1..Len(deploys) /\ deploys[n].action = a
  BY <1>1 DEF AsksResolve, DeployOf
<1>3. /\ ServiceInv' /\ Onward /\ UNCHANGED <<status, deploys>>
      /\ Len(requests) \in Nat /\ Len(requests') = Len(requests) + 1
      /\ \A r \in 1..Len(requests) : requests'[r] = requests[r]
      /\ requests'[Len(requests')] = "resolved" =>
           deploys[n].status = "success" /\ status[a] = "ResolvedSlash"
      /\ \/ signer' = signer
         \/ deploys[n].status = "success" /\ signer' = Append(signer, call)
  BY <1>2, WalletAsks
<1>4. call \in Queued /\ call.action = a /\ call.caller = <<"wallet", Len(requests')>>
  <2>1. Len(requests') \in Nat /\ ForWallet(Len(requests')) = <<"wallet", Len(requests')>>
    BY <1>3 DEF ForWallet
  <2>2. call = Call("resolve", a, <<"wallet", Len(requests')>>)
    BY <1>2, <2>1
  <2> HIDE DEF call
  <2> QED  BY <2>1, <2>2, CallTypes
<1> HIDE DEF call
<1>5. Follows
  <2>1. AnswersFollow
    BY <1>3 DEF AnswersFollow
  <2>2. QueueFollows
    BY <1>3, <1>4, QueueGrows, DeploysStay
  <2> QED  BY <1>3, <2>1, <2>2, DeploysStay DEF Follows
<1>6. /\ page' = [f \in PageFields |-> page'[f]]
      /\ page'.shown = page.shown /\ page'.seen = page.seen /\ page'.phase = "resolving"
      /\ page'.hash = n /\ page'.asked = Len(requests')
  BY DEF AsksResolve, PageFields, PageTypes
<1>7. ASSUME NEW k \in 1..Len(signer'), signer'[k].caller[1] # "job",
             signer'[k].caller[2] = Len(requests')
      PROVE  /\ signer'[k].caller[1] = "wallet" /\ signer'[k].action = a
             /\ deploys'[n].status = "success"
  <2>1. ~\E m \in 1..Len(signer) : signer'[k] = signer[m]
    BY <1>3, <1>7 DEF CallsAsked
  <2>2. /\ Len(signer) \in Nat
        /\ signer' = Append(signer, call) =>
             /\ Len(signer') = Len(signer) + 1
             /\ signer'[k] = IF k = Len(signer) + 1 THEN call ELSE signer[k]
    <3>1. signer \in Seq(Queued) /\ Len(signer) \in Nat
      BY LenProperties DEF ServiceInv, ApiTypes
    <3>2. /\ Len(Append(signer, call)) = Len(signer) + 1
          /\ \A m \in 1..Len(signer) + 1 :
               Append(signer, call)[m] = IF m = Len(signer) + 1 THEN call ELSE signer[m]
      BY <1>4, <3>1, CallAdded
    <3> QED  BY <1>7, <3>1, <3>2
  <2> QED  BY <1>3, <1>4, <2>1, <2>2
<1>8. Answerable(page.asked, page.hash, a)'
  BY <1>3, <1>6, <1>7 DEF Answerable, Succeeded, Slashed
<1>9. KeptCalm
  BY StoreCalm DEF AsksResolve
<1>10. PageTypes'
  BY <1>6, <1>9 DEF PageTypes, KeptCalm
<1>11. CardFollows
  <2> SUFFICES ASSUME NEW b \in page'.shown
               PROVE  /\ DeployOf(page'.hash, b)
                      /\ Answerable(page.asked, page.hash, b)'
                      /\ page'.seen = "ResolvedSlash" => Slashed(b)
    BY <1>6 DEF CardFollows
  <2>1. b = a /\ b \in page.shown
    BY <1>1, <1>6
  <2> QED  BY <1>1, <1>6, <1>8, <2>1 DEF CardHolds
<1>12. KeptFollows
  BY <1>9 DEF KeptHolds, KeptFollows, KeptCalm
<1> QED  BY <1>3, <1>5, <1>10, <1>11, <1>12, CardKept


LEMMA FinalityKeeps ==
  ASSUME ArenaInv, NEW a \in Actions, NEW by, Finality(a, by), a \in page.shown,
         page.phase \in HashPhases
  PROVE  ArenaInv'
<1>1. CASE AsksResolve(by)
  BY <1>1, AsksKeep
<1>2. CASE (Phase("error") \/ Phase("timeout")) /\ ServiceWaits
           /\ (Forget("pending", a) \/ UNCHANGED store)
  <2>1. ServiceInv' /\ Onward /\ Follows
    BY <1>2, ServiceWaiting DEF ArenaInv
  <2>2. KeptCalm
    BY <1>2, StoreCalm DEF ArenaInv
  <2> QED  BY <1>2, <2>1, <2>2, CardTurns DEF Phase, HashPhases
<1> QED  BY <1>1, <1>2 DEF Finality

LEMMA WalletAnsweredKeeps ==
  ASSUME ArenaInv, NEW a \in Actions, WalletAnswered(a)
  PROVE  ArenaInv'
<1> USE DEF ArenaInv
<1>1. ServiceInv' /\ Onward /\ Follows
  BY ServiceWaiting DEF WalletAnswered
<1>2. KeptCalm
  BY StoreCalm DEF WalletAnswered
<1>3. page.phase = "resolving" /\ a \in page.shown /\ \A b \in page.shown : b = a
  BY DEF WalletAnswered, OnCard, PageTypes
<1>4. CASE requests[page.asked] = "resolved"
  <2>1. DeployOf(page.hash, a) /\ Succeeded(page.hash) /\ Slashed(a)
    BY <1>3, <1>4 DEF CardHolds, Answerable, HashPhases
  <2>2. /\ page' = [f \in PageFields |-> page'[f]]
        /\ page'.shown = page.shown /\ page'.seen = page.seen /\ page'.phase = "success"
        /\ page'.hash = page.hash
    BY <1>4, PageSets DEF WalletAnswered, Phase
  <2>3. PageTypes'
    BY <1>2, <2>2 DEF PageTypes, KeptCalm
  <2>4. CardFollows
    BY <1>3, <2>1, <2>2 DEF CardFollows
  <2>5. KeptFollows
    BY <1>2 DEF KeptHolds, KeptFollows, KeptCalm
  <2> QED  BY <1>1, <2>3, <2>4, <2>5, CardKept
<1>5. CASE requests[page.asked] # "resolved"
  <2>1. PICK p \in {"timeout", "error", "resolve_error"} : page' = [page EXCEPT !.phase = p]
    BY <1>5 DEF WalletAnswered, Phase, Unresolved
  <2>2. p \notin HashPhases \/ (p \in {"timeout", "resolve_error"} /\ page.phase \in HashPhases)
    BY <1>3 DEF HashPhases
  <2> QED  BY <1>1, <1>2, <2>1, <2>2, CardTurns
<1> QED  BY <1>4, <1>5


(***************************************************************************)
(* The jobs the page goes by are jobs of the table, which only grows; and  *)
(* where several jobs are live there is a latest one.                      *)
(***************************************************************************)
HasLatest == \A S \in SUBSET (1..Len(jobs)) : S # {} => \E j \in S : \A k \in S : k <= j

JobsInv ==
  /\ store.active \in 0..Len(jobs)
  /\ page.arming \in 0..Len(jobs)
  /\ HasLatest

JobsGrow == DOMAIN jobs' = DOMAIN jobs \/ \E new : jobs' = Append(jobs, new)

LEMMA LatestGrows ==
  ASSUME NEW n \in Nat,
         \A S \in SUBSET (1..n) : S # {} => \E j \in S : \A k \in S : k <= j
  PROVE  \A S \in SUBSET (1..n + 1) : S # {} => \E j \in S : \A k \in S : k <= j
<1> SUFFICES ASSUME NEW S \in SUBSET (1..n + 1), S # {}
             PROVE  \E j \in S : \A k \in S : k <= j
  OBVIOUS
<1>1. CASE n + 1 \in S
  BY <1>1
<1>2. CASE n + 1 \notin S
  <2>1. S \in SUBSET (1..n)
    BY <1>2
  <2> QED  BY <2>1
<1> QED  BY <1>1, <1>2

LEMMA SameLength ==
  ASSUME NEW m \in Nat, NEW n \in Nat, 1..m = 1..n
  PROVE  m = n
<1>1. \A i \in Int : i \in 1..m <=> i \in 1..n
  OBVIOUS
<1>2. \A i \in Int : (1 <= i /\ i <= m) <=> (1 <= i /\ i <= n)
  BY <1>1
<1>3. (1 <= m /\ m <= m) <=> (1 <= m /\ m <= n)
  BY <1>2
<1>4. (1 <= n /\ n <= m) <=> (1 <= n /\ n <= n)
  BY <1>2
<1> QED  BY <1>3, <1>4

LEMMA TableGrows ==
  ASSUME ServiceInv, ServiceInv', JobsGrow
  PROVE  /\ Len(jobs) \in Nat /\ Len(jobs') \in {Len(jobs), Len(jobs) + 1}
         /\ HasLatest => HasLatest'
<1>1. /\ Len(jobs) \in Nat /\ DOMAIN jobs = 1..Len(jobs)
      /\ Len(jobs') \in Nat /\ DOMAIN jobs' = 1..Len(jobs')
  BY LenProperties DEF ServiceInv, ApiTypes
<1>2. Len(jobs') \in {Len(jobs), Len(jobs) + 1}
  <2>1. ASSUME DOMAIN jobs' = DOMAIN jobs
        PROVE  Len(jobs') = Len(jobs)
    <3>1. 1..Len(jobs') = 1..Len(jobs)
      BY <1>1, <2>1
    <3> QED  BY <1>1, <3>1, SameLength
  <2>2. ASSUME NEW new, jobs' = Append(jobs, new)
        PROVE  Len(jobs') = Len(jobs) + 1
    BY <2>2 DEF ServiceInv, ApiTypes
  <2> QED  BY <2>1, <2>2 DEF JobsGrow
<1>3. HasLatest => HasLatest'
  <2>1. CASE Len(jobs') = Len(jobs)
    BY <2>1 DEF HasLatest
  <2>2. CASE Len(jobs') = Len(jobs) + 1
    <3> DEFINE n == Len(jobs)
    <3>1. ASSUME HasLatest
          PROVE  \A S \in SUBSET (1..n + 1) : S # {} => \E j \in S : \A k \in S : k <= j
      BY <1>1, <3>1, LatestGrows DEF HasLatest
    <3> QED  BY <2>2, <3>1 DEF HasLatest
  <2> QED  BY <1>2, <2>1, <2>2
<1> QED  BY <1>1, <1>2, <1>3

\* What each part of the system does to the table.
LEMMA AnswersGrow ==
  ASSUME NEW outcome, Answer(outcome)
  PROVE  JobsGrow
BY DEF Answer, JobsGrow, JobUpdated

LEMMA ServiceGrows ==
  ASSUME ServiceStep
  PROVE  JobsGrow
<1>1. ASSUME UNCHANGED jobs
      PROVE  JobsGrow
  BY <1>1 DEF JobsGrow
<1>2. ASSUME NEW j, jobs' = [jobs EXCEPT ![j] = jobs'[j]]
      PROVE  JobsGrow
  BY <1>2 DEF JobsGrow
<1>3. CASE SignerStep
  BY <1>1, <1>3, AnswersGrow
     DEF SignerStep, ChallengeLands, ResolveLands, CallThrows, ResolveEnds, JobsGrow,
         JobUpdated, apiVars, jobVars
<1>4. CASE Requested
  BY <1>4 DEF Requested, StartChallenge, Adds, ReadJob, Refreshed, JobUpdated, JobsGrow
<1>5. CASE Outage
  BY <1>1, <1>5 DEF Outage, Restart, BootStep, StrayLands, apiVars, jobVars
<1>6. ASSUME NEW j, ArmEnds(j)
      PROVE  JobsGrow
  BY <1>6 DEF ArmEnds, JobUpdated, JobsGrow
<1>7. CASE \/ \E a \in Actions : OperatorResolves(a)
           \/ \E n \in 1..Len(deploys) : DeployExecutes(n)
  BY <1>1, <1>7 DEF OperatorResolves, DeployExecutes, jobVars
<1> QED  BY <1>1, <1>3, <1>4, <1>5, <1>6, <1>7
         DEF ServiceStep, ChallengesNext, apiVars, jobVars

LEMMA PageGrows ==
  ASSUME PageStep
  PROVE  JobsGrow
<1>1. ASSUME UNCHANGED jobs
      PROVE  JobsGrow
  BY <1>1 DEF JobsGrow
<1>2. CASE ServiceWaits
  BY <1>1, <1>2 DEF ServiceWaits, challengeVars, apiVars, jobVars
<1>3. CASE FetchFails
  BY <1>1, <1>3 DEF FetchFails, apiVars, jobVars
<1>4. ASSUME NEW a, StartChallenge(a)
      PROVE  JobsGrow
  BY <1>4 DEF StartChallenge, Adds, JobsGrow
<1>5. ASSUME NEW kind, StartArm(kind)
      PROVE  JobsGrow
  BY <1>5 DEF StartArm, Adds, JobsGrow
<1>6. ASSUME NEW j, ReadJob(j)
      PROVE  JobsGrow
  BY <1>6 DEF ReadJob, Refreshed, JobUpdated, JobsGrow
<1>7. ASSUME NEW a, WalletSubmits(a)
      PROVE  JobsGrow
  BY <1>1, <1>7 DEF WalletSubmits, jobVars
<1>8. ASSUME NEW n, WalletResolve(n)
      PROVE  JobsGrow
  BY <1>1, <1>8 DEF WalletResolve
<1>9. CASE \/ Visit \/ Leave \/ PagePolls \/ PollGivesUp
           \/ PrepareFreshCase \/ ArmPolls \/ RunEconomy \/ EconomyPolls
  BY <1>2, <1>3, <1>5, <1>6, <1>9
     DEF Visit, Leave, PagePolls, PollJob, PollAction, PollGivesUp,
         PrepareFreshCase, ArmPolls, RunEconomy, EconomyPolls
<1>10. ASSUME NEW a \in Actions,
              \/ TryAgain(a) \/ WindowCloses(a) \/ BackendChallenge(a)
              \/ WalletChallenge(a) \/ WalletSigns(a) \/ WalletAnswered(a)
       PROVE  JobsGrow
  BY <1>2, <1>3, <1>4, <1>7, <1>10
     DEF TryAgain, WindowCloses, BackendChallenge, WalletChallenge, WalletSigns, WalletAnswered
<1>11. ASSUME NEW a \in Actions, WalletPolls(a) \/ RecheckFinality(a) \/ RetryResolve(a)
       PROVE  JobsGrow
  BY <1>2, <1>8, <1>11 DEF WalletPolls, RecheckFinality, RetryResolve, Finality, AsksResolve
<1> QED  BY <1>9, <1>10, <1>11 DEF PageStep


\* A step that keeps the pages' jobs, forgets them or takes the newest one.
LEMMA JobsKept ==
  ASSUME ServiceInv, ServiceInv', JobsInv, JobsGrow,
         store'.active \in {0, store.active} \cup 1..Len(jobs'),
         page'.arming \in {0, page.arming, Len(jobs')}
  PROVE  JobsInv'
<1>1. /\ Len(jobs) \in Nat /\ Len(jobs') \in {Len(jobs), Len(jobs) + 1}
      /\ HasLatest'
  BY TableGrows DEF JobsInv
<1> DEFINE m == Len(jobs)
           n == Len(jobs')
<1>2. m \in Nat /\ n \in {m, m + 1}
  BY <1>1
<1>3. /\ store.active \in 0..m /\ page.arming \in 0..m
      /\ store'.active \in {0, store.active} \cup 1..n
      /\ page'.arming \in {0, page.arming, n}
  BY DEF JobsInv
<1> HIDE DEF m, n
<1>4. store'.active \in 0..n /\ page'.arming \in 0..n
  BY <1>2, <1>3
<1> QED  BY <1>1, <1>4 DEF JobsInv, n

LEMMA JobActions ==
  ASSUME ServiceInv, NEW j \in 0..Len(jobs), j # 0
  PROVE  jobs[j].action \subseteq Actions
<1>1. Len(jobs) \in Nat /\ \A k \in 1..Len(jobs) : jobs[k] \in JobRow
  BY LenProperties, ElementOfSeq DEF ServiceInv, ApiTypes
<1>2. jobs[j] \in JobRow
  BY <1>1
<1> QED  BY <1>2 DEF JobRow

LEMMA MountedArming ==
  ASSUME NEW c, c = [f \in PageFields |-> c[f]], NEW a
  PROVE  Mounted(c, a).arming = c.arming /\ Idle(c, a).arming = c.arming
<1>1. ASSUME NEW d, d = [f \in PageFields |-> d[f]]
      PROVE  Idle(d, a).arming = d.arming
  BY <1>1 DEF Idle, PageFields
<1> DEFINE fresh == [c EXCEPT !.shown = {a}, !.seen = row[a].status]
<1>2. fresh = [f \in PageFields |-> fresh[f]] /\ fresh.arming = c.arming
  BY DEF PageFields
<1>3. \/ Mounted(c, a) = [fresh EXCEPT !.phase = "backend_resolved"]
      \/ Mounted(c, a) = [fresh EXCEPT !.phase = "expired"]
      \/ Mounted(c, a) = Idle(fresh, a)
  BY DEF Mounted
<1> HIDE DEF fresh
<1>4. Mounted(c, a).arming = fresh.arming
  BY <1>1, <1>2, <1>3 DEF PageFields
<1> QED  BY <1>1, <1>2, <1>4

LEMMA VisitKeeps ==
  ASSUME ArenaInv, JobsInv, Visit \/ Leave
  PROVE  ArenaInv'
<1> USE DEF ArenaInv
<1>1. ServiceInv' /\ Onward /\ Follows
  BY ServiceWaiting, FetchFollows, JobFollows DEF Visit, Leave
<1>2. KeptCalm
  BY StoreCalm DEF Visit, Leave, StoreWaits
<1>3. ASSUME NEW a \in Actions, page' = Mounted(Fresh, a)
      PROVE  ArenaInv'
  <2>1. Fresh = [f \in PageFields |-> Fresh[f]]
    BY DEF Fresh, Closed, PageFields
  <2> QED  BY <1>1, <1>2, <1>3, <2>1, NewCard
<1>4. CASE page' \in {Fresh, Closed}
  BY <1>1, <1>2, <1>4, NoCard
<1>5. CASE store.active # 0 /\ \E a \in jobs[store.active].action : page' = Mounted(Fresh, a)
  BY <1>3, <1>5, JobActions DEF JobsInv
<1> QED  BY <1>3, <1>4, <1>5 DEF Visit, Leave, ShowsReady

LEMMA RunsKeep ==
  ASSUME ArenaInv, JobsInv, PrepareFreshCase \/ ArmPolls \/ RunEconomy \/ EconomyPolls
  PROVE  ArenaInv'
<1> USE DEF ArenaInv
<1>1. ServiceInv' /\ Onward /\ Follows
  BY ServiceWaiting, JobFollows DEF PrepareFreshCase, ArmPolls, RunEconomy, EconomyPolls
<1>2. KeptCalm
  BY StoreCalm DEF PrepareFreshCase, ArmPolls, RunEconomy, EconomyPolls, StoreWaits
<1>3. ASSUME NEW arming, NEW economy, NEW demo,
             page' = [page EXCEPT !.arming = arming, !.economy = economy, !.demo = demo]
      PROVE  ArenaInv'
  <2>1. /\ page' = [f \in PageFields |-> page'[f]]
        /\ page'.shown = page.shown /\ page'.seen = page.seen /\ page'.phase = page.phase
        /\ page'.hash = page.hash /\ page'.asked = page.asked
    BY <1>3 DEF PageFields, PageTypes
  <2> QED  BY <1>1, <1>2, <2>1, CardCalm
<1>4. ASSUME NEW a \in Actions, page' = Mounted([page EXCEPT !.arming = 0], a)
      PROVE  ArenaInv'
  <2> DEFINE c == [page EXCEPT !.arming = 0]
  <2>1. c = [f \in PageFields |-> c[f]]
    BY DEF PageTypes, PageFields
  <2> HIDE DEF c
  <2>2. page' = Mounted(c, a)
    BY <1>4 DEF c
  <2> QED  BY <1>1, <1>2, <2>1, <2>2, NewCard
<1>5. CASE page.arming # 0 /\ \E a \in jobs[page.arming].action :
             page' = Mounted([page EXCEPT !.arming = 0], a)
  BY <1>4, <1>5, JobActions DEF JobsInv
<1>6. ASSUME NEW arming, page' = [page EXCEPT !.arming = arming]
      PROVE  ArenaInv'
  <2>1. page' = [page EXCEPT !.arming = arming, !.economy = page.economy, !.demo = page.demo]
    BY <1>6 DEF PageTypes, PageFields
  <2> QED  BY <1>3, <2>1
<1>7. ASSUME NEW economy, NEW demo, page' = [page EXCEPT !.economy = economy, !.demo = demo]
      PROVE  ArenaInv'
  <2>1. page' = [page EXCEPT !.arming = page.arming, !.economy = economy, !.demo = demo]
    BY <1>7 DEF PageTypes, PageFields
  <2> QED  BY <1>3, <2>1
<1>8. ASSUME NEW economy, page' = [page EXCEPT !.economy = economy]
      PROVE  ArenaInv'
  <2>1. page' = [page EXCEPT !.economy = economy, !.demo = page.demo]
    BY <1>8 DEF PageTypes, PageFields
  <2> QED  BY <1>7, <2>1
<1> QED  BY <1>5, <1>6, <1>7, <1>8 DEF PrepareFreshCase, ArmPolls, RunEconomy, EconomyPolls

LEMMA PageKeeps ==
  ASSUME ArenaInv, JobsInv, PageStep
  PROVE  ArenaInv'
<1>1. ASSUME NEW a \in Actions, WalletPolls(a) \/ RecheckFinality(a) \/ RetryResolve(a)
      PROVE  ArenaInv'
  <2>1. a \in page.shown /\ page.phase \in HashPhases
    BY <1>1 DEF WalletPolls, RecheckFinality, RetryResolve, OnCard, HashPhases
  <2>2. (\E by : Finality(a, by)) \/ \E by : AsksResolve(by)
    BY <1>1 DEF WalletPolls, RecheckFinality, RetryResolve
  <2> QED  BY <2>1, <2>2, FinalityKeeps, AsksKeep
<1> QED  BY <1>1, VisitKeeps, PollsKeep, TryAgainKeeps, ChallengeButtons, WalletSignsKeeps,
            WalletAnsweredKeeps, RunsKeep DEF PageStep


\* The job the browser keeps is one of the table's.
LEMMA ActiveKept ==
  ASSUME ArenaInv, ServiceInv', JobsInv, PageStep
  PROVE  store'.active \in {0, store.active} \cup 1..Len(jobs')
<1> USE DEF ArenaInv
<1>1. store = [f \in {"pending", "backend", "active"} |-> store[f]]
  BY DEF PageTypes
<1>2. ASSUME \/ UNCHANGED store \/ store' = [store EXCEPT !.active = 0]
             \/ \E a, n : store' = [store EXCEPT !.pending[a] = n]
             \/ \E a : ForgetJob(a)
      PROVE  store'.active \in {0, store.active}
  BY <1>1, <1>2 DEF ForgetJob
<1>3. ASSUME NEW a \in Actions,
             store' # store, BackendChallenge(a)
      PROVE  store'.active \in 1..Len(jobs')
  <2> DEFINE j == IF LiveJobs(a) = {} THEN Len(jobs) + 1 ELSE Latest(LiveJobs(a))
  <2>1. store' = [store EXCEPT !.backend[a] = j, !.active = j]
        /\ (StartChallenge(a) \/ (LiveJobs(a) # {} /\ ServiceWaits))
    BY <1>3 DEF BackendChallenge
  <2>2. store'.active = j
    BY <1>1, <2>1
  <2>3. CASE StartChallenge(a)
    <3>1. Len(jobs) \in Nat /\ Len(jobs') = Len(jobs) + 1
      <4>1. \E new : jobs' = Append(jobs, new)
        BY <2>3 DEF StartChallenge, Adds
      <4> QED  BY <4>1, LenProperties DEF ServiceInv, ApiTypes
    <3>2. j = Len(jobs) + 1
      BY <2>3 DEF StartChallenge
    <3> QED  BY <2>2, <3>1, <3>2
  <2>4. CASE LiveJobs(a) # {} /\ ServiceWaits
    <3>1. LiveJobs(a) \in SUBSET (1..Len(jobs))
      BY DEF LiveJobs
    <3>2. \E k \in LiveJobs(a) : \A l \in LiveJobs(a) : l <= k
      BY <2>4, <3>1 DEF JobsInv, HasLatest
    <3>3. Latest(LiveJobs(a)) \in LiveJobs(a)
      BY <3>2 DEF Latest
    <3>4. jobs' = jobs
      BY <2>4 DEF ServiceWaits, challengeVars, apiVars, jobVars
    <3> QED  BY <2>2, <2>4, <3>1, <3>3, <3>4
  <2> QED  BY <2>1, <2>3, <2>4
<1>4. CASE \/ Visit \/ Leave \/ PagePolls \/ PollGivesUp
           \/ PrepareFreshCase \/ ArmPolls \/ RunEconomy \/ EconomyPolls
  BY <1>2, <1>4
     DEF Visit, Leave, PagePolls, PollJob, PollAction, PollGivesUp, PrepareFreshCase,
         ArmPolls, RunEconomy, EconomyPolls, StoreWaits
<1>5. ASSUME NEW a \in Actions,
             \/ TryAgain(a) \/ WindowCloses(a) \/ WalletChallenge(a)
             \/ WalletSigns(a) \/ WalletAnswered(a) \/ WalletPolls(a)
             \/ RecheckFinality(a) \/ RetryResolve(a)
      PROVE  store'.active \in {0, store.active}
  BY <1>2, <1>5
     DEF TryAgain, WindowCloses, WalletChallenge, WalletSigns, WalletAnswered, WalletPolls,
         RecheckFinality, RetryResolve, Finality, AsksResolve, StoreWaits, Forget
<1> QED  BY <1>3, <1>4, <1>5 DEF PageStep

\* And so is the one it waits for after "Prepare Fresh Case".
LEMMA ArmingKept ==
  ASSUME ArenaInv, PageStep
  PROVE  page'.arming \in {0, page.arming, Len(jobs')}
<1>1. page = [f \in PageFields |-> page[f]]
  BY DEF ArenaInv, PageTypes
<1>2. Fresh = [f \in PageFields |-> Fresh[f]] /\ Fresh.arming = 0 /\ Closed.arming = 0
  BY DEF Fresh, Closed, PageFields
<1>3. ASSUME NEW a, page' = Mounted(Fresh, a)
      PROVE  page'.arming = 0
  BY <1>2, <1>3, MountedArming
<1>4. CASE Visit \/ Leave
  BY <1>2, <1>3, <1>4 DEF Visit, Leave, ShowsReady
<1>5. ASSUME NEW a, page' = Idle(page, a)
      PROVE  page'.arming = page.arming
  BY <1>1, <1>5, MountedArming
<1>6. CASE ArmPolls \/ PrepareFreshCase
  <2> DEFINE c == [page EXCEPT !.arming = 0]
  <2>1. c = [f \in PageFields |-> c[f]] /\ c.arming = 0
    BY <1>1 DEF PageFields
  <2>2. ASSUME NEW a, page' = Mounted(c, a)
        PROVE  page'.arming = 0
    <3> HIDE DEF c
    <3> QED  BY <2>1, <2>2, MountedArming
  <2>3. CASE ArmPolls
    BY <1>1, <2>1, <2>2, <2>3 DEF ArmPolls
  <2>4. CASE PrepareFreshCase
    BY <1>1, <2>4 DEF PrepareFreshCase, PageFields
  <2> QED  BY <1>6, <2>3, <2>4
<1>7. CASE PagePolls \/ PollGivesUp \/ RunEconomy \/ EconomyPolls
  BY <1>1, <1>7
     DEF PagePolls, PollJob, PollAction, PollGivesUp, RunEconomy, EconomyPolls, PageFields
<1>8. ASSUME NEW a \in Actions, WindowCloses(a) \/ BackendChallenge(a) \/ WalletChallenge(a)
      PROVE  page'.arming = page.arming
  BY <1>1, <1>8 DEF WindowCloses, BackendChallenge, WalletChallenge, Phase, PageFields
<1>9. ASSUME NEW a \in Actions,
             \/ WalletSigns(a) \/ WalletAnswered(a) \/ WalletPolls(a)
             \/ RecheckFinality(a) \/ RetryResolve(a)
      PROVE  page'.arming = page.arming
  BY <1>1, <1>9
     DEF WalletSigns, WalletAnswered, WalletPolls, RecheckFinality, RetryResolve, Finality,
         AsksResolve, Phase, PageFields
<1>10. ASSUME NEW a \in Actions, TryAgain(a)
       PROVE  page'.arming = page.arming
  BY <1>5, <1>10 DEF TryAgain
<1> QED  BY <1>4, <1>6, <1>7, <1>8, <1>9, <1>10 DEF PageStep

LEMMA ArenaStart == ArenaInit => ArenaInv /\ JobsInv
<1> SUFFICES ASSUME ArenaInit  PROVE ArenaInv /\ JobsInv
  OBVIOUS
<1>1. ServiceInv /\ signer = <<>> /\ jobs = <<>>
  BY ServiceStart DEF ArenaInit, ChallengesInit
<1>2. CallsAsked
  BY <1>1 DEF CallsAsked
<1>3. page = [f \in PageFields |-> page[f]] /\ page.shown = {} /\ page.arming = 0
  BY DEF ArenaInit, Closed, PageFields
<1>4. /\ store = [f \in {"pending", "backend", "active"} |-> store[f]]
      /\ store.pending = [a \in Actions |-> 0] /\ store.active = 0
  BY DEF ArenaInit
<1>5. PageTypes /\ CardHolds /\ KeptHolds
  BY <1>3, <1>4 DEF PageTypes, CardHolds, KeptHolds
<1>6. JobsInv
  BY <1>1, <1>3, <1>4 DEF JobsInv, HasLatest
<1> QED  BY <1>1, <1>2, <1>5, <1>6 DEF ArenaInv

LEMMA ArenaKeeps ==
  ArenaInv /\ JobsInv /\ [ArenaNext]_arenaVars => ArenaInv' /\ JobsInv'
<1> SUFFICES ASSUME ArenaInv, JobsInv, [ArenaNext]_arenaVars
             PROVE  ArenaInv' /\ JobsInv'
  OBVIOUS
<1>1. CASE ServiceStep /\ UNCHANGED pageVars
  <2>1. ServiceInv' /\ Onward /\ Follows
    BY <1>1, ServiceFollows DEF ArenaInv
  <2>2. ArenaInv'
    BY <1>1, <2>1, PageAlone
  <2> QED  BY <1>1, <2>1, <2>2, ServiceGrows, JobsKept DEF ArenaInv, pageVars
<1>2. CASE PageStep
  <2>1. ArenaInv' /\ ServiceInv'
    BY <1>2, PageKeeps DEF ArenaInv
  <2> QED  BY <1>2, <2>1, PageGrows, ActiveKept, ArmingKept, JobsKept DEF ArenaInv
<1>3. CASE UNCHANGED arenaVars
  <2>1. ServiceInv' /\ Onward /\ Follows
    BY <1>3, ServiceWaiting DEF ArenaInv, arenaVars, ServiceWaits
  <2>2. ArenaInv' /\ JobsGrow
    BY <1>3, <2>1, PageAlone
       DEF arenaVars, JobsGrow, challengeVars, apiVars, jobVars
  <2> QED  BY <1>3, <2>1, <2>2, JobsKept DEF ArenaInv, arenaVars, pageVars
<1> QED  BY <1>1, <1>2, <1>3 DEF ArenaNext

(***************************************************************************)
(* What a visitor's page shows as slashed, the chain has slashed, and who  *)
(* is told to have claimed has had a deploy of their own executed: for any *)
(* number of jobs, requests, restarts and loads of the page, whatever the  *)
(* order of the answers (ManualChallenge.tsx, demo-jobs.ts, routes.ts).    *)
(***************************************************************************)
THEOREM ShownAreSlashes == ArenaSpec => []SlashShownIsSlash
<1>1. ArenaInv => SlashShownIsSlash
  BY SettledRow
     DEF ArenaInv, ServiceInv, CardHolds, SlashShownIsSlash, HashPhases, Succeeded, Slashed,
         PageTypes, terminal
<1> QED  BY <1>1, ArenaStart, ArenaKeeps, PTL DEF ArenaSpec
===============================================================================
