----------------------------- MODULE Operations -----------------------------
(***************************************************************************)
(* What bounds the arming of demo cases by the API: the idempotency keys   *)
(* of backend/src/api/idempotency.ts in front of POST /api/demo/arm, the   *)
(* ready pool of api/ready-pool.ts, the queue of the arm service, the      *)
(* spending budget of ops/spend-guard.ts and the commands of casper/       *)
(* odra-cli.ts with their fallback.  Time is kept as ages, so that the     *)
(* clock has no bound.  Of the budgets only the agent's hourly one is      *)
(* kept, since the daily one has the same form; a command costs one unit,  *)
(* as callContract always estimates 50 CSPR.                               *)
(***************************************************************************)
EXTENDS Integers, Sequences, FiniteSets, SequencesExt

CONSTANTS
  Keys,         \* idempotency keys
  Pool,         \* the ready pool, as the owner of a run
  RunCalls,     \* transactions of the agent in one run of the arm service
  Budget,       \* transactions an hour's budget pays for
  Hour, Ttl,    \* how long a spend and a completed key are remembered
  Life,         \* how long a fresh case is ready
  Target,       \* the ready cases the pool wants
  MaxDelay,     \* the longest back-off
  MaxArmRequests,  \* bound on requests
  MaxFailures,  \* bound on commands that fail
  MaxRestarts   \* bound on restarts

ASSUME OperationsAssumption ==
  /\ Pool \notin Keys
  /\ {RunCalls, Budget, Hour, Ttl, Life, Target, MaxDelay} \subseteq Nat \ {0}
  /\ RunCalls <= Budget
  /\ {MaxArmRequests, MaxFailures, MaxRestarts} \subseteq Nat

VARIABLES
  inFlight,   \* the keys with an operation under way
  completed,  \* completed[k]: the age of the value kept for k, Ttl for none
  queue,      \* the arm service's runs, the head under way
  call,       \* the command of the head
  history,    \* the ages of the recorded spends
  pool,       \* the ready pool
  ready,      \* the ages of the ready cases
  landed,     \* the ages of the agent's transactions on chain
  armed,      \* armed[k]: the ages of the actions executed for key k
  counts      \* of requests, failures and restarts

processVars == <<inFlight, completed, queue, call, history, pool>>
operationsVars == <<processVars, ready, landed, armed, counts>>

\* again: it runs on the public node; landed: its transaction is on chain.
NoCall == [pc |-> "none", again |-> FALSE, landed |-> FALSE]
IdlePool == [running |-> FALSE, failed |-> 0, wait |-> 0]

OperationsInit ==
  /\ inFlight = {}
  /\ completed = [k \in Keys |-> Ttl]
  /\ queue = <<>>
  /\ call = NoCall
  /\ history = <<>>
  /\ pool = IdlePool
  /\ ready = <<>>
  /\ landed = <<>>
  /\ armed = [k \in Keys |-> <<>>]
  /\ counts = [requests |-> 0, failures |-> 0, restarts |-> 0]

Counted(what, bound) ==
  /\ counts[what] < bound
  /\ counts' = [counts EXCEPT ![what] = @ + 1]

-----------------------------------------------------------------------------
(* Idempotency keys.                                                       *)

Run(owner) == [owner |-> owner, calls |-> 0]

\* Mutant of Known: an operation under way is not looked for.
KnownCompleted(k) == completed[k] < Ttl

Known(k) == completed[k] < Ttl \/ k \in inFlight

\* POST /api/demo/arm.  A request whose key is known waits for, or gets, the
\* value there is.
ArmRequest(k) ==
  /\ Counted("requests", MaxArmRequests)
  /\ IF Known(k)
     THEN UNCHANGED <<inFlight, queue>>
     ELSE /\ inFlight' = inFlight \cup {k}
          /\ queue' = Append(queue, Run(k))
  /\ UNCHANGED <<completed, call, history, pool, ready, landed, armed>>

-----------------------------------------------------------------------------
(* The ready pool.                                                         *)

PoolTick ==
  /\ ~pool.running
  /\ pool.wait = 0
  /\ Len(ready) < Target
  /\ pool' = [pool EXCEPT !.running = TRUE]
  /\ queue' = Append(queue, Run(Pool))
  /\ UNCHANGED <<inFlight, completed, call, history, ready, landed, armed, counts>>

Delay(failed) == IF 2^(failed - 1) > MaxDelay THEN MaxDelay ELSE 2^(failed - 1)

\* Mutant of PoolFailed: running is reset only after a success.
PoolFailedRunning ==
  [pool EXCEPT !.failed = 1, !.wait = Delay(1)]

\* Failures that give the longest delay are not told apart.
PoolFailed ==
  LET failed == pool.failed + 1 IN
  [running |-> FALSE,
   failed |-> IF Delay(failed) < MaxDelay THEN failed ELSE MaxDelay,
   wait |-> Delay(failed)]

-----------------------------------------------------------------------------
(* A run of the arm service: its transactions one after the other.         *)

Owner == Head(queue).owner

Ends(succeeds) ==
  /\ queue' = Tail(queue)
  /\ call' = NoCall
  /\ inFlight' = inFlight \ {Owner}
  /\ completed' = [k \in Keys |-> IF succeeds /\ k = Owner THEN 0 ELSE completed[k]]
  /\ pool' = IF Owner # Pool THEN pool
             ELSE IF succeeds THEN IdlePool ELSE PoolFailed

\* Mutant of SpendAllowed: the estimate of the call at hand is left out.
SpendAllowedBefore == Len(history) <= Budget

SpendAllowed == Len(history) + 1 <= Budget

\* The budget is looked at, and the command starts or is refused.
Calls ==
  /\ queue # <<>>
  /\ call = NoCall
  /\ Head(queue).calls < RunCalls
  /\ IF SpendAllowed
     THEN /\ call' = [NoCall EXCEPT !.pc = "sent"]
          /\ UNCHANGED <<inFlight, completed, queue, pool>>
     ELSE Ends(FALSE)
  /\ UNCHANGED <<history, ready, landed, armed, counts>>

\* The transaction is included; it may revert.
Included ==
  /\ call.pc = "sent"
  /\ ~call.landed
  /\ landed' = Append(landed, 0)
  /\ armed' = [k \in Keys |-> IF k = Owner /\ Head(queue).calls = RunCalls - 1
                              THEN Append(armed[k], 0) ELSE armed[k]]

Lands ==
  /\ Included
  /\ call' = [call EXCEPT !.landed = TRUE]
  /\ UNCHANGED <<inFlight, completed, queue, history, pool, ready, counts>>

\* The command reports its transaction, and the spend is recorded.
Reported ==
  /\ call.landed
  /\ history' = Append(history, 0)
  /\ queue' = [queue EXCEPT ![1].calls = @ + 1]
  /\ call' = NoCall
  /\ UNCHANGED <<inFlight, completed, pool, ready, landed, armed, counts>>

\* The command fails, before or after its transaction has landed; where the
\* node refuses requests, it runs once more on the public one.
CommandFails ==
  /\ call.pc = "sent"
  /\ Counted("failures", MaxFailures)
  /\ \/ /\ ~call.again
        /\ call' = [call EXCEPT !.again = TRUE, !.landed = FALSE]
        /\ UNCHANGED <<inFlight, completed, queue, pool>>
     \/ Ends(FALSE)
  /\ UNCHANGED <<history, ready, landed, armed>>

\* The run has armed a case, and its row is written.
Arms ==
  /\ queue # <<>>
  /\ Head(queue).calls = RunCalls
  /\ Ends(TRUE)
  /\ ready' = Append(ready, 0)
  /\ UNCHANGED <<history, landed, armed, counts>>

RunStep == Calls \/ Lands \/ Reported \/ CommandFails \/ Arms

-----------------------------------------------------------------------------
\* One more unit of age; the first that is not older than the limit then
\* becomes the first of all, as they are in the order in which they came.
Older(ages, limit) ==
  LET first == Min({n \in 1..(Len(ages) + 1) : n > Len(ages) \/ ages[n] < limit})
  IN  [n \in 1..(Len(ages) + 1 - first) |-> ages[n + first - 1] + 1]

Ages ==
  /\ history' = Older(history, Hour)
  /\ landed' = Older(landed, Hour)
  /\ ready' = Older(ready, Life)
  /\ armed' = [k \in Keys |-> Older(armed[k], Ttl - 1)]
  /\ completed' = [k \in Keys |-> IF completed[k] < Ttl THEN completed[k] + 1 ELSE Ttl]
  /\ pool' = [pool EXCEPT !.wait = IF @ > 0 THEN @ - 1 ELSE 0]
  /\ UNCHANGED <<inFlight, queue, call, counts>>

\* Nothing of this is stored but the rows of the cases; what has been sent
\* may still be included.
Restart ==
  /\ Counted("restarts", MaxRestarts)
  /\ inFlight' = {}
  /\ completed' = [k \in Keys |-> Ttl]
  /\ queue' = <<>>
  /\ call' = NoCall
  /\ history' = <<>>
  /\ pool' = IdlePool
  /\ Included \/ UNCHANGED <<landed, armed>>
  /\ UNCHANGED ready

OperationsNext ==
  \/ \E k \in Keys : ArmRequest(k)
  \/ PoolTick
  \/ RunStep
  \/ Ages
  \/ Restart

(***************************************************************************)
(* Time passes, the pool's timer goes on, and a command exits.             *)
(* Nobody has to request anything.                                         *)
(***************************************************************************)
OperationsFairness ==
  /\ WF_operationsVars(Ages)
  /\ WF_operationsVars(PoolTick)
  /\ WF_operationsVars(RunStep)

-----------------------------------------------------------------------------
(***************************************************************************)
(* However requests with one key overlap, one action is executed for it    *)
(* while its value is kept; each command whose answer is lost, and each    *)
(* restart, may add one, since neither the failure nor the map is stored.  *)
(***************************************************************************)
KeyArmsOnce ==
  \A k \in Keys : Len(armed[k]) <= 1 + counts.failures + counts.restarts

(***************************************************************************)
(* The transactions of an hour stay within the budget, except for those    *)
(* that a failed command leaves unrecorded: the check before a call and    *)
(* the record after it are awaits apart, runs queue up and time goes on.   *)
(* A restart forgets the budget, so it counts for one more.                *)
(***************************************************************************)
HourWithinBudget ==
  Len(landed) <= Budget * (1 + counts.restarts) + counts.failures

(***************************************************************************)
(* The pool gets a case ready again and again, whatever failures, refused  *)
(* calls, back-offs and restarts have come before.                         *)
(***************************************************************************)
PoolFills == []<>(ready # <<>>)
=============================================================================
