----------------------------- MODULE ArmService -----------------------------
(***************************************************************************)
(* backend/src/api/arm.ts: the service that creates bonded actions for the *)
(* API.  Each call is queued, and one run at a time submits an invoice,    *)
(* initiates an action under the id it predicted, posts the bond, executes *)
(* and polls the chain.  A transaction is accepted, fails, or times out    *)
(* and may still be included later.  An invoice id is the call it was      *)
(* allocated for; allowances and the funding transfer are left out.        *)
(***************************************************************************)
EXTENDS Integers, Sequences, FiniteSets, SequencesExt

CONSTANTS
  Jobs,        \* calls of arm and submitPaidAction, each with its invoice id
  ClassOf,     \* ClassOf[j]: "duplicate" or "delivery"
  Runner,      \* the invoices of the agent runner, which uses the same key
  MaxActions,  \* bound on the actions on chain
  MaxFaults    \* bounds on what goes wrong, by kind

\* Timed-out transactions, shortfalls of funds, actions of the runner, scans
\* of the chain that a failing read ends early, and restarts.
FaultKinds == {"timeouts", "shortfalls", "foreign", "misreads", "crashes"}

ASSUME ArmAssumption ==
  /\ Runner \notin Jobs
  /\ ClassOf \in [Jobs -> {"duplicate", "delivery"}]
  /\ MaxActions \in Nat
  /\ MaxFaults \in [FaultKinds -> Nat]

VARIABLES
  chain,        \* the controller's actions; an id is a position
  invoiceClaim, \* invoiceClaim[j]: claim hash of j's invoice, or NoClaim
  paid,         \* the invoices paid
  inTransit,    \* transactions that timed out and may still be included
  projected,    \* the database's actions, with the status last written
  listener,     \* the action the listener has read and not yet written
  queue,        \* calls waiting for the run before them
  run,          \* the run in progress, or Idle
  result,       \* result[j]: the id j returned, Failed, or 0
  faults

chainVars == <<chain, invoiceClaim, paid>>
tableVars == <<projected, listener>>
armVars == <<chain, invoiceClaim, paid, inTransit, projected, listener, queue,
             run, result, faults>>

ActionIds == 1..Len(chain)
NoClaim == -1
Collision == 0     \* the claim hash every duplicate demo shares
Failed == -1
Idle == [pc |-> "idle"]
NothingRead == [id |-> 0]
Running == run.pc # "idle"

Fault(kind) ==
  /\ faults[kind] < MaxFaults[kind]
  /\ faults' = [faults EXCEPT ![kind] = @ + 1]

ArmInit ==
  /\ chain = <<>>
  /\ invoiceClaim = [j \in Jobs |-> NoClaim]
  /\ paid = {}
  /\ inTransit = {}
  /\ projected = <<>>
  /\ listener = NothingRead
  /\ queue = <<>>
  /\ run = Idle
  /\ result = [j \in Jobs |-> 0]
  /\ faults = [k \in FaultKinds |-> 0]

-----------------------------------------------------------------------------
(* The suite, as far as the service sees it.                               *)

\* What payout requires; each of the runner's invoices is its own.
InvoiceMatches(action) ==
  action.invoice # Runner =>
    /\ invoiceClaim[action.invoice] = action.claim
    /\ action.invoice \notin paid

Accepted(tx) ==
  CASE tx.kind = "initiate"  -> Len(chain) < MaxActions
    [] tx.kind = "post_bond" -> chain[tx.id].status = "Initiated"
    [] tx.kind = "execute"   -> /\ chain[tx.id].status = "Bonded"
                                /\ InvoiceMatches(chain[tx.id])

Includes(tx) ==
  /\ Accepted(tx)
  /\ CASE tx.kind = "initiate"  ->
            /\ chain' = Append(chain, [invoice |-> tx.invoice,
                          claim |-> tx.claim, status |-> "Initiated"])
            /\ UNCHANGED paid
       [] tx.kind = "post_bond" ->
            /\ chain' = [chain EXCEPT ![tx.id].status = "Bonded"]
            /\ UNCHANGED paid
       [] tx.kind = "execute"   ->
            /\ chain' = [chain EXCEPT ![tx.id].status = "Executed"]
            /\ paid' = paid \cup {chain[tx.id].invoice}
  /\ UNCHANGED invoiceClaim

\* A transaction that timed out is included, reverts or expires.
LateInclusion(t) ==
  /\ inTransit' = inTransit \ {t}
  /\ Includes(t.tx) \/ UNCHANGED chainVars
  /\ UNCHANGED <<tableVars, queue, run, result, faults>>

\* The runner's own action, bonded and executed with the agent's key.
RunnerInitiates ==
  /\ Fault("foreign")
  /\ Includes([kind |-> "initiate", invoice |-> Runner, claim |-> NoClaim])
  /\ UNCHANGED <<inTransit, tableVars, queue, run, result>>

RunnerContinues(i) ==
  /\ chain[i].invoice = Runner
  /\ \E kind \in {"post_bond", "execute"} : Includes([kind |-> kind, id |-> i])
  /\ UNCHANGED <<inTransit, tableVars, queue, run, result, faults>>

\* The watchdog, a challenger or the end of the window.
ActionLeavesExecuted(i) ==
  /\ chain[i].status = "Executed"
  /\ chain' = [chain EXCEPT ![i].status = "Settled"]
  /\ UNCHANGED <<invoiceClaim, paid, inTransit, tableVars, queue, run,
                 result, faults>>

Projects(i, status) ==
  projected' = [k \in DOMAIN projected \cup {i} |->
                  IF k = i THEN status ELSE projected[k]]

\* The listener reads an action, awaits more reads and then writes the row.
ListenerReads(i) ==
  /\ listener = NothingRead
  /\ listener' = [id |-> i, status |-> chain[i].status]
  /\ UNCHANGED <<chainVars, inTransit, projected, queue, run, result, faults>>

ListenerWrites ==
  /\ listener # NothingRead
  /\ Projects(listener.id, listener.status)
  /\ listener' = NothingRead
  /\ UNCHANGED <<chainVars, inTransit, queue, run, result, faults>>

-----------------------------------------------------------------------------
(* The queue and the run.                                                  *)

Enqueue(j) ==
  /\ queue' = Append(queue, j)
  /\ UNCHANGED <<chainVars, inTransit, tableVars, run, result, faults>>

StartRun ==
  /\ ~Running
  /\ queue # <<>>
  /\ run' = [pc |-> "cursor", job |-> Head(queue), attempt |-> 1, id |-> 0]
  /\ queue' = Tail(queue)
  /\ UNCHANGED <<chainVars, inTransit, tableVars, result, faults>>

RunEnds(value) ==
  /\ result' = [result EXCEPT ![run.job] = value]
  /\ run' = Idle

ContinueAt(pc) == run' = [run EXCEPT !.pc = pc]

\* Any step may throw: a read fails, a transaction reverts, a poll gives up.
RunThrows ==
  /\ Running
  /\ RunEnds(Failed)
  /\ UNCHANGED <<chainVars, inTransit, tableVars, queue, faults>>

\* "Insufficient funds": one more attempt with the same invoice id.
Shortfall ==
  /\ Running
  /\ run.pc \in {"submit_invoice", "initiate", "post_bond", "execute"}
  /\ run.attempt = 1
  /\ Fault("shortfalls")
  /\ run' = [run EXCEPT !.pc = "cursor", !.attempt = 2, !.id = 0]
  /\ UNCHANGED <<chainVars, inTransit, tableVars, queue, result>>

Class == ClassOf[run.job]
\* A delivery attempt draws a random claim hash.
Claim == IF Class = "duplicate" THEN Collision ELSE run.attempt

\* The actions of the database, and the unprojected ones a scan has read, up
\* to the action last.
MaxProbes == 3     \* MAX_UNPROJECTED_ACTION_PROBES
LastProjected == IF DOMAIN projected = {} THEN 0 ELSE Max(DOMAIN projected)
KnownActions(last) == DOMAIN projected \cup (LastProjected + 1)..last
KnownStatus(i) ==
  IF i \in DOMAIN projected THEN projected[i] ELSE chain[i].status

\* Mutant of Unpaid: the status in the projection is trusted.
Unsettled(i) == chain[i].invoice # Runner

Unpaid(i) == chain[i].invoice \notin paid \cup {Runner}

Resumable(last) ==
  {i \in KnownActions(last) :
     /\ Class = "duplicate"
     /\ KnownStatus(i) \in {"Initiated", "Bonded"}
     /\ chain[i].claim = Collision
     /\ Unpaid(i)}

\* The scan takes a read that fails for the end of the actions, unless it
\* knows the error for a transient one, and throws after MaxProbes actions.
ScanEndsAt(last) ==
  \/ last = Len(chain) /\ UNCHANGED faults
  \/ last < Len(chain) /\ Fault("misreads")

ResolveCursor ==
  /\ run.pc = "cursor"
  /\ \E last \in LastProjected..(LastProjected + MaxProbes - 1) :
       /\ ScanEndsAt(last)
       /\ run' = IF Resumable(last) # {}
                 THEN [run EXCEPT !.id = Max(Resumable(last)), !.pc = "read"]
                 ELSE [run EXCEPT !.id = last + 1, !.pc = "submit_invoice"]
  /\ UNCHANGED <<chainVars, inTransit, tableVars, queue, result>>

SubmitInvoice ==
  /\ run.pc = "submit_invoice"
  /\ invoiceClaim' = [invoiceClaim EXCEPT ![run.job] =
       IF @ = NoClaim THEN Claim ELSE @]
  /\ ContinueAt("initiate")
  /\ UNCHANGED <<chain, paid, inTransit, tableVars, queue, result, faults>>

Sends(tx, next) ==
  /\ Includes(tx)
  /\ ContinueAt(next)
  /\ UNCHANGED <<inTransit, tableVars, queue, result, faults>>

TimesOut(tx, next) ==
  /\ Fault("timeouts")
  /\ inTransit' = inTransit \cup {[tx |-> tx, nth |-> faults.timeouts]}
  /\ next
  /\ UNCHANGED <<chainVars, tableVars, queue>>

InitiateTx == [kind |-> "initiate", invoice |-> run.job, claim |-> Claim]

Initiate ==
  /\ run.pc = "initiate"
  /\ \/ Sends(InitiateTx, "read")
     \/ TimesOut(InitiateTx,
                 ContinueAt("confirm_initiate") /\ UNCHANGED result)

\* After a timeout: an action under the predicted id is taken for ours,
\* else the transaction is sent once more.
ConfirmInitiate ==
  /\ run.pc = "confirm_initiate"
  /\ \/ /\ run.id \in ActionIds
        /\ ContinueAt("read")
        /\ UNCHANGED <<chainVars, inTransit, tableVars, queue, result, faults>>
     \/ run.id \notin ActionIds /\ Sends(InitiateTx, "read")
     \/ run.id \notin ActionIds /\ TimesOut(InitiateTx, RunEnds(Failed))

ReadAction ==
  /\ run.pc = "read"
  /\ run.id \in ActionIds
  /\ ContinueAt(CASE chain[run.id].status = "Initiated" -> "post_bond"
                  [] chain[run.id].status = "Bonded" -> "execute"
                  [] OTHER -> "poll")
  /\ UNCHANGED <<chainVars, inTransit, tableVars, queue, result, faults>>

PostBond ==
  LET tx == [kind |-> "post_bond", id |-> run.id] IN
  /\ run.pc = "post_bond"
  /\ \/ Sends(tx, "read")
     \/ TimesOut(tx, ContinueAt("confirm_bond") /\ UNCHANGED result)

ExecuteAction ==
  LET tx == [kind |-> "execute", id |-> run.id] IN
  /\ run.pc = "execute"
  /\ \/ Sends(tx, "poll")
     \/ TimesOut(tx, ContinueAt("confirm_execute") /\ UNCHANGED result)

\* After a timeout the run goes on only if the chain shows the effect.
Confirm ==
  /\ \/ /\ run.pc = "confirm_bond"
        /\ chain[run.id].status \in {"Bonded", "Executed"}
        /\ ContinueAt("read")
     \/ /\ run.pc = "confirm_execute"
        /\ chain[run.id].status = "Executed"
        /\ ContinueAt("poll")
  /\ UNCHANGED <<chainVars, inTransit, tableVars, queue, result, faults>>

Ready(i) ==
  /\ chain[i].status = "Executed"
  /\ Class = "duplicate" => chain[i].claim = Collision

\* Mutant of Records: the row is left to the listener.
LeavesToListener(i) == UNCHANGED projected

Records(i) == Projects(i, chain[i].status)

\* The poll succeeds and the action is written to the database.
PollAndRecord ==
  /\ run.pc = "poll"
  /\ Ready(run.id)
  /\ Records(run.id)
  /\ ContinueAt("final_poll")
  /\ UNCHANGED <<chainVars, inTransit, listener, queue, result, faults>>

\* One more look at the chain before the call returns.
FinalPoll ==
  /\ run.pc = "final_poll"
  /\ Ready(run.id)
  /\ RunEnds(run.id)
  /\ UNCHANGED <<chainVars, inTransit, tableVars, queue, faults>>

RunStep ==
  \/ StartRun
  \/ RunThrows
  \/ Shortfall
  \/ Running /\ (\/ ResolveCursor \/ SubmitInvoice \/ Initiate
                 \/ ConfirmInitiate \/ ReadAction \/ PostBond
                 \/ ExecuteAction \/ Confirm \/ PollAndRecord \/ FinalPoll)

Surroundings ==
  \/ \E t \in inTransit : LateInclusion(t)
  \/ RunnerInitiates
  \/ \E i \in ActionIds :
       \/ RunnerContinues(i)
       \/ ActionLeavesExecuted(i)
       \/ ListenerReads(i)
  \/ ListenerWrites
=============================================================================
