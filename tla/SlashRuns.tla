------------------------------ MODULE SlashRuns ------------------------------
(***************************************************************************)
(* The scripts that leave slashed actions on the second controller as      *)
(* evidence: v2-duplicate-slash.ts, which pays one claim twice, or takes   *)
(* up a duplicate that the operator names, and v2-delivery-slash.ts, which *)
(* signs, for the action that it expects, that the goods did not arrive.   *)
(* Neither reads the chain.  Both name their actions by numbers fixed      *)
(* beforehand, and stop at the first call that reverts or is not seen      *)
(* executed in time.  Meanwhile the arm service sends with the same agent  *)
(* key, and watchdog and keeper settle what they find.                     *)
(***************************************************************************)
EXTENDS Integers, Sequences, FiniteSets

CONSTANTS
  Approved,    \* the bond that the delivery script approves, in basis points:
               \* 500, or what V2_DELIVERY_BOND_REQUIRED makes it
  MaxRuns,     \* bound on runs of the scripts
  MaxTimeouts, \* bound on calls whose sender does not see the outcome
  MaxOthers    \* bound on actions of the arm service, and on calls of watchdog
               \* and keeper

ASSUME SlashAssumption == Approved \in Nat /\ {MaxRuns, MaxTimeouts, MaxOthers} \subseteq Nat

VARIABLES
  chain,     \* what the contracts record
  late,      \* calls that may still be included
  runs,      \* how many were started
  running,   \* what the script has still to call, and what it reports then
  shown,     \* the reports
  timeouts,
  others     \* how many of them there were

slashVars == <<chain, late, runs, running, shown, timeouts, others>>

NotRunning == [calls |-> <<>>, report |-> {}]

SlashInit ==
  /\ chain = [actions |-> <<>>, invoices |-> {}, score |-> 0, allowance |-> 0]
  /\ late = {}
  /\ runs = 0
  /\ running = NotRunning
  /\ shown = {}
  /\ timeouts = 0
  /\ others = 0

-----------------------------------------------------------------------------
(* The contracts, for one agent and invoices of one amount.  The scripts   *)
(* resolve what they have challenged, so that no resolve is a refund.      *)

RequiredNow ==
  500 + (IF chain.score >= 0 THEN 0 ELSE IF -chain.score < 300 THEN -chain.score ELSE 300)

Numbers == DOMAIN chain.actions
Stands(n, status) == n \in Numbers /\ chain.actions[n].status = status
Executed == {n \in Numbers : chain.actions[n].status \notin {"Initiated", "Bonded"}}

\* The duplicates of every run, and those of the arm service, have one claim;
\* the invoices of the delivery script have each its own.
SameClaim(i, j) == i.kind = "duplicate" /\ j.kind = "duplicate"

\* Mutant of Contradicts: the attestation is not bound to the invoice.
ContradictsAny(n, c) == c.attested # {}

Contradicts(n, c) == c.attested = {[number |-> n, invoice |-> chain.actions[n].invoice]}

Takes(c) ==
  \/ c.entry = "submit" /\ c.invoice \notin chain.invoices
  \/ c.entry \in {"initiate", "approve"}
  \/ /\ c.entry = "post"
     /\ Stands(c.number, "Initiated") /\ chain.allowance >= chain.actions[c.number].bond
  \/ /\ c.entry = "execute"
     /\ Stands(c.number, "Bonded")
     /\ chain.actions[c.number].invoice \in
          chain.invoices \ {chain.actions[n].invoice : n \in Executed}
  \/ /\ c.entry = "challenge"
     /\ Stands(c.number, "Executed")
     /\ IF c.attested = {} THEN chain.actions[c.number].duplicate
        ELSE Contradicts(c.number, c)
  \/ c.entry = "resolve" /\ Stands(c.number, "Challenged")

With(n, status) == [chain EXCEPT !.actions[n].status = status]

Then(c) ==
  CASE c.entry = "submit"    -> [chain EXCEPT !.invoices = @ \cup {c.invoice}]
    [] c.entry = "initiate"  -> [chain EXCEPT !.actions = Append(@,
                                  [invoice |-> c.invoice, status |-> "Initiated",
                                   bond |-> RequiredNow, duplicate |-> FALSE])]
    [] c.entry = "approve"   -> [chain EXCEPT !.allowance = c.number]
    [] c.entry = "post"      -> [With(c.number, "Bonded") EXCEPT
                                   !.allowance = @ - chain.actions[c.number].bond]
    [] c.entry = "execute"   -> [With(c.number, "Executed") EXCEPT
                                   !.actions[c.number].duplicate =
                                     \E n \in Executed :
                                       SameClaim(chain.actions[n].invoice,
                                                 chain.actions[c.number].invoice)]
    [] c.entry = "challenge" -> With(c.number, "Challenged")
    [] c.entry = "resolve"   -> [With(c.number, "ResolvedSlash") EXCEPT !.score = @ - 50]

Does(c) == Takes(c) /\ chain' = Then(c)

-----------------------------------------------------------------------------
(* The scripts.                                                            *)

CallOf(entry, number, invoice, attested) ==
  [entry |-> entry, number |-> number, invoice |-> invoice, attested |-> attested]

PaysFor(n, i, bond) ==
  <<CallOf("submit", 0, i, {}), CallOf("initiate", 0, i, {}), CallOf("approve", bond, i, {}),
    CallOf("post", n, i, {}), CallOf("execute", n, i, {})>>

Slashes(n, i, attested) ==
  <<CallOf("challenge", n, i, attested), CallOf("resolve", n, i, {})>>

Of(kind, at) == [kind |-> kind, run |-> runs, at |-> at]

RunBegins(calls, report) ==
  /\ running = NotRunning
  /\ runs < MaxRuns
  /\ runs' = runs + 1
  /\ running' = [calls |-> calls, report |-> report]
  /\ UNCHANGED <<chain, late, shown, timeouts, others>>

\* On a new controller the two actions have the first two numbers.
DuplicateRun ==
  LET first == Of("duplicate", 1)
      second == Of("duplicate", 2)
  IN  RunBegins(PaysFor(1, first, 500) \o PaysFor(2, second, 500) \o Slashes(2, second, {}),
             {[number |-> 2, invoice |-> {}]})

\* V2_EXISTING_DUPLICATE_ACTION_ID.
ExistingRun(n) ==
  RunBegins(Slashes(n, Of("duplicate", n), {}), {[number |-> n, invoice |-> {}]})

\* runCase.
DeliveryCase(n) ==
  LET i == Of("delivery", n)
  IN  PaysFor(n, i, Approved) \o Slashes(n, i, {[number |-> n, invoice |-> i]})

\* Two cases, from V2_DELIVERY_START_ACTION_ID on.
DeliveryRun(n) ==
  RunBegins(DeliveryCase(n) \o DeliveryCase(n + 1),
         {[number |-> m, invoice |-> {Of("delivery", m)}] : m \in {n, n + 1}})

\* Mutant of NotSeen: a call that is not seen executed is taken for executed.
NotSeenGoesOn == running' = [running EXCEPT !.calls = Tail(@)]

NotSeen == running' = NotRunning

\* call: sent, and seen executed; a call that reverts ends the script.
ScriptCalls ==
  /\ running.calls # <<>>
  /\ LET c == Head(running.calls) IN
     \/ Does(c) /\ running' = [running EXCEPT !.calls = Tail(@)]
     \/ ~Takes(c) /\ running' = NotRunning /\ UNCHANGED chain
  /\ UNCHANGED <<late, runs, shown, timeouts, others>>

\* waitFor ends after three minutes, or a read of it fails.
ScriptTimesOut ==
  /\ running.calls # <<>>
  /\ timeouts < MaxTimeouts
  /\ timeouts' = timeouts + 1
  /\ late' \in {late, late \cup {Head(running.calls)}}
  /\ NotSeen
  /\ UNCHANGED <<chain, runs, shown, others>>

ScriptReports ==
  /\ running # NotRunning /\ running.calls = <<>>
  /\ shown' = shown \cup running.report
  /\ running' = NotRunning
  /\ UNCHANGED <<chain, late, runs, timeouts, others>>

-----------------------------------------------------------------------------
(* The chain, and those who share it.                                      *)

Includes(c) ==
  /\ late' = late \ {c}
  /\ IF Takes(c) THEN Does(c) ELSE UNCHANGED chain
  /\ UNCHANGED <<runs, running, shown, timeouts, others>>

Foreign(i) == i.run = MaxRuns + 1
Foreigners == {n \in Numbers : Foreign(chain.actions[n].invoice)}

Another == others < MaxOthers /\ others' = others + 1

\* The arm service pays invoices of its own, one call after another.
ArmCalls ==
  /\ \/ /\ Another
        /\ \E kind \in {"duplicate", "paid"} :
             LET i == [kind |-> kind, run |-> MaxRuns + 1, at |-> 1 + Cardinality(Foreigners)]
             IN  chain' = [Then(CallOf("initiate", 0, i, {})) EXCEPT !.invoices = @ \cup {i}]
     \/ /\ \E n \in Foreigners :
             \/ /\ Stands(n, "Initiated") /\ chain.allowance # chain.actions[n].bond
                /\ chain' = [chain EXCEPT !.allowance = chain.actions[n].bond]
             \/ \E entry \in {"post", "execute"} :
                  Does(CallOf(entry, n, chain.actions[n].invoice, {}))
        /\ UNCHANGED others
  /\ UNCHANGED <<late, runs, running, shown, timeouts>>

OthersSettle(n) ==
  /\ Another
  /\ \/ Does(CallOf("challenge", n, chain.actions[n].invoice, {}))
     \/ Does(CallOf("resolve", n, chain.actions[n].invoice, {}))
     \/ Stands(n, "Executed") /\ chain' = [With(n, "ResolvedRefund") EXCEPT !.score = @ + 10]
  /\ UNCHANGED <<late, runs, running, shown, timeouts>>

SlashNext ==
  \/ DuplicateRun \/ (\E n \in Numbers : ExistingRun(n)) \/ DeliveryRun(Len(chain.actions) + 1)
  \/ DeliveryRun(3)
  \/ ScriptCalls \/ ScriptTimesOut \/ ScriptReports
  \/ \E c \in late : Includes(c)
  \/ ArmCalls \/ \E n \in Numbers : OthersSettle(n)

-----------------------------------------------------------------------------
(***************************************************************************)
(* What a script reports as slashed is: though it never asks what became   *)
(* of its calls but whether they were executed, though earlier runs left   *)
(* calls behind and others settle its actions, initiate in between and so  *)
(* move the numbers that it has fixed.  A delivery report is about the     *)
(* invoice of that very run, too.                                          *)
(***************************************************************************)
ReportIsSlash ==
  \A r \in shown :
    /\ Stands(r.number, "ResolvedSlash")
    /\ r.invoice \subseteq {chain.actions[r.number].invoice}
=============================================================================
