------------------------------ MODULE DemoRuns ------------------------------
(***************************************************************************)
(* The demo on the deployed suite: backend/src/demo.ts, which runs scripts *)
(* /seed.ts first, and executeBondedInvoice of casper/actions.ts, which    *)
(* both use.  The program keeps nothing between runs that decides what it  *)
(* does: it reads the chain and takes up what it finds there, so that the  *)
(* operator may start it again after any failure.  Beside it the watchdog, *)
(* the listener's keeper and the agent runner send their own transactions. *)
(* Decisions, funding and the evidence files are left out; the last are    *)
(* written and, but for old transaction hashes, not read.                  *)
(***************************************************************************)
EXTENDS Wiring, Integers, Sequences, FiniteSets

\* Bound on the disturbances of a behaviour: calls whose sender does not learn
\* the outcome, commands that are sent once more, scans of the actions that a
\* failed read cuts short, and actions that the agent runner initiates.
CONSTANT MaxDisturbances

ASSUME DemoAssumption == MaxDisturbances \in Nat

VARIABLES
  suite,     \* what the contracts record of the demo
  over,      \* the actions whose challenge window has ended
  demo,      \* the program
  lateCalls, \* calls of a stopped program that may still be included
  reported,  \* the program has printed its report
  repeats,
  misreads

demoVars == <<suite, over, demo, lateCalls, reported, repeats, misreads>>
allVars == <<wiringVars, deaths, demoVars>>

\* Baseline and duplicate share a claim; all three have one amount.
InSequence == <<"baseline", "duplicate", "clean">>
Invoices == {"baseline", "duplicate", "clean"}
Claim(i) == IF i = "clean" THEN "GBX-8872" ELSE "GBX-8871"

\* id: the action at hand; accused: the duplicate's.
NoDemo == [pc |-> "none", invoice |-> "baseline", id |-> 0, bond |-> 0, accused |-> 0]

DemoInit ==
  /\ WiringInit
  /\ suite = [submitted |-> {}, actions |-> <<>>, score |-> 0, allowance |-> 0]
  /\ over = {}
  /\ demo = NoDemo
  /\ lateCalls = {}
  /\ reported = FALSE
  /\ repeats = 0
  /\ misreads = 0

-----------------------------------------------------------------------------
(* The contracts, as the calls of these programs meet them.                *)

Rate ==
  500 + (IF suite.score >= 0 THEN 0 ELSE IF -suite.score < 300 THEN -suite.score ELSE 300)

Ids == 1..Len(suite.actions)
Paid == {k \in Ids : suite.actions[k].status \notin {"Initiated", "Bonded"}}
In(k, status) == k \in Ids /\ suite.actions[k].status = status
Own(k) == suite.actions[k].invoice \in Invoices

Disturbances == deaths + repeats + misreads + Cardinality({k \in Ids : ~Own(k)})
Disturbable == Disturbances < MaxDisturbances

Accepts(c) ==
  \/ c.kind = "submit" /\ c.invoice \notin suite.submitted
  \/ c.kind \in {"initiate", "approve"}
  \/ /\ c.kind = "post"
     /\ In(c.id, "Initiated") /\ Own(c.id)
     /\ suite.allowance >= suite.actions[c.id].bond
  \/ /\ c.kind = "execute"
     /\ In(c.id, "Bonded")
     /\ suite.actions[c.id].invoice \in
          suite.submitted \ {suite.actions[k].invoice : k \in Paid}
  \/ /\ c.kind = "challenge"
     /\ In(c.id, "Executed") /\ c.id \notin over /\ suite.actions[c.id].duplicate
  \/ /\ c.kind = "resolve"
     /\ In(c.id, "Challenged") \/ (In(c.id, "Executed") /\ c.id \in over)

Initiated(i) == [invoice |-> i, status |-> "Initiated", bond |-> Rate, duplicate |-> FALSE]

Sets(k, status) == [suite EXCEPT !.actions[k].status = status]

After(c) ==
  CASE c.kind = "submit"    -> [suite EXCEPT !.submitted = @ \cup {c.invoice}]
    [] c.kind = "initiate"  -> [suite EXCEPT !.actions = Append(@, Initiated(c.invoice))]
    [] c.kind = "approve"   -> [suite EXCEPT !.allowance = c.bond]
    [] c.kind = "post"      -> [Sets(c.id, "Bonded") EXCEPT
                                  !.allowance = @ - suite.actions[c.id].bond]
    [] c.kind = "execute"   -> [Sets(c.id, "Executed") EXCEPT !.actions[c.id].duplicate =
                                  \E k \in Paid : Claim(suite.actions[k].invoice)
                                                    = Claim(suite.actions[c.id].invoice)]
    [] c.kind = "challenge" -> Sets(c.id, "Challenged")
    [] c.kind = "resolve"   -> IF In(c.id, "Challenged")
                               THEN [Sets(c.id, "ResolvedSlash") EXCEPT !.score = @ - 50]
                               ELSE [Sets(c.id, "ResolvedRefund") EXCEPT !.score = @ + 10]

Makes(c) == Accepts(c) /\ suite' = After(c)

-----------------------------------------------------------------------------
(* The program.                                                            *)

Goes(pc) == demo' = [demo EXCEPT !.pc = pc]
Throws == demo' = NoDemo
Reads == UNCHANGED <<suite, over, lateCalls, reported, repeats>>

\* chainActions reads one action after another and takes the first failed
\* read for the end, be it that there is no action or that the node fails.
Scans(n) ==
  \/ n = Len(suite.actions) /\ UNCHANGED misreads
  \/ /\ n < Len(suite.actions)
     /\ Disturbable
     /\ misreads' = misreads + 1

Lists == 0..Len(suite.actions)

\* Mutant of Find: the last action of the invoice is taken.
FindLast(i, n) ==
  {k \in 1..n : /\ suite.actions[k].invoice = i
                /\ \A l \in k + 1..n : suite.actions[l].invoice # i}

Find(i, n) ==
  {k \in 1..n : /\ suite.actions[k].invoice = i
                /\ \A l \in 1..k - 1 : suite.actions[l].invoice # i}

Start ==
  /\ served
  /\ demo.pc = "none"
  /\ Goes("invoices")
  /\ UNCHANGED misreads /\ Reads

\* The invoices the pool has not got are submitted, one after another.
CheckInvoices ==
  LET missing == SelectSeq(InSequence, LAMBDA i : i \notin suite.submitted) IN
  /\ demo.pc = "invoices"
  /\ demo' = IF missing = <<>>
             THEN [demo EXCEPT !.pc = "find", !.invoice = "baseline"]
             ELSE [demo EXCEPT !.pc = "submit", !.invoice = Head(missing)]
  /\ UNCHANGED misreads /\ Reads

\* Mutant of CleanGoesOn: a bonded action is not taken up.
CleanStays(k) ==
  CASE In(k, "Initiated") -> "price"
    [] In(k, "Executed")  -> "window"
    [] OTHER              -> "verify"

CleanGoesOn(k) ==
  CASE In(k, "Initiated") -> "price"
    [] In(k, "Bonded")    -> "execute"
    [] In(k, "Executed")  -> "window"
    [] OTHER              -> "verify"

\* What follows an action of the invoice: it was there, or it was executed.
Follows(i, k) ==
  CASE i = "baseline"  -> [NoDemo EXCEPT !.pc = "find", !.invoice = "duplicate"]
    [] i = "duplicate" -> [NoDemo EXCEPT !.pc = "accuse", !.accused = k]
    [] i = "clean"     -> [demo EXCEPT !.pc = CleanGoesOn(k), !.id = k]

FindAction(n) ==
  LET found == Find(demo.invoice, n) IN
  /\ demo.pc = "find"
  /\ Scans(n)
  /\ IF found = {} THEN Goes("predict")
     ELSE \E k \in found : demo' = Follows(demo.invoice, k)
  /\ Reads

\* executeBondedInvoice: the next action is expected to follow the last.
Predict(n) ==
  /\ demo.pc = "predict"
  /\ Scans(n)
  /\ demo' = [demo EXCEPT !.pc = "initiate", !.id = n + 1]
  /\ Reads

\* get_bond_required, after the initiation.
ReadBond ==
  /\ demo.pc = "price"
  /\ demo' = [demo EXCEPT !.pc = "approve", !.bond = Rate]
  /\ UNCHANGED misreads /\ Reads

\* The clean action is looked up again once it is executed.
LookAgain(n) ==
  /\ demo.pc = "again"
  /\ Scans(n)
  /\ IF demo.id > n THEN Throws ELSE Goes(CleanGoesOn(demo.id))
  /\ Reads

CheckDuplicate(n) ==
  /\ demo.pc \in {"accuse", "settle"}
  /\ Scans(n)
  /\ IF demo.accused > n THEN Throws
     ELSE IF demo.pc = "accuse"
     THEN Goes(IF In(demo.accused, "Executed") THEN "challenge" ELSE "settle")
     ELSE IF In(demo.accused, "Challenged") THEN Goes("slash")
     ELSE demo' = [demo EXCEPT !.pc = "find", !.invoice = "clean"]
  /\ Reads

\* The wait is until the window's end, whatever becomes of the action.
AwaitWindow ==
  /\ demo.pc = "window"
  /\ demo.id \in over \/ ~In(demo.id, "Executed")
  /\ Goes("refund")
  /\ UNCHANGED misreads /\ Reads

Verify(n) ==
  /\ demo.pc = "verify"
  /\ Scans(n)
  /\ reported' =
       \/ reported
       \/ /\ demo.accused <= n /\ In(demo.accused, "ResolvedSlash")
          /\ demo.id <= n /\ In(demo.id, "ResolvedRefund")
  /\ Throws
  /\ UNCHANGED <<suite, over, lateCalls, repeats>>

Sending ==
  {"submit", "initiate", "approve", "post", "execute", "challenge", "slash", "refund"}

Call ==
  [kind    |-> IF demo.pc \in {"slash", "refund"} THEN "resolve" ELSE demo.pc,
   invoice |-> demo.invoice,
   id      |-> IF demo.pc \in {"challenge", "slash"} THEN demo.accused ELSE demo.id,
   bond    |-> demo.bond]

Told ==
  CASE demo.pc = "submit"    -> [demo EXCEPT !.pc = "invoices"]
    [] demo.pc = "initiate"  -> [demo EXCEPT !.pc = "price"]
    [] demo.pc = "approve"   -> [demo EXCEPT !.pc = "post"]
    [] demo.pc = "post"      -> [demo EXCEPT !.pc = "execute", !.bond = 0]
    [] demo.pc = "execute"   -> IF demo.invoice = "clean" THEN [demo EXCEPT !.pc = "again"]
                                ELSE Follows(demo.invoice, demo.id)
    [] demo.pc = "challenge" -> [demo EXCEPT !.pc = "settle"]
    [] demo.pc = "slash"     -> [demo EXCEPT !.pc = "find", !.invoice = "clean"]
    [] demo.pc = "refund"    -> [demo EXCEPT !.pc = "verify"]

CallContract ==
  /\ demo.pc \in Sending
  /\ \/ Makes(Call) /\ demo' = Told
     \/ ~Accepts(Call) /\ Throws /\ UNCHANGED suite
  /\ UNCHANGED <<over, lateCalls, reported, repeats, misreads>>

\* The sender is not told, or dies; the call may be included later.
CallLost ==
  /\ demo.pc \in Sending
  /\ deaths < MaxDeaths /\ Disturbable
  /\ deaths' = deaths + 1
  /\ lateCalls' \in {lateCalls, lateCalls \cup {Call}}
  /\ Throws
  /\ UNCHANGED <<suite, over, reported, repeats, misreads>>

\* The command fails after its call was included, and runs once more against
\* the public node.
CallRepeated ==
  /\ demo.pc \in Sending
  /\ Disturbable
  /\ repeats' = repeats + 1
  /\ Makes(Call)
  /\ UNCHANGED <<over, demo, lateCalls, reported, misreads>>

LateCall(c) ==
  /\ lateCalls' = lateCalls \ {c}
  /\ IF Accepts(c) THEN Makes(c) ELSE UNCHANGED suite
  /\ UNCHANGED <<over, demo, reported, repeats, misreads>>

-----------------------------------------------------------------------------
(* The others: the watchdog and the keeper, and the agent runner.          *)

OthersCall(k) ==
  /\ \E kind \in {"challenge", "resolve"} :
       Makes([kind |-> kind, invoice |-> "clean", id |-> k, bond |-> 0])
  /\ UNCHANGED <<over, demo, lateCalls, reported, repeats, misreads>>

RunAgent ==
  /\ Disturbable
  /\ Makes([kind |-> "initiate", invoice |-> "other", id |-> 0, bond |-> 0])
  /\ UNCHANGED <<over, demo, lateCalls, reported, repeats, misreads>>

WindowEnds(k) ==
  /\ In(k, "Executed") /\ k \notin over
  /\ over' = over \cup {k}
  /\ UNCHANGED <<suite, demo, lateCalls, reported, repeats, misreads>>

DemoStep ==
  \/ Start \/ CheckInvoices
  \/ \E n \in Lists : FindAction(n) \/ Predict(n) \/ LookAgain(n) \/ CheckDuplicate(n) \/ Verify(n)
  \/ ReadBond
  \/ AwaitWindow
  \/ CallContract

Surroundings ==
  \/ \E c \in lateCalls : LateCall(c)
  \/ \E k \in Ids : OthersCall(k) \/ WindowEnds(k)
  \/ served /\ RunAgent

DemoNext ==
  \/ WiringNext /\ UNCHANGED demoVars
  \/ (DemoStep \/ CallRepeated \/ Surroundings) /\ UNCHANGED <<wiringVars, deaths>>
  \/ CallLost /\ UNCHANGED wiringVars

DemoSpec == DemoInit /\ [][DemoNext]_allVars

(***************************************************************************)
(* The operator runs each script again until it has succeeded, turning to  *)
(* wire-v2 as well as to deploy-v2; a program that runs goes on; and block *)
(* time passes.  Nobody else has to do anything.                           *)
(***************************************************************************)
DemoFair ==
  /\ DemoSpec
  /\ SF_allVars(StartWire /\ UNCHANGED demoVars)
  /\ WF_allVars(\/ (StartDeploy \/ ScriptStep) /\ UNCHANGED demoVars
                \/ DemoStep /\ UNCHANGED <<wiringVars, deaths>>)
  /\ WF_allVars(\E k \in Ids : WindowEnds(k) /\ UNCHANGED <<wiringVars, deaths>>)

-----------------------------------------------------------------------------
(***************************************************************************)
(* However often the demo is run again, whatever was sent twice and was    *)
(* initiated by others in between, one action at most is bonded for an     *)
(* invoice, since a second could never be executed and its bond never come *)
(* back.  Each scan that is cut short may add one, and so may each call of *)
(* a stopped run, which takes the id that a later run has predicted.       *)
(***************************************************************************)
OneBondPerInvoice ==
  \A i \in Invoices :
    Cardinality({k \in Ids : /\ suite.actions[k].invoice = i
                             /\ suite.actions[k].status # "Initiated"}) <= 1 + misreads + deaths

(***************************************************************************)
(* Once the duplicate is accused the demo can always be brought to its     *)
(* report, from wherever earlier runs have stopped, but in two cases.  The *)
(* clean action asks for more than the agent's present rate: its bond was  *)
(* fixed at its initiation, and the rate is read after it.  Or a second    *)
(* action of the clean invoice was paid, and the program takes the first.  *)
(***************************************************************************)
Accused ==
  \E k \in Find("duplicate", Len(suite.actions)) :
    In(k, "Challenged") \/ In(k, "ResolvedSlash")

Overpriced ==
  \E k \in Ids : /\ suite.actions[k].invoice = "clean"
                 /\ In(k, "Initiated") /\ suite.actions[k].bond > Rate

Overtaken ==
  \E k \in Find("clean", Len(suite.actions)), l \in Paid :
    l # k /\ suite.actions[l].invoice = "clean"

DemoReports == Accused ~> (reported \/ Overpriced \/ Overtaken)
=============================================================================
