----------------------------- MODULE QuotedBonds -----------------------------
(***************************************************************************)
(* What a paid quote promises of the bond: the price of backend/src/policy *)
(* /engine.ts at the reputation the database has, the check of the quote   *)
(* at submission (assertQuotePolicyFresh of api/routes.ts, which asks the  *)
(* controller and falls back on the database), and the action the run of   *)
(* armOnce initiates or resumes for it some time later, on the contracts   *)
(* of BondsmanController.  The requests of one quote, its payment and the  *)
(* course of the run are in PaidQuotes and ArmService.                     *)
(***************************************************************************)
EXTENDS BondsmanController, Sequences

CONSTANTS
  QuoteAgent,    \* the agent of the deployment, which acts for the quotes
  Unknown,       \* the score assumed of an agent the database has not got
  DemoAmount,    \* the amount of demoInvoices[0], of every duplicate run
  Collision,     \* its claim hash
  MaxQuotes      \* bound on quotes

ASSUME QuotedBondsAssumption ==
  /\ QuoteAgent \in Agents
  /\ Unknown \in Int
  /\ DemoAmount \in InvoiceAmounts
  /\ Collision \in ClaimHashes
  /\ MaxQuotes \in Nat

VARIABLES
  projected,  \* the row of agent_reputation: a set of one score, or none
  reading,    \* what reconcileChain has read and not yet written
  quotes

quoteVars == <<projected, reading, quotes>>
allVars == <<vars, quoteVars>>

QInit ==
  /\ Init
  /\ projected = {}
  /\ reading = {}
  /\ quotes = <<>>

-----------------------------------------------------------------------------
(* The policy engine.                                                      *)

Abs(n) == IF n < 0 THEN -n ELSE n

basePoints(amount) ==
  CASE amount >= 50000 * TokenUnit -> 500
    [] amount < 10000 * TokenUnit  -> 200
    [] OTHER                       -> 300

\* Mutant of penaltyPoints: the score counts whatever its sign.
pointsOfMagnitude(score) == IF Abs(score) < 300 THEN Abs(score) ELSE 300

penaltyPoints(score) ==
  IF score < 0 THEN IF Abs(score) < 300 THEN Abs(score) ELSE 300 ELSE 0

bondBasisPoints(amount, score) == basePoints(amount) + penaltyPoints(score)

priceBond(amount, score) == (amount * bondBasisPoints(amount, score)) \div 10000

ProjectedScore == IF projected = {} THEN Unknown ELSE CHOOSE s \in projected : TRUE

-----------------------------------------------------------------------------
(* The reputation in the database: read from the chain with an action of   *)
(* the agent, and written an await later.                                  *)

ReadReputation ==
  /\ reading = {}
  /\ \E id \in ActionIds : actions[id].status # "None" /\ actions[id].agent = QuoteAgent
  /\ reading' = {reputation[QuoteAgent].score}
  /\ UNCHANGED <<vars, projected, quotes>>

SetReputation ==
  /\ reading # {}
  /\ projected' = reading
  /\ reading' = {}
  /\ UNCHANGED <<vars, quotes>>

-----------------------------------------------------------------------------
(* Quotes.  seen: the score behind the price that the check accepted;      *)
(* action: the action of the quote's run, initiated or resumed.            *)

FaultClasses == {"duplicate", "delivery"}

\* A quote is sold for any amount, whatever the class.
QuoteResponse(class, amount) ==
  /\ Len(quotes) < MaxQuotes
  /\ quotes' = Append(quotes,
       [class |-> class, amount |-> amount,
        minimum |-> priceBond(amount, ProjectedScore),
        status |-> "paid", seen |-> {}, action |-> {}])
  /\ UNCHANGED <<vars, projected, reading>>

\* Mutant of MinimumSatisfied: a bond below the minimum is let through.
WithinUnit(expected, minimum) == expected + 1 >= minimum

MinimumSatisfied(expected, minimum) == expected >= minimum

Reserved(q, score) ==
  quotes' = [quotes EXCEPT ![q].status = "consuming", ![q].seen = {score}]

SubmitQuote(q) ==
  LET quote == quotes[q] IN
  /\ quote.status = "paid"
  /\ \/ /\ MinimumSatisfied(BondRequired(quote.amount, QuoteAgent), quote.minimum)
        /\ Reserved(q, reputation[QuoteAgent].score)
     \/ /\ MinimumSatisfied(priceBond(quote.amount, ProjectedScore), quote.minimum)
        /\ Reserved(q, ProjectedScore)
  /\ UNCHANGED <<vars, projected, reading>>

RunPending(q) == quotes[q].status = "consuming" /\ quotes[q].action = {}

\* A duplicate is the demo invoice again; a delivery has a claim of its own.
RunAmount(quote) == IF quote.class = "duplicate" THEN DemoAmount ELSE quote.amount
RunClaims(quote) == IF quote.class = "duplicate" THEN {Collision} ELSE ClaimHashes

InitiateQuoted(q) ==
  /\ RunPending(q)
  /\ \E i \in InvoiceIds, h \in RunClaims(quotes[q]) :
       InitiateAction(QuoteAgent, i, h, RunAmount(quotes[q]))
  /\ quotes' = [quotes EXCEPT ![q].action = {nextActionId}]
  /\ UNCHANGED <<projected, reading>>

\* A duplicate run goes on with an unfinished action, whoever initiated it
\* and for whatever amount; the scan may also miss it.
ResumePending(q) ==
  /\ RunPending(q)
  /\ quotes[q].class = "duplicate"
  /\ \E id \in ActionIds :
       /\ actions[id].status \in {"Initiated", "Bonded"}
       /\ actions[id].claimHash = Collision
       /\ invoices[actions[id].invoiceId].state = "Unpaid"
       /\ quotes' = [quotes EXCEPT ![q].action = {id}]
  /\ UNCHANGED <<vars, projected, reading>>

\* The run ends: it has bonded its action, or it throws.
ConsumeOrRelease(q) ==
  /\ quotes[q].status = "consuming"
  /\ \/ /\ \E id \in quotes[q].action : actions[id].status \notin {"Initiated", "Bonded"}
        /\ quotes' = [quotes EXCEPT ![q].status = "consumed"]
     \/ quotes' = [quotes EXCEPT ![q].status = "paid", ![q].seen = {}, ![q].action = {}]
  /\ UNCHANGED <<vars, projected, reading>>

QNext ==
  \/ Next /\ UNCHANGED quoteVars
  \/ ReadReputation \/ SetReputation
  \/ \E class \in FaultClasses, amount \in InvoiceAmounts : QuoteResponse(class, amount)
  \/ \E q \in 1..Len(quotes) :
       SubmitQuote(q) \/ InitiateQuoted(q) \/ ResumePending(q) \/ ConsumeOrRelease(q)

QSpec == QInit /\ [][QNext]_allVars

QFair == QSpec /\ ResolveFairness

-----------------------------------------------------------------------------
(***************************************************************************)
(* The backend prices a bond as the contract does, at every score an agent *)
(* comes to have: a quote priced at the present score is never refused.    *)
(***************************************************************************)
PolicyIsControllers ==
  \A u \in Users, amount \in InvoiceAmounts :
    priceBond(amount, reputation[u].score) = BondRequired(amount, u)

(***************************************************************************)
(* The bond of a quote's action is at least the quoted minimum, although   *)
(* the check, the reads behind it and the initiation are awaits apart and  *)
(* refunds and slashes of the agent's other actions come between, except   *)
(* that the score may have risen above the one the check has seen, and a   *)
(* duplicate may be run for another amount than it was quoted for, or go   *)
(* on with an action whose bond was fixed before.                          *)
(***************************************************************************)
MinimumHolds ==
  [][\A q \in 1..Len(quotes) : \A id \in quotes'[q].action :
       quotes[q].action = {} =>
         \/ actions'[id].bondRequired >= quotes[q].minimum
         \/ \E s \in quotes[q].seen : reputation[QuoteAgent].score > s
         \/ /\ quotes[q].class = "duplicate"
            /\ actions[id].status # "None" \/ quotes[q].amount # DemoAmount]_allVars
=============================================================================
