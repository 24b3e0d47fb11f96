----------------------------- MODULE PaidQuotes -----------------------------
(***************************************************************************)
(* Paid quotes: backend/src/api/routes.ts (/v1/actions/quote and           *)
(* /v1/actions/submit), the paid_quotes and nonce tables of                *)
(* db/repositories.ts, and the service that creates the action.  A request *)
(* checks the quote, waits for the policy, spends its authorization and    *)
(* reserves the quote; when the action is there it consumes the quote, and *)
(* when anything throws it releases it.                                    *)
(***************************************************************************)
EXTENDS ArmService

CONSTANTS
  Quotes,
  QuoteOf,   \* QuoteOf[j]: the quote of submit request j, or Operator
  NonceOf,   \* NonceOf[j]: the authorization j carries
  Operator   \* the operator's calls of arm

Submits == {j \in Jobs : QuoteOf[j] # Operator}

ASSUME QuoteAssumption ==
  /\ Operator \notin Quotes
  /\ QuoteOf \in [Jobs -> Quotes \cup {Operator}]
  /\ Jobs \subseteq DOMAIN NonceOf
  /\ \A j \in Jobs \ Submits : ClassOf[j] = "duplicate"
  /\ \A j, k \in Submits : QuoteOf[j] = QuoteOf[k] => ClassOf[j] = ClassOf[k]

VARIABLES
  quote,        \* quote[q]: none, paid, consuming or consumed
  quoteAction,  \* quoteAction[q]: the action it was consumed for, or 0
  usedNonces,
  request       \* request[j]: where the handler of j is

quoteVars == <<quote, quoteAction, usedNonces, request>>
vars == <<armVars, quoteVars>>

RequestStates ==
  {"new", "checked", "submitted", "answered", "refused", "lost"}

Init ==
  /\ ArmInit
  /\ quote = [q \in Quotes |-> "none"]
  /\ quoteAction = [q \in Quotes |-> 0]
  /\ usedNonces = {}
  /\ request = [j \in Jobs |-> "new"]

Upserted(status) == IF status = "none" THEN "paid" ELSE status

\* The payment is settled and the quote stored; a conflict keeps the status.
StoreQuote(q) ==
  /\ quote' = [quote EXCEPT ![q] = Upserted(@)]
  /\ UNCHANGED <<armVars, quoteAction, usedNonces, request>>

\* The checks before the handler waits for the current bond policy.
CheckSubmit(j) ==
  /\ request[j] = "new"
  /\ quote[QuoteOf[j]] = "paid"
  /\ request' = [request EXCEPT ![j] = "checked"]
  /\ UNCHANGED <<armVars, quote, quoteAction, usedNonces>>

\* Mutant of Unused: the nonce table is not consulted.
AnyNonce(nonce) == TRUE

Unused(nonce) == nonce \notin usedNonces

\* Mutant of Available: the check before the await is relied on.
CheckedBefore(q) == quote[q] # "none"

Available(q) == quote[q] = "paid"

\* After the await, without another: authorization, nonce, reservation.
AcceptSubmit(j) ==
  /\ request[j] = "checked"
  /\ Unused(NonceOf[j])
  /\ usedNonces' = usedNonces \cup {NonceOf[j]}
  /\ IF Available(QuoteOf[j])
     THEN /\ quote' = [quote EXCEPT ![QuoteOf[j]] = "consuming"]
          /\ request' = [request EXCEPT ![j] = "submitted"]
          /\ Enqueue(j)
     ELSE /\ request' = [request EXCEPT ![j] = "refused"]
          /\ UNCHANGED <<armVars, quote>>
  /\ UNCHANGED quoteAction

\* A check fails: the quote expired, the policy changed, a bad signature.
RefuseSubmit(j) ==
  /\ request[j] \in {"new", "checked"}
  /\ request' = [request EXCEPT ![j] = "refused"]
  /\ UNCHANGED <<armVars, quote, quoteAction, usedNonces>>

\* The operator's demo: arm without a quote.
CallArm(j) ==
  /\ request[j] = "new"
  /\ request' = [request EXCEPT ![j] = "submitted"]
  /\ Enqueue(j)
  /\ UNCHANGED <<quote, quoteAction, usedNonces>>

\* Mutant of Released: the catch block is missing.
KeptReserved(status) == status

Released(status) == IF status = "consuming" THEN "paid" ELSE status

\* The handler resumes once its call of the service has ended.
Answer(j) ==
  LET q == QuoteOf[j] IN
  /\ request[j] = "submitted"
  /\ result[j] # 0
  /\ request' = [request EXCEPT ![j] = "answered"]
  /\ \/ q = Operator /\ UNCHANGED <<quote, quoteAction>>
     \/ /\ q # Operator
        /\ result[j] = Failed
        /\ quote' = [quote EXCEPT ![q] = Released(@)]
        /\ UNCHANGED quoteAction
     \/ /\ q # Operator
        /\ result[j] # Failed
        /\ quote[q] = "consuming"
        /\ quote' = [quote EXCEPT ![q] = "consumed"]
        /\ quoteAction' = [quoteAction EXCEPT ![q] = result[j]]
  /\ UNCHANGED <<armVars, usedNonces>>

\* The process restarts: the tables and the chain stay, the rest is gone.
Crash ==
  /\ Fault("crashes")
  /\ queue' = <<>>
  /\ run' = Idle
  /\ request' = [j \in Jobs |->
       IF request[j] \in {"checked", "submitted"} THEN "lost" ELSE request[j]]
  /\ UNCHANGED <<chainVars, inTransit, tableVars, result, quote,
                 quoteAction, usedNonces>>

Handler ==
  \/ \E q \in Quotes : StoreQuote(q)
  \/ \E j \in Submits : CheckSubmit(j) \/ RefuseSubmit(j)
  \/ \E j \in Submits : AcceptSubmit(j)
  \/ \E j \in Jobs \ Submits : CallArm(j)
  \/ \E j \in Jobs : Answer(j)

Next ==
  \/ RunStep /\ UNCHANGED quoteVars
  \/ Surroundings /\ UNCHANGED quoteVars
  \/ Handler
  \/ Crash

Spec == Init /\ [][Next]_vars

(***************************************************************************)
(* The event loop runs what is ready: the run in progress goes on, or      *)
(* throws, and a handler whose call has ended resumes.                     *)
(***************************************************************************)
LoopFairness ==
  /\ WF_vars(RunStep /\ UNCHANGED quoteVars)
  /\ \A j \in Jobs : WF_vars(Answer(j))

FairSpec == Spec /\ LoopFairness

-----------------------------------------------------------------------------
StatusOrder == {"Initiated", "Bonded", "Executed", "Settled"}

(* Types; the queue holds submitted calls, a row its action iff consumed.  *)
TypeOK ==
  /\ \A i \in ActionIds :
       chain[i] \in [invoice: Jobs \cup {Runner}, claim: -1..2,
                     status: StatusOrder]
  /\ invoiceClaim \in [Jobs -> -1..2]
  /\ paid \subseteq Jobs \cup {Runner}
  /\ DOMAIN projected \subseteq ActionIds
  /\ \A j \in ToSet(queue) : request[j] = "submitted"
  /\ Running => run.job \in Jobs /\ run.id \in 0..MaxActions + 1
  /\ result \in [Jobs -> -1..MaxActions]
  /\ quote \in [Quotes -> {"none", "paid", "consuming", "consumed"}]
  /\ quoteAction \in [Quotes -> 0..MaxActions]
  /\ \A q \in Quotes : quoteAction[q] # 0 <=> quote[q] = "consumed"
  /\ request \in [Jobs -> RequestStates]

(***************************************************************************)
(* A reservation has one holder: of the requests for a quote at most one   *)
(* is past reservePaidQuote, and while it is there the quote is consuming, *)
(* although the status is first read before an await.                      *)
(***************************************************************************)
ReservationHasOneHolder ==
  \A q \in Quotes :
    LET holders == {j \in Submits : QuoteOf[j] = q /\ request[j] = "submitted"}
    IN /\ Cardinality(holders) <= 1
       /\ holders # {} => quote[q] = "consuming"

(***************************************************************************)
(* An authorization starts at most one run: two requests with one nonce    *)
(* never both reach the service, also when the first one failed and the    *)
(* quote was released, or the process restarted in between.                *)
(***************************************************************************)
AuthorizationRunsOnce ==
  \A j, k \in Submits :
    /\ j # k
    /\ NonceOf[j] = NonceOf[k]
    /\ request[j] \in {"submitted", "answered"}
    => request[k] \notin {"submitted", "answered"}

(***************************************************************************)
(* Two calls never return the same action, whatever was resumed, landed    *)
(* late or was created by the runner under the id a run had predicted.     *)
(***************************************************************************)
ActionsReturnedOnce ==
  \A j, k \in Jobs : j # k /\ result[j] > 0 => result[j] # result[k]

(***************************************************************************)
(* A quote is consumed for an action that was executed and is in the       *)
(* database, so its proof can be served.                                   *)
(***************************************************************************)
ConsumedIsExecuted ==
  \A q \in Quotes : quote[q] = "consumed" =>
    /\ quoteAction[q] \in DOMAIN projected
    /\ chain[quoteAction[q]].status \in {"Executed", "Settled"}

(***************************************************************************)
(* A reserved quote is consumed or released in the end, unless the process *)
(* restarts while it is reserved.                                          *)
(***************************************************************************)
ReservationEnds ==
  \A q \in Quotes :
    quote[q] = "consuming" ~> (quote[q] # "consuming" \/ faults.crashes > 0)

-----------------------------------------------------------------------------
(* What the documents say and the code does not keep.                      *)

(***************************************************************************)
(* docs/INTEGRATION.md: each paid quote can create exactly one bonded      *)
(* action.                                                                 *)
(***************************************************************************)
OneBondedActionPerQuote ==
  \A q \in Quotes :
    Cardinality({i \in ActionIds :
      /\ chain[i].status # "Initiated"
      /\ chain[i].invoice \in {j \in Submits : QuoteOf[j] = q}}) <= 1
=============================================================================
