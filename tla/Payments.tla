------------------------------ MODULE Payments ------------------------------
(***************************************************************************)
(* What comes before a paid quote: POST /v1/actions/quote of api/routes.ts *)
(* with verify/x402.ts, which has a signed transfer settled by a           *)
(* facilitator and then stores the quote, and integrator/service.ts, the   *)
(* client that pays, submits and attests as an outside agent would.  The   *)
(* settlement is on chain before the body is looked at and the quote is    *)
(* stored; an answer may get lost, the service may stop in between, and a  *)
(* payer may present the same signed transfer again, at a time when the    *)
(* agent's reputation makes another quote of it.                           *)
(***************************************************************************)
EXTENDS Naturals, Sequences, FiniteSets

CONSTANTS
  Transfers,   \* signed transfers, each with a nonce of its own
  MaxRequests, \* bound on requests for quotes
  MaxScore,    \* bound on changes of the agent's reputation
  MaxLost      \* bound on answers that are lost, and on restarts

ASSUME PaymentsAssumption ==
  IsFiniteSet(Transfers) /\ {MaxRequests, MaxScore, MaxLost} \subseteq Nat

VARIABLES
  settled,  \* transfers that are executed on chain
  score,    \* of the agent, as the projection has it
  quotes,   \* paid_quotes: transfer, bond and status; of a quote that is
            \* consuming also where its request is: still without an action
            \* (consuming), with one bonded (bonded), or gone (stuck)
  asked,    \* the requests
  acted,    \* acted[t]: the actions bonded with t, the ones of them whose
            \* run failed late, and the ones that were answered
  lost,
  client,   \* the integrator
  noted     \* its row in system_state, and what came of it

paymentVars == <<settled, score, quotes, asked, acted, lost, client, noted>>

NoClient == [pc |-> "none", request |-> 0]

PaymentsInit ==
  /\ settled = {}
  /\ score = 0
  /\ quotes = {}
  /\ asked = <<>>
  /\ acted = [t \in Transfers |-> [bonded |-> 0, late |-> 0, answered |-> 0]]
  /\ lost = 0
  /\ client = NoClient
  /\ noted = {}

-----------------------------------------------------------------------------
(* The endpoint.                                                           *)

Ask(t, valid) ==
  asked' = Append(asked, [transfer |-> t, valid |-> valid, pc |-> "settling", bond |-> 0])

\* A header that does not parse, or none, is answered with the requirements
\* and leaves nothing behind.
QuoteRequested(t, valid) ==
  /\ Len(asked) < MaxRequests
  /\ Ask(t, valid)
  /\ UNCHANGED <<settled, score, quotes, acted, lost, client, noted>>

Goes(r, pc) == asked' = [asked EXCEPT ![r].pc = pc]

\* The facilitator settles a transfer once.  Of one that it has settled it
\* says that the nonce is used, or names the transaction again.
FacilitatorSettles(r) ==
  LET t == asked[r].transfer IN
  /\ asked[r].pc = "settling"
  /\ \/ settled' = settled \cup {t} /\ Goes(r, "quoting")
     \/ Goes(r, "required") /\ UNCHANGED settled
  /\ UNCHANGED <<score, quotes, acted, lost, client, noted>>

\* The request to it fails before or after it has settled.
SettleLost(r) ==
  /\ asked[r].pc = "settling"
  /\ lost < MaxLost
  /\ lost' = lost + 1
  /\ settled' \in {settled, settled \cup {asked[r].transfer}}
  /\ Goes(r, "failed")
  /\ UNCHANGED <<score, quotes, acted, client, noted>>

\* Mutant of Conflicts: no index over settlement_tx.
ConflictsNever(q) == q \notin [transfer : Transfers, bond : Nat]

\* paid_quotes_settlement_tx_unique; the quote's hash is made from both.
Conflicts(q) == \E p \in quotes : p.transfer = q.transfer /\ p.bond # q.bond

\* Mutant of Stored: the row is replaced.
Replaces(q) ==
  {p \in quotes : p.transfer # q.transfer \/ p.bond # q.bond}
    \cup {[transfer |-> q.transfer, bond |-> q.bond, status |-> "paid"]}

\* upsertPaidQuote keeps the status of the row that it finds.
Stored(q) ==
  IF \E p \in quotes : p.transfer = q.transfer /\ p.bond = q.bond THEN quotes
  ELSE quotes \cup {[transfer |-> q.transfer, bond |-> q.bond, status |-> "paid"]}

\* Amount and fault class are read now, and the quote is priced.
QuoteAnswered(r) ==
  LET q == [transfer |-> asked[r].transfer, bond |-> score] IN
  /\ asked[r].pc = "quoting"
  /\ IF ~asked[r].valid \/ Conflicts(q)
     THEN Goes(r, "failed") /\ UNCHANGED quotes
     ELSE /\ quotes' = Stored(q)
          /\ asked' = [asked EXCEPT ![r].pc = "quoted", ![r].bond = score]
  /\ UNCHANGED <<settled, score, acted, lost, client, noted>>

Open == {"settling", "quoting"}

Served == {"consuming", "bonded"}
Marked(q, status) == [q EXCEPT !.status = status]

\* The service restarts, and what it was doing is gone; a reservation stays.
Restarts ==
  /\ lost < MaxLost
  /\ lost' = lost + 1
  /\ asked' = [r \in DOMAIN asked |->
                 IF asked[r].pc \in Open THEN [asked[r] EXCEPT !.pc = "failed"] ELSE asked[r]]
  /\ quotes' = {Marked(q, IF q.status \in Served THEN "stuck" ELSE q.status) : q \in quotes}
  /\ UNCHANGED <<settled, score, acted, client, noted>>

\* The agent's reputation, which prices the next quote, is projected.
ScoreChanges ==
  /\ score < MaxScore
  /\ score' = score + 1
  /\ UNCHANGED <<settled, quotes, asked, acted, lost, client, noted>>

-----------------------------------------------------------------------------
(* The quote's use: reserved, run and consumed, or released by any failure *)
(* of the run, also a late one.  PaidQuotes has what the run does.         *)

QuoteMoves(q, from, to) ==
  /\ q \in quotes /\ q.status \in from
  /\ quotes' = (quotes \ {q}) \cup {Marked(q, to)}

Reserves(q) == QuoteMoves(q, {"paid"}, "consuming") /\ UNCHANGED acted

\* post_bond lands, or is going to although its run gives up before it does.
RunBonds(q) ==
  /\ QuoteMoves(q, {"consuming"}, "bonded")
  /\ acted' = [acted EXCEPT ![q.transfer].bonded = @ + 1]
  /\ UNCHANGED lost

RunReturns(q) ==
  /\ QuoteMoves(q, {"bonded"}, "consumed")
  /\ acted' = [acted EXCEPT ![q.transfer].answered = @ + 1]
  /\ UNCHANGED lost

RunThrows(q) ==
  \/ QuoteMoves(q, {"consuming"}, "paid") /\ UNCHANGED <<acted, lost>>
  \/ /\ lost < MaxLost
     /\ lost' = lost + 1
     /\ QuoteMoves(q, {"bonded"}, "paid")
     /\ acted' = [acted EXCEPT ![q.transfer].late = @ + 1]

QuoteSubmitted(q) ==
  /\ \/ Reserves(q) /\ UNCHANGED lost
     \/ RunBonds(q) \/ RunReturns(q) \/ RunThrows(q)
  /\ UNCHANGED <<settled, score, asked, client, noted>>

-----------------------------------------------------------------------------
(* The integrator.                                                         *)

ClientStops == client' = NoClient

\* It asks without payment first, and signs a new transfer for what the
\* answer requires.
ClientPays(t) ==
  /\ client = NoClient
  /\ Len(asked) < MaxRequests
  /\ t \notin settled /\ \A r \in DOMAIN asked : asked[r].transfer # t
  /\ Ask(t, TRUE)
  /\ client' = [pc |-> "paying", request |-> Len(asked) + 1]
  /\ UNCHANGED <<settled, score, quotes, acted, lost, noted>>

Paying == asked[client.request]

Notes(limited, t) == noted' = noted \cup {[limited |-> limited, transfer |-> t]}

\* An answer that is not a quote ends the run, with its message as limitation.
ClientIsAnswered ==
  /\ client.pc = "paying"
  /\ \/ /\ Paying.pc = "quoted"
        /\ client' = [client EXCEPT !.pc = "submitting"]
        /\ UNCHANGED noted
     \/ /\ Paying.pc \in {"required", "failed"}
        /\ Notes(TRUE, Paying.transfer)
        /\ ClientStops
  /\ UNCHANGED <<settled, score, quotes, asked, acted, lost>>

OwnQuote == {q \in quotes : q.transfer = Paying.transfer}

\* The submission is refused where the quote is no longer what the controller
\* asks, was used or has expired.
ClientSubmits ==
  /\ client.pc = "submitting"
  /\ \/ /\ \E q \in OwnQuote : Reserves(q)
        /\ client' = [client EXCEPT !.pc = "waiting"]
        /\ UNCHANGED noted
     \/ /\ Notes(TRUE, Paying.transfer)
        /\ ClientStops
        /\ UNCHANGED <<quotes, acted>>
  /\ UNCHANGED <<settled, score, asked, lost>>

\* The run of its request has ended; it does not submit again.
ClientIsServed ==
  /\ client.pc = "waiting"
  /\ \/ /\ \E q \in OwnQuote : q.status = "consumed"
        /\ client' = [client EXCEPT !.pc = "attesting"]
        /\ UNCHANGED noted
     \/ /\ \E q \in OwnQuote : q.status = "paid"
        /\ Notes(TRUE, Paying.transfer)
        /\ ClientStops
  /\ UNCHANGED <<settled, score, quotes, asked, acted, lost>>

\* The attestation of the action that it was answered with.
ClientAttests ==
  /\ client.pc = "attesting"
  /\ \E limited \in BOOLEAN : Notes(limited, Paying.transfer)
  /\ ClientStops
  /\ UNCHANGED <<settled, score, quotes, asked, acted, lost>>

\* A request of its own fails, and with it the run: nothing is noted.
ClientFails ==
  /\ client # NoClient
  /\ lost < MaxLost
  /\ lost' = lost + 1
  /\ ClientStops
  /\ UNCHANGED <<settled, score, quotes, asked, acted, noted>>

PaymentsNext ==
  \/ \E t \in Transfers :
       ClientPays(t) \/ \E valid \in BOOLEAN : QuoteRequested(t, valid)
  \/ \E r \in DOMAIN asked : FacilitatorSettles(r) \/ SettleLost(r) \/ QuoteAnswered(r)
  \/ \E q \in quotes : QuoteSubmitted(q)
  \/ Restarts \/ ScoreChanges
  \/ ClientIsAnswered \/ ClientSubmits \/ ClientIsServed \/ ClientAttests \/ ClientFails

-----------------------------------------------------------------------------
(***************************************************************************)
(* One transfer buys one answered action: a payer who presents it again,   *)
(* be it that no answer came or that the facilitator names its transaction *)
(* again, has no second quote of it at another price, and does not get     *)
(* back one that was used or is in use.  More actions than one are bonded  *)
(* with it only as far as runs failed after they had bonded theirs, since  *)
(* the quote is then released.  No quote is given for a transfer that is   *)
(* not settled.                                                            *)
(***************************************************************************)
OneAnswerPerPayment ==
  /\ \A t \in Transfers :
       acted[t].answered <= 1 /\ acted[t].bonded <= acted[t].late + 1
  /\ \A q \in quotes : q.transfer \in settled
=============================================================================
