-------------------------- MODULE QuotedBondsProofs --------------------------
(***************************************************************************)
(* Theorems about the price of a bond and the quotes: the backend and the  *)
(* contract price alike, quotes only do what the suite allows, and a bond  *)
(* below the quoted minimum is explained by the agent's own record or by   *)
(* the amount and the unfinished actions of duplicate runs.                *)
(***************************************************************************)
EXTENDS QuotedBonds, BondsmanControllerProofs, SequenceTheorems

(***************************************************************************)
(* The pure part: the two prices agree at every score, and a better score  *)
(* never raises the price.                                                 *)
(***************************************************************************)
LEMMA SamePoints ==
  ASSUME NEW amount \in Nat
  PROVE  basePoints(amount) = BaseBps(amount) /\ BaseBps(amount) \in Nat
<1>1. TokenUnit \in Nat
  BY ControllerAssumption
<1>2. amount >= 50000 * TokenUnit => amount >= 10000 * TokenUnit
  BY <1>1
<1> QED BY <1>1, <1>2 DEF basePoints, BaseBps

LEMMA SamePenalty ==
  ASSUME NEW score \in Int
  PROVE  penaltyPoints(score) = PenaltyBps(score) /\ PenaltyBps(score) \in Nat
BY DEF penaltyPoints, PenaltyBps, Abs

LEMMA SamePrice ==
  ASSUME NEW amount \in Nat, NEW u \in Users, reputation[u].score \in Int
  PROVE  priceBond(amount, reputation[u].score) = BondRequired(amount, u)
<1>1. basePoints(amount) = BaseBps(amount)
  BY SamePoints
<1>2. penaltyPoints(reputation[u].score) = PenaltyBps(reputation[u].score)
  BY SamePenalty
<1> QED BY <1>1, <1>2 DEF priceBond, bondBasisPoints, BondRequired

LEMMA PriceNat ==
  ASSUME NEW amount \in Nat, NEW score \in Int
  PROVE  priceBond(amount, score) \in Nat
<1>1. bondBasisPoints(amount, score) \in Nat
  BY SamePoints, SamePenalty DEF bondBasisPoints
<1>2. amount * bondBasisPoints(amount, score) \in Nat
  BY <1>1
<1>3. ASSUME NEW p \in Nat PROVE (p \div 10000) \in Nat
  OBVIOUS
<1> QED BY <1>2, <1>3 DEF priceBond

LEMMA LowerScoreDearer ==
  ASSUME NEW amount \in Nat, NEW low \in Int, NEW high \in Int, low <= high
  PROVE  priceBond(amount, low) >= priceBond(amount, high)
<1> DEFINE lo == bondBasisPoints(amount, low)
           hi == bondBasisPoints(amount, high)
<1>1. lo \in Nat /\ hi \in Nat /\ hi <= lo
  <2>1. penaltyPoints(low) \in Nat /\ penaltyPoints(high) \in Nat
    BY SamePenalty
  <2>2. penaltyPoints(high) <= penaltyPoints(low)
    BY DEF penaltyPoints, Abs
  <2>3. basePoints(amount) \in Nat
    BY SamePoints
  <2> QED BY <2>1, <2>2, <2>3 DEF bondBasisPoints
<1> HIDE DEF lo, hi
<1>2. amount * hi \in Nat /\ amount * lo \in Nat /\ amount * hi <= amount * lo
  <2>1. amount * (lo - hi) >= 0
    BY <1>1
  <2>2. amount * (lo - hi) = amount * lo - amount * hi
    BY <1>1
  <2> QED BY <1>1, <2>1, <2>2
<1>3. ASSUME NEW p \in Nat, NEW r \in Nat, p <= r
      PROVE  (r \div 10000) >= (p \div 10000)
  BY <1>3
<1>4. (amount * lo) \div 10000 >= (amount * hi) \div 10000
  BY <1>2, <1>3
<1> QED BY <1>4 DEF priceBond, lo, hi

(***************************************************************************)
(* The backend prices a bond as the contract does, at every score an agent *)
(* can come to have.                                                       *)
(***************************************************************************)
LEMMA PricedAlike == SuiteInv => PolicyIsControllers
<1> SUFFICES ASSUME SuiteInv, NEW u \in Users, NEW amount \in InvoiceAmounts
             PROVE  priceBond(amount, reputation[u].score) = BondRequired(amount, u)
  BY DEF PolicyIsControllers
<1>1. reputation[u].score \in Int
  BY DEF SuiteInv, CtlTypeOK, Rep
<1>2. amount \in Nat
  BY PoolAssumption
<1> QED BY <1>1, <1>2, SamePrice

-----------------------------------------------------------------------------
(***************************************************************************)
(* The inductive invariant of the quotes: their types, and that a quote    *)
(* with a run under way was let through at a score whose price reached the *)
(* minimum.                                                                *)
(***************************************************************************)
Quote ==
  [class: FaultClasses, amount: InvoiceAmounts, minimum: Nat, status: {"paid", "consuming", "consumed"},
   seen: SUBSET Int, action: SUBSET ActionIds]

SeenReaches(quote) ==
  quote.status = "consuming" =>
    \E s \in quote.seen : priceBond(quote.amount, s) >= quote.minimum

QuoteInv ==
  /\ projected \subseteq Int
  /\ reading \subseteq Int
  /\ quotes \in Seq(Quote)
  /\ \A q \in 1..Len(quotes) : SeenReaches(quotes[q])

LEMMA QuoteStart == QInit => QuoteInv
BY DEF QInit, QuoteInv

LEMMA ProjectedIsInt == projected \subseteq Int => ProjectedScore \in Int
BY QuotedBondsAssumption DEF ProjectedScore

LEMMA ScoreIsInt ==
  ASSUME SuiteInv
  PROVE  QuoteAgent \in Users /\ reputation[QuoteAgent].score \in Int
BY QuotedBondsAssumption, ControllerAssumption DEF SuiteInv, CtlTypeOK, Rep

(***************************************************************************)
(* A step that replaces one quote has the invariant to show for that one.  *)
(***************************************************************************)
LEMMA UpdateQuote ==
  ASSUME QuoteInv, NEW q \in 1..Len(quotes), NEW new \in Quote,
         quotes' = [quotes EXCEPT ![q] = new], SeenReaches(new),
         UNCHANGED <<projected, reading>>
  PROVE  QuoteInv'
<1>1. /\ quotes' \in Seq(Quote)
      /\ Len(quotes') = Len(quotes)
      /\ \A k \in 1..Len(quotes) : quotes'[k] = IF k = q THEN new ELSE quotes[k]
  BY ExceptSeq DEF QuoteInv
<1>2. \A k \in 1..Len(quotes') : SeenReaches(quotes'[k])
  BY <1>1 DEF QuoteInv
<1>3. \A k \in 1..Len(quotes') : SeenReaches(quotes[k])'
  BY <1>2 DEF SeenReaches, priceBond, bondBasisPoints, basePoints, penaltyPoints, Abs
<1> QED BY <1>1, <1>3 DEF QuoteInv

LEMMA QuoteResponseInv ==
  ASSUME QuoteInv, NEW class \in FaultClasses, NEW amount \in InvoiceAmounts,
         QuoteResponse(class, amount)
  PROVE  QuoteInv'
<1> DEFINE new == [class |-> class, amount |-> amount, minimum |-> priceBond(amount, ProjectedScore),
                   status |-> "paid", seen |-> {}, action |-> {}]
<1>1. quotes' = Append(quotes, new) /\ UNCHANGED <<projected, reading>>
  BY DEF QuoteResponse
<1>2. new \in Quote /\ SeenReaches(new)
  <2>1. priceBond(amount, ProjectedScore) \in Nat
    BY PriceNat, ProjectedIsInt, PoolAssumption DEF QuoteInv
  <2> QED BY <2>1 DEF Quote, SeenReaches
<1> HIDE DEF new
<1>3. /\ quotes' \in Seq(Quote)
      /\ Len(quotes') = Len(quotes) + 1
      /\ \A k \in 1..Len(quotes) : quotes'[k] = quotes[k]
      /\ quotes'[Len(quotes) + 1] = new
  BY <1>1, <1>2, AppendProperties DEF QuoteInv
<1>4. \A k \in 1..Len(quotes') : SeenReaches(quotes'[k])
  <2>1. Len(quotes) \in Nat
    BY LenProperties DEF QuoteInv
  <2>2. \A k \in 1..Len(quotes') : k \in 1..Len(quotes) \/ k = Len(quotes) + 1
    BY <1>3, <2>1
  <2> QED BY <1>2, <1>3, <2>2 DEF QuoteInv
<1>5. \A k \in 1..Len(quotes') : SeenReaches(quotes[k])'
  BY <1>4 DEF SeenReaches, priceBond, bondBasisPoints, basePoints, penaltyPoints, Abs
<1> QED BY <1>1, <1>3, <1>5 DEF QuoteInv

LEMMA SubmitQuoteInv ==
  ASSUME SuiteInv, QuoteInv, NEW q \in 1..Len(quotes), SubmitQuote(q)
  PROVE  QuoteInv'
<1> DEFINE old == quotes[q]
<1>1. old \in Quote
  BY ElementOfSeq DEF QuoteInv
<1>2. PICK s \in Int : /\ priceBond(old.amount, s) >= old.minimum
                       /\ Reserved(q, s)
  <2>1. CASE /\ MinimumSatisfied(BondRequired(old.amount, QuoteAgent), old.minimum)
             /\ Reserved(q, reputation[QuoteAgent].score)
    <3>1. old.amount \in Nat
      BY <1>1, PoolAssumption DEF Quote
    <3>2. priceBond(old.amount, reputation[QuoteAgent].score)
            = BondRequired(old.amount, QuoteAgent)
      BY <3>1, ScoreIsInt, SamePrice
    <3> QED BY <2>1, <3>2, ScoreIsInt DEF MinimumSatisfied
  <2>2. CASE /\ MinimumSatisfied(priceBond(old.amount, ProjectedScore), old.minimum)
             /\ Reserved(q, ProjectedScore)
    BY <2>2, ProjectedIsInt DEF MinimumSatisfied, QuoteInv
  <2> QED BY <2>1, <2>2 DEF SubmitQuote
<1> DEFINE new == [old EXCEPT !.status = "consuming", !.seen = {s}]
<1>3. quotes' = [quotes EXCEPT ![q] = new] /\ UNCHANGED <<projected, reading>>
  BY <1>2 DEF Reserved, SubmitQuote
<1>4. /\ new \in Quote
      /\ new.seen = {s} /\ new.amount = old.amount /\ new.minimum = old.minimum
  BY <1>1 DEF Quote
<1> HIDE DEF new, old
<1>5. SeenReaches(new)
  BY <1>2, <1>4 DEF SeenReaches
<1> QED BY <1>3, <1>4, <1>5, UpdateQuote

LEMMA InitiateQuotedInv ==
  ASSUME SuiteInv, QuoteInv, NEW q \in 1..Len(quotes), InitiateQuoted(q)
  PROVE  QuoteInv'
<1> DEFINE old == quotes[q]
           new == [old EXCEPT !.action = {nextActionId}]
<1>1. old \in Quote /\ SeenReaches(old)
  BY ElementOfSeq DEF QuoteInv
<1>2. /\ quotes' = [quotes EXCEPT ![q] = new]
      /\ UNCHANGED <<projected, reading>>
      /\ nextActionId \in ActionIds
  BY DEF InitiateQuoted, InitiateAction
<1>3. /\ new \in Quote /\ new.status = old.status
      /\ new.seen = old.seen /\ new.amount = old.amount /\ new.minimum = old.minimum
  BY <1>1, <1>2 DEF Quote
<1> HIDE DEF new, old
<1>4. SeenReaches(new)
  BY <1>1, <1>3 DEF SeenReaches
<1> QED BY <1>2, <1>3, <1>4, UpdateQuote

LEMMA ResumePendingInv ==
  ASSUME QuoteInv, NEW q \in 1..Len(quotes), ResumePending(q)
  PROVE  QuoteInv'
<1>1. PICK id \in ActionIds : quotes' = [quotes EXCEPT ![q].action = {id}]
  BY DEF ResumePending
<1> DEFINE old == quotes[q]
           new == [old EXCEPT !.action = {id}]
<1>2. old \in Quote /\ SeenReaches(old)
  BY ElementOfSeq DEF QuoteInv
<1>3. quotes' = [quotes EXCEPT ![q] = new] /\ UNCHANGED <<projected, reading>>
  BY <1>1 DEF ResumePending
<1>4. /\ new \in Quote /\ new.status = old.status
      /\ new.seen = old.seen /\ new.amount = old.amount /\ new.minimum = old.minimum
  BY <1>2 DEF Quote
<1> HIDE DEF new, old
<1>5. SeenReaches(new)
  BY <1>2, <1>4 DEF SeenReaches
<1> QED BY <1>3, <1>4, <1>5, UpdateQuote

LEMMA ConsumeOrReleaseInv ==
  ASSUME QuoteInv, NEW q \in 1..Len(quotes), ConsumeOrRelease(q)
  PROVE  QuoteInv'
<1> DEFINE old == quotes[q]
           consumed == [old EXCEPT !.status = "consumed"]
           released == [old EXCEPT !.status = "paid", !.seen = {}, !.action = {}]
<1>1. old \in Quote
  BY ElementOfSeq DEF QuoteInv
<1>2. /\ quotes' = [quotes EXCEPT ![q] = consumed] \/ quotes' = [quotes EXCEPT ![q] = released]
      /\ UNCHANGED <<projected, reading>>
  BY DEF ConsumeOrRelease
<1>3. /\ consumed \in Quote /\ consumed.status = "consumed"
      /\ released \in Quote /\ released.status = "paid"
  BY <1>1 DEF Quote
<1> HIDE DEF consumed, released
<1>4. SeenReaches(consumed) /\ SeenReaches(released)
  BY <1>3 DEF SeenReaches
<1> QED BY <1>2, <1>3, <1>4, UpdateQuote

LEMMA QuoteFrame == QuoteInv /\ UNCHANGED quoteVars => QuoteInv'
BY DEF QuoteInv, quoteVars, SeenReaches, priceBond, bondBasisPoints, basePoints,
       penaltyPoints, Abs

LEMMA QuoteStep == SuiteInv /\ QuoteInv /\ [QNext]_allVars => QuoteInv'
<1> SUFFICES ASSUME SuiteInv, QuoteInv, [QNext]_allVars
             PROVE  QuoteInv'
  OBVIOUS
<1>1. CASE UNCHANGED quoteVars
  BY <1>1, QuoteFrame
<1>2. CASE ReadReputation
  <2>1. reading' \subseteq Int /\ projected' = projected /\ quotes' = quotes
    BY <1>2, ScoreIsInt DEF ReadReputation
  <2> QED BY <2>1 DEF QuoteInv, SeenReaches, priceBond, bondBasisPoints, basePoints,
                      penaltyPoints, Abs
<1>3. CASE SetReputation
  <2>1. reading' \subseteq Int /\ projected' \subseteq Int /\ quotes' = quotes
    BY <1>3 DEF SetReputation, QuoteInv
  <2> QED BY <2>1 DEF QuoteInv, SeenReaches, priceBond, bondBasisPoints, basePoints,
                      penaltyPoints, Abs
<1>4. ASSUME NEW class \in FaultClasses, NEW amount \in InvoiceAmounts,
             QuoteResponse(class, amount)
      PROVE  QuoteInv'
  BY <1>4, QuoteResponseInv
<1>5. ASSUME NEW q \in 1..Len(quotes),
             SubmitQuote(q) \/ InitiateQuoted(q) \/ ResumePending(q) \/ ConsumeOrRelease(q)
      PROVE  QuoteInv'
  BY <1>5, SubmitQuoteInv, InitiateQuotedInv, ResumePendingInv, ConsumeOrReleaseInv
<1> QED BY <1>1, <1>2, <1>3, <1>4, <1>5 DEF QNext, allVars

(***************************************************************************)
(* What a quote does on the contracts anybody could have done: an          *)
(* initiation, or nothing.                                                 *)
(***************************************************************************)
LEMMA QuotedStepIsSuiteStep == QuoteInv /\ [QNext]_allVars => [Next]_vars
<1> SUFFICES ASSUME QuoteInv, [QNext]_allVars
             PROVE  [Next]_vars
  OBVIOUS
<1>1. ASSUME NEW q \in 1..Len(quotes), InitiateQuoted(q)
      PROVE  Next
  <2>1. quotes[q] \in Quote
    BY ElementOfSeq DEF QuoteInv
  <2>2. PICK i \in InvoiceIds, h \in ClaimHashes :
          InitiateAction(QuoteAgent, i, h, RunAmount(quotes[q]))
    BY <1>1, QuotedBondsAssumption DEF InitiateQuoted, RunClaims
  <2>3. RunAmount(quotes[q]) \in InvoiceAmounts
    BY <2>1, QuotedBondsAssumption DEF Quote, RunAmount
  <2> QED BY <2>2, <2>3, QuotedBondsAssumption DEF Next, SharedNext
<1>2. ASSUME NEW q, SubmitQuote(q) \/ ResumePending(q) \/ ConsumeOrRelease(q)
      PROVE  UNCHANGED vars
  BY <1>2 DEF SubmitQuote, ResumePending, ConsumeOrRelease
<1>3. ASSUME NEW class, NEW amount,
             ReadReputation \/ SetReputation \/ QuoteResponse(class, amount)
      PROVE  UNCHANGED vars
  BY <1>3 DEF ReadReputation, SetReputation, QuoteResponse
<1> QED BY <1>1, <1>2, <1>3 DEF QNext, allVars

LEMMA QuotedStart == QInit => SuiteInv /\ QuoteInv
BY SuiteInit, QuoteStart DEF QInit

LEMMA QuotedStep ==
  SuiteInv /\ QuoteInv /\ [QNext]_allVars => SuiteInv' /\ QuoteInv'
BY QuotedStepIsSuiteStep, NextIsSuiteNext, SuiteStep, QuoteStep

(***************************************************************************)
(* The quotes change nothing of what the contracts may do: every behaviour *)
(* with quotes is a behaviour of the suite, so that each theorem of Spec   *)
(* holds with them.                                                        *)
(***************************************************************************)
THEOREM QuotesKeepTheSuite == QSpec => Spec
<1>1. QInit => Init
  BY DEF QInit
<1> QED BY <1>1, QuotedStart, QuotedStep, QuotedStepIsSuiteStep, PTL DEF QSpec, Spec

(***************************************************************************)
(* A quote priced at the present score is never refused: the backend's     *)
(* price is the contract's, at every reachable score.                      *)
(***************************************************************************)
THEOREM BackendPricesAlike == QSpec => []PolicyIsControllers
BY QuotedStart, QuotedStep, PricedAlike, PTL DEF QSpec

BondReachesMinimum ==
  \A q \in 1..Len(quotes) : \A id \in quotes'[q].action :
    quotes[q].action = {} =>
      \/ actions'[id].bondRequired >= quotes[q].minimum
      \/ \E s \in quotes[q].seen : reputation[QuoteAgent].score > s
      \/ /\ quotes[q].class = "duplicate"
         /\ actions[id].status # "None" \/ quotes[q].amount # DemoAmount

(***************************************************************************)
(* A step that gives a quote an action leaves the others as they are.      *)
(***************************************************************************)
LEMMA GivesAction ==
  ASSUME QuoteInv, NEW q \in 1..Len(quotes), NEW id \in ActionIds,
         quotes' = [quotes EXCEPT ![q].action = {id}]
  PROVE  /\ quotes'[q].action = {id}
         /\ \A k \in 1..Len(quotes) : k # q => quotes'[k] = quotes[k]
<1> DEFINE new == [quotes[q] EXCEPT !.action = {id}]
<1>1. quotes[q] \in Quote
  BY ElementOfSeq DEF QuoteInv
<1>2. new \in Quote /\ new.action = {id}
  BY <1>1 DEF Quote
<1>3. \A k \in 1..Len(quotes) :
        quotes'[k] = IF k = q THEN [quotes[q] EXCEPT !.action = {id}] ELSE quotes[k]
  BY <1>2, ExceptSeq DEF QuoteInv
<1> QED BY <1>2, <1>3

LEMMA InitiateReachesMinimum ==
  ASSUME SuiteInv, QuoteInv, NEW q \in 1..Len(quotes), InitiateQuoted(q)
  PROVE  BondReachesMinimum
<1> DEFINE quote == quotes[q]
           score == reputation[QuoteAgent].score
<1>1. quote \in Quote /\ SeenReaches(quote) /\ quote.status = "consuming"
  BY ElementOfSeq DEF QuoteInv, InitiateQuoted, RunPending
<1>2. PICK i \in InvoiceIds, h \in ClaimHashes :
        InitiateAction(QuoteAgent, i, h, RunAmount(quote))
  BY QuotedBondsAssumption DEF InitiateQuoted, RunClaims
<1>3. /\ nextActionId \in ActionIds
      /\ actions'[nextActionId].bondRequired = BondRequired(RunAmount(quote), QuoteAgent)
  BY <1>2 DEF InitiateAction, SuiteInv, CtlTypeOK
<1>4. /\ quotes'[q].action = {nextActionId}
      /\ \A k \in 1..Len(quotes) : k # q => quotes'[k] = quotes[k]
  BY <1>3, GivesAction DEF InitiateQuoted
<1>5. CASE RunAmount(quote) = quote.amount
  <2>1. BondRequired(quote.amount, QuoteAgent) = priceBond(quote.amount, score)
    <3>1. quote.amount \in Nat
      BY <1>1, PoolAssumption DEF Quote
    <3> QED BY <3>1, ScoreIsInt, SamePrice
  <2>2. PICK s \in quote.seen : priceBond(quote.amount, s) >= quote.minimum
    BY <1>1 DEF SeenReaches
  <2>3. score > s \/ priceBond(quote.amount, score) >= quote.minimum
    <3>1. /\ s \in Int /\ score \in Int /\ quote.amount \in Nat /\ quote.minimum \in Nat
      BY <1>1, ScoreIsInt, PoolAssumption DEF Quote
    <3>2. CASE score <= s
      <4>1. priceBond(quote.amount, score) >= priceBond(quote.amount, s)
        BY <3>1, <3>2, LowerScoreDearer
      <4>2. priceBond(quote.amount, score) \in Nat /\ priceBond(quote.amount, s) \in Nat
        BY <3>1, PriceNat
      <4> QED BY <2>2, <3>1, <4>1, <4>2
    <3> QED BY <3>1, <3>2
  <2> HIDE DEF quote, score
  <2> QED BY <1>3, <1>4, <1>5, <2>1, <2>2, <2>3 DEF BondReachesMinimum, quote, score
<1>6. CASE RunAmount(quote) # quote.amount
  <2>1. quote.class = "duplicate" /\ quote.amount # DemoAmount
    BY <1>6 DEF RunAmount
  <2> HIDE DEF quote, score
  <2> QED BY <1>4, <2>1 DEF BondReachesMinimum, quote
<1> QED BY <1>5, <1>6

LEMMA ResumeReachesMinimum ==
  ASSUME QuoteInv, NEW q \in 1..Len(quotes), ResumePending(q)
  PROVE  BondReachesMinimum
<1>1. PICK id \in ActionIds :
        /\ actions[id].status \in {"Initiated", "Bonded"}
        /\ quotes' = [quotes EXCEPT ![q].action = {id}]
  BY DEF ResumePending
<1>2. /\ quotes'[q].action = {id}
      /\ \A k \in 1..Len(quotes) : k # q => quotes'[k] = quotes[k]
  BY <1>1, GivesAction
<1>3. quotes[q].class = "duplicate"
  BY DEF ResumePending
<1> QED BY <1>1, <1>2, <1>3 DEF BondReachesMinimum

(***************************************************************************)
(* No other step gives a quote an action.                                  *)
(***************************************************************************)
LEMMA OthersInitiateNothing ==
  ASSUME QuoteInv,
         \/ UNCHANGED quotes
         \/ \E class \in FaultClasses, amount \in InvoiceAmounts : QuoteResponse(class, amount)
         \/ \E q \in 1..Len(quotes) : SubmitQuote(q) \/ ConsumeOrRelease(q)
  PROVE  \A k \in 1..Len(quotes) : quotes[k].action = {} => quotes'[k].action = {}
<1>1. \A k \in 1..Len(quotes) : quotes[k] \in Quote
  BY ElementOfSeq DEF QuoteInv
<1>2. CASE UNCHANGED quotes
  BY <1>2
<1>3. ASSUME NEW class, NEW amount, QuoteResponse(class, amount)
      PROVE  \A k \in 1..Len(quotes) : quotes'[k] = quotes[k]
  BY <1>3, AppendProperties DEF QuoteResponse, QuoteInv
<1>4. ASSUME NEW q \in 1..Len(quotes), NEW new,
             quotes' = [quotes EXCEPT ![q] = new],
             quotes[q].action = {} => new.action = {}
      PROVE  \A k \in 1..Len(quotes) : quotes[k].action = {} => quotes'[k].action = {}
  <2>1. DOMAIN quotes = 1..Len(quotes)
    BY LenProperties DEF QuoteInv
  <2> QED BY <1>4, <2>1
<1>5. ASSUME NEW q \in 1..Len(quotes), NEW s, Reserved(q, s)
      PROVE  \A k \in 1..Len(quotes) : quotes[k].action = {} => quotes'[k].action = {}
  <2> DEFINE new == [quotes[q] EXCEPT !.status = "consuming", !.seen = {s}]
  <2>1. quotes' = [quotes EXCEPT ![q] = new]
    BY <1>5 DEF Reserved
  <2>2. new.action = quotes[q].action
    BY <1>1 DEF Quote
  <2> QED BY <1>4, <2>1, <2>2
<1>6. ASSUME NEW q \in 1..Len(quotes), ConsumeOrRelease(q)
      PROVE  \A k \in 1..Len(quotes) : quotes[k].action = {} => quotes'[k].action = {}
  <2> DEFINE consumed == [quotes[q] EXCEPT !.status = "consumed"]
             released == [quotes[q] EXCEPT !.status = "paid", !.seen = {}, !.action = {}]
  <2>1. quotes' = [quotes EXCEPT ![q] = consumed] \/ quotes' = [quotes EXCEPT ![q] = released]
    BY <1>6 DEF ConsumeOrRelease
  <2>2. consumed.action = quotes[q].action /\ released.action = {}
    BY <1>1 DEF Quote
  <2> HIDE DEF consumed, released
  <2> QED BY <1>4, <2>1, <2>2
<1> QED BY <1>2, <1>3, <1>5, <1>6 DEF SubmitQuote

(***************************************************************************)
(* The action of a quote's run is bonded for the minimum at least, unless  *)
(* the score has risen since the check, or the quote is for a duplicate    *)
(* and is run for the demo amount, or resumes an action of before.         *)
(***************************************************************************)
THEOREM BondsReachTheirMinimum == QSpec => MinimumHolds
<1>1. SuiteInv /\ QuoteInv /\ [QNext]_allVars => [BondReachesMinimum]_allVars
  <2> SUFFICES ASSUME SuiteInv, QuoteInv, QNext
               PROVE  BondReachesMinimum
    OBVIOUS
  <2>1. CASE \E q \in 1..Len(quotes) : InitiateQuoted(q) \/ ResumePending(q)
    BY <2>1, InitiateReachesMinimum, ResumeReachesMinimum
  <2>2. CASE \/ UNCHANGED quotes
             \/ \E class \in FaultClasses, amount \in InvoiceAmounts :
                  QuoteResponse(class, amount)
             \/ \E q \in 1..Len(quotes) : SubmitQuote(q) \/ ConsumeOrRelease(q)
    BY <2>2, OthersInitiateNothing DEF BondReachesMinimum
  <2> QED BY <2>1, <2>2 DEF QNext, ReadReputation, SetReputation, quoteVars
<1>2. QSpec => [][BondReachesMinimum]_allVars
  BY <1>1, QuotedStart, QuotedStep, PTL DEF QSpec
<1> QED BY <1>2 DEF MinimumHolds, BondReachesMinimum
=============================================================================
