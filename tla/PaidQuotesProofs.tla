--------------------------- MODULE PaidQuotesProofs ---------------------------
(***************************************************************************)
(* Proofs about the paid quotes and the service that creates their         *)
(* actions.  ArmInv is what the service keeps: an executed action has its  *)
(* invoice paid, and the action a run works on was returned by no call.    *)
(* RequestsInv is what the handler keeps: a submitted request holds its    *)
(* quote and its nonce, and is queued, running or answered, once.          *)
(***************************************************************************)
EXTENDS PaidQuotes, FiniteSetTheorems, SequenceTheorems,
        WellFoundedInduction, TLAPS

Done == {"Executed", "Settled"}
Actions == [invoice : Jobs \cup {Runner}, claim : -1..2, status : StatusOrder]

ChainOK ==
  /\ chain \in Seq(Actions) /\ Len(chain) <= MaxActions
  /\ invoiceClaim \in [Jobs -> -1..2]
  /\ paid \subseteq Jobs \cup {Runner}
  /\ \A i \in ActionIds : chain[i].status \in Done => chain[i].invoice \in paid

IsTx(tx) ==
  tx \in [kind : {"initiate"}, invoice : Jobs \cup {Runner}, claim : -1..2]
         \cup [kind : {"post_bond", "execute"}, id : ActionIds]

TransitOK == \A t \in inTransit : IsTx(t.tx)

TablesOK ==
  /\ DOMAIN projected \subseteq ActionIds
  /\ listener # NothingRead => listener.id \in ActionIds

\* Where a run knows that its action exists.
Located == {"post_bond", "confirm_bond", "execute", "confirm_execute",
            "poll", "final_poll"}
Steps == Located \cup {"cursor", "submit_invoice", "initiate",
                       "confirm_initiate", "read"}

RunOK ==
  Running =>
    /\ run \in [pc : Steps, job : Jobs, attempt : 1..2, id : 0..MaxActions + 1]
    /\ run.pc \in Located => run.id \in ActionIds
    /\ run.pc = "final_poll" => run.id \in DOMAIN projected
    /\ run.pc # "cursor" => run.id # 0 /\ \A j \in Jobs : result[j] # run.id

ResultsOK ==
  /\ result \in [Jobs -> -1..MaxActions]
  /\ \A j \in Jobs : result[j] > 0 =>
       /\ result[j] \in DOMAIN projected
       /\ chain[result[j]].status \in Done
  /\ ActionsReturnedOnce

ArmInv == ChainOK /\ TransitOK /\ TablesOK /\ RunOK /\ ResultsOK

\* No action disappears, and an executed one stays executed or settled.
Progress ==
  /\ ActionIds \subseteq ActionIds'
  /\ \A i \in ActionIds :
       chain[i].status \in Done => chain'[i].status \in Done

Held(j) == request[j] \in {"submitted", "answered"}

RequestsOK ==
  /\ request \in [Jobs -> RequestStates]
  /\ \A j \in Submits : request[j] = "submitted" =>
       quote[QuoteOf[j]] = "consuming"
  /\ \A j, k \in Submits :
       /\ request[j] = "submitted" /\ request[k] = "submitted"
       /\ QuoteOf[j] = QuoteOf[k]
       => j = k
  /\ \A j \in Submits : Held(j) => NonceOf[j] \in usedNonces
  /\ AuthorizationRunsOnce

\* A submitted call is in the queue once, or running, or has its result.
QueueOK ==
  /\ queue \in Seq(Jobs)
  /\ \A a \in 1..Len(queue) :
       request[queue[a]] = "submitted" /\ result[queue[a]] = 0
  /\ \A a, b \in 1..Len(queue) : queue[a] = queue[b] => a = b
  /\ Running => /\ request[run.job] = "submitted" /\ result[run.job] = 0
                /\ \A a \in 1..Len(queue) : queue[a] # run.job
  /\ \A j \in Jobs : request[j] \in {"new", "checked"} => result[j] = 0

QuotesOK ==
  /\ quote \in [Quotes -> {"none", "paid", "consuming", "consumed"}]
  /\ quoteAction \in [Quotes -> 0..MaxActions]
  /\ \A q \in Quotes : quoteAction[q] # 0 <=> quote[q] = "consumed"
  /\ ConsumedIsExecuted

PaidInv == ArmInv /\ RequestsOK /\ QueueOK /\ QuotesOK
-----------------------------------------------------------------------------
(* The greatest element of a bounded set of numbers is one of them.        *)
LEMMA BoundedHasMax ==
  ASSUME NEW n \in Nat, NEW S, S \subseteq 0..n, S # {}
  PROVE  Max(S) \in S /\ \A k \in S : k <= Max(S)
<1> DEFINE R == {ss \in Nat \X Nat : ss[1] < ss[2]}
           T == {n - k : k \in S}
<1>1. IsWellFoundedOn(R, Nat)
  BY NatLessThanWellFounded DEF OpToRel
<1>2. T \subseteq Nat
  <2>1. \A k \in S : k \in 0..n
    OBVIOUS
  <2>2. \A k \in 0..n : n - k \in Nat
    OBVIOUS
  <2> QED  BY <2>1, <2>2
<1>3. T # {}
  OBVIOUS
<1> HIDE DEF T
<1>4. \E x \in T : \A y \in T : <<y, x>> \notin R
  <2> HIDE DEF R
  <2> QED  BY <1>1, <1>2, <1>3, WFMin
<1>5. PICK x \in T : \A y \in T : ~(y < x)
  BY <1>2, <1>4
<1>6. PICK m \in S : x = n - m
  BY <1>5 DEF T
<1>7. \A k \in S : m >= k
  <2> SUFFICES ASSUME NEW k \in S PROVE m >= k
    OBVIOUS
  <2>1. ~(n - k < x)
    BY <1>5 DEF T
  <2> QED  BY <1>6, <2>1
<1>8. Max(S) \in S /\ \A k \in S : Max(S) >= k
  BY <1>7 DEF Max
<1> QED  BY <1>8

-----------------------------------------------------------------------------
(* The chain.                                                              *)

LEMMA ActionAt ==
  ASSUME ChainOK, NEW i \in ActionIds
  PROVE  /\ i \in Nat \ {0} /\ i <= Len(chain) /\ i <= MaxActions
         /\ chain[i] \in Actions
         /\ chain[i].invoice \in Jobs \cup {Runner}
         /\ chain[i].claim \in -1..2
         /\ chain[i].status \in StatusOrder
<1>1. Len(chain) \in Nat /\ MaxActions \in Nat /\ Len(chain) <= MaxActions
  BY ArmAssumption, LenProperties DEF ChainOK
<1>2. chain[i] \in Actions
  BY ElementOfSeq DEF ChainOK, ActionIds
<1>3. i \in Nat \ {0} /\ i <= Len(chain) /\ i <= MaxActions
  BY <1>1 DEF ActionIds
<1> QED  BY <1>2, <1>3 DEF Actions

LEMMA ChainAppended ==
  ASSUME ChainOK, NEW a \in Actions, a.status = "Initiated",
         Len(chain) < MaxActions, chain' = Append(chain, a),
         UNCHANGED <<invoiceClaim, paid>>
  PROVE  ChainOK' /\ Progress
<1>1. chain' \in Seq(Actions) /\ Len(chain') = Len(chain) + 1
  BY AppendProperties DEF ChainOK
<1>2. \A i \in ActionIds : chain'[i] = chain[i]
  BY AppendProperties DEF ChainOK, ActionIds
<1>3. chain'[Len(chain')] = a
  BY AppendProperties DEF ChainOK
<1>4. Len(chain) \in Nat
  BY LenProperties DEF ChainOK
<1>5. ActionIds' = ActionIds \cup {Len(chain')}
  BY <1>1, <1>4 DEF ActionIds
<1>6. Len(chain') <= MaxActions
  BY <1>1, <1>4, ArmAssumption
<1>7. Progress
  BY <1>2, <1>5 DEF Progress
<1>8. \A i \in ActionIds' :
        chain'[i].status \in Done => chain'[i].invoice \in paid'
  BY <1>2, <1>3, <1>5 DEF ChainOK, Done
<1> QED  BY <1>1, <1>6, <1>7, <1>8 DEF ChainOK

LEMMA ChainAdvanced ==
  ASSUME ChainOK, NEW i \in ActionIds, NEW s \in StatusOrder,
         chain[i].status \in Done => s \in Done,
         chain' = [chain EXCEPT ![i].status = s],
         paid \subseteq paid', paid' \subseteq Jobs \cup {Runner},
         s \in Done => chain[i].invoice \in paid',
         UNCHANGED invoiceClaim
  PROVE  ChainOK' /\ Progress
<1>1. chain[i] \in Actions /\ chain \in Seq(Actions)
  BY ActionAt DEF ChainOK
<1> DEFINE moved == [chain[i] EXCEPT !.status = s]
<1>2. moved \in Actions /\ moved.status = s /\ moved.invoice = chain[i].invoice
  BY <1>1 DEF Actions
<1>3. chain' = [chain EXCEPT ![i] = moved]
  OBVIOUS
<1> HIDE DEF moved
<1>4. chain' \in Seq(Actions) /\ Len(chain') = Len(chain)
  BY <1>1, <1>2, <1>3, ExceptSeq DEF ActionIds
<1>5. chain'[i] = moved /\ \A k \in ActionIds \ {i} : chain'[k] = chain[k]
  BY <1>1, <1>3 DEF ActionIds
<1>6. ActionIds' = ActionIds
  BY <1>4 DEF ActionIds
<1>7. Progress
  BY <1>2, <1>5, <1>6 DEF Progress
<1>8. \A k \in ActionIds' :
        chain'[k].status \in Done => chain'[k].invoice \in paid'
  <2> SUFFICES ASSUME NEW k \in ActionIds, chain'[k].status \in Done
               PROVE  chain'[k].invoice \in paid'
    BY <1>6
  <2>1. CASE k = i
    BY <2>1, <1>2, <1>5
  <2>2. CASE k # i
    BY <2>2, <1>5 DEF ChainOK
  <2> QED  BY <2>1, <2>2
<1> QED  BY <1>4, <1>7, <1>8 DEF ChainOK

LEMMA IncludedKeepsChain ==
  ASSUME ChainOK, NEW tx, IsTx(tx), Includes(tx)
  PROVE  ChainOK' /\ Progress
<1>1. CASE tx.kind = "initiate"
  <2> DEFINE a == [invoice |-> tx.invoice, claim |-> tx.claim,
                   status |-> "Initiated"]
  <2>1. a \in Actions
    BY <1>1 DEF IsTx, Actions, StatusOrder
  <2>2. chain' = Append(chain, a) /\ Len(chain) < MaxActions
    BY <1>1 DEF Includes, Accepted
  <2>3. UNCHANGED <<invoiceClaim, paid>>
    BY <1>1 DEF Includes
  <2>4. a.status = "Initiated"
    OBVIOUS
  <2> HIDE DEF a
  <2> QED  BY <2>1, <2>2, <2>3, <2>4, ChainAppended
<1>2. CASE tx.kind = "post_bond"
  <2>1. tx.id \in ActionIds
    BY <1>2 DEF IsTx
  <2>2. /\ chain[tx.id].status = "Initiated"
        /\ chain' = [chain EXCEPT ![tx.id].status = "Bonded"]
        /\ UNCHANGED <<invoiceClaim, paid>>
    BY <1>2 DEF Includes, Accepted
  <2> QED  BY <2>1, <2>2, ChainAdvanced DEF StatusOrder, Done, ChainOK
<1>3. CASE tx.kind = "execute"
  <2>1. tx.id \in ActionIds
    BY <1>3 DEF IsTx
  <2>2. /\ chain[tx.id].status = "Bonded"
        /\ chain' = [chain EXCEPT ![tx.id].status = "Executed"]
        /\ paid' = paid \cup {chain[tx.id].invoice}
        /\ UNCHANGED invoiceClaim
    BY <1>3 DEF Includes, Accepted
  <2>3. chain[tx.id].invoice \in Jobs \cup {Runner}
    BY <2>1, ActionAt
  <2>4. paid' \subseteq Jobs \cup {Runner}
    BY <2>2, <2>3 DEF ChainOK
  <2> QED  BY <2>1, <2>2, <2>4, ChainAdvanced DEF StatusOrder, Done
<1> QED  BY <1>1, <1>2, <1>3 DEF IsTx

-----------------------------------------------------------------------------
(* What each part keeps when a step leaves its own variables alone.        *)

LEMMA ChainStays ==
  ASSUME ChainOK, UNCHANGED chainVars
  PROVE  ChainOK' /\ Progress
  BY DEF chainVars, ChainOK, Progress, ActionIds

LEMMA TransitFrame ==
  ASSUME TransitOK, Progress, inTransit' \subseteq inTransit
  PROVE  TransitOK'
  BY DEF TransitOK, Progress, IsTx

LEMMA TransitAdds ==
  ASSUME TransitOK, Progress, NEW tx, IsTx(tx), NEW n,
         inTransit' = inTransit \cup {[tx |-> tx, nth |-> n]}
  PROVE  TransitOK'
  BY DEF TransitOK, Progress, IsTx

LEMMA TablesFrame ==
  ASSUME TablesOK, Progress, UNCHANGED tableVars
  PROVE  TablesOK'
  BY DEF TablesOK, Progress, tableVars, NothingRead

LEMMA RunFrame ==
  ASSUME RunOK, Progress, UNCHANGED <<run, result>>,
         DOMAIN projected \subseteq DOMAIN projected'
  PROVE  RunOK'
  BY DEF RunOK, Progress, Running

LEMMA RunIsOver ==
  ASSUME run' = Idle
  PROVE  RunOK'
  BY DEF RunOK, Running, Idle

LEMMA ResultsFrame ==
  ASSUME ResultsOK, TablesOK, Progress, UNCHANGED result,
         DOMAIN projected \subseteq DOMAIN projected'
  PROVE  ResultsOK'
<1>1. \A j \in Jobs : result[j] > 0 =>
        /\ result[j] \in DOMAIN projected'
        /\ chain'[result[j]].status \in Done
  BY DEF ResultsOK, TablesOK, Progress
<1> QED  BY <1>1 DEF ResultsOK, ActionsReturnedOnce

LEMMA Projected ==
  ASSUME NEW i, NEW s, Projects(i, s)
  PROVE  DOMAIN projected' = DOMAIN projected \cup {i}
  BY DEF Projects

\* The run goes on at another step with the action it has.
LEMMA RunMoves ==
  ASSUME RunOK, Running, Progress, UNCHANGED result,
         DOMAIN projected \subseteq DOMAIN projected',
         NEW pc \in Steps \ {"cursor"}, ContinueAt(pc), run.pc # "cursor",
         pc \in Located => run.id \in ActionIds',
         pc = "final_poll" => run.id \in DOMAIN projected'
  PROVE  RunOK'
<1>1. /\ run' \in [pc : Steps, job : Jobs, attempt : 1..2,
                   id : 0..MaxActions + 1]
      /\ run'.pc = pc /\ run'.id = run.id
  BY DEF RunOK, ContinueAt
<1> QED  BY <1>1 DEF RunOK, Running
-----------------------------------------------------------------------------
(* Steps of the surroundings.                                              *)

LEMMA SurroundingsStep ==
  ASSUME ArmInv, ChainOK', Progress, inTransit' \subseteq inTransit,
         UNCHANGED <<tableVars, run, result>>
  PROVE  ArmInv'
<1>1. UNCHANGED projected
  BY DEF tableVars
<1>2. TransitOK'
  BY TransitFrame DEF ArmInv
<1>3. TablesOK'
  BY TablesFrame DEF ArmInv
<1>4. RunOK'
  BY <1>1, RunFrame DEF ArmInv
<1>5. ResultsOK'
  BY <1>1, ResultsFrame DEF ArmInv
<1> QED  BY <1>2, <1>3, <1>4, <1>5 DEF ArmInv

LEMMA SurroundingsKeep ==
  ASSUME ArmInv, Surroundings
  PROVE  /\ ArmInv' /\ Progress
         /\ DOMAIN projected \subseteq DOMAIN projected'
         /\ UNCHANGED <<queue, run, result>>
<1> USE DEF tableVars
<1>1. CASE \E t \in inTransit : LateInclusion(t)
  <2>1. PICK t \in inTransit : LateInclusion(t)
    BY <1>1
  <2>2. IsTx(t.tx)
    BY DEF ArmInv, TransitOK
  <2>3. ChainOK' /\ Progress
    BY <2>1, <2>2, IncludedKeepsChain, ChainStays DEF LateInclusion, ArmInv
  <2>4. /\ inTransit' \subseteq inTransit
        /\ UNCHANGED <<tableVars, queue, run, result>>
    BY <2>1 DEF LateInclusion
  <2> QED  BY <2>3, <2>4, SurroundingsStep
<1>2. CASE RunnerInitiates
  <2> DEFINE tx == [kind |-> "initiate", invoice |-> Runner, claim |-> NoClaim]
  <2>1. IsTx(tx)
    BY DEF IsTx, NoClaim
  <2>2. Includes(tx) /\ UNCHANGED <<inTransit, tableVars, queue, run, result>>
    BY <1>2 DEF RunnerInitiates
  <2> HIDE DEF tx
  <2>3. ChainOK' /\ Progress
    BY <2>1, <2>2, IncludedKeepsChain DEF ArmInv
  <2> QED  BY <2>2, <2>3, SurroundingsStep
<1>3. CASE \E i \in ActionIds : RunnerContinues(i)
  <2>1. PICK i \in ActionIds : RunnerContinues(i)
    BY <1>3
  <2>2. PICK kind \in {"post_bond", "execute"} :
          Includes([kind |-> kind, id |-> i])
    BY <2>1 DEF RunnerContinues
  <2>3. IsTx([kind |-> kind, id |-> i])
    BY DEF IsTx
  <2>4. ChainOK' /\ Progress
    BY <2>2, <2>3, IncludedKeepsChain DEF ArmInv
  <2>5. UNCHANGED <<inTransit, tableVars, queue, run, result>>
    BY <2>1 DEF RunnerContinues
  <2> QED  BY <2>4, <2>5, SurroundingsStep
<1>4. CASE \E i \in ActionIds : ActionLeavesExecuted(i)
  <2>1. PICK i \in ActionIds : ActionLeavesExecuted(i)
    BY <1>4
  <2>2. /\ chain[i].status = "Executed"
        /\ chain' = [chain EXCEPT ![i].status = "Settled"]
        /\ UNCHANGED <<invoiceClaim, paid, inTransit, tableVars, queue, run,
                       result>>
    BY <2>1 DEF ActionLeavesExecuted
  <2>3. chain[i].invoice \in paid /\ paid \subseteq Jobs \cup {Runner}
    BY <2>2 DEF ArmInv, ChainOK, Done
  <2>4. ChainOK' /\ Progress
    BY <2>2, <2>3, ChainAdvanced DEF ArmInv, StatusOrder, Done
  <2> QED  BY <2>2, <2>4, SurroundingsStep
<1>5. CASE \E i \in ActionIds : ListenerReads(i)
  <2>1. PICK i \in ActionIds : ListenerReads(i)
    BY <1>5
  <2>2. /\ listener' = [id |-> i, status |-> chain[i].status]
        /\ UNCHANGED <<chainVars, inTransit, projected, queue, run, result>>
    BY <2>1 DEF ListenerReads
  <2>3. ChainOK' /\ Progress
    BY <2>2, ChainStays DEF ArmInv
  <2>4. TransitOK'
    BY <2>2, <2>3, TransitFrame DEF ArmInv
  <2>5. TablesOK'
    BY <2>2, <2>3 DEF ArmInv, TablesOK, Progress
  <2>6. RunOK' /\ ResultsOK'
    BY <2>2, <2>3, RunFrame, ResultsFrame DEF ArmInv
  <2> QED  BY <2>2, <2>3, <2>4, <2>5, <2>6 DEF ArmInv
<1>6. CASE ListenerWrites
  <2>1. /\ listener # NothingRead /\ listener' = NothingRead
        /\ Projects(listener.id, listener.status)
        /\ UNCHANGED <<chainVars, inTransit, queue, run, result>>
    BY <1>6 DEF ListenerWrites
  <2>2. ChainOK' /\ Progress
    BY <2>1, ChainStays DEF ArmInv
  <2>3. TransitOK'
    BY <2>1, <2>2, TransitFrame DEF ArmInv
  <2>4. DOMAIN projected' = DOMAIN projected \cup {listener.id}
    BY <2>1, Projected
  <2>5. TablesOK'
    BY <2>1, <2>2, <2>4 DEF ArmInv, TablesOK, Progress
  <2>6. RunOK' /\ ResultsOK'
    BY <2>1, <2>2, <2>4, RunFrame, ResultsFrame DEF ArmInv
  <2> QED  BY <2>1, <2>2, <2>3, <2>4, <2>5, <2>6 DEF ArmInv
<1> QED  BY <1>1, <1>2, <1>3, <1>4, <1>5, <1>6 DEF Surroundings
-----------------------------------------------------------------------------
(* Steps of the run.                                                       *)

\* What a step of the run means for the calls: the run goes on with its
\* call, ends it with a result, or takes the first call of the queue.
CallStep ==
  \/ /\ Running /\ Running' /\ run'.job = run.job
     /\ UNCHANGED <<queue, result>>
  \/ /\ Running /\ run' = Idle /\ UNCHANGED queue
     /\ \E v \in -1..MaxActions \ {0} :
          result' = [result EXCEPT ![run.job] = v]
  \/ StartRun

RunKeeps ==
  /\ ArmInv' /\ Progress /\ CallStep
  /\ DOMAIN projected \subseteq DOMAIN projected'

LEMMA RunGoesOn ==
  ASSUME ArmInv, Running, run.pc # "cursor", ChainOK', Progress, TransitOK',
         UNCHANGED <<tableVars, queue, result>>,
         NEW pc \in Steps \ {"cursor", "final_poll"}, ContinueAt(pc),
         pc \in Located => run.id \in ActionIds
  PROVE  RunKeeps
<1>1. UNCHANGED projected /\ UNCHANGED listener
  BY DEF tableVars
<1>2. TablesOK'
  BY TablesFrame DEF ArmInv
<1>3. pc \in Located => run.id \in ActionIds'
  BY DEF Progress
<1>4. RunOK'
  BY <1>1, <1>3, RunMoves DEF ArmInv
<1>5. ResultsOK'
  BY <1>1, ResultsFrame DEF ArmInv
<1>6. run'.pc = pc /\ run'.job = run.job
  BY DEF ContinueAt, ArmInv, RunOK
<1>7. Running'
  BY <1>6 DEF Running, Steps, Located
<1> QED  BY <1>1, <1>2, <1>4, <1>5, <1>6, <1>7 DEF RunKeeps, CallStep, ArmInv

LEMMA RunFinishes ==
  ASSUME ArmInv, Running, ChainOK', Progress, TransitOK',
         UNCHANGED <<tableVars, queue>>,
         NEW v, RunEnds(v),
         \/ v = Failed
         \/ /\ v = run.id /\ run.pc # "cursor"
            /\ v \in DOMAIN projected /\ chain[v].status \in Done
  PROVE  RunKeeps
<1>1. UNCHANGED projected /\ UNCHANGED listener
  BY DEF tableVars
<1>2. /\ run' = Idle /\ result' = [result EXCEPT ![run.job] = v]
      /\ run.job \in Jobs
  BY DEF RunEnds, ArmInv, RunOK
<1>3. TablesOK' /\ RunOK'
  BY <1>2, TablesFrame, RunIsOver DEF ArmInv
<1>4. v = Failed \/ v \in ActionIds
  BY DEF ArmInv, TablesOK
<1>5. v \in -1..MaxActions \ {0}
  BY <1>4, ActionAt, ArmAssumption DEF Failed, ArmInv
<1>6. \A j \in Jobs : result'[j] = IF j = run.job THEN v ELSE result[j]
  BY <1>2 DEF ArmInv, ResultsOK
<1>7. result' \in [Jobs -> -1..MaxActions]
  BY <1>2, <1>5 DEF ArmInv, ResultsOK
<1>8. v > 0 => \A j \in Jobs : result[j] # v
  BY DEF ArmInv, RunOK, Failed
<1>9. \A j \in Jobs : result'[j] > 0 =>
        /\ result'[j] \in DOMAIN projected'
        /\ chain'[result'[j]].status \in Done
  <2> SUFFICES ASSUME NEW j \in Jobs, result'[j] > 0
               PROVE  /\ result'[j] \in DOMAIN projected
                      /\ chain'[result'[j]].status \in Done
    BY <1>1
  <2>1. /\ result'[j] \in DOMAIN projected
        /\ chain[result'[j]].status \in Done
    BY <1>6 DEF ArmInv, ResultsOK, Failed
  <2> QED  BY <2>1 DEF ArmInv, TablesOK, Progress
<1>10. ActionsReturnedOnce'
  <2> SUFFICES ASSUME NEW j \in Jobs, NEW k \in Jobs, j # k, result'[j] > 0
               PROVE  result'[j] # result'[k]
    BY DEF ActionsReturnedOnce
  <2> QED  BY <1>5, <1>6, <1>8 DEF ArmInv, ResultsOK, ActionsReturnedOnce
<1>11. ResultsOK'
  BY <1>7, <1>9, <1>10 DEF ResultsOK
<1> QED  BY <1>1, <1>2, <1>3, <1>5, <1>11 DEF RunKeeps, CallStep, ArmInv

LEMMA SendKeeps ==
  ASSUME ArmInv, Running, run.pc # "cursor", NEW tx, IsTx(tx),
         NEW pc \in {"read", "poll"}, Sends(tx, pc),
         pc = "poll" => run.id \in ActionIds
  PROVE  RunKeeps
<1>1. /\ Includes(tx) /\ ContinueAt(pc)
      /\ UNCHANGED <<inTransit, tableVars, queue, result>>
  BY DEF Sends
<1>2. ChainOK' /\ Progress
  BY <1>1, IncludedKeepsChain DEF ArmInv
<1>3. TransitOK'
  BY <1>1, <1>2, TransitFrame DEF ArmInv
<1> QED  BY <1>1, <1>2, <1>3, RunGoesOn DEF Steps, Located

LEMMA TimeoutKeeps ==
  ASSUME ArmInv, Running, run.pc # "cursor", NEW tx, IsTx(tx),
         NEW pc \in {"confirm_initiate", "confirm_bond", "confirm_execute"},
         TimesOut(tx, ContinueAt(pc) /\ UNCHANGED result),
         pc # "confirm_initiate" => run.id \in ActionIds
  PROVE  RunKeeps
<1>1. /\ inTransit' = inTransit \cup {[tx |-> tx, nth |-> faults.timeouts]}
      /\ ContinueAt(pc)
      /\ UNCHANGED <<chainVars, tableVars, queue, result>>
  BY DEF TimesOut
<1>2. ChainOK' /\ Progress
  BY <1>1, ChainStays DEF ArmInv
<1>3. TransitOK'
  BY <1>1, <1>2, TransitAdds DEF ArmInv
<1> QED  BY <1>1, <1>2, <1>3, RunGoesOn DEF Steps, Located
-----------------------------------------------------------------------------
(* The action a run is to work on.                                         *)

LEMMA LastProjectedBounded ==
  ASSUME ArmInv
  PROVE  /\ LastProjected \in Nat /\ LastProjected <= Len(chain)
         /\ \A i \in DOMAIN projected : i <= LastProjected
<1>1. Len(chain) \in Nat
  BY LenProperties DEF ArmInv, ChainOK
<1>2. CASE DOMAIN projected = {}
  BY <1>1, <1>2 DEF LastProjected
<1>3. CASE DOMAIN projected # {}
  <2>1. DOMAIN projected \subseteq 0..Len(chain)
    BY <1>1 DEF ArmInv, TablesOK, ActionIds
  <2>2. /\ Max(DOMAIN projected) \in DOMAIN projected
        /\ \A i \in DOMAIN projected : i <= Max(DOMAIN projected)
    BY <1>1, <1>3, <2>1, BoundedHasMax
  <2>3. Max(DOMAIN projected) \in 0..Len(chain)
    BY <2>1, <2>2
  <2>4. LastProjected = Max(DOMAIN projected)
    BY <1>3 DEF LastProjected
  <2> QED  BY <1>1, <2>2, <2>3, <2>4
<1> QED  BY <1>2, <1>3

(* A run resumes an action whose invoice is unpaid, or takes an id beyond  *)
(* the database: in both cases one that no call has returned, also where   *)
(* a failing read ended the scan early.                                    *)
LEMMA ResumableExists ==
  ASSUME ArmInv, NEW last \in Nat, last <= Len(chain), Resumable(last) # {}
  PROVE  /\ Max(Resumable(last)) \in Resumable(last)
         /\ Max(Resumable(last)) \in ActionIds
<1>1. Len(chain) \in Nat
  BY LenProperties DEF ArmInv, ChainOK
<1>2. KnownActions(last) \subseteq ActionIds
  <2>1. DOMAIN projected \subseteq ActionIds
    BY DEF ArmInv, TablesOK
  <2>2. (LastProjected + 1)..last \subseteq ActionIds
    BY <1>1, LastProjectedBounded DEF ActionIds
  <2> QED  BY <2>1, <2>2 DEF KnownActions
<1>3. Resumable(last) \subseteq ActionIds
  BY <1>2 DEF Resumable
<1>4. Resumable(last) \subseteq 0..Len(chain)
  BY <1>1, <1>3 DEF ActionIds
<1>5. Max(Resumable(last)) \in Resumable(last)
  BY <1>1, <1>4, BoundedHasMax
<1> QED  BY <1>3, <1>5

LEMMA ReturnedIsPaid ==
  ASSUME ArmInv, NEW j \in Jobs, result[j] > 0
  PROVE  result[j] \in ActionIds /\ chain[result[j]].invoice \in paid
  BY DEF ArmInv, ResultsOK, TablesOK, ChainOK

LEMMA CursorKeeps ==
  ASSUME ArmInv, Running, ResolveCursor
  PROVE  RunKeeps
<1>1. /\ run.pc = "cursor"
      /\ UNCHANGED <<chainVars, inTransit, tableVars, queue, result>>
  BY DEF ResolveCursor
<1>2. ChainOK' /\ Progress /\ UNCHANGED projected
  BY <1>1, ChainStays DEF ArmInv, tableVars
<1>3. TransitOK' /\ TablesOK' /\ ResultsOK'
  BY <1>1, <1>2, TransitFrame, TablesFrame, ResultsFrame DEF ArmInv
<1>4. /\ run \in [pc : Steps, job : Jobs, attempt : 1..2,
                  id : 0..MaxActions + 1]
      /\ result \in [Jobs -> -1..MaxActions]
  BY DEF ArmInv, RunOK, ResultsOK
<1>5. Len(chain) \in Nat /\ MaxActions \in Nat /\ Len(chain) <= MaxActions
  BY LenProperties, ArmAssumption DEF ArmInv, ChainOK
<1>a. PICK n : /\ n \in LastProjected..(LastProjected + MaxProbes - 1)
               /\ ScanEndsAt(n)
               /\ run' = IF Resumable(n) # {}
                         THEN [run EXCEPT !.id = Max(Resumable(n)), !.pc = "read"]
                         ELSE [run EXCEPT !.id = n + 1, !.pc = "submit_invoice"]
  BY DEF ResolveCursor
<1>b. n \in Nat /\ n >= LastProjected /\ n <= Len(chain)
  BY <1>5, <1>a, LastProjectedBounded DEF ScanEndsAt, MaxProbes
<1>6. CASE Resumable(n) # {}
  <2>1. PICK i : i = Max(Resumable(n))
    OBVIOUS
  <2>2. i \in Resumable(n) /\ i \in ActionIds
    BY <1>6, <1>b, <2>1, ResumableExists
  <2>3. run' = [run EXCEPT !.id = i, !.pc = "read"]
    BY <1>6, <1>a, <2>1
  <2>4. chain[i].invoice \notin paid
    BY <2>2 DEF Resumable, Unpaid
  <2>5. i \in Nat \ {0} /\ i <= MaxActions
    BY <2>2, ActionAt DEF ArmInv
  <2>6. \A j \in Jobs : result[j] # i
    BY <2>4, <2>5, ReturnedIsPaid
  <2>7. i \in 0..MaxActions + 1
    BY <1>5, <2>5
  <2>8. /\ run' \in [pc : Steps, job : Jobs, attempt : 1..2,
                     id : 0..MaxActions + 1]
        /\ run'.pc = "read" /\ run'.id = i /\ run'.job = run.job
    BY <1>4, <2>3, <2>7 DEF Steps
  <2>9. RunOK' /\ Running'
    BY <1>1, <2>5, <2>6, <2>8 DEF RunOK, Running, Located
  <2> QED  BY <1>1, <1>2, <1>3, <2>8, <2>9 DEF RunKeeps, CallStep, ArmInv
<1>7. CASE Resumable(n) = {}
  <2>3. run' = [run EXCEPT !.id = n + 1, !.pc = "submit_invoice"]
    BY <1>7, <1>a
  <2>4. \A j \in Jobs : result[j] # n + 1
    <3> SUFFICES ASSUME NEW j \in Jobs, result[j] = n + 1 PROVE FALSE
      OBVIOUS
    <3>1. result[j] \in DOMAIN projected
      BY <1>b DEF ArmInv, ResultsOK
    <3> QED  BY <1>b, <3>1, LastProjectedBounded
  <2>5. n + 1 \in 0..MaxActions + 1
    BY <1>5, <1>b
  <2>6. /\ run' \in [pc : Steps, job : Jobs, attempt : 1..2,
                     id : 0..MaxActions + 1]
        /\ run'.pc = "submit_invoice" /\ run'.id = n + 1
        /\ run'.job = run.job
    BY <1>4, <2>3, <2>5 DEF Steps
  <2>7. n + 1 # 0
    BY <1>b
  <2>8. RunOK' /\ Running'
    BY <1>1, <2>4, <2>6, <2>7 DEF RunOK, Running, Located
  <2> QED  BY <1>1, <1>2, <1>3, <2>6, <2>8 DEF RunKeeps, CallStep, ArmInv
<1> QED  BY <1>6, <1>7

LEMMA ClaimType ==
  ASSUME ArmInv, Running
  PROVE  Claim \in -1..2
<1>1. run.attempt \in 1..2
  BY DEF ArmInv, RunOK
<1> QED  BY <1>1 DEF Claim, Collision

LEMMA InvoiceKeeps ==
  ASSUME ArmInv, Running, SubmitInvoice
  PROVE  RunKeeps
<1>1. /\ run.pc = "submit_invoice" /\ ContinueAt("initiate")
      /\ invoiceClaim' = [invoiceClaim EXCEPT ![run.job] =
           IF @ = NoClaim THEN Claim ELSE @]
      /\ UNCHANGED <<chain, paid, inTransit, tableVars, queue, result>>
  BY DEF SubmitInvoice
<1>2. Claim \in -1..2
  BY ClaimType
<1> HIDE DEF Claim
<1>3. invoiceClaim' \in [Jobs -> -1..2]
  BY <1>1, <1>2 DEF ArmInv, ChainOK
<1>4. ChainOK' /\ Progress
  BY <1>1, <1>3 DEF ArmInv, ChainOK, Progress, ActionIds
<1>5. TransitOK'
  BY <1>1, <1>4, TransitFrame DEF ArmInv
<1> QED  BY <1>1, <1>4, <1>5, RunGoesOn DEF Steps, Located

LEMMA InitiateKeeps ==
  ASSUME ArmInv, Running, Initiate \/ ConfirmInitiate
  PROVE  RunKeeps
<1>1. run.pc \in {"initiate", "confirm_initiate"}
  BY DEF Initiate, ConfirmInitiate
<1>2. run.job \in Jobs
  BY DEF ArmInv, RunOK
<1>3. IsTx(InitiateTx)
  BY <1>2, ClaimType DEF IsTx, InitiateTx
<1>4. CASE Sends(InitiateTx, "read")
  BY <1>1, <1>3, <1>4, SendKeeps
<1>5. CASE TimesOut(InitiateTx,
                    ContinueAt("confirm_initiate") /\ UNCHANGED result)
  BY <1>1, <1>3, <1>5, TimeoutKeeps
<1>6. CASE TimesOut(InitiateTx, RunEnds(Failed))
  <2>1. /\ inTransit' = inTransit
             \cup {[tx |-> InitiateTx, nth |-> faults.timeouts]}
        /\ RunEnds(Failed)
        /\ UNCHANGED <<chainVars, tableVars, queue>>
    BY <1>6 DEF TimesOut
  <2>2. ChainOK' /\ Progress
    BY <2>1, ChainStays DEF ArmInv
  <2>3. TransitOK'
    BY <1>3, <2>1, <2>2, TransitAdds DEF ArmInv
  <2> QED  BY <2>1, <2>2, <2>3, RunFinishes
<1>7. CASE /\ run.id \in ActionIds /\ ContinueAt("read")
           /\ UNCHANGED <<chainVars, inTransit, tableVars, queue, result>>
  <2>1. ChainOK' /\ Progress
    BY <1>7, ChainStays DEF ArmInv
  <2>2. TransitOK'
    BY <1>7, <2>1, TransitFrame DEF ArmInv
  <2> QED  BY <1>1, <1>7, <2>1, <2>2, RunGoesOn DEF Steps, Located
<1> QED  BY <1>4, <1>5, <1>6, <1>7 DEF Initiate, ConfirmInitiate

\* A step that only looks at the chain.
LEMMA LookKeeps ==
  ASSUME ArmInv, Running, ReadAction \/ Confirm
  PROVE  RunKeeps
<1>1. /\ run.pc \in {"read", "confirm_bond", "confirm_execute"}
      /\ UNCHANGED <<chainVars, inTransit, tableVars, queue, result>>
  BY DEF ReadAction, Confirm
<1>2. ChainOK' /\ Progress
  BY <1>1, ChainStays DEF ArmInv
<1>3. TransitOK'
  BY <1>1, <1>2, TransitFrame DEF ArmInv
<1>4. run.id \in ActionIds
  <2>1. CASE ReadAction
    BY <2>1 DEF ReadAction
  <2>2. CASE Confirm
    BY <2>2 DEF Confirm, ArmInv, RunOK, Located
  <2> QED  BY <2>1, <2>2
<1>5. PICK pc \in {"read", "post_bond", "execute", "poll"} : ContinueAt(pc)
  BY DEF ReadAction, Confirm
<1> QED  BY <1>1, <1>2, <1>3, <1>4, <1>5, RunGoesOn DEF Steps, Located

LEMMA PostBondKeeps ==
  ASSUME ArmInv, Running, PostBond
  PROVE  RunKeeps
<1> DEFINE tx == [kind |-> "post_bond", id |-> run.id]
<1>1. run.pc = "post_bond"
  BY DEF PostBond
<1>2. run.id \in ActionIds
  BY <1>1 DEF ArmInv, RunOK, Located
<1>3. IsTx(tx)
  BY <1>2 DEF IsTx
<1>4. \/ Sends(tx, "read")
      \/ TimesOut(tx, ContinueAt("confirm_bond") /\ UNCHANGED result)
  BY DEF PostBond
<1> HIDE DEF tx
<1> QED  BY <1>1, <1>2, <1>3, <1>4, SendKeeps, TimeoutKeeps

LEMMA ExecuteKeeps ==
  ASSUME ArmInv, Running, ExecuteAction
  PROVE  RunKeeps
<1> DEFINE tx == [kind |-> "execute", id |-> run.id]
<1>1. run.pc = "execute"
  BY DEF ExecuteAction
<1>2. run.id \in ActionIds
  BY <1>1 DEF ArmInv, RunOK, Located
<1>3. IsTx(tx)
  BY <1>2 DEF IsTx
<1>4. \/ Sends(tx, "poll")
      \/ TimesOut(tx, ContinueAt("confirm_execute") /\ UNCHANGED result)
  BY DEF ExecuteAction
<1> HIDE DEF tx
<1> QED  BY <1>1, <1>2, <1>3, <1>4, SendKeeps, TimeoutKeeps

LEMMA PollKeeps ==
  ASSUME ArmInv, Running, PollAndRecord
  PROVE  RunKeeps
<1>1. /\ run.pc = "poll" /\ Projects(run.id, chain[run.id].status)
      /\ ContinueAt("final_poll")
      /\ UNCHANGED <<chainVars, inTransit, listener, queue, result>>
  BY DEF PollAndRecord, Records
<1>2. ChainOK' /\ Progress
  BY <1>1, ChainStays DEF ArmInv
<1>3. TransitOK'
  BY <1>1, <1>2, TransitFrame DEF ArmInv
<1>4. DOMAIN projected' = DOMAIN projected \cup {run.id}
  BY <1>1, Projected
<1>5. run.id \in ActionIds
  BY <1>1 DEF ArmInv, RunOK, Located
<1>6. TablesOK'
  BY <1>1, <1>2, <1>4, <1>5 DEF ArmInv, TablesOK, Progress
<1>7. run.id \in ActionIds'
  BY <1>2, <1>5 DEF Progress
<1>8. RunOK'
  BY <1>1, <1>2, <1>4, <1>7, RunMoves DEF ArmInv, Steps, Located
<1>9. ResultsOK'
  BY <1>1, <1>2, <1>4, ResultsFrame DEF ArmInv
<1>10. run'.pc = "final_poll" /\ run'.job = run.job
  BY <1>1 DEF ContinueAt, ArmInv, RunOK
<1>11. Running'
  BY <1>10 DEF Running
<1> QED  BY <1>1, <1>2, <1>3, <1>4, <1>6, <1>8, <1>9, <1>10, <1>11
         DEF RunKeeps, CallStep, ArmInv

LEMMA StartKeeps ==
  ASSUME ArmInv, queue \in Seq(Jobs), StartRun
  PROVE  RunKeeps
<1>1. /\ queue # <<>>
      /\ UNCHANGED <<chainVars, inTransit, tableVars, result>>
      /\ run' = [pc |-> "cursor", job |-> Head(queue), attempt |-> 1, id |-> 0]
  BY DEF StartRun
<1>2. ChainOK' /\ Progress
  BY <1>1, ChainStays DEF ArmInv
<1>3. TransitOK' /\ TablesOK' /\ UNCHANGED projected
  BY <1>1, <1>2, TransitFrame, TablesFrame DEF ArmInv, tableVars
<1>4. Head(queue) \in Jobs
  BY <1>1, HeadTailProperties
<1>5. RunOK'
  <2>1. 0 \in 0..MaxActions + 1
    BY ArmAssumption
  <2>2. run' \in [pc : Steps, job : Jobs, attempt : 1..2, id : 0..MaxActions + 1]
    BY <1>1, <1>4, <2>1 DEF Steps
  <2> QED  BY <1>1, <2>2 DEF RunOK, Located
<1>6. ResultsOK'
  BY <1>1, <1>2, <1>3, ResultsFrame DEF ArmInv
<1> QED  BY <1>2, <1>3, <1>5, <1>6 DEF RunKeeps, CallStep, ArmInv

LEMMA ThrowKeeps ==
  ASSUME ArmInv, RunThrows
  PROVE  RunKeeps
<1>1. /\ Running /\ RunEnds(Failed)
      /\ UNCHANGED <<chainVars, inTransit, tableVars, queue>>
  BY DEF RunThrows
<1>2. ChainOK' /\ Progress
  BY <1>1, ChainStays DEF ArmInv
<1>3. TransitOK'
  BY <1>1, <1>2, TransitFrame DEF ArmInv
<1> QED  BY <1>1, <1>2, <1>3, RunFinishes

LEMMA ShortfallKeeps ==
  ASSUME ArmInv, Shortfall
  PROVE  RunKeeps
<1>1. /\ Running
      /\ run' = [run EXCEPT !.pc = "cursor", !.attempt = 2, !.id = 0]
      /\ UNCHANGED <<chainVars, inTransit, tableVars, queue, result>>
  BY DEF Shortfall
<1>2. ChainOK' /\ Progress
  BY <1>1, ChainStays DEF ArmInv
<1>3. TransitOK' /\ TablesOK' /\ UNCHANGED projected
  BY <1>1, <1>2, TransitFrame, TablesFrame DEF ArmInv, tableVars
<1>4. ResultsOK'
  BY <1>1, <1>2, <1>3, ResultsFrame DEF ArmInv
<1>5. run \in [pc : Steps, job : Jobs, attempt : 1..2, id : 0..MaxActions + 1]
  BY <1>1 DEF ArmInv, RunOK
<1>6. 0 \in 0..MaxActions + 1 /\ 2 \in 1..2 /\ "cursor" \in Steps
  BY ArmAssumption DEF Steps
<1>7. /\ run' \in [pc : Steps, job : Jobs, attempt : 1..2,
                   id : 0..MaxActions + 1]
      /\ run'.pc = "cursor" /\ run'.job = run.job
  <2> DEFINE Ids == 0..MaxActions + 1
             Tries == 1..2
  <2>1. 0 \in Ids /\ 2 \in Tries
    BY <1>6
  <2>2. run \in [pc : Steps, job : Jobs, attempt : Tries, id : Ids]
    BY <1>5
  <2> HIDE DEF Ids, Tries
  <2>3. /\ run' \in [pc : Steps, job : Jobs, attempt : Tries, id : Ids]
        /\ run'.pc = "cursor" /\ run'.job = run.job
    BY <1>1, <1>6, <2>1, <2>2
  <2> QED  BY <2>3 DEF Ids, Tries
<1>8. RunOK' /\ Running'
  BY <1>7 DEF RunOK, Running, Located
<1> QED  BY <1>1, <1>2, <1>3, <1>4, <1>7, <1>8 DEF RunKeeps, CallStep, ArmInv

LEMMA FinalPollKeeps ==
  ASSUME ArmInv, Running, FinalPoll
  PROVE  RunKeeps
<1>1. /\ run.pc = "final_poll" /\ Ready(run.id) /\ RunEnds(run.id)
      /\ UNCHANGED <<chainVars, inTransit, tableVars, queue>>
  BY DEF FinalPoll
<1>2. ChainOK' /\ Progress
  BY <1>1, ChainStays DEF ArmInv
<1>3. TransitOK'
  BY <1>1, <1>2, TransitFrame DEF ArmInv
<1>4. run.id \in DOMAIN projected /\ chain[run.id].status \in Done
  BY <1>1 DEF ArmInv, RunOK, Ready, Done
<1> QED  BY <1>1, <1>2, <1>3, <1>4, RunFinishes

LEMMA RunStepKeeps ==
  ASSUME ArmInv, queue \in Seq(Jobs), RunStep
  PROVE  RunKeeps
<1>1. CASE StartRun
  BY <1>1, StartKeeps
<1>2. CASE RunThrows
  BY <1>2, ThrowKeeps
<1>3. CASE Shortfall
  BY <1>3, ShortfallKeeps
<1>4. CASE Running /\ ResolveCursor
  BY <1>4, CursorKeeps
<1>5. CASE Running /\ SubmitInvoice
  BY <1>5, InvoiceKeeps
<1>6. CASE Running /\ (Initiate \/ ConfirmInitiate)
  BY <1>6, InitiateKeeps
<1>7. CASE Running /\ (ReadAction \/ Confirm)
  BY <1>7, LookKeeps
<1>8. CASE Running /\ PostBond
  BY <1>8, PostBondKeeps
<1>9. CASE Running /\ ExecuteAction
  BY <1>9, ExecuteKeeps
<1>10. CASE Running /\ PollAndRecord
  BY <1>10, PollKeeps
<1>11. CASE Running /\ FinalPoll
  BY <1>11, FinalPollKeeps
<1> QED
  BY <1>1, <1>2, <1>3, <1>4, <1>5, <1>6, <1>7, <1>8, <1>9, <1>10, <1>11
     DEF RunStep

\* The handler and a restart leave the service's part as it is.
LEMMA ArmRests ==
  ASSUME ArmInv, UNCHANGED <<chainVars, inTransit, tableVars, result>>,
         run' = run \/ run' = Idle
  PROVE  ArmInv' /\ Progress /\ UNCHANGED projected
<1>1. ChainOK' /\ Progress
  BY ChainStays DEF ArmInv
<1>2. UNCHANGED projected
  BY DEF tableVars
<1>3. TransitOK' /\ TablesOK' /\ ResultsOK'
  BY <1>1, <1>2, TransitFrame, TablesFrame, ResultsFrame DEF ArmInv
<1>4. RunOK'
  BY <1>1, <1>2, RunFrame, RunIsOver DEF ArmInv
<1> QED  BY <1>1, <1>2, <1>3, <1>4 DEF ArmInv
-----------------------------------------------------------------------------
(* The calls: queue, run and results, against where the handlers are.      *)

LEMMA CallsKeepQueue ==
  ASSUME ArmInv, QueueOK, UNCHANGED request,
         CallStep \/ UNCHANGED <<queue, run, result>>
  PROVE  QueueOK'
<1>1. CASE UNCHANGED <<queue, run, result>>
  BY <1>1 DEF QueueOK, Running
<1>2. CASE /\ Running /\ Running' /\ run'.job = run.job
           /\ UNCHANGED <<queue, result>>
  BY <1>2 DEF QueueOK
<1>3. CASE /\ Running /\ run' = Idle /\ UNCHANGED queue
           /\ \E v \in -1..MaxActions \ {0} :
                result' = [result EXCEPT ![run.job] = v]
  <2>1. PICK v \in -1..MaxActions \ {0} :
          result' = [result EXCEPT ![run.job] = v]
    BY <1>3
  <2>2. \A j \in Jobs : j # run.job => result'[j] = result[j]
    BY <2>1 DEF ArmInv, ResultsOK
  <2>3. \A a \in 1..Len(queue) : queue[a] \in Jobs /\ queue[a] # run.job
    BY <1>3, ElementOfSeq DEF QueueOK
  <2>4. \A j \in Jobs : request[j] \in {"new", "checked"} => j # run.job
    BY <1>3 DEF QueueOK
  <2>5. ~Running'
    BY <1>3 DEF Running, Idle
  <2> QED  BY <1>3, <2>2, <2>3, <2>4, <2>5 DEF QueueOK
<1>4. CASE StartRun
  <2>1. /\ queue # <<>> /\ queue' = Tail(queue) /\ UNCHANGED result
        /\ run'.job = Head(queue)
    BY <1>4 DEF StartRun
  <2>2. /\ queue' \in Seq(Jobs) /\ Len(queue) \in Nat \ {0}
        /\ Len(queue') = Len(queue) - 1
        /\ \A a \in 1..Len(queue') : queue'[a] = queue[a + 1]
        /\ Head(queue) = queue[1]
    BY <2>1, HeadTailProperties, EmptySeq, LenProperties DEF QueueOK
  <2>3. 1 \in 1..Len(queue)
    BY <2>2
  <2>4. \A a \in 1..Len(queue') : a + 1 \in 1..Len(queue) /\ a + 1 # 1
    BY <2>2
  <2>5. \A a, b \in 1..Len(queue) : queue[a] = queue[b] => a = b
    BY DEF QueueOK
  <2>6. \A a \in 1..Len(queue) :
          request[queue[a]] = "submitted" /\ result[queue[a]] = 0
    BY DEF QueueOK
  <2>7. request[run'.job] = "submitted" /\ result[run'.job] = 0
    BY <2>1, <2>2, <2>3, <2>6
  <2>8. ASSUME NEW a \in 1..Len(queue')
        PROVE  /\ queue'[a] # run'.job
               /\ request[queue'[a]] = "submitted" /\ result[queue'[a]] = 0
    <3>1. queue'[a] = queue[a + 1] /\ a + 1 \in 1..Len(queue) /\ a + 1 # 1
      BY <2>2, <2>4
    <3>2. queue[a + 1] # queue[1]
      BY <2>3, <2>5, <3>1
    <3> QED  BY <2>1, <2>2, <2>6, <3>1, <3>2
  <2>9. ASSUME NEW a \in 1..Len(queue'), NEW b \in 1..Len(queue'),
               queue'[a] = queue'[b]
        PROVE  a = b
    <3>1. queue'[a] = queue[a + 1] /\ a + 1 \in 1..Len(queue)
      BY <2>2, <2>4
    <3>2. queue'[b] = queue[b + 1] /\ b + 1 \in 1..Len(queue)
      BY <2>2, <2>4
    <3>3. a + 1 = b + 1
      BY <2>5, <2>9, <3>1, <3>2
    <3>4. a \in Int /\ b \in Int
      OBVIOUS
    <3> QED  BY <3>3, <3>4
  <2> QED  BY <2>1, <2>2, <2>7, <2>8, <2>9 DEF QueueOK
<1> QED  BY <1>1, <1>2, <1>3, <1>4 DEF CallStep

LEMMA EnqueueKeepsQueue ==
  ASSUME QueueOK, request \in [Jobs -> RequestStates], NEW j \in Jobs,
         request[j] \in {"new", "checked"}, Enqueue(j),
         request' = [request EXCEPT ![j] = "submitted"]
  PROVE  QueueOK'
<1>1. queue' = Append(queue, j) /\ UNCHANGED <<run, result>>
  BY DEF Enqueue
<1>2. /\ queue' \in Seq(Jobs) /\ Len(queue') = Len(queue) + 1
      /\ \A a \in 1..Len(queue) : queue'[a] = queue[a]
      /\ queue'[Len(queue) + 1] = j /\ Len(queue) \in Nat
  BY <1>1, AppendProperties, LenProperties DEF QueueOK
<1>3. \A a \in 1..Len(queue) : queue[a] \in Jobs /\ queue[a] # j
  BY ElementOfSeq DEF QueueOK
<1>4. \A k \in Jobs : k # j => request'[k] = request[k]
  OBVIOUS
<1>5. request'[j] = "submitted" /\ result[j] = 0
  BY DEF QueueOK
<1>6. \A a \in 1..Len(queue') : a \in 1..Len(queue) \/ a = Len(queue) + 1
  BY <1>2
<1>7. \A a \in 1..Len(queue') :
        request'[queue'[a]] = "submitted" /\ result[queue'[a]] = 0
  BY <1>2, <1>3, <1>4, <1>5, <1>6 DEF QueueOK
<1>8. \A a, b \in 1..Len(queue') : queue'[a] = queue'[b] => a = b
  BY <1>2, <1>3, <1>6 DEF QueueOK
<1>9. Running => /\ run.job # j /\ request'[run.job] = "submitted"
                 /\ \A a \in 1..Len(queue') : queue'[a] # run.job
  <2> SUFFICES ASSUME Running
               PROVE  /\ run.job # j /\ request'[run.job] = "submitted"
                      /\ \A a \in 1..Len(queue') : queue'[a] # run.job
    OBVIOUS
  <2>1. run.job # j
    BY DEF QueueOK
  <2>2. request'[run.job] = "submitted"
    BY <2>1 DEF QueueOK
  <2>3. \A a \in 1..Len(queue') : queue'[a] # run.job
    BY <1>2, <1>6, <2>1 DEF QueueOK
  <2> QED  BY <2>1, <2>2, <2>3
<1>10. \A k \in Jobs : request'[k] \in {"new", "checked"} => result[k] = 0
  BY <1>4, <1>5 DEF QueueOK
<1> QED  BY <1>1, <1>2, <1>7, <1>8, <1>9, <1>10 DEF QueueOK, Running

\* One request moves on that is neither queued nor running.
LEMMA AsideKeepsQueue ==
  ASSUME QueueOK, request \in [Jobs -> RequestStates], NEW j \in Jobs,
         UNCHANGED <<queue, run, result>>,
         NEW s \in RequestStates, request' = [request EXCEPT ![j] = s],
         request[j] # "submitted" \/ result[j] # 0,
         s \in {"new", "checked"} => result[j] = 0
  PROVE  QueueOK'
<1>1. \A k \in Jobs : request'[k] = IF k = j THEN s ELSE request[k]
  OBVIOUS
<1>2. \A a \in 1..Len(queue) : queue[a] \in Jobs /\ queue[a] # j
  BY ElementOfSeq DEF QueueOK
<1>3. Running => run.job # j
  BY DEF QueueOK
<1>4. \A a \in 1..Len(queue) : request'[queue[a]] = "submitted"
  BY <1>1, <1>2 DEF QueueOK
<1>5. Running => request'[run.job] = "submitted"
  BY <1>3 DEF QueueOK
<1>6. \A k \in Jobs : request'[k] \in {"new", "checked"} => result[k] = 0
  BY <1>1 DEF QueueOK
<1> QED  BY <1>4, <1>5, <1>6 DEF QueueOK, Running
-----------------------------------------------------------------------------
(* The quotes.                                                             *)

LEMMA SubmitsQuote ==
  ASSUME NEW j \in Submits
  PROVE  j \in Jobs /\ QuoteOf[j] \in Quotes
  BY QuoteAssumption DEF Submits

\* A quote changes its status and keeps or loses its action.
LEMMA QuotesFrame ==
  ASSUME TablesOK, QuotesOK, Progress,
         DOMAIN projected \subseteq DOMAIN projected', UNCHANGED quoteAction,
         quote' \in [Quotes -> {"none", "paid", "consuming", "consumed"}],
         \A q \in Quotes : quote'[q] = "consumed" <=> quote[q] = "consumed"
  PROVE  QuotesOK'
<1>1. \A q \in Quotes : quote'[q] = "consumed" =>
        /\ quoteAction'[q] \in DOMAIN projected'
        /\ chain'[quoteAction'[q]].status \in Done
  BY DEF QuotesOK, ConsumedIsExecuted, Progress, TablesOK, Done
<1>2. ConsumedIsExecuted'
  BY <1>1 DEF ConsumedIsExecuted, Done
<1> QED  BY <1>2 DEF QuotesOK

\* What changes neither a quote nor who holds it.
LEMMA RequestsFrame ==
  ASSUME RequestsOK, UNCHANGED <<quote, usedNonces>>,
         request' \in [Jobs -> RequestStates],
         \A j \in Jobs : request'[j] = "submitted" => request[j] = "submitted",
         \A j \in Submits : Held(j)' => Held(j)
  PROVE  RequestsOK'
<1>1. Submits \subseteq Jobs
  BY SubmitsQuote
<1>2. AuthorizationRunsOnce'
  BY DEF RequestsOK, AuthorizationRunsOnce, Held
<1> QED  BY <1>1, <1>2 DEF RequestsOK

-----------------------------------------------------------------------------
(* Steps of the handler.                                                   *)

LEMMA StoreKeeps ==
  ASSUME PaidInv, NEW q \in Quotes, StoreQuote(q)
  PROVE  PaidInv'
<1>1. /\ quote' = [quote EXCEPT ![q] = Upserted(@)]
      /\ UNCHANGED <<armVars, quoteAction, usedNonces, request>>
  BY DEF StoreQuote
<1>2. \A r \in Quotes : quote'[r] =
        IF r = q THEN Upserted(quote[q]) ELSE quote[r]
  BY <1>1 DEF PaidInv, QuotesOK
<1>3. ArmInv' /\ Progress /\ UNCHANGED projected
  BY <1>1, ArmRests DEF PaidInv, armVars, chainVars, tableVars
<1>4. QueueOK'
  BY <1>1, CallsKeepQueue DEF PaidInv, armVars
<1>5. quote' \in [Quotes -> {"none", "paid", "consuming", "consumed"}]
  BY <1>1 DEF PaidInv, QuotesOK, Upserted
<1>6. QuotesOK'
  <2>1. \A r \in Quotes : quote'[r] = "consumed" <=> quote[r] = "consumed"
    BY <1>2 DEF Upserted
  <2> QED  BY <1>1, <1>3, <1>5, <2>1, QuotesFrame DEF PaidInv, ArmInv
<1>7. RequestsOK'
  <2>1. \A r \in Quotes : quote[r] = "consuming" => quote'[r] = "consuming"
    BY <1>2 DEF Upserted
  <2>2. \A j \in Submits :
          request[j] = "submitted" => quote'[QuoteOf[j]] = "consuming"
    BY <2>1, SubmitsQuote DEF PaidInv, RequestsOK
  <2> QED  BY <1>1, <2>2 DEF PaidInv, RequestsOK, AuthorizationRunsOnce, Held
<1> QED  BY <1>3, <1>4, <1>6, <1>7 DEF PaidInv

\* A request that is checked or refused, or an operator's that is answered.
LEMMA AsideKeeps ==
  ASSUME PaidInv, NEW j \in Jobs, NEW s \in RequestStates,
         request' = [request EXCEPT ![j] = s],
         UNCHANGED <<armVars, quote, quoteAction>>,
         usedNonces \subseteq usedNonces', s # "submitted",
         request[j] # "submitted" \/ result[j] # 0,
         s \in {"new", "checked"} => result[j] = 0,
         s = "answered" => j \notin Submits
  PROVE  PaidInv'
<1>1. request \in [Jobs -> RequestStates]
  BY DEF PaidInv, RequestsOK
<1>2. \A k \in Jobs : request'[k] = IF k = j THEN s ELSE request[k]
  BY <1>1
<1>3. ArmInv' /\ Progress /\ UNCHANGED projected
  BY ArmRests DEF PaidInv, armVars, chainVars, tableVars
<1>4. QueueOK'
  BY <1>1, AsideKeepsQueue DEF PaidInv, armVars
<1>5. QuotesOK'
  BY <1>3, QuotesFrame DEF PaidInv, ArmInv, QuotesOK
<1>6. /\ request' \in [Jobs -> RequestStates]
      /\ \A k \in Jobs : request'[k] = "submitted" => request[k] = "submitted"
      /\ \A k \in Submits : Held(k)' => Held(k)
  BY <1>1, <1>2, SubmitsQuote DEF Held
<1>7. RequestsOK'
  <2>1. Submits \subseteq Jobs
    BY SubmitsQuote
  <2>2. AuthorizationRunsOnce'
    BY <1>6 DEF PaidInv, RequestsOK, AuthorizationRunsOnce, Held
  <2> QED  BY <1>6, <2>1, <2>2 DEF PaidInv, RequestsOK
<1> QED  BY <1>3, <1>4, <1>5, <1>7 DEF PaidInv

\* The reservation: the quote was free and the authorization unused.
LEMMA ReservationKeeps ==
  ASSUME PaidInv, NEW j \in Submits, request[j] = "checked",
         NonceOf[j] \notin usedNonces, quote[QuoteOf[j]] = "paid",
         usedNonces' = usedNonces \cup {NonceOf[j]},
         quote' = [quote EXCEPT ![QuoteOf[j]] = "consuming"],
         request' = [request EXCEPT ![j] = "submitted"],
         Enqueue(j), UNCHANGED quoteAction
  PROVE  PaidInv'
<1>1. j \in Jobs /\ QuoteOf[j] \in Quotes /\ Submits \subseteq Jobs
  BY SubmitsQuote
<1>2. request \in [Jobs -> RequestStates]
  BY DEF PaidInv, RequestsOK
<1>3. \A k \in Jobs :
        request'[k] = IF k = j THEN "submitted" ELSE request[k]
  BY <1>2
<1>4. \A q \in Quotes :
        quote'[q] = IF q = QuoteOf[j] THEN "consuming" ELSE quote[q]
  BY DEF PaidInv, QuotesOK
<1>5. UNCHANGED <<chainVars, inTransit, tableVars, run, result, faults>>
  BY DEF Enqueue
<1>6. ArmInv' /\ Progress /\ UNCHANGED projected
  BY <1>5, ArmRests DEF PaidInv
<1>7. QueueOK'
  BY <1>1, <1>2, EnqueueKeepsQueue DEF PaidInv
<1>8. QuotesOK'
  <2>1. quote' \in [Quotes -> {"none", "paid", "consuming", "consumed"}]
    BY DEF PaidInv, QuotesOK
  <2>2. \A q \in Quotes : quote'[q] = "consumed" <=> quote[q] = "consumed"
    BY <1>4
  <2> QED  BY <1>6, <2>1, <2>2, QuotesFrame DEF PaidInv, ArmInv
<1>9. RequestsOK'
  <2>1. request' \in [Jobs -> RequestStates]
    BY <1>2 DEF RequestStates
  <2>2. \A k \in Submits : k # j /\ request[k] = "submitted" =>
          QuoteOf[k] # QuoteOf[j] /\ quote[QuoteOf[k]] = "consuming"
    BY DEF PaidInv, RequestsOK
  <2>3. \A k \in Submits :
          request'[k] = "submitted" => quote'[QuoteOf[k]] = "consuming"
    BY <1>1, <1>3, <1>4, <2>2, SubmitsQuote
  <2>4. \A k, l \in Submits :
          /\ request'[k] = "submitted" /\ request'[l] = "submitted"
          /\ QuoteOf[k] = QuoteOf[l]
          => k = l
    BY <1>1, <1>3, <2>2 DEF PaidInv, RequestsOK
  <2>5. \A k \in Submits : k # j => (Held(k)' <=> Held(k))
    BY <1>1, <1>3 DEF Held
  <2>6. \A k \in Submits : Held(k) => NonceOf[k] # NonceOf[j]
    BY DEF PaidInv, RequestsOK
  <2>7. \A k \in Submits : Held(k)' => NonceOf[k] \in usedNonces'
    BY <2>5 DEF PaidInv, RequestsOK
  <2>8. AuthorizationRunsOnce'
    <3> SUFFICES ASSUME NEW k \in Submits, NEW l \in Submits, k # l,
                        NonceOf[k] = NonceOf[l], Held(k)', Held(l)'
                 PROVE  FALSE
      BY DEF AuthorizationRunsOnce, Held
    <3>1. CASE k = j
      BY <2>5, <2>6, <3>1
    <3>2. CASE l = j
      BY <2>5, <2>6, <3>2
    <3>3. CASE k # j /\ l # j
      <4>1. Held(k) /\ Held(l)
        BY <2>5, <3>3
      <4> QED  BY <4>1 DEF PaidInv, RequestsOK, AuthorizationRunsOnce, Held
    <3> QED  BY <3>1, <3>2, <3>3
  <2> QED  BY <2>1, <2>3, <2>4, <2>7, <2>8 DEF RequestsOK
<1> QED  BY <1>6, <1>7, <1>8, <1>9 DEF PaidInv

LEMMA AcceptKeeps ==
  ASSUME PaidInv, NEW j \in Submits, AcceptSubmit(j)
  PROVE  PaidInv'
<1>1. /\ request[j] = "checked" /\ NonceOf[j] \notin usedNonces
      /\ usedNonces' = usedNonces \cup {NonceOf[j]} /\ UNCHANGED quoteAction
  BY DEF AcceptSubmit, Unused
<1>2. CASE Available(QuoteOf[j])
  <2>1. /\ quote[QuoteOf[j]] = "paid" /\ Enqueue(j)
        /\ quote' = [quote EXCEPT ![QuoteOf[j]] = "consuming"]
        /\ request' = [request EXCEPT ![j] = "submitted"]
    BY <1>2 DEF AcceptSubmit, Available
  <2> QED  BY <1>1, <2>1, ReservationKeeps
<1>3. CASE ~Available(QuoteOf[j])
  <2>1. /\ request' = [request EXCEPT ![j] = "refused"]
        /\ UNCHANGED <<armVars, quote>>
    BY <1>3 DEF AcceptSubmit
  <2> QED  BY <1>1, <2>1, SubmitsQuote, AsideKeeps DEF RequestStates
<1> QED  BY <1>2, <1>3

LEMMA CallKeeps ==
  ASSUME PaidInv, NEW j \in Jobs \ Submits, CallArm(j)
  PROVE  PaidInv'
<1>1. /\ request[j] = "new" /\ Enqueue(j)
      /\ request' = [request EXCEPT ![j] = "submitted"]
      /\ UNCHANGED <<quote, quoteAction, usedNonces>>
  BY DEF CallArm
<1>2. request \in [Jobs -> RequestStates]
  BY DEF PaidInv, RequestsOK
<1>3. UNCHANGED <<chainVars, inTransit, tableVars, run, result, faults>>
  BY <1>1 DEF Enqueue
<1>4. ArmInv' /\ Progress /\ UNCHANGED projected
  BY <1>3, ArmRests DEF PaidInv
<1>5. QueueOK'
  BY <1>1, <1>2, EnqueueKeepsQueue DEF PaidInv
<1>6. QuotesOK'
  BY <1>1, <1>4, QuotesFrame DEF PaidInv, ArmInv, QuotesOK
<1>7. RequestsOK'
  <2>1. request' \in [Jobs -> RequestStates]
    BY <1>1, <1>2 DEF RequestStates
  <2>2. \A k \in Submits : request'[k] = request[k]
    BY <1>1, <1>2
  <2> QED  BY <1>1, <2>1, <2>2 DEF PaidInv, RequestsOK, AuthorizationRunsOnce, Held
<1> QED  BY <1>4, <1>5, <1>6, <1>7 DEF PaidInv

LEMMA AnswerKeeps ==
  ASSUME PaidInv, NEW j \in Jobs, Answer(j)
  PROVE  PaidInv'
<1> DEFINE q == QuoteOf[j]
<1>1. /\ request[j] = "submitted" /\ result[j] # 0
      /\ request' = [request EXCEPT ![j] = "answered"]
      /\ UNCHANGED <<armVars, usedNonces>>
  BY DEF Answer
<1>2. CASE q = Operator
  <2>1. UNCHANGED <<quote, quoteAction>> /\ j \notin Submits
    BY <1>2 DEF Answer, Submits
  <2> QED  BY <1>1, <2>1, AsideKeeps DEF RequestStates
<1>3. CASE q # Operator
  <2>1. j \in Submits /\ q \in Quotes /\ Submits \subseteq Jobs
    BY <1>3, SubmitsQuote DEF Submits
  <2>2. quote[q] = "consuming" /\ quoteAction[q] = 0
    BY <1>1, <2>1 DEF PaidInv, RequestsOK, QuotesOK
  <2>3. request \in [Jobs -> RequestStates]
    BY DEF PaidInv, RequestsOK
  <2>4. \A k \in Jobs :
          request'[k] = IF k = j THEN "answered" ELSE request[k]
    BY <1>1, <2>3
  <2>5. ArmInv' /\ Progress /\ UNCHANGED projected
    BY <1>1, ArmRests DEF PaidInv, armVars, chainVars, tableVars
  <2>6. QueueOK'
    BY <1>1, <2>3, AsideKeepsQueue DEF PaidInv, armVars, RequestStates
  <2>7. PICK s \in {"paid", "consumed"} : quote' = [quote EXCEPT ![q] = s]
    BY <1>3, <2>2 DEF Answer, Released
  <2>8. \A r \in Quotes : quote'[r] = IF r = q THEN s ELSE quote[r]
    BY <2>7 DEF PaidInv, QuotesOK
  <2>9. RequestsOK'
    <3>1. request' \in [Jobs -> RequestStates]
      BY <1>1, <2>3 DEF RequestStates
    <3>2. \A k \in Submits : request'[k] = "submitted" =>
            /\ k # j /\ request[k] = "submitted" /\ QuoteOf[k] # q
            /\ quote[QuoteOf[k]] = "consuming"
      BY <1>1, <2>1, <2>4 DEF PaidInv, RequestsOK
    <3>3. \A k \in Submits :
            request'[k] = "submitted" => quote'[QuoteOf[k]] = "consuming"
      BY <2>8, <3>2, SubmitsQuote
    <3>4. \A k \in Submits : Held(k)' => Held(k)
      BY <1>1, <2>1, <2>4 DEF Held
    <3>5. AuthorizationRunsOnce'
      BY <3>4 DEF PaidInv, RequestsOK, AuthorizationRunsOnce, Held
    <3> QED  BY <1>1, <3>1, <3>2, <3>3, <3>4, <3>5 DEF PaidInv, RequestsOK
  <2>10. QuotesOK'
    <3>1. quote' \in [Quotes -> {"none", "paid", "consuming", "consumed"}]
      BY <2>7 DEF PaidInv, QuotesOK
    <3>2. CASE result[j] = Failed
      <4>1. UNCHANGED quoteAction
        BY <1>3, <3>2 DEF Answer
      <4>2. quote' = [quote EXCEPT ![q] = Released(@)]
        BY <1>3, <3>2 DEF Answer
      <4>3. \A r \in Quotes : quote'[r] =
              IF r = q THEN Released(quote[q]) ELSE quote[r]
        BY <4>2 DEF PaidInv, QuotesOK
      <4>4. \A r \in Quotes : quote'[r] = "consumed" <=> quote[r] = "consumed"
        BY <2>2, <4>3 DEF Released
      <4> QED  BY <2>5, <3>1, <4>1, <4>4, QuotesFrame DEF PaidInv, ArmInv
    <3>3. CASE result[j] # Failed
      <4>1. quote' = [quote EXCEPT ![q] = "consumed"]
        BY <1>3, <3>3 DEF Answer
      <4>2. quoteAction' = [quoteAction EXCEPT ![q] = result[j]]
        BY <1>3, <3>3 DEF Answer
      <4>3. result[j] \in 1..MaxActions
        BY <1>1, <3>3, ArmAssumption DEF PaidInv, ArmInv, ResultsOK, Failed
      <4>4. /\ result[j] \in DOMAIN projected
            /\ chain[result[j]].status \in Done
        BY <4>3 DEF PaidInv, ArmInv, ResultsOK
      <4>5. UNCHANGED chain
        BY <1>1 DEF armVars
      <4>6. quoteAction' \in [Quotes -> 0..MaxActions]
        <5>1. quoteAction \in [Quotes -> 0..MaxActions]
          BY DEF PaidInv, QuotesOK
        <5>2. result[j] \in 0..MaxActions
          BY <4>3
        <5> QED  BY <4>2, <5>1, <5>2
      <4>7. \A r \in Quotes :
              /\ quote'[r] = IF r = q THEN "consumed" ELSE quote[r]
              /\ quoteAction'[r] = IF r = q THEN result[j] ELSE quoteAction[r]
        BY <4>1, <4>2 DEF PaidInv, QuotesOK
      <4>8. \A r \in Quotes : quoteAction'[r] # 0 <=> quote'[r] = "consumed"
        BY <4>3, <4>7 DEF PaidInv, QuotesOK
      <4>9. ConsumedIsExecuted'
        BY <2>5, <4>4, <4>5, <4>7 DEF PaidInv, QuotesOK, ConsumedIsExecuted, Done
      <4> QED  BY <3>1, <4>6, <4>8, <4>9 DEF QuotesOK
    <3> QED  BY <3>2, <3>3
  <2> QED  BY <2>5, <2>6, <2>9, <2>10 DEF PaidInv
<1> QED  BY <1>2, <1>3

LEMMA CrashKeeps ==
  ASSUME PaidInv, Crash
  PROVE  PaidInv'
<1>1. /\ queue' = <<>> /\ run' = Idle
      /\ request' = [j \in Jobs |-> IF request[j] \in {"checked", "submitted"}
                                    THEN "lost" ELSE request[j]]
      /\ UNCHANGED <<chainVars, inTransit, tableVars, result, quote,
                     quoteAction, usedNonces>>
  BY DEF Crash
<1>2. ArmInv' /\ Progress /\ UNCHANGED projected
  BY <1>1, ArmRests DEF PaidInv
<1>3. request' \in [Jobs -> RequestStates]
  BY <1>1 DEF PaidInv, RequestsOK, RequestStates
<1>4. \A j \in Jobs : request'[j] =
        IF request[j] \in {"checked", "submitted"} THEN "lost" ELSE request[j]
  BY <1>1
<1>5. RequestsOK'
  <2>1. \A j \in Jobs : request'[j] = "submitted" => request[j] = "submitted"
    BY <1>4
  <2>2. \A j \in Submits : Held(j)' => Held(j)
    BY <1>4, SubmitsQuote DEF Held
  <2> QED  BY <1>1, <1>3, <2>1, <2>2, RequestsFrame DEF PaidInv
<1>6. QueueOK'
  <2>1. queue' \in Seq(Jobs) /\ Len(queue') = 0
    BY <1>1, EmptySeq
  <2>2. ~Running'
    BY <1>1 DEF Running, Idle
  <2>3. \A j \in Jobs : request'[j] \in {"new", "checked"} => result'[j] = 0
    BY <1>1, <1>4 DEF PaidInv, QueueOK
  <2> QED  BY <2>1, <2>2, <2>3 DEF QueueOK
<1>7. QuotesOK'
  BY <1>1, <1>2, QuotesFrame DEF PaidInv, ArmInv, QuotesOK
<1> QED  BY <1>2, <1>5, <1>6, <1>7 DEF PaidInv
-----------------------------------------------------------------------------
(* The invariant and what follows from it.                                 *)

LEMMA PaidInitially ==
  ASSUME Init
  PROVE  PaidInv
<1> USE DEF Init, ArmInit
<1>1. ChainOK
  <2>1. chain \in Seq(Actions) /\ Len(chain) = 0 /\ ActionIds = {}
    BY EmptySeq DEF ActionIds
  <2> QED  BY <2>1, ArmAssumption DEF ChainOK, NoClaim
<1>2. TransitOK /\ RunOK
  BY DEF TransitOK, RunOK, Running, Idle
<1>3. DOMAIN projected = {}
  OBVIOUS
<1>4. TablesOK
  BY <1>3 DEF TablesOK, NothingRead
<1>5. ResultsOK
  BY ArmAssumption DEF ResultsOK, ActionsReturnedOnce
<1>6. RequestsOK
  BY SubmitsQuote DEF RequestsOK, AuthorizationRunsOnce, RequestStates, Held
<1>7. QueueOK
  <2>1. queue \in Seq(Jobs) /\ 1..Len(queue) = {}
    BY EmptySeq
  <2> QED  BY <2>1 DEF QueueOK, Running, Idle
<1>8. QuotesOK
  BY ArmAssumption DEF QuotesOK, ConsumedIsExecuted
<1> QED  BY <1>1, <1>2, <1>4, <1>5, <1>6, <1>7, <1>8 DEF PaidInv, ArmInv

\* A step of the service: the handlers stay where they are.
LEMMA ServiceKeeps ==
  ASSUME PaidInv, RunStep \/ Surroundings, UNCHANGED quoteVars
  PROVE  PaidInv'
<1>1. UNCHANGED <<quote, quoteAction, usedNonces, request>>
  BY DEF quoteVars
<1>2. queue \in Seq(Jobs) /\ ArmInv /\ QueueOK
  BY DEF PaidInv, QueueOK
<1>3. /\ ArmInv' /\ Progress /\ DOMAIN projected \subseteq DOMAIN projected'
      /\ CallStep \/ UNCHANGED <<queue, run, result>>
  BY <1>2, RunStepKeeps, SurroundingsKeep DEF RunKeeps
<1>4. QueueOK'
  BY <1>1, <1>2, <1>3, CallsKeepQueue
<1>5. QuotesOK'
  BY <1>1, <1>3, QuotesFrame DEF PaidInv, ArmInv, QuotesOK
<1>6. RequestsOK'
  BY <1>1 DEF PaidInv, RequestsOK, AuthorizationRunsOnce, Held
<1> QED  BY <1>3, <1>4, <1>5, <1>6 DEF PaidInv

LEMMA PaidStep ==
  ASSUME PaidInv, [Next]_vars
  PROVE  PaidInv'
<1>1. CASE RunStep /\ UNCHANGED quoteVars
  BY <1>1, ServiceKeeps
<1>2. CASE Surroundings /\ UNCHANGED quoteVars
  BY <1>2, ServiceKeeps
<1>3. CASE \E q \in Quotes : StoreQuote(q)
  BY <1>3, StoreKeeps
<1>4. CASE \E j \in Submits : CheckSubmit(j)
  <2>1. PICK j \in Submits : CheckSubmit(j)
    BY <1>4
  <2>2. /\ request[j] = "new"
        /\ request' = [request EXCEPT ![j] = "checked"]
        /\ UNCHANGED <<armVars, quote, quoteAction, usedNonces>>
    BY <2>1 DEF CheckSubmit
  <2>3. result[j] = 0 /\ j \in Jobs
    BY <2>2, SubmitsQuote DEF PaidInv, QueueOK
  <2> QED  BY <2>2, <2>3, AsideKeeps DEF RequestStates
<1>5. CASE \E j \in Submits : RefuseSubmit(j)
  <2>1. PICK j \in Submits : RefuseSubmit(j)
    BY <1>5
  <2>2. /\ request[j] \in {"new", "checked"}
        /\ request' = [request EXCEPT ![j] = "refused"]
        /\ UNCHANGED <<armVars, quote, quoteAction, usedNonces>>
    BY <2>1 DEF RefuseSubmit
  <2> QED  BY <2>2, SubmitsQuote, AsideKeeps DEF RequestStates
<1>6. CASE \E j \in Submits : AcceptSubmit(j)
  BY <1>6, AcceptKeeps
<1>7. CASE \E j \in Jobs \ Submits : CallArm(j)
  BY <1>7, CallKeeps
<1>8. CASE \E j \in Jobs : Answer(j)
  BY <1>8, AnswerKeeps
<1>9. CASE Crash
  BY <1>9, CrashKeeps
<1>10. CASE UNCHANGED vars
  <2>1. UNCHANGED <<armVars, quote, quoteAction, usedNonces, request>>
    BY <1>10 DEF vars, quoteVars
  <2>2. ArmInv' /\ Progress /\ UNCHANGED projected
    BY <2>1, ArmRests DEF PaidInv, armVars, chainVars, tableVars
  <2>3. QueueOK'
    BY <2>1, CallsKeepQueue DEF PaidInv, armVars
  <2>4. QuotesOK'
    BY <2>1, <2>2, QuotesFrame DEF PaidInv, ArmInv, QuotesOK
  <2>5. RequestsOK'
    BY <2>1 DEF PaidInv, RequestsOK, AuthorizationRunsOnce, Held
  <2> QED  BY <2>2, <2>3, <2>4, <2>5 DEF PaidInv
<1> QED
  BY <1>1, <1>2, <1>3, <1>4, <1>5, <1>6, <1>7, <1>8, <1>9, <1>10
     DEF Next, Handler

LEMMA AlwaysPaidInv == Spec => []PaidInv
<1>1. Init => PaidInv
  BY PaidInitially
<1>2. PaidInv /\ [Next]_vars => PaidInv'
  BY PaidStep
<1> QED  BY <1>1, <1>2, PTL DEF Spec

(* Types: the queue holds submitted calls, every id an action's, and a     *)
(* quote has an action if and only if it is consumed.                      *)
THEOREM PaidTypeCorrect == Spec => []TypeOK
<1>1. PaidInv => TypeOK
  <2> SUFFICES ASSUME PaidInv PROVE TypeOK
    OBVIOUS
  <2>1. \A i \in ActionIds : chain[i] \in Actions
    BY ActionAt DEF PaidInv, ArmInv
  <2>2. \A j \in ToSet(queue) : request[j] = "submitted"
    BY DEF PaidInv, QueueOK, ToSet
  <2>3. Running => run.job \in Jobs /\ run.id \in 0..MaxActions + 1
    BY DEF PaidInv, ArmInv, RunOK
  <2> QED  BY <2>1, <2>2, <2>3 DEF TypeOK, PaidInv, ArmInv, ChainOK, TablesOK,
                ResultsOK, RequestsOK, QuotesOK, Actions
<1> QED  BY <1>1, AlwaysPaidInv, PTL

(* A reservation has one holder, whatever the requests, quotes and nonces: *)
(* the status is checked again where it is written, with no await between. *)
THEOREM OneHolderPerReservation == Spec => []ReservationHasOneHolder
<1>1. PaidInv => ReservationHasOneHolder
  <2> SUFFICES ASSUME PaidInv, NEW q \in Quotes,
                      NEW H, H = {j \in Submits :
                                    QuoteOf[j] = q /\ request[j] = "submitted"}
               PROVE  Cardinality(H) <= 1 /\ (H # {} => quote[q] = "consuming")
    BY DEF ReservationHasOneHolder
  <2>1. H # {} => quote[q] = "consuming"
    BY DEF PaidInv, RequestsOK
  <2>2. H = {} \/ \E j : H = {j}
    <3>1. ASSUME NEW j \in H, NEW k \in H PROVE j = k
      BY <3>1 DEF PaidInv, RequestsOK
    <3>2. ASSUME NEW j \in H PROVE H = {j}
      BY <3>1
    <3> QED  BY <3>2
  <2>3. Cardinality(H) <= 1
    <3>1. CASE H = {}
      <4>1. Cardinality(H) = 0
        BY <3>1, FS_EmptySet
      <4> QED  BY <4>1
    <3>2. CASE \E j : H = {j}
      <4>1. PICK j : H = {j}
        BY <3>2
      <4>2. Cardinality(H) = 1
        BY <4>1, FS_Singleton
      <4> QED  BY <4>2
    <3> QED  BY <2>2, <3>1, <3>2
  <2> QED  BY <2>1, <2>3
<1> QED  BY <1>1, AlwaysPaidInv, PTL

(* An authorization starts at most one run, also across failed runs and    *)
(* restarts: a request past the check has its nonce in the table.          *)
THEOREM AuthorizationsRunOnce == Spec => []AuthorizationRunsOnce
<1>1. PaidInv => AuthorizationRunsOnce
  BY DEF PaidInv, RequestsOK
<1> QED  BY <1>1, AlwaysPaidInv, PTL

(* Two calls never return one action: a run resumes only an action whose   *)
(* invoice is unpaid, and what a call has returned was executed and paid.  *)
THEOREM CallsReturnTheirOwn == Spec => []ActionsReturnedOnce
<1>1. PaidInv => ActionsReturnedOnce
  BY DEF PaidInv, ArmInv, ResultsOK
<1> QED  BY <1>1, AlwaysPaidInv, PTL

(* A consumed quote has an executed action whose row is in the database.   *)
THEOREM ConsumedHaveExecuted == Spec => []ConsumedIsExecuted
<1>1. PaidInv => ConsumedIsExecuted
  BY DEF PaidInv, QuotesOK
<1> QED  BY <1>1, AlwaysPaidInv, PTL
=============================================================================
