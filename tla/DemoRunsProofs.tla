--------------------------- MODULE DemoRunsProofs ---------------------------
(***************************************************************************)
(* A suite that the deployment file names is wired, however many senders   *)
(* die: proved of DemoSpec, whose steps beside those of Wiring change none *)
(* of its variables.  And the demo bonds one action for an invoice, but    *)
(* for what failed reads and lost calls add.                               *)
(***************************************************************************)
EXTENDS DemoRuns, FiniteSetTheorems, SequenceTheorems, TLAPS

\* A script is at one of the calls or past the last, having seen the calls
\* before it take effect; a deployment that installs has seen none.
ScriptTypeOK ==
  /\ wired \subseteq Wirings
  /\ lateWires \subseteq Wirings
  /\ script \in [name : {"none", "deploy", "wire"}, at : 0..8]

ScriptIsWired == \A w \in Wirings : w < script.at => w \in wired

WiringInv == ScriptTypeOK /\ ScriptIsWired /\ ServedIsWired

LEMMA WiringInitially == WiringInit => WiringInv
  BY DEF WiringInit, WiringInv, ScriptTypeOK, ScriptIsWired, ServedIsWired,
         NoScript, Wirings

LEMMA WiringStep ==
  ASSUME WiringInv, [WiringNext]_<<wiringVars, deaths>>
  PROVE  WiringInv'
<1> USE DEF WiringInv, ScriptTypeOK, ScriptIsWired, ServedIsWired, Wirings
<1>1. CASE StartDeploy
  BY <1>1 DEF StartDeploy
<1>2. CASE StartWire
  BY <1>2 DEF StartWire, Minting
<1>3. CASE Install
  <2>1. CASE installed < Contracts
    BY <1>3, <2>1 DEF Install
  <2>2. CASE ~(installed < Contracts)
    <3>1. script' = [script EXCEPT !.at = 1] /\ UNCHANGED <<wired, lateWires, served>>
      BY <1>3, <2>2 DEF Install
    <3> QED  BY <3>1
  <2> QED  BY <2>1, <2>2
<1>4. CASE InstallFails
  BY <1>4 DEF InstallFails, Stops, NoScript
<1>5. CASE CallSucceeds
  BY <1>5 DEF CallSucceeds, GoesOn
<1>6. CASE CallReverts
  <2>1. script.at \in Wirings /\ script.at \in wired
    BY <1>6 DEF CallReverts, Finalized
  <2>2. CASE GoesOn
    BY <1>6, <2>1, <2>2 DEF CallReverts, GoesOn
  <2>3. CASE Stops
    BY <1>6, <2>3 DEF CallReverts, Stops, NoScript
  <2> QED  BY <1>6, <2>2, <2>3 DEF CallReverts
<1>7. CASE CallUnanswered
  BY <1>7 DEF CallUnanswered, AfterTimeout, Stops, NoScript
<1>8. ASSUME NEW w \in lateWires, WireLands(w)  PROVE WiringInv'
  BY <1>8 DEF WireLands
<1>9. CASE Serve
  BY <1>9 DEF Serve, Stops, NoScript
<1>10. CASE UNCHANGED <<wiringVars, deaths>>
  BY <1>10 DEF wiringVars
<1> QED
  BY <1>1, <1>2, <1>3, <1>4, <1>5, <1>6, <1>7, <1>8, <1>9, <1>10
     DEF WiringNext, ScriptStep

\* Every step of the demo is a step of the wiring or leaves it alone.
LEMMA DemoStepWires ==
  ASSUME [DemoNext]_allVars
  PROVE  [WiringNext]_<<wiringVars, deaths>> \/ UNCHANGED wiringVars
  BY DEF DemoNext, allVars

(***************************************************************************)
(* The suite that the other programs read from the deployment file is      *)
(* wired and funded: no script of contracts/cli/src/v2.rs or wire-v2.ts    *)
(* writes the file before each of its calls has taken effect.              *)
(***************************************************************************)
THEOREM ServedSuiteIsWired == DemoSpec => []ServedIsWired
<1>1. DemoInit => WiringInv
  BY WiringInitially DEF DemoInit
<1>2. WiringInv /\ [DemoNext]_allVars => WiringInv'
  <2> SUFFICES ASSUME WiringInv, [DemoNext]_allVars  PROVE WiringInv'
    OBVIOUS
  <2>1. CASE [WiringNext]_<<wiringVars, deaths>>
    BY <2>1, WiringStep
  <2>2. CASE UNCHANGED wiringVars
    BY <2>2 DEF wiringVars, WiringInv, ScriptTypeOK, ScriptIsWired, ServedIsWired
  <2> QED  BY <2>1, <2>2, DemoStepWires
<1>3. WiringInv => ServedIsWired
  BY DEF WiringInv
<1> QED  BY <1>1, <1>2, <1>3, PTL DEF DemoSpec

-----------------------------------------------------------------------------
(***************************************************************************)
(* The demo.  Taken(i) are the actions of an invoice that are bonded, that *)
(* a run under way or a late call may still bond, or that is the first one *)
(* and so the one a later run takes up.  Each of them but one is paid for  *)
(* by a scan that was cut short or by a call whose sender was not told,    *)
(* and a late initiation has its own call to pay for the action it may     *)
(* put where a run expects its own.                                        *)
(***************************************************************************)
Stati == {"Initiated", "Bonded", "Executed", "Challenged", "ResolvedSlash", "ResolvedRefund"}

Action ==
  [invoice : Invoices \cup {"other"}, status : Stati, bond : Int, duplicate : BOOLEAN]

SuiteTypes ==
  /\ suite = [f \in {"submitted", "actions", "score", "allowance"} |-> suite[f]]
  /\ suite.actions \in Seq(Action)
  /\ suite.score \in Int

Taking == demo.pc \in {"price", "approve", "post"}

ProgramTypes ==
  /\ demo = [f \in {"pc", "invoice", "id", "bond", "accused"} |-> demo[f]]
  /\ demo.pc \in {"submit", "invoices"} \/ demo.invoice \in Invoices
  /\ Taking => demo.id \in Ids

LateInits == {c \in lateCalls : c.kind = "initiate"}
LatePosts == {c.id : c \in {d \in lateCalls : d.kind = "post"}}

LateTypes ==
  /\ IsFiniteSet(lateCalls)
  /\ \A c \in LateInits : c.invoice \in Invoices
  /\ LatePosts \subseteq Ids

CountTypes == misreads \in Nat /\ deaths \in Nat

Aimed == {k \in Ids : k \in LatePosts \/ (Taking /\ k = demo.id)}

FirstOf(i) == Find(i, Len(suite.actions))

Taken(i) ==
  {k \in Ids :
     /\ suite.actions[k].invoice = i
     /\ suite.actions[k].status # "Initiated" \/ k \in Aimed \/ k \in FirstOf(i)}

Used(i) == Cardinality(Taken(i)) + Cardinality(LateInits)

Counted ==
  /\ \A i \in Invoices : Used(i) <= 1 + misreads + deaths
  /\ Cardinality(LateInits) <= deaths

Spare(i) == Used(i) <= misreads + deaths

\* The action a run is going to take is paid for before it is.
Chosen(k) ==
  LET i == suite.actions[k].invoice IN
  ~Own(k) \/ k \in Taken(i) \/ Spare(i)

Prepared ==
  /\ demo.pc = "predict" => Spare(demo.invoice)
  /\ demo.pc = "initiate" =>
       /\ demo.id \in 1..Len(suite.actions) + 1
       /\ IF demo.id \in Ids THEN Chosen(demo.id) ELSE Spare(demo.invoice)
  /\ demo.pc = "again" => demo.id \in Ids /\ suite.actions[demo.id].status # "Initiated"

HasFirst ==
  \A i \in Invoices : (\E k \in Ids : suite.actions[k].invoice = i) => FirstOf(i) # {}

DemoInv ==
  /\ HasFirst
  /\ SuiteTypes /\ ProgramTypes /\ LateTypes /\ CountTypes
  /\ Counted /\ Prepared

\* A call is typed as far as it matters.
Typed(c) ==
  /\ c.kind = "initiate" => c.invoice \in Invoices \cup {"other"}
  /\ c.kind = "post" => c.id \in Ids

\* What a call does to the actions.
Adds(i) == suite'.actions = Append(suite.actions, Initiated(i))

Keeps(k) ==
  /\ Len(suite'.actions) = Len(suite.actions)
  /\ \A l \in Ids :
       /\ suite'.actions[l].invoice = suite.actions[l].invoice
       /\ suite.actions[l].status # "Initiated" => suite'.actions[l].status # "Initiated"
       /\ suite'.actions[l].status # "Initiated" =>
            suite.actions[l].status # "Initiated" \/ l = k

LEMMA RateInt == SuiteTypes => Rate \in Int
BY DEF SuiteTypes, Rate

LEMMA SeqSets ==
  ASSUME NEW S, NEW s \in Seq(S), NEW k \in 1..Len(s), NEW e \in S
  PROVE  /\ [s EXCEPT ![k] = e] \in Seq(S)
         /\ Len([s EXCEPT ![k] = e]) = Len(s)
         /\ \A l \in 1..Len(s) : [s EXCEPT ![k] = e][l] = IF l = k THEN e ELSE s[l]
BY LenProperties

LEMMA ActionTyped ==
  ASSUME SuiteTypes
  PROVE  /\ Len(suite.actions) \in Nat
         /\ \A k \in Ids : suite.actions[k] \in Action
BY LenProperties, ElementOfSeq DEF SuiteTypes, Ids

\* An action of the list moves on.
LEMMA Moves ==
  ASSUME SuiteTypes, NEW k \in Ids, NEW e \in Action,
         e.invoice = suite.actions[k].invoice, e.status # "Initiated",
         suite'.actions = [suite.actions EXCEPT ![k] = e]
  PROVE  suite'.actions \in Seq(Action) /\ Keeps(k)
BY SeqSets DEF SuiteTypes, Keeps, Ids

\* The kinds of calls, by what they do.
LEMMA CallMoves ==
  ASSUME SuiteTypes, NEW c, Typed(c), Makes(c)
  PROVE  /\ SuiteTypes'
         /\ c.kind = "initiate" => Adds(c.invoice)
         /\ c.kind # "initiate" => Keeps(IF c.kind = "post" THEN c.id ELSE 0)
<1> DEFINE Moved(k, st) == [suite.actions EXCEPT ![k] = [@ EXCEPT !.status = st]]
<1>1. /\ suite = [f \in {"submitted", "actions", "score", "allowance"} |-> suite[f]]
      /\ suite.actions \in Seq(Action) /\ suite.score \in Int
      /\ \A k \in Ids : suite.actions[k] \in Action
      /\ Len(suite.actions) \in Nat
  BY ActionTyped DEF SuiteTypes
<1>2. CASE c.kind = "submit" \/ c.kind = "approve"
  <2>1. /\ suite' = [f \in {"submitted", "actions", "score", "allowance"} |-> suite'[f]]
        /\ suite'.actions = suite.actions /\ suite'.score = suite.score
    BY <1>1, <1>2 DEF Makes, After
  <2> QED  BY <1>1, <1>2, <2>1 DEF SuiteTypes, Keeps
<1>3. CASE c.kind = "initiate"
  <2>1. Initiated(c.invoice) \in Action
    BY <1>3, RateInt DEF Initiated, Action, Stati, Typed
  <2>2. /\ suite' = [f \in {"submitted", "actions", "score", "allowance"} |-> suite'[f]]
        /\ suite'.actions = Append(suite.actions, Initiated(c.invoice))
        /\ suite'.score = suite.score
    BY <1>1, <1>3 DEF Makes, After
  <2> QED  BY <1>1, <1>3, <2>1, <2>2, AppendProperties DEF SuiteTypes, Adds
<1>4. ASSUME NEW k \in Ids, NEW e \in Action, e.invoice = suite.actions[k].invoice,
             e.status # "Initiated", suite'.actions = [suite.actions EXCEPT ![k] = e],
             suite' = [f \in {"submitted", "actions", "score", "allowance"} |-> suite'[f]],
             suite'.score \in Int, k = c.id \/ suite.actions[k].status # "Initiated",
             c.kind # "initiate", c.kind = "post" \/ suite.actions[k].status # "Initiated"
      PROVE  SuiteTypes' /\ Keeps(IF c.kind = "post" THEN c.id ELSE 0)
  <2>1. suite'.actions \in Seq(Action) /\ Keeps(k)
    BY <1>4, Moves
  <2>2. Keeps(IF c.kind = "post" THEN c.id ELSE 0)
    BY <1>4, <2>1 DEF Keeps
  <2> QED  BY <1>4, <2>1, <2>2 DEF SuiteTypes
<1>5. CASE c.kind = "post"
  <2> DEFINE e == [suite.actions[c.id] EXCEPT !.status = "Bonded"]
  <2>1. c.id \in Ids /\ suite.actions[c.id] \in Action
    BY <1>1, <1>5 DEF Typed
  <2>2. e \in Action /\ e.invoice = suite.actions[c.id].invoice /\ e.status # "Initiated"
    BY <2>1 DEF Action, Stati
  <2>3. /\ suite' = [f \in {"submitted", "actions", "score", "allowance"} |-> suite'[f]]
        /\ suite'.actions = [suite.actions EXCEPT ![c.id] = e] /\ suite'.score = suite.score
    BY <1>1, <1>5, <2>1 DEF Makes, After, Sets
  <2> HIDE DEF e
  <2> QED  BY <1>1, <1>4, <1>5, <2>1, <2>2, <2>3
<1>6. CASE c.kind = "execute"
  <2>1. PICK d \in BOOLEAN : suite' =
          [Sets(c.id, "Executed") EXCEPT !.actions[c.id].duplicate = d]
    BY <1>6 DEF Makes, After
  <2>2. c.id \in Ids /\ suite.actions[c.id].status = "Bonded" /\ suite.actions[c.id] \in Action
    BY <1>1, <1>6 DEF Makes, Accepts, In
  <2> DEFINE e == [suite.actions[c.id] EXCEPT !.status = "Executed", !.duplicate = d]
  <2>3. e \in Action /\ e.invoice = suite.actions[c.id].invoice /\ e.status # "Initiated"
    BY <2>2 DEF Action, Stati
  <2>4. /\ suite' = [f \in {"submitted", "actions", "score", "allowance"} |-> suite'[f]]
        /\ suite'.actions = [suite.actions EXCEPT ![c.id] = e] /\ suite'.score = suite.score
    BY <1>1, <2>1, <2>2 DEF Sets
  <2> HIDE DEF e
  <2> QED  BY <1>1, <1>4, <1>6, <2>2, <2>3, <2>4
<1>7. CASE c.kind = "challenge" \/ c.kind = "resolve"
  <2>1. c.id \in Ids /\ suite.actions[c.id].status # "Initiated" /\ suite.actions[c.id] \in Action
    BY <1>1, <1>7 DEF Makes, Accepts, In
  <2>2. PICK st \in {"Challenged", "ResolvedSlash", "ResolvedRefund"} : \E n \in Int :
          suite' = [Sets(c.id, st) EXCEPT !.score = n]
    <3>1. CASE c.kind = "challenge"
      <4>1. suite' = [Sets(c.id, "Challenged") EXCEPT !.score = suite.score]
        BY <1>1, <3>1 DEF Makes, After, Sets
      <4> QED  BY <1>1, <4>1
    <3>2. CASE c.kind = "resolve"
      <4>1. suite' = IF In(c.id, "Challenged")
                     THEN [Sets(c.id, "ResolvedSlash") EXCEPT !.score = suite.score - 50]
                     ELSE [Sets(c.id, "ResolvedRefund") EXCEPT !.score = suite.score + 10]
        BY <1>1, <3>2 DEF Makes, After, Sets
      <4>2. suite.score - 50 \in Int /\ suite.score + 10 \in Int
        BY <1>1
      <4>3. CASE In(c.id, "Challenged")
        BY <4>1, <4>2, <4>3
      <4>4. CASE ~In(c.id, "Challenged")
        BY <4>1, <4>2, <4>4
      <4> QED  BY <4>3, <4>4
    <3> QED  BY <1>7, <3>1, <3>2
  <2> DEFINE e == [suite.actions[c.id] EXCEPT !.status = st]
  <2>3. e \in Action /\ e.invoice = suite.actions[c.id].invoice /\ e.status # "Initiated"
    BY <2>1, <2>2 DEF Action, Stati
  <2>4. /\ suite' = [f \in {"submitted", "actions", "score", "allowance"} |-> suite'[f]]
        /\ suite'.actions = [suite.actions EXCEPT ![c.id] = e] /\ suite'.score \in Int
    BY <1>1, <2>1, <2>2 DEF Sets
  <2> HIDE DEF e
  <2> QED  BY <1>1, <1>4, <1>7, <2>1, <2>3, <2>4
<1>8. \/ c.kind \in {"submit", "approve", "initiate", "post", "execute"}
      \/ c.kind \in {"challenge", "resolve"}
  BY DEF Makes, Accepts
<1> QED  BY <1>2, <1>3, <1>5, <1>6, <1>7, <1>8


-----------------------------------------------------------------------------
(* Counting.                                                               *)

\* A step's new late initiations are calls whose sender was not told.
Pays ==
  /\ misreads' >= misreads /\ deaths' >= deaths
  /\ Cardinality(LateInits') + deaths <= Cardinality(LateInits) + deaths'

Countable ==
  /\ Cardinality(LateInits) \in Nat
  /\ Len(suite.actions) \in Nat
  /\ \A i : IsFiniteSet(Taken(i)) /\ Cardinality(Taken(i)) \in Nat

LEMMA Numbers == SuiteTypes /\ LateTypes => Countable
<1> SUFFICES ASSUME SuiteTypes, LateTypes  PROVE Countable
  OBVIOUS
<1>1. Len(suite.actions) \in Nat
  BY ActionTyped
<1>2. IsFiniteSet(LateInits) /\ Cardinality(LateInits) \in Nat
  BY FS_Subset, FS_CardinalityType DEF LateTypes, LateInits
<1>3. IsFiniteSet(Ids)
  BY <1>1, FS_Interval DEF Ids
<1>4. ASSUME NEW i
      PROVE  IsFiniteSet(Taken(i)) /\ Cardinality(Taken(i)) \in Nat
  <2>1. Taken(i) \in SUBSET Ids
    BY DEF Taken
  <2>2. IsFiniteSet(Taken(i))
    BY <1>3, <2>1, FS_Subset
  <2> QED  BY <2>2, FS_CardinalityType
<1> QED  BY <1>1, <1>2, <1>4 DEF Countable

LEMMA NumbersNext == SuiteTypes' /\ LateTypes' => Countable'
BY Numbers, PTL

\* t and u actions taken, l and m late initiations, r misreads and d deaths,
\* before a step and after it.
LEMMA Sums ==
  ASSUME NEW t \in Nat, NEW u \in Nat, NEW l \in Nat, NEW m \in Nat,
         NEW r \in Nat, NEW r1 \in Nat, NEW d \in Nat, NEW d1 \in Nat,
         r1 >= r, d1 >= d, m + d <= l + d1
  PROVE  /\ u <= t /\ t + l <= 1 + r + d => u + m <= 1 + r1 + d1
         /\ u <= t /\ t + l <= 1 + r + d /\ r1 > r => u + m <= r1 + d1
         /\ u <= t /\ t + l <= r + d => u + m <= r1 + d1
         /\ u < t /\ t + l <= 1 + r + d => u + m <= r1 + d1
         /\ u <= t + 1 /\ t + l <= r + d => u + m <= 1 + r1 + d1
         /\ u <= 1 /\ l <= d => u + m <= 1 + r1 + d1
         /\ u <= 1 /\ m < d1 => u + m <= r1 + d1
         /\ l <= d => m <= d1
OBVIOUS

\* What becomes of an invoice in a step that takes no more actions of it.
Holds(i) ==
  /\ Used(i)' <= 1 + misreads' + deaths'
  /\ misreads' > misreads => Spare(i)'
  /\ Spare(i) => Spare(i)'
  /\ \A k \in Taken(i) : k \in Taken(i)' \/ Spare(i)'

LEMMA Calm ==
  ASSUME SuiteTypes, SuiteTypes', LateTypes, LateTypes', CountTypes, CountTypes', Counted, Pays,
         NEW i \in Invoices, Taken(i)' \subseteq Taken(i)
  PROVE  Holds(i)
<1> DEFINE t == Cardinality(Taken(i))
           u == Cardinality(Taken(i)')
           l == Cardinality(LateInits)
           m == Cardinality(LateInits')
<1>1. /\ t \in Nat /\ u \in Nat /\ l \in Nat /\ m \in Nat
      /\ misreads \in Nat /\ deaths \in Nat /\ misreads' \in Nat /\ deaths' \in Nat
      /\ IsFiniteSet(Taken(i)) /\ IsFiniteSet(Taken(i)')
  BY Numbers, NumbersNext DEF CountTypes, Countable
<1>2. /\ u <= t
      /\ \A k \in Taken(i) : k \in Taken(i)' \/ u < t
  <2>1. u <= t /\ (t = u => Taken(i) = Taken(i)')
    BY <1>1, FS_Subset
  <2> QED  BY <1>1, <2>1
<1>3. /\ t + l <= 1 + misreads + deaths
      /\ misreads' >= misreads /\ deaths' >= deaths /\ m + deaths <= l + deaths'
  BY DEF Counted, Used, Pays
<1>4. Used(i)' = u + m /\ (Spare(i) <=> t + l <= misreads + deaths)
      /\ (Spare(i)' <=> u + m <= misreads' + deaths')
  BY DEF Used, Spare
<1>5. /\ u + m <= 1 + misreads' + deaths'
      /\ misreads' > misreads => u + m <= misreads' + deaths'
      /\ t + l <= misreads + deaths => u + m <= misreads' + deaths'
      /\ u < t => u + m <= misreads' + deaths'
  BY <1>1, <1>2, <1>3, Sums
<1> HIDE DEF t, u, l, m
<1> QED  BY <1>2, <1>4, <1>5 DEF Holds

\* One more action is taken, which was paid for or taken before.
LEMMA Gain ==
  ASSUME SuiteTypes, SuiteTypes', LateTypes, LateTypes', CountTypes, CountTypes', Counted, Pays,
         NEW i \in Invoices, NEW k, Taken(i)' \subseteq Taken(i) \cup {k},
         k \in Taken(i) \/ Spare(i)
  PROVE  Used(i)' <= 1 + misreads' + deaths'
<1>1. CASE k \in Taken(i)
  BY <1>1, Calm DEF Holds
<1>2. CASE k \notin Taken(i)
  <2> DEFINE t == Cardinality(Taken(i))
             u == Cardinality(Taken(i)')
             l == Cardinality(LateInits)
             m == Cardinality(LateInits')
  <2>1. /\ t \in Nat /\ u \in Nat /\ l \in Nat /\ m \in Nat
        /\ misreads \in Nat /\ deaths \in Nat /\ misreads' \in Nat /\ deaths' \in Nat
        /\ IsFiniteSet(Taken(i))
    BY Numbers, NumbersNext DEF CountTypes, Countable
  <2>2. IsFiniteSet(Taken(i) \cup {k}) /\ Cardinality(Taken(i) \cup {k}) = t + 1
    BY <1>2, <2>1, FS_AddElement
  <2>3. u <= t + 1
    BY <2>2, FS_Subset
  <2>4. /\ t + l <= misreads + deaths
        /\ misreads' >= misreads /\ deaths' >= deaths /\ m + deaths <= l + deaths'
    BY <1>2 DEF Spare, Used, Pays
  <2>5. Used(i)' = u + m
    BY DEF Used
  <2>6. u + m <= 1 + misreads' + deaths'
    BY <2>1, <2>3, <2>4, Sums
  <2> QED  BY <2>5, <2>6
<1> QED  BY <1>1, <1>2

\* The first action of an invoice is the only one taken.
LEMMA OnlyFirst ==
  ASSUME SuiteTypes, SuiteTypes', LateTypes, LateTypes', CountTypes, CountTypes', Counted, Pays,
         NEW i \in Invoices, NEW k, Taken(i)' \subseteq {k}
  PROVE  /\ Used(i)' <= 1 + misreads' + deaths'
         /\ Cardinality(LateInits') < deaths' => Spare(i)'
<1> DEFINE u == Cardinality(Taken(i)')
           l == Cardinality(LateInits)
           m == Cardinality(LateInits')
<1>1. /\ u \in Nat /\ l \in Nat /\ m \in Nat
      /\ misreads \in Nat /\ deaths \in Nat /\ misreads' \in Nat /\ deaths' \in Nat
  BY Numbers, NumbersNext DEF CountTypes, Countable
<1>2. u <= 1
  <2>1. IsFiniteSet({k}) /\ Cardinality({k}) = 1
    BY FS_Singleton
  <2> QED  BY <2>1, FS_Subset
<1>3. l <= deaths /\ m + deaths <= l + deaths'
  BY DEF Counted, Pays
<1>4. Used(i)' = u + m /\ (Spare(i)' <=> u + m <= misreads' + deaths')
  BY DEF Used, Spare
<1>5. u + m <= 1 + misreads' + deaths' /\ (m < deaths' => u + m <= misreads' + deaths')
  <2>1. misreads' >= misreads /\ deaths' >= deaths
    BY DEF Pays
  <2> QED  BY <1>1, <1>2, <1>3, <2>1, Sums
<1> QED  BY <1>4, <1>5

\* An invoice without an action has something to spare.
LEMMA NoneTaken ==
  ASSUME SuiteTypes, LateTypes, CountTypes, Counted, NEW i, Taken(i) = {}
  PROVE  Spare(i)
<1>1. Cardinality(Taken(i)) = 0
  BY FS_EmptySet
<1>2. Cardinality(LateInits) \in Nat /\ Cardinality(LateInits) <= deaths
  BY Numbers DEF Counted, Countable
<1> QED  BY <1>1, <1>2 DEF Spare, Used, CountTypes

\* No late initiation is more than was lost.
LEMMA LateCounted ==
  ASSUME SuiteTypes, SuiteTypes', LateTypes, LateTypes', CountTypes, CountTypes', Counted, Pays
  PROVE  Cardinality(LateInits') <= deaths'
<1> DEFINE l == Cardinality(LateInits)
           m == Cardinality(LateInits')
<1>1. l \in Nat /\ m \in Nat /\ deaths \in Nat /\ deaths' \in Nat
  BY Numbers, NumbersNext DEF CountTypes, Countable
<1>2. l <= deaths /\ m + deaths <= l + deaths' /\ deaths' >= deaths
  BY DEF Counted, Pays
<1> QED  BY <1>1, <1>2, Sums


-----------------------------------------------------------------------------
(* What a step takes.                                                      *)

\* Actions that are aimed at, or the first of their invoice, are taken.
LEMMA AimedTaken ==
  ASSUME NEW k \in Ids, k \in Aimed \/ k \in FirstOf(suite.actions[k].invoice)
  PROVE  k \in Taken(suite.actions[k].invoice)
BY DEF Taken

LEMMA KeptFirst ==
  ASSUME SuiteTypes, NEW j, Keeps(j), NEW i
  PROVE  FirstOf(i)' = FirstOf(i)
<1>1. Len(suite.actions) \in Nat
  BY ActionTyped
<1>2. \A l \in 1..Len(suite.actions) : suite'.actions[l].invoice = suite.actions[l].invoice
  BY DEF Keeps, Ids
<1>3. \A k \in 1..Len(suite.actions) : 1..k - 1 \subseteq 1..Len(suite.actions)
  BY <1>1
<1> QED  BY <1>2, <1>3 DEF Keeps, FirstOf, Find

LEMMA KeptTaken ==
  ASSUME SuiteTypes, NEW j, Keeps(j), j \in Ids => j \in Aimed,
         \A k \in Aimed' : k \in Aimed \/ k \in FirstOf(suite.actions[k].invoice),
         NEW i
  PROVE  Taken(i)' \subseteq Taken(i)
<1> SUFFICES ASSUME NEW k \in Taken(i)'
             PROVE  k \in Taken(i)
  OBVIOUS
<1>1. /\ k \in Ids /\ suite.actions[k].invoice = i
      /\ \/ suite'.actions[k].status # "Initiated"
         \/ k \in Aimed' \/ k \in FirstOf(i)'
  BY DEF Taken, Keeps, Ids
<1>2. CASE suite'.actions[k].status # "Initiated"
  BY <1>1, <1>2 DEF Keeps, Taken
<1>3. CASE k \in Aimed'
  BY <1>1, <1>3 DEF Taken
<1>4. CASE k \in FirstOf(i)'
  BY <1>1, <1>4, KeptFirst DEF Taken
<1> QED  BY <1>1, <1>2, <1>3, <1>4

\* The list with one more action.
LEMMA Added ==
  ASSUME SuiteTypes, NEW j \in Invoices \cup {"other"}, Adds(j)
  PROVE  /\ Len(suite.actions) \in Nat /\ Len(suite'.actions) = Len(suite.actions) + 1
         /\ \A k \in Ids : suite'.actions[k] = suite.actions[k]
         /\ suite'.actions[Len(suite.actions) + 1].invoice = j
         /\ suite'.actions[Len(suite.actions) + 1].status = "Initiated"
<1>1. Initiated(j) \in Action
  BY RateInt DEF Initiated, Action, Stati
<1> QED  BY <1>1, AppendProperties, LenProperties DEF SuiteTypes, Adds, Ids, Initiated

LEMMA AddedFirst ==
  ASSUME SuiteTypes, NEW j \in Invoices \cup {"other"}, Adds(j), NEW i
  PROVE  /\ FirstOf(i)' \subseteq FirstOf(i) \cup {Len(suite.actions) + 1}
         /\ FirstOf(i) \subseteq FirstOf(i)'
         /\ Len(suite.actions) + 1 \in FirstOf(i)' <=>
              j = i /\ \A k \in Ids : suite.actions[k].invoice # i
<1> DEFINE n == Len(suite.actions)
<1>1. /\ n \in Nat /\ Len(suite'.actions) = n + 1
      /\ \A k \in 1..n : suite'.actions[k].invoice = suite.actions[k].invoice
      /\ suite'.actions[n + 1].invoice = j
  BY Added DEF Ids
<1>2. FirstOf(i) = {k \in 1..n : /\ suite.actions[k].invoice = i
                                 /\ \A l \in 1..k - 1 : suite.actions[l].invoice # i}
  BY DEF FirstOf, Find
<1>3. FirstOf(i)' = {k \in 1..n + 1 : /\ suite'.actions[k].invoice = i
                                      /\ \A l \in 1..k - 1 : suite'.actions[l].invoice # i}
  BY <1>1 DEF FirstOf, Find
<1>4. Ids = 1..n
  BY DEF Ids
<1> HIDE DEF n
<1>5. ASSUME NEW k \in 1..n
      PROVE  k \in FirstOf(i)' <=> k \in FirstOf(i)
  <2>1. 1..k - 1 \subseteq 1..n /\ k \in 1..n + 1
    BY <1>1
  <2>2. (\A l \in 1..k - 1 : suite'.actions[l].invoice # i)
          <=> \A l \in 1..k - 1 : suite.actions[l].invoice # i
    BY <1>1, <2>1
  <2>3. suite'.actions[k].invoice = suite.actions[k].invoice
    BY <1>1
  <2> QED  BY <1>2, <1>3, <2>1, <2>2, <2>3
<1>6. n + 1 \in FirstOf(i)' <=> j = i /\ \A k \in 1..n : suite.actions[k].invoice # i
  <2>1. n + 1 \in 1..n + 1 /\ (n + 1) - 1 = n
    BY <1>1
  <2>2. (\A l \in 1..n : suite'.actions[l].invoice # i)
          <=> \A l \in 1..n : suite.actions[l].invoice # i
    BY <1>1
  <2>3. 1..(n + 1) - 1 = 1..n
    BY <2>1
  <2>4. n + 1 \in FirstOf(i)' <=>
          /\ suite'.actions[n + 1].invoice = i
          /\ \A l \in 1..(n + 1) - 1 : suite'.actions[l].invoice # i
    <3> DEFINE p == n + 1
    <3>1. p \in 1..n + 1
      BY <2>1
    <3> HIDE DEF p
    <3>2. p \in FirstOf(i)' <=>
            /\ suite'.actions[p].invoice = i
            /\ \A l \in 1..p - 1 : suite'.actions[l].invoice # i
      BY <1>3, <3>1
    <3> QED  BY <3>2 DEF p
  <2>5. n + 1 \in FirstOf(i)' <=>
          suite'.actions[n + 1].invoice = i /\ \A l \in 1..n : suite'.actions[l].invoice # i
    BY <2>3, <2>4
  <2> QED  BY <1>1, <2>2, <2>5
<1>7. FirstOf(i)' \subseteq FirstOf(i) \cup {n + 1}
  <2>1. 1..n + 1 = 1..n \cup {n + 1}
    BY <1>1
  <2> QED  BY <1>3, <1>5, <2>1
<1>8. FirstOf(i) \subseteq FirstOf(i)'
  BY <1>2, <1>5
<1> QED  BY <1>4, <1>6, <1>7, <1>8 DEF n

LEMMA AddedTaken ==
  ASSUME SuiteTypes, NEW j \in Invoices \cup {"other"}, Adds(j), NEW i
  PROVE  Taken(i)' \subseteq Taken(i)
           \cup {k \in Aimed' : suite'.actions[k].invoice = i}
           \cup {k \in {Len(suite.actions) + 1} :
                   j = i /\ \A l \in Ids : suite.actions[l].invoice # i}
<1> SUFFICES ASSUME NEW k \in Taken(i)', k \notin Aimed', k \notin Taken(i)
             PROVE  /\ k = Len(suite.actions) + 1
                    /\ j = i /\ \A l \in Ids : suite.actions[l].invoice # i
  BY DEF Taken
<1>1. /\ k \in 1..Len(suite'.actions) /\ suite'.actions[k].invoice = i
      /\ suite'.actions[k].status # "Initiated" \/ k \in FirstOf(i)'
  BY DEF Taken, Ids
<1>2. CASE k \in Ids
  <2>1. suite'.actions[k] = suite.actions[k]
    BY <1>2, Added
  <2>2. k # Len(suite.actions) + 1
    BY <1>2, Added DEF Ids
  <2> QED  BY <1>1, <1>2, <2>1, <2>2, AddedFirst DEF Taken
<1>3. CASE k \notin Ids
  <2>1. k = Len(suite.actions) + 1
    BY <1>1, <1>3, Added DEF Ids
  <2> QED  BY <1>1, <2>1, Added, AddedFirst
<1> QED  BY <1>2, <1>3

LEMMA AddedHasFirst ==
  ASSUME SuiteTypes, HasFirst, NEW j \in Invoices \cup {"other"}, Adds(j)
  PROVE  HasFirst'
<1> SUFFICES ASSUME NEW i \in Invoices, NEW k \in Ids', suite'.actions[k].invoice = i
             PROVE  FirstOf(i)' # {}
  BY DEF HasFirst
<1>1. CASE \E l \in Ids : suite.actions[l].invoice = i
  BY <1>1, AddedFirst DEF HasFirst
<1>2. CASE \A l \in Ids : suite.actions[l].invoice # i
  <2>1. \A l \in Ids : suite'.actions[l] = suite.actions[l]
    BY Added
  <2>2. k \notin Ids
    BY <1>2, <2>1
  <2>3. k = Len(suite.actions) + 1
    BY <2>2, Added DEF Ids
  <2>4. j = i
    BY <2>3, Added
  <2> QED  BY <1>2, <2>3, <2>4, AddedFirst
<1> QED  BY <1>1, <1>2

\* An invoice without an action has none taken.
LEMMA Untaken ==
  ASSUME NEW i, \A k \in Ids : suite.actions[k].invoice # i
  PROVE  Taken(i) = {}
BY DEF Taken


\* A step that adds no action, and takes none.
LEMMA KeptBooks ==
  ASSUME DemoInv, SuiteTypes', LateTypes', CountTypes', Pays,
         NEW j, Keeps(j), j \in Ids => j \in Aimed,
         \A k \in Aimed' : k \in Aimed \/ k \in FirstOf(suite.actions[k].invoice)
  PROVE  Counted' /\ HasFirst' /\ \A i \in Invoices : Holds(i)
<1> USE DEF DemoInv
<1>1. \A i : Taken(i)' \subseteq Taken(i)
  BY KeptTaken
<1>2. \A i \in Invoices : Holds(i)
  BY <1>1, Calm
<1>3. Counted'
  <2>1. Cardinality(LateInits') <= deaths'
    BY LateCounted
  <2> QED  BY <1>2, <2>1 DEF Counted, Holds
<1>4. HasFirst'
  BY KeptFirst DEF HasFirst, Keeps, Ids
<1> QED  BY <1>2, <1>3, <1>4

LEMMA StillPrepared ==
  ASSUME DemoInv, NEW j, Keeps(j), UNCHANGED demo, \A i \in Invoices : Holds(i)
  PROVE  ProgramTypes' /\ Prepared'
<1> USE DEF DemoInv
<1>1. Ids' = Ids /\ \A k \in Ids : suite'.actions[k].invoice = suite.actions[k].invoice
  BY DEF Keeps, Ids
<1>2. ProgramTypes'
  BY <1>1 DEF ProgramTypes, Taking
<1>3. demo.pc = "predict" => Spare(demo.invoice)'
  BY DEF Prepared, ProgramTypes, Holds
<1>4. ASSUME demo.pc = "initiate"
      PROVE  /\ demo.id \in 1..Len(suite'.actions) + 1
             /\ IF demo.id \in Ids' THEN Chosen(demo.id)' ELSE Spare(demo.invoice)'
  <2>1. demo.id \in 1..Len(suite'.actions) + 1
    BY <1>4 DEF Prepared, Keeps
  <2>2. CASE demo.id \in Ids
    <3>0. PICK i : i = suite.actions[demo.id].invoice
      OBVIOUS
    <3>1. i \notin Invoices \/ demo.id \in Taken(i) \/ Spare(i)
      BY <1>4, <2>2, <3>0 DEF Prepared, Chosen, Own
    <3>2. i \notin Invoices \/ demo.id \in Taken(i)' \/ Spare(i)'
      BY <3>1 DEF Holds
    <3>3. i = suite'.actions[demo'.id].invoice
      BY <1>1, <2>2, <3>0
    <3> QED  BY <1>1, <2>1, <2>2, <3>2, <3>3 DEF Chosen, Own
  <2>3. CASE demo.id \notin Ids
    BY <1>1, <1>4, <2>1, <2>3 DEF Prepared, ProgramTypes, Holds
  <2> QED  BY <2>1, <2>2, <2>3
<1>5. demo.pc = "again" => demo.id \in Ids' /\ suite'.actions[demo.id].status # "Initiated"
  BY <1>1 DEF Prepared, Keeps
<1> QED  BY <1>2, <1>3, <1>4, <1>5 DEF Prepared

\* A step that adds an action, and aims at no other.
LEMMA AddedBooks ==
  ASSUME DemoInv, SuiteTypes', LateTypes', CountTypes', Pays,
         NEW j \in Invoices \cup {"other"}, Adds(j), Aimed' \subseteq Aimed
  PROVE  /\ Counted' /\ HasFirst'
         /\ \A i \in Invoices :
              i # j \/ (\E k \in Ids : suite.actions[k].invoice = i) =>
                Holds(i) /\ Taken(i)' \subseteq Taken(i)
         /\ \A i \in Invoices :
              i = j /\ (\A k \in Ids : suite.actions[k].invoice # i) =>
                /\ Taken(i)' \subseteq {Len(suite.actions) + 1}
                /\ Len(suite.actions) + 1 \in Taken(i)'
<1> USE DEF DemoInv
<1>1. \A k \in Ids : suite'.actions[k] = suite.actions[k]
  BY Added
<1>2. ASSUME NEW i, NEW k \in Aimed', suite'.actions[k].invoice = i
      PROVE  k \in Taken(i)
  <2>1. k \in Aimed /\ k \in Ids
    BY DEF Aimed
  <2> QED  BY <1>1, <1>2, <2>1 DEF Taken
<1>3. ASSUME NEW i \in Invoices, i # j \/ \E k \in Ids : suite.actions[k].invoice = i
      PROVE  Holds(i) /\ Taken(i)' \subseteq Taken(i)
  <2>1. Taken(i)' \subseteq Taken(i)
    BY <1>2, <1>3, AddedTaken
  <2> QED  BY <2>1, Calm
<1>4. ASSUME NEW i \in Invoices, i = j, \A k \in Ids : suite.actions[k].invoice # i
      PROVE  /\ Taken(i)' \subseteq {Len(suite.actions) + 1}
             /\ Len(suite.actions) + 1 \in Taken(i)'
  <2>1. Taken(i)' \subseteq {Len(suite.actions) + 1}
    BY <1>2, <1>4, AddedTaken, Untaken
  <2>2. Len(suite.actions) + 1 \in FirstOf(i)'
    BY <1>4, AddedFirst
  <2>3. Len(suite.actions) + 1 \in Ids'
    BY Added DEF Ids
  <2>4. suite'.actions[Len(suite.actions) + 1].invoice = i
    BY <1>4, Added
  <2> QED  BY <2>1, <2>2, <2>3, <2>4 DEF Taken
<1>5. Counted'
  <2>1. Cardinality(LateInits') <= deaths'
    BY LateCounted
  <2>2. ASSUME NEW i \in Invoices
        PROVE  Used(i)' <= 1 + misreads' + deaths'
    <3>1. CASE i = j /\ \A k \in Ids : suite.actions[k].invoice # i
      BY <1>4, <3>1, OnlyFirst
    <3>2. CASE i # j \/ \E k \in Ids : suite.actions[k].invoice = i
      BY <1>3, <3>2 DEF Holds
    <3> QED  BY <3>1, <3>2
  <2> QED  BY <2>1, <2>2 DEF Counted
<1>6. HasFirst'
  BY AddedHasFirst
<1> QED  BY <1>3, <1>4, <1>5, <1>6

\* A late initiation that is included leaves its invoice something to spare.
LEMMA LateSpares ==
  ASSUME DemoInv, SuiteTypes', LateTypes', CountTypes',
         misreads' = misreads, deaths' = deaths,
         Cardinality(LateInits') + 1 <= Cardinality(LateInits),
         NEW i \in Invoices, NEW k,
         Taken(i)' \subseteq Taken(i) \/ Taken(i)' \subseteq {k}
  PROVE  Spare(i)'
<1> USE DEF DemoInv
<1> DEFINE t == Cardinality(Taken(i))
           u == Cardinality(Taken(i)')
           l == Cardinality(LateInits)
           m == Cardinality(LateInits')
<1>1. /\ t \in Nat /\ u \in Nat /\ l \in Nat /\ m \in Nat
      /\ misreads \in Nat /\ deaths \in Nat
      /\ IsFiniteSet(Taken(i)) /\ IsFiniteSet(Taken(i)')
  BY Numbers, NumbersNext DEF CountTypes, Countable
<1>2. u <= t \/ u <= 1
  <2>1. Taken(i)' \subseteq Taken(i) => u <= t
    BY <1>1, FS_Subset
  <2>2. IsFiniteSet({k}) /\ Cardinality({k}) = 1
    BY FS_Singleton
  <2>3. Taken(i)' \subseteq {k} => u <= 1
    BY <2>2, FS_Subset
  <2> QED  BY <2>1, <2>3
<1>3. t + l <= 1 + misreads + deaths /\ l <= deaths /\ m + 1 <= l
  BY DEF Counted, Used
<1>4. \A t1, u1, l1, m1, r, d \in Nat :
        (u1 <= t1 \/ u1 <= 1) /\ t1 + l1 <= 1 + r + d /\ l1 <= d /\ m1 + 1 <= l1
          => u1 + m1 <= r + d
  OBVIOUS
<1>5. u + m <= misreads + deaths
  BY <1>1, <1>2, <1>3, <1>4
<1> QED  BY <1>5 DEF Spare, Used


-----------------------------------------------------------------------------
(* The program, while it reads.                                            *)

LEMMA Unmoved == SuiteTypes /\ UNCHANGED suite => SuiteTypes' /\ Keeps(0)
BY DEF SuiteTypes, Keeps

LEMMA LateUnmoved ==
  ASSUME LateTypes, UNCHANGED lateCalls, Ids \subseteq Ids'
  PROVE  LateTypes' /\ LateInits' = LateInits /\ LatePosts' = LatePosts
BY DEF LateTypes, LateInits, LatePosts

LEMMA PlainTurn ==
  ASSUME DemoInv, UNCHANGED <<suite, lateCalls, deaths>>,
         misreads' \in {misreads, misreads + 1},
         Taking' => \/ Taking /\ demo'.id = demo.id
                    \/ demo'.id \in FirstOf(suite.actions[demo'.id].invoice)
  PROVE  /\ SuiteTypes' /\ LateTypes' /\ CountTypes' /\ Counted' /\ HasFirst'
         /\ \A i \in Invoices : Holds(i)
<1> USE DEF DemoInv
<1>1. SuiteTypes' /\ Keeps(0) /\ Ids' = Ids
  BY Unmoved DEF Ids
<1>2. LateTypes' /\ LateInits' = LateInits /\ LatePosts' = LatePosts
  BY <1>1, LateUnmoved
<1>3. CountTypes'
  BY DEF CountTypes
<1>4. Pays
  <2>1. Cardinality(LateInits) \in Nat
    BY Numbers DEF Countable
  <2> QED  BY <1>2, <2>1 DEF Pays, CountTypes
<1>5. 0 \notin Ids
  BY ActionTyped DEF Ids
<1>6. \A k \in Aimed' : k \in Aimed \/ k \in FirstOf(suite.actions[k].invoice)
  BY <1>1, <1>2 DEF Aimed
<1> QED  BY <1>1, <1>2, <1>3, <1>4, <1>5, <1>6, KeptBooks

LEMMA PlainPrepared ==
  ASSUME demo'.pc \notin {"predict", "initiate", "again"}
  PROVE  Prepared'
BY DEF Prepared

LEMMA Scanned ==
  ASSUME CountTypes, SuiteTypes, NEW n \in Lists, Scans(n)
  PROVE  /\ misreads' \in {misreads, misreads + 1}
         /\ n = Len(suite.actions) \/ (n < Len(suite.actions) /\ misreads' > misreads)
         /\ n \in Nat /\ Len(suite.actions) \in Nat
BY ActionTyped DEF Scans, CountTypes, Lists

LEMMA FindKeeps ==
  ASSUME DemoInv, UNCHANGED deaths, NEW n \in Lists, FindAction(n)
  PROVE  DemoInv'
<1> USE DEF DemoInv
<1>1. /\ misreads' \in {misreads, misreads + 1} /\ UNCHANGED <<suite, lateCalls, deaths>>
      /\ n = Len(suite.actions) \/ (n < Len(suite.actions) /\ misreads' > misreads)
      /\ n \in Nat /\ Len(suite.actions) \in Nat
  BY Scanned DEF FindAction, Reads
<1>2. demo.pc = "find" /\ demo.invoice \in Invoices
      /\ demo = [f \in {"pc", "invoice", "id", "bond", "accused"} |-> demo[f]]
  BY DEF FindAction, ProgramTypes
<1>3. CASE Find(demo.invoice, n) = {}
  <2>1. demo'.pc = "predict" /\ demo'.invoice = demo.invoice
        /\ demo' = [f \in {"pc", "invoice", "id", "bond", "accused"} |-> demo'[f]]
    BY <1>2, <1>3 DEF FindAction, Goes
  <2>2. /\ SuiteTypes' /\ LateTypes' /\ CountTypes' /\ Counted' /\ HasFirst'
        /\ \A i \in Invoices : Holds(i)
    BY <1>1, <2>1, PlainTurn DEF Taking
  <2>3. ProgramTypes'
    BY <1>2, <2>1 DEF ProgramTypes, Taking
  <2>4. PICK i \in Invoices : i = demo.invoice
    BY <1>2
  <2>5. Spare(i)'
    <3>1. CASE n = Len(suite.actions)
      <4>1. \A k \in Ids : suite.actions[k].invoice # i
        BY <1>3, <2>4, <3>1 DEF HasFirst, FirstOf
      <4>2. Spare(i)
        BY <4>1, Untaken, NoneTaken
      <4> QED  BY <2>2, <4>2 DEF Holds
    <3>2. CASE misreads' > misreads
      BY <2>2, <3>2 DEF Holds
    <3> QED  BY <1>1, <3>1, <3>2
  <2>6. Prepared'
    BY <2>1, <2>4, <2>5 DEF Prepared
  <2> QED  BY <2>2, <2>3, <2>6
<1>4. ASSUME NEW k \in Find(demo.invoice, n), demo' = Follows(demo.invoice, k)
      PROVE  DemoInv'
  <2>1. k \in Ids /\ k \in FirstOf(suite.actions[k].invoice)
    BY <1>1, <1>4 DEF Find, FirstOf, Ids
  <2>2. /\ demo' = [f \in {"pc", "invoice", "id", "bond", "accused"} |-> demo'[f]]
        /\ demo'.invoice \in Invoices
        /\ demo'.pc \notin {"predict", "initiate", "again"}
        /\ Taking' => demo'.id = k
    <3>1. CASE demo.invoice = "clean"
      <4>1. PICK pc \in {"price", "execute", "window", "verify"} :
              demo' = [demo EXCEPT !.pc = pc, !.id = k]
        <5>1. demo' = [demo EXCEPT !.pc = CleanGoesOn(k), !.id = k]
          BY <1>4, <3>1 DEF Follows
        <5>2. CleanGoesOn(k) \in {"price", "execute", "window", "verify"}
          BY DEF CleanGoesOn
        <5> QED  BY <5>1, <5>2
      <4> QED  BY <1>2, <4>1
    <3>2. CASE demo.invoice # "clean"
      <4>1. \/ demo' = [NoDemo EXCEPT !.pc = "find", !.invoice = "duplicate"]
            \/ demo' = [NoDemo EXCEPT !.pc = "accuse", !.accused = k]
        BY <1>2, <1>4, <3>2 DEF Follows, Invoices
      <4> QED  BY <4>1 DEF NoDemo, Invoices, Taking
    <3> QED  BY <3>1, <3>2
  <2>3. /\ SuiteTypes' /\ LateTypes' /\ CountTypes' /\ Counted' /\ HasFirst'
    BY <1>1, <2>1, <2>2, PlainTurn
  <2>4. ProgramTypes'
    BY <1>1, <2>1, <2>2 DEF ProgramTypes, Ids
  <2> QED  BY <2>2, <2>3, <2>4, PlainPrepared
<1> QED  BY <1>3, <1>4 DEF FindAction

LEMMA PredictKeeps ==
  ASSUME DemoInv, UNCHANGED deaths, NEW n \in Lists, Predict(n)
  PROVE  DemoInv'
<1> USE DEF DemoInv
<1>1. /\ misreads' \in {misreads, misreads + 1} /\ UNCHANGED <<suite, lateCalls, deaths>>
      /\ n = Len(suite.actions) \/ (n < Len(suite.actions) /\ misreads' > misreads)
      /\ n \in Nat /\ Len(suite.actions) \in Nat
  BY Scanned DEF Predict, Reads
<1>2. /\ demo.pc = "predict" /\ demo.invoice \in Invoices
      /\ demo'.pc = "initiate" /\ demo'.invoice = demo.invoice /\ demo'.id = n + 1
      /\ demo' = [f \in {"pc", "invoice", "id", "bond", "accused"} |-> demo'[f]]
  BY DEF Predict, ProgramTypes
<1>3. /\ SuiteTypes' /\ LateTypes' /\ CountTypes' /\ Counted' /\ HasFirst'
      /\ \A i \in Invoices : Holds(i)
  BY <1>1, <1>2, PlainTurn DEF Taking
<1>4. ProgramTypes'
  BY <1>1, <1>2 DEF ProgramTypes, Taking
<1>5. PICK i \in Invoices : i = demo.invoice
  BY <1>2
<1>6. CASE n = Len(suite.actions)
  <2>1. Spare(i)'
    BY <1>2, <1>3, <1>5 DEF Prepared, Holds
  <2>2. demo'.id \notin Ids' /\ demo'.id \in 1..Len(suite'.actions) + 1
    BY <1>1, <1>2, <1>6 DEF Ids
  <2>3. Prepared'
    BY <1>2, <1>5, <2>1, <2>2 DEF Prepared
  <2> QED  BY <1>3, <1>4, <2>3
<1>7. CASE n < Len(suite.actions) /\ misreads' > misreads
  <2>1. \A l \in Invoices : Spare(l)'
    BY <1>3, <1>7 DEF Holds
  <2>2. demo'.id \in Ids' /\ demo'.id \in 1..Len(suite'.actions) + 1
    BY <1>1, <1>2, <1>7 DEF Ids
  <2>3. Chosen(demo.id)'
    <3>1. PICK l : l = suite'.actions[demo'.id].invoice
      OBVIOUS
    <3>2. l \notin Invoices \/ Spare(l)'
      BY <2>1
    <3> QED  BY <3>1, <3>2 DEF Chosen, Own
  <2>4. Prepared'
    BY <1>2, <2>2, <2>3 DEF Prepared
  <2> QED  BY <1>3, <1>4, <2>4
<1> QED  BY <1>1, <1>6, <1>7

\* Reads after which nothing new is taken.
LEMMA ReadsKeep ==
  ASSUME DemoInv, UNCHANGED deaths,
         \/ Start \/ CheckInvoices \/ ReadBond \/ AwaitWindow
         \/ \E n \in Lists : LookAgain(n) \/ CheckDuplicate(n) \/ Verify(n)
  PROVE  DemoInv'
<1> USE DEF DemoInv
<1>1. misreads' \in {misreads, misreads + 1} /\ UNCHANGED <<suite, lateCalls, deaths>>
  BY Scanned DEF Start, CheckInvoices, ReadBond, AwaitWindow, LookAgain, CheckDuplicate,
                 Verify, Reads
<1>2. demo = [f \in {"pc", "invoice", "id", "bond", "accused"} |-> demo[f]]
  BY DEF ProgramTypes
<1>3. ASSUME demo' = [f \in {"pc", "invoice", "id", "bond", "accused"} |-> demo'[f]],
             demo'.pc \in {"submit", "invoices"} \/ demo'.invoice \in Invoices,
             demo'.pc \notin {"predict", "initiate", "again"},
             Taking' => Taking /\ demo'.id = demo.id
      PROVE  DemoInv'
  <2>1. /\ SuiteTypes' /\ LateTypes' /\ CountTypes' /\ Counted' /\ HasFirst'
    BY <1>1, <1>3, PlainTurn
  <2>2. ProgramTypes'
    BY <1>1, <1>3 DEF ProgramTypes, Ids
  <2> QED  BY <1>3, <2>1, <2>2, PlainPrepared
<1>4. CASE Throws
  BY <1>3, <1>4 DEF Throws, NoDemo, Invoices, Taking
<1>5. CASE Start \/ CheckInvoices
  <2>1. \/ demo' = [demo EXCEPT !.pc = "invoices"]
        \/ demo' = [demo EXCEPT !.pc = "find", !.invoice = "baseline"]
        \/ \E i : demo' = [demo EXCEPT !.pc = "submit", !.invoice = i]
    BY <1>5 DEF Start, CheckInvoices, Goes
  <2> QED  BY <1>2, <1>3, <2>1 DEF Taking, Invoices
<1>6. CASE ReadBond
  BY <1>2, <1>3, <1>6 DEF ReadBond, Taking, ProgramTypes
<1>7. CASE AwaitWindow
  BY <1>2, <1>3, <1>7 DEF AwaitWindow, Goes, Taking, ProgramTypes
<1>8. ASSUME NEW n \in Lists, LookAgain(n)
      PROVE  DemoInv'
  <2>1. demo.pc = "again" /\ demo.invoice \in Invoices /\ ~In(demo.id, "Initiated")
    BY <1>8 DEF LookAgain, ProgramTypes, Prepared, In
  <2>2. CASE Goes(CleanGoesOn(demo.id))
    <3>1. PICK pc \in {"execute", "window", "verify"} : demo' = [demo EXCEPT !.pc = pc]
      BY <2>1, <2>2 DEF Goes, CleanGoesOn
    <3> QED  BY <1>2, <1>3, <2>1, <3>1 DEF Taking
  <2> QED  BY <1>4, <1>8, <2>2 DEF LookAgain
<1>9. ASSUME NEW n \in Lists, CheckDuplicate(n)
      PROVE  DemoInv'
  <2>1. \/ Throws
        \/ \E pc \in {"challenge", "settle", "slash"} : demo' = [demo EXCEPT !.pc = pc]
        \/ demo' = [demo EXCEPT !.pc = "find", !.invoice = "clean"]
    BY <1>9 DEF CheckDuplicate, Goes
  <2>2. demo.invoice \in Invoices
    BY <1>9 DEF CheckDuplicate, ProgramTypes
  <2> QED  BY <1>2, <1>3, <1>4, <2>1, <2>2 DEF Taking, Invoices
<1>10. ASSUME NEW n \in Lists, Verify(n)
       PROVE  DemoInv'
  BY <1>4, <1>10 DEF Verify
<1> QED  BY <1>5, <1>6, <1>7, <1>8, <1>9, <1>10


-----------------------------------------------------------------------------
(* The calls, of this program and of others.                               *)

\* A step that loses no call.
LEMMA Unlost ==
  ASSUME DemoInv, UNCHANGED <<lateCalls, misreads, deaths>>, Ids \subseteq Ids'
  PROVE  LateTypes' /\ CountTypes' /\ Pays /\ LateInits' = LateInits /\ LatePosts' = LatePosts
<1> USE DEF DemoInv
<1>1. LateTypes' /\ LateInits' = LateInits /\ LatePosts' = LatePosts
  BY LateUnmoved
<1>2. Cardinality(LateInits) \in Nat
  BY Numbers DEF Countable
<1> QED  BY <1>1, <1>2 DEF Pays, CountTypes

\* The run's initiation: the action it predicted is its own, or another's.
LEMMA InitiationKeeps ==
  ASSUME DemoInv, UNCHANGED <<lateCalls, misreads, deaths>>, demo.pc = "initiate",
         SuiteTypes', Adds(demo.invoice), demo' = [demo EXCEPT !.pc = "price"]
  PROVE  DemoInv'
<1> USE DEF DemoInv
<1> DEFINE n == Len(suite.actions)
<1>1. PICK j \in Invoices, a \in 1..n + 1 : j = demo.invoice /\ a = demo.id
  BY DEF ProgramTypes, Prepared
<1>2. /\ n \in Nat /\ Len(suite'.actions) = n + 1
      /\ \A k \in Ids : suite'.actions[k] = suite.actions[k]
      /\ suite'.actions[n + 1].invoice = j
      /\ Adds(j)
  BY <1>1, Added
<1>3. Ids \subseteq Ids' /\ a \in Ids' /\ Ids = 1..n
  BY <1>1, <1>2 DEF Ids
<1>4. /\ LateTypes' /\ CountTypes' /\ Pays /\ LatePosts' = LatePosts
  BY <1>3, Unlost
<1> HIDE DEF n
<1>5. demo'.pc = "price" /\ demo'.invoice = j /\ demo'.id = a
      /\ demo' = [f \in {"pc", "invoice", "id", "bond", "accused"} |-> demo'[f]]
  BY <1>1 DEF ProgramTypes
<1>6. ProgramTypes' /\ Prepared'
  BY <1>3, <1>5 DEF ProgramTypes, Prepared
<1>7. \A k \in Aimed' : k = a \/ (k \in Aimed /\ k \in Ids)
  BY <1>4, <1>5 DEF Aimed, LateTypes
<1>8. IF a \in Ids THEN Chosen(a) ELSE Spare(j)
  BY <1>1 DEF Prepared
<1>9. ASSUME NEW i \in Invoices
      PROVE  Used(i)' <= 1 + misreads' + deaths'
  <2>1. Taken(i)' \subseteq Taken(i)
          \cup {k \in Aimed' : suite'.actions[k].invoice = i}
          \cup {k \in {n + 1} : j = i /\ \A l \in Ids : suite.actions[l].invoice # i}
    BY <1>2, AddedTaken DEF n
  <2>2. CASE j = i /\ \A l \in Ids : suite.actions[l].invoice # i
    <3>1. ASSUME NEW k \in Aimed', suite'.actions[k].invoice = i
          PROVE  k = n + 1
      <4>1. k \notin Ids
        BY <1>2, <2>2, <3>1
      <4>2. k = a
        BY <1>7, <4>1
      <4> QED  BY <1>1, <1>2, <1>3, <4>1, <4>2
    <3>2. Taken(i)' \subseteq {n + 1}
      BY <2>1, <2>2, <3>1, Untaken
    <3> QED  BY <1>4, <3>2, OnlyFirst
  <2>3. CASE ~(j = i /\ \A l \in Ids : suite.actions[l].invoice # i)
    <3>1. Taken(i)' \subseteq Taken(i) \cup {k \in {a} : suite'.actions[k].invoice = i}
      BY <1>2, <1>7, <2>1, <2>3, AimedTaken
    <3>2. CASE suite'.actions[a].invoice # i
      <4>1. Taken(i)' \subseteq Taken(i)
        BY <3>1, <3>2
      <4> QED  BY <1>4, <4>1, Calm DEF Holds
    <3>3. CASE suite'.actions[a].invoice = i
      <4>1. a \in Taken(i) \/ Spare(i)
        BY <1>1, <1>2, <1>3, <1>8, <3>3 DEF Chosen, Own
      <4> QED  BY <1>4, <3>1, <4>1, Gain
    <3> QED  BY <3>2, <3>3
  <2> QED  BY <2>2, <2>3
<1>10. Counted'
  <2>1. Cardinality(LateInits') <= deaths'
    BY <1>4, LateCounted
  <2> QED  BY <1>9, <2>1 DEF Counted
<1>11. HasFirst'
  BY <1>2, AddedHasFirst
<1> QED  BY <1>4, <1>6, <1>10, <1>11

LEMMA CallContractKeeps ==
  ASSUME DemoInv, UNCHANGED deaths, CallContract
  PROVE  DemoInv'
<1> USE DEF DemoInv
<1>1. demo.pc \in Sending /\ UNCHANGED <<lateCalls, misreads, deaths>>
      /\ demo = [f \in {"pc", "invoice", "id", "bond", "accused"} |-> demo[f]]
  BY DEF CallContract, ProgramTypes
<1>2. CASE Throws /\ UNCHANGED suite
  <2>1. demo' = NoDemo
    BY <1>2 DEF Throws
  <2>2. /\ SuiteTypes' /\ LateTypes' /\ CountTypes' /\ Counted' /\ HasFirst'
    BY <1>1, <1>2, <2>1, PlainTurn DEF NoDemo, Taking
  <2>3. ProgramTypes' /\ Prepared'
    BY <2>1, PlainPrepared DEF ProgramTypes, NoDemo, Taking, Invoices
  <2> QED  BY <2>2, <2>3
<1>3. CASE Makes(Call) /\ demo' = Told
  <2>1. PICK c : c = Call
    OBVIOUS
  <2>2. /\ c.kind = (IF demo.pc \in {"slash", "refund"} THEN "resolve" ELSE demo.pc)
        /\ c.invoice = demo.invoice
        /\ demo.pc \in {"initiate", "post", "execute"} => c.id = demo.id
    BY <2>1 DEF Call
  <2>3. Typed(c)
    BY <2>2 DEF Typed, ProgramTypes, Taking
  <2>4. /\ SuiteTypes'
        /\ c.kind = "initiate" => Adds(c.invoice)
        /\ c.kind # "initiate" => Keeps(IF c.kind = "post" THEN c.id ELSE 0)
    BY <1>3, <2>1, <2>3, CallMoves
  <2>5. CASE demo.pc = "initiate"
    <3>1. demo' = [demo EXCEPT !.pc = "price"]
      BY <1>3, <2>5 DEF Told
    <3> QED  BY <1>1, <2>2, <2>4, <2>5, <3>1, InitiationKeeps
  <2>6. CASE demo.pc # "initiate"
    <3>1. PICK j : Keeps(j) /\ (j \in Ids => demo.pc = "post" /\ j = demo.id)
      <4>1. 0 \notin Ids
        BY ActionTyped DEF Ids
      <4> QED  BY <2>2, <2>4, <2>6, <4>1
    <3>2. Ids' = Ids
      BY <3>1 DEF Keeps, Ids
    <3>3. LateTypes' /\ CountTypes' /\ Pays /\ LatePosts' = LatePosts
      BY <1>1, <3>2, Unlost
    <3>4. /\ demo' = [f \in {"pc", "invoice", "id", "bond", "accused"} |-> demo'[f]]
          /\ demo'.pc = "invoices" \/ demo'.invoice \in Invoices
          /\ demo'.pc \notin {"predict", "initiate"}
          /\ Taking' => Taking /\ demo'.id = demo.id
          /\ demo'.pc = "again" => demo.pc = "execute" /\ demo'.id = demo.id
      <4>1. CASE demo.pc = "execute"
        <5>1. \/ demo' = [demo EXCEPT !.pc = "again"]
              \/ demo' = [NoDemo EXCEPT !.pc = "find", !.invoice = "duplicate"]
              \/ demo' = [NoDemo EXCEPT !.pc = "accuse", !.accused = demo.id]
          BY <1>3, <4>1 DEF Told, Follows, ProgramTypes, Invoices
        <5> QED  BY <1>1, <4>1, <5>1 DEF NoDemo, Invoices, Taking, ProgramTypes
      <4>2. CASE demo.pc = "post"
        <5>1. demo' = [demo EXCEPT !.pc = "execute", !.bond = 0]
          BY <1>3, <4>2 DEF Told
        <5> QED  BY <1>1, <4>2, <5>1 DEF Taking, ProgramTypes
      <4>3. CASE demo.pc = "slash"
        <5>1. demo' = [demo EXCEPT !.pc = "find", !.invoice = "clean"]
          BY <1>3, <4>3 DEF Told
        <5> QED  BY <1>1, <4>3, <5>1 DEF Taking, ProgramTypes, Invoices
      <4>4. CASE demo.pc = "submit"
        <5>1. demo' = [demo EXCEPT !.pc = "invoices"]
          BY <1>3, <4>4 DEF Told
        <5> QED  BY <1>1, <4>4, <5>1 DEF Taking
      <4>5. CASE demo.pc = "approve"
        <5>1. demo' = [demo EXCEPT !.pc = "post"]
          BY <1>3, <4>5 DEF Told
        <5> QED  BY <1>1, <4>5, <5>1 DEF Taking, ProgramTypes
      <4>6. CASE demo.pc = "challenge"
        <5>1. demo' = [demo EXCEPT !.pc = "settle"]
          BY <1>3, <4>6 DEF Told
        <5> QED  BY <1>1, <4>6, <5>1 DEF Taking, ProgramTypes
      <4>7. CASE demo.pc = "refund"
        <5>1. demo' = [demo EXCEPT !.pc = "verify"]
          BY <1>3, <4>7 DEF Told
        <5> QED  BY <1>1, <4>7, <5>1 DEF Taking, ProgramTypes
      <4> QED  BY <1>1, <2>6, <4>1, <4>2, <4>3, <4>4, <4>5, <4>6, <4>7 DEF Sending
    <3>5. j \in Ids => j \in Aimed
      BY <3>1 DEF Aimed, Taking
    <3>6. \A k \in Aimed' : k \in Aimed
      BY <3>2, <3>3, <3>4 DEF Aimed
    <3>7. Counted' /\ HasFirst'
      BY <2>4, <3>1, <3>3, <3>5, <3>6, KeptBooks
    <3>8. ProgramTypes'
      BY <3>2, <3>4 DEF ProgramTypes
    <3>9. Prepared'
      <4>1. ASSUME demo'.pc = "again"
            PROVE  demo'.id \in Ids' /\ suite'.actions[demo'.id].status # "Initiated"
        <5>1. c.kind = "execute" /\ c.id = demo.id /\ demo'.id = demo.id
          BY <2>2, <3>4, <4>1
        <5>2. demo.id \in Ids /\ suite.actions[demo.id].status = "Bonded"
          BY <1>3, <2>1, <5>1 DEF Makes, Accepts, In
        <5> QED  BY <3>1, <3>2, <5>1, <5>2 DEF Keeps
      <4> QED  BY <3>4, <4>1 DEF Prepared
    <3> QED  BY <2>4, <3>3, <3>7, <3>8, <3>9
  <2> QED  BY <2>5, <2>6
<1> QED  BY <1>2, <1>3 DEF CallContract


\* The program stands still, and others move.
LEMMA StillAimed ==
  ASSUME ProgramTypes, LateTypes, UNCHANGED demo, LatePosts' \subseteq LatePosts
  PROVE  Aimed' \subseteq Aimed
BY DEF Aimed, ProgramTypes, LateTypes, Taking

LEMMA StandingKeeps ==
  ASSUME DemoInv, SuiteTypes', LateTypes', CountTypes', Pays,
         UNCHANGED demo, LatePosts' \subseteq LatePosts,
         NEW j, Keeps(j), j \in Ids => j \in Aimed
  PROVE  DemoInv'
<1> USE DEF DemoInv
<1>1. \A k \in Aimed' : k \in Aimed
  BY StillAimed
<1>2. Counted' /\ HasFirst' /\ \A i \in Invoices : Holds(i)
  BY <1>1, KeptBooks
<1>3. ProgramTypes' /\ Prepared'
  BY <1>2, StillPrepared
<1> QED  BY <1>2, <1>3

LEMMA AdditionKeeps ==
  ASSUME DemoInv, SuiteTypes', LateTypes', CountTypes', Pays,
         UNCHANGED demo, LatePosts' \subseteq LatePosts,
         NEW j \in Invoices \cup {"other"}, Adds(j),
         \/ j = "other" \/ Spare(j)'
         \/ demo.pc = "initiate" /\ demo.invoice = j
  PROVE  DemoInv'
<1> USE DEF DemoInv
<1> DEFINE n == Len(suite.actions)
<1>1. Aimed' \subseteq Aimed
  BY StillAimed
<1>2. /\ Counted' /\ HasFirst'
      /\ \A i \in Invoices :
           i # j \/ (\E k \in Ids : suite.actions[k].invoice = i) => Holds(i)
      /\ \A i \in Invoices :
           i = j /\ (\A k \in Ids : suite.actions[k].invoice # i) => n + 1 \in Taken(i)'
  BY <1>1, AddedBooks
<1>3. /\ n \in Nat /\ Len(suite'.actions) = n + 1
      /\ \A k \in Ids : suite'.actions[k] = suite.actions[k]
      /\ suite'.actions[n + 1].invoice = j
  BY Added
<1>4. Ids = 1..n /\ Ids' = 1..n + 1 /\ Ids \subseteq Ids' /\ n + 1 \in Ids'
  BY <1>3 DEF Ids
<1> HIDE DEF n
<1>5. ProgramTypes'
  BY <1>4 DEF ProgramTypes, Taking
<1>6. demo.pc = "predict" => Spare(demo.invoice)'
  <2> SUFFICES ASSUME demo.pc = "predict"  PROVE Spare(demo.invoice)'
    OBVIOUS
  <2>1. PICK i \in Invoices : i = demo.invoice
    BY DEF ProgramTypes
  <2>2. Spare(i)
    BY <2>1 DEF Prepared
  <2>3. Spare(i)'
    <3>1. CASE i # j
      BY <1>2, <2>2, <3>1 DEF Holds
    <3>2. CASE i = j
      BY <3>2 DEF Invoices
    <3> QED  BY <3>1, <3>2
  <2> QED  BY <2>1, <2>3
<1>7. ASSUME demo.pc = "initiate"
      PROVE  demo.id \in 1..Len(suite'.actions) + 1 /\ demo.id \in Ids' /\ Chosen(demo.id)'
  <2>1. demo.id \in 1..n + 1 /\ demo.id \in Ids'
    BY <1>4, <1>7 DEF Prepared, n
  <2>2. CASE demo.id \in Ids
    <3>1. PICK i : i = suite.actions[demo.id].invoice
      OBVIOUS
    <3>2. i \notin Invoices \/ demo.id \in Taken(i) \/ Spare(i)
      BY <1>7, <2>2, <3>1 DEF Prepared, Chosen, Own
    <3>3. i \notin Invoices \/ demo.id \in Taken(i)' \/ Spare(i)'
      BY <1>2, <2>2, <3>1, <3>2 DEF Holds
    <3>4. i = suite'.actions[demo'.id].invoice
      BY <1>3, <2>2, <3>1
    <3>5. Chosen(demo.id)'
      BY <3>3, <3>4 DEF Chosen, Own
    <3> QED  BY <1>3, <2>1, <3>5
  <2>3. CASE demo.id \notin Ids
    <3>1. demo.id = n + 1
      BY <1>3, <1>4, <2>1, <2>3
    <3>2. Spare(demo.invoice) /\ demo.invoice \in Invoices
      BY <1>7, <2>3 DEF Prepared, ProgramTypes
    <3>3. j \notin Invoices \/ demo.id \in Taken(j)' \/ Spare(j)'
      <4>1. CASE j = "other"
        BY <4>1 DEF Invoices
      <4>2. CASE demo.invoice = j
        <5>1. Spare(j)
          BY <3>2, <4>2
        <5> QED  BY <1>2, <3>1, <3>2, <4>2, <5>1 DEF Holds
      <4> QED  BY <4>1, <4>2
    <3>4. j = suite'.actions[demo'.id].invoice
      BY <1>3, <3>1
    <3>5. Chosen(demo.id)'
      BY <3>3, <3>4 DEF Chosen, Own
    <3> QED  BY <1>3, <2>1, <3>5
  <2> QED  BY <2>2, <2>3
<1>8. demo.pc = "again" => demo.id \in Ids' /\ suite'.actions[demo.id].status # "Initiated"
  BY <1>3, <1>4 DEF Prepared
<1>9. Prepared'
  BY <1>6, <1>7, <1>8 DEF Prepared
<1> QED  BY <1>2, <1>5, <1>9

\* A call that changes nothing that counts, or moves the actions by a call
\* that bonds none and adds none of the demo's.
LEMMA OtherCallKeeps ==
  ASSUME DemoInv, UNCHANGED <<demo, lateCalls, misreads, deaths>>, NEW c, Makes(c),
         c.kind # "post",
         c.kind = "initiate" =>
           \/ c.invoice = "other"
           \/ demo.pc = "initiate" /\ c.invoice = demo.invoice
  PROVE  DemoInv'
<1> USE DEF DemoInv
<1>1. Typed(c)
  BY DEF Typed, ProgramTypes
<1>2. /\ SuiteTypes'
      /\ c.kind = "initiate" => Adds(c.invoice)
      /\ c.kind # "initiate" => Keeps(0)
  BY <1>1, CallMoves
<1>3. CASE c.kind = "initiate"
  <2>1. PICK j \in Invoices \cup {"other"} : j = c.invoice
    BY <1>1, <1>3 DEF Typed
  <2>2. Adds(j)
    BY <1>2, <1>3, <2>1
  <2>3. Ids \subseteq Ids'
    BY <2>2, Added DEF Ids
  <2>4. LateTypes' /\ CountTypes' /\ Pays /\ LatePosts' = LatePosts
    BY <2>3, Unlost
  <2> QED  BY <1>2, <1>3, <2>1, <2>2, <2>4, AdditionKeeps
<1>4. CASE c.kind # "initiate"
  <2>1. Keeps(0) /\ 0 \notin Ids
    BY <1>2, <1>4, ActionTyped DEF Ids
  <2>2. Ids \subseteq Ids'
    BY <2>1 DEF Keeps, Ids
  <2>3. LateTypes' /\ CountTypes' /\ Pays /\ LatePosts' = LatePosts
    BY <2>2, Unlost
  <2> QED  BY <1>2, <2>1, <2>3, StandingKeeps
<1> QED  BY <1>3, <1>4

LEMMA RepeatKeeps ==
  ASSUME DemoInv, UNCHANGED deaths, CallRepeated
  PROVE  DemoInv'
<1> USE DEF DemoInv
<1>1. UNCHANGED <<demo, lateCalls, misreads, deaths>> /\ Makes(Call)
  BY DEF CallRepeated
<1>2. PICK c : c = Call
  OBVIOUS
<1>3. /\ c.kind = (IF demo.pc \in {"slash", "refund"} THEN "resolve" ELSE demo.pc)
      /\ c.invoice = demo.invoice
      /\ demo.pc = "post" => c.id = demo.id
  BY <1>2 DEF Call
<1>4. CASE c.kind # "post"
  BY <1>1, <1>2, <1>3, <1>4, OtherCallKeeps
<1>5. CASE c.kind = "post"
  <2>1. demo.pc = "post" /\ c.id = demo.id /\ c.id \in Ids /\ c.id \in Aimed
    BY <1>3, <1>5 DEF ProgramTypes, Taking, Aimed
  <2>2. SuiteTypes' /\ Keeps(c.id)
    BY <1>1, <1>2, <1>5, <2>1, CallMoves DEF Typed
  <2>3. Ids \subseteq Ids'
    BY <2>2 DEF Keeps, Ids
  <2>4. LateTypes' /\ CountTypes' /\ Pays /\ LatePosts' = LatePosts
    BY <1>1, <2>3, Unlost
  <2> QED  BY <1>1, <2>1, <2>2, <2>4, StandingKeeps
<1> QED  BY <1>4, <1>5

LEMMA LateCallKeeps ==
  ASSUME DemoInv, UNCHANGED deaths, NEW c \in lateCalls, LateCall(c)
  PROVE  DemoInv'
<1> USE DEF DemoInv
<1>1. /\ lateCalls' = lateCalls \ {c} /\ UNCHANGED <<demo, misreads, deaths>>
      /\ Makes(c) \/ UNCHANGED suite
  BY DEF LateCall, Makes
<1>2. /\ LateInits' = LateInits \ {c}
      /\ LatePosts' \subseteq LatePosts
      /\ IsFiniteSet(LateInits) /\ IsFiniteSet(lateCalls')
  <2>1. IsFiniteSet(LateInits) /\ IsFiniteSet(lateCalls')
    BY <1>1, FS_Subset DEF LateTypes, LateInits
  <2> QED  BY <1>1, <2>1 DEF LateInits, LatePosts
<1>3. /\ Cardinality(LateInits) \in Nat
      /\ c \in LateInits => Cardinality(LateInits') = Cardinality(LateInits) - 1
      /\ c \notin LateInits => LateInits' = LateInits
  BY <1>2, FS_RemoveElement, FS_CardinalityType
<1>4. CountTypes' /\ Pays
  BY <1>1, <1>3 DEF CountTypes, Pays
<1>5. Typed(c) /\ (c.kind = "post" => c.id \in Aimed)
  BY DEF Typed, LateTypes, LateInits, LatePosts, Aimed
<1>6. Ids \subseteq Ids' => LateTypes'
  BY <1>2 DEF LateTypes
<1>7. CASE UNCHANGED suite
  <2>1. SuiteTypes' /\ Keeps(0) /\ Ids' = Ids /\ 0 \notin Ids
    BY <1>7, Unmoved, ActionTyped DEF Ids
  <2> QED  BY <1>1, <1>2, <1>4, <1>6, <2>1, StandingKeeps
<1>8. CASE Makes(c)
  <2>1. /\ SuiteTypes'
        /\ c.kind = "initiate" => Adds(c.invoice)
        /\ c.kind # "initiate" => Keeps(IF c.kind = "post" THEN c.id ELSE 0)
    BY <1>5, <1>8, CallMoves
  <2>2. CASE c.kind # "initiate"
    <3>1. PICK j : Keeps(j) /\ (j \in Ids => j \in Aimed)
      <4>1. 0 \notin Ids
        BY ActionTyped DEF Ids
      <4> QED  BY <1>5, <2>1, <2>2, <4>1
    <3>2. Ids \subseteq Ids'
      BY <3>1 DEF Keeps, Ids
    <3> QED  BY <1>1, <1>2, <1>4, <1>6, <2>1, <3>1, <3>2, StandingKeeps
  <2>3. CASE c.kind = "initiate"
    <3>1. PICK j \in Invoices : j = c.invoice
      BY <2>3 DEF LateTypes, LateInits
    <3>2. Adds(j)
      BY <2>1, <2>3, <3>1
    <3>3. Ids \subseteq Ids'
      BY <3>2, Added DEF Ids
    <3>4. Aimed' \subseteq Aimed
      BY <1>1, <1>2, StillAimed
    <3>5. LateTypes'
      BY <1>6, <3>3
    <3>6. Taken(j)' \subseteq Taken(j) \/ Taken(j)' \subseteq {Len(suite.actions) + 1}
      BY <1>4, <2>1, <3>2, <3>4, <3>5, AddedBooks
    <3>7. Cardinality(LateInits') + 1 <= Cardinality(LateInits)
      BY <1>3, <2>3 DEF LateInits
    <3>8. Spare(j)'
      BY <1>1, <1>4, <2>1, <3>5, <3>6, <3>7, LateSpares
    <3> QED  BY <1>1, <1>2, <1>4, <2>1, <3>2, <3>5, <3>8, AdditionKeeps
  <2> QED  BY <2>2, <2>3
<1> QED  BY <1>1, <1>7, <1>8


LEMMA SurroundingsKeep ==
  ASSUME DemoInv, UNCHANGED deaths, Surroundings
  PROVE  DemoInv'
<1> USE DEF DemoInv
<1>1. ASSUME NEW c \in lateCalls, LateCall(c)
      PROVE  DemoInv'
  BY <1>1, LateCallKeeps
<1>2. ASSUME NEW k \in Ids, OthersCall(k)
      PROVE  DemoInv'
  <2>1. PICK kind \in {"challenge", "resolve"} :
          Makes([kind |-> kind, invoice |-> "clean", id |-> k, bond |-> 0])
    BY <1>2 DEF OthersCall
  <2>2. PICK c : c = [kind |-> kind, invoice |-> "clean", id |-> k, bond |-> 0]
    OBVIOUS
  <2>3. Makes(c) /\ c.kind \notin {"post", "initiate"}
    BY <2>1, <2>2
  <2>4. UNCHANGED <<demo, lateCalls, misreads, deaths>>
    BY <1>2 DEF OthersCall
  <2> QED  BY <2>3, <2>4, OtherCallKeeps
<1>3. CASE RunAgent
  <2>1. PICK c : c = [kind |-> "initiate", invoice |-> "other", id |-> 0, bond |-> 0]
    OBVIOUS
  <2>2. /\ Makes(c) /\ c.kind = "initiate" /\ c.invoice = "other"
        /\ UNCHANGED <<demo, lateCalls, misreads, deaths>>
    BY <1>3, <2>1 DEF RunAgent
  <2> QED  BY <2>2, OtherCallKeeps
<1>4. ASSUME NEW k \in Ids, WindowEnds(k)
      PROVE  DemoInv'
  <2>1. UNCHANGED <<suite, demo, lateCalls, misreads, deaths>>
    BY <1>4 DEF WindowEnds
  <2>2. SuiteTypes' /\ Keeps(0) /\ Ids' = Ids /\ 0 \notin Ids
    BY <2>1, Unmoved, ActionTyped DEF Ids
  <2>3. LateTypes' /\ CountTypes' /\ Pays /\ LatePosts' = LatePosts
    BY <2>1, <2>2, Unlost
  <2> QED  BY <2>1, <2>2, <2>3, StandingKeeps
<1> QED  BY <1>1, <1>2, <1>3, <1>4 DEF Surroundings

\* The program is not told; its call, if it initiates, is counted as late.
LEMMA LossKeeps ==
  ASSUME DemoInv, CallLost
  PROVE  DemoInv'
<1> USE DEF DemoInv
<1>1. /\ UNCHANGED <<suite, misreads>> /\ deaths' = deaths + 1 /\ demo' = NoDemo
      /\ demo.pc \in Sending
  BY DEF CallLost, Throws
<1>2. PICK c : c = Call /\ (lateCalls' = lateCalls \/ lateCalls' = lateCalls \cup {c})
  BY DEF CallLost
<1>3. /\ c.kind = "initiate" => c.invoice \in Invoices
      /\ c.kind = "post" => c.id \in Aimed /\ c.id \in Ids
  <2>1. /\ c.kind = (IF demo.pc \in {"slash", "refund"} THEN "resolve" ELSE demo.pc)
        /\ c.invoice = demo.invoice
        /\ demo.pc = "post" => c.id = demo.id
    BY <1>2 DEF Call
  <2> QED  BY <2>1 DEF ProgramTypes, Taking, Aimed
<1>4. SuiteTypes' /\ Keeps(0) /\ Ids' = Ids /\ 0 \notin Ids
  BY <1>1, Unmoved, ActionTyped DEF Ids
<1>5. /\ LateInits' = LateInits \/ LateInits' = LateInits \cup {c}
      /\ \A k \in LatePosts' : k \in LatePosts \/ (c.kind = "post" /\ k = c.id)
      /\ \A d \in LateInits' : d \in LateInits \/ (d = c /\ c.kind = "initiate")
  <2>1. CASE c.kind = "initiate"
    BY <1>2, <2>1 DEF LateInits, LatePosts
  <2>2. CASE c.kind # "initiate"
    BY <1>2, <2>2 DEF LateInits, LatePosts
  <2> QED  BY <2>1, <2>2
<1>6. IsFiniteSet(lateCalls') /\ IsFiniteSet(LateInits) /\ Cardinality(LateInits) \in Nat
  <2>1. IsFiniteSet(lateCalls) /\ IsFiniteSet(LateInits)
    BY FS_Subset DEF LateTypes, LateInits
  <2>2. IsFiniteSet(lateCalls \cup {c})
    BY <2>1, FS_AddElement
  <2> QED  BY <1>2, <2>1, <2>2, FS_CardinalityType
<1>7. LateTypes'
  BY <1>3, <1>4, <1>5, <1>6 DEF LateTypes
<1>8. CountTypes' /\ Pays
  <2>1. Cardinality(LateInits \cup {c}) \in {Cardinality(LateInits), Cardinality(LateInits) + 1}
    BY <1>6, FS_AddElement
  <2>2. Cardinality(LateInits') \in {Cardinality(LateInits), Cardinality(LateInits) + 1}
    BY <1>5, <2>1
  <2> QED  BY <1>1, <1>6, <2>2 DEF CountTypes, Pays
<1>9. demo'.pc = "none" /\ demo'.invoice \in Invoices
      /\ demo' = [f \in {"pc", "invoice", "id", "bond", "accused"} |-> demo'[f]]
  BY <1>1 DEF NoDemo, Invoices
<1>10. \A k \in Aimed' : k \in Aimed
  BY <1>3, <1>4, <1>5, <1>9 DEF Aimed, Taking
<1>11. Counted' /\ HasFirst'
  BY <1>4, <1>7, <1>8, <1>10, KeptBooks
<1>12. ProgramTypes' /\ Prepared'
  BY <1>9, PlainPrepared DEF ProgramTypes, Taking
<1> QED  BY <1>4, <1>7, <1>8, <1>11, <1>12

\* The scripts of the deployment touch nothing of the demo, and add deaths.
LEMMA DeploymentKeeps ==
  ASSUME DemoInv, UNCHANGED demoVars, deaths' \in {deaths, deaths + 1}
  PROVE  DemoInv'
<1> USE DEF DemoInv
<1>1. UNCHANGED <<suite, demo, lateCalls, misreads>>
  BY DEF demoVars
<1>2. SuiteTypes' /\ Keeps(0) /\ Ids' = Ids /\ 0 \notin Ids
  BY <1>1, Unmoved, ActionTyped DEF Ids
<1>3. LateTypes' /\ LateInits' = LateInits /\ LatePosts' = LatePosts
  BY <1>1, <1>2, LateUnmoved
<1>4. Cardinality(LateInits) \in Nat
  BY Numbers DEF Countable
<1>5. CountTypes' /\ Pays
  BY <1>1, <1>3, <1>4 DEF CountTypes, Pays
<1> QED  BY <1>1, <1>2, <1>3, <1>5, StandingKeeps

LEMMA DemoInitially == DemoInit => DemoInv
<1> SUFFICES ASSUME DemoInit  PROVE DemoInv
  OBVIOUS
<1>1. /\ suite = [submitted |-> {}, actions |-> <<>>, score |-> 0, allowance |-> 0]
      /\ demo = NoDemo /\ lateCalls = {} /\ misreads = 0 /\ deaths = 0
  BY DEF DemoInit, WiringInit
<1>2. suite.actions = <<>> /\ suite.actions \in Seq(Action) /\ Len(suite.actions) = 0
  BY <1>1, EmptySeq
<1>3. Ids = {}
  BY <1>2 DEF Ids
<1>4. SuiteTypes
  BY <1>1, <1>2 DEF SuiteTypes
<1>5. ProgramTypes /\ Prepared
  BY <1>1 DEF ProgramTypes, Prepared, NoDemo, Taking, Invoices
<1>6. LateInits = {} /\ LatePosts = {}
  BY <1>1 DEF LateInits, LatePosts
<1>7. LateTypes /\ CountTypes
  BY <1>1, <1>6, FS_EmptySet DEF LateTypes, CountTypes
<1>8. Cardinality(LateInits) = 0
  BY <1>6, FS_EmptySet
<1>9. Counted
  <2>1. ASSUME NEW i \in Invoices
        PROVE  Used(i) <= 1 + misreads + deaths
    <3>1. Taken(i) = {}
      BY <1>3 DEF Taken
    <3>2. Cardinality(Taken(i)) = 0
      BY <3>1, FS_EmptySet
    <3> QED  BY <1>1, <1>8, <3>2 DEF Used
  <2> QED  BY <1>1, <1>8, <2>1 DEF Counted
<1>10. HasFirst
  BY <1>3 DEF HasFirst
<1> QED  BY <1>4, <1>5, <1>7, <1>9, <1>10 DEF DemoInv

LEMMA DemoKeeps ==
  ASSUME DemoInv, [DemoNext]_allVars
  PROVE  DemoInv'
<1>1. CASE WiringNext /\ UNCHANGED demoVars
  <2>1. deaths' \in {deaths, deaths + 1}
    BY <1>1 DEF WiringNext, StartDeploy, StartWire, ScriptStep, Install, CallSucceeds, CallReverts,
                Serve, InstallFails, CallUnanswered, WireLands
  <2> QED  BY <1>1, <2>1, DeploymentKeeps
<1>2. CASE DemoStep /\ UNCHANGED deaths
  <2>1. CASE CallContract
    BY <1>2, <2>1, CallContractKeeps
  <2>2. ASSUME NEW n \in Lists, FindAction(n) \/ Predict(n)
        PROVE  DemoInv'
    BY <1>2, <2>2, FindKeeps, PredictKeeps
  <2>3. CASE \/ Start \/ CheckInvoices \/ ReadBond \/ AwaitWindow
             \/ \E n \in Lists : LookAgain(n) \/ CheckDuplicate(n) \/ Verify(n)
    BY <1>2, <2>3, ReadsKeep
  <2> QED  BY <1>2, <2>1, <2>2, <2>3 DEF DemoStep
<1>3. CASE CallRepeated /\ UNCHANGED deaths
  BY <1>3, RepeatKeeps
<1>4. CASE Surroundings /\ UNCHANGED deaths
  BY <1>4, SurroundingsKeep
<1>5. CASE CallLost
  BY <1>5, LossKeeps
<1>6. CASE UNCHANGED allVars
  BY <1>6, DeploymentKeeps DEF allVars
<1> QED  BY <1>1, <1>2, <1>3, <1>4, <1>5, <1>6 DEF DemoNext

\* The bonded actions of an invoice are among those taken.
LEMMA TakenBounds == DemoInv => OneBondPerInvoice
<1> SUFFICES ASSUME DemoInv, NEW i \in Invoices
             PROVE  Cardinality({k \in Ids : /\ suite.actions[k].invoice = i
                                             /\ suite.actions[k].status # "Initiated"})
                      <= 1 + misreads + deaths
  BY DEF OneBondPerInvoice
<1> DEFINE bonded == {k \in Ids : /\ suite.actions[k].invoice = i
                                  /\ suite.actions[k].status # "Initiated"}
<1>1. /\ Cardinality(LateInits) \in Nat /\ IsFiniteSet(Taken(i))
      /\ Cardinality(Taken(i)) \in Nat /\ misreads \in Nat /\ deaths \in Nat
  BY Numbers DEF DemoInv, Countable, CountTypes
<1>2. bonded \in SUBSET Taken(i)
  BY DEF Taken
<1>3. Cardinality(bonded) \in Nat /\ Cardinality(bonded) <= Cardinality(Taken(i))
  BY <1>1, <1>2, FS_Subset, FS_CardinalityType
<1>4. Cardinality(Taken(i)) + Cardinality(LateInits) <= 1 + misreads + deaths
  BY DEF DemoInv, Counted, Used
<1> HIDE DEF bonded
<1>5. Cardinality(bonded) <= 1 + misreads + deaths
  BY <1>1, <1>3, <1>4
<1> QED  BY <1>5 DEF bonded

(***************************************************************************)
(* However often demo.ts and seed.ts are run again, the demo bonds one     *)
(* action for an invoice, and at most one more for each scan of the chain  *)
(* that a failed read cuts short and for each call whose sender is not     *)
(* told: a run takes up the first action it finds (chainActions), or else  *)
(* initiates one under the id it predicts (executeBondedInvoice of casper  *)
(* /actions.ts).  It is so for every bound on the disturbances.            *)
(***************************************************************************)
THEOREM OneBondEach == DemoSpec => []OneBondPerInvoice
<1>1. DemoInv /\ [DemoNext]_allVars => DemoInv'
  BY DemoKeeps
<1> QED  BY <1>1, DemoInitially, TakenBounds, PTL DEF DemoSpec
===============================================================================
