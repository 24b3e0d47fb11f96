---------------------------- MODULE ServicesProofs ----------------------------
(***************************************************************************)
(* Proofs about the services and scripts that share no state: the hosted   *)
(* service's files, the payments before a quote, the rate limiters, the    *)
(* version 1 deployments, the slash scripts, and the idempotency keys and  *)
(* the budget of the operations.  Each part has its own inductive          *)
(* invariant, and its theorem is of its own specification.                 *)
(***************************************************************************)
EXTENDS Operations, Service, Payments, Assurance, SlashRuns, Redeploys,
        FiniteSetTheorems, SequenceTheorems, WellFoundedInduction, TLAPS

ServiceSpec == ServiceInit /\ [][ServiceNext]_serviceVars

-----------------------------------------------------------------------------
(* The files: once the script has linked a directory it stays linked until *)
(* the container is replaced, so the volume alone is ever written to.      *)

FileCounts == [DiskFiles -> Nat]

FilesInv ==
  /\ place \in [Directories -> {"none", "directory", "link"}]
  /\ written \in FileCounts
  /\ disk \in [container : FileCounts, volume : FileCounts]
  /\ disk.volume = written
  /\ children \in [Services -> {"none", "starting", "opening", "altering",
                                "ticking", "serving", "up"}]
  /\ (\E s \in Services : children[s] # "none") => boot = "running"
  /\ boot \in {".evidence", "seed", "running"} => place[".data"] = "link"
  /\ boot \in {"seed", "running"} => place[".evidence"] = "link"

LEMMA FilesInitially == ServiceInit => FilesInv
  BY DEF ServiceInit, FilesInv, FileCounts, Empty, AllDown, Directories,
         DiskFiles, Services

LEMMA ShutdownKeepsFiles ==
  ASSUME FilesInv, Shutdown, UNCHANGED <<place, disk, written>>
  PROVE  FilesInv'
  BY DEF FilesInv, Shutdown, AllDown, Services

\* A child moves on while the script waits for it.
LEMMA ChildKeepsFiles ==
  ASSUME FilesInv, NEW s \in Services, children[s] # "none",
         NEW state \in {"starting", "opening", "altering", "ticking",
                        "serving", "up"},
         Becomes(s, state), UNCHANGED <<place, disk, written, boot>>
  PROVE  FilesInv'
  BY DEF FilesInv, Becomes

LEMMA WriteKeepsFiles ==
  ASSUME FilesInv, boot \in {"seed", "running"}, NEW f \in DiskFiles, Writes(f),
         UNCHANGED place
  PROVE  /\ written' \in FileCounts
         /\ disk' \in [container : FileCounts, volume : FileCounts]
         /\ disk'.volume = written'
<1>1. Where(f) = "volume"
  BY DEF FilesInv, Where, DirectoryOf
<1>2. /\ disk' = [disk EXCEPT !.volume[f] = written[f] + 1]
      /\ written' = [written EXCEPT ![f] = @ + 1]
  BY <1>1 DEF Writes
<1> QED  BY <1>2 DEF FilesInv, FileCounts

LEMMA FilesStep ==
  ASSUME FilesInv, [ServiceNext]_serviceVars
  PROVE  FilesInv'
<1> USE DEF listenerVars
<1>1. CASE Started
  BY <1>1 DEF Started, BootStep, FilesInv
<1>2. CASE LinkIntoVolume(".data", ".evidence")
  <2>1. CASE place[".data"] = "directory"
    BY <1>2, <2>1 DEF LinkIntoVolume, FilesInv, FileCounts, Directories
  <2>2. CASE place[".data"] # "directory"
    BY <1>2, <2>2 DEF LinkIntoVolume, FilesInv, Directories
  <2> QED  BY <2>1, <2>2
<1>3. CASE LinkIntoVolume(".evidence", "seed")
  <2>1. CASE place[".evidence"] = "directory"
    BY <1>3, <2>1 DEF LinkIntoVolume, FilesInv, FileCounts, Directories
  <2>2. CASE place[".evidence"] # "directory"
    BY <1>3, <2>2 DEF LinkIntoVolume, FilesInv, Directories
  <2> QED  BY <2>1, <2>2
<1>4. CASE SeedDataFiles
  <2>1. /\ boot = "seed" /\ boot' = "running" /\ UNCHANGED place
        /\ children' = [s \in Services |-> "starting"]
    BY <1>4 DEF SeedDataFiles, BootStep
  <2>2. /\ written' \in FileCounts
        /\ disk' \in [container : FileCounts, volume : FileCounts]
        /\ disk'.volume = written'
    <3>1. CASE Writes("demo-decisions.json")
      BY <2>1, <3>1, WriteKeepsFiles DEF DiskFiles
    <3>2. CASE UNCHANGED <<disk, written>>
      BY <3>2 DEF FilesInv
    <3> QED  BY <1>4, <3>1, <3>2 DEF SeedDataFiles
  <2> QED  BY <2>1, <2>2 DEF FilesInv
<1>5. CASE \E s \in Services : ServiceStarts(s)
  <2>1. PICK s \in Services : ServiceStarts(s)
    BY <1>5
  <2>2. CASE BeginsOpening(s)
    BY <2>2, ChildKeepsFiles DEF BeginsOpening
  <2>3. CASE ReadsColumns(s)
    BY <2>3, ChildKeepsFiles DEF ReadsColumns, Prepared
  <2>4. CASE AltersTable(s)
    BY <2>4, ChildKeepsFiles, ShutdownKeepsFiles DEF AltersTable, Prepared
  <2> QED  BY <2>1, <2>2, <2>3, <2>4 DEF ServiceStarts
<1>6. CASE Probes
  BY <1>6, ChildKeepsFiles, ShutdownKeepsFiles DEF Probes, Services
<1>7. CASE Listens
  BY <1>7, ChildKeepsFiles DEF Listens, Services
<1>8. CASE Watches
  BY <1>8, ChildKeepsFiles DEF Watches, Services
<1>9. CASE \E f \in DiskFiles : Stores(f)
  <2>1. PICK f \in DiskFiles : Stores(f)
    BY <1>9
  <2>2. boot = "running" /\ Writes(f) /\ UNCHANGED <<place, boot, children>>
    BY <2>1 DEF Stores, FilesInv
  <2>3. /\ written' \in FileCounts
        /\ disk' \in [container : FileCounts, volume : FileCounts]
        /\ disk'.volume = written'
    BY <2>2, WriteKeepsFiles
  <2> QED  BY <2>2, <2>3 DEF FilesInv
<1>10. CASE PortIsFreed \/ NextEndpoint \/ EventHappens \/ Heartbeat
            \/ TimerFires \/ ServiceTicks \/ TickTakes \/ UNCHANGED serviceVars
  <2>1. UNCHANGED <<place, disk, written, boot, children>>
    BY <1>10 DEF PortIsFreed, NextEndpoint, EventHappens, Heartbeat,
                 TimerFires, ServiceTicks, TickTakes, serviceVars
  <2> QED  BY <2>1 DEF FilesInv
<1>11. CASE TickSucceeds
  <2>1. UNCHANGED <<place, disk, written, boot>>
    BY <1>11 DEF TickSucceeds
  <2>2. CASE children["listener"] = "ticking"
    BY <1>11, <2>1, <2>2, ChildKeepsFiles DEF TickSucceeds, Services
  <2>3. CASE children["listener"] # "ticking"
    BY <1>11, <2>1, <2>3 DEF TickSucceeds, FilesInv
  <2> QED  BY <2>2, <2>3
<1>12. CASE TickFails
  <2>1. UNCHANGED <<place, disk, written>>
    BY <1>12 DEF TickFails
  <2>2. CASE Shutdown
    BY <2>1, <2>2, ShutdownKeepsFiles
  <2>3. CASE UNCHANGED <<boot, children>>
    BY <2>1, <2>3 DEF FilesInv
  <2> QED  BY <1>12, <2>2, <2>3 DEF TickFails
<1>13. CASE ProcessEnds
  BY <1>13, ShutdownKeepsFiles DEF ProcessEnds
<1>14. CASE ContainerReplaced
  <2>1. /\ Shutdown /\ UNCHANGED written
        /\ place' \in [Directories -> {"none", "directory"}]
        /\ disk' = [disk EXCEPT !.container = Empty]
    BY <1>14 DEF ContainerReplaced
  <2>2. Empty \in FileCounts
    BY DEF Empty, FileCounts
  <2>3. disk' \in [container : FileCounts, volume : FileCounts]
        /\ disk'.volume = written'
    BY <2>1, <2>2 DEF FilesInv
  <2>4. place' \in [Directories -> {"none", "directory", "link"}]
    BY <2>1
  <2> QED  BY <2>1, <2>3, <2>4 DEF Shutdown, AllDown, FilesInv
<1> QED
  BY <1>1, <1>2, <1>3, <1>4, <1>5, <1>6, <1>7, <1>8, <1>9, <1>10, <1>11,
     <1>12, <1>13, <1>14 DEF ServiceNext, ScriptRuns

(* A running service finds every file as it was last written, by whichever *)
(* container: where a child runs, both directories are links.              *)
THEOREM FilesAlwaysLatest == ServiceSpec => []FilesAreLatest
<1>1. FilesInv => FilesAreLatest
  BY DEF FilesInv, FilesAreLatest, Where, DirectoryOf
<1> QED  BY <1>1, FilesInitially, FilesStep, PTL DEF ServiceSpec

-----------------------------------------------------------------------------
(* The payments: a transfer has one quote at most, settled before it, and  *)
(* the quote's status says how many actions were bonded with the transfer  *)
(* and whether one was answered.                                           *)

PaymentsSpec == PaymentsInit /\ [][PaymentsNext]_paymentVars

Requests ==
  [transfer : Transfers, valid : BOOLEAN,
   pc : {"settling", "quoting", "required", "quoted", "failed"}, bond : Nat]

AskedOK ==
  /\ asked \in Seq(Requests)
  /\ \A r \in DOMAIN asked :
       asked[r].pc = "quoting" => asked[r].transfer \in settled

Statuses == {"paid", "consuming", "bonded", "stuck", "consumed"}

QuotedOK ==
  /\ quotes \subseteq [transfer : Transfers, bond : Nat, status : Statuses]
  /\ \A q \in quotes : q.transfer \in settled
  /\ \A p, q \in quotes : p.transfer = q.transfer => p = q

Accounts == [bonded : Nat, late : Nat, answered : Nat]

\* The actions bonded with the transfer of a quote of that status.
AccountOK(a, status) ==
  /\ a.answered <= 1 /\ a.bonded <= a.late + 1
  /\ status # "consumed" => a.answered = 0
  /\ status \in {"paid", "consuming"} => a.bonded <= a.late

ActedOK ==
  /\ acted \in [Transfers -> Accounts]
  /\ \A q \in quotes : AccountOK(acted[q.transfer], q.status)
  /\ \A t \in Transfers :
       (\A q \in quotes : q.transfer # t) => AccountOK(acted[t], "paid")

PaymentsInv == score \in Nat /\ AskedOK /\ QuotedOK /\ ActedOK

LEMMA PaymentsInitially == PaymentsInit => PaymentsInv
<1> SUFFICES ASSUME PaymentsInit PROVE PaymentsInv
  OBVIOUS
<1>1. asked \in Seq(Requests)
  BY EmptySeq DEF PaymentsInit
<1>2. DOMAIN asked = {}
  BY EmptySeq DEF PaymentsInit
<1>3. QuotedOK
  BY DEF PaymentsInit, QuotedOK
<1>4. ActedOK
  BY DEF PaymentsInit, ActedOK, Accounts, AccountOK
<1> QED  BY <1>1, <1>2, <1>3, <1>4 DEF PaymentsInit, PaymentsInv, AskedOK

LEMMA RequestAt ==
  ASSUME AskedOK, NEW r \in DOMAIN asked
  PROVE  asked[r] \in Requests
<1>1. DOMAIN asked = 1..Len(asked)
  BY LenProperties DEF AskedOK
<1> QED  BY <1>1, ElementOfSeq DEF AskedOK

LEMMA AskKeeps ==
  ASSUME AskedOK, NEW t \in Transfers, NEW valid \in BOOLEAN, Ask(t, valid),
         UNCHANGED settled
  PROVE  AskedOK'
<1> DEFINE new == [transfer |-> t, valid |-> valid, pc |-> "settling", bond |-> 0]
<1>1. new \in Requests /\ new.pc = "settling" /\ asked' = Append(asked, new)
  BY DEF Requests, Ask
<1> HIDE DEF new
<1>2. /\ asked' \in Seq(Requests) /\ Len(asked') = Len(asked) + 1
      /\ \A r \in 1..Len(asked) : asked'[r] = asked[r]
      /\ asked'[Len(asked) + 1] = new /\ Len(asked) \in Nat
      /\ DOMAIN asked = 1..Len(asked) /\ DOMAIN asked' = 1..Len(asked')
  BY <1>1, AppendProperties, LenProperties DEF AskedOK
<1>3. \A r \in DOMAIN asked' : r \in DOMAIN asked \/ r = Len(asked) + 1
  BY <1>2
<1> QED  BY <1>1, <1>2, <1>3 DEF AskedOK

\* A request goes on; where it is to be quoted, its transfer is settled.
LEMMA RequestMoves ==
  ASSUME AskedOK, NEW r \in DOMAIN asked, NEW a \in Requests,
         a.transfer = asked[r].transfer, asked' = [asked EXCEPT ![r] = a],
         settled \subseteq settled',
         a.pc = "quoting" => a.transfer \in settled'
  PROVE  AskedOK'
<1>1. DOMAIN asked = 1..Len(asked)
  BY LenProperties DEF AskedOK
<1>2. asked' \in Seq(Requests) /\ DOMAIN asked' = DOMAIN asked
  BY <1>1, ExceptSeq DEF AskedOK
<1>3. \A k \in DOMAIN asked : asked'[k] = IF k = r THEN a ELSE asked[k]
  BY <1>1 DEF AskedOK
<1> QED  BY <1>2, <1>3 DEF AskedOK

LEMMA RequestGoes ==
  ASSUME AskedOK, NEW r \in DOMAIN asked,
         NEW pc \in {"quoting", "required", "failed"}, Goes(r, pc),
         settled \subseteq settled',
         pc = "quoting" => asked[r].transfer \in settled'
  PROVE  AskedOK'
<1> DEFINE a == [asked[r] EXCEPT !.pc = pc]
<1>1. asked[r] \in Requests
  BY RequestAt
<1>2. a \in Requests /\ a.transfer = asked[r].transfer /\ a.pc = pc
  BY <1>1 DEF Requests
<1>3. asked' = [asked EXCEPT ![r] = a]
  BY DEF Goes
<1> HIDE DEF a
<1> QED  BY <1>2, <1>3, RequestMoves

LEMMA QuotedFrame ==
  ASSUME QuotedOK, settled \subseteq settled', UNCHANGED quotes
  PROVE  QuotedOK'
  BY DEF QuotedOK

\* A quote moves, and with it the account of its transfer.
LEMMA MoveKeeps ==
  ASSUME QuotedOK, ActedOK, NEW q, NEW from, NEW to \in Statuses,
         QuoteMoves(q, from, to), UNCHANGED settled, NEW a \in Accounts,
         acted' = [acted EXCEPT ![q.transfer] = a], AccountOK(a, to)
  PROVE  QuotedOK' /\ ActedOK'
<1> DEFINE moved == [q EXCEPT !.status = to]
<1>1. q \in quotes /\ quotes' = (quotes \ {q}) \cup {moved}
  BY DEF QuoteMoves, Marked
<1>2. /\ q \in [transfer : Transfers, bond : Nat, status : Statuses]
      /\ moved \in [transfer : Transfers, bond : Nat, status : Statuses]
      /\ moved.transfer = q.transfer /\ moved.status = to
  BY <1>1 DEF QuotedOK
<1> HIDE DEF moved
<1>3. QuotedOK'
  BY <1>1, <1>2 DEF QuotedOK
<1>4. /\ acted' \in [Transfers -> Accounts] /\ acted'[q.transfer] = a
      /\ \A t \in Transfers : t # q.transfer => acted'[t] = acted[t]
  BY <1>2 DEF ActedOK
<1>5. \A p \in quotes' : AccountOK(acted'[p.transfer], p.status)
  <2> SUFFICES ASSUME NEW p \in quotes'
               PROVE  AccountOK(acted'[p.transfer], p.status)
    OBVIOUS
  <2>1. CASE p = moved
    BY <1>2, <1>4, <2>1
  <2>2. CASE p \in quotes /\ p # q
    <3>1. p.transfer # q.transfer /\ p.transfer \in Transfers
      BY <1>1, <2>2 DEF QuotedOK
    <3> QED  BY <1>4, <2>2, <3>1 DEF ActedOK
  <2> QED  BY <1>1, <2>1, <2>2
<1>6. \A t \in Transfers :
        (\A p \in quotes' : p.transfer # t) => AccountOK(acted'[t], "paid")
  <2> SUFFICES ASSUME NEW t \in Transfers, \A p \in quotes' : p.transfer # t
               PROVE  AccountOK(acted'[t], "paid")
    OBVIOUS
  <2>1. t # q.transfer /\ \A p \in quotes : p.transfer # t
    BY <1>1, <1>2
  <2> QED  BY <1>4, <2>1 DEF ActedOK
<1> QED  BY <1>3, <1>4, <1>5, <1>6 DEF ActedOK

LEMMA AccountAt ==
  ASSUME QuotedOK, ActedOK, NEW q \in quotes
  PROVE  /\ q.transfer \in Transfers /\ q.status \in Statuses
         /\ acted[q.transfer] \in Accounts
         /\ AccountOK(acted[q.transfer], q.status)
  BY DEF QuotedOK, ActedOK

LEMMA ReserveKeeps ==
  ASSUME QuotedOK, ActedOK, NEW q, Reserves(q), UNCHANGED settled
  PROVE  QuotedOK' /\ ActedOK'
<1> DEFINE a == acted[q.transfer]
<1>1. /\ q \in quotes /\ q.status = "paid"
      /\ QuoteMoves(q, {"paid"}, "consuming") /\ UNCHANGED acted
  BY DEF Reserves, QuoteMoves
<1>2. a \in Accounts /\ AccountOK(a, "consuming")
  BY <1>1, AccountAt DEF AccountOK
<1>3. acted' = [acted EXCEPT ![q.transfer] = a]
  BY <1>1, AccountAt DEF ActedOK
<1> HIDE DEF a
<1> QED  BY <1>1, <1>2, <1>3, MoveKeeps DEF Statuses

\* Every step of a quote's use keeps what its status says.
LEMMA SubmitKeeps ==
  ASSUME QuotedOK, ActedOK, NEW q, QuoteSubmitted(q)
  PROVE  QuotedOK' /\ ActedOK'
<1> DEFINE o == acted[q.transfer]
<1>1. q \in quotes /\ UNCHANGED settled
  BY DEF QuoteSubmitted, Reserves, RunBonds, RunReturns, RunThrows, QuoteMoves
<1>2. /\ q.transfer \in Transfers /\ o \in Accounts /\ AccountOK(o, q.status)
      /\ acted \in [Transfers -> Accounts]
  BY <1>1, AccountAt DEF ActedOK
<1>3. CASE Reserves(q)
  BY <1>1, <1>3, ReserveKeeps
<1>4. CASE RunBonds(q)
  <2> DEFINE a == [o EXCEPT !.bonded = @ + 1]
  <2>1. QuoteMoves(q, {"consuming"}, "bonded") /\ q.status = "consuming"
    BY <1>4 DEF RunBonds, QuoteMoves
  <2>2. a \in Accounts /\ AccountOK(a, "bonded")
    BY <1>2, <2>1 DEF Accounts, AccountOK
  <2>3. acted' = [acted EXCEPT ![q.transfer] = a]
    BY <1>2, <1>4 DEF RunBonds, Accounts
  <2> HIDE DEF a
  <2> QED  BY <1>1, <2>1, <2>2, <2>3, MoveKeeps DEF Statuses
<1>5. CASE RunReturns(q)
  <2> DEFINE a == [o EXCEPT !.answered = @ + 1]
  <2>1. QuoteMoves(q, {"bonded"}, "consumed") /\ q.status = "bonded"
    BY <1>5 DEF RunReturns, QuoteMoves
  <2>2. a \in Accounts /\ AccountOK(a, "consumed")
    BY <1>2, <2>1 DEF Accounts, AccountOK
  <2>3. acted' = [acted EXCEPT ![q.transfer] = a]
    BY <1>2, <1>5 DEF RunReturns, Accounts
  <2> HIDE DEF a
  <2> QED  BY <1>1, <2>1, <2>2, <2>3, MoveKeeps DEF Statuses
<1>6. CASE QuoteMoves(q, {"consuming"}, "paid") /\ UNCHANGED acted
  <2>1. q.status = "consuming" /\ AccountOK(o, "paid")
    BY <1>2, <1>6 DEF QuoteMoves, AccountOK
  <2>2. acted' = [acted EXCEPT ![q.transfer] = o]
    BY <1>2, <1>6
  <2> HIDE DEF o
  <2> QED  BY <1>1, <1>2, <1>6, <2>1, <2>2, MoveKeeps DEF Statuses
<1>7. CASE /\ QuoteMoves(q, {"bonded"}, "paid")
           /\ acted' = [acted EXCEPT ![q.transfer].late = @ + 1]
  <2> DEFINE a == [o EXCEPT !.late = @ + 1]
  <2>1. q.status = "bonded"
    BY <1>7 DEF QuoteMoves
  <2>2. a \in Accounts /\ AccountOK(a, "paid")
    BY <1>2, <2>1 DEF Accounts, AccountOK
  <2>3. acted' = [acted EXCEPT ![q.transfer] = a]
    BY <1>2, <1>7 DEF Accounts
  <2> HIDE DEF a
  <2> QED  BY <1>1, <1>7, <2>2, <2>3, MoveKeeps DEF Statuses
<1> QED  BY <1>3, <1>4, <1>5, <1>6, <1>7 DEF QuoteSubmitted, RunThrows

LEMMA QuoteKeeps ==
  ASSUME PaymentsInv, NEW r \in DOMAIN asked, QuoteAnswered(r)
  PROVE  PaymentsInv'
<1> DEFINE q == [transfer |-> asked[r].transfer, bond |-> score]
<1>1. asked[r].pc = "quoting" /\ UNCHANGED <<settled, score, acted>>
  BY DEF QuoteAnswered
<1>2. asked[r] \in Requests /\ asked[r].transfer \in settled
  BY <1>1, RequestAt DEF PaymentsInv, AskedOK
<1>3. CASE ~asked[r].valid \/ Conflicts(q)
  <2>1. Goes(r, "failed") /\ UNCHANGED quotes
    BY <1>3 DEF QuoteAnswered
  <2>2. AskedOK'
    BY <1>1, <1>2, <2>1, RequestGoes DEF PaymentsInv
  <2> QED  BY <1>1, <2>1, <2>2, QuotedFrame DEF PaymentsInv, ActedOK
<1>4. CASE ~(~asked[r].valid \/ Conflicts(q))
  <2>1. /\ quotes' = Stored(q) /\ ~Conflicts(q)
        /\ asked' = [asked EXCEPT ![r].pc = "quoted", ![r].bond = score]
    BY <1>4 DEF QuoteAnswered
  <2>2. AskedOK'
    <3> DEFINE a == [[asked[r] EXCEPT !.pc = "quoted"] EXCEPT !.bond = score]
    <3>1. a \in Requests /\ a.transfer = asked[r].transfer /\ a.pc = "quoted"
      BY <1>2 DEF Requests, PaymentsInv
    <3>2. asked' = [asked EXCEPT ![r] = a]
      BY <2>1 DEF PaymentsInv, AskedOK
    <3> HIDE DEF a
    <3> QED  BY <1>1, <3>1, <3>2, RequestMoves DEF PaymentsInv
  <2>3. \/ quotes' = quotes
        \/ /\ quotes' = quotes \cup {[transfer |-> asked[r].transfer,
                                      bond |-> score, status |-> "paid"]}
           /\ \A p \in quotes : p.transfer # asked[r].transfer
    <3>1. CASE \E p \in quotes : p.transfer = q.transfer /\ p.bond = q.bond
      BY <2>1, <3>1 DEF Stored
    <3>2. CASE ~\E p \in quotes : p.transfer = q.transfer /\ p.bond = q.bond
      <4>1. quotes' = quotes \cup {[transfer |-> q.transfer, bond |-> q.bond,
                                    status |-> "paid"]}
        BY <2>1, <3>2 DEF Stored
      <4>2. \A p \in quotes : p.transfer # q.transfer
        BY <2>1, <3>2 DEF Conflicts
      <4> QED  BY <4>1, <4>2
    <3> QED  BY <3>1, <3>2
  <2> HIDE DEF q
  <2>4. QuotedOK'
    BY <1>1, <1>2, <2>3 DEF PaymentsInv, QuotedOK, Requests, Statuses
  <2>6. ActedOK'
    <3> SUFFICES ASSUME quotes' # quotes PROVE ActedOK'
      BY <1>1 DEF PaymentsInv, ActedOK
    <3>1. AccountOK(acted[asked[r].transfer], "paid")
      BY <1>2, <2>3 DEF PaymentsInv, ActedOK, Requests
    <3> QED  BY <1>1, <2>3, <3>1 DEF PaymentsInv, ActedOK
  <2> QED  BY <1>1, <2>2, <2>4, <2>6 DEF PaymentsInv
<1> QED  BY <1>3, <1>4

LEMMA RestartKeepsAsked ==
  ASSUME AskedOK, UNCHANGED settled, Restarts
  PROVE  AskedOK'
<1> DEFINE Stopped(r) == IF asked[r].pc \in Open
                         THEN [asked[r] EXCEPT !.pc = "failed"] ELSE asked[r]
<1>1. DOMAIN asked = 1..Len(asked) /\ Len(asked) \in Nat
  BY LenProperties DEF AskedOK
<1>2. asked' = [r \in 1..Len(asked) |-> Stopped(r)]
  BY <1>1 DEF Restarts
<1>3. \A r \in 1..Len(asked) : Stopped(r) \in Requests
                               /\ Stopped(r).pc # "quoting"
  BY <1>1, RequestAt DEF Requests, Open
<1> HIDE DEF Stopped
<1>4. asked' \in Seq(Requests) /\ DOMAIN asked' = 1..Len(asked)
  BY <1>1, <1>2, <1>3, IsASeq
<1> QED  BY <1>2, <1>3, <1>4 DEF AskedOK

\* What a restart leaves of a quote that is served.
LEMMA RestartKeepsQuotes ==
  ASSUME QuotedOK, ActedOK, Restarts
  PROVE  QuotedOK' /\ ActedOK'
<1> DEFINE status(q) == IF q.status \in Served THEN "stuck" ELSE q.status
           stopped(q) == [q EXCEPT !.status = status(q)]
<1>1. /\ quotes' = {stopped(q) : q \in quotes}
      /\ UNCHANGED <<settled, acted>>
  BY DEF Restarts, Marked
<1>2. \A q \in quotes :
        /\ stopped(q) \in [transfer : Transfers, bond : Nat, status : Statuses]
        /\ stopped(q).transfer = q.transfer /\ stopped(q).status = status(q)
  <2> SUFFICES ASSUME NEW q \in quotes
               PROVE  /\ stopped(q) \in [transfer : Transfers, bond : Nat,
                                         status : Statuses]
                      /\ stopped(q).transfer = q.transfer
                      /\ stopped(q).status = status(q)
    OBVIOUS
  <2>1. q \in [transfer : Transfers, bond : Nat, status : Statuses]
    BY DEF QuotedOK
  <2>2. status(q) \in Statuses
    BY <2>1 DEF Statuses
  <2> HIDE DEF status
  <2> QED  BY <2>1, <2>2
<1>3. \A q \in quotes : AccountOK(acted[q.transfer], status(q))
  BY DEF ActedOK, AccountOK, Served
<1> HIDE DEF stopped, status
<1>4. QuotedOK'
  BY <1>1, <1>2 DEF QuotedOK
<1>5. \A q \in quotes' : AccountOK(acted'[q.transfer], q.status)
  BY <1>1, <1>2, <1>3
<1>6. \A t \in Transfers :
        (\A q \in quotes' : q.transfer # t) => \A q \in quotes : q.transfer # t
  BY <1>1, <1>2
<1> QED  BY <1>1, <1>4, <1>5, <1>6 DEF ActedOK

LEMMA PaymentsStep ==
  ASSUME PaymentsInv, [PaymentsNext]_paymentVars
  PROVE  PaymentsInv'
<1>1. CASE \E t \in Transfers : ClientPays(t)
  <2>1. PICK t \in Transfers : ClientPays(t)
    BY <1>1
  <2>2. Ask(t, TRUE) /\ UNCHANGED <<settled, score, quotes, acted>>
    BY <2>1 DEF ClientPays
  <2> QED  BY <2>2, AskKeeps, QuotedFrame DEF PaymentsInv, ActedOK
<1>2. CASE \E t \in Transfers, valid \in BOOLEAN : QuoteRequested(t, valid)
  <2>1. PICK t \in Transfers, valid \in BOOLEAN : QuoteRequested(t, valid)
    BY <1>2
  <2>2. Ask(t, valid) /\ UNCHANGED <<settled, score, quotes, acted>>
    BY <2>1 DEF QuoteRequested
  <2> QED  BY <2>2, AskKeeps, QuotedFrame DEF PaymentsInv, ActedOK
<1>3. CASE \E r \in DOMAIN asked : FacilitatorSettles(r) \/ SettleLost(r)
  <2>1. PICK r \in DOMAIN asked : FacilitatorSettles(r) \/ SettleLost(r)
    BY <1>3
  <2>2. UNCHANGED <<score, quotes, acted>> /\ settled \subseteq settled'
    BY <2>1 DEF FacilitatorSettles, SettleLost
  <2>3. PICK pc \in {"quoting", "required", "failed"} :
          Goes(r, pc) /\ (pc = "quoting" => asked[r].transfer \in settled')
    BY <2>1 DEF FacilitatorSettles, SettleLost
  <2>4. AskedOK'
    BY <2>2, <2>3, RequestGoes DEF PaymentsInv
  <2> QED  BY <2>2, <2>4, QuotedFrame DEF PaymentsInv, ActedOK
<1>4. CASE \E r \in DOMAIN asked : QuoteAnswered(r)
  BY <1>4, QuoteKeeps
<1>5. CASE \E q \in quotes : QuoteSubmitted(q)
  <2>1. PICK q \in quotes : QuoteSubmitted(q)
    BY <1>5
  <2>2. UNCHANGED <<settled, score, asked>>
    BY <2>1 DEF QuoteSubmitted
  <2> QED  BY <2>1, <2>2, SubmitKeeps DEF PaymentsInv, AskedOK
<1>6. CASE Restarts
  <2>1. UNCHANGED <<settled, score>>
    BY <1>6 DEF Restarts
  <2> QED  BY <1>6, <2>1, RestartKeepsAsked, RestartKeepsQuotes DEF PaymentsInv
<1>7. CASE ScoreChanges
  BY <1>7 DEF ScoreChanges, PaymentsInv, AskedOK, QuotedOK, ActedOK
<1>8. CASE ClientSubmits
  <2>1. UNCHANGED <<settled, score, asked>>
    BY <1>8 DEF ClientSubmits
  <2>2. CASE \E q \in OwnQuote : Reserves(q)
    <3>1. PICK q \in OwnQuote : Reserves(q)
      BY <2>2
    <3> QED  BY <2>1, <3>1, ReserveKeeps DEF PaymentsInv, AskedOK
  <2>3. CASE UNCHANGED <<quotes, acted>>
    BY <2>1, <2>3 DEF PaymentsInv, AskedOK, QuotedOK, ActedOK
  <2> QED  BY <1>8, <2>2, <2>3 DEF ClientSubmits
<1>9. CASE ClientIsAnswered \/ ClientIsServed \/ ClientAttests \/ ClientFails
           \/ UNCHANGED paymentVars
  <2>1. UNCHANGED <<settled, score, quotes, asked, acted>>
    BY <1>9 DEF ClientIsAnswered, ClientIsServed, ClientAttests, ClientFails, paymentVars
  <2> QED  BY <2>1 DEF PaymentsInv, AskedOK, QuotedOK, ActedOK
<1> QED
  BY <1>1, <1>2, <1>3, <1>4, <1>5, <1>6, <1>7, <1>8, <1>9 DEF PaymentsNext

(* One transfer buys one answered action, however often it is presented    *)
(* and whatever its runs and restarts leave behind, and more bonded ones   *)
(* only as runs fail after they have bonded theirs; and no quote is given  *)
(* for a transfer that is not settled.                                     *)
THEOREM PaymentsAnswerOnce == PaymentsSpec => []OneAnswerPerPayment
<1>1. PaymentsInv => OneAnswerPerPayment
  <2> SUFFICES ASSUME PaymentsInv PROVE OneAnswerPerPayment
    OBVIOUS
  <2>1. \A q \in quotes : q.transfer \in settled
    BY DEF PaymentsInv, QuotedOK
  <2>2. ASSUME NEW t \in Transfers
        PROVE  acted[t].answered <= 1 /\ acted[t].bonded <= acted[t].late + 1
    <3>1. CASE \E q \in quotes : q.transfer = t
      BY <3>1 DEF PaymentsInv, ActedOK, AccountOK
    <3>2. CASE \A q \in quotes : q.transfer # t
      BY <3>2 DEF PaymentsInv, ActedOK, AccountOK
    <3> QED  BY <3>1, <3>2
  <2> QED  BY <2>1, <2>2 DEF OneAnswerPerPayment
<1> QED  BY <1>1, PaymentsInitially, PaymentsStep, PTL DEF PaymentsSpec

-----------------------------------------------------------------------------
(* The version 1 deployments.                                              *)

RedeploysSpec == RedeploysInit /\ [][RedeploysNext]_redeployVars

KindSet == {"token", "vault", "controller", "pool"}
Before(k) == CASE k = "vault"      -> "token"
               [] k = "controller" -> "vault"
               [] k = "pool"       -> "controller"
Made == KindSet \ {"token"}
ContractRecords == [kind : KindSet, token : Nat, of : Nat, wired : Nat]

BuiltOK ==
  /\ built \in Seq(ContractRecords)
  /\ registry \in [KindSet -> 0..Len(built)]
  /\ file \in [KindSet -> 0..Len(built)]
  /\ job \in [name : {"none", "deploy", "redeploy"}, at : 0..9]
  /\ \A s \in lateSets : s.on \in 1..Len(built) /\ s.to \in 1..Len(built)

\* What the registry has was made from what the registry has before it.
RegistryIsChain ==
  \A k \in Made : registry[k] # 0 =>
    /\ registry[Before(k)] # 0
    /\ built[registry[k]].of = registry[Before(k)]
    /\ built[registry[k]].token = registry["token"]

\* It is the deployment file's suite, or has no contract of that.
RegistryIsFileOrNew ==
  \/ registry = file
  \/ \A k \in Made : registry[k] # 0 => registry[k] # file[k]

JobIsAt ==
  /\ job.at > 1 => registry["token"] # 0
  /\ job.at > 2 => registry["vault"] # 0
  /\ job.at > 3 => registry["controller"] # 0
  /\ job.at > 4 => registry["pool"] # 0
  /\ job.at > 5 => built[registry["vault"]].wired = registry["controller"]
  /\ job.at > 6 => built[registry["controller"]].wired = registry["pool"]

FileIsWhole ==
  \A k, l \in Made : file[k] # 0 => file[l] # 0

RedeploysInv ==
  /\ BuiltOK /\ RegistryIsChain /\ RegistryIsFileOrNew
  /\ JobIsAt /\ FileIsWhole /\ FileIsOneSuite

LEMMA KindsAre ==
  /\ Len(Kinds) = 4 /\ ToSet(Kinds) = KindSet
  /\ Kinds[1] = "token" /\ Kinds[2] = "vault"
  /\ Kinds[3] = "controller" /\ Kinds[4] = "pool"
<1>1. DOMAIN Kinds = {1, 2, 3, 4} /\ Len(Kinds) = 4
  BY DEF Kinds
<1> QED  BY <1>1 DEF Kinds, ToSet, KindSet

LEMMA RedeploysInitially == RedeploysInit => RedeploysInv
<1> SUFFICES ASSUME RedeploysInit PROVE RedeploysInv
  OBVIOUS
<1>1. \A k \in KindSet : registry[k] = 0 /\ file[k] = 0
  BY KindsAre DEF RedeploysInit, Nothing
<1>2. built \in Seq(ContractRecords) /\ Len(built) = 0
  BY EmptySeq DEF RedeploysInit
<1>3. BuiltOK
  BY <1>2, KindsAre DEF RedeploysInit, BuiltOK, Nothing, NoScriptJob
<1> QED  BY <1>1, <1>3 DEF RedeploysInit, RedeploysInv, RegistryIsChain, Made,
             RegistryIsFileOrNew, JobIsAt, NoScriptJob, FileIsWhole,
             FileIsOneSuite, KindSet

\* A contract keeps what it was made with, and what it was wired to.
BuiltGrows ==
  /\ Len(built) <= Len(built')
  /\ \A n \in 1..Len(built) :
       /\ built'[n].of = built[n].of /\ built'[n].token = built[n].token
       /\ built[n].wired # 0 => built'[n].wired = built[n].wired

LEMMA ContractAt ==
  ASSUME BuiltOK, NEW n \in 1..Len(built)
  PROVE  built[n] \in ContractRecords
  BY ElementOfSeq DEF BuiltOK

LEMMA BuiltLength ==
  ASSUME BuiltOK
  PROVE  Len(built) \in Nat
  BY LenProperties DEF BuiltOK

LEMMA InstallGrows ==
  ASSUME BuiltOK, NEW n \in 1..4, built' = Append(built, NewContract(n))
  PROVE  /\ built' \in Seq(ContractRecords)
         /\ Len(built') = Len(built) + 1 /\ BuiltGrows
         /\ built'[Len(built) + 1] = NewContract(n)
<1>1. registry \in [KindSet -> Nat]
  BY BuiltLength DEF BuiltOK
<1>2. Given(n) \in Nat
  BY <1>1, KindsAre DEF Given, KindSet
<1>3. Kinds[n] \in KindSet
  BY KindsAre DEF KindSet
<1>4. NewContract(n) \in ContractRecords
  BY <1>1, <1>2, <1>3 DEF NewContract, KindSet, ContractRecords
<1>5. /\ built' \in Seq(ContractRecords)
      /\ Len(built') = Len(built) + 1
      /\ \A m \in 1..Len(built) : built'[m] = built[m]
      /\ built'[Len(built) + 1] = NewContract(n)
  BY <1>4, AppendProperties DEF BuiltOK
<1>6. Len(built) <= Len(built')
  BY <1>5, BuiltLength
<1> QED  BY <1>5, <1>6 DEF BuiltGrows

LEMMA WireGrows ==
  ASSUME BuiltOK, NEW s, s.on \in 1..Len(built), s.to \in 1..Len(built),
         built[s.on].wired = 0, WiredTo(s)
  PROVE  /\ built' \in Seq(ContractRecords)
         /\ Len(built') = Len(built) /\ BuiltGrows
         /\ built'[s.on].wired = s.to
<1> DEFINE c == [built[s.on] EXCEPT !.wired = s.to]
<1>1. built[s.on] \in ContractRecords
  BY ContractAt
<1>2. s.to \in Nat
  OBVIOUS
<1>3. /\ c \in ContractRecords
      /\ c.of = built[s.on].of /\ c.token = built[s.on].token /\ c.wired = s.to
  BY <1>1, <1>2 DEF ContractRecords
<1>4. built' = [built EXCEPT ![s.on] = c]
  BY DEF WiredTo
<1> HIDE DEF c
<1>5. /\ built' \in Seq(ContractRecords)
      /\ Len(built') = Len(built)
  BY <1>3, <1>4, ExceptSeq DEF BuiltOK
<1>6. \A n \in 1..Len(built) : built'[n] = IF n = s.on THEN c ELSE built[n]
  BY <1>4, LenProperties DEF BuiltOK
<1>7. Len(built) <= Len(built')
  BY <1>5, BuiltLength
<1> QED  BY <1>3, <1>5, <1>6, <1>7 DEF BuiltGrows

\* Registry and file stay; the job is where it was, or at its end.
LEMMA RedeploysFrame ==
  ASSUME RedeploysInv, BuiltOK', BuiltGrows, UNCHANGED <<registry, file>>
  PROVE  /\ RegistryIsChain' /\ RegistryIsFileOrNew' /\ FileIsWhole'
         /\ FileIsOneSuite'
         /\ job.at > 5 => built'[registry["vault"]].wired = registry["controller"]
         /\ job.at > 6 => built'[registry["controller"]].wired = registry["pool"]
<1>1. /\ \A k \in KindSet : registry[k] # 0 => registry[k] \in 1..Len(built)
      /\ \A k \in KindSet : file[k] # 0 => file[k] \in 1..Len(built)
  <2>1. Len(built) \in Nat
    BY BuiltLength DEF RedeploysInv
  <2>2. /\ \A k \in KindSet : registry[k] \in 0..Len(built)
        /\ \A k \in KindSet : file[k] \in 0..Len(built)
    BY DEF RedeploysInv, BuiltOK
  <2> QED  BY <2>1, <2>2
<1>2. RegistryIsChain'
  BY <1>1 DEF RedeploysInv, RegistryIsChain, BuiltGrows, Made
<1>3. RegistryIsFileOrNew' /\ FileIsWhole'
  BY DEF RedeploysInv, RegistryIsFileOrNew, FileIsWhole
<1>4. FileIsOneSuite'
  <2> SUFFICES ASSUME file["vault"] # 0
               PROVE  FileIsOneSuite'
    BY DEF FileIsOneSuite
  <2>1. file["controller"] # 0 /\ file["pool"] # 0
    BY DEF RedeploysInv, FileIsWhole, Made, KindSet
  <2>2. \A k \in {"vault", "controller", "pool"} : file[k] \in 1..Len(built)
    BY <1>1, <2>1 DEF KindSet
  <2> QED  BY <2>1, <2>2 DEF RedeploysInv, FileIsOneSuite, BuiltGrows
<1>5. job.at \in 0..9
  BY DEF RedeploysInv, BuiltOK
<1>6. ASSUME job.at > 5
      PROVE  built'[registry["vault"]].wired = registry["controller"]
  <2>1. job.at > 2 /\ job.at > 3
    BY <1>5, <1>6
  <2>2. registry["vault"] # 0 /\ registry["controller"] # 0
    BY <2>1 DEF RedeploysInv, JobIsAt
  <2> QED  BY <1>1, <1>6, <2>2 DEF RedeploysInv, JobIsAt, BuiltGrows, KindSet
<1>7. ASSUME job.at > 6
      PROVE  built'[registry["controller"]].wired = registry["pool"]
  <2>1. job.at > 3 /\ job.at > 4
    BY <1>5, <1>7
  <2>2. registry["controller"] # 0 /\ registry["pool"] # 0
    BY <2>1 DEF RedeploysInv, JobIsAt
  <2> QED  BY <1>1, <1>7, <2>2 DEF RedeploysInv, JobIsAt, BuiltGrows, KindSet
<1> QED  BY <1>2, <1>3, <1>4, <1>6, <1>7

LEMMA BuiltStays ==
  ASSUME BuiltOK, UNCHANGED built
  PROVE  BuiltGrows
  BY BuiltLength DEF BuiltGrows

\* A step that changes neither built, registry nor file, nor takes the job on.
LEMMA JobKeeps ==
  ASSUME RedeploysInv, UNCHANGED <<built, registry, file>>,
         job' \in [name : {"none", "deploy", "redeploy"}, at : 0..9],
         \/ job'.at \in {0, 1} \/ job'.at = job.at
         \/ job.at \in 7..8 /\ job'.at = job.at + 1,
         \A s \in lateSets' : s.on \in 1..Len(built) /\ s.to \in 1..Len(built)
  PROVE  RedeploysInv'
<1>1. BuiltOK'
  BY DEF RedeploysInv, BuiltOK
<1>2. BuiltGrows
  BY BuiltStays DEF RedeploysInv
<1>3. job.at \in 0..9 /\ job'.at \in 0..9
  BY DEF RedeploysInv, BuiltOK
<1>4. JobIsAt'
  BY <1>3 DEF RedeploysInv, JobIsAt
<1> QED  BY <1>1, <1>2, <1>4, RedeploysFrame DEF RedeploysInv

LEMMA DeployKeeps ==
  ASSUME RedeploysInv, DeployBegins
  PROVE  RedeploysInv'
<1>1. /\ registry' = Nothing /\ job' = [name |-> "deploy", at |-> 1]
      /\ UNCHANGED <<built, file, lateSets>>
  BY DEF DeployBegins, JobBegins
<1>2. /\ registry' \in [KindSet -> 0..Len(built)]
      /\ \A k \in KindSet : registry'[k] = 0
  BY <1>1, KindsAre, BuiltLength DEF Nothing, RedeploysInv
<1>3. BuiltOK' /\ JobIsAt'
  BY <1>1, <1>2 DEF RedeploysInv, BuiltOK, JobIsAt
<1>4. RegistryIsChain' /\ RegistryIsFileOrNew'
  BY <1>2 DEF RegistryIsChain, RegistryIsFileOrNew, Made
<1> QED  BY <1>1, <1>3, <1>4 DEF RedeploysInv, FileIsWhole, FileIsOneSuite

\* Either the registry is the file's suite, and nothing but the token is
\* kept, or it has nothing of it, and all of it is kept.
LEMMA RedeployKeeps ==
  ASSUME RedeploysInv, RedeployBegins
  PROVE  RedeploysInv'
<1>1. /\ registry' = [k \in DOMAIN registry |->
                        IF Kept(k) THEN registry[k] ELSE 0]
      /\ job' = [name |-> "redeploy", at |-> 1]
      /\ UNCHANGED <<built, file, lateSets>>
  BY DEF RedeployBegins, JobBegins
<1>2. registry \in [KindSet -> 0..Len(built)] /\ DOMAIN registry = KindSet
      /\ Len(built) \in Nat
  BY BuiltLength DEF RedeploysInv, BuiltOK
<1>3. \A k \in KindSet : registry'[k] = IF Kept(k) THEN registry[k] ELSE 0
  BY <1>1, <1>2
<1>4. registry' \in [KindSet -> 0..Len(built)]
  BY <1>1, <1>2
<1>5. BuiltOK' /\ JobIsAt'
  BY <1>1, <1>4 DEF RedeploysInv, BuiltOK, JobIsAt
<1>6. registry'["token"] = registry["token"]
  BY <1>3 DEF Kept, KindSet
<1>7. RegistryIsChain' /\ RegistryIsFileOrNew'
  <2>1. CASE registry = file
    <3>1. \A k \in Made : registry'[k] = 0
      BY <1>3, <2>1 DEF Kept, Made
    <3> QED  BY <3>1 DEF RegistryIsChain, RegistryIsFileOrNew
  <2>2. CASE \A k \in Made : registry[k] # 0 => registry[k] # file[k]
    <3>1. \A k \in Made : registry'[k] = registry[k]
      BY <1>3, <2>2 DEF Kept, Made
    <3>2. \A k \in Made : k \in KindSet /\ Before(k) \in KindSet
      BY DEF Made, KindSet, Before
    <3>3. \A k \in KindSet : registry'[k] = registry[k]
      BY <1>6, <3>1 DEF Made
    <3>4. RegistryIsChain'
      BY <1>1, <1>6, <3>1, <3>2, <3>3 DEF RedeploysInv, RegistryIsChain
    <3> QED  BY <1>1, <2>2, <3>1, <3>4 DEF RegistryIsFileOrNew
  <2> QED  BY <2>1, <2>2 DEF RedeploysInv, RegistryIsFileOrNew
<1> QED  BY <1>1, <1>5, <1>7 DEF RedeploysInv, FileIsWhole, FileIsOneSuite

\* A contract that is missing is made from the one before it.
LEMMA LoadKeeps ==
  ASSUME RedeploysInv, Loads
  PROVE  RedeploysInv'
<1> DEFINE n == job.at
           k == Kinds[job.at]
<1>1. n \in 1..4 /\ job' = [job EXCEPT !.at = n + 1]
      /\ UNCHANGED <<file, lateSets>>
  BY KindsAre DEF Loads, Advances
<1>2. /\ job' \in [name : {"none", "deploy", "redeploy"}, at : 0..9]
      /\ job'.at = n + 1
  BY <1>1 DEF RedeploysInv, BuiltOK
<1>3. k \in KindSet /\ Len(built) \in Nat
  BY <1>1, KindsAre, BuiltLength DEF KindSet, RedeploysInv
<1>4. \/ n = 1 /\ k = "token"
      \/ n = 2 /\ k = "vault"
      \/ n = 3 /\ k = "controller"
      \/ n = 4 /\ k = "pool"
  BY <1>1, KindsAre
<1>5. CASE registry[k] # 0
  <2>1. UNCHANGED <<built, registry>>
    BY <1>5 DEF Loads
  <2>2. BuiltOK'
    BY <1>1, <1>2, <2>1 DEF RedeploysInv, BuiltOK
  <2>3. BuiltGrows
    BY <2>1, BuiltStays DEF RedeploysInv
  <2>4. JobIsAt'
    BY <1>2, <1>4, <1>5, <2>1 DEF RedeploysInv, JobIsAt
  <2> QED  BY <1>1, <2>1, <2>2, <2>3, <2>4, RedeploysFrame DEF RedeploysInv
<1>6. CASE registry[k] = 0
  <2> DEFINE new == Len(built) + 1
  <2>1. /\ built' = Append(built, NewContract(n))
        /\ registry' = [registry EXCEPT ![k] = new]
    BY <1>6 DEF Loads
  <2>2. /\ built' \in Seq(ContractRecords) /\ Len(built') = new
        /\ BuiltGrows /\ built'[new] = NewContract(n)
    BY <1>1, <2>1, InstallGrows DEF RedeploysInv
  <2>3. /\ registry \in [KindSet -> 0..Len(built)]
        /\ file \in [KindSet -> 0..Len(built)]
    BY DEF RedeploysInv, BuiltOK
  <2>4. /\ registry' \in [KindSet -> 0..Len(built')]
        /\ file' \in [KindSet -> 0..Len(built')]
    <3>1. new \in 0..Len(built') /\ 0..Len(built) \subseteq 0..Len(built')
      BY <1>3, <2>2
    <3> QED  BY <1>1, <2>1, <2>3, <3>1
  <2>5. \A s \in lateSets' : s.on \in 1..Len(built') /\ s.to \in 1..Len(built')
    <3>1. 1..Len(built) \subseteq 1..Len(built')
      BY <1>3, <2>2
    <3> QED  BY <1>1, <3>1 DEF RedeploysInv, BuiltOK
  <2>6. BuiltOK'
    BY <1>2, <2>2, <2>4, <2>5 DEF BuiltOK
  <2>7. \A l \in KindSet : registry'[l] = IF l = k THEN new ELSE registry[l]
    BY <2>1, <2>3
  <2>8. \A l \in KindSet : registry[l] # new /\ file[l] # new /\ new # 0
    BY <1>3, <2>3
  <2>9. \A l \in KindSet : registry[l] # 0 =>
          /\ registry[l] \in 1..Len(built)
          /\ built'[registry[l]].of = built[registry[l]].of
          /\ built'[registry[l]].token = built[registry[l]].token
    BY <1>3, <2>2, <2>3 DEF BuiltGrows
  <2>10. n > 1 => registry["token"] # 0
    BY DEF RedeploysInv, JobIsAt
  <2>11. \A l \in Made : k = Before(l) => registry[l] = 0
    BY <1>6 DEF RedeploysInv, RegistryIsChain
  <2>12. registry["token"] = 0 => \A l \in Made : registry[l] = 0
    <3>1. ASSUME registry["token"] = 0 PROVE registry["vault"] = 0
      BY <3>1 DEF RedeploysInv, RegistryIsChain, Made, KindSet, Before
    <3>2. ASSUME registry["token"] = 0 PROVE registry["controller"] = 0
      BY <3>1, <3>2 DEF RedeploysInv, RegistryIsChain, Made, KindSet, Before
    <3>3. ASSUME registry["token"] = 0 PROVE registry["pool"] = 0
      BY <3>2, <3>3 DEF RedeploysInv, RegistryIsChain, Made, KindSet, Before
    <3> QED  BY <3>1, <3>2, <3>3 DEF Made, KindSet
  <2>13. k \in Made => NewContract(n).of = registry[Before(k)]
                       /\ NewContract(n).token = registry["token"]
                       /\ registry[Before(k)] # 0 /\ Before(k) # k
    BY <1>1, <1>4, KindsAre DEF NewContract, Given, Before, Made, KindSet,
                           RedeploysInv, JobIsAt
  <2>19. n = job.at /\ \A l \in KindSet : registry[l] # 0 => registry'[l] # 0
    BY <2>7, <2>8
  <2>20. registry'[k] # 0
    BY <1>3, <2>7, <2>8
  <2> HIDE DEF new, n, k
  <2>14. RegistryIsChain'
    <3> SUFFICES ASSUME NEW l \in Made, registry'[l] # 0
                 PROVE  /\ registry'[Before(l)] # 0
                        /\ built'[registry'[l]].of = registry'[Before(l)]
                        /\ built'[registry'[l]].token = registry'["token"]
      BY DEF RegistryIsChain
    <3>1. l \in KindSet /\ Before(l) \in KindSet /\ "token" \in KindSet
      BY DEF Made, KindSet, Before
    <3>2. CASE l = k
      <4>1. "token" # k
        BY <3>2 DEF Made
      <4> QED  BY <2>2, <2>7, <2>13, <3>1, <3>2, <4>1
    <3>3. CASE l # k
      <4>1. registry'[l] = registry[l] /\ registry[l] # 0
        BY <2>7, <3>1, <3>3
      <4>2. k # Before(l) /\ k # "token"
        BY <1>6, <2>11, <2>12, <4>1
      <4>3. /\ registry[Before(l)] # 0
            /\ built[registry[l]].of = registry[Before(l)]
            /\ built[registry[l]].token = registry["token"]
        BY <4>1 DEF RedeploysInv, RegistryIsChain
      <4> QED  BY <2>7, <2>9, <3>1, <4>1, <4>2, <4>3
    <3> QED  BY <3>2, <3>3
  <2>15. RegistryIsFileOrNew'
    <3>1. CASE registry = file
      \* A whole file has nothing to load but the token.
      <4>1. \A l \in Made : l # k => registry[l] = 0 \/ k = "token"
        BY <1>3, <1>6, <3>1 DEF RedeploysInv, FileIsWhole, Made
      <4>2. \A l \in Made : registry'[l] # 0 => registry'[l] # file[l]
        <5> SUFFICES ASSUME NEW l \in Made, registry'[l] # 0
                     PROVE  registry'[l] # file[l]
          OBVIOUS
        <5>1. l \in KindSet
          BY DEF Made
        <5>2. CASE l = k
          BY <2>7, <2>8, <5>1, <5>2
        <5>3. CASE l # k
          BY <1>6, <2>7, <2>12, <4>1, <5>1, <5>3
        <5> QED  BY <5>2, <5>3
      <4> QED  BY <1>1, <4>2 DEF RegistryIsFileOrNew
    <3>2. CASE \A l \in Made : registry[l] # 0 => registry[l] # file[l]
      <4>1. \A l \in Made : registry'[l] # 0 => registry'[l] # file[l]
        BY <2>7, <2>8, <3>2 DEF Made
      <4> QED  BY <1>1, <4>1 DEF RegistryIsFileOrNew
    <3> QED  BY <3>1, <3>2 DEF RedeploysInv, RegistryIsFileOrNew
  <2>16. JobIsAt'
    <3>1. n \in 1..4 /\ job'.at = n + 1 /\ n = job.at
      BY <1>1, <1>2, <2>19
    <3>2. /\ n > 1 => registry'["token"] # 0
          /\ n > 2 => registry'["vault"] # 0
          /\ n > 3 => registry'["controller"] # 0
      BY <2>19, <3>1 DEF RedeploysInv, JobIsAt, KindSet
    <3>3. /\ n = 1 => registry'["token"] # 0
          /\ n = 2 => registry'["vault"] # 0
          /\ n = 3 => registry'["controller"] # 0
          /\ n = 4 => registry'["pool"] # 0
      BY <1>4, <2>20
    <3> QED  BY <3>1, <3>2, <3>3 DEF JobIsAt
  <2>17. FileIsWhole'
    BY <1>1 DEF RedeploysInv, FileIsWhole
  <2>18. FileIsOneSuite'
    <3> SUFFICES ASSUME file["vault"] # 0 PROVE FileIsOneSuite'
      BY <1>1 DEF FileIsOneSuite
    <3>1. file["controller"] # 0 /\ file["pool"] # 0
      BY DEF RedeploysInv, FileIsWhole, Made, KindSet
    <3>2. \A l \in {"vault", "controller", "pool"} : file[l] \in 1..Len(built)
      BY <1>3, <2>3, <3>1 DEF KindSet
    <3> QED  BY <1>1, <2>2, <3>1, <3>2 DEF RedeploysInv, FileIsOneSuite, BuiltGrows
  <2> QED  BY <2>6, <2>14, <2>15, <2>16, <2>17, <2>18 DEF RedeploysInv
<1> QED  BY <1>5, <1>6


\* The registry has all four from the fifth step on.
LEMMA RegistryIsWhole ==
  ASSUME RedeploysInv, job.at > 4
  PROVE  \A k \in KindSet : registry[k] \in 1..Len(built)
<1>1. Len(built) \in Nat /\ job.at \in 0..9
  BY BuiltLength DEF RedeploysInv, BuiltOK
<1>2. \A k \in KindSet : registry[k] \in 0..Len(built)
  BY DEF RedeploysInv, BuiltOK
<1>3. job.at > 1 /\ job.at > 2 /\ job.at > 3
  BY <1>1
<1>4. \A k \in KindSet : registry[k] # 0
  BY <1>3 DEF RedeploysInv, JobIsAt, KindSet
<1> QED  BY <1>1, <1>2, <1>4

\* What is wired is wired to what was not wired yet.
LEMMA WiringKeeps ==
  ASSUME RedeploysInv, NEW s, s.on \in 1..Len(built), s.to \in 1..Len(built),
         built[s.on].wired = 0, WiredTo(s),
         UNCHANGED <<registry, file>>, lateSets' \subseteq lateSets,
         job' \in [name : {"none", "deploy", "redeploy"}, at : 0..9]
  PROVE  /\ BuiltOK' /\ BuiltGrows
         /\ JobIsAt' => RedeploysInv'
<1>1. /\ built' \in Seq(ContractRecords)
      /\ Len(built') = Len(built) /\ BuiltGrows
  BY WireGrows DEF RedeploysInv
<1>2. BuiltOK'
  BY <1>1 DEF RedeploysInv, BuiltOK
<1> QED  BY <1>1, <1>2, RedeploysFrame DEF RedeploysInv

LEMMA SetKeeps ==
  ASSUME RedeploysInv, SetsOrReverts
  PROVE  RedeploysInv'
<1> DEFINE s == Sets(job.at)
<1>1. job.at \in 5..6 /\ UNCHANGED <<registry, file, lateSets>>
  BY DEF SetsOrReverts
<1>2. \A k \in KindSet : registry[k] \in 1..Len(built)
  BY <1>1, RegistryIsWhole
<1>3. CASE built[s.on].wired = 0
  <2>1. WiredTo(s) /\ job' = [job EXCEPT !.at = @ + 1]
    BY <1>3 DEF SetsOrReverts, Advances
  <2>2. /\ job' \in [name : {"none", "deploy", "redeploy"}, at : 0..9]
        /\ job'.at = job.at + 1
    <3>1. job \in [name : {"none", "deploy", "redeploy"}, at : 0..9]
      BY DEF RedeploysInv, BuiltOK
    <3>2. job.at + 1 \in 0..9
      BY <1>1
    <3>3. job' = [job EXCEPT !.at = job.at + 1]
      BY <2>1
    <3> HIDE DEF s
    <3> QED  BY <3>1, <3>2, <3>3
  <2>3. s.on \in 1..Len(built) /\ s.to \in 1..Len(built)
    BY <1>1, <1>2 DEF Sets, KindSet
  <2>4. built'[s.on].wired = s.to
    BY <1>3, <2>1, <2>3, WireGrows DEF RedeploysInv
  <2>5. /\ job.at = 5 =>
             built'[registry["vault"]].wired = registry["controller"]
        /\ job.at = 6 =>
             built'[registry["controller"]].wired = registry["pool"]
    BY <2>4 DEF Sets
  <2> HIDE DEF s
  <2>6. BuiltOK' /\ BuiltGrows /\ (JobIsAt' => RedeploysInv')
    BY <1>1, <1>3, <2>1, <2>2, <2>3, WiringKeeps
  <2>7. job.at > 5 => built'[registry["vault"]].wired = registry["controller"]
    BY <1>1, <2>6, RedeploysFrame
  <2>8. \A k \in KindSet : registry'[k] # 0
    BY <1>1, <1>2
  <2>9. JobIsAt'
    BY <1>1, <2>2, <2>5, <2>7, <2>8 DEF JobIsAt, KindSet
  <2> QED  BY <2>6, <2>9
<1>4. CASE built[s.on].wired # 0
  <2>1. job' = NoScriptJob /\ UNCHANGED built
    BY <1>4 DEF SetsOrReverts, JobEnds
  <2> QED  BY <1>1, <2>1, JobKeeps DEF NoScriptJob, RedeploysInv, BuiltOK
<1> QED  BY <1>3, <1>4

\* The file is written when all four are made and both wires are laid.
LEMMA WriteKeeps ==
  ASSUME RedeploysInv, WritesDeployment
  PROVE  RedeploysInv'
<1>1. /\ job.at = 9 /\ job' = [name |-> "none", at |-> 0]
      /\ UNCHANGED <<built, registry, lateSets>>
  BY DEF WritesDeployment, JobEnds, NoScriptJob
<1>2. CASE UNCHANGED file
  BY <1>1, <1>2, JobKeeps DEF RedeploysInv, BuiltOK
<1>3. CASE file' = registry
  <2>1. \A k \in KindSet : registry[k] \in 1..Len(built)
    BY <1>1, RegistryIsWhole
  <2>2. BuiltOK' /\ JobIsAt'
    BY <1>1, <1>3 DEF RedeploysInv, BuiltOK, JobIsAt
  <2>3. RegistryIsChain' /\ RegistryIsFileOrNew'
    BY <1>1, <1>3 DEF RedeploysInv, RegistryIsChain, RegistryIsFileOrNew
  <2>4. \A k \in KindSet : registry[k] # 0
    BY <2>1
  <2>5. FileIsWhole'
    BY <1>3, <2>4 DEF FileIsWhole, Made
  <2>6. /\ built[registry["vault"]].wired = registry["controller"]
        /\ built[registry["controller"]].wired = registry["pool"]
    BY <1>1 DEF RedeploysInv, JobIsAt
  <2>7. /\ built[registry["controller"]].of = registry["vault"]
        /\ built[registry["pool"]].of = registry["controller"]
        /\ \A k \in {"vault", "controller", "pool"} :
             built[registry[k]].token = registry["token"]
    BY <2>4 DEF RedeploysInv, RegistryIsChain, Made, KindSet, Before
  <2>8. FileIsOneSuite'
    BY <1>1, <1>3, <2>6, <2>7 DEF FileIsOneSuite
  <2> QED  BY <2>2, <2>3, <2>5, <2>8 DEF RedeploysInv
<1> QED  BY <1>2, <1>3 DEF WritesDeployment

\* The other version leaves the file its token, so that the registry has
\* nothing of it.
LEMMA VersionKeeps ==
  ASSUME RedeploysInv, VersionTwo
  PROVE  RedeploysInv'
<1>1. /\ file' = [Nothing EXCEPT !["token"] = file["token"]]
      /\ UNCHANGED <<built, registry, job, lateSets>>
  BY DEF VersionTwo
<1>2. /\ file' = [k \in KindSet |-> IF k = "token" THEN file[k] ELSE 0]
      /\ file \in [KindSet -> 0..Len(built)] /\ Len(built) \in Nat
  BY <1>1, KindsAre, BuiltLength DEF Nothing, RedeploysInv, BuiltOK, KindSet
<1>3. file' \in [KindSet -> 0..Len(built)] /\ \A k \in Made : file'[k] = 0
  BY <1>2 DEF Made
<1>4. BuiltOK'
  BY <1>1, <1>3 DEF RedeploysInv, BuiltOK
<1>5. RegistryIsChain' /\ JobIsAt'
  BY <1>1 DEF RedeploysInv, RegistryIsChain, JobIsAt
<1>6. RegistryIsFileOrNew' /\ FileIsWhole' /\ FileIsOneSuite'
  BY <1>1, <1>3 DEF RegistryIsFileOrNew, FileIsWhole, FileIsOneSuite, Made, KindSet
<1> QED  BY <1>4, <1>5, <1>6 DEF RedeploysInv

\* Where a script stops: nothing was sent, a contract is made that no registry
\* names, or a wire may still be laid.
LEMMA StopKeeps ==
  ASSUME RedeploysInv, JobStops
  PROVE  RedeploysInv'
<1>1. job' = [name |-> "none", at |-> 0] /\ UNCHANGED <<registry, file>>
  BY DEF JobStops, JobEnds, NoScriptJob
<1>2. CASE UNCHANGED <<built, lateSets>>
  BY <1>1, <1>2, JobKeeps DEF RedeploysInv, BuiltOK
<1>3. CASE /\ job.at \in 1..Len(Kinds)
           /\ built' = Append(built, NewContract(job.at))
           /\ UNCHANGED lateSets
  <2>1. /\ built' \in Seq(ContractRecords) /\ Len(built') = Len(built) + 1
        /\ BuiltGrows
    BY <1>3, KindsAre, InstallGrows DEF RedeploysInv
  <2>2. Len(built) \in Nat
    BY BuiltLength DEF RedeploysInv
  <2>3. 0..Len(built) \subseteq 0..Len(built') /\ 1..Len(built) \subseteq 1..Len(built')
    BY <2>1, <2>2
  <2>4. /\ registry' \in [KindSet -> 0..Len(built')]
        /\ file' \in [KindSet -> 0..Len(built')]
        /\ \A s \in lateSets' : s.on \in 1..Len(built') /\ s.to \in 1..Len(built')
    BY <1>1, <1>3, <2>3 DEF RedeploysInv, BuiltOK
  <2>5. BuiltOK' /\ JobIsAt'
    BY <1>1, <2>1, <2>4 DEF BuiltOK, JobIsAt
  <2> QED  BY <1>1, <2>1, <2>5, RedeploysFrame DEF RedeploysInv
<1>4. CASE /\ job.at \in 5..6
           /\ lateSets' = lateSets \cup {Sets(job.at)}
           /\ UNCHANGED built
  <2>1. \A k \in KindSet : registry[k] \in 1..Len(built)
    BY <1>4, RegistryIsWhole
  <2>2. Sets(job.at).on \in 1..Len(built) /\ Sets(job.at).to \in 1..Len(built)
    BY <1>4, <2>1 DEF Sets, KindSet
  <2>3. \A s \in lateSets' : s.on \in 1..Len(built) /\ s.to \in 1..Len(built)
    BY <1>4, <2>2 DEF RedeploysInv, BuiltOK
  <2> QED  BY <1>1, <1>4, <2>3, JobKeeps
<1> QED  BY <1>2, <1>3, <1>4 DEF JobStops

LEMMA LateKeeps ==
  ASSUME RedeploysInv, NEW s \in lateSets, LateSetIncluded(s)
  PROVE  RedeploysInv'
<1>1. lateSets' = lateSets \ {s} /\ UNCHANGED <<registry, file, job>>
  BY DEF LateSetIncluded
<1>2. job' \in [name : {"none", "deploy", "redeploy"}, at : 0..9]
  BY <1>1 DEF RedeploysInv, BuiltOK
<1>3. s.on \in 1..Len(built) /\ s.to \in 1..Len(built)
  BY DEF RedeploysInv, BuiltOK
<1>4. CASE built[s.on].wired = 0
  <2>1. WiredTo(s)
    BY <1>4 DEF LateSetIncluded
  <2>2. BuiltOK' /\ BuiltGrows /\ (JobIsAt' => RedeploysInv')
    BY <1>1, <1>2, <1>3, <1>4, <2>1, WiringKeeps
  <2>3. /\ job.at > 5 => built'[registry["vault"]].wired = registry["controller"]
        /\ job.at > 6 => built'[registry["controller"]].wired = registry["pool"]
    BY <1>1, <2>2, RedeploysFrame
  <2>4. JobIsAt'
    BY <1>1, <2>3 DEF RedeploysInv, JobIsAt
  <2> QED  BY <2>2, <2>4
<1>5. CASE built[s.on].wired # 0
  <2>1. UNCHANGED built
    BY <1>5 DEF LateSetIncluded
  <2>2. \A t \in lateSets' : t.on \in 1..Len(built) /\ t.to \in 1..Len(built)
    BY <1>1 DEF RedeploysInv, BuiltOK
  <2> QED  BY <1>1, <1>2, <2>1, <2>2, JobKeeps
<1> QED  BY <1>4, <1>5

LEMMA RedeploysStep ==
  ASSUME RedeploysInv, [RedeploysNext]_redeployVars
  PROVE  RedeploysInv'
<1>1. CASE DeployBegins
  BY <1>1, DeployKeeps
<1>2. CASE RedeployBegins
  BY <1>2, RedeployKeeps
<1>3. CASE Loads
  BY <1>3, LoadKeeps
<1>4. CASE SetsOrReverts
  BY <1>4, SetKeeps
<1>5. CASE Mints
  <2>1. /\ job.at \in 7..8 /\ job' = [job EXCEPT !.at = @ + 1]
        /\ UNCHANGED <<built, registry, file, lateSets>>
    BY <1>5 DEF Mints, Advances
  <2>2. /\ job' \in [name : {"none", "deploy", "redeploy"}, at : 0..9]
        /\ job'.at = job.at + 1
    BY <2>1 DEF RedeploysInv, BuiltOK
  <2>3. \A s \in lateSets' : s.on \in 1..Len(built) /\ s.to \in 1..Len(built)
    BY <2>1 DEF RedeploysInv, BuiltOK
  <2> QED  BY <2>1, <2>2, <2>3, JobKeeps
<1>6. CASE WritesDeployment
  BY <1>6, WriteKeeps
<1>7. CASE VersionTwo
  BY <1>7, VersionKeeps
<1>8. CASE JobStops
  BY <1>8, StopKeeps
<1>9. CASE \E s \in lateSets : LateSetIncluded(s)
  BY <1>9, LateKeeps
<1>10. CASE UNCHANGED redeployVars
  BY <1>10, JobKeeps DEF redeployVars, RedeploysInv, BuiltOK
<1> QED  BY <1>1, <1>2, <1>3, <1>4, <1>5, <1>6, <1>7, <1>8, <1>9, <1>10
         DEF RedeploysNext

(***************************************************************************)
(* Out of however many deployments and redeployments, stopped wherever and *)
(* with calls included late, the deployment file names one suite, wired    *)
(* and made for each other: main.rs, deploy.ts and redeploy.ts.            *)
(***************************************************************************)
THEOREM RedeployedFileIsOneSuite == RedeploysSpec => []FileIsOneSuite
<1>1. RedeploysInv /\ [RedeploysNext]_redeployVars => RedeploysInv'
  BY RedeploysStep
<1>2. RedeploysInv => FileIsOneSuite
  BY DEF RedeploysInv
<1> QED  BY RedeploysInitially, <1>1, <1>2, PTL DEF RedeploysSpec


-----------------------------------------------------------------------------
(* The limiters.  A window begins with a request that is let through, and  *)
(* not before the one before it has ended; so of what was let through, all *)
(* but the current window and the last one, less its first request, is     *)
(* older than a minute when the window begins.                             *)

AssuranceSpec == AssuranceInit /\ [][AssuranceNext]_assuranceVars

LimitersOK ==
  /\ clock \in Nat
  /\ hits \in [Limiters -> [count : Nat, resetAt : Nat]]
  /\ passed \in [Limiters -> Seq(Nat)]

\* Of the requests q that passed, those up to p came before the window h, and
\* those up to o a minute before it.
Windows(q, h, l, o, p) ==
  /\ p - o < l
  /\ Len(q) - p = IF h.count <= l THEN h.count ELSE l
  /\ \A i \in 1..o : q[i] + 2 * Minute <= h.resetAt
  /\ \A i \in (p + 1)..Len(q) : h.resetAt <= q[i] + Minute
  /\ h.count > 0 => q[p + 1] + Minute <= h.resetAt

WindowsOf(q, h, l) ==
  \E p \in 0..Len(q) : \E o \in 0..p :
    /\ Windows(q, h, l, o, p)
    /\ \A i \in 1..p : q[i] + Minute <= h.resetAt

LimitersInv ==
  /\ LimitersOK
  /\ \A k \in Limiters :
       /\ hits[k].resetAt <= clock + Minute
       /\ hits[k].resetAt > 0 => hits[k].count > 0
       /\ \A i \in 1..Len(passed[k]) : passed[k][i] <= clock
       /\ WindowsOf(passed[k], hits[k], Limits[k[1]])

LEMMA LimitIsPositive ==
  ASSUME NEW k \in Limiters
  PROVE  Limits[k[1]] \in Nat \ {0} /\ Minute \in Nat \ {0}
<1>1. k[1] \in DOMAIN Limits
  <2>1. CASE \E v \in Visitors, t \in Targets : k = <<"mutations", v, t>>
    <3>1. k[1] = "mutations"
      BY <2>1
    <3> QED  BY <3>1, AssuranceAssumption
  <2>2. CASE \E v \in Visitors : k = <<"analyses", v>>
    <3>1. k[1] = "analyses"
      BY <2>2
    <3> QED  BY <3>1, AssuranceAssumption
  <2> QED  BY <2>1, <2>2 DEF Limiters
<1> QED  BY <1>1, AssuranceAssumption

LEMMA LimitersInitially == AssuranceInit => LimitersInv
<1> SUFFICES ASSUME AssuranceInit PROVE LimitersInv
  OBVIOUS
<1> DEFINE h == [count |-> 0, resetAt |-> 0]
<1>1. clock = 0 /\ hits = [k \in Limiters |-> h] /\ passed = [k \in Limiters |-> <<>>]
  BY DEF AssuranceInit
<1>2. <<>> \in Seq(Nat) /\ Len(<<>>) = 0
  BY EmptySeq
<1>3. h \in [count : Nat, resetAt : Nat] /\ h.count = 0 /\ h.resetAt = 0
  OBVIOUS
<1> HIDE DEF h
<1>4. LimitersOK
  BY <1>1, <1>2, <1>3 DEF LimitersOK
<1>5. ASSUME NEW k \in Limiters
      PROVE  WindowsOf(<<>>, h, Limits[k[1]])
  <2> DEFINE l == Limits[k[1]]
  <2>1. l \in Nat \ {0}
    BY LimitIsPositive
  <2> HIDE DEF l
  <2>2. Windows(<<>>, h, l, 0, 0)
    BY <1>2, <1>3, <2>1 DEF Windows
  <2>3. WindowsOf(<<>>, h, l)
    BY <1>2, <2>2 DEF WindowsOf
  <2> QED  BY <2>3 DEF l
<1>6. ASSUME NEW k \in Limiters
      PROVE  /\ hits[k].resetAt <= clock + Minute
             /\ hits[k].resetAt > 0 => hits[k].count > 0
             /\ \A i \in 1..Len(passed[k]) : passed[k][i] <= clock
             /\ WindowsOf(passed[k], hits[k], Limits[k[1]])
  BY <1>1, <1>2, <1>3, <1>5, LimitIsPositive
<1> QED  BY <1>4, <1>6 DEF LimitersInv

\* A request in the window that is open, and within the limit.
LEMMA PassesInWindow ==
  ASSUME NEW q \in Seq(Nat), NEW h \in [count : Nat, resetAt : Nat],
         NEW l \in Nat \ {0}, NEW now \in Nat, Minute \in Nat \ {0},
         WindowsOf(q, h, l), h.resetAt > now, h.resetAt <= now + Minute,
         h.count > 0, h.count + 1 <= l
  PROVE  WindowsOf(Append(q, now), [h EXCEPT !.count = @ + 1], l)
<1> DEFINE r == Append(q, now)
           g == [h EXCEPT !.count = @ + 1]
<1>1. PICK p \in 0..Len(q) : \E o \in 0..p :
        /\ Windows(q, h, l, o, p)
        /\ \A i \in 1..p : q[i] + Minute <= h.resetAt
  BY DEF WindowsOf
<1>2. PICK o \in 0..p : Windows(q, h, l, o, p)
  BY <1>1
<1>3. /\ Len(q) \in Nat /\ Len(r) = Len(q) + 1 /\ r[Len(q) + 1] = now
      /\ \A i \in 1..Len(q) : r[i] = q[i] /\ q[i] \in Nat
  <2>1. Len(q) \in Nat /\ \A i \in 1..Len(q) : q[i] \in Nat
    BY LenProperties, ElementOfSeq
  <2>2. /\ Len(r) = Len(q) + 1 /\ r[Len(q) + 1] = now
        /\ \A i \in 1..Len(q) : r[i] = q[i]
    BY AppendProperties
  <2> QED  BY <2>1, <2>2
<1>4. g.count = h.count + 1 /\ g.resetAt = h.resetAt
      /\ h.count \in Nat /\ h.resetAt \in Nat
  OBVIOUS
<1> HIDE DEF r, g
<1>5. Len(q) - p = h.count
  BY <1>2, <1>4 DEF Windows
<1>6. Len(r) - p = IF g.count <= l THEN g.count ELSE l
  BY <1>3, <1>4, <1>5
<1>7. \A i \in 1..p : r[i] = q[i]
  BY <1>3
<1>8. \A i \in (p + 1)..Len(r) : g.resetAt <= r[i] + Minute
  <2> SUFFICES ASSUME NEW i \in (p + 1)..Len(r)
               PROVE  g.resetAt <= r[i] + Minute
    OBVIOUS
  <2>1. CASE i = Len(q) + 1
    BY <1>3, <1>4, <2>1
  <2>2. CASE i # Len(q) + 1
    <3>1. i \in (p + 1)..Len(q) /\ i \in 1..Len(q)
      BY <1>3, <2>2
    <3> QED  BY <1>2, <1>3, <1>4, <3>1 DEF Windows
  <2> QED  BY <2>1, <2>2
<1>9. r[p + 1] + Minute <= g.resetAt
  <2>1. p + 1 \in 1..Len(q)
    BY <1>3, <1>4, <1>5
  <2> QED  BY <1>2, <1>3, <1>4, <2>1 DEF Windows
<1>10. Windows(r, g, l, o, p)
  BY <1>2, <1>4, <1>6, <1>7, <1>8, <1>9 DEF Windows
<1>11. \A i \in 1..p : r[i] + Minute <= g.resetAt
  BY <1>1, <1>4, <1>7
<1>12. WindowsOf(r, g, l)
  <2>1. p \in 0..Len(r)
    BY <1>3
  <2> QED  BY <1>10, <1>11, <2>1 DEF WindowsOf
<1> QED  BY <1>12 DEF r, g


\* One above the limit changes nothing of what passed.
LEMMA CountsAboveLimit ==
  ASSUME NEW q \in Seq(Nat), NEW h \in [count : Nat, resetAt : Nat],
         NEW l \in Nat \ {0}, WindowsOf(q, h, l), h.count + 1 > l
  PROVE  WindowsOf(q, [h EXCEPT !.count = @ + 1], l)
<1> DEFINE g == [h EXCEPT !.count = @ + 1]
<1>1. PICK p \in 0..Len(q) : \E o \in 0..p :
        /\ Windows(q, h, l, o, p)
        /\ \A i \in 1..p : q[i] + Minute <= h.resetAt
  BY DEF WindowsOf
<1>2. PICK o \in 0..p : Windows(q, h, l, o, p)
  BY <1>1
<1>3. g.count = h.count + 1 /\ g.resetAt = h.resetAt /\ h.count \in Nat
  OBVIOUS
<1> HIDE DEF g
<1>4. h.count > 0 /\ (h.count <= l => h.count = l)
  BY <1>3
<1>5. Windows(q, g, l, o, p)
  BY <1>2, <1>3, <1>4 DEF Windows
<1>6. WindowsOf(q, g, l)
  BY <1>1, <1>3, <1>5 DEF WindowsOf
<1> QED  BY <1>6 DEF g

\* The first request after a window's end begins one, which it is the first
\* of; what was in the ended one, less its first, may yet be of this minute.
LEMMA BeginsWindow ==
  ASSUME NEW q \in Seq(Nat), NEW h \in [count : Nat, resetAt : Nat],
         NEW l \in Nat \ {0}, NEW now \in Nat, Minute \in Nat \ {0},
         WindowsOf(q, h, l), h.resetAt <= now,
         \A i \in 1..Len(q) : q[i] <= now
  PROVE  WindowsOf(Append(q, now), [count |-> 1, resetAt |-> now + Minute], l)
<1> DEFINE r == Append(q, now)
           g == [count |-> 1, resetAt |-> now + Minute]
<1>1. PICK p \in 0..Len(q) : \E o \in 0..p :
        /\ Windows(q, h, l, o, p)
        /\ \A i \in 1..p : q[i] + Minute <= h.resetAt
  BY DEF WindowsOf
<1>2. Len(q) - p = IF h.count <= l THEN h.count ELSE l
  BY <1>1 DEF Windows
<1>3. /\ Len(q) \in Nat /\ Len(r) = Len(q) + 1 /\ r[Len(q) + 1] = now
      /\ \A i \in 1..Len(q) : r[i] = q[i] /\ q[i] \in Nat
  <2>1. Len(q) \in Nat /\ \A i \in 1..Len(q) : q[i] \in Nat
    BY LenProperties, ElementOfSeq
  <2>2. /\ Len(r) = Len(q) + 1 /\ r[Len(q) + 1] = now
        /\ \A i \in 1..Len(q) : r[i] = q[i]
    BY AppendProperties
  <2> QED  BY <2>1, <2>2
<1>4. g.count = 1 /\ g.resetAt = now + Minute /\ h.count \in Nat /\ h.resetAt \in Nat
  OBVIOUS
<1> HIDE DEF r, g
<1> DEFINE o == IF h.count = 0 THEN p ELSE p + 1
<1>5. o \in 0..Len(q) /\ Len(q) - o < l
  BY <1>2, <1>3, <1>4
<1>6. \A i \in 1..o : r[i] + 2 * Minute <= g.resetAt
  <2> SUFFICES ASSUME NEW i \in 1..o
               PROVE  r[i] + 2 * Minute <= g.resetAt
    OBVIOUS
  <2>1. r[i] = q[i] /\ q[i] \in Nat
    BY <1>3, <1>5
  <2>2. q[i] + Minute <= h.resetAt
    <3>1. CASE i \in 1..p
      BY <1>1, <3>1
    <3>2. CASE i \notin 1..p
      <4>1. h.count > 0 /\ i = p + 1
        BY <1>4, <3>2
      <4> QED  BY <1>1, <4>1 DEF Windows
    <3> QED  BY <3>1, <3>2
  <2> DEFINE x == q[i]
             y == h.resetAt
  <2>3. /\ x \in Nat /\ y \in Nat /\ x + Minute <= y /\ y <= now
        /\ r[i] = x /\ g.resetAt = now + Minute
    BY <1>4, <2>1, <2>2
  <2> HIDE DEF x, y
  <2>4. x + 2 * Minute <= now + Minute
    BY <2>3
  <2> QED  BY <2>3, <2>4
<1>7. \A i \in (Len(q) + 1)..Len(r) : i = Len(q) + 1
  BY <1>3
<1>8. \A i \in 1..Len(q) : r[i] + Minute <= g.resetAt
  <2> HIDE DEF o
  <2> SUFFICES ASSUME NEW i \in 1..Len(q)
               PROVE  r[i] + Minute <= g.resetAt
    OBVIOUS
  <2>1. r[i] = q[i] /\ q[i] \in Nat /\ q[i] <= now
    BY <1>3
  <2> QED  BY <1>4, <2>1
<1> HIDE DEF o
<1>9. Windows(r, g, l, o, Len(q))
  BY <1>3, <1>4, <1>5, <1>6, <1>7 DEF Windows
<1>10. WindowsOf(r, g, l)
  <2>1. Len(q) \in 0..Len(r)
    BY <1>3
  <2> QED  BY <1>5, <1>8, <1>9, <2>1 DEF WindowsOf
<1> QED  BY <1>10 DEF r, g

LEMMA CountingKeeps ==
  ASSUME LimitersInv, NEW k \in Limiters, CountsHit(k), UNCHANGED clock
  PROVE  LimitersInv'
<1> DEFINE q == passed[k]
           h == hits[k]
           l == Limits[k[1]]
<1>1. /\ q \in Seq(Nat) /\ h \in [count : Nat, resetAt : Nat]
      /\ l \in Nat \ {0} /\ Minute \in Nat \ {0} /\ clock \in Nat
  BY LimitIsPositive DEF LimitersInv, LimitersOK
<1>2. /\ h.resetAt <= clock + Minute
      /\ h.resetAt > 0 => h.count > 0
      /\ \A i \in 1..Len(q) : q[i] <= clock
      /\ WindowsOf(q, h, l)
  BY DEF LimitersInv
<1>3. /\ hits' = [hits EXCEPT ![k] = Hit(k)]
      /\ passed' = IF Hit(k).count > l THEN passed
                   ELSE [passed EXCEPT ![k] = Append(q, clock)]
  BY DEF CountsHit, Exceeds
<1>4. Hit(k) = IF h.resetAt > clock THEN [h EXCEPT !.count = @ + 1]
               ELSE [count |-> 1, resetAt |-> clock + Minute]
  BY DEF Hit
<1>5. Append(q, clock) \in Seq(Nat)
  BY <1>1, AppendProperties
<1>6. /\ Hit(k) \in [count : Nat, resetAt : Nat] /\ Hit(k).count > 0
      /\ Hit(k).resetAt <= clock + Minute
  <2>1. CASE h.resetAt > clock
    BY <1>1, <1>2, <1>4, <2>1
  <2>2. CASE ~(h.resetAt > clock)
    BY <1>1, <1>4, <2>2
  <2> QED  BY <2>1, <2>2
<1>7. \A i \in 1..Len(Append(q, clock)) : Append(q, clock)[i] <= clock
  <2>1. /\ Len(q) \in Nat /\ Len(Append(q, clock)) = Len(q) + 1
        /\ Append(q, clock)[Len(q) + 1] = clock
        /\ \A i \in 1..Len(q) : Append(q, clock)[i] = q[i]
    BY <1>1, AppendProperties, LenProperties
  <2> QED  BY <1>1, <1>2, <2>1
<1>8. WindowsOf(IF Hit(k).count > l THEN q ELSE Append(q, clock), Hit(k), l)
  <2>1. CASE h.resetAt > clock
    <3>1. /\ Hit(k) = [h EXCEPT !.count = @ + 1]
          /\ Hit(k).count = h.count + 1 /\ h.count > 0
          /\ h.count \in Nat /\ h.resetAt \in Nat
      BY <1>1, <1>2, <1>4, <2>1
    <3>2. CASE Hit(k).count > l
      <4>1. h.count + 1 > l
        BY <3>1, <3>2
      <4>2. WindowsOf(q, [h EXCEPT !.count = @ + 1], l)
        BY <1>1, <1>2, <4>1, CountsAboveLimit
      <4> QED  BY <3>1, <3>2, <4>2
    <3>3. CASE ~(Hit(k).count > l)
      <4>1. h.count + 1 <= l
        BY <1>1, <3>1, <3>3
      <4>2. WindowsOf(Append(q, clock), [h EXCEPT !.count = @ + 1], l)
        BY <1>1, <1>2, <2>1, <3>1, <4>1, PassesInWindow
      <4> QED  BY <3>1, <3>3, <4>2
    <3> QED  BY <3>2, <3>3
  <2>2. CASE ~(h.resetAt > clock)
    <3>1. /\ Hit(k) = [count |-> 1, resetAt |-> clock + Minute]
          /\ ~(Hit(k).count > l) /\ h.resetAt <= clock
      BY <1>1, <1>4, <2>2
    <3>2. WindowsOf(Append(q, clock), [count |-> 1, resetAt |-> clock + Minute], l)
      BY <1>1, <1>2, <3>1, BeginsWindow
    <3> QED  BY <3>1, <3>2
  <2> QED  BY <2>1, <2>2
<1>9. LimitersOK'
  BY <1>3, <1>5, <1>6 DEF LimitersInv, LimitersOK
<1>10. /\ hits'[k] = Hit(k)
       /\ passed'[k] = IF Hit(k).count > l THEN q ELSE Append(q, clock)
       /\ \A j \in Limiters \ {k} : hits'[j] = hits[j] /\ passed'[j] = passed[j]
  BY <1>3 DEF LimitersInv, LimitersOK
<1>11. ASSUME NEW j \in Limiters
       PROVE  /\ hits'[j].resetAt <= clock' + Minute
              /\ hits'[j].resetAt > 0 => hits'[j].count > 0
              /\ \A i \in 1..Len(passed'[j]) : passed'[j][i] <= clock'
              /\ WindowsOf(passed'[j], hits'[j], Limits[j[1]])
  <2>1. CASE j = k
    BY <1>2, <1>6, <1>7, <1>8, <1>10, <2>1
  <2>2. CASE j # k
    <3>1. hits'[j] = hits[j] /\ passed'[j] = passed[j]
      BY <1>10, <2>2
    <3> QED  BY <3>1 DEF LimitersInv
  <2> QED  BY <2>1, <2>2
<1> QED  BY <1>9, <1>11 DEF LimitersInv

LEMMA LimitersStep ==
  ASSUME LimitersInv, [AssuranceNext]_assuranceVars
  PROVE  LimitersInv'
<1>1. ASSUME NEW v \in Visitors,
             Analyze(v) \/ \E t \in Targets : MutationRequest(v, t)
      PROVE  LimitersInv'
  <2>1. <<"analyses", v>> \in Limiters
        /\ \A t \in Targets : <<"mutations", v, t>> \in Limiters
    BY DEF Limiters
  <2>2. UNCHANGED clock /\ \E k \in Limiters : CountsHit(k)
    BY <1>1, <2>1 DEF MutationRequest, Analyze
  <2> QED  BY <2>2, CountingKeeps
<1>2. CASE UNCHANGED <<clock, hits, passed>>
  BY <1>2 DEF LimitersInv, LimitersOK
<1>3. CASE ClockTicks
  <2>1. clock' = clock + 1 /\ UNCHANGED <<hits, passed>> /\ clock \in Nat
    BY <1>3 DEF ClockTicks, LimitersInv, LimitersOK
  <2>2. LimitersOK'
    BY <2>1 DEF LimitersInv, LimitersOK
  <2>3. ASSUME NEW k \in Limiters
        PROVE  /\ hits[k].resetAt <= clock' + Minute
               /\ \A i \in 1..Len(passed[k]) : passed[k][i] <= clock'
    <3>1. /\ hits[k] \in [count : Nat, resetAt : Nat]
          /\ \A i \in 1..Len(passed[k]) : passed[k][i] \in Nat
          /\ Minute \in Nat
      BY LimitIsPositive, ElementOfSeq DEF LimitersInv, LimitersOK
    <3> QED  BY <2>1, <3>1 DEF LimitersInv
  <2> QED  BY <2>1, <2>2, <2>3 DEF LimitersInv
<1>4. ASSUME NEW n \in DOMAIN analyses, ModelAnswers(n) \/ ModelFails(n) \/ TimesOut(n)
      PROVE  UNCHANGED <<clock, hits, passed>>
  BY <1>4 DEF ModelAnswers, ModelFails, TimesOut
<1> QED  BY <1>1, <1>2, <1>3, <1>4 DEF AssuranceNext, assuranceVars

LEMMA LimitersHold ==
  ASSUME LimitersInv
  PROVE  RateHolds
<1> SUFFICES ASSUME NEW k \in Limiters
             PROVE  /\ InLastMinute(k) < 2 * Limits[k[1]]
                    /\ hits[k].count > Limits[k[1]] /\ hits[k].resetAt > clock
                         => InLastMinute(k) >= Limits[k[1]]
  BY DEF RateHolds
<1> DEFINE q == passed[k]
           h == hits[k]
           l == Limits[k[1]]
           Late == {n \in DOMAIN q : q[n] + Minute > clock}
<1>1. /\ q \in Seq(Nat) /\ h \in [count : Nat, resetAt : Nat]
      /\ l \in Nat \ {0} /\ Minute \in Nat \ {0} /\ clock \in Nat
      /\ h.resetAt <= clock + Minute /\ WindowsOf(q, h, l)
  BY LimitIsPositive DEF LimitersInv, LimitersOK
<1>2. /\ Len(q) \in Nat /\ DOMAIN q = 1..Len(q)
      /\ \A i \in 1..Len(q) : q[i] \in Nat
  BY <1>1, LenProperties, ElementOfSeq
<1>3. InLastMinute(k) = Cardinality(Late)
  BY DEF InLastMinute
<1> HIDE DEF q, h, l
<1>4. PICK p \in 0..Len(q) : \E o \in 0..p : Windows(q, h, l, o, p)
  BY <1>1 DEF WindowsOf
<1>5. PICK o \in 0..p : Windows(q, h, l, o, p)
  BY <1>4
<1>6. Len(q) - p <= l /\ p - o < l /\ h.count \in Nat /\ h.resetAt \in Nat
  BY <1>1, <1>5 DEF Windows
<1>7. Late \subseteq (o + 1)..Len(q)
  <2> SUFFICES ASSUME NEW i \in Late PROVE i \in (o + 1)..Len(q)
    OBVIOUS
  <2>1. i \in 1..Len(q) /\ q[i] + Minute > clock /\ q[i] \in Nat
    BY <1>2
  <2>2. i \notin 1..o
    <3> SUFFICES ASSUME i \in 1..o PROVE FALSE
      OBVIOUS
    <3> DEFINE x == q[i]
               y == h.resetAt
    <3>1. x + 2 * Minute <= y
      BY <1>5 DEF Windows
    <3>2. x \in Nat /\ y \in Nat /\ x + Minute > clock /\ y <= clock + Minute
          /\ Minute \in Nat /\ clock \in Nat
      BY <1>1, <1>6, <2>1
    <3> HIDE DEF x, y
    <3> QED  BY <3>1, <3>2
  <2> QED  BY <1>2, <2>1, <2>2
<1>8. /\ IsFiniteSet((o + 1)..Len(q)) /\ Cardinality((o + 1)..Len(q)) < 2 * l
  <2>1. o + 1 \in Int /\ Len(q) \in Int
    BY <1>2
  <2>2. /\ IsFiniteSet((o + 1)..Len(q))
        /\ Cardinality((o + 1)..Len(q)) = IF o + 1 > Len(q) THEN 0 ELSE Len(q) - (o + 1) + 1
    BY <2>1, FS_Interval
  <2> QED  BY <1>1, <1>2, <1>6, <2>2
<1>9. /\ IsFiniteSet(Late) /\ Cardinality(Late) \in Nat
      /\ Cardinality(Late) < 2 * l
  <2>1. IsFiniteSet(Late) /\ Cardinality(Late) <= Cardinality((o + 1)..Len(q))
    BY <1>7, <1>8, FS_Subset
  <2>2. Cardinality(Late) \in Nat /\ Cardinality((o + 1)..Len(q)) \in Nat
    BY <1>8, <2>1, FS_CardinalityType
  <2> QED  BY <1>1, <1>8, <2>1, <2>2
<1>10. ASSUME h.count > l, h.resetAt > clock
       PROVE  Cardinality(Late) >= l
  <2>1. Len(q) - p = l
    BY <1>1, <1>5, <1>6, <1>10 DEF Windows
  <2>2. (p + 1)..Len(q) \subseteq Late
    <3> SUFFICES ASSUME NEW i \in (p + 1)..Len(q) PROVE i \in Late
      OBVIOUS
    <3>1. i \in 1..Len(q) /\ q[i] \in Nat
      BY <1>2
    <3>2. h.resetAt <= q[i] + Minute
      BY <1>5 DEF Windows
    <3> QED  BY <1>1, <1>2, <1>6, <1>10, <3>1, <3>2
  <2>3. p + 1 \in Int /\ Len(q) \in Int
    BY <1>2
  <2>4. Cardinality((p + 1)..Len(q)) = l
    <3>1. Cardinality((p + 1)..Len(q)) = IF p + 1 > Len(q) THEN 0 ELSE Len(q) - (p + 1) + 1
      BY <2>3, FS_Interval
    <3>2. ~(p + 1 > Len(q)) /\ Len(q) - (p + 1) + 1 = l
      <4>1. p \in Nat /\ Len(q) \in Nat /\ l \in Nat /\ l > 0
        BY <1>1, <1>2
      <4> QED  BY <2>1, <4>1
    <3> QED  BY <3>1, <3>2
  <2>5. Cardinality((p + 1)..Len(q)) <= Cardinality(Late)
    BY <1>9, <2>2, FS_Subset
  <2> QED  BY <2>4, <2>5, <1>9, <1>1
<1> HIDE DEF Late
<1> QED  BY <1>3, <1>9, <1>10 DEF h, l

(***************************************************************************)
(* Whatever the limits, the minute and the order in which requests come:   *)
(* nobody is let through twice as often as a limit says in any minute, and *)
(* who is turned away has been let through as often as it says, by the     *)
(* windows of api/server.ts and api/routes.ts.                             *)
(***************************************************************************)
THEOREM RateAlwaysHolds == AssuranceSpec => []RateHolds
<1>1. LimitersInv /\ [AssuranceNext]_assuranceVars => LimitersInv'
  BY LimitersStep
<1>2. LimitersInv => RateHolds
  BY LimitersHold
<1> QED  BY LimitersInitially, <1>1, <1>2, PTL DEF AssuranceSpec


-----------------------------------------------------------------------------
(* The slash scripts.  For what a script will report, its calls still hold *)
(* the resolve, or the action is slashed; and they still hold the          *)
(* challenge with the attestation, or the action is about its invoice.     *)

SlashSpec == SlashInit /\ [][SlashNext]_slashVars

SlashInvoices == [kind : {"duplicate", "delivery", "paid"}, run : Nat, at : Int]
SlashStatuses == {"Initiated", "Bonded", "Executed", "Challenged",
                  "ResolvedSlash", "ResolvedRefund"}
SlashActions == [invoice : SlashInvoices, status : SlashStatuses,
                 bond : Int, duplicate : BOOLEAN]
Chains == [actions : Seq(SlashActions), invoices : SUBSET SlashInvoices,
           score : Int, allowance : Int]
Attestations == [number : Int, invoice : SlashInvoices]
Entries == {"submit", "initiate", "approve", "post", "execute", "challenge", "resolve"}
ScriptCallRecords ==
  [entry : Entries, number : Int, invoice : SlashInvoices,
   attested : SUBSET Attestations]
Reports == [number : Int, invoice : SUBSET SlashInvoices]

SlashOK ==
  /\ chain \in Chains
  /\ late \subseteq ScriptCallRecords
  /\ runs \in Nat
  /\ running \in [calls : Seq(ScriptCallRecords), report : SUBSET Reports]
  /\ shown \subseteq Reports

Resolves(c, r) == c.entry = "resolve" /\ c.number = r.number
Attests(c, r) ==
  /\ c.entry = "challenge" /\ c.number = r.number
  /\ \E i \in r.invoice : r.invoice = {i} /\ c.attested = {[number |-> r.number, invoice |-> i]}

IsSlashed(r) == Stands(r.number, "ResolvedSlash")
IsAbout(r) == r.number \in Numbers /\ r.invoice \subseteq {chain.actions[r.number].invoice}

ReportIsComing(r) ==
  /\ IsSlashed(r) \/ \E j \in 1..Len(running.calls) : Resolves(running.calls[j], r)
  /\ \/ r.invoice = {} \/ IsAbout(r)
     \/ \E j \in 1..Len(running.calls) : Attests(running.calls[j], r)

SlashInv ==
  /\ SlashOK
  /\ \A r \in running.report : ReportIsComing(r)
  /\ ReportIsSlash

LEMMA SlashInitially == SlashInit => SlashInv
<1> SUFFICES ASSUME SlashInit PROVE SlashInv
  OBVIOUS
<1>1. <<>> \in Seq(SlashActions) /\ <<>> \in Seq(ScriptCallRecords)
  BY EmptySeq
<1>2. chain \in Chains /\ running \in [calls : Seq(ScriptCallRecords), report : SUBSET Reports]
  BY <1>1 DEF SlashInit, NotRunning, Chains
<1> QED  BY <1>2 DEF SlashInit, SlashInv, SlashOK, ReportIsSlash, NotRunning

\* What a slash is about, and that it is one, is settled for good.
Keeps(new) ==
  /\ new \in Chains
  /\ \A n \in Numbers :
       /\ n \in DOMAIN new.actions
       /\ new.actions[n].invoice = chain.actions[n].invoice
       /\ chain.actions[n].status = "ResolvedSlash" =>
            new.actions[n].status = "ResolvedSlash"

LEMMA ActionsAt ==
  ASSUME chain \in Chains
  PROVE  /\ Numbers = 1..Len(chain.actions) /\ Len(chain.actions) \in Nat
         /\ chain.actions \in Seq(SlashActions)
         /\ \A n \in Numbers : chain.actions[n] \in SlashActions
<1>1. chain.actions \in Seq(SlashActions)
  BY DEF Chains
<1> QED  BY <1>1, LenProperties, ElementOfSeq DEF Numbers

LEMMA WithKeeps ==
  ASSUME chain \in Chains, NEW n \in Numbers, NEW status \in SlashStatuses,
         chain.actions[n].status # "ResolvedSlash"
  PROVE  /\ Keeps(With(n, status))
         /\ n \in DOMAIN With(n, status).actions
         /\ With(n, status).actions[n].status = status
         /\ With(n, status).actions[n] \in SlashActions
         /\ DOMAIN With(n, status).actions = Numbers
<1> DEFINE s == chain.actions
           a == [s[n] EXCEPT !.status = status]
           t == [s EXCEPT ![n] = a]
<1>1. /\ s \in Seq(SlashActions) /\ Numbers = 1..Len(s) /\ s[n] \in SlashActions
      /\ n \in 1..Len(s)
  BY ActionsAt
<1>2. a \in SlashActions /\ a.status = status /\ a.invoice = s[n].invoice
  BY <1>1 DEF SlashActions
<1>3. With(n, status) = [chain EXCEPT !.actions = t]
  BY DEF With
<1> HIDE DEF a
<1>4. /\ t \in Seq(SlashActions) /\ Len(t) = Len(s)
  BY <1>1, <1>2, ExceptSeq
<1>5. DOMAIN t = Numbers /\ \A m \in Numbers : t[m] = IF m = n THEN a ELSE s[m]
  BY <1>1, <1>4, LenProperties
<1> HIDE DEF t
<1>6. With(n, status) \in Chains /\ With(n, status).actions = t
  BY <1>3, <1>4 DEF Chains
<1> QED  BY <1>2, <1>5, <1>6 DEF Keeps


LEMMA InitiateKeeps ==
  ASSUME chain \in Chains, NEW i \in SlashInvoices, NEW b \in Int,
         NEW more \in SUBSET SlashInvoices,
         NEW new, new = [chain EXCEPT
           !.actions = Append(@, [invoice |-> i, status |-> "Initiated",
                                  bond |-> b, duplicate |-> FALSE]),
           !.invoices = @ \cup more]
  PROVE  Keeps(new)
<1> DEFINE a == [invoice |-> i, status |-> "Initiated", bond |-> b, duplicate |-> FALSE]
           s == chain.actions
           t == Append(s, a)
<1>1. a \in SlashActions
  BY DEF SlashActions, SlashStatuses
<1>2. s \in Seq(SlashActions) /\ Numbers = 1..Len(s) /\ Len(s) \in Nat
  BY ActionsAt
<1> HIDE DEF a, s
<1>3. /\ t \in Seq(SlashActions) /\ Len(t) = Len(s) + 1
      /\ \A n \in 1..Len(s) : t[n] = s[n]
  BY <1>1, <1>2, AppendProperties
<1>4. Numbers \subseteq DOMAIN t
  BY <1>2, <1>3, LenProperties
<1> HIDE DEF t
<1>5. new = [chain EXCEPT !.actions = t, !.invoices = @ \cup more]
  BY DEF a, s, t
<1>6. new \in Chains /\ new.actions = t
  BY <1>3, <1>5 DEF Chains
<1> QED  BY <1>2, <1>3, <1>4, <1>6 DEF Keeps, s

LEMMA RequiredIsInt ==
  ASSUME chain \in Chains
  PROVE  RequiredNow \in Int
<1>1. chain.score \in Int
  BY DEF Chains
<1> QED  BY <1>1 DEF RequiredNow

LEMMA AmountsAside ==
  ASSUME NEW w \in Chains, NEW x \in Int
  PROVE  /\ [w EXCEPT !.score = x] \in Chains
         /\ [w EXCEPT !.score = x].actions = w.actions
         /\ [w EXCEPT !.allowance = x] \in Chains
         /\ [w EXCEPT !.allowance = x].actions = w.actions
  BY DEF Chains

\* Only what was executed and challenged is resolved, and an attestation is
\* about the action that it is challenged with.
LEMMA DoesKeeps ==
  ASSUME chain \in Chains, NEW c \in ScriptCallRecords, Does(c)
  PROVE  /\ Keeps(chain')
         /\ c.entry = "resolve" => Stands(c.number, "ResolvedSlash")'
         /\ c.entry = "challenge" /\ c.attested # {} =>
              c.number \in Numbers /\ Contradicts(c.number, c)
<1>1. /\ Takes(c) /\ chain' = Then(c) /\ c.entry \in Entries
      /\ c.invoice \in SlashInvoices /\ c.number \in Int
  BY DEF Does, ScriptCallRecords
<1>2. CASE c.entry = "submit"
  <2>1. chain' = [chain EXCEPT !.invoices = @ \cup {c.invoice}]
    BY <1>1, <1>2 DEF Then
  <2>2. chain' \in Chains /\ chain'.actions = chain.actions
    BY <1>1, <2>1 DEF Chains
  <2> QED  BY <1>2, <2>2 DEF Keeps, Numbers
<1>3. CASE c.entry = "initiate"
  <2>1. chain' = [chain EXCEPT
          !.actions = Append(@, [invoice |-> c.invoice, status |-> "Initiated",
                                 bond |-> RequiredNow, duplicate |-> FALSE]),
          !.invoices = @ \cup {}]
    BY <1>1, <1>3 DEF Then, Chains
  <2> QED  BY <1>1, <1>3, <2>1, RequiredIsInt, InitiateKeeps
<1>4. CASE c.entry = "approve"
  <2>1. chain' = [chain EXCEPT !.allowance = c.number]
    BY <1>1, <1>4 DEF Then
  <2>2. chain' \in Chains /\ chain'.actions = chain.actions
    BY <1>1, <2>1 DEF Chains
  <2> QED  BY <1>4, <2>2 DEF Keeps, Numbers
<1> DEFINE n == c.number
<1>5. CASE c.entry = "post"
  <2>1. n \in Numbers /\ chain.actions[n].status = "Initiated"
    BY <1>1, <1>5 DEF Takes, Stands
  <2>2. chain' = [With(n, "Bonded") EXCEPT !.allowance = @ - chain.actions[n].bond]
    BY <1>1, <1>5 DEF Then
  <2>3. Keeps(With(n, "Bonded"))
    BY <2>1, WithKeeps DEF SlashStatuses
  <2>4. chain.actions[n].bond \in Int
    BY <2>1, ActionsAt DEF SlashActions
  <2>5. chain' \in Chains /\ chain'.actions = With(n, "Bonded").actions
    <3> DEFINE w == With(n, "Bonded")
               x == w.allowance - chain.actions[n].bond
    <3>1. w \in Chains
      BY <2>3 DEF Keeps
    <3>2. chain' = [w EXCEPT !.allowance = x]
      BY <2>2
    <3> HIDE DEF w
    <3>3. x \in Int
      BY <2>4, <3>1 DEF Chains
    <3> HIDE DEF x
    <3>4. chain' \in Chains /\ chain'.actions = w.actions
      BY <3>1, <3>2, <3>3, AmountsAside
    <3> QED  BY <3>4 DEF w
  <2> QED  BY <1>5, <2>3, <2>5 DEF Keeps
<1>6. CASE c.entry = "execute"
  <2> DEFINE w == With(n, "Executed")
             d == \E m \in Executed : SameClaim(chain.actions[m].invoice, chain.actions[n].invoice)
             a == [w.actions[n] EXCEPT !.duplicate = d]
  <2>1. n \in Numbers /\ chain.actions[n].status = "Bonded"
    BY <1>1, <1>6 DEF Takes, Stands
  <2>2. chain' = [w EXCEPT !.actions[n].duplicate = d]
    BY <1>1, <1>6 DEF Then
  <2>3. /\ Keeps(w) /\ DOMAIN w.actions = Numbers
        /\ w.actions[n] \in SlashActions
    BY <2>1, WithKeeps DEF SlashStatuses
  <2>4. w.actions \in Seq(SlashActions) /\ DOMAIN w.actions = 1..Len(w.actions)
    BY <2>3, LenProperties DEF Keeps, Chains
  <2>5. d \in BOOLEAN
    OBVIOUS
  <2> HIDE DEF d, w, n
  <2>6. /\ a \in SlashActions /\ a.invoice = w.actions[n].invoice
        /\ a.status = w.actions[n].status
    BY <2>3, <2>5 DEF SlashActions
  <2>7. chain' = [w EXCEPT !.actions = [w.actions EXCEPT ![n] = a]]
    BY <2>2
  <2> HIDE DEF a
  <2>8. n \in 1..Len(w.actions)
    BY <2>1, <2>3, <2>4
  <2>9. /\ [w.actions EXCEPT ![n] = a] \in Seq(SlashActions)
        /\ DOMAIN [w.actions EXCEPT ![n] = a] = Numbers
        /\ \A m \in Numbers : [w.actions EXCEPT ![n] = a][m] = IF m = n THEN a ELSE w.actions[m]
    BY <2>3, <2>4, <2>6, <2>8, ExceptSeq
  <2>10. chain' \in Chains /\ chain'.actions = [w.actions EXCEPT ![n] = a]
    BY <2>3, <2>7, <2>9 DEF Keeps, Chains
  <2>11. Keeps(chain')
    BY <2>3, <2>6, <2>9, <2>10 DEF Keeps
  <2> QED  BY <1>6, <2>11
<1>7. CASE c.entry = "challenge"
  <2>1. n \in Numbers /\ chain.actions[n].status = "Executed"
    BY <1>1, <1>7 DEF Takes, Stands
  <2>2. chain' = With(n, "Challenged")
    BY <1>1, <1>7 DEF Then
  <2>3. Keeps(chain')
    BY <2>1, <2>2, WithKeeps DEF SlashStatuses
  <2>4. c.attested # {} => Contradicts(n, c)
    BY <1>1, <1>7 DEF Takes
  <2> QED  BY <1>7, <2>1, <2>3, <2>4
<1>8. CASE c.entry = "resolve"
  <2>1. n \in Numbers /\ chain.actions[n].status = "Challenged"
    BY <1>1, <1>8 DEF Takes, Stands
  <2>2. chain' = [With(n, "ResolvedSlash") EXCEPT !.score = @ - 50]
    BY <1>1, <1>8 DEF Then
  <2>3. /\ Keeps(With(n, "ResolvedSlash"))
        /\ n \in DOMAIN With(n, "ResolvedSlash").actions
        /\ With(n, "ResolvedSlash").actions[n].status = "ResolvedSlash"
    BY <2>1, WithKeeps DEF SlashStatuses
  <2>4. chain' \in Chains /\ chain'.actions = With(n, "ResolvedSlash").actions
    <3> DEFINE w == With(n, "ResolvedSlash")
               x == w.score - 50
    <3>1. w \in Chains
      BY <2>3 DEF Keeps
    <3>2. chain' = [w EXCEPT !.score = x]
      BY <2>2
    <3> HIDE DEF w
    <3>3. x \in Int
      BY <3>1 DEF Chains
    <3> HIDE DEF x
    <3>4. chain' \in Chains /\ chain'.actions = w.actions
      BY <3>1, <3>2, <3>3, AmountsAside
    <3> QED  BY <3>4 DEF w
  <2>5. Keeps(chain') /\ Stands(n, "ResolvedSlash")'
    BY <2>3, <2>4 DEF Keeps, Stands, Numbers
  <2> QED  BY <1>8, <2>5 DEF n
<1> QED  BY <1>1, <1>2, <1>3, <1>4, <1>5, <1>6, <1>7, <1>8 DEF Entries

\* What is shown or will be is not disturbed by what the contracts do.
LEMMA KeptReports ==
  ASSUME SlashInv, Keeps(chain')
  PROVE  /\ chain' \in Chains
         /\ \A r \in Reports : IsSlashed(r) => IsSlashed(r)'
         /\ \A r \in Reports : IsAbout(r) => IsAbout(r)'
         /\ \A r \in shown : IsSlashed(r)' /\ r.invoice \subseteq {chain'.actions[r.number].invoice}
<1>1. \A r \in Reports : IsSlashed(r) => IsSlashed(r)'
  BY DEF Keeps, IsSlashed, Stands, Numbers
<1>2. \A r \in Reports : IsAbout(r) => IsAbout(r)'
  BY DEF Keeps, IsAbout, Numbers
<1>3. ASSUME NEW r \in shown
      PROVE  IsSlashed(r)' /\ r.invoice \subseteq {chain'.actions[r.number].invoice}
  <2>1. r \in Reports /\ IsSlashed(r) /\ r.invoice \subseteq {chain.actions[r.number].invoice}
    BY DEF SlashInv, SlashOK, ReportIsSlash, IsSlashed
  <2>2. IsAbout(r)
    BY <2>1 DEF IsAbout, IsSlashed, Stands
  <2> QED  BY <1>1, <1>2, <2>1, <2>2 DEF IsAbout
<1> QED  BY <1>1, <1>2, <1>3 DEF Keeps

\* The script stands still, and the contracts do something or nothing.
LEMMA ChainMoves ==
  ASSUME SlashInv, Keeps(chain') \/ UNCHANGED chain,
         running' = running \/ running' = NotRunning,
         UNCHANGED <<runs, shown>>, late' \subseteq ScriptCallRecords
  PROVE  SlashInv'
<1>1. Keeps(chain')
  BY DEF Keeps, SlashInv, SlashOK, Numbers
<1>2. running' \in [calls : Seq(ScriptCallRecords), report : SUBSET Reports]
  <2>1. <<>> \in Seq(ScriptCallRecords)
    BY EmptySeq
  <2>2. NotRunning \in [calls : Seq(ScriptCallRecords), report : SUBSET Reports]
    BY <2>1 DEF NotRunning
  <2> QED  BY <2>2 DEF SlashInv, SlashOK
<1>3. SlashOK'
  BY <1>1, <1>2 DEF Keeps, SlashInv, SlashOK
<1>4. ReportIsSlash'
  BY <1>1, KeptReports DEF ReportIsSlash, IsSlashed
<1>5. ASSUME NEW r \in running'.report PROVE ReportIsComing(r)'
  <2>1. running' = running
    BY <1>5 DEF NotRunning
  <2>2. r \in running.report /\ r \in Reports /\ ReportIsComing(r)
    BY <2>1 DEF SlashInv, SlashOK
  <2> QED  BY <1>1, <2>1, <2>2, KeptReports DEF ReportIsComing
<1> QED  BY <1>3, <1>4, <1>5 DEF SlashInv


\* The script makes its next call.
LEMMA CallKeeps ==
  ASSUME SlashInv, ScriptCalls
  PROVE  SlashInv'
<1> DEFINE calls == running.calls
<1>1. /\ calls # <<>> /\ calls \in Seq(ScriptCallRecords)
      /\ UNCHANGED <<late, runs, shown>>
  BY DEF ScriptCalls, SlashInv, SlashOK
<1>2. /\ Head(calls) \in ScriptCallRecords
      /\ Tail(calls) \in Seq(ScriptCallRecords)
      /\ Len(Tail(calls)) = Len(calls) - 1 /\ Len(calls) \in Nat
      /\ \A j \in 1..Len(Tail(calls)) : Tail(calls)[j] = calls[j + 1]
      /\ Head(calls) = calls[1]
  BY <1>1, HeadTailProperties, LenProperties
<1> PICK c \in ScriptCallRecords : c = Head(calls)
  BY <1>2
<1>3. CASE running' = NotRunning /\ UNCHANGED chain
  BY <1>1, <1>3, ChainMoves DEF SlashInv, SlashOK
<1>4. CASE Does(c) /\ running' = [running EXCEPT !.calls = Tail(calls)]
  <2>1. /\ Keeps(chain')
        /\ c.entry = "resolve" => Stands(c.number, "ResolvedSlash")'
        /\ c.entry = "challenge" /\ c.attested # {} =>
             c.number \in Numbers /\ Contradicts(c.number, c)
    BY <1>2, <1>4, DoesKeeps DEF SlashInv, SlashOK
  <2>2. /\ running' \in [calls : Seq(ScriptCallRecords), report : SUBSET Reports]
        /\ running'.calls = Tail(calls) /\ running'.report = running.report
    BY <1>2, <1>4 DEF SlashInv, SlashOK
  <2>3. SlashOK'
    BY <1>1, <2>1, <2>2, KeptReports DEF SlashInv, SlashOK
  <2>4. ReportIsSlash'
    BY <1>1, <2>1, KeptReports DEF ReportIsSlash, IsSlashed
  <2>5. \A j \in 1..Len(calls) : calls[j] = c \/
          \E i \in 1..Len(Tail(calls)) : Tail(calls)[i] = calls[j]
    <3> SUFFICES ASSUME NEW j \in 1..Len(calls), j # 1
                 PROVE  \E i \in 1..Len(Tail(calls)) : Tail(calls)[i] = calls[j]
      BY <1>2
    <3>1. j - 1 \in 1..Len(Tail(calls)) /\ (j - 1) + 1 = j
      BY <1>2
    <3> QED  BY <1>2, <3>1
  <2>6. ASSUME NEW r \in running'.report PROVE ReportIsComing(r)'
    <3>1. r \in running.report /\ r \in Reports /\ ReportIsComing(r)
      BY <2>2 DEF SlashInv, SlashOK
    <3>2. /\ IsSlashed(r) => IsSlashed(r)'
          /\ IsAbout(r) => IsAbout(r)'
      BY <2>1, <3>1, KeptReports
    <3>3. IsSlashed(r)' \/ \E j \in 1..Len(Tail(calls)) : Resolves(Tail(calls)[j], r)
      <4>1. CASE Resolves(c, r)
        BY <2>1, <4>1 DEF Resolves, IsSlashed
      <4>2. CASE ~Resolves(c, r)
        BY <2>5, <3>1, <3>2, <4>2 DEF ReportIsComing
      <4> QED  BY <4>1, <4>2
    <3>4. \/ r.invoice = {} \/ IsAbout(r)'
          \/ \E j \in 1..Len(Tail(calls)) : Attests(Tail(calls)[j], r)
      <4>1. CASE Attests(c, r)
        <5>1. PICK i \in r.invoice : r.invoice = {i} /\ c.attested = {[number |-> r.number, invoice |-> i]}
          BY <4>1 DEF Attests
        <5>2. /\ r.number \in Numbers
              /\ c.attested = {[number |-> r.number, invoice |-> chain.actions[r.number].invoice]}
          BY <2>1, <4>1, <5>1 DEF Attests, Contradicts
        <5>3. [number |-> r.number, invoice |-> i]
                = [number |-> r.number, invoice |-> chain.actions[r.number].invoice]
          BY <5>1, <5>2
        <5>4. i = chain.actions[r.number].invoice
          BY <5>3
        <5>5. IsAbout(r)
          BY <5>1, <5>2, <5>4 DEF IsAbout
        <5> QED  BY <3>2, <5>5
      <4>2. CASE ~Attests(c, r)
        BY <2>5, <3>1, <3>2, <4>2 DEF ReportIsComing
      <4> QED  BY <4>1, <4>2
    <3> QED  BY <2>2, <3>3, <3>4 DEF ReportIsComing
  <2> QED  BY <2>3, <2>4, <2>6 DEF SlashInv
<1> QED  BY <1>3, <1>4 DEF ScriptCalls

LEMMA ReportKeeps ==
  ASSUME SlashInv, ScriptReports
  PROVE  SlashInv'
<1>1. /\ running.calls = <<>> /\ running' = NotRunning
      /\ shown' = shown \cup running.report
      /\ UNCHANGED <<chain, late, runs>>
  BY DEF ScriptReports
<1>2. SlashOK'
  <2>1. <<>> \in Seq(ScriptCallRecords)
    BY EmptySeq
  <2>2. NotRunning \in [calls : Seq(ScriptCallRecords), report : SUBSET Reports]
    BY <2>1 DEF NotRunning
  <2> QED  BY <1>1, <2>2 DEF SlashInv, SlashOK
<1>3. ASSUME NEW r \in running.report
      PROVE  IsSlashed(r) /\ r.invoice \subseteq {chain.actions[r.number].invoice}
  <2>1. 1..Len(running.calls) = {}
    BY <1>1, EmptySeq
  <2>2. IsSlashed(r) /\ (r.invoice = {} \/ IsAbout(r))
    BY <2>1 DEF SlashInv, ReportIsComing
  <2> QED  BY <2>2 DEF IsAbout
<1>4. ReportIsSlash'
  BY <1>1, <1>3 DEF SlashInv, ReportIsSlash, IsSlashed, Stands, Numbers
<1>5. running'.report = {}
  BY <1>1 DEF NotRunning
<1> QED  BY <1>2, <1>4, <1>5 DEF SlashInv

\* A script begins with the calls that its report rests on.
LEMMA RunKeeps ==
  ASSUME SlashInv, NEW calls \in Seq(ScriptCallRecords), NEW report \in SUBSET Reports,
         RunBegins(calls, report),
         \A r \in report :
           /\ \E j \in 1..Len(calls) : Resolves(calls[j], r)
           /\ r.invoice = {} \/ \E j \in 1..Len(calls) : Attests(calls[j], r)
  PROVE  SlashInv'
<1>1. /\ running' = [calls |-> calls, report |-> report] /\ runs' = runs + 1
      /\ UNCHANGED <<chain, late, shown>>
  BY DEF RunBegins
<1>2. /\ running' \in [calls : Seq(ScriptCallRecords), report : SUBSET Reports]
      /\ running'.calls = calls /\ running'.report = report
  BY <1>1
<1>3. SlashOK'
  BY <1>1, <1>2 DEF SlashInv, SlashOK
<1>4. ReportIsSlash'
  BY <1>1 DEF SlashInv, ReportIsSlash, Stands, Numbers
<1>5. \A r \in running'.report : ReportIsComing(r)'
  BY <1>2 DEF ReportIsComing
<1> QED  BY <1>3, <1>4, <1>5 DEF SlashInv

LEMMA CallsAre ==
  ASSUME NEW e \in Entries, NEW m \in Int, NEW i \in SlashInvoices,
         NEW attested \in SUBSET Attestations
  PROVE  CallOf(e, m, i, attested) \in ScriptCallRecords
  BY DEF CallOf, ScriptCallRecords

LEMMA PaysForCalls ==
  ASSUME NEW n \in Int, NEW i \in SlashInvoices, NEW b \in Int
  PROVE  PaysFor(n, i, b) \in Seq(ScriptCallRecords) /\ Len(PaysFor(n, i, b)) = 5
<1>1. /\ CallOf("submit", 0, i, {}) \in ScriptCallRecords
      /\ CallOf("initiate", 0, i, {}) \in ScriptCallRecords
      /\ CallOf("approve", b, i, {}) \in ScriptCallRecords
      /\ CallOf("post", n, i, {}) \in ScriptCallRecords
      /\ CallOf("execute", n, i, {}) \in ScriptCallRecords
  BY CallsAre DEF Entries
<1> QED  BY <1>1 DEF PaysFor

LEMMA SlashesCalls ==
  ASSUME NEW n \in Int, NEW i \in SlashInvoices, NEW attested \in SUBSET Attestations
  PROVE  /\ Slashes(n, i, attested) \in Seq(ScriptCallRecords)
         /\ Len(Slashes(n, i, attested)) = 2
         /\ Slashes(n, i, attested)[1] = CallOf("challenge", n, i, attested)
         /\ Slashes(n, i, attested)[2] = CallOf("resolve", n, i, {})
<1>1. /\ CallOf("challenge", n, i, attested) \in ScriptCallRecords
      /\ CallOf("resolve", n, i, {}) \in ScriptCallRecords
  BY CallsAre DEF Entries
<1> QED  BY <1>1 DEF Slashes

LEMMA Joined ==
  ASSUME NEW s1 \in Seq(ScriptCallRecords), NEW s2 \in Seq(ScriptCallRecords)
  PROVE  /\ s1 \o s2 \in Seq(ScriptCallRecords)
         /\ Len(s1 \o s2) = Len(s1) + Len(s2)
         /\ \A j \in 1..(Len(s1) + Len(s2)) :
              (s1 \o s2)[j] = IF j <= Len(s1) THEN s1[j] ELSE s2[j - Len(s1)]
  BY ConcatProperties

LEMMA DuplicateKeeps ==
  ASSUME SlashInv, DuplicateRun
  PROVE  SlashInv'
<1> DEFINE first == Of("duplicate", 1)
           second == Of("duplicate", 2)
           a == PaysFor(1, first, 500)
           b == PaysFor(2, second, 500)
           d == Slashes(2, second, {})
           calls == a \o b \o d
           report == {[number |-> 2, invoice |-> {}]}
<1>1. RunBegins(calls, report)
  BY DEF DuplicateRun
<1>2. first \in SlashInvoices /\ second \in SlashInvoices /\ runs \in Nat
  BY DEF Of, SlashInvoices, SlashInv, SlashOK
<1>3. /\ a \in Seq(ScriptCallRecords) /\ Len(a) = 5
      /\ b \in Seq(ScriptCallRecords) /\ Len(b) = 5
      /\ d \in Seq(ScriptCallRecords) /\ Len(d) = 2
      /\ d[2] = CallOf("resolve", 2, second, {})
  <2>1. /\ 1 \in Int /\ 2 \in Int /\ 500 \in Int
        /\ {} \in SUBSET Attestations
    OBVIOUS
  <2> HIDE DEF first, second
  <2>2. a \in Seq(ScriptCallRecords) /\ Len(a) = 5
    BY <1>2, <2>1, PaysForCalls
  <2>3. b \in Seq(ScriptCallRecords) /\ Len(b) = 5
    BY <1>2, <2>1, PaysForCalls
  <2>4. /\ d \in Seq(ScriptCallRecords) /\ Len(d) = 2
        /\ d[2] = CallOf("resolve", 2, second, {})
    BY <1>2, <2>1, SlashesCalls
  <2> QED  BY <2>2, <2>3, <2>4
<1>4. report \in SUBSET Reports
  BY DEF Reports
<1> HIDE DEF a, b, d
<1>5. a \o b \in Seq(ScriptCallRecords) /\ Len(a \o b) = 10
  <2>1. a \o b \in Seq(ScriptCallRecords) /\ Len(a \o b) = Len(a) + Len(b)
    BY <1>3, Joined
  <2> QED  BY <1>3, <2>1
<1>6. calls \in Seq(ScriptCallRecords) /\ Len(calls) = 12 /\ calls[12] = d[2]
  <2> DEFINE ab == a \o b
  <2> HIDE DEF ab
  <2>1. ab \in Seq(ScriptCallRecords) /\ Len(ab) = 10 /\ calls = ab \o d
    BY <1>5 DEF ab
  <2>2. /\ ab \o d \in Seq(ScriptCallRecords)
        /\ Len(ab \o d) = Len(ab) + Len(d)
        /\ \A j \in 1..(Len(ab) + Len(d)) :
             (ab \o d)[j] = IF j <= Len(ab) THEN ab[j] ELSE d[j - Len(ab)]
    BY <1>3, <2>1, Joined
  <2> HIDE DEF calls
  <2>3. /\ calls \in Seq(ScriptCallRecords)
        /\ Len(calls) = Len(ab) + Len(d)
        /\ \A j \in 1..(Len(ab) + Len(d)) :
             calls[j] = IF j <= Len(ab) THEN ab[j] ELSE d[j - Len(ab)]
    BY <2>1, <2>2
  <2>4. Len(ab) = 10 /\ Len(d) = 2
    BY <1>3, <2>1
  <2>5. Len(calls) = 12
    BY <2>3, <2>4
  <2>6. /\ 12 \in 1..(Len(ab) + Len(d)) /\ ~(12 <= Len(ab))
        /\ 12 - Len(ab) = 2
    BY <2>4
  <2>7. calls[12] = d[12 - Len(ab)]
    BY <2>3, <2>6
  <2>8. calls[12] = d[2]
    BY <2>6, <2>7
  <2> QED  BY <2>3, <2>5, <2>8
<1> HIDE DEF calls
<1>7. \A r \in report :
        /\ \E j \in 1..Len(calls) : Resolves(calls[j], r)
        /\ r.invoice = {} \/ \E j \in 1..Len(calls) : Attests(calls[j], r)
  BY <1>3, <1>6 DEF Resolves, CallOf
<1> QED  BY <1>1, <1>4, <1>6, <1>7, RunKeeps

LEMMA ExistingKeeps ==
  ASSUME SlashInv, NEW n \in Numbers, ExistingRun(n)
  PROVE  SlashInv'
<1> DEFINE i == Of("duplicate", n)
           calls == Slashes(n, i, {})
           report == {[number |-> n, invoice |-> {}]}
<1>1. RunBegins(calls, report)
  BY DEF ExistingRun
<1>2. n \in Int /\ runs \in Nat
  BY ActionsAt DEF SlashInv, SlashOK
<1>3. i \in SlashInvoices
  BY <1>2 DEF Of, SlashInvoices
<1>4. /\ calls \in Seq(ScriptCallRecords) /\ Len(calls) = 2
      /\ calls[2] = CallOf("resolve", n, i, {})
  BY <1>2, <1>3, PaysForCalls, SlashesCalls
<1>5. report \in SUBSET Reports
  BY <1>2 DEF Reports
<1> HIDE DEF calls
<1>6. \A r \in report :
        /\ \E j \in 1..Len(calls) : Resolves(calls[j], r)
        /\ r.invoice = {} \/ \E j \in 1..Len(calls) : Attests(calls[j], r)
  BY <1>4 DEF Resolves, CallOf
<1> QED  BY <1>1, <1>4, <1>5, <1>6, RunKeeps

LEMMA CaseCalls ==
  ASSUME runs \in Nat, NEW n \in Int
  PROVE  /\ Of("delivery", n) \in SlashInvoices
         /\ DeliveryCase(n) \in Seq(ScriptCallRecords) /\ Len(DeliveryCase(n)) = 7
         /\ \A r : r = [number |-> n, invoice |-> {Of("delivery", n)}] =>
              Attests(DeliveryCase(n)[6], r) /\ Resolves(DeliveryCase(n)[7], r)
<1> DEFINE i == Of("delivery", n)
           attested == {[number |-> n, invoice |-> i]}
           a == PaysFor(n, i, Approved)
           d == Slashes(n, i, attested)
<1>1. i \in SlashInvoices
  BY DEF Of, SlashInvoices
<1>2. attested \in SUBSET Attestations /\ Approved \in Int
  BY <1>1, SlashAssumption DEF Attestations
<1>3. /\ a \in Seq(ScriptCallRecords) /\ Len(a) = 5
      /\ d \in Seq(ScriptCallRecords) /\ Len(d) = 2
      /\ d[1] = CallOf("challenge", n, i, attested)
      /\ d[2] = CallOf("resolve", n, i, {})
  <2> HIDE DEF attested, i
  <2> QED  BY <1>1, <1>2, PaysForCalls, SlashesCalls
<1>4. DeliveryCase(n) = a \o d
  BY DEF DeliveryCase
<1> HIDE DEF a, d
<1>5. /\ DeliveryCase(n) \in Seq(ScriptCallRecords) /\ Len(DeliveryCase(n)) = 7
      /\ DeliveryCase(n)[6] = d[1] /\ DeliveryCase(n)[7] = d[2]
  <2>1. /\ a \o d \in Seq(ScriptCallRecords)
        /\ Len(a \o d) = Len(a) + Len(d)
        /\ \A j \in 1..(Len(a) + Len(d)) :
             (a \o d)[j] = IF j <= Len(a) THEN a[j] ELSE d[j - Len(a)]
    BY <1>3, Joined
  <2> DEFINE ad == a \o d
  <2> HIDE DEF ad
  <2>2. /\ ad \in Seq(ScriptCallRecords)
        /\ Len(ad) = Len(a) + Len(d)
        /\ \A j \in 1..(Len(a) + Len(d)) :
             ad[j] = IF j <= Len(a) THEN a[j] ELSE d[j - Len(a)]
    BY <2>1 DEF ad
  <2>3. Len(ad) = 7 /\ ad[6] = d[1] /\ ad[7] = d[2]
    BY <1>3, <2>2
  <2> QED  BY <1>4, <2>2, <2>3 DEF ad
<1>6. ASSUME NEW r, r = [number |-> n, invoice |-> {i}]
      PROVE  Attests(DeliveryCase(n)[6], r) /\ Resolves(DeliveryCase(n)[7], r)
  <2>1. r.number = n /\ r.invoice = {i}
    BY <1>6
  <2> HIDE DEF i
  <2> QED  BY <1>3, <1>5, <2>1 DEF Attests, Resolves, CallOf
<1> QED  BY <1>1, <1>5, <1>6

LEMMA DeliveryKeeps ==
  ASSUME SlashInv, NEW n \in Int, DeliveryRun(n)
  PROVE  SlashInv'
<1> DEFINE a == DeliveryCase(n)
           b == DeliveryCase(n + 1)
           calls == a \o b
           About(m) == [number |-> m, invoice |-> {Of("delivery", m)}]
           report == {About(m) : m \in {n, n + 1}}
<1>1. RunBegins(calls, report)
  BY DEF DeliveryRun
<1>2. runs \in Nat /\ n + 1 \in Int
  BY DEF SlashInv, SlashOK
<1>3. /\ Of("delivery", n) \in SlashInvoices /\ Of("delivery", n + 1) \in SlashInvoices
      /\ a \in Seq(ScriptCallRecords) /\ Len(a) = 7
      /\ b \in Seq(ScriptCallRecords) /\ Len(b) = 7
      /\ Attests(a[6], About(n)) /\ Resolves(a[7], About(n))
      /\ Attests(b[6], About(n + 1)) /\ Resolves(b[7], About(n + 1))
  BY <1>2, CaseCalls
<1>4. report \in SUBSET Reports
  BY <1>2, <1>3 DEF Reports
<1> HIDE DEF a, b
<1>5. /\ calls \in Seq(ScriptCallRecords) /\ Len(calls) = 14
      /\ calls[6] = a[6] /\ calls[7] = a[7] /\ calls[13] = b[6] /\ calls[14] = b[7]
  <2>1. /\ a \o b \in Seq(ScriptCallRecords)
        /\ Len(a \o b) = Len(a) + Len(b)
        /\ \A j \in 1..(Len(a) + Len(b)) :
             (a \o b)[j] = IF j <= Len(a) THEN a[j] ELSE b[j - Len(a)]
    BY <1>3, Joined
  <2> HIDE DEF calls
  <2>2. /\ calls \in Seq(ScriptCallRecords)
        /\ Len(calls) = Len(a) + Len(b)
        /\ \A j \in 1..(Len(a) + Len(b)) :
             calls[j] = IF j <= Len(a) THEN a[j] ELSE b[j - Len(a)]
    BY <2>1 DEF calls
  <2> QED  BY <1>3, <2>2
<1> HIDE DEF calls, About
<1>6. \A r \in report :
        /\ \E j \in 1..Len(calls) : Resolves(calls[j], r)
        /\ r.invoice = {} \/ \E j \in 1..Len(calls) : Attests(calls[j], r)
  <2> SUFFICES ASSUME NEW m \in {n, n + 1}
               PROVE  /\ \E j \in 1..Len(calls) : Resolves(calls[j], About(m))
                      /\ \E j \in 1..Len(calls) : Attests(calls[j], About(m))
    OBVIOUS
  <2>1. CASE m = n
    BY <1>3, <1>5, <2>1
  <2>2. CASE m = n + 1
    BY <1>3, <1>5, <2>2
  <2> QED  BY <2>1, <2>2
<1> QED  BY <1>1, <1>4, <1>5, <1>6, RunKeeps

\* The arm service's own actions.
LEMMA ArmKeeps ==
  ASSUME SlashInv, ArmCalls
  PROVE  SlashInv'
<1>1. /\ UNCHANGED <<late, runs, running, shown>> /\ chain \in Chains
      /\ late' \subseteq ScriptCallRecords
  BY DEF ArmCalls, SlashInv, SlashOK
<1>2. ASSUME NEW kind \in {"duplicate", "paid"}, NEW i,
             i = [kind |-> kind, run |-> MaxRuns + 1, at |-> 1 + Cardinality(Foreigners)],
             chain' = [Then(CallOf("initiate", 0, i, {})) EXCEPT !.invoices = @ \cup {i}]
      PROVE  Keeps(chain')
  <2>1. Cardinality(Foreigners) \in Nat
    <3>1. Foreigners \subseteq 1..Len(chain.actions) /\ Len(chain.actions) \in Nat
      BY <1>1, ActionsAt DEF Foreigners
    <3>2. IsFiniteSet(1..Len(chain.actions))
      BY <3>1, FS_Interval
    <3> QED  BY <3>1, <3>2, FS_Subset, FS_CardinalityType
  <2>2. i \in SlashInvoices
    BY <1>2, <2>1, SlashAssumption DEF SlashInvoices
  <2>3. chain' = [chain EXCEPT
          !.actions = Append(@, [invoice |-> i, status |-> "Initiated",
                                 bond |-> RequiredNow, duplicate |-> FALSE]),
          !.invoices = @ \cup {i}]
    BY <1>1, <1>2 DEF Then, CallOf, Chains
  <2> QED  BY <1>1, <2>2, <2>3, RequiredIsInt, InitiateKeeps
<1>3. ASSUME NEW n \in Foreigners,
             chain' = [chain EXCEPT !.allowance = chain.actions[n].bond]
      PROVE  Keeps(chain')
  <2>1. chain.actions[n].bond \in Int
    BY <1>1, ActionsAt DEF Foreigners, SlashActions
  <2>2. chain' \in Chains /\ chain'.actions = chain.actions
    BY <1>1, <1>3, <2>1, AmountsAside
  <2> QED  BY <2>2 DEF Keeps, Numbers
<1>4. ASSUME NEW n \in Foreigners, NEW entry \in {"post", "execute"},
             Does(CallOf(entry, n, chain.actions[n].invoice, {}))
      PROVE  Keeps(chain')
  <2>1. n \in Int /\ chain.actions[n].invoice \in SlashInvoices
    BY <1>1, ActionsAt DEF Foreigners, SlashActions
  <2>2. CallOf(entry, n, chain.actions[n].invoice, {}) \in ScriptCallRecords
    BY <2>1 DEF CallOf, ScriptCallRecords, Entries
  <2> QED  BY <1>1, <1>4, <2>2, DoesKeeps
<1>5. Keeps(chain')
  BY <1>2, <1>3, <1>4 DEF ArmCalls
<1> QED  BY <1>1, <1>5, ChainMoves

\* Watchdog and keeper.
LEMMA OthersKeep ==
  ASSUME SlashInv, NEW n \in Numbers, OthersSettle(n)
  PROVE  SlashInv'
<1>1. /\ UNCHANGED <<late, runs, running, shown>> /\ chain \in Chains
      /\ late' \subseteq ScriptCallRecords
  BY DEF OthersSettle, SlashInv, SlashOK
<1>2. ASSUME NEW entry \in {"challenge", "resolve"},
             Does(CallOf(entry, n, chain.actions[n].invoice, {}))
      PROVE  Keeps(chain')
  <2>1. n \in Int /\ chain.actions[n].invoice \in SlashInvoices
    BY <1>1, ActionsAt DEF SlashActions
  <2>2. CallOf(entry, n, chain.actions[n].invoice, {}) \in ScriptCallRecords
    BY <2>1 DEF CallOf, ScriptCallRecords, Entries
  <2> QED  BY <1>1, <1>2, <2>2, DoesKeeps
<1>3. ASSUME Stands(n, "Executed"),
             chain' = [With(n, "ResolvedRefund") EXCEPT !.score = @ + 10]
      PROVE  Keeps(chain')
  <2> DEFINE w == With(n, "ResolvedRefund")
             x == w.score + 10
  <2>1. Keeps(w)
    BY <1>1, <1>3, WithKeeps DEF Stands, SlashStatuses
  <2>2. w \in Chains /\ x \in Int
    BY <2>1 DEF Keeps, Chains
  <2> HIDE DEF w
  <2>3. chain' = [w EXCEPT !.score = x]
    BY <1>3 DEF w
  <2> HIDE DEF x
  <2>4. chain' \in Chains /\ chain'.actions = w.actions
    BY <2>2, <2>3, AmountsAside
  <2> QED  BY <2>1, <2>4 DEF Keeps
<1>4. Keeps(chain')
  BY <1>2, <1>3 DEF OthersSettle
<1> QED  BY <1>1, <1>4, ChainMoves

LEMMA SlashStep ==
  ASSUME SlashInv, [SlashNext]_slashVars
  PROVE  SlashInv'
<1>1. Len(chain.actions) + 1 \in Int
  BY ActionsAt DEF SlashInv, SlashOK
<1>2. CASE DuplicateRun
  BY <1>2, DuplicateKeeps
<1>3. CASE \E n \in Numbers : ExistingRun(n)
  BY <1>3, ExistingKeeps
<1>4. CASE DeliveryRun(Len(chain.actions) + 1) \/ DeliveryRun(3)
  BY <1>1, <1>4, DeliveryKeeps
<1>5. CASE ScriptCalls
  BY <1>5, CallKeeps
<1>6. CASE ScriptTimesOut
  <2>1. /\ running.calls # <<>> /\ running' = NotRunning
        /\ late' \in {late, late \cup {Head(running.calls)}}
        /\ UNCHANGED <<chain, runs, shown>>
    BY <1>6 DEF ScriptTimesOut, NotSeen
  <2>2. Head(running.calls) \in ScriptCallRecords
    BY <2>1, HeadTailProperties DEF SlashInv, SlashOK
  <2>3. late' \subseteq ScriptCallRecords
    BY <2>1, <2>2 DEF SlashInv, SlashOK
  <2> QED  BY <2>1, <2>3, ChainMoves
<1>7. CASE ScriptReports
  BY <1>7, ReportKeeps
<1>8. CASE \E c \in late : Includes(c)
  <2>1. PICK c \in late : Includes(c)
    BY <1>8
  <2>2. /\ c \in ScriptCallRecords /\ late' \subseteq ScriptCallRecords
        /\ UNCHANGED <<runs, running, shown>>
        /\ Does(c) \/ UNCHANGED chain
    BY <2>1 DEF Includes, SlashInv, SlashOK
  <2>3. Keeps(chain') \/ UNCHANGED chain
    BY <2>2, DoesKeeps DEF SlashInv, SlashOK
  <2> QED  BY <2>2, <2>3, ChainMoves
<1>9. CASE ArmCalls
  BY <1>9, ArmKeeps
<1>10. CASE \E n \in Numbers : OthersSettle(n)
  BY <1>10, OthersKeep
<1>11. CASE UNCHANGED slashVars
  BY <1>11, ChainMoves DEF slashVars, SlashInv, SlashOK
<1> QED  BY <1>2, <1>3, <1>4, <1>5, <1>6, <1>7, <1>8, <1>9, <1>10, <1>11
         DEF SlashNext

(***************************************************************************)
(* What the slash scripts report stays slashed, and a delivery report is   *)
(* about its run's own invoice, though the scripts fix their numbers       *)
(* beforehand and read nothing: v2-duplicate-slash.ts and                  *)
(* v2-delivery-slash.ts.                                                   *)
(***************************************************************************)
THEOREM ReportsAreSlashes == SlashSpec => []ReportIsSlash
<1>1. SlashInv /\ [SlashNext]_slashVars => SlashInv'
  BY SlashStep
<1>2. SlashInv => ReportIsSlash
  BY DEF SlashInv
<1> QED  BY SlashInitially, <1>1, <1>2, PTL DEF SlashSpec


-----------------------------------------------------------------------------
(* The operations.                                                         *)

OperationsSpec == OperationsInit /\ [][OperationsNext]_operationsVars

Owners == Keys \cup {Pool}
AgesOf == Seq(Nat)

OperationsOK ==
  /\ queue \in Seq([owner : Owners, calls : 0..RunCalls])
  /\ call \in [pc : {"none", "sent"}, again : BOOLEAN, landed : BOOLEAN]
  /\ counts \in [{"requests", "failures", "restarts"} -> Nat]
  /\ history \in AgesOf /\ landed \in AgesOf
  /\ completed \in [Keys -> 0..Ttl]
  /\ armed \in [Keys -> AgesOf]
  /\ inFlight \subseteq Owners

\* A command is of the head, which has more to make; others have made none.
CallIsHeads ==
  /\ call.landed => call.pc = "sent"
  /\ call.pc = "sent" => queue # <<>> /\ queue[1].calls < RunCalls
  /\ \A n \in 2..Len(queue) : queue[n].calls = 0

\* The transactions that no record has to be there for.
Forgotten == Budget * counts.restarts
UnderWay == IF call.landed THEN 1 ELSE 0
Unrecorded == UnderWay + counts.failures + Forgotten

InOrder(ages) == \A m, n \in 1..Len(ages) : m <= n => ages[n] <= ages[m]

\* All but u of what has landed was recorded after, one by one.
Covered(recorded, sent, u) ==
  /\ Len(sent) <= Len(recorded) + u
  /\ \A n \in 1..(Len(sent) - u) :
       recorded[Len(recorded) + u - Len(sent) + n] <= sent[n]

SpendInv ==
  /\ OperationsOK /\ CallIsHeads
  /\ InOrder(history) /\ InOrder(landed)
  /\ Len(history) <= Budget
  /\ call.pc = "sent" => Len(history) < Budget
  /\ Covered(history, landed, Unrecorded)

\* A key has one run, and no value meanwhile.
KeysRunOnce ==
  /\ \A m, n \in 1..Len(queue) : queue[m].owner = queue[n].owner /\ m # n => queue[m].owner = Pool
  /\ \A n \in 1..Len(queue) : queue[n].owner # Pool =>
       queue[n].owner \in inFlight /\ completed[queue[n].owner] = Ttl

\* Its run has executed the action.
HasExecuted(k) ==
  /\ queue # <<>> /\ queue[1].owner = k
  /\ \/ queue[1].calls = RunCalls
     \/ queue[1].calls = RunCalls - 1 /\ call.landed

Forgiven == counts.failures + counts.restarts

\* Once no more is forgiven, the run goes on or the value is kept.
KeyFine(k) ==
  /\ Len(armed[k]) <= 1 + Forgiven
  /\ Len(armed[k]) = 1 + Forgiven =>
       \/ HasExecuted(k)
       \/ completed[k] < Ttl /\ completed[k] <= armed[k][1]

KeyInv ==
  /\ OperationsOK /\ CallIsHeads /\ KeysRunOnce
  /\ \A k \in Keys : KeyFine(k)

LEMMA LeastExists ==
  ASSUME NEW S, S \subseteq Nat, S # {}
  PROVE  Min(S) \in S /\ \A n \in S : Min(S) <= n
<1> DEFINE R == {ss \in Nat \X Nat : ss[1] < ss[2]}
<1>1. IsWellFoundedOn(R, Nat)
  BY NatLessThanWellFounded DEF OpToRel
<1>2. \E x \in S : \A y \in S : <<y, x>> \notin R
  <2> HIDE DEF R
  <2> QED  BY <1>1, WFMin
<1>3. PICK x \in S : \A y \in S : ~(y < x)
  BY <1>2
<1>4. \A y \in S : x <= y
  BY <1>3
<1> QED  BY <1>4 DEF Min

\* The oldest go, and the others have aged.
LEMMA OlderDrops ==
  ASSUME NEW ages \in Seq(Nat), NEW limit \in Nat
  PROVE  /\ Older(ages, limit) \in Seq(Nat)
         /\ \E d \in 0..Len(ages) :
              /\ Len(Older(ages, limit)) = Len(ages) - d
              /\ \A n \in 1..d : limit <= ages[n]
              /\ d < Len(ages) => ages[d + 1] < limit
              /\ \A n \in 1..(Len(ages) - d) : Older(ages, limit)[n] = ages[d + n] + 1
<1> DEFINE S == {n \in 1..(Len(ages) + 1) : n > Len(ages) \/ ages[n] < limit}
           first == Min(S)
           d == first - 1
           older == [n \in 1..(Len(ages) + 1 - first) |-> ages[n + first - 1] + 1]
<1>1. Len(ages) \in Nat /\ \A n \in 1..Len(ages) : ages[n] \in Nat
  BY LenProperties, ElementOfSeq
<1>2. S \subseteq Nat /\ Len(ages) + 1 \in S
  BY <1>1
<1>3. first \in S /\ \A n \in S : first <= n
  <2> HIDE DEF S
  <2> QED  BY <1>2, LeastExists
<1>4. Older(ages, limit) = older
  BY DEF Older
<1> HIDE DEF first
<1>5. d \in 0..Len(ages) /\ first = d + 1
  BY <1>1, <1>3
<1>6. \A n \in 1..d : limit <= ages[n]
  <2> SUFFICES ASSUME NEW n \in 1..d PROVE limit <= ages[n]
    OBVIOUS
  <2>1. n \notin S /\ n \in 1..Len(ages)
    BY <1>1, <1>3, <1>5
  <2> QED  BY <1>1, <2>1
<1>7. d < Len(ages) => ages[d + 1] < limit
  BY <1>1, <1>3, <1>5
<1> HIDE DEF S, d
<1>8. older = [n \in 1..(Len(ages) - d) |-> ages[d + n] + 1]
  <2>1. Len(ages) + 1 - first = Len(ages) - d
    BY <1>1, <1>5
  <2>2. \A n \in 1..(Len(ages) - d) : n + first - 1 = d + n
    BY <1>1, <1>5
  <2> QED  BY <2>1, <2>2
<1>9. Len(ages) - d \in Nat
  BY <1>1, <1>5
<1>10. \A n \in 1..(Len(ages) - d) : ages[d + n] + 1 \in Nat
  BY <1>1, <1>5
<1> HIDE DEF older
<1>11. older \in [1..(Len(ages) - d) -> Nat]
  BY <1>8, <1>10
<1>12. older \in Seq(Nat) /\ Len(older) = Len(ages) - d
  <2> DEFINE m == Len(ages) - d
  <2>1. m \in Nat /\ older \in [1..m -> Nat]
    BY <1>9, <1>11
  <2> HIDE DEF m
  <2>2. older \in Seq(Nat) /\ Len(older) = m
    BY <2>1
  <2> QED  BY <2>2 DEF m
<1>13. \A n \in 1..(Len(ages) - d) : older[n] = ages[d + n] + 1
  BY <1>8
<1> QED  BY <1>4, <1>5, <1>6, <1>7, <1>12, <1>13


LEMMA HeadOfQueue ==
  ASSUME OperationsOK, queue # <<>>
  PROVE  /\ Len(queue) \in Nat \ {0} /\ Head(queue) = queue[1]
         /\ 1 \in 1..Len(queue) /\ queue[1] \in [owner : Owners, calls : 0..RunCalls]
         /\ queue[1].owner \in Owners /\ queue[1].calls \in 0..RunCalls
         /\ Tail(queue) \in Seq([owner : Owners, calls : 0..RunCalls])
         /\ Len(Tail(queue)) = Len(queue) - 1
         /\ \A n \in 1..Len(Tail(queue)) : Tail(queue)[n] = queue[n + 1]
<1>1. queue \in Seq([owner : Owners, calls : 0..RunCalls])
  BY DEF OperationsOK
<1>2. Len(queue) \in Nat \ {0}
  BY <1>1, EmptySeq
<1>3. 1 \in 1..Len(queue)
  BY <1>2
<1>4. queue[1] \in [owner : Owners, calls : 0..RunCalls]
  BY <1>1, <1>3, ElementOfSeq
<1>5. /\ Tail(queue) \in Seq([owner : Owners, calls : 0..RunCalls])
      /\ Len(Tail(queue)) = Len(queue) - 1
      /\ \A n \in 1..Len(Tail(queue)) : Tail(queue)[n] = queue[n + 1]
  BY <1>1, HeadTailProperties
<1>6. Head(queue) = queue[1]
  BY <1>1, <1>2
<1> QED  BY <1>2, <1>3, <1>4, <1>5, <1>6

LEMMA OwnersRun ==
  ASSUME OperationsOK, NEW o \in Owners
  PROVE  /\ Append(queue, Run(o)) \in Seq([owner : Owners, calls : 0..RunCalls])
         /\ Len(Append(queue, Run(o))) = Len(queue) + 1 /\ Len(queue) \in Nat
         /\ \A n \in 1..Len(queue) : Append(queue, Run(o))[n] = queue[n]
         /\ Append(queue, Run(o))[Len(queue) + 1] = Run(o)
         /\ Run(o).owner = o /\ Run(o).calls = 0
<1>1. Run(o) \in [owner : Owners, calls : 0..RunCalls] /\ Run(o).owner = o /\ Run(o).calls = 0
  BY OperationsAssumption DEF Run
<1>2. queue \in Seq([owner : Owners, calls : 0..RunCalls])
  BY DEF OperationsOK
<1> QED  BY <1>1, <1>2, AppendProperties, LenProperties

\* A run joins the queue.
LEMMA QueuesKeep ==
  ASSUME OperationsOK, CallIsHeads, NEW o \in Owners,
         queue' = Append(queue, Run(o)), inFlight' \subseteq Owners,
         counts' \in [{"requests", "failures", "restarts"} -> Nat],
         UNCHANGED <<call, history, landed, completed, armed>>
  PROVE  OperationsOK' /\ CallIsHeads'
<1>1. OperationsOK'
  BY OwnersRun DEF OperationsOK
<1>2. queue # <<>> => queue'[1] = queue[1]
  BY OwnersRun, HeadOfQueue
<1>3. queue' # <<>>
  BY OwnersRun, EmptySeq
<1>4. \A n \in 2..Len(queue') : queue'[n].calls = 0
  BY OwnersRun DEF CallIsHeads
<1> QED  BY <1>1, <1>2, <1>3, <1>4 DEF CallIsHeads

\* A run ends, and leaves the queue.
LEMMA EndsKeep ==
  ASSUME OperationsOK, CallIsHeads, queue # <<>>, NEW b \in BOOLEAN, Ends(b),
         counts' \in [{"requests", "failures", "restarts"} -> Nat],
         UNCHANGED <<history, landed, armed>>
  PROVE  OperationsOK' /\ CallIsHeads'
<1>1. /\ queue' = Tail(queue) /\ call' = NoCall /\ inFlight' = inFlight \ {Owner}
      /\ completed' = [k \in Keys |-> IF b /\ k = Owner THEN 0 ELSE completed[k]]
  BY DEF Ends
<1>2. completed' \in [Keys -> 0..Ttl]
  BY <1>1, OperationsAssumption DEF OperationsOK
<1>3. call' \in [pc : {"none", "sent"}, again : BOOLEAN, landed : BOOLEAN]
      /\ ~call'.landed /\ call'.pc = "none"
  BY <1>1 DEF NoCall
<1>4. OperationsOK'
  BY <1>1, <1>2, <1>3, HeadOfQueue DEF OperationsOK
<1>5. \A n \in 2..Len(queue') : queue'[n].calls = 0
  <2> SUFFICES ASSUME NEW n \in 2..Len(queue') PROVE queue'[n].calls = 0
    OBVIOUS
  <2>1. /\ Len(queue') = Len(queue) - 1 /\ Len(queue) \in Nat
        /\ \A m \in 1..Len(queue') : queue'[m] = queue[m + 1]
    BY <1>1, HeadOfQueue
  <2>2. n \in 1..Len(queue') /\ n + 1 \in 2..Len(queue)
    BY <2>1
  <2>3. queue[n + 1].calls = 0
    BY <2>2 DEF CallIsHeads
  <2> QED  BY <2>1, <2>2, <2>3
<1> QED  BY <1>3, <1>4, <1>5 DEF CallIsHeads

LEMMA LandsKeep ==
  ASSUME OperationsOK, Included
  PROVE  /\ landed' \in AgesOf /\ armed' \in [Keys -> AgesOf]
         /\ Len(landed') = Len(landed) + 1 /\ landed'[Len(landed) + 1] = 0
         /\ Len(landed) \in Nat
         /\ \A n \in 1..Len(landed) : landed'[n] = landed[n]
         /\ \A k \in Keys :
              \/ armed'[k] = armed[k]
              \/ /\ k = Owner /\ Head(queue).calls = RunCalls - 1
                 /\ Len(armed'[k]) = Len(armed[k]) + 1
<1>1. /\ landed' = Append(landed, 0) /\ 0 \in Nat /\ landed \in Seq(Nat)
      /\ armed' = [k \in Keys |-> IF k = Owner /\ Head(queue).calls = RunCalls - 1
                                  THEN Append(armed[k], 0) ELSE armed[k]]
  BY DEF Included, OperationsOK, AgesOf
<1>2. \A k \in Keys : /\ armed[k] \in Seq(Nat) /\ Append(armed[k], 0) \in Seq(Nat)
                      /\ Len(Append(armed[k], 0)) = Len(armed[k]) + 1
  BY <1>1, AppendProperties DEF OperationsOK, AgesOf
<1>3. armed' \in [Keys -> AgesOf]
  BY <1>1, <1>2 DEF AgesOf
<1> QED  BY <1>1, <1>2, <1>3, AppendProperties, LenProperties DEF AgesOf

LEMMA RestartKeeps ==
  ASSUME OperationsOK, Restart
  PROVE  OperationsOK' /\ CallIsHeads'
<1>1. /\ inFlight' = {} /\ completed' = [k \in Keys |-> Ttl] /\ queue' = <<>>
      /\ call' = NoCall /\ history' = <<>>
      /\ counts' = [counts EXCEPT !["restarts"] = @ + 1]
      /\ Included \/ UNCHANGED <<landed, armed>>
  BY DEF Restart, Counted
<1>2. /\ <<>> \in Seq([owner : Owners, calls : 0..RunCalls]) /\ <<>> \in Seq(Nat)
      /\ Len(<<>>) = 0
  BY EmptySeq
<1>3. NoCall \in [pc : {"none", "sent"}, again : BOOLEAN, landed : BOOLEAN]
      /\ ~NoCall.landed /\ NoCall.pc = "none"
  BY DEF NoCall
<1>4. completed' \in [Keys -> 0..Ttl]
  BY <1>1, OperationsAssumption
<1>5. counts' \in [{"requests", "failures", "restarts"} -> Nat]
  BY <1>1 DEF OperationsOK
<1>6. landed' \in AgesOf /\ armed' \in [Keys -> AgesOf]
  BY <1>1, LandsKeep DEF OperationsOK
<1>7. OperationsOK'
  BY <1>1, <1>2, <1>3, <1>4, <1>5, <1>6 DEF OperationsOK, AgesOf
<1>8. \A n \in 2..Len(queue') : queue'[n].calls = 0
  BY <1>1, <1>2
<1> QED  BY <1>1, <1>3, <1>7, <1>8 DEF CallIsHeads

LEMMA ReportedKeeps ==
  ASSUME OperationsOK, CallIsHeads, Reported
  PROVE  /\ OperationsOK' /\ CallIsHeads'
         /\ queue # <<>> /\ queue' # <<>> /\ Len(queue') = Len(queue)
         /\ queue'[1].calls = queue[1].calls + 1
         /\ \A n \in 1..Len(queue) : queue'[n].owner = queue[n].owner
<1> DEFINE q == queue[1]
           r == [q EXCEPT !.calls = @ + 1]
<1>1. /\ call.landed /\ history' = Append(history, 0) /\ call' = NoCall
      /\ queue' = [queue EXCEPT ![1] = r]
      /\ UNCHANGED <<inFlight, completed, landed, armed, counts>>
  BY DEF Reported
<1>2. /\ queue # <<>> /\ q.calls < RunCalls /\ queue \in Seq([owner : Owners, calls : 0..RunCalls])
  BY <1>1 DEF CallIsHeads, OperationsOK
<1>3. 1 \in 1..Len(queue) /\ q \in [owner : Owners, calls : 0..RunCalls]
  BY <1>2, HeadOfQueue
<1>4. /\ r \in [owner : Owners, calls : 0..RunCalls]
      /\ r.owner = q.owner /\ r.calls = q.calls + 1
  <2>1. q.calls + 1 \in 0..RunCalls
    <3> DEFINE c == q.calls
    <3>1. c \in 0..RunCalls /\ c < RunCalls /\ RunCalls \in Nat
      BY <1>2, <1>3, OperationsAssumption
    <3> HIDE DEF c
    <3>2. c + 1 \in 0..RunCalls
      BY <3>1
    <3> QED  BY <3>2 DEF c
  <2> HIDE DEF q
  <2> QED  BY <1>3, <2>1
<1> HIDE DEF r
<1>5. /\ queue' \in Seq([owner : Owners, calls : 0..RunCalls])
      /\ Len(queue') = Len(queue)
      /\ \A n \in 1..Len(queue) : queue'[n] = IF n = 1 THEN r ELSE queue[n]
  BY <1>1, <1>2, <1>3, <1>4, ExceptSeq
<1>6. queue' # <<>>
  BY <1>3, <1>5, EmptySeq
<1>7. NoCall \in [pc : {"none", "sent"}, again : BOOLEAN, landed : BOOLEAN]
      /\ ~NoCall.landed /\ NoCall.pc = "none"
  BY DEF NoCall
<1>8. history' \in AgesOf
  BY <1>1, AppendProperties DEF OperationsOK, AgesOf
<1>9. OperationsOK'
  BY <1>1, <1>5, <1>7, <1>8 DEF OperationsOK
<1>10. CallIsHeads'
  BY <1>1, <1>5, <1>7 DEF CallIsHeads
<1> QED  BY <1>2, <1>3, <1>4, <1>5, <1>6, <1>9, <1>10

LEMMA AgesKeep ==
  ASSUME OperationsOK, CallIsHeads, Ages
  PROVE  OperationsOK' /\ CallIsHeads'
<1>1. /\ history' = Older(history, Hour) /\ landed' = Older(landed, Hour)
      /\ armed' = [k \in Keys |-> Older(armed[k], Ttl - 1)]
      /\ completed' = [k \in Keys |-> IF completed[k] < Ttl THEN completed[k] + 1 ELSE Ttl]
      /\ UNCHANGED <<inFlight, queue, call, counts>>
  BY DEF Ages
<1>2. Hour \in Nat /\ Ttl - 1 \in Nat /\ Ttl \in Nat
  BY OperationsAssumption
<1>3. history' \in AgesOf /\ landed' \in AgesOf
  BY <1>1, <1>2, OlderDrops DEF OperationsOK, AgesOf
<1>4. armed' \in [Keys -> AgesOf]
  <2>1. \A k \in Keys : Older(armed[k], Ttl - 1) \in Seq(Nat)
    BY <1>2, OlderDrops DEF OperationsOK, AgesOf
  <2> QED  BY <1>1, <2>1 DEF AgesOf
<1>5. completed' \in [Keys -> 0..Ttl]
  BY <1>1, <1>2 DEF OperationsOK
<1> QED  BY <1>1, <1>3, <1>4, <1>5 DEF OperationsOK, CallIsHeads


LEMMA InOrderAppends ==
  ASSUME NEW ages \in Seq(Nat), InOrder(ages)
  PROVE  InOrder(Append(ages, 0)) /\ Append(ages, 0) \in Seq(Nat)
<1>1. /\ Append(ages, 0) \in Seq(Nat) /\ Len(Append(ages, 0)) = Len(ages) + 1
      /\ \A n \in 1..Len(ages) : Append(ages, 0)[n] = ages[n]
      /\ Append(ages, 0)[Len(ages) + 1] = 0
  BY AppendProperties
<1>2. Len(ages) \in Nat /\ \A n \in 1..Len(ages) : ages[n] \in Nat
  BY LenProperties, ElementOfSeq
<1> DEFINE r == Append(ages, 0)
<1> HIDE DEF r
<1>3. /\ Len(r) = Len(ages) + 1 /\ r[Len(ages) + 1] = 0
      /\ \A n \in 1..Len(ages) : r[n] = ages[n]
  BY <1>1 DEF r
<1>4. ASSUME NEW m \in 1..Len(r), NEW n \in 1..Len(r), m <= n
      PROVE  r[n] <= r[m]
  <2>1. CASE n = Len(ages) + 1
    <3>1. r[m] \in Nat
      BY <1>2, <1>3
    <3> QED  BY <1>3, <2>1, <3>1
  <2>2. CASE n # Len(ages) + 1
    <3>1. m \in 1..Len(ages) /\ n \in 1..Len(ages)
      BY <1>2, <1>3, <1>4, <2>2
    <3> QED  BY <1>3, <1>4, <3>1 DEF InOrder
  <2> QED  BY <2>1, <2>2
<1>5. InOrder(r)
  BY <1>4 DEF InOrder
<1> QED  BY <1>1, <1>5 DEF r

LEMMA InOrderOlder ==
  ASSUME NEW ages \in Seq(Nat), NEW limit \in Nat, InOrder(ages)
  PROVE  InOrder(Older(ages, limit))
<1> DEFINE r == Older(ages, limit)
<1>1. PICK d \in 0..Len(ages) :
        /\ Len(r) = Len(ages) - d
        /\ \A n \in 1..(Len(ages) - d) : r[n] = ages[d + n] + 1
  BY OlderDrops
<1>2. Len(ages) \in Nat /\ \A n \in 1..Len(ages) : ages[n] \in Nat
  BY LenProperties, ElementOfSeq
<1> HIDE DEF r
<1>3. ASSUME NEW m \in 1..Len(r), NEW n \in 1..Len(r), m <= n
      PROVE  r[n] <= r[m]
  <2>1. /\ d + m \in 1..Len(ages) /\ d + n \in 1..Len(ages) /\ d + m <= d + n
        /\ r[m] = ages[d + m] + 1 /\ r[n] = ages[d + n] + 1
    BY <1>1, <1>2, <1>3
  <2> DEFINE x == ages[d + m]
             y == ages[d + n]
  <2>2. y <= x
    BY <2>1 DEF InOrder
  <2>3. x \in Nat /\ y \in Nat /\ r[m] = x + 1 /\ r[n] = y + 1
    BY <1>2, <2>1
  <2> HIDE DEF x, y
  <2> QED  BY <2>2, <2>3
<1>4. InOrder(r)
  BY <1>3 DEF InOrder
<1> QED  BY <1>4 DEF r

LEMMA CoveredLands ==
  ASSUME NEW h \in Seq(Nat), NEW l \in Seq(Nat), NEW r \in Seq(Nat), NEW u \in Nat,
         Covered(h, l, u), Len(r) = Len(l) + 1,
         \A n \in 1..Len(l) : r[n] = l[n]
  PROVE  Covered(h, r, u + 1)
<1>1. Len(h) \in Nat /\ Len(l) \in Nat
  BY LenProperties
<1>2. ASSUME NEW n \in 1..(Len(r) - (u + 1))
      PROVE  h[Len(h) + (u + 1) - Len(r) + n] <= r[n]
  <2>1. /\ n \in 1..(Len(l) - u) /\ n \in 1..Len(l)
        /\ Len(h) + (u + 1) - Len(r) + n = Len(h) + u - Len(l) + n
    BY <1>1
  <2> QED  BY <2>1 DEF Covered
<1>3. Len(r) <= Len(h) + (u + 1)
  BY <1>1 DEF Covered
<1> QED  BY <1>2, <1>3 DEF Covered

LEMMA CoveredRecords ==
  ASSUME NEW h \in Seq(Nat), NEW l \in Seq(Nat), NEW r \in Seq(Nat), NEW u \in Nat,
         Covered(h, l, u + 1), Len(r) = Len(h) + 1, r[Len(h) + 1] = 0,
         \A n \in 1..Len(h) : r[n] = h[n]
  PROVE  Covered(r, l, u)
<1>1. /\ Len(h) \in Nat /\ Len(l) \in Nat
      /\ \A n \in 1..Len(l) : l[n] \in Nat
  BY LenProperties, ElementOfSeq
<1>2. Len(l) <= Len(h) + (u + 1)
  BY DEF Covered
<1>3. ASSUME NEW n \in 1..(Len(l) - u)
      PROVE  r[Len(r) + u - Len(l) + n] <= l[n]
  <2>1. CASE n = Len(l) - u
    <3>1. Len(r) + u - Len(l) + n = Len(h) + 1 /\ l[n] \in Nat
      BY <1>1, <2>1
    <3>2. r[Len(r) + u - Len(l) + n] = 0
      BY <3>1
    <3>3. 0 <= l[n]
      <4> DEFINE z == l[n]
      <4>1. z \in Nat
        BY <3>1
      <4> HIDE DEF z
      <4>2. 0 <= z
        BY <4>1
      <4> QED  BY <4>2 DEF z
    <3> QED  BY <3>2, <3>3
  <2>2. CASE n # Len(l) - u
    <3>1. /\ n \in 1..(Len(l) - (u + 1))
          /\ Len(r) + u - Len(l) + n = Len(h) + (u + 1) - Len(l) + n
          /\ Len(h) + (u + 1) - Len(l) + n \in 1..Len(h)
      BY <1>1, <1>2, <2>2
    <3> QED  BY <3>1 DEF Covered
  <2> QED  BY <2>1, <2>2
<1>4. Len(l) <= Len(r) + u
  BY <1>1, <1>2
<1> QED  BY <1>3, <1>4 DEF Covered

LEMMA CoveredForgives ==
  ASSUME NEW h \in Seq(Nat), NEW l \in Seq(Nat), NEW u \in Nat, NEW v \in Nat,
         Covered(h, l, u), InOrder(h), u <= v
  PROVE  Covered(h, l, v)
<1>1. /\ Len(h) \in Nat /\ Len(l) \in Nat
      /\ \A n \in 1..Len(l) : l[n] \in Nat
      /\ \A n \in 1..Len(h) : h[n] \in Nat
  BY LenProperties, ElementOfSeq
<1>2. Len(l) <= Len(h) + u
  BY DEF Covered
<1>3. ASSUME NEW n \in 1..(Len(l) - v)
      PROVE  h[Len(h) + v - Len(l) + n] <= l[n]
  <2> DEFINE a == Len(h) + u - Len(l) + n
             b == Len(h) + v - Len(l) + n
  <2>1. n \in 1..(Len(l) - u) /\ n \in 1..Len(l)
        /\ a \in 1..Len(h) /\ b \in 1..Len(h) /\ a <= b
    BY <1>1, <1>2
  <2>2. h[a] <= l[n]
    BY <2>1 DEF Covered
  <2> HIDE DEF a, b
  <2>3. h[b] <= h[a]
    BY <2>1 DEF InOrder
  <2>4. h[a] \in Nat /\ h[b] \in Nat /\ l[n] \in Nat
    BY <1>1, <2>1
  <2>5. h[b] <= l[n]
    <3> DEFINE x == h[b]
               y == h[a]
               z == l[n]
    <3>1. x \in Nat /\ y \in Nat /\ z \in Nat /\ x <= y /\ y <= z
      BY <2>2, <2>3, <2>4
    <3> HIDE DEF x, y, z
    <3>2. x <= z
      BY <3>1
    <3> QED  BY <3>2 DEF x, z
  <2> QED  BY <2>5 DEF b
<1>4. Len(l) <= Len(h) + v
  BY <1>1, <1>2
<1> QED  BY <1>3, <1>4 DEF Covered

\* A record is forgotten no sooner than what it records.
LEMMA CoveredAges ==
  ASSUME NEW h \in Seq(Nat), NEW l \in Seq(Nat), NEW u \in Nat, NEW limit \in Nat,
         Covered(h, l, u), InOrder(l)
  PROVE  Covered(Older(h, limit), Older(l, limit), u)
<1> DEFINE g == Older(h, limit)
           r == Older(l, limit)
<1>1. PICK d \in 0..Len(h) :
        /\ Len(g) = Len(h) - d
        /\ \A n \in 1..d : limit <= h[n]
        /\ \A n \in 1..(Len(h) - d) : g[n] = h[d + n] + 1
  BY OlderDrops
<1>2. PICK e \in 0..Len(l) :
        /\ Len(r) = Len(l) - e
        /\ e < Len(l) => l[e + 1] < limit
        /\ \A n \in 1..(Len(l) - e) : r[n] = l[e + n] + 1
  BY OlderDrops
<1>3. /\ Len(h) \in Nat /\ Len(l) \in Nat
      /\ \A n \in 1..Len(l) : l[n] \in Nat
      /\ \A n \in 1..Len(h) : h[n] \in Nat
  BY LenProperties, ElementOfSeq
<1>4. Len(l) <= Len(h) + u
  BY DEF Covered
<1> HIDE DEF g, r
<1>5. ASSUME NEW n \in 1..(Len(l) - u), e < n
      PROVE  /\ Len(h) + u - Len(l) + n \in (d + 1)..Len(h)
             /\ h[Len(h) + u - Len(l) + n] <= l[n]
  <2> DEFINE a == Len(h) + u - Len(l) + n
  <2>1. a \in 1..Len(h) /\ n \in 1..Len(l) /\ e + 1 \in 1..Len(l) /\ e < Len(l)
    BY <1>3, <1>4, <1>5
  <2>2. h[a] <= l[n]
    BY DEF Covered
  <2> HIDE DEF a
  <2>3. l[n] <= l[e + 1] /\ l[e + 1] < limit
    <3>1. e + 1 <= n
      BY <1>3, <1>5, <2>1
    <3>2. l[n] <= l[e + 1]
      BY <2>1, <3>1 DEF InOrder
    <3> QED  BY <1>2, <2>1, <3>2
  <2>7. h[a] \in Nat /\ l[n] \in Nat /\ l[e + 1] \in Nat
    BY <1>3, <2>1
  <2>4. h[a] < limit
    <3> DEFINE x == h[a]
               y == l[n]
               z == l[e + 1]
    <3>1. /\ x \in Nat /\ y \in Nat /\ z \in Nat
          /\ x <= y /\ y <= z /\ z < limit
      BY <2>2, <2>3, <2>7
    <3> HIDE DEF x, y, z
    <3>2. x < limit
      BY <3>1
    <3> QED  BY <3>2 DEF x
  <2>5. a \notin 1..d
    <3> SUFFICES ASSUME a \in 1..d PROVE FALSE
      OBVIOUS
    <3>1. limit <= h[a]
      BY <1>1
    <3> QED  BY <2>4, <2>7, <3>1
  <2>6. a \in (d + 1)..Len(h)
    BY <1>3, <2>1, <2>5
  <2> QED  BY <2>2, <2>6 DEF a
<1>6. Len(r) <= Len(g) + u
  <2>1. CASE Len(l) - u > e
    <3>1. e + 1 \in 1..(Len(l) - u) /\ e < e + 1
      BY <1>3, <2>1
    <3>2. Len(h) + u - Len(l) + (e + 1) \in (d + 1)..Len(h)
      BY <1>5, <3>1
    <3> QED  BY <1>1, <1>2, <1>3, <3>2
  <2>2. CASE ~(Len(l) - u > e)
    BY <1>1, <1>2, <1>3, <2>2
  <2> QED  BY <2>1, <2>2
<1>7. ASSUME NEW n \in 1..(Len(r) - u)
      PROVE  g[Len(g) + u - Len(r) + n] <= r[n]
  <2> DEFINE a == Len(h) + u - Len(l) + (e + n)
  <2>1. e + n \in 1..(Len(l) - u) /\ e < e + n /\ n \in 1..(Len(l) - e)
    BY <1>2, <1>3
  <2>2. a \in (d + 1)..Len(h) /\ h[a] <= l[e + n]
    BY <1>5, <2>1
  <2>3. Len(g) + u - Len(r) + n = a - d
    BY <1>1, <1>2, <1>3
  <2> HIDE DEF a
  <2>4. a - d \in 1..(Len(h) - d) /\ d + (a - d) = a
    BY <1>3, <2>2
  <2>5. g[a - d] = h[a] + 1 /\ r[n] = l[e + n] + 1
    BY <1>1, <1>2, <2>1, <2>4
  <2>6. h[a] \in Nat /\ l[e + n] \in Nat
    BY <1>3, <2>1, <2>2
  <2>7. g[a - d] <= r[n]
    <3> DEFINE x == h[a]
               y == l[e + n]
    <3>1. /\ x \in Nat /\ y \in Nat /\ x <= y
          /\ g[a - d] = x + 1 /\ r[n] = y + 1
      BY <2>2, <2>5, <2>6
    <3> HIDE DEF x, y
    <3> QED  BY <3>1
  <2> QED  BY <2>3, <2>7
<1>8. Covered(g, r, u)
  BY <1>6, <1>7 DEF Covered
<1> QED  BY <1>8 DEF g, r


LEMMA OperationsInitially == OperationsInit => OperationsOK /\ CallIsHeads
<1> SUFFICES ASSUME OperationsInit PROVE OperationsOK /\ CallIsHeads
  OBVIOUS
<1>1. /\ <<>> \in Seq([owner : Owners, calls : 0..RunCalls]) /\ <<>> \in Seq(Nat)
      /\ Len(<<>>) = 0
  BY EmptySeq
<1>2. NoCall \in [pc : {"none", "sent"}, again : BOOLEAN, landed : BOOLEAN]
      /\ ~NoCall.landed /\ NoCall.pc = "none"
  BY DEF NoCall
<1>3. counts \in [{"requests", "failures", "restarts"} -> Nat]
  BY DEF OperationsInit
<1>4. completed \in [Keys -> 0..Ttl]
  BY OperationsAssumption DEF OperationsInit
<1> QED  BY <1>1, <1>2, <1>3, <1>4 DEF OperationsInit, OperationsOK, AgesOf, CallIsHeads

LEMMA Counting ==
  ASSUME OperationsOK, NEW what \in {"requests", "failures", "restarts"},
         NEW bound, Counted(what, bound)
  PROVE  /\ counts' \in [{"requests", "failures", "restarts"} -> Nat]
         /\ counts'[what] = counts[what] + 1
         /\ \A w \in {"requests", "failures", "restarts"} \ {what} : counts'[w] = counts[w]
  BY DEF OperationsOK, Counted

\* A run is over when its calls have been made, so that none is under way.
LEMMA ArmsIdle ==
  ASSUME OperationsOK, CallIsHeads, Arms
  PROVE  queue # <<>> /\ ~call.landed /\ call.pc # "sent"
<1>1. queue # <<>> /\ Head(queue).calls = RunCalls
  BY DEF Arms
<1>2. queue[1].calls = RunCalls /\ RunCalls \in Nat
  BY <1>1, HeadOfQueue, OperationsAssumption
<1> QED  BY <1>1, <1>2 DEF CallIsHeads

LEMMA OperationsKeep ==
  ASSUME OperationsOK, CallIsHeads, [OperationsNext]_operationsVars
  PROVE  OperationsOK' /\ CallIsHeads'
<1>1. ASSUME NEW k \in Keys, ArmRequest(k)
      PROVE  OperationsOK' /\ CallIsHeads'
  <2>1. /\ counts' \in [{"requests", "failures", "restarts"} -> Nat]
        /\ UNCHANGED <<call, history, landed, completed, armed>>
    BY <1>1, Counting DEF ArmRequest
  <2>2. CASE Known(k)
    BY <1>1, <2>1, <2>2 DEF ArmRequest, OperationsOK, CallIsHeads
  <2>3. CASE ~Known(k)
    <3>1. /\ k \in Owners /\ inFlight' \subseteq Owners
          /\ queue' = Append(queue, Run(k))
      BY <1>1, <2>3 DEF ArmRequest, Owners, OperationsOK
    <3> QED  BY <2>1, <3>1, QueuesKeep
  <2> QED  BY <2>2, <2>3
<1>2. CASE PoolTick
  <2>1. /\ Pool \in Owners /\ inFlight' \subseteq Owners
        /\ queue' = Append(queue, Run(Pool))
        /\ counts' \in [{"requests", "failures", "restarts"} -> Nat]
        /\ UNCHANGED <<call, history, landed, completed, armed>>
    BY <1>2 DEF PoolTick, Owners, OperationsOK
  <2> QED  BY <2>1, QueuesKeep
<1>3. CASE Calls
  <2>1. /\ queue # <<>> /\ Head(queue).calls < RunCalls
        /\ UNCHANGED <<history, landed, armed, counts>>
    BY <1>3 DEF Calls
  <2>2. CASE SpendAllowed
    <3> DEFINE c == [NoCall EXCEPT !.pc = "sent"]
    <3>1. call' = c /\ UNCHANGED <<inFlight, completed, queue, history, landed, armed, counts>>
      BY <1>3, <2>2 DEF Calls
    <3>2. /\ c \in [pc : {"none", "sent"}, again : BOOLEAN, landed : BOOLEAN]
          /\ ~c.landed
      BY DEF NoCall
    <3> HIDE DEF c
    <3>3. queue[1].calls < RunCalls
      BY <2>1, HeadOfQueue
    <3> QED  BY <2>1, <3>1, <3>2, <3>3 DEF OperationsOK, CallIsHeads
  <2>3. CASE ~SpendAllowed
    <3>1. Ends(FALSE)
      BY <1>3, <2>3 DEF Calls
    <3>2. counts' \in [{"requests", "failures", "restarts"} -> Nat]
      BY <2>1 DEF OperationsOK
    <3> QED  BY <2>1, <3>1, <3>2, EndsKeep
  <2> QED  BY <2>2, <2>3
<1>4. CASE Lands
  <2>1. /\ Included /\ call' = [call EXCEPT !.landed = TRUE]
        /\ UNCHANGED <<inFlight, completed, queue, history, counts>>
    BY <1>4 DEF Lands
  <2>2. landed' \in AgesOf /\ armed' \in [Keys -> AgesOf]
    BY <2>1, LandsKeep
  <2>3. /\ call' \in [pc : {"none", "sent"}, again : BOOLEAN, landed : BOOLEAN]
        /\ call'.pc = "sent" /\ call.pc = "sent"
    BY <2>1 DEF OperationsOK, Included
  <2> QED  BY <2>1, <2>2, <2>3 DEF OperationsOK, CallIsHeads
<1>5. CASE Reported
  BY <1>5, ReportedKeeps
<1>6. CASE CommandFails
  <2>1. /\ call.pc = "sent" /\ UNCHANGED <<history, landed, armed>>
        /\ counts' \in [{"requests", "failures", "restarts"} -> Nat]
    BY <1>6, Counting DEF CommandFails
  <2>2. queue # <<>>
    BY <2>1 DEF CallIsHeads
  <2>3. CASE Ends(FALSE)
    BY <2>1, <2>2, <2>3, EndsKeep
  <2>4. CASE ~Ends(FALSE)
    <3> DEFINE c == [call EXCEPT !.again = TRUE, !.landed = FALSE]
    <3>1. call' = c /\ UNCHANGED <<inFlight, completed, queue>>
      BY <1>6, <2>4 DEF CommandFails
    <3>2. /\ c \in [pc : {"none", "sent"}, again : BOOLEAN, landed : BOOLEAN]
          /\ ~c.landed
      BY DEF OperationsOK
    <3> HIDE DEF c
    <3> QED  BY <2>1, <3>1, <3>2 DEF OperationsOK, CallIsHeads
  <2> QED  BY <2>3, <2>4
<1>7. CASE Arms
  <2>1. /\ Ends(TRUE) /\ UNCHANGED <<history, landed, armed, counts>> /\ queue # <<>>
    BY <1>7 DEF Arms
  <2>2. counts' \in [{"requests", "failures", "restarts"} -> Nat]
    BY <2>1 DEF OperationsOK
  <2> QED  BY <2>1, <2>2, EndsKeep
<1>8. CASE Ages
  BY <1>8, AgesKeep
<1>9. CASE Restart
  BY <1>9, RestartKeeps
<1>10. CASE UNCHANGED operationsVars
  BY <1>10 DEF operationsVars, processVars, OperationsOK, CallIsHeads
<1> QED  BY <1>1, <1>2, <1>3, <1>4, <1>5, <1>6, <1>7, <1>8, <1>9, <1>10
         DEF OperationsNext, RunStep

LEMMA Budgets ==
  ASSUME NEW r \in Nat
  PROVE  Budget * r \in Nat /\ Budget * (r + 1) = Budget * r + Budget
  BY OperationsAssumption

LEMMA UnrecordedIs ==
  ASSUME OperationsOK
  PROVE  /\ Unrecorded \in Nat
         /\ Unrecorded = UnderWay + counts.failures + Forgotten
         /\ call.landed => UnderWay = 1
         /\ ~call.landed => UnderWay = 0
         /\ counts.failures \in Nat /\ counts.restarts \in Nat
         /\ Forgotten \in Nat
         /\ history \in Seq(Nat) /\ landed \in Seq(Nat)
         /\ Len(history) \in Nat /\ Len(landed) \in Nat /\ Budget \in Nat
<1>1. counts.failures \in Nat /\ counts.restarts \in Nat
  BY DEF OperationsOK
<1>2. Forgotten \in Nat
  BY <1>1, Budgets DEF Forgotten
<1>3. history \in Seq(Nat) /\ landed \in Seq(Nat)
  BY DEF OperationsOK, AgesOf
<1>4. Len(history) \in Nat /\ Len(landed) \in Nat
  BY <1>3, LenProperties
<1>5. /\ UnderWay \in Nat
      /\ call.landed => UnderWay = 1
      /\ ~call.landed => UnderWay = 0
  BY DEF UnderWay
<1>6. Unrecorded = UnderWay + counts.failures + Forgotten
  BY DEF Unrecorded
<1>7. Unrecorded \in Nat
  BY <1>1, <1>2, <1>5, <1>6
<1> QED  BY <1>1, <1>2, <1>3, <1>4, <1>5, <1>6, <1>7, OperationsAssumption

LEMMA UnrecordedNext ==
  ASSUME OperationsOK, OperationsOK',
         NEW d \in Nat, counts'.restarts = counts.restarts + d
  PROVE  /\ Unrecorded' \in Nat
         /\ Unrecorded' = UnderWay' + counts'.failures + Forgotten'
         /\ call'.landed => UnderWay' = 1
         /\ ~call'.landed => UnderWay' = 0
         /\ d = 0 => Forgotten' = Forgotten
         /\ d = 1 => Forgotten' = Forgotten + Budget
<1>1. counts.restarts \in Nat /\ counts'.restarts \in Nat /\ counts'.failures \in Nat
  BY DEF OperationsOK
<1>2. Forgotten' \in Nat
  BY <1>1, Budgets DEF Forgotten
<1>3. d = 0 => Forgotten' = Forgotten
  BY <1>1 DEF Forgotten
<1>4. d = 1 => Forgotten' = Forgotten + Budget
  BY <1>1, Budgets DEF Forgotten
<1>5. /\ UnderWay' \in Nat
      /\ call'.landed => UnderWay' = 1
      /\ ~call'.landed => UnderWay' = 0
  BY DEF UnderWay
<1>6. Unrecorded' = UnderWay' + counts'.failures + Forgotten'
  BY DEF Unrecorded
<1>7. Unrecorded' \in Nat
  BY <1>1, <1>2, <1>5, <1>6
<1> QED  BY <1>3, <1>4, <1>5, <1>6, <1>7

\* Nothing is sent, recorded or forgotten.
LEMMA SpendQuiet ==
  ASSUME SpendInv, OperationsOK', CallIsHeads', UNCHANGED <<history, landed>>,
         call'.landed = call.landed,
         counts'.failures = counts.failures, counts'.restarts = counts.restarts,
         call'.pc = "sent" => Len(history) < Budget
  PROVE  SpendInv'
<1>1. Unrecorded' = Unrecorded
  BY DEF Unrecorded, UnderWay, Forgotten
<1>2. Covered(history, landed, Unrecorded)'
  BY <1>1 DEF SpendInv
<1> QED  BY <1>2 DEF SpendInv

LEMMA LandsSpends ==
  ASSUME SpendInv, OperationsOK', CallIsHeads', Lands
  PROVE  SpendInv'
<1>1. /\ OperationsOK /\ InOrder(landed) /\ Covered(history, landed, Unrecorded)
      /\ Len(history) <= Budget /\ (call.pc = "sent" => Len(history) < Budget)
      /\ InOrder(history)
  BY DEF SpendInv
<1>2. /\ Included /\ call' = [call EXCEPT !.landed = TRUE]
      /\ UNCHANGED <<history, counts>> /\ ~call.landed /\ call.pc = "sent"
  BY DEF Lands, Included
<1>3. call'.landed /\ call'.pc = "sent"
  BY <1>1, <1>2 DEF OperationsOK
<1>4. Unrecorded \in Nat /\ Unrecorded' = Unrecorded + 1
  <2>1. counts'.restarts = counts.restarts + 0 /\ counts'.failures = counts.failures
    BY <1>1, <1>2, UnrecordedIs
  <2>2. Unrecorded' = 1 + counts.failures + Forgotten
    BY <1>1, <1>3, <2>1, UnrecordedNext
  <2> QED  BY <1>1, <1>2, <2>2, UnrecordedIs
<1>5. history \in Seq(Nat) /\ landed \in Seq(Nat) /\ landed' \in Seq(Nat)
  BY <1>1 DEF OperationsOK, AgesOf
<1>6. Covered(history, landed', Unrecorded + 1)
  BY <1>1, <1>2, <1>4, <1>5, LandsKeep, CoveredLands
<1>7. InOrder(landed')
  <2>1. landed' = Append(landed, 0)
    BY <1>2 DEF Included
  <2> QED  BY <1>1, <1>5, <2>1, InOrderAppends
<1>8. Covered(history, landed, Unrecorded)'
  BY <1>2, <1>4, <1>6
<1>9. InOrder(history)' /\ InOrder(landed)' /\ (Len(history) <= Budget)'
      /\ (call.pc = "sent" => Len(history) < Budget)'
  BY <1>1, <1>2, <1>7
<1> QED  BY <1>8, <1>9 DEF SpendInv

LEMMA ReportedSpends ==
  ASSUME SpendInv, OperationsOK', CallIsHeads', Reported
  PROVE  SpendInv'
<1>1. /\ OperationsOK /\ CallIsHeads /\ InOrder(landed) /\ InOrder(history)
      /\ Covered(history, landed, Unrecorded)
      /\ Len(history) <= Budget /\ (call.pc = "sent" => Len(history) < Budget)
  BY DEF SpendInv
<1>2. /\ call.landed /\ history' = Append(history, 0) /\ call' = NoCall
      /\ UNCHANGED <<landed, counts>>
  BY DEF Reported
<1>3. ~call'.landed /\ call'.pc # "sent" /\ Len(history) < Budget
  BY <1>1, <1>2 DEF NoCall, CallIsHeads
<1>4. Unrecorded' \in Nat /\ Unrecorded = Unrecorded' + 1
  <2>1. counts'.restarts = counts.restarts + 0 /\ counts'.failures = counts.failures
    BY <1>1, <1>2, UnrecordedIs
  <2>2. Unrecorded' = 0 + counts.failures + Forgotten
    BY <1>1, <1>3, <2>1, UnrecordedNext
  <2> DEFINE f == counts.failures
             g == Forgotten
             u == Unrecorded
             v == Unrecorded'
  <2>3. f \in Nat /\ g \in Nat /\ u = 1 + f + g /\ v = 0 + f + g
    BY <1>1, <1>2, <2>2, UnrecordedIs
  <2> HIDE DEF f, g, u, v
  <2>4. v \in Nat /\ u = v + 1
    BY <2>3
  <2> QED  BY <2>4 DEF u, v
<1>5. history \in Seq(Nat) /\ landed \in Seq(Nat) /\ Len(history) \in Nat /\ Budget \in Nat
  BY <1>1, UnrecordedIs
<1>6. /\ history' \in Seq(Nat) /\ Len(history') = Len(history) + 1
      /\ history'[Len(history) + 1] = 0
      /\ \A n \in 1..Len(history) : history'[n] = history[n]
  BY <1>2, <1>5, AppendProperties
<1>7. Covered(history', landed, Unrecorded')
  <2>1. \A u \in Nat : Covered(history, landed, u + 1) => Covered(history', landed, u)
    BY <1>5, <1>6, CoveredRecords
  <2> QED  BY <1>1, <1>4, <2>1
<1>8. InOrder(history')
  BY <1>1, <1>2, <1>5, InOrderAppends
<1>9. (Len(history) <= Budget)'
  BY <1>3, <1>5, <1>6
<1>10. Covered(history, landed, Unrecorded)' /\ InOrder(landed)'
  BY <1>1, <1>2, <1>7
<1> QED  BY <1>3, <1>8, <1>9, <1>10 DEF SpendInv

LEMMA FailsSpends ==
  ASSUME SpendInv, OperationsOK', CallIsHeads', CommandFails
  PROVE  SpendInv'
<1>1. /\ OperationsOK /\ InOrder(landed) /\ InOrder(history)
      /\ Covered(history, landed, Unrecorded)
      /\ Len(history) <= Budget /\ (call.pc = "sent" => Len(history) < Budget)
  BY DEF SpendInv
<1>2. /\ call.pc = "sent" /\ Counted("failures", MaxFailures)
      /\ UNCHANGED <<history, landed>>
  BY DEF CommandFails
<1>3. counts'.failures = counts.failures + 1 /\ counts'.restarts = counts.restarts
  BY <1>1, <1>2, Counting
<1>4. ~call'.landed
  <2>1. CASE Ends(FALSE)
    BY <2>1 DEF Ends, NoCall
  <2>2. CASE ~Ends(FALSE)
    BY <1>1, <2>2 DEF CommandFails, OperationsOK
  <2> QED  BY <2>1, <2>2
<1>5. Unrecorded \in Nat /\ Unrecorded' \in Nat /\ Unrecorded <= Unrecorded'
  <2>1. counts'.restarts = counts.restarts + 0
    BY <1>1, <1>3, UnrecordedIs
  <2>2. Unrecorded' = 0 + (counts.failures + 1) + Forgotten
    BY <1>1, <1>3, <1>4, <2>1, UnrecordedNext
  <2>3. Unrecorded = UnderWay + counts.failures + Forgotten /\ UnderWay \in {0, 1}
    BY <1>1, UnrecordedIs
  <2> DEFINE f == counts.failures
             g == Forgotten
             w == UnderWay
             u == Unrecorded
             v == Unrecorded'
  <2>4. /\ f \in Nat /\ g \in Nat /\ w \in {0, 1}
        /\ v = 0 + (f + 1) + g /\ u = w + f + g
    BY <1>1, <2>2, <2>3, UnrecordedIs
  <2> HIDE DEF f, g, w, u, v
  <2>5. u \in Nat /\ v \in Nat /\ u <= v
    BY <2>4
  <2> QED  BY <2>5 DEF u, v
<1>6. history \in Seq(Nat) /\ landed \in Seq(Nat)
  BY <1>1, UnrecordedIs
<1>7. Covered(history, landed, Unrecorded')
  BY <1>1, <1>5, <1>6, CoveredForgives
<1>8. Covered(history, landed, Unrecorded)' /\ InOrder(landed)' /\ InOrder(history)'
  BY <1>1, <1>2, <1>7
<1> QED  BY <1>1, <1>2, <1>8 DEF SpendInv

LEMMA AgesSpends ==
  ASSUME SpendInv, OperationsOK', CallIsHeads', Ages
  PROVE  SpendInv'
<1>1. /\ OperationsOK /\ InOrder(landed) /\ InOrder(history)
      /\ Covered(history, landed, Unrecorded)
      /\ Len(history) <= Budget /\ (call.pc = "sent" => Len(history) < Budget)
  BY DEF SpendInv
<1>2. /\ history' = Older(history, Hour) /\ landed' = Older(landed, Hour)
      /\ UNCHANGED <<call, counts>>
  BY DEF Ages
<1>3. /\ history \in Seq(Nat) /\ landed \in Seq(Nat) /\ Unrecorded \in Nat
      /\ Len(history) \in Nat /\ Budget \in Nat /\ Hour \in Nat
  BY <1>1, UnrecordedIs, OperationsAssumption
<1>4. Unrecorded' = Unrecorded
  BY <1>2 DEF Unrecorded, UnderWay, Forgotten
<1>5. Covered(history', landed', Unrecorded)
  BY <1>1, <1>2, <1>3, CoveredAges
<1>6. InOrder(history') /\ InOrder(landed')
  BY <1>1, <1>2, <1>3, InOrderOlder
<1>7. PICK d \in 0..Len(history) : Len(history') = Len(history) - d
  BY <1>2, <1>3, OlderDrops
<1>8. Len(history') \in Nat /\ Len(history') <= Len(history)
  BY <1>3, <1>7
<1>9. (Len(history) <= Budget)' /\ (call.pc = "sent" => Len(history) < Budget)'
  BY <1>1, <1>2, <1>3, <1>8
<1>10. Covered(history, landed, Unrecorded)' /\ InOrder(landed)' /\ InOrder(history)'
  BY <1>4, <1>5, <1>6
<1> QED  BY <1>9, <1>10 DEF SpendInv

\* The restart forgets what was recorded, at most the budget and, with a call
\* under way, less than that.
LEMMA RestartSpends ==
  ASSUME SpendInv, OperationsOK', CallIsHeads', Restart
  PROVE  SpendInv'
<1>1. /\ OperationsOK /\ InOrder(landed)
      /\ Covered(history, landed, Unrecorded)
      /\ Len(history) <= Budget /\ (call.pc = "sent" => Len(history) < Budget)
  BY DEF SpendInv
<1>2. /\ history' = <<>> /\ call' = NoCall /\ Counted("restarts", MaxRestarts)
      /\ Included \/ UNCHANGED <<landed, armed>>
  BY DEF Restart
<1>3. counts'.restarts = counts.restarts + 1 /\ counts'.failures = counts.failures
  BY <1>1, <1>2, Counting
<1>4. ~call'.landed /\ call'.pc # "sent"
  BY <1>2 DEF NoCall
<1>5. /\ Unrecorded \in Nat /\ Len(history) \in Nat /\ Len(landed) \in Nat
      /\ landed \in Seq(Nat) /\ Budget \in Nat /\ Forgotten \in Nat
      /\ counts.failures \in Nat
      /\ Unrecorded = UnderWay + counts.failures + Forgotten
      /\ call.landed => UnderWay = 1
      /\ ~call.landed => UnderWay = 0
  BY <1>1, UnrecordedIs
<1>7. Unrecorded' = counts.failures + Forgotten + Budget
  <2>1. Unrecorded' = 0 + counts.failures + (Forgotten + Budget)
    BY <1>1, <1>3, <1>4, UnrecordedNext
  <2> QED  BY <1>5, <2>1
<1>8. Len(landed) <= Len(history) + Unrecorded
  BY <1>1 DEF Covered
<1>9. Len(landed') <= Unrecorded' /\ InOrder(landed')
  <2>1. CASE Included
    <3>1. /\ ~call.landed /\ call.pc = "sent" /\ Len(landed') = Len(landed) + 1
          /\ landed' = Append(landed, 0)
      BY <1>1, <2>1, LandsKeep DEF Included
    <3>2. Len(landed') <= Unrecorded'
      <4> DEFINE f == counts.failures
                 h == Len(history)
                 l == Len(landed)
                 m == Len(landed')
                 v == Unrecorded'
                 u == Unrecorded
                 g == Forgotten
      <4>1. /\ f \in Nat /\ g \in Nat /\ h \in Nat /\ l \in Nat /\ Budget \in Nat
            /\ h < Budget /\ m = l + 1 /\ l <= h + u
            /\ v = f + g + Budget /\ u = 0 + f + g
        BY <1>1, <1>5, <1>7, <1>8, <3>1
      <4> HIDE DEF f, h, l, m, v, u, g
      <4>2. m <= v
        BY <4>1
      <4> QED  BY <4>2 DEF m, v
    <3>3. InOrder(landed')
      BY <1>1, <1>5, <3>1, InOrderAppends
    <3> QED  BY <3>2, <3>3
  <2>2. CASE UNCHANGED landed
    <3>1. UnderWay \in {0, 1}
      BY <1>5
    <3>2. call.landed => Len(history) < Budget
      BY <1>1 DEF SpendInv, CallIsHeads
    <3>3. Len(landed') = Len(landed)
      BY <2>2
    <3>4. Len(landed) <= Unrecorded'
      <4> DEFINE f == counts.failures
                 h == Len(history)
                 l == Len(landed)
                 v == Unrecorded'
                 u == Unrecorded
                 g == Forgotten
                 w == UnderWay
      <4>1. /\ f \in Nat /\ g \in Nat /\ h \in Nat /\ l \in Nat /\ Budget \in Nat
            /\ h <= Budget /\ l <= h + u /\ v = f + g + Budget /\ u = w + f + g
        BY <1>1, <1>5, <1>7, <1>8
      <4>2. w = 0 \/ (w = 1 /\ h < Budget)
        BY <1>5, <3>2
      <4> HIDE DEF f, h, l, v, u, g, w
      <4>3. l <= v
        BY <4>1, <4>2
      <4> QED  BY <4>3 DEF l, v
    <3> QED  BY <1>1, <2>2, <3>3, <3>4
  <2> QED  BY <1>2, <2>1, <2>2
<1>10. Covered(<<>>, landed', Unrecorded')
  <2>1. Len(landed') \in Nat /\ Unrecorded' \in Nat /\ Len(<<>>) = 0
    <3>1. landed' \in Seq(Nat)
      BY DEF OperationsOK, AgesOf
    <3>2. Unrecorded' \in Nat
      BY <1>5, <1>7
    <3> QED  BY <3>1, <3>2, LenProperties, EmptySeq
  <2>2. 1..(Len(landed') - Unrecorded') = {}
    BY <1>9, <2>1
  <2> QED  BY <1>9, <2>1, <2>2 DEF Covered
<1>11. InOrder(<<>>) /\ Len(<<>>) <= Budget
  BY <1>5, EmptySeq DEF InOrder
<1>12. Covered(history, landed, Unrecorded)' /\ InOrder(history)' /\ InOrder(landed)'
       /\ (Len(history) <= Budget)'
  BY <1>2, <1>9, <1>10, <1>11
<1> QED  BY <1>4, <1>12 DEF SpendInv

LEMMA SpendStep ==
  ASSUME SpendInv, [OperationsNext]_operationsVars
  PROVE  SpendInv'
<1>1. OperationsOK /\ CallIsHeads /\ OperationsOK' /\ CallIsHeads'
  BY OperationsKeep DEF SpendInv
<1>2. call.pc = "sent" => Len(history) < Budget
  BY DEF SpendInv
<1>3. ASSUME NEW k \in Keys, ArmRequest(k) PROVE SpendInv'
  <2>1. UNCHANGED <<history, landed, call>> /\ Counted("requests", MaxArmRequests)
    BY <1>3 DEF ArmRequest
  <2>2. counts'.failures = counts.failures /\ counts'.restarts = counts.restarts
    BY <1>1, <2>1, Counting
  <2> QED  BY <1>1, <1>2, <2>1, <2>2, SpendQuiet
<1>4. CASE PoolTick
  BY <1>1, <1>2, <1>4, SpendQuiet DEF PoolTick
<1>5. CASE Calls
  <2>1. UNCHANGED <<history, landed, counts>> /\ call = NoCall
    BY <1>5 DEF Calls
  <2>2. CASE SpendAllowed
    <3>1. call' = [NoCall EXCEPT !.pc = "sent"]
      BY <1>5, <2>2 DEF Calls
    <3>2. call'.landed = call.landed
      BY <2>1, <3>1 DEF NoCall
    <3>3. Len(history) < Budget
      BY <1>1, <2>2, UnrecordedIs DEF SpendAllowed
    <3> QED  BY <1>1, <2>1, <3>2, <3>3, SpendQuiet
  <2>3. CASE ~SpendAllowed
    <3>1. call' = NoCall
      BY <1>5, <2>3 DEF Calls, Ends
    <3> QED  BY <1>1, <1>2, <2>1, <3>1, SpendQuiet
  <2> QED  BY <2>2, <2>3
<1>6. CASE Lands
  BY <1>1, <1>6, LandsSpends
<1>7. CASE Reported
  BY <1>1, <1>7, ReportedSpends
<1>8. CASE CommandFails
  BY <1>1, <1>8, FailsSpends
<1>9. CASE Arms
  <2>1. UNCHANGED <<history, landed, counts>> /\ call' = NoCall
    BY <1>9 DEF Arms, Ends
  <2>2. call'.landed = call.landed /\ call'.pc # "sent"
    <3>1. ~call.landed /\ call.landed \in BOOLEAN
      BY <1>1, <1>9, ArmsIdle DEF OperationsOK
    <3> QED  BY <2>1, <3>1 DEF NoCall
  <2> QED  BY <1>1, <2>1, <2>2, SpendQuiet
<1>10. CASE Ages
  BY <1>1, <1>10, AgesSpends
<1>11. CASE Restart
  BY <1>1, <1>11, RestartSpends
<1>12. CASE UNCHANGED operationsVars
  BY <1>1, <1>2, <1>12, SpendQuiet DEF operationsVars, processVars
<1> QED  BY <1>3, <1>4, <1>5, <1>6, <1>7, <1>8, <1>9, <1>10, <1>11, <1>12
         DEF OperationsNext, RunStep

LEMMA SpendInitially == OperationsInit => SpendInv
<1> SUFFICES ASSUME OperationsInit PROVE SpendInv
  OBVIOUS
<1>1. OperationsOK /\ CallIsHeads
  BY OperationsInitially
<1>2. /\ history = <<>> /\ landed = <<>> /\ call = NoCall
      /\ counts.failures = 0 /\ counts.restarts = 0
  BY DEF OperationsInit
<1>3. call.pc # "sent" /\ ~call.landed
  BY <1>2 DEF NoCall
<1>4. Unrecorded = 0
  <2>1. Budget * 0 = 0 /\ UnderWay = 0
    BY <1>3, OperationsAssumption DEF UnderWay
  <2> QED  BY <1>2, <2>1 DEF Unrecorded, Forgotten
<1>5. Covered(<<>>, <<>>, 0) /\ InOrder(<<>>) /\ Len(<<>>) <= Budget
  BY EmptySeq, OperationsAssumption DEF Covered, InOrder
<1> QED  BY <1>1, <1>2, <1>3, <1>4, <1>5 DEF SpendInv

(***************************************************************************)
(* Whatever the queue, the failures and the restarts, the agent's          *)
(* transactions of an hour stay within the budget, except for one that a   *)
(* failed command leaves unrecorded, and one budget a restart: the check   *)
(* and the record of ops/spend-guard.ts, around one command at a time.     *)
(***************************************************************************)
THEOREM HoursStayWithinBudget == OperationsSpec => []HourWithinBudget
<1>1. SpendInv /\ [OperationsNext]_operationsVars => SpendInv'
  BY SpendStep
<1>2. SpendInv => HourWithinBudget
  <2> SUFFICES ASSUME SpendInv PROVE HourWithinBudget
    OBVIOUS
  <2>1. OperationsOK /\ Len(history) <= Budget
    BY DEF SpendInv
  <2>2. Len(landed) <= Budget + counts.failures + Forgotten
    <3>1. Len(landed) <= Len(history) + Unrecorded
      BY DEF SpendInv, Covered
    <3>2. CASE call.landed
      <4>1. Len(history) < Budget
        BY <3>2 DEF SpendInv, CallIsHeads
      <4> QED  BY <2>1, <3>1, <3>2, <4>1, UnrecordedIs
    <3>3. CASE ~call.landed
      BY <2>1, <3>1, <3>3, UnrecordedIs
    <3> QED  BY <3>2, <3>3
  <2>3. /\ Budget * (1 + counts.restarts) = Budget + Forgotten
        /\ Budget + Forgotten + counts.failures = Budget + counts.failures + Forgotten
    <3>1. /\ counts.restarts \in Nat /\ counts.failures \in Nat
          /\ Forgotten \in Nat /\ Budget \in Nat
      BY <2>1, UnrecordedIs
    <3>2. /\ Budget * (counts.restarts + 1) = Forgotten + Budget
          /\ counts.restarts + 1 = 1 + counts.restarts
      BY <3>1, Budgets DEF Forgotten
    <3> QED  BY <3>1, <3>2
  <2> QED  BY <2>2, <2>3 DEF HourWithinBudget
<1> QED  BY SpendInitially, <1>1, <1>2, PTL DEF OperationsSpec


LEMMA QueueTypes ==
  ASSUME OperationsOK
  PROVE  /\ Len(queue) \in Nat
         /\ \A n \in 1..Len(queue) : queue[n].owner \in Owners
         /\ Forgiven \in Nat
         /\ \A k \in Keys : /\ armed[k] \in Seq(Nat) /\ Len(armed[k]) \in Nat
                            /\ \A n \in 1..Len(armed[k]) : armed[k][n] \in Nat
                            /\ completed[k] \in 0..Ttl
<1>1. queue \in Seq([owner : Owners, calls : 0..RunCalls])
  BY DEF OperationsOK
<1>2. \A n \in 1..Len(queue) : queue[n] \in [owner : Owners, calls : 0..RunCalls]
  BY <1>1, ElementOfSeq
<1>3. Forgiven \in Nat
  BY DEF OperationsOK, Forgiven
<1>4. \A k \in Keys : armed[k] \in Seq(Nat) /\ completed[k] \in 0..Ttl
  BY DEF OperationsOK, AgesOf
<1>5. \A k \in Keys : /\ Len(armed[k]) \in Nat
                      /\ \A n \in 1..Len(armed[k]) : armed[k][n] \in Nat
  BY <1>4, LenProperties, ElementOfSeq
<1> QED  BY <1>1, <1>2, <1>3, <1>4, <1>5, LenProperties

\* The run under way, for a key, has nothing to return yet.
LEMMA HeadHasNoValue ==
  ASSUME OperationsOK, KeysRunOnce, queue # <<>>, NEW k \in Keys, queue[1].owner = k
  PROVE  completed[k] = Ttl
<1>1. 1 \in 1..Len(queue) /\ k # Pool
  BY HeadOfQueue, OperationsAssumption
<1> QED  BY <1>1 DEF KeysRunOnce

LEMMA KeysEnd ==
  ASSUME OperationsOK, KeysRunOnce, queue # <<>>, NEW b \in BOOLEAN, Ends(b)
  PROVE  KeysRunOnce'
<1>1. /\ queue' = Tail(queue) /\ inFlight' = inFlight \ {queue[1].owner}
      /\ completed' = [k \in Keys |-> IF b /\ k = queue[1].owner THEN 0 ELSE completed[k]]
  BY HeadOfQueue DEF Ends, Owner
<1>2. /\ 1 \in 1..Len(queue) /\ Len(queue) \in Nat /\ Len(queue') = Len(queue) - 1
      /\ \A n \in 1..Len(queue') : queue'[n] = queue[n + 1]
  BY <1>1, HeadOfQueue
<1>3. ASSUME NEW m \in 1..Len(queue'), NEW n \in 1..Len(queue'),
             queue'[m].owner = queue'[n].owner, m # n
      PROVE  queue'[m].owner = Pool
  <2>1. /\ m + 1 \in 1..Len(queue) /\ n + 1 \in 1..Len(queue) /\ m + 1 # n + 1
        /\ queue'[m] = queue[m + 1] /\ queue'[n] = queue[n + 1]
    BY <1>2, <1>3
  <2> QED  BY <1>3, <2>1 DEF KeysRunOnce
<1>4. ASSUME NEW n \in 1..Len(queue'), queue'[n].owner # Pool
      PROVE  queue'[n].owner \in inFlight' /\ completed'[queue'[n].owner] = Ttl
  <2>1. n + 1 \in 1..Len(queue) /\ n + 1 # 1 /\ queue'[n] = queue[n + 1]
    BY <1>2
  <2> DEFINE o == queue[n + 1].owner
  <2>2. o \in inFlight /\ completed[o] = Ttl /\ o # Pool
    BY <1>4, <2>1 DEF KeysRunOnce
  <2>3. o \in Keys
    BY <2>1, <2>2, QueueTypes DEF Owners
  <2>4. o # queue[1].owner
    BY <1>2, <2>1, <2>2 DEF KeysRunOnce
  <2>5. queue'[n].owner = o
    BY <2>1
  <2> HIDE DEF o
  <2> QED  BY <1>1, <2>2, <2>3, <2>4, <2>5
<1> QED  BY <1>3, <1>4 DEF KeysRunOnce

\* A run joins, for the pool or for a key that is not known.
LEMMA KeysQueue ==
  ASSUME OperationsOK, KeysRunOnce, NEW o \in Owners,
         o # Pool => o \notin inFlight /\ completed[o] = Ttl,
         queue' = Append(queue, Run(o)), completed' = completed,
         inFlight' = inFlight \/ inFlight' = inFlight \cup {o},
         o # Pool => o \in inFlight'
  PROVE  KeysRunOnce' /\ (queue # <<>> => queue' # <<>> /\ queue'[1] = queue[1])
<1>1. /\ Len(queue) \in Nat /\ Len(queue') = Len(queue) + 1
      /\ \A n \in 1..Len(queue) : queue'[n] = queue[n]
      /\ queue'[Len(queue) + 1].owner = o
  BY OwnersRun
<1>2. ASSUME NEW m \in 1..Len(queue'), NEW n \in 1..Len(queue'),
             queue'[m].owner = queue'[n].owner, m # n
      PROVE  queue'[m].owner = Pool
  <2>1. CASE m \in 1..Len(queue) /\ n \in 1..Len(queue)
    <3>1. queue'[m] = queue[m] /\ queue'[n] = queue[n]
      BY <1>1, <2>1
    <3> QED  BY <1>2, <2>1, <3>1 DEF KeysRunOnce
  <2>2. CASE ~(m \in 1..Len(queue) /\ n \in 1..Len(queue))
    <3>1. PICK i \in 1..Len(queue) : queue[i].owner = o /\ queue'[m].owner = o
      <4>1. CASE m = Len(queue) + 1
        <5>1. n \in 1..Len(queue)
          BY <1>1, <1>2, <4>1
        <5> QED  BY <1>1, <1>2, <4>1, <5>1
      <4>2. CASE m # Len(queue) + 1
        <5>1. m \in 1..Len(queue) /\ n = Len(queue) + 1
          BY <1>1, <2>2, <4>2
        <5> QED  BY <1>1, <1>2, <5>1
      <4> QED  BY <4>1, <4>2
    <3>2. o = Pool
      BY <3>1 DEF KeysRunOnce
    <3> QED  BY <3>1, <3>2
  <2> QED  BY <2>1, <2>2
<1>3. ASSUME NEW n \in 1..Len(queue'), queue'[n].owner # Pool
      PROVE  queue'[n].owner \in inFlight' /\ completed'[queue'[n].owner] = Ttl
  <2>1. CASE n \in 1..Len(queue)
    <3>1. queue'[n] = queue[n]
      BY <1>1, <2>1
    <3> QED  BY <1>3, <2>1, <3>1 DEF KeysRunOnce
  <2>2. CASE n \notin 1..Len(queue)
    <3>1. n = Len(queue) + 1
      BY <1>1, <2>2
    <3> QED  BY <1>1, <1>3, <3>1
  <2> QED  BY <2>1, <2>2
<1>4. queue # <<>> => queue' # <<>> /\ queue'[1] = queue[1]
  <2> SUFFICES ASSUME queue # <<>> PROVE queue' # <<>> /\ queue'[1] = queue[1]
    OBVIOUS
  <2>1. 1 \in 1..Len(queue)
    BY HeadOfQueue
  <2>2. queue' # <<>>
    BY <1>1, EmptySeq
  <2> QED  BY <1>1, <2>1, <2>2
<1> QED  BY <1>2, <1>3, <1>4 DEF KeysRunOnce

\* What leaves the actions, the values and the runs that have executed alone.
LEMMA KeysStay ==
  ASSUME KeyInv, OperationsOK', CallIsHeads', KeysRunOnce',
         UNCHANGED <<armed, completed>>,
         counts'.failures = counts.failures, counts'.restarts = counts.restarts,
         \A k \in Keys : HasExecuted(k) => HasExecuted(k)'
  PROVE  KeyInv'
<1>1. Forgiven' = Forgiven
  BY DEF Forgiven
<1>2. ASSUME NEW k \in Keys PROVE KeyFine(k)'
  <2>1. KeyFine(k) /\ (HasExecuted(k) => HasExecuted(k)')
    BY DEF KeyInv
  <2> QED  BY <1>1, <2>1 DEF KeyFine
<1> QED  BY <1>2 DEF KeyInv

\* A failure or a restart forgives one more.
LEMMA KeysForgiven ==
  ASSUME KeyInv, OperationsOK', CallIsHeads', KeysRunOnce',
         Forgiven' = Forgiven + 1,
         \A k \in Keys : \/ armed'[k] = armed[k]
                         \/ Len(armed'[k]) = Len(armed[k]) + 1 /\ Len(armed[k]) <= Forgiven
  PROVE  KeyInv'
<1>1. OperationsOK /\ Forgiven \in Nat
  BY QueueTypes DEF KeyInv
<1>2. ASSUME NEW k \in Keys PROVE KeyFine(k)'
  <2>1. Len(armed[k]) \in Nat /\ Len(armed[k]) <= 1 + Forgiven
    BY <1>1, QueueTypes DEF KeyInv, KeyFine
  <2>2. Len(armed'[k]) \in Nat /\ Len(armed'[k]) < 1 + Forgiven'
    BY <1>1, <2>1
  <2>3. Forgiven' \in Nat
    BY <1>1
  <2>4. (Len(armed[k]) <= 1 + Forgiven)' /\ ~(Len(armed[k]) = 1 + Forgiven)'
    BY <2>2, <2>3
  <2> QED  BY <2>4 DEF KeyFine
<1> QED  BY <1>2 DEF KeyInv

\* Until the command under way has landed, its run has executed nothing.
LEMMA NotExecuted ==
  ASSUME OperationsOK, CallIsHeads, ~call.landed,
         queue # <<>> => queue[1].calls < RunCalls
  PROVE  \A k \in Keys : ~HasExecuted(k)
<1>1. queue # <<>> => queue[1].calls \in 0..RunCalls /\ RunCalls \in Nat
  BY HeadOfQueue, OperationsAssumption
<1> QED  BY <1>1 DEF HasExecuted

\* An action lands for the owner of the run, of which nothing is left over.
LEMMA IncludedOnce ==
  ASSUME KeyInv, Included, NEW k \in Keys
  PROVE  \/ armed'[k] = armed[k]
         \/ /\ queue # <<>> /\ queue[1].owner = k /\ queue[1].calls = RunCalls - 1
            /\ Len(armed'[k]) = Len(armed[k]) + 1 /\ Len(armed[k]) <= Forgiven
<1>1. /\ OperationsOK /\ CallIsHeads /\ KeysRunOnce /\ KeyFine(k)
      /\ call.pc = "sent" /\ ~call.landed
  BY DEF KeyInv, Included
<1>2. queue # <<>> /\ queue[1].calls < RunCalls
  BY <1>1 DEF CallIsHeads
<1>3. Head(queue) = queue[1] /\ Owner = queue[1].owner
  BY <1>1, <1>2, HeadOfQueue DEF Owner
<1>4. ~HasExecuted(k)
  BY <1>1, <1>2, NotExecuted
<1>5. CASE armed'[k] # armed[k]
  <2>1. /\ k = Owner /\ queue[1].calls = RunCalls - 1
        /\ Len(armed'[k]) = Len(armed[k]) + 1
    BY <1>1, <1>3, <1>5, LandsKeep
  <2>2. completed[k] = Ttl /\ Ttl \in Nat
    BY <1>1, <1>2, <1>3, <2>1, HeadHasNoValue, OperationsAssumption
  <2>3. Len(armed[k]) # 1 + Forgiven /\ Len(armed[k]) <= 1 + Forgiven
    BY <1>1, <1>4, <2>2 DEF KeyFine
  <2>4. Len(armed[k]) \in Nat /\ Forgiven \in Nat
    BY <1>1, QueueTypes
  <2>5. Len(armed[k]) <= Forgiven
    BY <2>3, <2>4
  <2> QED  BY <1>2, <1>3, <2>1, <2>5
<1> QED  BY <1>5


LEMMA RequestKeys ==
  ASSUME KeyInv, OperationsOK', CallIsHeads', NEW k \in Keys, ArmRequest(k)
  PROVE  KeyInv'
<1>1. OperationsOK /\ KeysRunOnce
  BY DEF KeyInv
<1>2. /\ UNCHANGED <<completed, call, armed>>
      /\ counts'.failures = counts.failures /\ counts'.restarts = counts.restarts
  BY <1>1, Counting DEF ArmRequest
<1>3. CASE Known(k)
  <2>1. UNCHANGED <<inFlight, queue>>
    BY <1>3 DEF ArmRequest
  <2>2. KeysRunOnce' /\ \A j \in Keys : HasExecuted(j) => HasExecuted(j)'
    BY <1>1, <1>2, <2>1 DEF KeysRunOnce, HasExecuted
  <2> QED  BY <1>2, <2>2, KeysStay
<1>4. CASE ~Known(k)
  <2>1. inFlight' = inFlight \cup {k} /\ queue' = Append(queue, Run(k))
    BY <1>4 DEF ArmRequest
  <2>2. k \in Owners /\ k \notin inFlight /\ completed[k] = Ttl
    <3>1. k \notin inFlight /\ ~(completed[k] < Ttl)
      BY <1>4 DEF Known
    <3>2. completed[k] \in 0..Ttl /\ Ttl \in Nat
      BY <1>1, QueueTypes, OperationsAssumption
    <3> QED  BY <3>1, <3>2 DEF Owners
  <2>3. KeysRunOnce' /\ (queue # <<>> => queue' # <<>> /\ queue'[1] = queue[1])
    BY <1>1, <1>2, <2>1, <2>2, KeysQueue
  <2>4. \A j \in Keys : HasExecuted(j) => HasExecuted(j)'
    BY <1>2, <2>3 DEF HasExecuted
  <2> QED  BY <1>2, <2>3, <2>4, KeysStay
<1> QED  BY <1>3, <1>4

LEMMA TickKeys ==
  ASSUME KeyInv, OperationsOK', CallIsHeads', PoolTick
  PROVE  KeyInv'
<1>1. OperationsOK /\ KeysRunOnce
  BY DEF KeyInv
<1>2. /\ UNCHANGED <<inFlight, completed, call, armed, counts>>
      /\ queue' = Append(queue, Run(Pool))
  BY DEF PoolTick
<1>3. KeysRunOnce' /\ (queue # <<>> => queue' # <<>> /\ queue'[1] = queue[1])
  BY <1>1, <1>2, KeysQueue DEF Owners
<1>4. \A j \in Keys : HasExecuted(j) => HasExecuted(j)'
  BY <1>2, <1>3 DEF HasExecuted
<1> QED  BY <1>2, <1>3, <1>4, KeysStay

LEMMA CallsKeys ==
  ASSUME KeyInv, OperationsOK', CallIsHeads', Calls
  PROVE  KeyInv'
<1>1. OperationsOK /\ CallIsHeads /\ KeysRunOnce
  BY DEF KeyInv
<1>2. /\ queue # <<>> /\ call = NoCall /\ Head(queue).calls < RunCalls
      /\ UNCHANGED <<armed, counts>>
  BY DEF Calls
<1>3. ~call.landed /\ queue[1].calls < RunCalls
  BY <1>1, <1>2, HeadOfQueue DEF NoCall
<1>4. \A k \in Keys : ~HasExecuted(k)
  BY <1>1, <1>3, NotExecuted
<1>5. KeysRunOnce' /\ completed' = completed
  <2>1. CASE SpendAllowed
    BY <1>1, <2>1 DEF Calls, KeysRunOnce
  <2>2. CASE ~SpendAllowed
    <3>1. Ends(FALSE)
      BY <2>2 DEF Calls
    <3>2. completed' = [k \in Keys |-> completed[k]]
      BY <3>1 DEF Ends
    <3>3. completed' = completed
      BY <1>1, <3>2 DEF OperationsOK
    <3> QED  BY <1>1, <1>2, <3>1, <3>3, KeysEnd
  <2> QED  BY <2>1, <2>2
<1> QED  BY <1>2, <1>4, <1>5, KeysStay

LEMMA LandsKeys ==
  ASSUME KeyInv, OperationsOK', CallIsHeads', Lands
  PROVE  KeyInv'
<1>1. OperationsOK /\ CallIsHeads /\ KeysRunOnce
  BY DEF KeyInv
<1>2. /\ Included /\ call' = [call EXCEPT !.landed = TRUE]
      /\ UNCHANGED <<inFlight, completed, queue, counts>>
      /\ ~call.landed /\ call.pc = "sent"
  BY DEF Lands, Included
<1>3. call'.landed /\ Forgiven' = Forgiven /\ Forgiven \in Nat
  BY <1>1, <1>2, QueueTypes DEF OperationsOK, Forgiven
<1>4. KeysRunOnce'
  BY <1>1, <1>2 DEF KeysRunOnce
<1>5. \A k \in Keys : ~HasExecuted(k)
  BY <1>1, <1>2, NotExecuted DEF CallIsHeads
<1>6. ASSUME NEW k \in Keys PROVE KeyFine(k)'
  <2>1. CASE armed'[k] = armed[k]
    <3>1. KeyFine(k) /\ ~HasExecuted(k)
      BY <1>5 DEF KeyInv
    <3> QED  BY <1>2, <1>3, <2>1, <3>1 DEF KeyFine
  <2>2. CASE armed'[k] # armed[k]
    <3>1. /\ queue # <<>> /\ queue[1].owner = k /\ queue[1].calls = RunCalls - 1
          /\ Len(armed'[k]) = Len(armed[k]) + 1 /\ Len(armed[k]) <= Forgiven
      BY <1>2, <2>2, IncludedOnce
    <3>2. HasExecuted(k)'
      BY <1>2, <1>3, <3>1 DEF HasExecuted
    <3>3. Len(armed[k]) \in Nat
      BY <1>1, QueueTypes
    <3>4. (Len(armed[k]) <= 1 + Forgiven)'
      BY <1>3, <3>1, <3>3
    <3> QED  BY <3>2, <3>4 DEF KeyFine
  <2> QED  BY <2>1, <2>2
<1> QED  BY <1>4, <1>6 DEF KeyInv

LEMMA ReportedKeys ==
  ASSUME KeyInv, OperationsOK', CallIsHeads', Reported
  PROVE  KeyInv'
<1>1. OperationsOK /\ CallIsHeads /\ KeysRunOnce
  BY DEF KeyInv
<1>2. UNCHANGED <<inFlight, completed, armed, counts>> /\ call.landed
  BY DEF Reported
<1>3. /\ queue # <<>> /\ queue' # <<>> /\ Len(queue') = Len(queue)
      /\ queue'[1].calls = queue[1].calls + 1
      /\ \A n \in 1..Len(queue) : queue'[n].owner = queue[n].owner
  BY <1>1, ReportedKeeps
<1>4. KeysRunOnce'
  BY <1>1, <1>2, <1>3 DEF KeysRunOnce
<1>5. ASSUME NEW k \in Keys, HasExecuted(k) PROVE HasExecuted(k)'
  <2>1. queue[1].calls < RunCalls
    BY <1>1, <1>2 DEF CallIsHeads
  <2>2. queue[1].calls \in Nat /\ RunCalls \in Nat /\ 1 \in 1..Len(queue)
    BY <1>1, <1>3, HeadOfQueue, OperationsAssumption
  <2>3. queue[1].owner = k /\ queue[1].calls = RunCalls - 1
    BY <1>5, <2>1, <2>2 DEF HasExecuted
  <2>4. queue'[1].owner = k /\ queue'[1].calls = RunCalls
    <3> DEFINE c == queue[1].calls
    <3>1. c = RunCalls - 1 /\ queue'[1].calls = c + 1
      BY <1>3, <2>3
    <3> HIDE DEF c
    <3>2. queue'[1].calls = RunCalls
      BY <2>2, <3>1
    <3> QED  BY <1>3, <2>2, <2>3, <3>2
  <2> QED  BY <1>3, <2>4 DEF HasExecuted
<1> QED  BY <1>2, <1>4, <1>5, KeysStay

LEMMA FailsKeys ==
  ASSUME KeyInv, OperationsOK', CallIsHeads', CommandFails
  PROVE  KeyInv'
<1>1. OperationsOK /\ CallIsHeads /\ KeysRunOnce
  BY DEF KeyInv
<1>2. /\ call.pc = "sent" /\ UNCHANGED armed
      /\ counts'.failures = counts.failures + 1 /\ counts'.restarts = counts.restarts
  BY <1>1, Counting DEF CommandFails
<1>3. Forgiven' = Forgiven + 1
  BY <1>1, <1>2 DEF Forgiven, OperationsOK
<1>4. queue # <<>>
  BY <1>1, <1>2 DEF CallIsHeads
<1>5. KeysRunOnce'
  <2>1. CASE Ends(FALSE)
    BY <1>1, <1>4, <2>1, KeysEnd
  <2>2. CASE ~Ends(FALSE)
    BY <1>1, <2>2 DEF CommandFails, KeysRunOnce
  <2> QED  BY <2>1, <2>2
<1> QED  BY <1>2, <1>3, <1>5, KeysForgiven

LEMMA ArmsKeys ==
  ASSUME KeyInv, OperationsOK', CallIsHeads', Arms
  PROVE  KeyInv'
<1>1. OperationsOK /\ CallIsHeads /\ KeysRunOnce
  BY DEF KeyInv
<1>2. queue # <<>> /\ Ends(TRUE) /\ UNCHANGED <<armed, counts>> /\ Owner = queue[1].owner
  BY <1>1, HeadOfQueue DEF Arms, Owner
<1>3. KeysRunOnce'
  BY <1>1, <1>2, KeysEnd
<1>4. completed' = [k \in Keys |-> IF k = queue[1].owner THEN 0 ELSE completed[k]]
  BY <1>2 DEF Ends
<1>5. Forgiven' = Forgiven /\ Forgiven \in Nat /\ Ttl \in Nat \ {0}
  BY <1>1, <1>2, QueueTypes, OperationsAssumption DEF Forgiven
<1>6. ASSUME NEW k \in Keys PROVE KeyFine(k)'
  <2>1. KeyFine(k)
    BY DEF KeyInv
  <2>2. CASE k # queue[1].owner
    <3>1. ~HasExecuted(k) /\ completed'[k] = completed[k]
      BY <1>4, <2>2 DEF HasExecuted
    <3> QED  BY <1>2, <1>5, <2>1, <3>1 DEF KeyFine
  <2>3. CASE k = queue[1].owner
    <3>1. completed'[k] = 0
      BY <1>4, <2>3
    <3>2. Len(armed[k]) = 1 + Forgiven => 1 \in 1..Len(armed[k]) /\ armed[k][1] \in Nat
      BY <1>1, <1>5, QueueTypes
    <3>3. Len(armed[k]) = 1 + Forgiven => 0 <= armed[k][1]
      BY <3>2
    <3> QED  BY <1>2, <1>5, <2>1, <3>1, <3>3 DEF KeyFine
  <2> QED  BY <2>2, <2>3
<1> QED  BY <1>3, <1>6 DEF KeyInv

\* A value is no older than the first of its key's actions.
LEMMA AgesKeys ==
  ASSUME KeyInv, OperationsOK', CallIsHeads', Ages
  PROVE  KeyInv'
<1>1. OperationsOK /\ CallIsHeads /\ KeysRunOnce
  BY DEF KeyInv
<1>2. /\ armed' = [k \in Keys |-> Older(armed[k], Ttl - 1)]
      /\ completed' = [k \in Keys |-> IF completed[k] < Ttl THEN completed[k] + 1 ELSE Ttl]
      /\ UNCHANGED <<inFlight, queue, call, counts>>
  BY DEF Ages
<1>3. Forgiven' = Forgiven /\ Forgiven \in Nat /\ Ttl - 1 \in Nat /\ Ttl \in Nat
  BY <1>1, <1>2, QueueTypes, OperationsAssumption DEF Forgiven
<1>4. \A k \in Keys : completed[k] = Ttl => completed'[k] = Ttl
  BY <1>2, <1>3
<1>5. KeysRunOnce'
  <2>1. ASSUME NEW n \in 1..Len(queue), queue[n].owner # Pool
        PROVE  queue[n].owner \in inFlight /\ completed'[queue[n].owner] = Ttl
    <3>1. queue[n].owner \in Keys
      BY <1>1, <2>1, QueueTypes DEF Owners
    <3> QED  BY <1>1, <1>4, <2>1, <3>1 DEF KeysRunOnce
  <2> QED  BY <1>1, <1>2, <2>1 DEF KeysRunOnce
<1>6. ASSUME NEW k \in Keys PROVE KeyFine(k)'
  <2> DEFINE a == armed[k]
             c == completed[k]
  <2>1. /\ Len(a) <= 1 + Forgiven
        /\ Len(a) = 1 + Forgiven => HasExecuted(k) \/ (c < Ttl /\ c <= a[1])
    BY DEF KeyInv, KeyFine
  <2>2. /\ a \in Seq(Nat) /\ Len(a) \in Nat /\ c \in Nat
        /\ \A n \in 1..Len(a) : a[n] \in Nat
    BY <1>1, <1>3, QueueTypes
  <2>3. armed'[k] = Older(a, Ttl - 1) /\ completed'[k] = IF c < Ttl THEN c + 1 ELSE Ttl
    BY <1>2
  <2> HIDE DEF a, c
  <2>4. PICK d \in 0..Len(a) :
          /\ Len(armed'[k]) = Len(a) - d
          /\ d < Len(a) => a[d + 1] < Ttl - 1
          /\ \A n \in 1..(Len(a) - d) : armed'[k][n] = a[d + n] + 1
    <3> DEFINE limit == Ttl - 1
    <3>1. limit \in Nat /\ armed'[k] = Older(a, limit)
      BY <1>3, <2>3
    <3>2. \E d \in 0..Len(a) :
            /\ Len(Older(a, limit)) = Len(a) - d
            /\ d < Len(a) => a[d + 1] < limit
            /\ \A n \in 1..(Len(a) - d) : Older(a, limit)[n] = a[d + n] + 1
      <4> HIDE DEF limit
      <4> QED  BY <2>2, <3>1, OlderDrops
    <3> QED  BY <3>1, <3>2
  <2>5. CASE d # 0
    <3>1. Len(armed'[k]) <= Forgiven /\ Len(armed'[k]) \in Nat
      BY <1>3, <2>1, <2>2, <2>4, <2>5
    <3>2. Len(armed'[k]) <= 1 + Forgiven' /\ Len(armed'[k]) # 1 + Forgiven'
      BY <1>3, <3>1
    <3> QED  BY <3>2 DEF KeyFine
  <2>6. CASE d = 0
    <3>1. Len(armed'[k]) = Len(a)
      BY <2>2, <2>4, <2>6
    <3>2. ASSUME Len(a) = 1 + Forgiven, ~HasExecuted(k)
          PROVE  completed'[k] < Ttl /\ completed'[k] <= armed'[k][1]
      <4>1. c < Ttl /\ c <= a[1] /\ 1 \in 1..Len(a) /\ 0 < Len(a)
        BY <1>3, <2>1, <3>2
      <4>2. a[1] < Ttl - 1 /\ armed'[k][1] = a[1] + 1 /\ a[1] \in Nat
        BY <2>2, <2>4, <2>6, <4>1
      <4>3. completed'[k] = c + 1
        BY <2>3, <4>1
      <4> DEFINE x == a[1]
      <4>4. x \in Nat /\ c <= x /\ x < Ttl - 1 /\ armed'[k][1] = x + 1
        BY <4>1, <4>2
      <4> HIDE DEF x
      <4> QED  BY <1>3, <2>2, <4>3, <4>4
    <3>3. HasExecuted(k)' = HasExecuted(k)
      BY <1>2 DEF HasExecuted
    <3> QED  BY <1>3, <2>1, <3>1, <3>2, <3>3 DEF KeyFine
  <2> QED  BY <2>5, <2>6
<1> QED  BY <1>5, <1>6 DEF KeyInv

LEMMA RestartKeys ==
  ASSUME KeyInv, OperationsOK', CallIsHeads', Restart
  PROVE  KeyInv'
<1>1. OperationsOK
  BY DEF KeyInv
<1>2. /\ queue' = <<>>
      /\ Included \/ UNCHANGED armed
      /\ counts'.restarts = counts.restarts + 1 /\ counts'.failures = counts.failures
  BY <1>1, Counting DEF Restart
<1>3. Forgiven' = Forgiven + 1
  BY <1>1, <1>2 DEF Forgiven, OperationsOK
<1>4. KeysRunOnce'
  <2>1. Len(<<>>) = 0
    BY EmptySeq
  <2>2. Len(queue') = 0
    BY <1>2, <2>1
  <2> QED  BY <2>2 DEF KeysRunOnce
<1>5. \A k \in Keys : \/ armed'[k] = armed[k]
                      \/ Len(armed'[k]) = Len(armed[k]) + 1 /\ Len(armed[k]) <= Forgiven
  BY <1>2, IncludedOnce
<1> QED  BY <1>3, <1>4, <1>5, KeysForgiven

LEMMA KeyStep ==
  ASSUME KeyInv, [OperationsNext]_operationsVars
  PROVE  KeyInv'
<1>1. OperationsOK' /\ CallIsHeads'
  BY OperationsKeep DEF KeyInv
<1>2. CASE \E k \in Keys : ArmRequest(k)
  BY <1>1, <1>2, RequestKeys
<1>3. CASE PoolTick
  BY <1>1, <1>3, TickKeys
<1>4. CASE Calls
  BY <1>1, <1>4, CallsKeys
<1>5. CASE Lands
  BY <1>1, <1>5, LandsKeys
<1>6. CASE Reported
  BY <1>1, <1>6, ReportedKeys
<1>7. CASE CommandFails
  BY <1>1, <1>7, FailsKeys
<1>8. CASE Arms
  BY <1>1, <1>8, ArmsKeys
<1>9. CASE Ages
  BY <1>1, <1>9, AgesKeys
<1>10. CASE Restart
  BY <1>1, <1>10, RestartKeys
<1>11. CASE UNCHANGED operationsVars
  <2>1. KeysRunOnce' /\ \A k \in Keys : HasExecuted(k) => HasExecuted(k)'
    BY <1>11 DEF KeyInv, KeysRunOnce, HasExecuted, operationsVars, processVars
  <2> QED  BY <1>1, <1>11, <2>1, KeysStay DEF operationsVars, processVars
<1> QED  BY <1>2, <1>3, <1>4, <1>5, <1>6, <1>7, <1>8, <1>9, <1>10, <1>11
         DEF OperationsNext, RunStep

LEMMA KeysInitially == OperationsInit => KeyInv
<1> SUFFICES ASSUME OperationsInit PROVE KeyInv
  OBVIOUS
<1>1. OperationsOK /\ CallIsHeads
  BY OperationsInitially
<1>2. queue = <<>> /\ Len(<<>>) = 0 /\ armed = [k \in Keys |-> <<>>]
  BY EmptySeq DEF OperationsInit
<1>3. KeysRunOnce
  BY <1>2 DEF KeysRunOnce
<1>4. Forgiven = 0
  BY DEF OperationsInit, Forgiven
<1>5. \A k \in Keys : KeyFine(k)
  BY <1>2, <1>4 DEF KeyFine
<1> QED  BY <1>1, <1>3, <1>5 DEF KeyInv

(***************************************************************************)
(* However requests with one key overlap, wait or come back late, one      *)
(* action is executed for it while its value is kept, and one more at the  *)
(* most for each command whose answer was lost and each restart: the maps  *)
(* of api/idempotency.ts around the runs of the arm service.               *)
(***************************************************************************)
THEOREM KeysArmOnce == OperationsSpec => []KeyArmsOnce
<1>1. KeyInv /\ [OperationsNext]_operationsVars => KeyInv'
  BY KeyStep
<1>2. KeyInv => KeyArmsOnce
  <2>1. ASSUME OperationsOK PROVE 1 + Forgiven = 1 + counts.failures + counts.restarts
    BY <2>1 DEF OperationsOK, Forgiven
  <2> QED  BY <2>1 DEF KeyInv, KeyFine, KeyArmsOnce
<1> QED  BY KeysInitially, <1>1, <1>2, PTL DEF OperationsSpec
===============================================================================
