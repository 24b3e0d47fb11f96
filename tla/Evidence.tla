------------------------------- MODULE Evidence -------------------------------
(***************************************************************************)
(* The evidence files of backend/src/evidence/store.ts, one for each       *)
(* action with its reasoning and the hashes of its transactions, and the   *)
(* transactions column of the action row, which reconcileChain fills from  *)
(* the file and from the watchdog's catch.  The arm service writes a file, *)
(* the API and the watchdog merge their hashes into it before they         *)
(* reconcile, and a reconciliation reads it when it takes the action's     *)
(* event.  A file is replaced by rename, so a reader sees all of it or     *)
(* none; but a merge reads it before it writes, and the arm service does   *)
(* not read it at all.  The hashes of the agent's transactions stand as    *)
(* one.                                                                    *)
(***************************************************************************)
EXTENDS Challenges

VARIABLES
  file,      \* file[a]: the evidence file of a, if there is one
  record,    \* record[a]: the transactions in the row of a
  noted,     \* noted[w]: the files w has read, the record it will write
  looked,    \* the record of the watchdog's candidate when it looked again
  merging,   \* merging[w]: what w merges before it reconciles
  overwritten  \* history: whose file the arm service has written over

readVars == <<noted, looked>>
fileVars == <<file, record, readVars, merging, overwritten>>
evidenceVars == <<challengeVars, fileVars>>

Slashing == {"challenge", "resolve"}
NoFiles == [a \in Actions |-> {}]
NothingNoted == [files |-> NoFiles, record |-> {}]

EvidenceInit ==
  /\ ChallengesInit
  /\ file = NoFiles
  /\ record = [a \in Actions |-> {}]
  /\ noted = [w \in Workers |-> NothingNoted]
  /\ looked = {}
  /\ merging = [w \in Workers |-> {}]
  /\ overwritten = {}

-----------------------------------------------------------------------------
(* The writers of a file.                                                  *)

Written(run) == {run}

\* The arm service stores the row.
RecordsRow(a) ==
  /\ ArmRecords(a)
  /\ record' = [record EXCEPT ![a] = {"execute"}]
  /\ UNCHANGED <<file, readVars, merging, overwritten>>

\* Then it writes its file over whatever there is, unless that fails.
PersistRun(a) ==
  /\ ArmReturns(a)
  /\ \/ /\ file' = [file EXCEPT ![a] = Written([reasoned |-> TRUE, txs |-> {"execute"}])]
        /\ overwritten' = overwritten \cup {b \in {a} : file[b] # {}}
        /\ UNCHANGED failures
     \/ Failure /\ UNCHANGED <<file, overwritten>>
  /\ UNCHANGED <<chainVars, cooling, rowVars, worker, record, readVars, merging>>

\* A file that is not there is made up, without reasoning.
Merged(files, hashes) ==
  Written([reasoned |-> \E run \in files : run.reasoned,
           txs |-> hashes \cup UNION {run.txs : run \in files}])

\* mergeActionTransactions reads the file,
MergeReads(w) ==
  /\ \E merge \in merging[w] :
       /\ merge.base = {}
       /\ merging' = [merging EXCEPT ![w] = {[merge EXCEPT !.base = {file[merge.action]}]}]
  /\ UNCHANGED <<challengeVars, file, record, readVars, overwritten>>

\* and writes what it has read with its hashes.
MergeWrites(w) ==
  /\ \E merge \in merging[w] : \E base \in merge.base :
       file' = [file EXCEPT ![merge.action] = Merged(base, merge.hashes)]
  /\ merging' = [merging EXCEPT ![w] = {}]
  /\ UNCHANGED <<challengeVars, record, readVars, overwritten>>

MergeActionTransactions(w) == MergeReads(w) \/ MergeWrites(w)

Merges(w, a, hashes) ==
  merging' = [merging EXCEPT ![w] = {[action |-> a, hashes |-> hashes, base |-> {}]}]

-----------------------------------------------------------------------------
(* reconcileChain with its map of the files it has read.                   *)

TransactionsOf(files, a) ==
  (IF a \in catches THEN Slashing ELSE {}) \cup UNION {run.txs : run \in files}

ReadsFiles(w) ==
  /\ TakeEvents(w)
  /\ noted' = [noted EXCEPT ![w].files =
                 [a \in Actions |-> IF a \in worker'[w].todo THEN file[a] ELSE {}]]
  /\ UNCHANGED <<file, record>>

ReadsRecord(w, a) ==
  /\ ReadAction(w, a)
  /\ noted' = [noted EXCEPT ![w].files[a] = {},
                            ![w].record = TransactionsOf(noted[w].files[a], a)]
  /\ UNCHANGED <<file, record>>

RecordWritten(w, a) ==
  /\ record' = [record EXCEPT ![a] = noted[w].record]
  /\ noted' = [noted EXCEPT ![w].record = {}]
  /\ UNCHANGED file

WritesRecord(w, a) ==
  /\ At(w, "projecting")
  /\ WriteRow(w, a)
  /\ RecordWritten(w, a)

Throws(w) ==
  /\ ReconcileThrows(w)
  /\ noted' = [noted EXCEPT ![w] = NothingNoted]
  /\ UNCHANGED <<file, record>>

ReconcilesFiles(w) ==
  /\ \/ ReadCursor(w) /\ merging[w] = {} /\ UNCHANGED <<file, record, noted>>
     \/ ReadsFiles(w)
     \/ \E a \in Actions : ReadsRecord(w, a) \/ WritesRecord(w, a)
     \/ Throws(w)
  /\ UNCHANGED <<looked, merging, overwritten, watchVars, apiVars>>

-----------------------------------------------------------------------------
(* The three processes.                                                    *)

\* The keeper's correction writes the record it has read with the row.
KeepsRecord(a) ==
  \/ /\ KeeperLooks(a)
     /\ noted' = [noted EXCEPT ![Listener].record = record[a]]
     /\ UNCHANGED <<file, record>>
  \/ KeeperCorrects(a) /\ RecordWritten(Listener, a)
  \/ /\ KeeperResolves(a) \/ KeeperFails(a) \/ KeeperBreaks(a)
     /\ noted' = [noted EXCEPT ![Listener].record = {}]
     /\ UNCHANGED <<file, record>>

Keeper ==
  /\ \/ (TickBegins \/ TickKeeps \/ KeeperEnds \/ TickEnds) /\ UNCHANGED fileVars
     \/ /\ \E a \in Actions : KeepsRecord(a)
        /\ UNCHANGED <<looked, merging, overwritten>>
  /\ UNCHANGED <<watchVars, apiVars>>

ListenerFiles == Keeper \/ ReconcilesFiles(Listener)

LooksAgain(a) ==
  /\ ScanTakes(a)
  /\ looked' = record[a]
  /\ UNCHANGED <<file, record, noted, merging, overwritten>>

CandidateThrows(a) ==
  /\ TransactThrows(a)
  /\ looked' = {}
  /\ UNCHANGED <<file, record, noted, merging, overwritten>>

\* transact merges both hashes after its second transaction.
WatchResolves(a) ==
  /\ Resolve(a)
  /\ IF scan'.pc = "reconcile" THEN Merges(Watch, a, Slashing) ELSE UNCHANGED merging
  /\ UNCHANGED <<file, record, readVars, overwritten>>

RecordsCatch(a) ==
  /\ RecordCatch(a)
  /\ record' = [record EXCEPT ![a] = looked \cup Slashing]
  /\ looked' = {}
  /\ UNCHANGED <<file, noted, merging, overwritten>>

WatchFiles ==
  \/ /\ \/ ScanBegins \/ ReconcileReturns \/ CandidateFailed \/ ScanEnds
        \/ \E a \in Actions : Challenge(a)
     /\ UNCHANGED <<fileVars, apiVars>>
  \/ /\ \E a \in Actions : LooksAgain(a) \/ CandidateThrows(a) \/ WatchResolves(a)
                             \/ RecordsCatch(a)
     /\ UNCHANGED apiVars
  \/ ReconcilesFiles(Watch)

\* Mutant of ManualChallenge: the hashes are merged with the challenge.
MergesEarly(a) ==
  /\ ChallengeLands(a)
  /\ Merges(Api, a, Slashing)
  /\ UNCHANGED <<file, record, readVars, overwritten>>

ManualChallenge(a) == ChallengeLands(a) /\ UNCHANGED fileVars

\* Mutant of ManualResolves: the challenge's hash is not passed on.
ManualResolvesAlone(a) ==
  /\ ResolveLands(a)
  /\ IF settling' THEN Merges(Api, a, {"resolve"}) ELSE UNCHANGED merging
  /\ UNCHANGED <<file, record, readVars, overwritten>>

\* The operator's resolve knows no challenge to merge with its own hash.
ManualResolves(a) ==
  /\ ResolveLands(a)
  /\ IF settling'
     THEN Merges(Api, a, IF Caller[1] = "operator" THEN {"resolve"} ELSE Slashing)
     ELSE UNCHANGED merging
  /\ UNCHANGED <<file, record, readVars, overwritten>>

ApiFiles ==
  \/ \E a \in Actions : ManualChallenge(a) \/ ManualResolves(a)
  \/ /\ \/ \E a \in Actions : \E entrypoint \in {"challenge", "resolve"} :
             CallThrows(entrypoint, a)
        \/ ResolveEnds
     /\ UNCHANGED fileVars
  \/ ReconcilesFiles(Api)

Chain ==
  /\ \/ /\ \/ \E a \in Actions : AgentActs(a) \/ WindowEnds(a) \/ ArmSees(a)
           \/ CoolsDown
        /\ UNCHANGED fileVars
     \/ \E a \in Actions : RecordsRow(a) \/ PersistRun(a)
  /\ UNCHANGED <<watchVars, apiVars>>

EvidenceNext ==
  \/ Chain
  \/ ListenerFiles
  \/ WatchFiles
  \/ ApiFiles
  \/ \E a \in Actions : StartChallenge(a) /\ UNCHANGED fileVars
  \/ \E w \in {Watch, Api} : MergeActionTransactions(w)

EvidenceSpec == EvidenceInit /\ [][EvidenceNext]_evidenceVars

\* As in Challenges: listener, watchdog and API go on with what they began.
EvidenceFair ==
  /\ EvidenceSpec
  /\ WF_evidenceVars(ListenerFiles)
  /\ WF_evidenceVars(WatchFiles \/ MergeActionTransactions(Watch))
  /\ WF_evidenceVars(ApiFiles \/ MergeActionTransactions(Api))

-----------------------------------------------------------------------------
Known(a) == record[a] \cup UNION {run.txs : run \in file[a]}

(***************************************************************************)
(* A hash that a row or a file shows is that of a transaction which the    *)
(* chain has executed, though files are read before, and rows written      *)
(* after, the chain is asked, by three processes, and calls go unanswered. *)
(***************************************************************************)
HashesAreExecuted ==
  \A a \in Actions :
    /\ "execute" \in Known(a) => Rank(status[a]) >= Rank("Executed")
    /\ "challenge" \in Known(a) => Rank(status[a]) >= Rank("Challenged")
    /\ "resolve" \in Known(a) => status[a] = "ResolvedSlash"

(***************************************************************************)
(* A challenge that a visitor is told is resolved has left both hashes in  *)
(* the action's file, from which reconciliations fill its row, also where  *)
(* a call or a reconciliation of it has failed.  Only the run that made    *)
(* the action can take them out again, if it writes its own file so late   *)
(* that there is one already.                                              *)
(***************************************************************************)
ResolvedLeavesHashes ==
  \A j \in 1..Len(jobs) : \A a \in jobs[j].action \ overwritten :
    jobs[j].status = "resolved" =>
      \E run \in file[a] : Slashing \subseteq run.txs
=============================================================================
