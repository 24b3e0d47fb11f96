-------------------------------- MODULE Replay --------------------------------
(***************************************************************************)
(* The canonical action, whose slash the service shows to the public:      *)
(* validateCanonical, canonicalReplay and canonicalBundle of backend/src/  *)
(* evidence/replay.ts, and the endpoints of api/routes.ts for health,      *)
(* proofs, receipts and the replay, beside the processes that write the    *)
(* action's row and its evidence file.  A validation reads the row, waits  *)
(* for the action's receipt to be signed and kept, and only then reads the *)
(* row again for the proof.  The action's quote was consumed before any    *)
(* challenge, and is left out with the economics that it decides.          *)
(***************************************************************************)
EXTENDS Evidence

CONSTANTS
  Canonical,  \* the action
  MaxAwaiting \* bound on the requests that wait for the signing key

ASSUME ReplayAssumption == Canonical \in Actions /\ MaxAwaiting \in Nat \ {0}

VARIABLES
  receipt,   \* its row in signed_receipts, if there is one
  proof,     \* its row in proof_cache, if there is one
  awaiting,  \* the requests that wait for the signing key
  answers    \* the receipts and proofs that ready answers have shown

replayVars == <<receipt, proof, awaiting, answers>>

ReplayInit ==
  /\ EvidenceInit
  /\ receipt = {}
  /\ proof = {}
  /\ awaiting = {}
  /\ answers = {}

Status == row[Canonical].status
Seen == [status |-> Status, linked |-> Slashing \subseteq record[Canonical]]
\* Of a receipt and of a proof, only the outcome it names is kept.
Outcome(s) == IF s = "ResolvedSlash" THEN "SLASHED" ELSE "REFUNDED"

\* The row as the validation has read it, and the receipt it has waited for.
Ready(seen, issued) ==
  /\ seen.status = "ResolvedSlash"
  /\ seen.linked
  /\ issued # {}

\* What is kept is returned as it is.
KeptProof == IF proof = {} THEN {Outcome(Status)} ELSE proof

\* A receipt and the health need no proof; the others do, or fail, where the
\* row is by now set back.
Concludes(ask, seen, issued) ==
  \/ /\ ask = "receipt" \/ ~Ready(seen, issued)
     /\ UNCHANGED <<proof, answers>>
  \/ /\ ask = "health" /\ Ready(seen, issued)
     /\ answers' = answers \cup issued
     /\ UNCHANGED proof
  \/ /\ ask \in {"proof", "replay"} /\ Ready(seen, issued)
     /\ IF IF ask = "proof" THEN Status = "ResolvedSlash" ELSE terminal(Status)
        THEN /\ proof' = KeptProof
             /\ answers' = answers \cup issued \cup proof'
        ELSE UNCHANGED <<proof, answers>>

\* issueReceipt returns what is kept, or nothing, without a wait.
AsksKept(ask) ==
  /\ receipt # {} \/ ~terminal(Status)
  /\ Concludes(ask, Seen, receipt)
  /\ UNCHANGED <<receipt, awaiting>>

AwaitsReceipt(ask) ==
  /\ receipt = {}
  /\ terminal(Status)
  /\ Cardinality(awaiting) < MaxAwaiting
  /\ awaiting' = awaiting \cup {[ask |-> ask, seen |-> Seen]}
  /\ UNCHANGED <<receipt, proof, answers>>

\* The upsert replaces what another request has kept in the meantime.
Signed(request) ==
  /\ receipt' = {Outcome(request.seen.status)}
  /\ awaiting' = awaiting \ {request}
  /\ Concludes(request.ask, request.seen, receipt')

\* The signing key cannot be read, or the process is restarted.
NotSigned(request) ==
  /\ awaiting' = awaiting \ {request}
  /\ UNCHANGED <<receipt, proof, answers>>

\* GET /api/proof/:id and the lists of proofs.
ProofAsked ==
  /\ terminal(Status)
  /\ proof' = KeptProof
  /\ UNCHANGED <<receipt, awaiting, answers>>

Visitors ==
  \/ \E ask \in {"receipt", "health", "proof", "replay"} :
       AsksKept(ask) \/ AwaitsReceipt(ask)
  \/ \E request \in awaiting : Signed(request) \/ NotSigned(request)
  \/ ProofAsked

ReplayNext ==
  \/ EvidenceNext /\ UNCHANGED replayVars
  \/ Visitors /\ UNCHANGED evidenceVars

ReplaySpec == ReplayInit /\ [][ReplayNext]_<<evidenceVars, replayVars>>

-----------------------------------------------------------------------------
(***************************************************************************)
(* Whatever the service has ever shown as ready is a slash on chain, and   *)
(* its receipt and its proof, kept for good and built from the row at two  *)
(* other moments than the validation's, both say so.                       *)
(***************************************************************************)
ReadyIsSlash ==
  answers # {} => answers = {"SLASHED"} /\ status[Canonical] = "ResolvedSlash"
=============================================================================
