----------------------------- MODULE JobStore -----------------------------
(***************************************************************************)
(* The canonical job of one hire and its marketplace projection, as the    *)
(* statements of PostgresErc8183JobRepository (postgres-jobs.ts) and of    *)
(* the projection functions of marketplace-projection.ts change them: the  *)
(* row of erc8183_jobs, its append-only events, the parent row of          *)
(* commerce_jobs and the row of commerce_job_results.  A database           *)
(* transaction is one operator from the database before it to the database *)
(* after it; XOk says whether it commits or rolls back with an error.      *)
(* The terms, the provider binding and the digests of one hire never        *)
(* change after creation, so a job row keeps its state, whether a          *)
(* deliverable and an approval are recorded, and the four hashes.          *)
(***************************************************************************)
EXTENDS Integers

CONSTANTS
  TxHashes,   \* transaction hashes that may prove a step of this job
  NoTx        \* SQL NULL in a hash column

JobState ==
  {"none", "open", "funded", "submitted", "completed", "rejected", "expired"}

ParentStatus == {"draft", "funded", "submitted", "settled", "cancelled"}

ResultState == {"none", "submitted", "settled"}

Tx == TxHashes \cup {NoTx}

\* "none": no row yet.
JobRecord ==
  [state : JobState, digest : BOOLEAN, approval : BOOLEAN, funding : Tx,
   submission : Tx, completion : Tx, rejection : Tx, refund : Tx]

NoJob ==
  [state |-> "none", digest |-> FALSE, approval |-> FALSE, funding |-> NoTx,
   submission |-> NoTx, completion |-> NoTx, rejection |-> NoTx, refund |-> NoTx]

\* events: the event keys that are persisted, each with the step it records.
EventType == {"job_created", "job_funded", "job_submitted", "job_completed",
              "job_rejected", "job_expired", "reconciliation_succeeded"}

Event ==
  [type : EventType, tx : TxHashes, source : {"operation", "public"},
   prev : JobState]

Database == [job : JobRecord, parent : ParentStatus, result : ResultState,
             settlement : Tx, events : SUBSET Event]

\* The refinement of erc8183JobRecordSchema: an approval belongs to a
\* submitted or completed job and to its recorded deliverable.
ValidRecord(j) ==
  j.approval => j.state \in {"submitted", "completed"} /\ j.digest

SameKey(e, f) == e.type = f.type /\ e.tx = f.tx /\ e.source = f.source

\* transition() looks the event key up first: a key that is already there is a
\* replay only if the stored job is exactly the requested one.
EventExists(db, e) == \E f \in db.events : SameKey(e, f)

\* persistMarketplaceSubmissionProjection: INSERT ... ON CONFLICT DO NOTHING and
\* the CASE on the parent's status.
ProjectSubmission(db) ==
  [db EXCEPT !.result = IF @ = "none" THEN "submitted" ELSE @,
             !.parent = IF @ \in {"draft", "funded"} THEN "submitted" ELSE @]

SettlementOk(db, e) ==
  \/ db.result = "submitted"
  \/ db.result = "settled" /\ db.settlement = e.tx

ProjectSettlement(db, e) ==
  [db EXCEPT !.result = "settled", !.settlement = e.tx, !.parent = "settled"]

RefundOk(db, j, e) ==
  /\ e.prev \in {"funded", "submitted"}
  /\ j.state = (IF e.type = "job_rejected" THEN "rejected" ELSE "expired")
  /\ j.refund = e.tx
  /\ db.parent \in {"funded", "submitted", "cancelled"}

ProjectRefund(db) == [db EXCEPT !.parent = "cancelled"]

ProjectionOk(db, j, e) ==
  CASE e.type = "job_completed" -> SettlementOk(db, e)
    [] e.type \in {"job_expired", "job_rejected"} -> RefundOk(db, j, e)
    [] OTHER -> TRUE

Project(db, e) ==
  CASE e.type = "job_submitted" -> ProjectSubmission(db)
    [] e.type = "job_completed" -> ProjectSettlement(db, e)
    [] e.type \in {"job_expired", "job_rejected"} -> ProjectRefund(db)
    [] OTHER -> db

\* syncMarketplaceFunding: the parent follows the confirmed funding proof.
SyncMarketplaceFunding(db) ==
  [db EXCEPT !.parent = IF db.job.state # "open" /\ @ = "draft" THEN "funded" ELSE @]

\* create(): an existing row must be the same record, its timestamps included
\* (sameClock: both writers read the same second); otherwise the insert, its
\* event and the parent are one transaction.
CreateOk(db, j, sameClock) == db.job.state = "none" \/ (db.job = j /\ sameClock)

Create(db, j, e) ==
  IF db.job.state # "none" THEN db
  ELSE SyncMarketplaceFunding([db EXCEPT !.job = j, !.events = @ \cup {e}])

\* The WHERE clause of transition(): only the state is compared, every other
\* column is overwritten with what the caller computed from its own read.
UpdateMatches(db, prev) == db.job.state = prev

TransitionCommits(db, j, prev, e) ==
  /\ ValidRecord(j)
  /\ ~EventExists(db, e)
  /\ UpdateMatches(db, prev)
  /\ ProjectionOk(db, j, e)

\* repairExpiredMarketplaceProjection: replays the parent projection from the
\* stored expiry event.
RepairOk(db) ==
  \E e \in db.events : e.type = "job_expired" /\ RefundOk(db, db.job, e)

Repair(db) == IF RepairOk(db) THEN ProjectRefund(db) ELSE db

\* The compared digests cover updatedAtUnix: a replay needs the same second.
TransitionReplays(db, j, e, sameClock) ==
  EventExists(db, e) /\ db.job = j /\ sameClock

TransitionOk(db, j, prev, e, sameClock) ==
  \/ TransitionCommits(db, j, prev, e)
  \/ /\ TransitionReplays(db, j, e, sameClock)
     /\ e.type = "job_expired" => RepairOk(db)

\* Mutation: the marketplace projection is left to a later transaction.
TransitionUnprojected(db, j, prev, e, sameClock) ==
  IF TransitionCommits(db, j, prev, e)
  THEN [db EXCEPT !.job = j, !.events = @ \cup {e}]
  ELSE db

Transition(db, j, prev, e, sameClock) ==
  IF TransitionCommits(db, j, prev, e)
  THEN Project([db EXCEPT !.job = j, !.events = @ \cup {e}], e)
  ELSE IF TransitionReplays(db, j, e, sameClock) /\ e.type = "job_expired" THEN Repair(db)
  ELSE db

\* approveResult(): the check on the row that was read, and the conditional
\* update, which also requires that no approval is recorded yet.
MayApprove(j) == j.state = "submitted" /\ j.digest

Approve(db) ==
  IF db.job.state = "submitted" /\ ~db.job.approval
  THEN [db EXCEPT !.job.approval = TRUE] ELSE db

\* assertBuyerApproval()
BuyerApproved(db) == db.job.approval /\ db.job.digest
=============================================================================
