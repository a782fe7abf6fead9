------------------------- MODULE Erc8183Operations -------------------------
(***************************************************************************)
(* One row of the table erc8183_operations and the statements of           *)
(* PostgresErc8183OperationRepository (packages/agent-commerce/src/        *)
(* operations.ts).  Every method is one UPDATE ... WHERE ... RETURNING: its *)
(* WHERE clause is the compare-and-set that all the concurrent handlers of *)
(* this system rely on.  A method X is given by two operators: X(r, ...) is *)
(* the row after the statement, and XOk(r, ...) says whether the method    *)
(* returns (the update matched, or the re-read row is an idempotent        *)
(* replay) or throws IDEMPOTENCY_CONFLICT.  The re-read that follows an     *)
(* UPDATE without a match is taken to see the row that did not match.      *)
(***************************************************************************)
EXTENDS Integers

CONSTANTS
  Hashes,   \* public transaction hashes
  NoHash    \* SQL NULL in transaction_hash

ASSUME NoHashAssumption == NoHash \notin Hashes

\* "absent": no row has this idempotency key yet.
OperationStatus ==
  {"absent", "awaiting_signature", "submitted", "confirmed", "reverted",
   "unknown", "reconciled", "manual_review"}

\* failure_code is read back only to recognise an in-flight wallet dispatch.
FailureCode == {"none", "EOA_DISPATCH_IN_FLIGHT", "other"}

\* callsId: operation_context.callsId is set; jobId: erc8183_job_id is set;
\* block: the block of the recorded receipt (0: none).
OperationRow ==
  [status  : OperationStatus,
   hash    : Hashes \cup {NoHash},
   failure : FailureCode,
   claimed : BOOLEAN,
   callsId : BOOLEAN,
   jobId   : BOOLEAN,
   block   : Nat]

AbsentRow ==
  [status |-> "absent", hash |-> NoHash, failure |-> "none", claimed |-> FALSE,
   callsId |-> FALSE, jobId |-> FALSE, block |-> 0]

Present(r) == r.status # "absent"

\* Mutation: a status that no transition of the table knows.
ReserveUnknownStatus(r, jobKnown) ==
  IF Present(r) THEN r ELSE [AbsentRow EXCEPT !.status = "prepared", !.jobId = jobKnown]

\* INSERT ... ON CONFLICT (idempotency_key) DO NOTHING.
Reserve(r, jobKnown) ==
  IF Present(r) THEN r
  ELSE [AbsentRow EXCEPT !.status = "awaiting_signature", !.jobId = jobKnown]

CanSubmit(r, h) ==
  \/ r.status = "awaiting_signature"
  \/ r.status = "unknown" /\ r.hash \in {NoHash, h}

MarkSubmitted(r, h) ==
  IF CanSubmit(r, h) THEN [r EXCEPT !.status = "submitted", !.hash = h] ELSE r

MarkSubmittedOk(r, h) ==
  CanSubmit(r, h) \/ (r.status = "submitted" /\ r.hash = h)

\* The chain assigns one job ID per create receipt, so a second attach always
\* carries the same ID.
AttachJobId(r) == [r EXCEPT !.jobId = TRUE]

\* One relay call per operation: the ID attached later is the same one.
AttachCallsId(r) == [r EXCEPT !.callsId = TRUE]

\* Mutation: a retry may claim a step whose outcome is unknown.
CanClaimUnknown(r) ==
  r.status \in {"awaiting_signature", "unknown"} /\ r.hash = NoHash

CanClaim(r) ==
  r.status = "awaiting_signature" /\ ~r.claimed /\ r.hash = NoHash

ClaimExternalDispatch(r) ==
  IF CanClaim(r)
  THEN [r EXCEPT !.status = "unknown", !.failure = "EOA_DISPATCH_IN_FLIGHT",
                 !.claimed = TRUE]
  ELSE r

CanRelease(r) ==
  /\ r.status = "unknown"
  /\ r.hash = NoHash
  /\ r.claimed
  /\ r.failure = "EOA_DISPATCH_IN_FLIGHT"

ReleaseExternalDispatch(r) ==
  IF CanRelease(r)
  THEN [r EXCEPT !.status = "awaiting_signature", !.failure = "none",
                 !.claimed = FALSE]
  ELSE r

CanReceive(r) == r.status \in {"submitted", "unknown", "manual_review"}

MarkReceipt(r, outcome, h, block) ==
  IF CanReceive(r)
  THEN [r EXCEPT !.status = outcome, !.hash = h, !.block = block,
                 !.failure = IF outcome = "confirmed" THEN "none" ELSE "other"]
  ELSE r

MarkReceiptOk(r, outcome, h, block) ==
  CanReceive(r) \/ (r.status = outcome /\ r.hash = h /\ r.block = block)

MarkUnknown(r) ==
  IF r.status \in {"awaiting_signature", "submitted"}
  THEN [r EXCEPT !.status = "unknown", !.failure = "other"] ELSE r

MarkUnknownOk(r) == r.status \in {"awaiting_signature", "submitted", "unknown"}

CanFail(r) ==
  r.status \in {"awaiting_signature", "submitted", "unknown"} /\ r.hash = NoHash

MarkFailed(r) ==
  IF CanFail(r) THEN [r EXCEPT !.status = "reverted", !.failure = "other"] ELSE r

MarkFailedOk(r) == CanFail(r) \/ (r.status = "reverted" /\ r.hash = NoHash)

\* status is "reconciled" or "manual_review".
Reconcile(r, status) ==
  IF r.status \in {"unknown", "manual_review", "confirmed"}
  THEN [r EXCEPT !.status = status] ELSE r

ReconcileOk(r, status) ==
  r.status \in {"unknown", "manual_review", "confirmed", status}

MarkManualReview(r) ==
  IF r.status \in {"awaiting_signature", "submitted", "unknown", "confirmed"}
  THEN [r EXCEPT !.status = "manual_review", !.failure = "other"] ELSE r

MarkManualReviewOk(r) ==
  r.status \in {"awaiting_signature", "submitted", "unknown", "confirmed",
                "manual_review"}
=============================================================================
