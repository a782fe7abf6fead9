-------------------------- MODULE SdkCoordinator --------------------------
(***************************************************************************)
(* One hired job from its relay hire to its settlement or refund:          *)
(* Erc8183OperationCoordinator (service.ts) drives the Altana SDK for the  *)
(* create, submit, settle and claim_refund operations of the job, records  *)
(* each outcome on its operation row (Erc8183Operations) and projects it   *)
(* on the canonical job (JobStore).  Any number of requests run            *)
(* concurrently in the processes Procs; every database statement and every *)
(* call of the relay or of the chain is a step of its own, and a process   *)
(* may stop between any two of them.  The relay reveals a transaction hash *)
(* only after the transaction is in a block; kind k's transaction has the  *)
(* hash k.                                                                 *)
(***************************************************************************)
EXTENDS Erc8183Operations, JobStore

CONSTANTS
  Procs,          \* concurrent request handlers and worker runs
  ServiceKinds,   \* operations the server runs through executeSdk
  WorkerKinds,    \* {"submit"} if the reference provider worker submits
  BrowserKinds,   \* operations whose call the browser sends (reserveExternal)
  SellerKinds,    \* {"submit"} if an external seller submits by itself
  PublicVerdicts, \* terminal states someone else may bring about on chain
  StartState,     \* job state in the initial state: "none" or "funded"
  MaxCrashes      \* bound on process crashes

Kinds == ServiceKinds \cup WorkerKinds \cup BrowserKinds \cup SellerKinds

VARIABLES
  ops,      \* erc8183_operations: the row of each kind of operation of the job
  db,       \* Database: the canonical job and its projection
  tx,       \* of each kind: what became of the call its SDK run sent
  sends,    \* of each kind: calls handed to the relay
  chain,    \* the protocol job: its state, the clock, its terminal transaction
  frame,    \* [Procs -> Frame]: the handler each process is executing
  crashes

vars == <<ops, db, tx, sends, chain, frame, crashes>>

TxStatus == {"none", "sent", "ok", "reverted", "dropped"}

Idle == [pc |-> "idle"]

SetFrame(p, f) == frame' = [frame EXCEPT ![p] = f]

Goto(p, pc) == SetFrame(p, [frame[p] EXCEPT !.pc = pc])

Exec(k, pc) ==
  [pc |-> pc, k |-> k, by |-> "exec", seen |-> AbsentRow, job |-> NoJob,
   cause |-> [code |-> "OTHER", hash |-> FALSE, calls |-> FALSE], done |-> FALSE]

Rec(k) == [Exec(k, "get") EXCEPT !.by = "rec"]

FailWith(p, code, hash, calls) ==
  SetFrame(p, [frame[p] EXCEPT !.pc = "fail",
               !.cause = [code |-> code, hash |-> hash, calls |-> calls]])

At(p, by, pc) == frame[p].pc = pc /\ frame[p].by = by

Kind(p) == frame[p].k

Row(p) == ops[Kind(p)]

SetRow(p, r) == ops' = [ops EXCEPT ![Kind(p)] = r]

HiredJob(h) == [NoJob EXCEPT !.state = "funded", !.funding = h]

Init ==
  /\ ops = [k \in Kinds |-> AbsentRow]
  /\ tx = [k \in Kinds |-> "none"]
  /\ sends = [k \in Kinds |-> 0]
  /\ frame = [p \in Procs |-> Idle]
  /\ crashes = 0
  /\ IF StartState = "none"
     THEN /\ db = [job |-> NoJob, parent |-> "draft", result |-> "none",
                   settlement |-> NoTx, events |-> {}]
          /\ chain = [job |-> "NONE", expired |-> FALSE, terminal |-> NoTx]
     ELSE /\ db = [job |-> HiredJob("hire0"), parent |-> "funded", result |-> "none",
                   settlement |-> NoTx,
                   events |-> {[type |-> "job_created", tx |-> "hire0",
                                source |-> "operation", prev |-> "none"]}]
          /\ chain = [job |-> "FUNDED", expired |-> FALSE, terminal |-> NoTx]

-----------------------------------------------------------------------------
(***************************************************************************)
(* The chain and the relay.                                                *)
(***************************************************************************)

ChainAllows(k) ==
  CASE k = "create" -> chain.job = "NONE"
    [] k = "submit" -> chain.job = "FUNDED" /\ ~chain.expired
    [] k = "settle" -> chain.job = "SUBMITTED"
    [] k = "claim_refund" -> chain.job \in {"FUNDED", "SUBMITTED"} /\ chain.expired

ChainAfter(k) ==
  CASE k = "create" -> [chain EXCEPT !.job = "FUNDED"]
    [] k = "submit" -> [chain EXCEPT !.job = "SUBMITTED"]
    [] k = "settle" -> [chain EXCEPT !.job = "COMPLETED", !.terminal = k]
    [] k = "claim_refund" -> [chain EXCEPT !.job = "EXPIRED", !.terminal = k]

Mine(k) ==
  /\ tx[k] = "sent"
  /\ IF ChainAllows(k)
     THEN tx' = [tx EXCEPT ![k] = "ok"] /\ chain' = ChainAfter(k)
     ELSE tx' = [tx EXCEPT ![k] = "reverted"] /\ UNCHANGED chain
  /\ UNCHANGED <<ops, db, sends, frame, crashes>>

\* The relay gives the call up without a transaction.
Drop(k) ==
  /\ tx[k] = "sent"
  /\ tx' = [tx EXCEPT ![k] = "dropped"]
  /\ UNCHANGED <<ops, db, sends, chain, frame, crashes>>

ReachExpiry ==
  /\ ~chain.expired
  /\ chain' = [chain EXCEPT !.expired = TRUE]
  /\ UNCHANGED <<ops, db, tx, sends, frame, crashes>>

\* A permissionless settlement, rejection or refund by somebody else.
PublicTerminal(v) ==
  /\ v \in PublicVerdicts
  /\ \/ chain.job = "SUBMITTED" /\ v \in {"COMPLETED", "REJECTED"}
     \/ chain.job \in {"FUNDED", "SUBMITTED"} /\ chain.expired /\ v = "EXPIRED"
  /\ chain' = [chain EXCEPT !.job = v, !.terminal = "public"]
  /\ UNCHANGED <<ops, db, tx, sends, frame, crashes>>

SellerSubmits ==
  /\ "submit" \in SellerKinds
  /\ tx["submit"] = "none" /\ ChainAllows("submit")
  /\ tx' = [tx EXCEPT !["submit"] = "ok"]
  /\ chain' = ChainAfter("submit")
  /\ UNCHANGED <<ops, db, sends, frame, crashes>>

Mined(k) == tx[k] \in {"ok", "reverted"}

\* acceptsState: the states in which the job may be read after k's receipt.
AcceptsState(k) ==
  CASE k = "create" -> chain.job \notin {"NONE"}
    [] k = "submit" -> chain.job \in {"SUBMITTED", "COMPLETED", "REJECTED", "EXPIRED"}
    [] k = "settle" -> chain.job = "COMPLETED"
    [] k = "claim_refund" -> chain.job = "EXPIRED"

Verified(k) == tx[k] = "ok" /\ AcceptsState(k)

-----------------------------------------------------------------------------
(***************************************************************************)
(* executeSdk.                                                             *)
(***************************************************************************)

\* The service methods hire, submit, settle and claimRefund: the persisted job
\* must exist for a later step, and a settlement needs the buyer's approval.
MayExecute(k) ==
  /\ k # "create" => db.job.state # "none"
  /\ k = "settle" => BuyerApproved(db)

CallExecute(p, k) ==
  /\ frame[p] = Idle
  /\ k \in ServiceKinds
  /\ MayExecute(k)
  /\ SetFrame(p, Exec(k, "reserve"))
  /\ UNCHANGED <<ops, db, tx, sends, chain, crashes>>

\* Mutation: the worker leaves an operation alone once its outcome is unknown.
CallWorkerKnown(p) ==
  /\ frame[p] = Idle
  /\ "submit" \in WorkerKinds
  /\ IF Present(ops["submit"])
     THEN /\ ops["submit"].status \notin
               {"unknown", "confirmed", "reconciled", "reverted", "manual_review"}
          /\ SetFrame(p, Rec("submit"))
     ELSE /\ db.job.state = "funded"
          /\ SetFrame(p, Exec("submit", "reserve"))
  /\ UNCHANGED <<ops, db, tx, sends, chain, crashes>>

\* Erc8183ReferenceProviderRunner.run: a persisted operation is recovered, and
\* only an absent one leads to a new submission of a job that is still funded.
CallWorker(p) ==
  /\ frame[p] = Idle
  /\ "submit" \in WorkerKinds
  /\ IF Present(ops["submit"])
     THEN /\ ops["submit"].status \notin
               {"confirmed", "reconciled", "reverted", "manual_review"}
          /\ SetFrame(p, Rec("submit"))
     ELSE /\ db.job.state = "funded"
          /\ SetFrame(p, Exec("submit", "reserve"))
  /\ UNCHANGED <<ops, db, tx, sends, chain, crashes>>

\* Mutation: a replayed request whose row still awaits a signature runs again.
ExecReserveReruns(p) ==
  /\ At(p, "exec", "reserve")
  /\ SetRow(p, Reserve(Row(p), Kind(p) # "create"))
  /\ IF Row(p).status \in {"absent", "awaiting_signature"}
     THEN Goto(p, "run") ELSE SetFrame(p, Idle)
  /\ UNCHANGED <<db, tx, sends, chain, crashes>>

\* A replayed key returns its terminal row or throws TRANSACTION_UNKNOWN.
ExecReserve(p) ==
  /\ At(p, "exec", "reserve")
  /\ SetRow(p, Reserve(Row(p), Kind(p) # "create"))
  /\ IF Present(Row(p)) THEN SetFrame(p, Idle) ELSE Goto(p, "run")
  /\ UNCHANGED <<db, tx, sends, chain, crashes>>

\* run() throws before anything is sent: a refused input, or an RPC failure of
\* readJob or ensureNetworkVerified.
RunRefused(p) ==
  /\ At(p, "exec", "run")
  /\ \E code \in {"REFUSED", "OTHER"} : FailWith(p, code, FALSE, FALSE)
  /\ UNCHANGED <<ops, db, tx, sends, chain, crashes>>

RunDispatch(p) ==
  /\ At(p, "exec", "run")
  /\ tx' = [tx EXCEPT ![Kind(p)] = IF @ = "none" THEN "sent" ELSE @]
  /\ sends' = [sends EXCEPT ![Kind(p)] = @ + 1]
  /\ Goto(p, "sent")
  /\ UNCHANGED <<ops, db, chain, crashes>>

\* The SDK call threw, confirmed without a hash, or its receipt or job could
\* not be read: the error carries what was learned (sdkCallError,
\* withExecutionContext, assertConfirmedHash).
RunThrows(p) ==
  /\ At(p, "exec", "sent")
  /\ \E code \in {"TRANSACTION_UNKNOWN", "OTHER"}, hash, calls \in BOOLEAN :
       /\ hash => Mined(Kind(p))
       /\ FailWith(p, code, hash, calls)
  /\ UNCHANGED <<ops, db, tx, sends, chain, crashes>>

\* A result that is not CONFIRMED with a receipt; a sample may lag the chain.
RunUnconfirmed(p) ==
  /\ At(p, "exec", "sent")
  /\ \E hash \in BOOLEAN :
       /\ hash => Mined(Kind(p))
       /\ SetFrame(p, [frame[p] EXCEPT !.pc = "attach",
                       !.cause = [code |-> "TRANSACTION_UNKNOWN", hash |-> hash,
                                  calls |-> TRUE]])
  /\ UNCHANGED <<ops, db, tx, sends, chain, crashes>>

RunConfirmed(p) ==
  /\ At(p, "exec", "sent")
  /\ Verified(Kind(p))
  /\ SetFrame(p, [frame[p] EXCEPT !.pc = "attach", !.done = TRUE,
                  !.cause = [code |-> "TRANSACTION_UNKNOWN", hash |-> TRUE,
                             calls |-> TRUE]])
  /\ UNCHANGED <<ops, db, tx, sends, chain, crashes>>

ExecAttach(p) ==
  /\ At(p, "exec", "attach")
  /\ SetRow(p, AttachCallsId(Row(p)))
  /\ Goto(p, IF frame[p].cause.hash THEN "submit" ELSE "unknown")
  /\ UNCHANGED <<db, tx, sends, chain, crashes>>

\* A statement that matches no row throws IDEMPOTENCY_CONFLICT without a hash.
Conflict(p) == FailWith(p, "OTHER", FALSE, FALSE)

ExecSubmit(p) ==
  /\ At(p, "exec", "submit")
  /\ SetRow(p, MarkSubmitted(Row(p), Kind(p)))
  /\ IF MarkSubmittedOk(Row(p), Kind(p))
     THEN Goto(p, IF frame[p].done THEN "receipt" ELSE "unknown")
     ELSE Conflict(p)
  /\ UNCHANGED <<db, tx, sends, chain, crashes>>

ExecUnknown(p) ==
  /\ At(p, "exec", "unknown")
  /\ SetRow(p, MarkUnknown(Row(p)))
  /\ IF MarkUnknownOk(Row(p)) THEN Goto(p, "fail") ELSE Conflict(p)
  /\ UNCHANGED <<db, tx, sends, chain, crashes>>

ExecReceipt(p) ==
  /\ At(p, "exec", "receipt")
  /\ SetRow(p, LET r == MarkReceipt(Row(p), "confirmed", Kind(p), 1)
               IN IF MarkReceiptOk(Row(p), "confirmed", Kind(p), 1)
                  THEN AttachJobId(r) ELSE r)
  /\ IF MarkReceiptOk(Row(p), "confirmed", Kind(p), 1)
     THEN Goto(p, "read") ELSE Conflict(p)
  /\ UNCHANGED <<db, tx, sends, chain, crashes>>

\* recordFailure.
FailAttach(p) ==
  /\ At(p, "exec", "fail")
  /\ SetRow(p, IF frame[p].cause.calls THEN AttachCallsId(Row(p)) ELSE Row(p))
  /\ Goto(p, IF frame[p].cause.hash
                \/ (frame[p].cause.code = "TRANSACTION_UNKNOWN" /\ frame[p].cause.calls)
             THEN "failGet" ELSE "failMark")
  /\ UNCHANGED <<db, tx, sends, chain, crashes>>

FailGet(p) ==
  /\ At(p, "exec", "failGet")
  /\ SetFrame(p, [frame[p] EXCEPT !.seen = Row(p),
                  !.pc = CASE ~frame[p].cause.hash -> "failMark"
                           [] Row(p).status = "awaiting_signature" -> "failSubmit"
                           [] OTHER -> "failGetAgain"])
  /\ UNCHANGED <<ops, db, tx, sends, chain, crashes>>

FailSubmit(p) ==
  /\ At(p, "exec", "failSubmit")
  /\ SetRow(p, MarkSubmitted(Row(p), Kind(p)))
  /\ IF MarkSubmittedOk(Row(p), Kind(p))
     THEN Goto(p, "failGetAgain") ELSE SetFrame(p, Idle)
  /\ UNCHANGED <<db, tx, sends, chain, crashes>>

FailGetAgain(p) ==
  /\ At(p, "exec", "failGetAgain")
  /\ SetFrame(p, [frame[p] EXCEPT !.seen = Row(p), !.pc = "failMark"])
  /\ UNCHANGED <<ops, db, tx, sends, chain, crashes>>

\* The row after recordFailure's last statement, by what it read before.
FailureMark(r, seen, cause) ==
  CASE cause.hash /\ seen.status = "submitted" /\ cause.code = "TRANSACTION_UNKNOWN"
         -> MarkUnknown(r)
    [] cause.hash /\ seen.status \notin {"reverted", "reconciled", "manual_review"}
         -> MarkManualReview(r)
    [] ~cause.hash /\ cause.code = "TRANSACTION_UNKNOWN" /\ cause.calls
         -> IF seen.status = "awaiting_signature" THEN MarkUnknown(r) ELSE r
    [] ~cause.hash /\ cause.code # "REFUSED" -> MarkManualReview(r)
    [] OTHER -> r

FailMark(p) ==
  /\ At(p, "exec", "failMark")
  /\ SetRow(p, FailureMark(Row(p), frame[p].seen, frame[p].cause))
  /\ SetFrame(p, Idle)
  /\ UNCHANGED <<db, tx, sends, chain, crashes>>

-----------------------------------------------------------------------------
(***************************************************************************)
(* The browser relay and the external seller, which only report evidence.  *)
(***************************************************************************)

\* reserveExternal, the dispatch claim and the browser's own relay call.
BrowserDispatch(k) ==
  /\ k \in BrowserKinds
  /\ MayExecute(k)
  /\ ~Present(ops[k])
  /\ ops' = [ops EXCEPT ![k] = ClaimExternalDispatch(Reserve(@, k # "create"))]
  /\ tx' = [tx EXCEPT ![k] = "sent"]
  /\ sends' = [sends EXCEPT ![k] = @ + 1]
  /\ UNCHANGED <<db, chain, frame, crashes>>

\* attachExternalExecution up to its call of reconcile.
AttachExternalExecution(p, k) ==
  /\ frame[p] = Idle
  /\ k \in BrowserKinds
  /\ Present(ops[k])
  /\ ops[k].status \notin {"confirmed", "reverted", "reconciled"}
  /\ \E withHash \in BOOLEAN :
       LET r == AttachCallsId(ops[k])
       IN /\ withHash => Mined(k)
          /\ ops' = [ops EXCEPT ![k] = IF withHash THEN MarkSubmitted(r, k)
                                       ELSE MarkUnknown(r)]
          /\ SetFrame(p, IF withHash /\ ~MarkSubmittedOk(r, k) THEN Idle ELSE Rec(k))
  /\ UNCHANGED <<db, tx, sends, chain, crashes>>

\* ExternalSellerLifecycle.refresh: the seller's own submission transaction is
\* recorded as an operation and reconciled.
Refresh(p) ==
  /\ frame[p] = Idle
  /\ "submit" \in SellerKinds /\ Verified("submit")
  /\ db.job.state # "none"
  /\ LET r == Reserve(ops["submit"], TRUE)
     IN ops' = [ops EXCEPT !["submit"] =
                  IF r.status \in {"awaiting_signature", "unknown"}
                  THEN MarkSubmitted(r, "submit") ELSE r]
  /\ SetFrame(p, Rec("submit"))
  /\ UNCHANGED <<db, tx, sends, chain, crashes>>

-----------------------------------------------------------------------------
(***************************************************************************)
(* reconcile.                                                              *)
(***************************************************************************)

CallReconcile(p, k) ==
  /\ frame[p] = Idle
  /\ Present(ops[k])
  /\ SetFrame(p, Rec(k))
  /\ UNCHANGED <<ops, db, tx, sends, chain, crashes>>

RecGet(p) ==
  /\ At(p, "rec", "get")
  /\ SetFrame(p,
       IF Row(p).status \in {"reverted", "reconciled"} THEN Idle
       ELSE [frame[p] EXCEPT !.seen = Row(p),
               !.pc = CASE Row(p).hash # NoHash -> "verify"
                        [] Row(p).callsId -> "relay"
                        [] OTHER -> "orphan"])
  /\ UNCHANGED <<ops, db, tx, sends, chain, crashes>>

\* One relay sample and the statement that records it.
RecRelay(p) ==
  /\ At(p, "rec", "relay")
  /\ \/ /\ Mined(Kind(p))
        /\ SetRow(p, MarkSubmitted(Row(p), Kind(p)))
        /\ IF MarkSubmittedOk(Row(p), Kind(p)) THEN Goto(p, "get") ELSE SetFrame(p, Idle)
     \/ /\ tx[Kind(p)] = "dropped"
        /\ SetRow(p, MarkFailed(Row(p)))
        /\ SetFrame(p, Idle)
     \/ /\ SetRow(p, MarkUnknown(Row(p)))
        /\ SetFrame(p, Idle)
  /\ UNCHANGED <<db, tx, sends, chain, crashes>>

RecOrphan(p) ==
  /\ At(p, "rec", "orphan")
  /\ SetRow(p, MarkManualReview(Row(p)))
  /\ SetFrame(p, Idle)
  /\ UNCHANGED <<db, tx, sends, chain, crashes>>

\* verifyReceiptForOperation: no receipt yet, a receipt or state that does not
\* verify (an RPC failure included), or a verified one.
RecNoReceipt(p) ==
  /\ At(p, "rec", "verify")
  /\ SetRow(p, MarkUnknown(Row(p)))
  /\ SetFrame(p, Idle)
  /\ UNCHANGED <<db, tx, sends, chain, crashes>>

RecUnverified(p) ==
  /\ At(p, "rec", "verify")
  /\ Goto(p, "review")
  /\ UNCHANGED <<ops, db, tx, sends, chain, crashes>>

RecVerified(p) ==
  /\ At(p, "rec", "verify")
  /\ Verified(Kind(p))
  /\ Goto(p, "receipt")
  /\ UNCHANGED <<ops, db, tx, sends, chain, crashes>>

\* Mutation: the operation becomes reconciled before the job is projected.
RecReceiptReconciles(p) ==
  /\ At(p, "rec", "receipt")
  /\ SetRow(p, Reconcile(MarkReceipt(Row(p), "confirmed", Kind(p), 1), "reconciled"))
  /\ Goto(p, "read")
  /\ UNCHANGED <<db, tx, sends, chain, crashes>>

RecReceipt(p) ==
  /\ At(p, "rec", "receipt")
  /\ SetRow(p, LET r == MarkReceipt(Row(p), "confirmed", Kind(p), 1)
               IN IF MarkReceiptOk(Row(p), "confirmed", Kind(p), 1)
                  THEN AttachJobId(r) ELSE r)
  /\ Goto(p, IF MarkReceiptOk(Row(p), "confirmed", Kind(p), 1) THEN "read" ELSE "review")
  /\ UNCHANGED <<db, tx, sends, chain, crashes>>

RecFinish(p) ==
  /\ At(p, "rec", "finish")
  /\ SetRow(p, Reconcile(Row(p), "reconciled"))
  /\ IF ReconcileOk(Row(p), "reconciled") THEN SetFrame(p, Idle) ELSE Goto(p, "review")
  /\ UNCHANGED <<db, tx, sends, chain, crashes>>

RecReview(p) ==
  /\ At(p, "rec", "review")
  /\ SetRow(p, MarkManualReview(Row(p)))
  /\ SetFrame(p, Idle)
  /\ UNCHANGED <<db, tx, sends, chain, crashes>>

-----------------------------------------------------------------------------
(***************************************************************************)
(* The canonical projection: persistCanonicalConfirmation and              *)
(* persistCanonicalReconciliation read the job, then write it.             *)
(***************************************************************************)

OperationEvent(k, type, prev) ==
  [type |-> type, tx |-> k, source |-> "operation", prev |-> prev]

PersistSubmitOk(j, k) == j.state = "funded"

SubmittedJob(j, k) ==
  [j EXCEPT !.state = "submitted", !.digest = TRUE, !.submission = k]

\* Mutation: a completion is written without the approval that was read.
TerminalJobUnapproved(j, k) ==
  IF k = "settle" THEN [j EXCEPT !.state = "completed", !.completion = k, !.approval = FALSE]
  ELSE [j EXCEPT !.state = "expired", !.refund = k]

\* {...current, state}: an approval is carried along, whatever the new state.
TerminalJob(j, k) ==
  IF k = "settle" THEN [j EXCEPT !.state = "completed", !.completion = k]
  ELSE [j EXCEPT !.state = "expired", !.refund = k]

\* The outcome of the write: the database after it, and whether it returns.
PersistCanonicalHire(j, k, same) ==
  IF j.state = "none"
  THEN [db |-> Create(db, HiredJob(k), OperationEvent(k, "job_created", "none")),
        ok |-> CreateOk(db, HiredJob(k), same)]
  ELSE [db |-> db, ok |-> TRUE]

PersistCanonicalSubmit(j, k, same) ==
  LET e == OperationEvent(k, "job_submitted", j.state)
  IN IF PersistSubmitOk(j, k)
     THEN [db |-> Transition(db, SubmittedJob(j, k), j.state, e, same),
           ok |-> TransitionOk(db, SubmittedJob(j, k), j.state, e, same)]
     ELSE [db |-> db, ok |-> j.state = "submitted" /\ j.digest]

PersistCanonicalTerminal(j, k, same) ==
  LET next == TerminalJob(j, k)
      from == IF k = "settle" THEN {"submitted"} ELSE {"funded", "submitted"}
      e    == OperationEvent(k, IF k = "settle" THEN "job_completed" ELSE "job_expired",
                             j.state)
  IN CASE j.state = next.state /\ k = "settle" -> [db |-> db, ok |-> TRUE]
       [] j.state = next.state /\ k # "settle" ->
            [db |-> IF j.refund = k THEN Repair(db) ELSE db,
             ok |-> j.refund = k /\ RepairOk(db)]
       [] j.state \in from -> [db |-> Transition(db, next, j.state, e, same),
                               ok |-> TransitionOk(db, next, j.state, e, same)]
       [] OTHER -> [db |-> db, ok |-> FALSE]

Persist(j, k, same) ==
  CASE k = "create" -> PersistCanonicalHire(j, k, same)
    [] k = "submit" -> PersistCanonicalSubmit(j, k, same)
    [] OTHER -> PersistCanonicalTerminal(j, k, same)

PersistRead(p) ==
  /\ frame[p].pc = "read"
  /\ SetFrame(p, [frame[p] EXCEPT !.job = db.job, !.pc = "write"])
  /\ UNCHANGED <<ops, db, tx, sends, chain, crashes>>

PersistWrite(p) ==
  /\ frame[p].pc = "write"
  /\ \E same \in BOOLEAN :
       LET out == Persist(frame[p].job, Kind(p), same)
       IN /\ db' = out.db
          /\ CASE out.ok /\ frame[p].by = "exec" -> SetFrame(p, Idle)
               [] out.ok /\ frame[p].by = "rec" -> Goto(p, "finish")
               [] ~out.ok /\ frame[p].by = "exec" -> Conflict(p)
               [] OTHER -> Goto(p, "review")
  /\ UNCHANGED <<ops, tx, sends, chain, crashes>>

-----------------------------------------------------------------------------
(***************************************************************************)
(* The buyer's approval, the public terminal evidence and the repair.      *)
(***************************************************************************)

\* approveResult: the checked read, then the conditional update.
ApproveRead(p) ==
  /\ frame[p] = Idle
  /\ MayApprove(db.job) /\ ~db.job.approval
  /\ SetFrame(p, [Exec("none", "approve") EXCEPT !.by = "buyer"])
  /\ UNCHANGED <<ops, db, tx, sends, chain, crashes>>

ApproveWrite(p) ==
  /\ frame[p].pc = "approve"
  /\ db' = Approve(db)
  /\ SetFrame(p, Idle)
  /\ UNCHANGED <<ops, tx, sends, chain, crashes>>

\* reconcileTerminal: the receipt is verified and the job read, then the
\* transition is written; a completion keeps the approval that was read.
PublicState ==
  CASE chain.job = "COMPLETED" -> "completed"
    [] chain.job = "REJECTED" -> "rejected"
    [] OTHER -> "expired"

TerminalRead(p) ==
  /\ frame[p] = Idle
  /\ chain.terminal # NoTx
  /\ IF PublicState = "completed" THEN db.job.state = "submitted"
     ELSE db.job.state \in {"funded", "submitted"}
  /\ SetFrame(p, [Exec("none", "public") EXCEPT !.by = "public", !.job = db.job])
  /\ UNCHANGED <<ops, db, tx, sends, chain, crashes>>

PublicJob(j) ==
  [j EXCEPT !.state = PublicState,
     !.approval = PublicState = "completed" /\ @,
     !.completion = IF PublicState = "completed" THEN chain.terminal ELSE @,
     !.refund = IF PublicState = "completed" THEN @ ELSE chain.terminal,
     !.rejection = IF PublicState = "rejected" THEN chain.terminal ELSE @]

TerminalWrite(p) ==
  /\ frame[p].pc = "public"
  /\ \E same \in BOOLEAN :
       db' = Transition(db, PublicJob(frame[p].job), frame[p].job.state,
               [type |-> CASE PublicState = "completed" -> "job_completed"
                           [] PublicState = "rejected" -> "job_rejected"
                           [] OTHER -> "job_expired",
                tx |-> chain.terminal, source |-> "public",
                prev |-> frame[p].job.state], same)
  /\ SetFrame(p, Idle)
  /\ UNCHANGED <<ops, tx, sends, chain, crashes>>

Crash(p) ==
  /\ frame[p] # Idle
  /\ crashes < MaxCrashes
  /\ crashes' = crashes + 1
  /\ SetFrame(p, Idle)
  /\ UNCHANGED <<ops, db, tx, sends, chain>>

-----------------------------------------------------------------------------
ChainStep ==
  \/ \E k \in Kinds : Mine(k) \/ Drop(k)
  \/ ReachExpiry
  \/ \E v \in PublicVerdicts : PublicTerminal(v)
  \/ SellerSubmits

Call(p) ==
  \/ \E k \in ServiceKinds : CallExecute(p, k)
  \/ CallWorker(p)
  \/ \E k \in BrowserKinds : AttachExternalExecution(p, k)
  \/ Refresh(p)
  \/ ApproveRead(p)
  \/ TerminalRead(p)

ExecStep(p) ==
  \/ ExecReserve(p) \/ RunRefused(p) \/ RunDispatch(p) \/ RunThrows(p)
  \/ RunUnconfirmed(p) \/ RunConfirmed(p) \/ ExecAttach(p) \/ ExecSubmit(p)
  \/ ExecUnknown(p) \/ ExecReceipt(p) \/ FailAttach(p) \/ FailGet(p)
  \/ FailSubmit(p) \/ FailGetAgain(p) \/ FailMark(p)

RecStep(p) ==
  \/ RecGet(p) \/ RecRelay(p) \/ RecOrphan(p) \/ RecNoReceipt(p)
  \/ RecUnverified(p) \/ RecVerified(p) \/ RecReceipt(p) \/ RecFinish(p)
  \/ RecReview(p)

StoreStep(p) ==
  PersistRead(p) \/ PersistWrite(p) \/ ApproveWrite(p) \/ TerminalWrite(p)

Next ==
  \/ ChainStep
  \/ \E k \in BrowserKinds : BrowserDispatch(k)
  \/ \E p \in Procs : Call(p) \/ ExecStep(p) \/ RecStep(p) \/ StoreStep(p) \/ Crash(p)
  \/ \E p \in Procs, k \in Kinds : CallReconcile(p, k)

Spec == Init /\ [][Next]_vars

(***************************************************************************)
(* More than the code schedules: besides a process that runs its handler   *)
(* on and a transaction that is mined or dropped, somebody reconciles each *)
(* operation for ever and an RPC node that is asked again and again serves *)
(* the receipt.  What fails even so is not repaired by asking again.       *)
(***************************************************************************)
Fairness ==
  /\ \A p \in Procs : WF_vars(ExecStep(p)) /\ WF_vars(RecStep(p)) /\ WF_vars(StoreStep(p))
  /\ \A k \in Kinds : WF_vars(Mine(k) \/ Drop(k))
  /\ \A p \in Procs, k \in Kinds : SF_vars(CallReconcile(p, k))
  /\ \A p \in Procs : SF_vars(RecVerified(p))

FairSpec == Spec /\ Fairness

-----------------------------------------------------------------------------
Projected(k) ==
  CASE k = "create" -> db.job.state # "none"
    [] k = "submit" -> db.job.digest
    [] k = "settle" -> db.job.state = "completed"
    [] OTHER -> db.job.state = "expired"

\* "never retries an unknown outcome" (service.ts): whatever requests, worker
\* runs, reconciliations and crashes happen, the call of an operation is handed
\* to the relay at most once.
OneSend == \A k \in DOMAIN sends : sends[k] <= 1

\* A reconciled operation is never looked at again (reconcile), so its effect
\* is on the canonical job by then, also when somebody else closes the job.
ReconciledIsProjected ==
  \A k \in DOMAIN ops : ops[k].status = "reconciled" => Projected(k)

\* The canonical job, its result row and its parent tell the same story, and
\* never one that the chain does not (postgres-jobs.ts transition).
ProjectionAgrees ==
  /\ db \in Database /\ \A k \in DOMAIN tx : tx[k] \in TxStatus
  /\ db.job.state = "completed" <=> db.parent = "settled"
  /\ db.job.state = "completed" <=> db.result = "settled"
  /\ db.job.state \in {"expired", "rejected"} <=> db.parent = "cancelled"
  /\ db.job.state = "submitted" => db.parent = "submitted" /\ db.result = "submitted"
  /\ db.job.state = "submitted" => chain.job \notin {"NONE", "FUNDED"}
  /\ db.job.state = "completed" => chain.job = "COMPLETED"
  /\ db.job.state = "expired" => chain.job = "EXPIRED"

\* A recorded buyer approval is removed only together with the job's refund or
\* by the evidence of somebody else's settlement, although every transition
\* writes the whole row back from its own read (postgres-jobs.ts transition,
\* service.ts reconcileTerminal).
ApprovalKept ==
  db.job.approval /\ ~db'.job.approval =>
    \/ db'.job.state \in {"expired", "rejected"}
    \/ db'.job.state = "completed" /\ db'.job.completion = "public"

ApprovalSurvives == [][ApprovalKept]_db

\* A refund whose transaction succeeded and is known reaches the canonical job.
RefundIsProjected ==
  (tx["claim_refund"] = "ok" /\ ops["claim_refund"].hash # NoHash)
    ~> Projected("claim_refund")
=============================================================================
