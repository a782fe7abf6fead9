----------------------------- MODULE Job_proofs -----------------------------
(***************************************************************************)
(* What is promised of a hired job.  Of the server's operations on it      *)
(* (SdkCoordinator): no call is handed to the relay twice, a reconciled    *)
(* operation is projected, and the canonical job, its result row, its      *)
(* parent and the chain agree.  For any number of concurrent handlers and  *)
(* crashes, any part of the four operations in the hands of the server,    *)
(* the worker, the browser and an external seller, and any settlement,     *)
(* rejection or refund by somebody else.  Of an external seller            *)
(* (JobPromise, ExternalDelivery): it is notified once, and the search for *)
(* its submission never passes over it.  Of the process-local repository   *)
(* (JobPromise, JobLifecycle): the job is what its events make of it.      *)
(***************************************************************************)
EXTENDS SdkCoordinator, JobPromise, WellFoundedInduction, TLAPS

\* The operations are those of one hired job, and each transaction has a hash of its own.
Parameters ==
  /\ Kinds \subseteq {"create", "submit", "settle", "claim_refund"}
  /\ Kinds \subseteq Hashes
  /\ Kinds \cup {"public", "hire0"} \subseteq TxHashes
  /\ NoTx \notin TxHashes

Pcs == {"reserve", "run", "sent", "attach", "submit", "unknown", "receipt", "fail", "failGet",
        "failSubmit", "failGetAgain", "failMark", "get", "relay", "orphan", "verify", "review",
        "finish", "read", "write", "approve", "public"}

\* The places of a handler that rest on nothing it has learnt.
PlainPcs == Pcs \ {"run", "receipt", "read", "write", "finish", "public"}

Cause == [code : {"TRANSACTION_UNKNOWN", "OTHER", "REFUSED"}, hash : BOOLEAN, calls : BOOLEAN]

FrameRecord ==
  [pc : Pcs, k : Kinds \cup {"none"}, by : {"exec", "rec", "buyer", "public"},
   seen : OperationRow, job : JobRecord, cause : Cause, done : BOOLEAN]

-----------------------------------------------------------------------------
(* The chain. *)

Ended == {"completed", "rejected", "expired"}
ChainEnded == {"COMPLETED", "REJECTED", "EXPIRED"}

ChainOK(c) ==
  /\ c \in [job : {"NONE", "FUNDED", "SUBMITTED"} \cup ChainEnded, expired : BOOLEAN, terminal : Tx]
  /\ c.terminal # NoTx => c.job \in ChainEnded
  /\ c.job \in ChainEnded => c.terminal # NoTx

\* The protocol job only moves on.
Forward(c, d) ==
  /\ c.job # "NONE" => d.job # "NONE"
  /\ c.job \in {"SUBMITTED"} \cup ChainEnded => d.job \in {"SUBMITTED"} \cup ChainEnded
  /\ c.job \in ChainEnded => d.job = c.job

\* What acceptsState found, and what holds of it from then on.
Accepted(k, c) ==
  /\ k = "create" => c.job # "NONE"
  /\ k = "submit" => c.job \in {"SUBMITTED"} \cup ChainEnded
  /\ k = "settle" => c.job = "COMPLETED"
  /\ k = "claim_refund" => c.job = "EXPIRED"

(* The canonical job. *)

\* A deliverable is on record exactly from the submission on.
JobOK(j) ==
  /\ j \in JobRecord
  /\ j.state # "open"
  /\ j.state \in {"submitted", "completed"} => j.digest
  /\ j.state \in {"none", "funded"} => ~j.digest

\* The job and its marketplace projection are written together.
DatabaseOK(d) ==
  /\ d \in Database /\ JobOK(d.job)
  /\ d.job.state = "none" => d.parent = "draft" /\ d.result = "none"
  /\ d.job.state = "funded" => d.parent = "funded" /\ d.result = "none"
  /\ d.job.state = "submitted" => d.parent = "submitted" /\ d.result = "submitted"
  /\ d.job.state = "completed" => d.parent = "settled" /\ d.result = "settled"
  /\ d.job.state \in {"rejected", "expired"} => d.parent = "cancelled" /\ d.result # "settled"

\* ... after the step on chain that they record.
Founded(d, c) ==
  /\ d.job.state = "submitted" => c.job \in {"SUBMITTED"} \cup ChainEnded
  /\ d.job.state = "completed" => c.job = "COMPLETED"
  /\ d.job.state = "expired" => c.job = "EXPIRED"

\* What a handler that read the job before may still rely on.
Before(j, now) ==
  /\ j.state # "none" => now.state # "none"
  /\ j.digest => now.digest
  /\ j.state \in Ended => now.state = j.state

ProjectedIn(k, j) ==
  /\ k = "create" => j.state # "none"
  /\ k = "submit" => j.digest
  /\ k = "settle" => j.state = "completed"
  /\ k = "claim_refund" => j.state = "expired"

-----------------------------------------------------------------------------
(* The rows and the handlers. *)

\* What a statement on the row of k may do to it while the job is j.
RowStep(r, s, k, j) ==
  /\ s \in OperationRow
  /\ Present(r) => Present(s)
  /\ s.status = "reconciled" => r.status = "reconciled" \/ ProjectedIn(k, j)

Runs(f) == f.pc = "run" /\ f.by = "exec"

\* What a handler may rely on at each place: o are the rows, d is the database, s counts
\* the calls, c is the chain.
FrameOK(f, o, d, s, c) ==
  /\ f \in FrameRecord \cup {Idle}
  /\ f.pc # "idle" =>
       /\ f.by \in {"exec", "rec"} => f.k \in Kinds
       /\ f.pc \in {"run", "receipt", "read", "write", "finish"} => f.by \in {"exec", "rec"}
       /\ Runs(f) => Present(o[f.k]) /\ s[f.k] = 0
       /\ f.done => Accepted(f.k, c)
       /\ f.pc \in {"receipt", "read", "write"} => Accepted(f.k, c)
       /\ f.pc \in {"write", "public"} => JobOK(f.job) /\ Before(f.job, d.job)
       /\ f.pc = "finish" => ProjectedIn(f.k, d.job)
       /\ f.pc = "public" =>
            /\ c.job \in ChainEnded
            /\ c.job = "COMPLETED" => f.job.state = "submitted"
            /\ c.job # "COMPLETED" => f.job.state \in {"funded", "submitted"}

SdkTypes ==
  /\ ops \in [Kinds -> OperationRow] /\ tx \in [Kinds -> TxStatus] /\ sends \in [Kinds -> {0, 1}]
  /\ frame \in [Procs -> FrameRecord \cup {Idle}]
  /\ DatabaseOK(db) /\ ChainOK(chain) /\ Founded(db, chain)

\* A call is handed over only behind a row, and by the one handler that inserted it.
SentOnce ==
  /\ \A k \in Kinds : ~Present(ops[k]) => sends[k] = 0
  /\ \A p, q \in Procs : Runs(frame[p]) /\ Runs(frame[q]) /\ frame[p].k = frame[q].k => p = q

SdkInv ==
  /\ SdkTypes /\ SentOnce
  /\ \A k \in Kinds : ops[k].status = "reconciled" => ProjectedIn(k, db.job)
  /\ \A p \in Procs : FrameOK(frame[p], ops, db, sends, chain)

-----------------------------------------------------------------------------
(* Lemmas about the statements and the relations. *)

\* Every statement but the last one of a reconciliation keeps a row present and opens no
\* way to "reconciled".
LEMMA RowSteps ==
  ASSUME NEW r \in OperationRow, NEW h \in Hashes, NEW known \in BOOLEAN, NEW k, NEW j
  PROVE  /\ RowStep(r, r, k, j)
         /\ RowStep(r, Reserve(r, known), k, j) /\ Present(Reserve(r, known))
         /\ RowStep(r, MarkSubmitted(r, h), k, j)
         /\ RowStep(r, AttachCallsId(r), k, j)
         /\ RowStep(r, MarkReceipt(r, "confirmed", h, 1), k, j)
         /\ RowStep(r, AttachJobId(MarkReceipt(r, "confirmed", h, 1)), k, j)
         /\ RowStep(r, MarkUnknown(r), k, j)
         /\ RowStep(r, MarkFailed(r), k, j)
         /\ RowStep(r, MarkManualReview(r), k, j)
  <1> USE DEF RowStep, Present, OperationRow, OperationStatus, FailureCode
  <1>1. RowStep(r, r, k, j) OBVIOUS
  <1>2. RowStep(r, Reserve(r, known), k, j) /\ Present(Reserve(r, known)) BY DEF Reserve, AbsentRow
  <1>3. RowStep(r, MarkSubmitted(r, h), k, j) BY DEF MarkSubmitted, CanSubmit
  <1>4. RowStep(r, AttachCallsId(r), k, j) BY DEF AttachCallsId
  <1>5. RowStep(r, MarkReceipt(r, "confirmed", h, 1), k, j) BY DEF MarkReceipt, CanReceive
  <1>6. RowStep(r, AttachJobId(MarkReceipt(r, "confirmed", h, 1)), k, j)
    BY DEF MarkReceipt, CanReceive, AttachJobId
  <1>7. RowStep(r, MarkUnknown(r), k, j) BY DEF MarkUnknown
  <1>8. RowStep(r, MarkFailed(r), k, j) BY DEF MarkFailed, CanFail
  <1>9. RowStep(r, MarkManualReview(r), k, j) BY DEF MarkManualReview
  <1>. QED BY <1>1, <1>2, <1>3, <1>4, <1>5, <1>6, <1>7, <1>8, <1>9

LEMMA FailureStep ==
  ASSUME NEW r \in OperationRow, NEW seen \in OperationRow, NEW cause \in Cause, NEW k, NEW j
  PROVE  RowStep(r, FailureMark(r, seen, cause), k, j)
  <1>1. FailureMark(r, seen, cause) \in {r, MarkUnknown(r), MarkManualReview(r)}
    BY DEF FailureMark, Cause
  <1>2. RowStep(r, r, k, j) BY DEF RowStep
  <1>3. RowStep(r, MarkUnknown(r), k, j)
    BY DEF RowStep, MarkUnknown, Present, OperationRow, OperationStatus, FailureCode
  <1>4. RowStep(r, MarkManualReview(r), k, j)
    BY DEF RowStep, MarkManualReview, Present, OperationRow, OperationStatus, FailureCode
  <1>. QED BY <1>1, <1>2, <1>3, <1>4

LEMMA RelationsCompose ==
  ASSUME NEW k, NEW c, NEW d, Forward(c, d), NEW i, NEW j, Before(i, j)
  PROVE  /\ Accepted(k, c) => Accepted(k, d)
         /\ ProjectedIn(k, i) => ProjectedIn(k, j)
         /\ \A h : Before(h, i) => Before(h, j)
  BY DEF Forward, Accepted, ChainEnded, Before, ProjectedIn, Ended

LEMMA Reflexive ==
  ASSUME NEW c, NEW j
  PROVE  Forward(c, c) /\ Before(j, j)
  BY DEF Forward, Before

\* A handler that does nothing keeps what it relies on.
LEMMA FrameStays ==
  ASSUME NEW f, NEW o, NEW d, NEW s, NEW c, FrameOK(f, o, d, s, c), NEW o2, NEW d2, NEW c2,
         NEW s2, Forward(c, c2), Before(d.job, d2.job),
         Runs(f) /\ f.k \in Kinds => (Present(o[f.k]) => Present(o2[f.k])) /\ s2[f.k] = s[f.k]
  PROVE  FrameOK(f, o2, d2, s2, c2)
  <1>1. Accepted(f.k, c) => Accepted(f.k, c2) BY RelationsCompose
  <1>2. ProjectedIn(f.k, d.job) => ProjectedIn(f.k, d2.job) BY RelationsCompose
  <1>3. Before(f.job, d.job) => Before(f.job, d2.job) BY RelationsCompose
  <1>4. c.job \in ChainEnded => c2.job = c.job BY DEF Forward
  <1>. QED BY <1>1, <1>2, <1>3, <1>4 DEF FrameOK, Runs

-----------------------------------------------------------------------------
(* Steps. *)

\* The state apart from the handlers: what any step may do to it without a call.
Quiet ==
  /\ ops' \in [Kinds -> OperationRow] /\ tx' \in [Kinds -> TxStatus]
  /\ \A k \in Kinds : RowStep(ops[k], ops'[k], k, db'.job)
  /\ sends' = sends
  /\ DatabaseOK(db') /\ ChainOK(chain') /\ Founded(db', chain')
  /\ Before(db.job, db'.job) /\ Forward(chain, chain')

LEMMA StateInv ==
  ASSUME SdkInv, Quiet
  PROVE  /\ \A k \in Kinds : ~Present(ops'[k]) => sends'[k] = 0
         /\ \A k \in Kinds : ops'[k].status = "reconciled" => ProjectedIn(k, db'.job)
         /\ \A f : FrameOK(f, ops, db, sends, chain) => FrameOK(f, ops', db', sends', chain')
  <1>1. \A k \in Kinds : ~Present(ops'[k]) => sends'[k] = 0
    BY DEF SdkInv, SentOnce, Quiet, RowStep
  <1>2. ASSUME NEW k \in Kinds, ops'[k].status = "reconciled" PROVE ProjectedIn(k, db'.job)
    <2>1. ProjectedIn(k, db.job) => ProjectedIn(k, db'.job)
      BY RelationsCompose DEF Quiet
    <2>. QED BY <1>2, <2>1 DEF SdkInv, Quiet, RowStep
  <1>3. ASSUME NEW f, FrameOK(f, ops, db, sends, chain)
        PROVE  FrameOK(f, ops', db', sends', chain')
    <2>1. Runs(f) /\ f.k \in Kinds =>
            (Present(ops[f.k]) => Present(ops'[f.k])) /\ sends'[f.k] = sends[f.k]
      BY DEF Quiet, RowStep
    <2>2. Forward(chain, chain') /\ Before(db.job, db'.job) BY DEF Quiet
    <2>. QED BY <1>3, <2>1, <2>2, FrameStays
  <1>. QED BY <1>1, <1>2, <1>3

\* The world moves and no handler does.
LEMMA WorldStep ==
  ASSUME SdkInv, Quiet, frame' = frame
  PROVE  SdkInv'
  <1>1. SdkTypes' BY DEF SdkInv, SdkTypes, Quiet
  <1>2. SentOnce' BY StateInv DEF SdkInv, SentOnce
  <1>3. \A p \in Procs : FrameOK(frame[p], ops', db', sends', chain') BY StateInv DEF SdkInv
  <1>. QED BY <1>1, <1>2, <1>3, StateInv DEF SdkInv

\* A handler moves on to f.
LEMMA HandlerStep ==
  ASSUME SdkInv, Quiet, NEW p \in Procs, NEW f, frame' = [frame EXCEPT ![p] = f],
         FrameOK(f, ops', db', sends', chain'), Runs(f) => FALSE
  PROVE  SdkInv'
  <1>0. \A q \in Procs : frame'[q] = IF q = p THEN f ELSE frame[q]
    BY DEF SdkInv, SdkTypes
  <1>1. SdkTypes'
    <2>1. f \in FrameRecord \cup {Idle} BY DEF FrameOK
    <2>. QED BY <2>1 DEF SdkInv, SdkTypes, Quiet
  <1>2. SentOnce' BY <1>0, StateInv DEF SdkInv, SentOnce
  <1>3. \A q \in Procs : FrameOK(frame'[q], ops', db', sends', chain')
    BY <1>0, StateInv DEF SdkInv
  <1>. QED BY <1>1, <1>2, <1>3, StateInv DEF SdkInv

\* ... relying on nothing new.
LEMMA PlainStep ==
  ASSUME SdkInv, Quiet, NEW p \in Procs, NEW f, frame' = [frame EXCEPT ![p] = f],
         FrameOK(f, ops, db, sends, chain), Runs(f) => FALSE
  PROVE  SdkInv'
  <1>1. FrameOK(f, ops', db', sends', chain') BY StateInv
  <1>. QED BY <1>1, HandlerStep

LEMMA IdleFrame == \A o, d, s, c : FrameOK(Idle, o, d, s, c) /\ ~Runs(Idle)
  BY DEF FrameOK, Idle, Runs

\* A step of a handler that changes at most the row of its operation.
LEMMA QuietRow ==
  ASSUME SdkInv, NEW k \in Kinds, NEW r, RowStep(ops[k], r, k, db.job),
         ops' = [ops EXCEPT ![k] = r], UNCHANGED <<db, tx, sends, chain>>
  PROVE  Quiet
  <1>1. ops' \in [Kinds -> OperationRow] BY DEF SdkInv, SdkTypes, RowStep
  <1>2. \A x \in Kinds : RowStep(ops[x], ops'[x], x, db.job)
    <2>1. \A x \in Kinds : ops'[x] = IF x = k THEN r ELSE ops[x] BY DEF SdkInv, SdkTypes
    <2>2. \A x \in Kinds : RowStep(ops[x], ops[x], x, db.job) BY DEF SdkInv, SdkTypes, RowStep
    <2>. QED BY <2>1, <2>2
  <1>. QED BY <1>1, <1>2, Reflexive DEF Quiet, SdkInv, SdkTypes

LEMMA QuietNone ==
  ASSUME SdkInv, UNCHANGED <<ops, db, tx, sends, chain>>
  PROVE  Quiet
  BY Reflexive DEF Quiet, SdkInv, SdkTypes, RowStep

\* Only the database changes.
LEMMA QuietDatabase ==
  ASSUME SdkInv, UNCHANGED <<ops, tx, sends, chain>>, DatabaseOK(db'), Founded(db', chain),
         Before(db.job, db'.job)
  PROVE  Quiet
  BY Reflexive DEF Quiet, SdkInv, SdkTypes, RowStep

\* Only the chain and the calls change.
LEMMA QuietChain ==
  ASSUME SdkInv, UNCHANGED <<ops, db, sends>>, tx' \in [Kinds -> TxStatus], ChainOK(chain'),
         Founded(db, chain'), Forward(chain, chain')
  PROVE  Quiet
  BY Reflexive DEF Quiet, SdkInv, SdkTypes, RowStep

-----------------------------------------------------------------------------
(* The initial state. *)

LEMMA InitialRecords ==
  /\ AbsentRow \in OperationRow /\ ~Present(AbsentRow) /\ AbsentRow.status # "reconciled"
  /\ NoJob \in JobRecord /\ NoJob.state = "none" /\ ~NoJob.digest
  BY DEF AbsentRow, OperationRow, OperationStatus, FailureCode, Present, NoJob, JobRecord, JobState, Tx

LEMMA HiredRecord ==
  ASSUME NEW h \in TxHashes
  PROVE  HiredJob(h) \in JobRecord /\ HiredJob(h).state = "funded" /\ ~HiredJob(h).digest
  BY DEF HiredJob, NoJob, JobRecord, JobState, Tx

LEMMA InitInv == ASSUME Parameters, Init PROVE SdkInv
  <1>1. ops \in [Kinds -> OperationRow] /\ tx \in [Kinds -> TxStatus] /\ sends \in [Kinds -> {0, 1}]
    BY InitialRecords DEF Init, TxStatus
  <1>2. frame \in [Procs -> FrameRecord \cup {Idle}] BY DEF Init
  <1>3. ChainOK(chain)
    <2>1. PICK x \in {"NONE", "FUNDED"} : chain = [job |-> x, expired |-> FALSE, terminal |-> NoTx]
      BY DEF Init
    <2>. QED BY <2>1 DEF ChainOK, ChainEnded, Tx
  <1>4. DatabaseOK(db)
    <2>1. "hire0" \in TxHashes BY DEF Parameters
    <2>2. CASE StartState = "none"
      <3>1. db = [job |-> NoJob, parent |-> "draft", result |-> "none", settlement |-> NoTx, events |-> {}]
        BY <2>2 DEF Init
      <3>2. db \in Database BY <3>1, InitialRecords DEF Database, ParentStatus, ResultState, Tx
      <3>3. JobOK(NoJob) BY InitialRecords DEF JobOK
      <3>. QED BY <3>1, <3>2, <3>3, InitialRecords DEF DatabaseOK
    <2>3. CASE StartState # "none"
      <3> DEFINE e == [type |-> "job_created", tx |-> "hire0", source |-> "operation", prev |-> "none"]
      <3>1. db = [job |-> HiredJob("hire0"), parent |-> "funded", result |-> "none",
                  settlement |-> NoTx, events |-> {e}]
        BY <2>3 DEF Init
      <3>2. e \in Event BY <2>1 DEF Event, EventType, JobState
      <3> HIDE DEF e
      <3>3. HiredJob("hire0") \in JobRecord /\ HiredJob("hire0").state = "funded" /\ ~HiredJob("hire0").digest
        BY <2>1, HiredRecord
      <3>4. db \in Database BY <3>1, <3>2, <3>3 DEF Database, ParentStatus, ResultState, Tx
      <3>5. JobOK(HiredJob("hire0")) BY <3>3 DEF JobOK
      <3>. QED BY <3>1, <3>3, <3>4, <3>5 DEF DatabaseOK
    <2>. QED BY <2>2, <2>3
  <1>5. Founded(db, chain)
    <2>1. db.job.state \in {"none", "funded"}
      <3>1. "hire0" \in TxHashes BY DEF Parameters
      <3>2. HiredJob("hire0").state = "funded" BY <3>1, HiredRecord
      <3>. QED BY <3>2, InitialRecords DEF Init
    <2>. QED BY <2>1 DEF Founded
  <1>6. SentOnce BY DEF Init, SentOnce, Idle, Runs
  <1>7. \A k \in Kinds : ops[k].status # "reconciled" BY InitialRecords DEF Init
  <1>8. \A p \in Procs : FrameOK(frame[p], ops, db, sends, chain) BY IdleFrame DEF Init
  <1>. QED BY <1>1, <1>2, <1>3, <1>4, <1>5, <1>6, <1>7, <1>8 DEF SdkInv, SdkTypes

-----------------------------------------------------------------------------
(* The database transactions of postgres-jobs.ts. *)

\* What a transaction leaves of the database d: c is the chain.
Kept(d, e, c) == DatabaseOK(e) /\ Founded(e, c) /\ Before(d.job, e.job)

LEMMA KeptSame == ASSUME SdkInv PROVE Kept(db, db, chain)
  BY Reflexive DEF Kept, SdkInv, SdkTypes

\* A repair only repeats the projection of an expiry.
LEMMA RepairStep ==
  ASSUME SdkInv, db.job.state = "expired"
  PROVE  Kept(db, Repair(db), chain) /\ Repair(db).job = db.job
  <1>1. db \in Database /\ DatabaseOK(db) /\ Founded(db, chain) BY DEF SdkInv, SdkTypes, DatabaseOK
  <1>2. db.parent = "cancelled" BY <1>1 DEF DatabaseOK
  <1>3. ProjectRefund(db) = db BY <1>1, <1>2 DEF ProjectRefund, Database
  <1>4. Repair(db) = db BY <1>3 DEF Repair
  <1>. QED BY <1>4, KeptSame

LEMMA HireStep ==
  ASSUME SdkInv, NEW h \in TxHashes, NEW e \in Event, NEW same \in BOOLEAN
  PROVE  /\ Kept(db, Create(db, HiredJob(h), e), chain)
         /\ Create(db, HiredJob(h), e).job.state # "none"
  <1> DEFINE j == HiredJob(h)
             d == [db EXCEPT !.job = j, !.events = @ \cup {e}]
  <1>1. db \in Database /\ DatabaseOK(db) BY DEF SdkInv, SdkTypes, DatabaseOK
  <1>2. j \in JobRecord /\ j.state = "funded" /\ ~j.digest BY HiredRecord
  <1> HIDE DEF j
  <1>3. CASE db.job.state # "none" BY <1>3, KeptSame DEF Create
  <1>4. CASE db.job.state = "none"
    <2>1. db.parent = "draft" /\ db.result = "none" /\ ~db.job.digest
      BY <1>1, <1>4 DEF DatabaseOK, JobOK
    <2>2. d \in Database /\ d.job = j /\ d.parent = "draft" /\ d.result = "none"
      BY <1>1, <1>2, <2>1 DEF Database
    <2> HIDE DEF d
    <2>3. PICK z : z = Create(db, j, e) OBVIOUS
    <2>4. z = [d EXCEPT !.parent = "funded"]
      BY <1>2, <1>4, <2>2, <2>3 DEF Create, SyncMarketplaceFunding, d
    <2>5. z \in Database /\ z.job = j /\ z.parent = "funded" /\ z.result = "none"
      BY <2>2, <2>4 DEF Database, ParentStatus
    <2>6. Kept(db, z, chain)
      BY <1>2, <1>4, <2>1, <2>5 DEF Kept, DatabaseOK, JobOK, Founded, Before, Ended
    <2>. QED BY <1>2, <2>3, <2>5, <2>6 DEF j
  <1>. QED BY <1>3, <1>4

\* transition(): either the job, its event and the projection are committed together, or
\* the database stays as it is, or a stored expiry is projected again.
LEMMA TransitionCases ==
  ASSUME NEW d \in Database, NEW j \in JobRecord, NEW prev, NEW e \in Event, NEW same \in BOOLEAN
  PROVE  \/ /\ d.job.state = prev /\ ProjectionOk(d, j, e)
            /\ Transition(d, j, prev, e, same) = Project([d EXCEPT !.job = j, !.events = @ \cup {e}], e)
            /\ TransitionOk(d, j, prev, e, same)
         \/ /\ Transition(d, j, prev, e, same) \in {d, Repair(d)}
            /\ (Transition(d, j, prev, e, same) # d => e.type = "job_expired" /\ d.job = j)
            /\ (TransitionOk(d, j, prev, e, same) => d.job = j)
  BY DEF Transition, TransitionOk, TransitionCommits, TransitionReplays, UpdateMatches

\* The submission is projected with its result row and its parent.
LEMMA SubmitStep ==
  ASSUME SdkInv, NEW j \in JobRecord, j.state = "submitted", j.digest, NEW e \in Event,
         e.type = "job_submitted", NEW same \in BOOLEAN,
         chain.job \in {"SUBMITTED"} \cup ChainEnded
  PROVE  /\ Kept(db, Transition(db, j, "funded", e, same), chain)
         /\ TransitionOk(db, j, "funded", e, same) => Transition(db, j, "funded", e, same).job.digest
  <1> DEFINE d == [db EXCEPT !.job = j, !.events = @ \cup {e}]
  <1>1. db \in Database /\ DatabaseOK(db) BY DEF SdkInv, SdkTypes, DatabaseOK
  <1>2. PICK z : z = Transition(db, j, "funded", e, same) OBVIOUS
  <1>3. CASE z = Project(d, e) /\ db.job.state = "funded"
    <2>1. db.parent = "funded" /\ db.result = "none" /\ ~db.job.digest
      BY <1>1, <1>3 DEF DatabaseOK, JobOK
    <2>2. d \in Database /\ d.job = j /\ d.parent = "funded" /\ d.result = "none"
      BY <1>1, <2>1 DEF Database
    <2> HIDE DEF d
    <2>3. z = [d EXCEPT !.result = "submitted", !.parent = "submitted"]
      BY <1>3, <2>2 DEF Project, ProjectSubmission, Database
    <2>4. z \in Database /\ z.job = j /\ z.parent = "submitted" /\ z.result = "submitted"
      BY <2>2, <2>3 DEF Database, ParentStatus, ResultState
    <2>. QED BY <1>2, <1>3, <2>1, <2>4 DEF Kept, DatabaseOK, JobOK, Founded, Before, Ended
  <1>4. CASE z = db /\ (TransitionOk(db, j, "funded", e, same) => db.job = j)
    BY <1>2, <1>4, KeptSame
  <1>5. \/ /\ db.job.state = "funded" /\ ProjectionOk(db, j, e)
           /\ Transition(db, j, "funded", e, same) = Project(d, e)
           /\ TransitionOk(db, j, "funded", e, same)
        \/ /\ Transition(db, j, "funded", e, same) \in {db, Repair(db)}
           /\ (Transition(db, j, "funded", e, same) # db => e.type = "job_expired" /\ db.job = j)
           /\ (TransitionOk(db, j, "funded", e, same) => db.job = j)
    BY <1>1, TransitionCases
  <1>. QED BY <1>2, <1>3, <1>4, <1>5

\* The completion is projected with the settlement of its result.
LEMMA CompleteStep ==
  ASSUME SdkInv, NEW j \in JobRecord, j.state = "completed", j.digest, NEW e \in Event,
         e.type = "job_completed", NEW same \in BOOLEAN, chain.job = "COMPLETED"
  PROVE  /\ Kept(db, Transition(db, j, "submitted", e, same), chain)
         /\ TransitionOk(db, j, "submitted", e, same) =>
              Transition(db, j, "submitted", e, same).job.state = "completed"
  <1> DEFINE d == [db EXCEPT !.job = j, !.events = @ \cup {e}]
  <1>1. db \in Database /\ DatabaseOK(db) BY DEF SdkInv, SdkTypes, DatabaseOK
  <1>2. PICK z : z = Transition(db, j, "submitted", e, same) OBVIOUS
  <1>3. CASE z = Project(d, e) /\ db.job.state = "submitted"
    <2>1. d \in Database /\ d.job = j BY <1>1 DEF Database
    <2>2. e.tx \in Tx BY DEF Event, Tx
    <2> HIDE DEF d
    <2>3. z = [d EXCEPT !.result = "settled", !.settlement = e.tx, !.parent = "settled"]
      BY <1>3 DEF Project, ProjectSettlement
    <2>4. z \in Database /\ z.job = j /\ z.parent = "settled" /\ z.result = "settled"
      BY <2>1, <2>2, <2>3 DEF Database, ParentStatus, ResultState
    <2>. QED BY <1>2, <1>3, <2>4 DEF Kept, DatabaseOK, JobOK, Founded, Before, Ended
  <1>4. CASE z = db /\ (TransitionOk(db, j, "submitted", e, same) => db.job = j)
    BY <1>2, <1>4, KeptSame
  <1>5. \/ /\ db.job.state = "submitted" /\ ProjectionOk(db, j, e)
           /\ Transition(db, j, "submitted", e, same) = Project(d, e)
           /\ TransitionOk(db, j, "submitted", e, same)
        \/ /\ Transition(db, j, "submitted", e, same) \in {db, Repair(db)}
           /\ (Transition(db, j, "submitted", e, same) # db => e.type = "job_expired" /\ db.job = j)
           /\ (TransitionOk(db, j, "submitted", e, same) => db.job = j)
    BY <1>1, TransitionCases
  <1>. QED BY <1>2, <1>3, <1>4, <1>5

\* The expiry or rejection is projected with the cancellation of its parent.
LEMMA RefundStep ==
  ASSUME SdkInv, NEW j \in JobRecord, NEW e \in Event, NEW prev \in {"funded", "submitted"},
         \/ e.type = "job_expired" /\ j.state = "expired" /\ chain.job = "EXPIRED"
         \/ e.type = "job_rejected" /\ j.state = "rejected",
         prev = "submitted" => j.digest, NEW same \in BOOLEAN
  PROVE  /\ Kept(db, Transition(db, j, prev, e, same), chain)
         /\ TransitionOk(db, j, prev, e, same) => Transition(db, j, prev, e, same).job.state = j.state
  <1> DEFINE d == [db EXCEPT !.job = j, !.events = @ \cup {e}]
  <1>1. db \in Database /\ DatabaseOK(db) BY DEF SdkInv, SdkTypes, DatabaseOK
  <1>2. PICK z : z = Transition(db, j, prev, e, same) OBVIOUS
  <1>3. CASE z = Project(d, e) /\ db.job.state = prev
    <2>1. db.result # "settled" /\ (db.job.digest => j.digest)
      BY <1>1, <1>3 DEF DatabaseOK, JobOK
    <2>2. d \in Database /\ d.job = j /\ d.result = db.result BY <1>1 DEF Database
    <2> HIDE DEF d
    <2>3. z = [d EXCEPT !.parent = "cancelled"]
      BY <1>3 DEF Project, ProjectRefund
    <2>4. z \in Database /\ z.job = j /\ z.parent = "cancelled" /\ z.result # "settled"
      BY <2>1, <2>2, <2>3 DEF Database, ParentStatus
    <2>. QED BY <1>2, <1>3, <2>1, <2>4 DEF Kept, DatabaseOK, JobOK, Founded, Before, Ended
  <1>4. CASE z = db /\ (TransitionOk(db, j, prev, e, same) => db.job = j)
    BY <1>2, <1>4, KeptSame
  <1>5. CASE z = Repair(db) /\ z # db /\ db.job = j /\ e.type = "job_expired"
    <2>1. j.state = "expired" BY <1>5
    <2>. QED BY <1>2, <1>5, <2>1, RepairStep
  <1>6. \/ /\ db.job.state = prev /\ ProjectionOk(db, j, e)
           /\ Transition(db, j, prev, e, same) = Project(d, e)
           /\ TransitionOk(db, j, prev, e, same)
        \/ /\ Transition(db, j, prev, e, same) \in {db, Repair(db)}
           /\ (Transition(db, j, prev, e, same) # db => e.type = "job_expired" /\ db.job = j)
           /\ (TransitionOk(db, j, prev, e, same) => db.job = j)
    BY <1>1, TransitionCases
  <1>. QED BY <1>2, <1>3, <1>4, <1>5, <1>6

\* approveResult only adds the approval.
LEMMA ApproveStep ==
  ASSUME SdkInv
  PROVE  Kept(db, Approve(db), chain)
  <1>1. db \in Database /\ DatabaseOK(db) /\ db.job \in JobRecord
    BY DEF SdkInv, SdkTypes, DatabaseOK, JobOK
  <1>2. PICK z : z = Approve(db) OBVIOUS
  <1>3. CASE z = db BY <1>2, <1>3, KeptSame
  <1>4. CASE z = [db EXCEPT !.job.approval = TRUE]
    <2> DEFINE j == [db.job EXCEPT !.approval = TRUE]
    <2>1. j \in JobRecord /\ j.state = db.job.state /\ j.digest = db.job.digest
      BY <1>1 DEF JobRecord
    <2> HIDE DEF j
    <2>2. z = [db EXCEPT !.job = j] BY <1>1, <1>4 DEF Database, j
    <2>3. z \in Database /\ z.job = j /\ z.parent = db.parent /\ z.result = db.result
      BY <1>1, <2>1, <2>2 DEF Database
    <2>4. Founded(db, chain) BY DEF SdkInv, SdkTypes
    <2>. QED BY <1>1, <1>2, <2>1, <2>3, <2>4 DEF Kept, DatabaseOK, JobOK, Founded, Before
  <1>. QED BY <1>2, <1>3, <1>4 DEF Approve

-----------------------------------------------------------------------------
(* The places a handler turns to. *)

LEMMA FrameFacts ==
  ASSUME Parameters, SdkInv, NEW p \in Procs, frame[p].pc # "idle"
  PROVE  /\ frame[p] \in FrameRecord
         /\ FrameOK(frame[p], ops, db, sends, chain)
         /\ frame[p].by \in {"exec", "rec"} =>
              /\ Kind(p) \in Kinds /\ Kind(p) \in Hashes /\ Kind(p) \in TxHashes
              /\ Row(p) \in OperationRow
  <1>1. FrameOK(frame[p], ops, db, sends, chain) BY DEF SdkInv
  <1>2. frame[p] \in FrameRecord BY <1>1 DEF FrameOK, Idle
  <1>3. frame[p].by \in {"exec", "rec"} => Kind(p) \in Kinds BY <1>1 DEF FrameOK, Kind
  <1>. QED BY <1>1, <1>2, <1>3 DEF Parameters, SdkInv, SdkTypes, Row

\* Learning that the operation was accepted on chain is what leads to its projection.
LEMMA Turn ==
  ASSUME Parameters, SdkInv, NEW p \in Procs, frame[p].pc # "idle", frame[p].by \in {"exec", "rec"},
         NEW w \in FrameRecord, w.k = frame[p].k, w.by = frame[p].by,
         w.pc \in PlainPcs \cup {"receipt", "read"},
         w.pc \in {"receipt", "read"} => Accepted(Kind(p), chain),
         w.done => frame[p].done \/ Accepted(Kind(p), chain)
  PROVE  FrameOK(w, ops, db, sends, chain) /\ ~Runs(w)
  BY FrameFacts DEF FrameOK, Runs, PlainPcs, Kind

LEMMA Turns ==
  ASSUME Parameters, SdkInv, NEW p \in Procs, frame[p].pc # "idle", frame[p].by \in {"exec", "rec"}
  PROVE  /\ \A pc \in PlainPcs :
              /\ FrameOK([frame[p] EXCEPT !.pc = pc], ops, db, sends, chain)
              /\ ~Runs([frame[p] EXCEPT !.pc = pc])
         /\ Accepted(Kind(p), chain) => \A pc \in {"receipt", "read"} :
              /\ FrameOK([frame[p] EXCEPT !.pc = pc], ops, db, sends, chain)
              /\ ~Runs([frame[p] EXCEPT !.pc = pc])
         /\ \A pc \in PlainPcs, c \in Cause, d \in BOOLEAN :
              (d => frame[p].done \/ Accepted(Kind(p), chain)) =>
                /\ FrameOK([frame[p] EXCEPT !.pc = pc, !.done = d, !.cause = c], ops, db, sends, chain)
                /\ ~Runs([frame[p] EXCEPT !.pc = pc, !.done = d, !.cause = c])
         /\ \A pc \in PlainPcs, r \in OperationRow :
              /\ FrameOK([frame[p] EXCEPT !.seen = r, !.pc = pc], ops, db, sends, chain)
              /\ ~Runs([frame[p] EXCEPT !.seen = r, !.pc = pc])
  <1>0. frame[p] \in FrameRecord /\ PlainPcs \cup {"receipt", "read"} \subseteq Pcs
        /\ "receipt" \notin PlainPcs /\ "read" \notin PlainPcs
    BY FrameFacts DEF PlainPcs, Pcs
  <1>1. ASSUME NEW pc \in PlainPcs \cup {"receipt", "read"},
               pc \in {"receipt", "read"} => Accepted(Kind(p), chain)
        PROVE  /\ FrameOK([frame[p] EXCEPT !.pc = pc], ops, db, sends, chain)
               /\ ~Runs([frame[p] EXCEPT !.pc = pc])
    <2> DEFINE w == [frame[p] EXCEPT !.pc = pc]
    <2>1. w \in FrameRecord /\ w.k = frame[p].k /\ w.by = frame[p].by /\ w.pc = pc /\ w.done = frame[p].done
      BY <1>0 DEF FrameRecord
    <2> HIDE DEF w
    <2>2. FrameOK(w, ops, db, sends, chain) /\ ~Runs(w) BY <1>1, <2>1, Turn
    <2>. QED BY <2>2 DEF w
  <1>2. ASSUME NEW pc \in PlainPcs, NEW c \in Cause, NEW d \in BOOLEAN,
               d => frame[p].done \/ Accepted(Kind(p), chain)
        PROVE  /\ FrameOK([frame[p] EXCEPT !.pc = pc, !.done = d, !.cause = c], ops, db, sends, chain)
               /\ ~Runs([frame[p] EXCEPT !.pc = pc, !.done = d, !.cause = c])
    <2> DEFINE w == [frame[p] EXCEPT !.pc = pc, !.done = d, !.cause = c]
    <2>1. w \in FrameRecord /\ w.k = frame[p].k /\ w.by = frame[p].by /\ w.pc = pc /\ w.done = d
      BY <1>0 DEF FrameRecord
    <2> HIDE DEF w
    <2>2. FrameOK(w, ops, db, sends, chain) /\ ~Runs(w) BY <1>0, <1>2, <2>1, Turn
    <2>. QED BY <2>2 DEF w
  <1>3. ASSUME NEW pc \in PlainPcs, NEW r \in OperationRow
        PROVE  /\ FrameOK([frame[p] EXCEPT !.seen = r, !.pc = pc], ops, db, sends, chain)
               /\ ~Runs([frame[p] EXCEPT !.seen = r, !.pc = pc])
    <2> DEFINE w == [frame[p] EXCEPT !.seen = r, !.pc = pc]
    <2>1. w \in FrameRecord /\ w.k = frame[p].k /\ w.by = frame[p].by /\ w.pc = pc /\ w.done = frame[p].done
      BY <1>0 DEF FrameRecord
    <2> HIDE DEF w
    <2>2. FrameOK(w, ops, db, sends, chain) /\ ~Runs(w) BY <1>0, <2>1, Turn
    <2>. QED BY <2>2 DEF w
  <1>. QED BY <1>0, <1>1, <1>2, <1>3

\* The handlers that start.
LEMMA NewFrames ==
  ASSUME Parameters, SdkInv
  PROVE  /\ \A k \in Kinds :
              /\ FrameOK(Exec(k, "reserve"), ops, db, sends, chain) /\ ~Runs(Exec(k, "reserve"))
              /\ FrameOK(Rec(k), ops, db, sends, chain) /\ ~Runs(Rec(k))
         /\ LET f == [Exec("none", "approve") EXCEPT !.by = "buyer"]
            IN FrameOK(f, ops, db, sends, chain) /\ ~Runs(f)
  <1>0. AbsentRow \in OperationRow /\ NoJob \in JobRecord BY InitialRecords
  <1>1. [code |-> "OTHER", hash |-> FALSE, calls |-> FALSE] \in Cause BY DEF Cause
  <1>2. ASSUME NEW k \in Kinds
        PROVE  FrameOK(Exec(k, "reserve"), ops, db, sends, chain) /\ ~Runs(Exec(k, "reserve"))
    <2> DEFINE w == Exec(k, "reserve")
    <2>1. w \in FrameRecord /\ w.pc = "reserve" /\ w.k = k /\ w.by = "exec" /\ w.done = FALSE
      BY <1>0, <1>1 DEF Exec, FrameRecord, Pcs
    <2> HIDE DEF w
    <2>2. FrameOK(w, ops, db, sends, chain) /\ ~Runs(w) BY <2>1 DEF FrameOK, Runs
    <2>. QED BY <2>2 DEF w
  <1>3. ASSUME NEW k \in Kinds
        PROVE  FrameOK(Rec(k), ops, db, sends, chain) /\ ~Runs(Rec(k))
    <2> DEFINE w == Rec(k)
    <2>1. w \in FrameRecord /\ w.pc = "get" /\ w.k = k /\ w.by = "rec" /\ w.done = FALSE
      BY <1>0, <1>1 DEF Exec, Rec, FrameRecord, Pcs
    <2> HIDE DEF w
    <2>2. FrameOK(w, ops, db, sends, chain) /\ ~Runs(w) BY <2>1 DEF FrameOK, Runs
    <2>. QED BY <2>2 DEF w
  <1>4. LET f == [Exec("none", "approve") EXCEPT !.by = "buyer"]
        IN FrameOK(f, ops, db, sends, chain) /\ ~Runs(f)
    <2> DEFINE w == [Exec("none", "approve") EXCEPT !.by = "buyer"]
    <2>1. w \in FrameRecord /\ w.pc = "approve" /\ w.by = "buyer" /\ w.done = FALSE
      BY <1>0, <1>1 DEF Exec, FrameRecord, Pcs
    <2> HIDE DEF w
    <2>2. FrameOK(w, ops, db, sends, chain) /\ ~Runs(w) BY <2>1 DEF FrameOK, Runs
    <2>. QED BY <2>2 DEF w
  <1>. QED BY <1>2, <1>3, <1>4

\* A statement on the row of the operation, and on to w.
LEMMA RowTurn ==
  ASSUME Parameters, SdkInv, NEW p \in Procs, frame[p].pc # "idle", frame[p].by \in {"exec", "rec"},
         NEW r, RowStep(Row(p), r, Kind(p), db.job), SetRow(p, r), NEW w, SetFrame(p, w),
         FrameOK(w, ops, db, sends, chain), ~Runs(w), UNCHANGED <<db, tx, sends, chain>>
  PROVE  SdkInv'
  <1>1. Kind(p) \in Kinds BY FrameFacts
  <1>2. ops' = [ops EXCEPT ![Kind(p)] = r] /\ RowStep(ops[Kind(p)], r, Kind(p), db.job)
    BY DEF SetRow, Row
  <1>3. Quiet BY <1>1, <1>2, QuietRow
  <1>. QED BY <1>3, PlainStep DEF SetFrame

LEMMA FrameTurn ==
  ASSUME SdkInv, NEW p \in Procs, NEW w, SetFrame(p, w), FrameOK(w, ops, db, sends, chain),
         ~Runs(w), UNCHANGED <<ops, db, tx, sends, chain>>
  PROVE  SdkInv'
  <1>1. Quiet BY QuietNone
  <1>. QED BY <1>1, PlainStep DEF SetFrame

-----------------------------------------------------------------------------
(* The calls. *)

LEMMA CallsInv ==
  ASSUME Parameters, SdkInv, NEW p \in Procs,
         \/ \E k \in ServiceKinds : CallExecute(p, k)
         \/ CallWorker(p) \/ ApproveRead(p)
         \/ \E k \in Kinds : CallReconcile(p, k)
  PROVE  SdkInv'
  <1>1. UNCHANGED <<ops, db, tx, sends, chain>>
    BY DEF CallExecute, CallWorker, ApproveRead, CallReconcile
  <1>2. ServiceKinds \subseteq Kinds /\ ("submit" \in WorkerKinds => "submit" \in Kinds) BY DEF Kinds
  <1>3. \/ \E k \in Kinds : SetFrame(p, Exec(k, "reserve")) \/ SetFrame(p, Rec(k))
        \/ SetFrame(p, [Exec("none", "approve") EXCEPT !.by = "buyer"])
    BY <1>2 DEF CallExecute, CallWorker, ApproveRead, CallReconcile
  <1>. QED BY <1>1, <1>3, NewFrames, FrameTurn

\* reconcileTerminal has read the terminal state of the chain and a job that it may end.
LEMMA TerminalReadInv ==
  ASSUME Parameters, SdkInv, NEW p \in Procs, TerminalRead(p)
  PROVE  SdkInv'
  <1> DEFINE w == [Exec("none", "public") EXCEPT !.by = "public", !.job = db.job]
  <1>1. db \in Database /\ JobOK(db.job) /\ db.job \in JobRecord /\ ChainOK(chain)
    BY DEF SdkInv, SdkTypes, DatabaseOK, JobOK
  <1>2. chain.job \in ChainEnded BY <1>1 DEF TerminalRead, ChainOK
  <1>3. /\ chain.job = "COMPLETED" => db.job.state = "submitted"
        /\ chain.job # "COMPLETED" => db.job.state \in {"funded", "submitted"}
    BY <1>2 DEF TerminalRead, PublicState, ChainEnded
  <1>4. AbsentRow \in OperationRow BY InitialRecords
  <1>5. [code |-> "OTHER", hash |-> FALSE, calls |-> FALSE] \in Cause BY DEF Cause
  <1>6. /\ w \in FrameRecord /\ w.pc = "public" /\ w.by = "public" /\ w.done = FALSE
        /\ w.job = db.job
    BY <1>1, <1>4, <1>5 DEF Exec, FrameRecord, Pcs
  <1>7. SetFrame(p, w) /\ UNCHANGED <<ops, db, tx, sends, chain>> BY DEF TerminalRead
  <1> HIDE DEF w
  <1>8. FrameOK(w, ops, db, sends, chain) /\ ~Runs(w)
    BY <1>1, <1>2, <1>3, <1>6, Reflexive DEF FrameOK, Runs
  <1>. QED BY <1>7, <1>8, FrameTurn

\* The evidence that the browser and the seller report.
LEMMA ReportsInv ==
  ASSUME Parameters, SdkInv, NEW p \in Procs,
         Refresh(p) \/ \E k \in BrowserKinds : AttachExternalExecution(p, k)
  PROVE  SdkInv'
  <1>0. UNCHANGED <<db, tx, sends, chain>> BY DEF Refresh, AttachExternalExecution
  <1>1. CASE Refresh(p)
    <2>1. "submit" \in Kinds /\ "submit" \in Hashes BY <1>1 DEF Refresh, Kinds, Parameters
    <2> DEFINE r == Reserve(ops["submit"], TRUE)
               s == IF r.status \in {"awaiting_signature", "unknown"} THEN MarkSubmitted(r, "submit") ELSE r
    <2>2. ops' = [ops EXCEPT !["submit"] = s] /\ SetFrame(p, Rec("submit")) BY <1>1 DEF Refresh
    <2>3. ops["submit"] \in OperationRow BY <2>1 DEF SdkInv, SdkTypes
    <2>4. RowStep(ops["submit"], r, "submit", db.job) BY <2>1, <2>3, RowSteps
    <2>5. RowStep(r, s, "submit", db.job) BY <2>1, <2>4, RowSteps DEF RowStep
    <2>6. RowStep(ops["submit"], s, "submit", db.job) BY <2>4, <2>5 DEF RowStep
    <2> HIDE DEF s
    <2>7. Quiet BY <1>0, <2>1, <2>2, <2>6, QuietRow
    <2>. QED BY <2>1, <2>2, <2>7, NewFrames, PlainStep DEF SetFrame
  <1>2. ASSUME NEW k \in BrowserKinds, AttachExternalExecution(p, k) PROVE SdkInv'
    <2>1. k \in Kinds /\ k \in Hashes BY DEF Kinds, Parameters
    <2>2. ops[k] \in OperationRow BY <2>1 DEF SdkInv, SdkTypes
    <2> DEFINE r == AttachCallsId(ops[k])
    <2>3. RowStep(ops[k], r, k, db.job) BY <2>1, <2>2, RowSteps
    <2>4. RowStep(r, MarkSubmitted(r, k), k, db.job) /\ RowStep(r, MarkUnknown(r), k, db.job)
      BY <2>1, <2>3, RowSteps DEF RowStep
    <2>5. PICK s \in {MarkSubmitted(r, k), MarkUnknown(r)}, w \in {Idle, Rec(k)} :
            ops' = [ops EXCEPT ![k] = s] /\ SetFrame(p, w)
      BY <1>2 DEF AttachExternalExecution
    <2>6. RowStep(ops[k], s, k, db.job) BY <2>3, <2>4, <2>5 DEF RowStep
    <2>7. Quiet BY <1>0, <2>1, <2>5, <2>6, QuietRow
    <2>8. FrameOK(w, ops, db, sends, chain) /\ ~Runs(w) BY <2>1, <2>5, NewFrames, IdleFrame
    <2>. QED BY <2>5, <2>7, <2>8, PlainStep DEF SetFrame
  <1>. QED BY <1>1, <1>2

-----------------------------------------------------------------------------
(* executeSdk. *)

LEMMA AcceptedNow ==
  ASSUME NEW k \in {"create", "submit", "settle", "claim_refund"}, Verified(k)
  PROVE  Accepted(k, chain)
  BY DEF Verified, AcceptsState, Accepted, ChainEnded

\* The handler that inserts the row is the only one that may run.
LEMMA ReserveInv ==
  ASSUME Parameters, SdkInv, NEW p \in Procs, ExecReserve(p)
  PROVE  SdkInv'
  <1> DEFINE k == Kind(p)
             r == Reserve(Row(p), k # "create")
  <1>0. frame[p].pc # "idle" /\ frame[p].by = "exec" BY DEF ExecReserve, At
  <1>1. /\ frame[p] \in FrameRecord /\ FrameOK(frame[p], ops, db, sends, chain)
        /\ k \in Kinds /\ k \in Hashes /\ Row(p) \in OperationRow
    BY <1>0, FrameFacts
  <1>2. RowStep(Row(p), r, k, db.job) /\ Present(r) BY <1>1, RowSteps
  <1>3. SetRow(p, r) /\ UNCHANGED <<db, tx, sends, chain>> BY DEF ExecReserve
  <1>4. CASE Present(Row(p))
    <2>1. SetFrame(p, Idle) BY <1>4 DEF ExecReserve
    <2>. QED BY <1>0, <1>2, <1>3, <2>1, IdleFrame, RowTurn
  <1>5. CASE ~Present(Row(p))
    <2> DEFINE w == [frame[p] EXCEPT !.pc = "run"]
    <2>1. SetFrame(p, w) BY <1>5 DEF ExecReserve, Goto
    <2>2. /\ w \in FrameRecord /\ w.pc = "run" /\ w.k = k /\ w.by = "exec" /\ w.done = frame[p].done
          /\ w.job = frame[p].job
      BY <1>0, <1>1 DEF FrameRecord, Pcs, Kind
    <2> HIDE DEF w
    <2>3. ops' = [ops EXCEPT ![k] = r] BY <1>3 DEF SetRow
    <2>4. Quiet BY <1>1, <1>2, <1>3, <2>3, QuietRow DEF Row
    <2>5. \A q \in Procs : frame'[q] = IF q = p THEN w ELSE frame[q]
      BY <2>1 DEF SetFrame, SdkInv, SdkTypes
    <2>6. sends[k] = 0 /\ \A q \in Procs : Runs(frame[q]) => frame[q].k # k
      <3>1. sends[k] = 0 BY <1>1, <1>5 DEF SdkInv, SentOnce, Row
      <3>2. \A q \in Procs : Runs(frame[q]) => Present(ops[frame[q].k])
        BY DEF SdkInv, FrameOK, Runs
      <3>. QED BY <1>5, <3>1, <3>2 DEF Row
    <2>7. FrameOK(w, ops', db', sends', chain')
      <3>1. ops'[k] = r /\ sends'[k] = 0 /\ chain' = chain
        BY <1>1, <1>3, <2>3, <2>6 DEF SdkInv, SdkTypes
      <3>2. w.done => Accepted(w.k, chain) BY <1>0, <1>1, <2>2 DEF FrameOK, Kind
      <3>. QED BY <1>1, <1>2, <2>2, <3>1, <3>2 DEF FrameOK, Runs
    <2>8. SdkTypes'
      <3>1. frame' = [frame EXCEPT ![p] = w] BY <2>1 DEF SetFrame
      <3>. QED BY <2>2, <2>4, <3>1 DEF SdkInv, SdkTypes, Quiet
    <2>9. SentOnce'
      <3>1. \A q, s \in Procs : Runs(frame'[q]) /\ Runs(frame'[s]) /\ frame'[q].k = frame'[s].k => q = s
        BY <2>2, <2>5, <2>6 DEF SdkInv, SentOnce
      <3>. QED BY <2>4, <3>1, StateInv DEF SentOnce
    <2>10. \A q \in Procs : FrameOK(frame'[q], ops', db', sends', chain')
      BY <2>4, <2>5, <2>7, StateInv DEF SdkInv
    <2>. QED BY <2>4, <2>8, <2>9, <2>10, StateInv DEF SdkInv
  <1>. QED BY <1>4, <1>5

\* The call is handed to the relay: nobody has done so before, and nobody may after.
LEMMA DispatchInv ==
  ASSUME Parameters, SdkInv, NEW p \in Procs, RunDispatch(p)
  PROVE  SdkInv'
  <1> DEFINE k == Kind(p)
             w == [frame[p] EXCEPT !.pc = "sent"]
  <1>0. frame[p].pc = "run" /\ frame[p].by = "exec" /\ Runs(frame[p]) BY DEF RunDispatch, At, Runs
  <1>1. /\ frame[p] \in FrameRecord /\ FrameOK(frame[p], ops, db, sends, chain) /\ k \in Kinds
    BY <1>0, FrameFacts
  <1>2. sends[k] = 0 /\ Present(ops[k]) BY <1>0, <1>1 DEF FrameOK, Kind
  <1>3. /\ ops' = ops /\ db' = db /\ chain' = chain /\ sends' = [sends EXCEPT ![k] = 1]
        /\ tx' \in [Kinds -> TxStatus] /\ frame' = [frame EXCEPT ![p] = w]
    <2>1. sends' = [sends EXCEPT ![k] = 1] BY <1>1, <1>2 DEF RunDispatch, SdkInv, SdkTypes
    <2>. QED BY <1>1, <2>1 DEF RunDispatch, Goto, SetFrame, SdkInv, SdkTypes, TxStatus
  <1>4. "sent" \in PlainPcs BY DEF PlainPcs, Pcs
  <1>5. FrameOK(w, ops, db, sends, chain) /\ ~Runs(w) BY <1>0, <1>4, Turns
  <1> HIDE DEF w
  <1>6. w \in FrameRecord \cup {Idle} BY <1>5 DEF FrameOK
  <1>7. \A q \in Procs : frame'[q] = IF q = p THEN w ELSE frame[q] BY <1>3 DEF SdkInv, SdkTypes
  <1>8. SdkTypes' BY <1>3, <1>6 DEF SdkInv, SdkTypes
  <1>9. \A x \in Kinds : x # k => sends'[x] = sends[x] BY <1>3 DEF SdkInv, SdkTypes
  <1>10. SentOnce'
    <2>1. \A x \in Kinds : ~Present(ops'[x]) => sends'[x] = 0
      BY <1>2, <1>3, <1>9 DEF SdkInv, SentOnce
    <2>2. \A q, s \in Procs : Runs(frame'[q]) /\ Runs(frame'[s]) /\ frame'[q].k = frame'[s].k => q = s
      BY <1>5, <1>7 DEF SdkInv, SentOnce
    <2>. QED BY <2>1, <2>2 DEF SentOnce
  <1>11. ASSUME NEW q \in Procs PROVE FrameOK(frame'[q], ops', db', sends', chain')
    <2>1. PICK f : f = frame'[q] OBVIOUS
    <2>2. FrameOK(f, ops, db, sends, chain) BY <1>5, <1>7, <2>1 DEF SdkInv
    <2>3. Runs(f) => f.k # k
      <3>1. CASE q = p BY <1>5, <1>7, <2>1, <3>1
      <3>2. CASE q # p BY <1>0, <1>7, <2>1, <3>2 DEF SdkInv, SentOnce, Kind
      <3>. QED BY <3>1, <3>2
    <2>4. Runs(f) /\ f.k \in Kinds =>
            (Present(ops[f.k]) => Present(ops'[f.k])) /\ sends'[f.k] = sends[f.k]
      BY <1>3, <1>9, <2>3
    <2>5. Forward(chain, chain') /\ Before(db.job, db'.job) BY <1>3, Reflexive
    <2>. QED BY <2>1, <2>2, <2>4, <2>5, FrameStays
  <1>12. \A x \in Kinds : ops'[x].status = "reconciled" => ProjectedIn(x, db'.job)
    BY <1>3 DEF SdkInv
  <1>. QED BY <1>8, <1>10, <1>11, <1>12 DEF SdkInv

\* The browser sends the call itself, behind a row that it has just inserted.
LEMMA BrowserInv ==
  ASSUME Parameters, SdkInv, NEW k \in BrowserKinds, BrowserDispatch(k)
  PROVE  SdkInv'
  <1>1. k \in Kinds /\ ops[k] \in OperationRow /\ ~Present(ops[k])
    BY DEF BrowserDispatch, Kinds, SdkInv, SdkTypes
  <1>2. sends[k] = 0 BY <1>1 DEF SdkInv, SentOnce
  <1> DEFINE r == ClaimExternalDispatch(Reserve(ops[k], k # "create"))
  <1>3. r \in OperationRow /\ Present(r) /\ r.status # "reconciled"
    BY <1>1 DEF Reserve, ClaimExternalDispatch, CanClaim, AbsentRow, Present, OperationRow,
                OperationStatus, FailureCode
  <1>4. /\ ops' = [ops EXCEPT ![k] = r] /\ sends' = [sends EXCEPT ![k] = 1]
        /\ db' = db /\ chain' = chain /\ frame' = frame /\ tx' \in [Kinds -> TxStatus]
    <2>1. ops' = [ops EXCEPT ![k] = r] BY DEF BrowserDispatch
    <2>2. sends' = [sends EXCEPT ![k] = 1] BY <1>1, <1>2 DEF BrowserDispatch, SdkInv, SdkTypes
    <2>3. tx' \in [Kinds -> TxStatus] BY DEF BrowserDispatch, SdkInv, SdkTypes, TxStatus
    <2>. QED BY <2>1, <2>2, <2>3 DEF BrowserDispatch
  <1> HIDE DEF r
  <1>5. /\ \A x \in Kinds : ops'[x] = IF x = k THEN r ELSE ops[x]
        /\ \A x \in Kinds : sends'[x] = IF x = k THEN 1 ELSE sends[x]
    BY <1>4 DEF SdkInv, SdkTypes
  <1>6. SdkTypes' BY <1>3, <1>4 DEF SdkInv, SdkTypes
  <1>7. SentOnce'
    <2>1. \A x \in Kinds : ~Present(ops'[x]) => sends'[x] = 0 BY <1>3, <1>5 DEF SdkInv, SentOnce
    <2>. QED BY <1>4, <2>1 DEF SdkInv, SentOnce
  <1>8. ASSUME NEW q \in Procs PROVE FrameOK(frame[q], ops', db', sends', chain')
    <2>1. FrameOK(frame[q], ops, db, sends, chain) BY DEF SdkInv
    <2>2. Runs(frame[q]) => frame[q].k # k BY <1>1, <2>1 DEF FrameOK, Runs
    <2>3. Runs(frame[q]) /\ frame[q].k \in Kinds =>
            /\ Present(ops[frame[q].k]) => Present(ops'[frame[q].k])
            /\ sends'[frame[q].k] = sends[frame[q].k]
      BY <1>5, <2>2
    <2>4. Forward(chain, chain') /\ Before(db.job, db'.job) BY <1>4, Reflexive
    <2>. QED BY <2>1, <2>3, <2>4, FrameStays
  <1>9. \A x \in Kinds : ops'[x].status = "reconciled" => ProjectedIn(x, db'.job)
    BY <1>3, <1>4, <1>5 DEF SdkInv
  <1>. QED BY <1>4, <1>6, <1>7, <1>8, <1>9 DEF SdkInv

\* The SDK call and what it answers.
LEMMA RunInv ==
  ASSUME Parameters, SdkInv, NEW p \in Procs,
         RunRefused(p) \/ RunThrows(p) \/ RunUnconfirmed(p) \/ RunConfirmed(p)
  PROVE  SdkInv'
  <1>0. frame[p].pc # "idle" /\ frame[p].by = "exec"
    BY DEF RunRefused, RunThrows, RunUnconfirmed, RunConfirmed, At
  <1>1. frame[p] \in FrameRecord /\ Kind(p) \in Kinds BY <1>0, FrameFacts
  <1>2. UNCHANGED <<ops, db, tx, sends, chain>>
    BY DEF RunRefused, RunThrows, RunUnconfirmed, RunConfirmed
  <1>3. RunConfirmed(p) => Accepted(Kind(p), chain)
    BY <1>1, AcceptedNow DEF RunConfirmed, Parameters
  <1>4. {"fail", "attach"} \subseteq PlainPcs BY DEF PlainPcs, Pcs
  <1>5. PICK pc \in {"fail", "attach"}, c \in Cause, d \in BOOLEAN :
          /\ SetFrame(p, [frame[p] EXCEPT !.pc = pc, !.done = d, !.cause = c])
          /\ d => frame[p].done \/ Accepted(Kind(p), chain)
    <2>1. \A code \in {"TRANSACTION_UNKNOWN", "OTHER", "REFUSED"}, h \in BOOLEAN, c \in BOOLEAN :
            [code |-> code, hash |-> h, calls |-> c] \in Cause
      BY DEF Cause
    <2>2. frame[p].done \in BOOLEAN BY <1>1 DEF FrameRecord
    <2>3. ASSUME NEW pc, NEW c
          PROVE  [frame[p] EXCEPT !.pc = pc, !.cause = c]
                   = [frame[p] EXCEPT !.pc = pc, !.done = frame[p].done, !.cause = c]
      BY <1>1 DEF FrameRecord
    <2>4. CASE RunRefused(p) \/ RunThrows(p)
      <3>1. PICK c \in Cause : SetFrame(p, [frame[p] EXCEPT !.pc = "fail", !.cause = c])
        BY <2>1, <2>4 DEF RunRefused, RunThrows, FailWith
      <3>2. [frame[p] EXCEPT !.pc = "fail", !.cause = c]
              = [frame[p] EXCEPT !.pc = "fail", !.done = frame[p].done, !.cause = c]
        BY <2>3
      <3>3. SetFrame(p, [frame[p] EXCEPT !.pc = "fail", !.done = frame[p].done, !.cause = c])
        BY <3>1, <3>2 DEF SetFrame
      <3>. QED BY <2>2, <3>3
    <2>5. CASE RunUnconfirmed(p)
      <3>1. PICK c \in Cause : SetFrame(p, [frame[p] EXCEPT !.pc = "attach", !.cause = c])
        BY <2>1, <2>5 DEF RunUnconfirmed
      <3>2. [frame[p] EXCEPT !.pc = "attach", !.cause = c]
              = [frame[p] EXCEPT !.pc = "attach", !.done = frame[p].done, !.cause = c]
        BY <2>3
      <3>3. SetFrame(p, [frame[p] EXCEPT !.pc = "attach", !.done = frame[p].done, !.cause = c])
        BY <3>1, <3>2 DEF SetFrame
      <3>. QED BY <2>2, <3>3
    <2>6. CASE RunConfirmed(p)
      <3>1. PICK c \in Cause : SetFrame(p, [frame[p] EXCEPT !.pc = "attach", !.done = TRUE, !.cause = c])
        BY <2>1, <2>6 DEF RunConfirmed
      <3>. QED BY <1>3, <2>6, <3>1
    <2>. QED BY <2>4, <2>5, <2>6
  <1> DEFINE w == [frame[p] EXCEPT !.pc = pc, !.done = d, !.cause = c]
  <1>6. FrameOK(w, ops, db, sends, chain) /\ ~Runs(w) BY <1>0, <1>4, <1>5, Turns
  <1>7. SetFrame(p, w) BY <1>5
  <1> HIDE DEF w
  <1>. QED BY <1>2, <1>6, <1>7, FrameTurn

\* A statement that found no row to change throws.
LEMMA ConflictTurn ==
  ASSUME Parameters, SdkInv, NEW p \in Procs, frame[p].pc # "idle", frame[p].by \in {"exec", "rec"}
  PROVE  \E w : /\ FrameOK(w, ops, db, sends, chain) /\ ~Runs(w)
                /\ Conflict(p) => SetFrame(p, w)
  <1> DEFINE c == [code |-> "OTHER", hash |-> FALSE, calls |-> FALSE]
             w == [frame[p] EXCEPT !.pc = "fail", !.done = frame[p].done, !.cause = c]
  <1>1. frame[p] \in FrameRecord /\ frame[p].done \in BOOLEAN BY FrameFacts DEF FrameRecord
  <1>2. c \in Cause BY DEF Cause
  <1>3. Conflict(p) => SetFrame(p, [frame[p] EXCEPT !.pc = "fail", !.cause = c])
    BY DEF Conflict, FailWith
  <1>4. [frame[p] EXCEPT !.pc = "fail", !.cause = c] = w BY <1>1 DEF FrameRecord
  <1> HIDE DEF c
  <1>5. "fail" \in PlainPcs BY DEF PlainPcs, Pcs
  <1>6. FrameOK(w, ops, db, sends, chain) /\ ~Runs(w) BY <1>1, <1>2, <1>5, Turns
  <1>7. Conflict(p) => SetFrame(p, w) BY <1>3, <1>4 DEF SetFrame
  <1> HIDE DEF w
  <1>. QED BY <1>6, <1>7

\* The statements of executeSdk and of recordFailure.
LEMMA StatementsInv ==
  ASSUME Parameters, SdkInv, NEW p \in Procs,
         \/ ExecAttach(p) \/ ExecSubmit(p) \/ ExecUnknown(p) \/ ExecReceipt(p) \/ FailAttach(p)
         \/ FailSubmit(p) \/ FailMark(p)
  PROVE  SdkInv'
  <1> DEFINE k == Kind(p)
             f == frame[p]
  <1>0. f.pc # "idle" /\ f.by = "exec"
    BY DEF ExecAttach, ExecSubmit, ExecUnknown, ExecReceipt, FailAttach, FailSubmit, FailMark, At
  <1>1. f \in FrameRecord /\ k \in Hashes /\ Row(p) \in OperationRow
        /\ FrameOK(f, ops, db, sends, chain)
    BY <1>0, FrameFacts
  <1>2. UNCHANGED <<db, tx, sends, chain>>
    BY DEF ExecAttach, ExecSubmit, ExecUnknown, ExecReceipt, FailAttach, FailSubmit, FailMark
  <1>3. PICK r : SetRow(p, r) /\ RowStep(Row(p), r, k, db.job)
    <2>1. f.cause \in Cause /\ f.seen \in OperationRow BY <1>1 DEF FrameRecord
    <2>2. RowStep(Row(p), FailureMark(Row(p), f.seen, f.cause), k, db.job) BY <1>1, <2>1, FailureStep
    <2>3. /\ RowStep(Row(p), Row(p), k, db.job)
          /\ RowStep(Row(p), AttachCallsId(Row(p)), k, db.job)
          /\ RowStep(Row(p), MarkSubmitted(Row(p), k), k, db.job)
          /\ RowStep(Row(p), MarkUnknown(Row(p)), k, db.job)
          /\ RowStep(Row(p), MarkReceipt(Row(p), "confirmed", k, 1), k, db.job)
          /\ RowStep(Row(p), AttachJobId(MarkReceipt(Row(p), "confirmed", k, 1)), k, db.job)
      BY <1>1, RowSteps
    <2>4. \/ SetRow(p, Row(p)) \/ SetRow(p, AttachCallsId(Row(p))) \/ SetRow(p, MarkSubmitted(Row(p), k))
          \/ SetRow(p, MarkUnknown(Row(p))) \/ SetRow(p, MarkReceipt(Row(p), "confirmed", k, 1))
          \/ SetRow(p, AttachJobId(MarkReceipt(Row(p), "confirmed", k, 1)))
          \/ SetRow(p, FailureMark(Row(p), f.seen, f.cause))
      BY DEF ExecAttach, ExecSubmit, ExecUnknown, ExecReceipt, FailAttach, FailSubmit, FailMark
    <2>. QED BY <2>2, <2>3, <2>4
  <1>4. PICK w : SetFrame(p, w) /\ FrameOK(w, ops, db, sends, chain) /\ ~Runs(w)
    <2>1. {"submit", "unknown", "fail", "failGet", "failMark", "failGetAgain"} \subseteq PlainPcs
      BY DEF PlainPcs, Pcs
    <2>2. ASSUME NEW pc \in PlainPcs, Goto(p, pc)
          PROVE  \E w : SetFrame(p, w) /\ FrameOK(w, ops, db, sends, chain) /\ ~Runs(w)
      <3> DEFINE w == [f EXCEPT !.pc = pc]
      <3>1. SetFrame(p, w) /\ FrameOK(w, ops, db, sends, chain) /\ ~Runs(w)
        BY <1>0, <2>2, Turns DEF Goto
      <3> HIDE DEF w
      <3>. QED BY <3>1
    <2>3. ASSUME NEW pc \in {"receipt", "read"}, Goto(p, pc), Accepted(k, chain)
          PROVE  \E w : SetFrame(p, w) /\ FrameOK(w, ops, db, sends, chain) /\ ~Runs(w)
      <3> DEFINE w == [f EXCEPT !.pc = pc]
      <3>1. SetFrame(p, w) /\ FrameOK(w, ops, db, sends, chain) /\ ~Runs(w)
        BY <1>0, <2>3, Turns DEF Goto
      <3> HIDE DEF w
      <3>. QED BY <3>1
    <2>4. ASSUME Conflict(p)
          PROVE  \E w : SetFrame(p, w) /\ FrameOK(w, ops, db, sends, chain) /\ ~Runs(w)
      BY <1>0, <2>4, ConflictTurn
    <2>5. ASSUME SetFrame(p, Idle)
          PROVE  \E w : SetFrame(p, w) /\ FrameOK(w, ops, db, sends, chain) /\ ~Runs(w)
      BY <2>5, IdleFrame
    <2>6. CASE ExecAttach(p) \/ ExecUnknown(p) \/ FailAttach(p) \/ FailSubmit(p) \/ FailMark(p)
      BY <2>1, <2>2, <2>4, <2>5, <2>6
      DEF ExecAttach, ExecUnknown, FailAttach, FailSubmit, FailMark
    <2>7. CASE ExecSubmit(p)
      <3>1. f.done => Accepted(k, chain) BY <1>0, <1>1 DEF FrameOK, Kind
      <3>. QED BY <2>1, <2>2, <2>3, <2>4, <2>7, <3>1 DEF ExecSubmit
    <2>8. CASE ExecReceipt(p)
      <3>1. Accepted(k, chain) BY <1>1, <2>8 DEF FrameOK, Kind, ExecReceipt, At
      <3>. QED BY <2>3, <2>4, <2>8, <3>1 DEF ExecReceipt
    <2>. QED BY <2>6, <2>7, <2>8
  <1>. QED BY <1>0, <1>2, <1>3, <1>4, RowTurn

\* recordFailure reads its row.
LEMMA FailGetInv ==
  ASSUME Parameters, SdkInv, NEW p \in Procs, FailGet(p) \/ FailGetAgain(p)
  PROVE  SdkInv'
  <1>0. frame[p].pc # "idle" /\ frame[p].by = "exec" BY DEF FailGet, FailGetAgain, At
  <1>1. Row(p) \in OperationRow /\ frame[p] \in FrameRecord BY <1>0, FrameFacts
  <1>2. {"failMark", "failSubmit", "failGetAgain"} \subseteq PlainPcs BY DEF PlainPcs, Pcs
  <1>3. PICK pc \in {"failMark", "failSubmit", "failGetAgain"} :
          SetFrame(p, [frame[p] EXCEPT !.seen = Row(p), !.pc = pc])
    <2>1. CASE FailGetAgain(p) BY <2>1 DEF FailGetAgain
    <2>2. CASE FailGet(p)
      <3> DEFINE pc == CASE ~frame[p].cause.hash -> "failMark"
                         [] Row(p).status = "awaiting_signature" -> "failSubmit"
                         [] OTHER -> "failGetAgain"
      <3>1. SetFrame(p, [frame[p] EXCEPT !.seen = Row(p), !.pc = pc]) BY <2>2 DEF FailGet
      <3>2. pc \in {"failMark", "failSubmit", "failGetAgain"} OBVIOUS
      <3> HIDE DEF pc
      <3>. QED BY <3>1, <3>2
    <2>. QED BY <2>1, <2>2
  <1> DEFINE w == [frame[p] EXCEPT !.seen = Row(p), !.pc = pc]
  <1>4. FrameOK(w, ops, db, sends, chain) /\ ~Runs(w) BY <1>0, <1>1, <1>2, <1>3, Turns
  <1>5. SetFrame(p, w) /\ UNCHANGED <<ops, db, tx, sends, chain>> BY <1>3 DEF FailGet, FailGetAgain
  <1> HIDE DEF w
  <1>. QED BY <1>4, <1>5, FrameTurn

-----------------------------------------------------------------------------
(* reconcile. *)

LEMMA RecGetInv ==
  ASSUME Parameters, SdkInv, NEW p \in Procs, RecGet(p)
  PROVE  SdkInv'
  <1>0. frame[p].pc # "idle" /\ frame[p].by = "rec" BY DEF RecGet, At
  <1>1. Row(p) \in OperationRow /\ frame[p] \in FrameRecord BY <1>0, FrameFacts
  <1>2. UNCHANGED <<ops, db, tx, sends, chain>> BY DEF RecGet
  <1>3. {"verify", "relay", "orphan"} \subseteq PlainPcs BY DEF PlainPcs, Pcs
  <1>4. CASE Row(p).status \in {"reverted", "reconciled"}
    <2>1. SetFrame(p, Idle) BY <1>4 DEF RecGet
    <2>. QED BY <1>2, <2>1, IdleFrame, FrameTurn
  <1>5. CASE Row(p).status \notin {"reverted", "reconciled"}
    <2> DEFINE pc == CASE Row(p).hash # NoHash -> "verify"
                       [] Row(p).callsId -> "relay"
                       [] OTHER -> "orphan"
               w == [frame[p] EXCEPT !.seen = Row(p), !.pc = pc]
    <2>1. SetFrame(p, w) BY <1>5 DEF RecGet
    <2>2. pc \in {"verify", "relay", "orphan"} OBVIOUS
    <2> HIDE DEF pc
    <2>3. FrameOK(w, ops, db, sends, chain) /\ ~Runs(w) BY <1>0, <1>1, <1>3, <2>2, Turns
    <2> HIDE DEF w
    <2>. QED BY <1>2, <2>1, <2>3, FrameTurn
  <1>. QED BY <1>4, <1>5

\* The statements of a reconciliation; its last one follows the projection.
LEMMA ReconcileInv ==
  ASSUME Parameters, SdkInv, NEW p \in Procs,
         \/ RecRelay(p) \/ RecOrphan(p) \/ RecNoReceipt(p) \/ RecReceipt(p) \/ RecFinish(p)
         \/ RecReview(p)
  PROVE  SdkInv'
  <1> DEFINE k == Kind(p)
             f == frame[p]
  <1>0. f.pc # "idle" /\ f.by = "rec"
    BY DEF RecRelay, RecOrphan, RecNoReceipt, RecReceipt, RecFinish, RecReview, At
  <1>1. f \in FrameRecord /\ k \in Hashes /\ Row(p) \in OperationRow
        /\ FrameOK(f, ops, db, sends, chain)
    BY <1>0, FrameFacts
  <1>2. UNCHANGED <<db, tx, sends, chain>>
    BY DEF RecRelay, RecOrphan, RecNoReceipt, RecReceipt, RecFinish, RecReview
  <1>3. PICK r : SetRow(p, r) /\ RowStep(Row(p), r, k, db.job)
    <2>1. /\ RowStep(Row(p), MarkSubmitted(Row(p), k), k, db.job)
          /\ RowStep(Row(p), MarkFailed(Row(p)), k, db.job)
          /\ RowStep(Row(p), MarkUnknown(Row(p)), k, db.job)
          /\ RowStep(Row(p), MarkManualReview(Row(p)), k, db.job)
          /\ RowStep(Row(p), MarkReceipt(Row(p), "confirmed", k, 1), k, db.job)
          /\ RowStep(Row(p), AttachJobId(MarkReceipt(Row(p), "confirmed", k, 1)), k, db.job)
      BY <1>1, RowSteps
    <2>2. CASE RecFinish(p)
      <3>1. ProjectedIn(k, db.job) BY <1>1, <2>2 DEF FrameOK, Kind, RecFinish, At
      <3>2. RowStep(Row(p), Reconcile(Row(p), "reconciled"), k, db.job)
        BY <1>1, <3>1 DEF RowStep, Reconcile, Present, OperationRow, OperationStatus
      <3>. QED BY <2>2, <3>2 DEF RecFinish
    <2>3. CASE ~RecFinish(p)
      <3>1. \/ SetRow(p, MarkSubmitted(Row(p), k)) \/ SetRow(p, MarkFailed(Row(p)))
            \/ SetRow(p, MarkUnknown(Row(p))) \/ SetRow(p, MarkManualReview(Row(p)))
            \/ SetRow(p, MarkReceipt(Row(p), "confirmed", k, 1))
            \/ SetRow(p, AttachJobId(MarkReceipt(Row(p), "confirmed", k, 1)))
        BY <2>3 DEF RecRelay, RecOrphan, RecNoReceipt, RecReceipt, RecReview
      <3>. QED BY <2>1, <3>1
    <2>. QED BY <2>2, <2>3
  <1>4. PICK w : SetFrame(p, w) /\ FrameOK(w, ops, db, sends, chain) /\ ~Runs(w)
    <2>1. {"get", "review"} \subseteq PlainPcs BY DEF PlainPcs, Pcs
    <2>2. ASSUME NEW pc \in PlainPcs \cup {"read"}, Goto(p, pc), pc = "read" => Accepted(k, chain)
          PROVE  \E w : SetFrame(p, w) /\ FrameOK(w, ops, db, sends, chain) /\ ~Runs(w)
      <3> DEFINE w == [f EXCEPT !.pc = pc]
      <3>1. SetFrame(p, w) /\ FrameOK(w, ops, db, sends, chain) /\ ~Runs(w)
        BY <1>0, <2>2, Turns DEF Goto
      <3> HIDE DEF w
      <3>. QED BY <3>1
    <2>3. ASSUME SetFrame(p, Idle)
          PROVE  \E w : SetFrame(p, w) /\ FrameOK(w, ops, db, sends, chain) /\ ~Runs(w)
      BY <2>3, IdleFrame
    <2>4. CASE RecReceipt(p)
      <3>1. Accepted(k, chain) BY <1>1, <2>4 DEF FrameOK, Kind, RecReceipt, At
      <3>. QED BY <2>1, <2>2, <2>4, <3>1 DEF RecReceipt
    <2>5. CASE ~RecReceipt(p)
      BY <2>1, <2>2, <2>3, <2>5 DEF RecRelay, RecOrphan, RecNoReceipt, RecFinish, RecReview
    <2>. QED BY <2>4, <2>5
  <1>. QED BY <1>0, <1>2, <1>3, <1>4, RowTurn

LEMMA VerifyInv ==
  ASSUME Parameters, SdkInv, NEW p \in Procs, RecUnverified(p) \/ RecVerified(p)
  PROVE  SdkInv'
  <1>0. frame[p].pc # "idle" /\ frame[p].by = "rec" BY DEF RecUnverified, RecVerified, At
  <1>1. Kind(p) \in Kinds BY <1>0, FrameFacts
  <1>2. UNCHANGED <<ops, db, tx, sends, chain>> BY DEF RecUnverified, RecVerified
  <1>3. RecVerified(p) => Accepted(Kind(p), chain) BY <1>1, AcceptedNow DEF RecVerified, Parameters
  <1>4. "review" \in PlainPcs BY DEF PlainPcs, Pcs
  <1>5. PICK pc \in {"review", "receipt"} : Goto(p, pc) /\ (pc = "receipt" => Accepted(Kind(p), chain))
    BY <1>3 DEF RecUnverified, RecVerified
  <1> DEFINE w == [frame[p] EXCEPT !.pc = pc]
  <1>6. FrameOK(w, ops, db, sends, chain) /\ ~Runs(w) BY <1>0, <1>4, <1>5, Turns
  <1>7. SetFrame(p, w) BY <1>5 DEF Goto
  <1> HIDE DEF w
  <1>. QED BY <1>2, <1>6, <1>7, FrameTurn

-----------------------------------------------------------------------------
(* The canonical projection. *)

LEMMA EventTypes ==
  ASSUME NEW t \in EventType, NEW h \in TxHashes, NEW s \in {"operation", "public"}, NEW prev \in JobState
  PROVE  [type |-> t, tx |-> h, source |-> s, prev |-> prev] \in Event
  BY DEF Event

\* What persistCanonicalConfirmation and persistCanonicalReconciliation write: the
\* database stays in agreement with itself and with the chain, and when the write returns
\* the operation is projected.
LEMMA PersistStep ==
  ASSUME Parameters, SdkInv, NEW k \in Kinds, NEW j, JobOK(j), Before(j, db.job),
         Accepted(k, chain), NEW same \in BOOLEAN
  PROVE  /\ Kept(db, Persist(j, k, same).db, chain)
         /\ Persist(j, k, same).ok => ProjectedIn(k, Persist(j, k, same).db.job)
  <1>0. k \in TxHashes /\ j \in JobRecord /\ j.state \in JobState
    BY DEF Parameters, JobOK, JobRecord
  <1>1. CASE k = "create"
    <2> DEFINE e == OperationEvent(k, "job_created", "none")
    <2>1. e \in Event BY <1>0, EventTypes DEF OperationEvent, EventType, JobState
    <2>2. Persist(j, k, same) = PersistCanonicalHire(j, k, same) BY <1>1 DEF Persist
    <2>3. CASE j.state = "none"
      <3>1. Persist(j, k, same).db = Create(db, HiredJob(k), e) BY <2>2, <2>3 DEF PersistCanonicalHire
      <3> HIDE DEF e
      <3>. QED BY <1>0, <1>1, <2>1, <3>1, HireStep DEF ProjectedIn
    <2>4. CASE j.state # "none"
      <3>1. Persist(j, k, same).db = db BY <2>2, <2>4 DEF PersistCanonicalHire
      <3>. QED BY <1>1, <2>4, <3>1, KeptSame DEF Before, ProjectedIn
    <2>. QED BY <2>3, <2>4
  <1>2. CASE k = "submit"
    <2> DEFINE e == OperationEvent(k, "job_submitted", j.state)
               n == SubmittedJob(j, k)
    <2>1. e \in Event /\ e.type = "job_submitted"
      BY <1>0, EventTypes DEF OperationEvent, EventType
    <2>2. n \in JobRecord /\ n.state = "submitted" /\ n.digest
      BY <1>0 DEF SubmittedJob, JobRecord, JobState, Tx
    <2>3. Persist(j, k, same) = PersistCanonicalSubmit(j, k, same) BY <1>2 DEF Persist
    <2>4. CASE j.state = "funded"
      <3>1. /\ Persist(j, k, same).db = Transition(db, n, "funded", e, same)
            /\ Persist(j, k, same).ok = TransitionOk(db, n, "funded", e, same)
        BY <2>3, <2>4 DEF PersistCanonicalSubmit, PersistSubmitOk
      <3>2. chain.job \in {"SUBMITTED"} \cup ChainEnded BY <1>2 DEF Accepted
      <3> HIDE DEF e, n
      <3>3. /\ Kept(db, Transition(db, n, "funded", e, same), chain)
            /\ TransitionOk(db, n, "funded", e, same) => Transition(db, n, "funded", e, same).job.digest
        BY <2>1, <2>2, <3>2, SubmitStep
      <3>. QED BY <1>2, <3>1, <3>3 DEF ProjectedIn
    <2>5. CASE j.state # "funded"
      <3>1. Persist(j, k, same).db = db /\ Persist(j, k, same).ok = (j.state = "submitted" /\ j.digest)
        BY <2>3, <2>5 DEF PersistCanonicalSubmit, PersistSubmitOk
      <3>. QED BY <1>2, <3>1, KeptSame DEF Before, ProjectedIn
    <2>. QED BY <2>4, <2>5
  <1>3. CASE k = "settle"
    <2> DEFINE e == OperationEvent(k, "job_completed", j.state)
               n == TerminalJob(j, k)
    <2>1. e \in Event /\ e.type = "job_completed"
      BY <1>0, EventTypes DEF OperationEvent, EventType
    <2>2. n \in JobRecord /\ n.state = "completed" /\ (n.digest <=> j.digest)
      BY <1>0, <1>3 DEF TerminalJob, JobRecord, JobState, Tx
    <2>3. Persist(j, k, same) = PersistCanonicalTerminal(j, k, same) BY <1>3 DEF Persist
    <2>4. CASE j.state = "completed"
      <3>1. Persist(j, k, same).db = db BY <1>3, <2>2, <2>3, <2>4 DEF PersistCanonicalTerminal
      <3>. QED BY <1>3, <2>4, <3>1, KeptSame DEF Before, ProjectedIn, Ended
    <2>5. CASE j.state = "submitted"
      <3>1. /\ Persist(j, k, same).db = Transition(db, n, "submitted", e, same)
            /\ Persist(j, k, same).ok = TransitionOk(db, n, "submitted", e, same)
        BY <1>3, <2>2, <2>3, <2>5 DEF PersistCanonicalTerminal
      <3>2. chain.job = "COMPLETED" /\ n.digest BY <1>3, <2>2, <2>5 DEF Accepted, JobOK
      <3> HIDE DEF e, n
      <3>3. /\ Kept(db, Transition(db, n, "submitted", e, same), chain)
            /\ TransitionOk(db, n, "submitted", e, same) =>
                 Transition(db, n, "submitted", e, same).job.state = "completed"
        BY <2>1, <2>2, <3>2, CompleteStep
      <3>. QED BY <1>3, <3>1, <3>3 DEF ProjectedIn
    <2>6. CASE j.state \notin {"submitted", "completed"}
      <3>1. Persist(j, k, same).db = db /\ Persist(j, k, same).ok = FALSE
        BY <1>3, <2>2, <2>3, <2>6 DEF PersistCanonicalTerminal
      <3>. QED BY <3>1, KeptSame
    <2>. QED BY <2>4, <2>5, <2>6
  <1>4. CASE k = "claim_refund"
    <2> DEFINE e == OperationEvent(k, "job_expired", j.state)
               n == TerminalJob(j, k)
    <2>1. e \in Event /\ e.type = "job_expired"
      BY <1>0, EventTypes DEF OperationEvent, EventType
    <2>2. n \in JobRecord /\ n.state = "expired" /\ (n.digest <=> j.digest)
      BY <1>0, <1>4 DEF TerminalJob, JobRecord, JobState, Tx
    <2>3. Persist(j, k, same) = PersistCanonicalTerminal(j, k, same) BY <1>4 DEF Persist
    <2>4. CASE j.state = "expired"
      <3>1. Persist(j, k, same).db \in {db, Repair(db)}
        BY <1>4, <2>2, <2>3, <2>4 DEF PersistCanonicalTerminal
      <3>2. db.job.state = "expired" BY <2>4 DEF Before, Ended
      <3>. QED BY <1>4, <3>1, <3>2, KeptSame, RepairStep DEF ProjectedIn
    <2>5. CASE j.state \in {"funded", "submitted"}
      <3>1. /\ Persist(j, k, same).db = Transition(db, n, j.state, e, same)
            /\ Persist(j, k, same).ok = TransitionOk(db, n, j.state, e, same)
        BY <1>4, <2>2, <2>3, <2>5 DEF PersistCanonicalTerminal
      <3>2. chain.job = "EXPIRED" /\ (j.state = "submitted" => n.digest)
        BY <1>4, <2>2 DEF Accepted, JobOK
      <3> HIDE DEF e, n
      <3>3. /\ Kept(db, Transition(db, n, j.state, e, same), chain)
            /\ TransitionOk(db, n, j.state, e, same) =>
                 Transition(db, n, j.state, e, same).job.state = n.state
        BY <2>1, <2>2, <2>5, <3>2, RefundStep
      <3>. QED BY <1>4, <2>2, <3>1, <3>3 DEF ProjectedIn
    <2>6. CASE j.state \notin {"funded", "submitted", "expired"}
      <3>1. Persist(j, k, same).db = db /\ Persist(j, k, same).ok = FALSE
        BY <1>4, <2>2, <2>3, <2>6 DEF PersistCanonicalTerminal
      <3>. QED BY <3>1, KeptSame
    <2>. QED BY <2>4, <2>5, <2>6
  <1>. QED BY <1>1, <1>2, <1>3, <1>4 DEF Parameters

LEMMA PersistReadInv ==
  ASSUME Parameters, SdkInv, NEW p \in Procs, PersistRead(p)
  PROVE  SdkInv'
  <1>0. frame[p].pc = "read" BY DEF PersistRead
  <1>1. frame[p] \in FrameRecord /\ FrameOK(frame[p], ops, db, sends, chain) BY <1>0, FrameFacts
  <1>2. JobOK(db.job) /\ db.job \in JobRecord BY DEF SdkInv, SdkTypes, DatabaseOK, JobOK
  <1> DEFINE w == [frame[p] EXCEPT !.job = db.job, !.pc = "write"]
  <1>3. /\ w \in FrameRecord /\ w.pc = "write" /\ w.k = frame[p].k /\ w.by = frame[p].by
        /\ w.done = frame[p].done /\ w.job = db.job
    BY <1>1, <1>2 DEF FrameRecord, Pcs
  <1>4. SetFrame(p, w) /\ UNCHANGED <<ops, db, tx, sends, chain>> BY DEF PersistRead
  <1> HIDE DEF w
  <1>5. Before(w.job, db.job) BY <1>3, Reflexive
  <1>6. FrameOK(w, ops, db, sends, chain) /\ ~Runs(w)
    BY <1>0, <1>1, <1>2, <1>3, <1>5 DEF FrameOK, Runs
  <1>. QED BY <1>4, <1>6, FrameTurn

\* Only the write that returned leads to the reconciliation of its operation.
LEMMA PersistWriteInv ==
  ASSUME Parameters, SdkInv, NEW p \in Procs, PersistWrite(p)
  PROVE  SdkInv'
  <1> DEFINE k == Kind(p)
             f == frame[p]
  <1>0. f.pc = "write" /\ UNCHANGED <<ops, tx, sends, chain>> BY DEF PersistWrite
  <1>1. f \in FrameRecord /\ FrameOK(f, ops, db, sends, chain) BY <1>0, FrameFacts
  <1>2. f.by \in {"exec", "rec"} BY <1>0, <1>1 DEF FrameOK
  <1>3. k \in Kinds BY <1>0, <1>2, FrameFacts
  <1>4. JobOK(f.job) /\ Before(f.job, db.job) /\ Accepted(k, chain)
    BY <1>0, <1>1 DEF FrameOK, Kind
  <1>5. PICK same \in BOOLEAN :
          /\ db' = Persist(f.job, k, same).db
          /\ CASE Persist(f.job, k, same).ok /\ f.by = "exec" -> SetFrame(p, Idle)
               [] Persist(f.job, k, same).ok /\ f.by = "rec" -> Goto(p, "finish")
               [] ~Persist(f.job, k, same).ok /\ f.by = "exec" -> Conflict(p)
               [] OTHER -> Goto(p, "review")
    BY DEF PersistWrite
  <1>6. PICK out : out = Persist(f.job, k, same) OBVIOUS
  <1>7. Kept(db, out.db, chain) /\ (out.ok => ProjectedIn(k, out.db.job))
    BY <1>3, <1>4, <1>6, PersistStep
  <1>8. Quiet BY <1>0, <1>5, <1>6, <1>7, QuietDatabase DEF Kept
  <1>9. SetFrame(p, Idle) \/ (out.ok /\ Goto(p, "finish")) \/ Conflict(p) \/ Goto(p, "review")
    BY <1>5, <1>6
  <1>10. CASE SetFrame(p, Idle) BY <1>8, <1>10, IdleFrame, PlainStep DEF SetFrame
  <1>11. CASE Conflict(p)
    <2>1. PICK w : FrameOK(w, ops, db, sends, chain) /\ ~Runs(w) /\ SetFrame(p, w)
      BY <1>0, <1>2, <1>11, ConflictTurn
    <2>. QED BY <1>8, <2>1, PlainStep DEF SetFrame
  <1>12. CASE Goto(p, "review")
    <2> DEFINE w == [f EXCEPT !.pc = "review"]
    <2>1. "review" \in PlainPcs BY DEF PlainPcs, Pcs
    <2>2. FrameOK(w, ops, db, sends, chain) /\ ~Runs(w) BY <1>0, <1>2, <2>1, Turns
    <2>3. SetFrame(p, w) BY <1>12 DEF Goto
    <2> HIDE DEF w
    <2>. QED BY <1>8, <2>2, <2>3, PlainStep DEF SetFrame
  <1>13. CASE out.ok /\ Goto(p, "finish")
    <2> DEFINE w == [f EXCEPT !.pc = "finish"]
    <2>1. /\ w \in FrameRecord /\ w.pc = "finish" /\ w.k = f.k /\ w.by = f.by /\ w.done = f.done
      BY <1>1 DEF FrameRecord, Pcs
    <2>2. frame' = [frame EXCEPT ![p] = w] BY <1>13 DEF Goto, SetFrame
    <2> HIDE DEF w
    <2>3. ProjectedIn(w.k, db'.job) BY <1>5, <1>6, <1>7, <1>13, <2>1 DEF Kind
    <2>4. w.done => Accepted(w.k, chain') BY <1>0, <1>1, <2>1 DEF FrameOK
    <2>5. FrameOK(w, ops', db', sends', chain')
      BY <1>2, <1>3, <2>1, <2>3, <2>4 DEF FrameOK, Runs, Kind
    <2>6. ~Runs(w) BY <2>1 DEF Runs
    <2>. QED BY <1>8, <2>2, <2>5, <2>6, HandlerStep
  <1>. QED BY <1>9, <1>10, <1>11, <1>12, <1>13

LEMMA ApproveInv ==
  ASSUME SdkInv, NEW p \in Procs, ApproveWrite(p)
  PROVE  SdkInv'
  <1>1. /\ db' = Approve(db) /\ SetFrame(p, Idle) /\ UNCHANGED <<ops, tx, sends, chain>>
    BY DEF ApproveWrite
  <1>2. Quiet BY <1>1, ApproveStep, QuietDatabase DEF Kept
  <1>. QED BY <1>1, <1>2, IdleFrame, PlainStep DEF SetFrame

\* The evidence of somebody else's step ends the job as that step ended it on chain.
LEMMA TerminalWriteInv ==
  ASSUME Parameters, SdkInv, NEW p \in Procs, TerminalWrite(p)
  PROVE  SdkInv'
  <1> DEFINE f == frame[p]
             t == CASE PublicState = "completed" -> "job_completed"
                    [] PublicState = "rejected" -> "job_rejected"
                    [] OTHER -> "job_expired"
             e == [type |-> t, tx |-> chain.terminal, source |-> "public", prev |-> f.job.state]
             n == PublicJob(f.job)
  <1>0. f.pc = "public" /\ UNCHANGED <<ops, tx, sends, chain>> /\ SetFrame(p, Idle)
    BY DEF TerminalWrite
  <1>1. f \in FrameRecord /\ FrameOK(f, ops, db, sends, chain) BY <1>0, FrameFacts
  <1>2. /\ JobOK(f.job) /\ f.job \in JobRecord /\ chain.job \in ChainEnded
        /\ chain.job = "COMPLETED" => f.job.state = "submitted"
        /\ chain.job # "COMPLETED" => f.job.state \in {"funded", "submitted"}
    BY <1>0, <1>1 DEF FrameOK, JobOK
  <1>3. PICK same \in BOOLEAN : db' = Transition(db, n, f.job.state, e, same)
    BY DEF TerminalWrite
  <1>4. chain.terminal \in TxHashes /\ chain.terminal \in Tx
    BY <1>2 DEF SdkInv, SdkTypes, ChainOK, Tx
  <1>5. t \in EventType /\ f.job.state \in JobState BY <1>2 DEF EventType, JobState
  <1>6. e \in Event /\ e.type = t BY <1>4, <1>5, EventTypes
  <1>7. PublicState \in {"completed", "rejected", "expired"} BY DEF PublicState
  <1>8. n \in JobRecord /\ n.state = PublicState /\ (n.digest <=> f.job.digest)
    BY <1>2, <1>4, <1>7 DEF PublicJob, JobRecord, JobState
  <1>9. f.job.state = "submitted" => f.job.digest BY <1>2 DEF JobOK
  <1>10. Kept(db, Transition(db, n, f.job.state, e, same), chain)
    <2>1. CASE PublicState = "completed"
      <3>1. chain.job = "COMPLETED" /\ t = "job_completed" BY <2>1 DEF PublicState
      <3>2. f.job.state = "submitted" BY <1>2, <3>1
      <3> HIDE DEF e, n, t
      <3>3. Kept(db, Transition(db, n, "submitted", e, same), chain)
        BY <1>6, <1>8, <1>9, <2>1, <3>1, <3>2, CompleteStep
      <3>. QED BY <3>2, <3>3
    <2>2. CASE PublicState # "completed"
      <3>1. chain.job # "COMPLETED" BY <2>2 DEF PublicState
      <3>2. \/ t = "job_expired" /\ PublicState = "expired" /\ chain.job = "EXPIRED"
            \/ t = "job_rejected" /\ PublicState = "rejected"
        BY <1>2, <2>2 DEF PublicState, ChainEnded
      <3>3. f.job.state \in {"funded", "submitted"} BY <1>2, <3>1
      <3> HIDE DEF e, n, t
      <3>4. \/ e.type = "job_expired" /\ n.state = "expired" /\ chain.job = "EXPIRED"
            \/ e.type = "job_rejected" /\ n.state = "rejected"
        BY <1>6, <1>8, <3>2
      <3>. QED BY <1>6, <1>8, <1>9, <3>3, <3>4, RefundStep
    <2>. QED BY <2>1, <2>2
  <1> HIDE DEF e, n, t
  <1>11. Quiet BY <1>0, <1>3, <1>10, QuietDatabase DEF Kept
  <1>. QED BY <1>0, <1>11, IdleFrame, PlainStep DEF SetFrame

LEMMA CrashInv ==
  ASSUME SdkInv, NEW p \in Procs, Crash(p)
  PROVE  SdkInv'
  BY IdleFrame, FrameTurn DEF Crash

-----------------------------------------------------------------------------
(* The chain and the relay. *)

LEMMA ChainAfterStep ==
  ASSUME Parameters, ChainOK(chain), NEW k \in Kinds, ChainAllows(k)
  PROVE  ChainOK(ChainAfter(k)) /\ Forward(chain, ChainAfter(k))
  <1>1. k \in {"create", "submit", "settle", "claim_refund"} /\ k \in TxHashes /\ NoTx \notin TxHashes
    BY DEF Parameters
  <1>2. CASE k = "create"
    BY <1>2 DEF ChainAllows, ChainAfter, ChainOK, Forward, ChainEnded
  <1>3. CASE k = "submit"
    BY <1>3 DEF ChainAllows, ChainAfter, ChainOK, Forward, ChainEnded
  <1>4. CASE k = "settle"
    BY <1>1, <1>4 DEF ChainAllows, ChainAfter, ChainOK, Forward, ChainEnded, Tx
  <1>5. CASE k = "claim_refund"
    BY <1>1, <1>5 DEF ChainAllows, ChainAfter, ChainOK, Forward, ChainEnded, Tx
  <1>. QED BY <1>1, <1>2, <1>3, <1>4, <1>5

LEMMA ChainStepInv ==
  ASSUME Parameters, SdkInv, ChainStep
  PROVE  SdkInv'
  <1>1. UNCHANGED <<ops, db, sends>> /\ frame' = frame
    BY DEF ChainStep, Mine, Drop, ReachExpiry, PublicTerminal, SellerSubmits
  <1>2. tx \in [Kinds -> TxStatus] /\ ChainOK(chain) /\ Founded(db, chain) BY DEF SdkInv, SdkTypes
  <1>3. tx' \in [Kinds -> TxStatus]
    BY <1>2 DEF ChainStep, Mine, Drop, ReachExpiry, PublicTerminal, SellerSubmits, TxStatus
  <1>4. ChainOK(chain') /\ Forward(chain, chain')
    <2>1. CASE chain' = chain BY <1>2, <2>1, Reflexive
    <2>2. ASSUME NEW k \in Kinds, ChainAllows(k), chain' = ChainAfter(k)
          PROVE  ChainOK(chain') /\ Forward(chain, chain')
      BY <1>2, <2>2, ChainAfterStep
    <2>3. CASE ReachExpiry BY <1>2, <2>3 DEF ReachExpiry, ChainOK, Forward, ChainEnded
    <2>4. ASSUME NEW v \in PublicVerdicts, PublicTerminal(v)
          PROVE  ChainOK(chain') /\ Forward(chain, chain')
      <3>1. "public" \in TxHashes /\ NoTx \notin TxHashes BY DEF Parameters
      <3>2. v \in ChainEnded /\ chain.job \in {"FUNDED", "SUBMITTED"}
        BY <2>4 DEF PublicTerminal, ChainEnded
      <3>3. chain' = [chain EXCEPT !.job = v, !.terminal = "public"] BY <2>4 DEF PublicTerminal
      <3>. QED BY <1>2, <3>1, <3>2, <3>3 DEF ChainOK, Forward, ChainEnded, Tx
    <2>5. CASE SellerSubmits
      <3>1. "submit" \in Kinds BY <2>5 DEF SellerSubmits, Kinds
      <3>. QED BY <2>2, <2>5, <3>1 DEF SellerSubmits
    <2>6. ASSUME NEW k \in Kinds, Mine(k) \/ Drop(k)
          PROVE  ChainOK(chain') /\ Forward(chain, chain')
      BY <2>1, <2>2, <2>6 DEF Mine, Drop
    <2>. QED BY <2>3, <2>4, <2>5, <2>6 DEF ChainStep
  <1>5. Founded(db, chain') BY <1>2, <1>4 DEF Founded, Forward, ChainEnded
  <1>6. Quiet BY <1>1, <1>3, <1>4, <1>5, QuietChain
  <1>. QED BY <1>1, <1>6, WorldStep

-----------------------------------------------------------------------------
LEMMA SdkSteps ==
  ASSUME Parameters, SdkInv, [Next]_vars
  PROVE  SdkInv'
  <1>1. CASE ChainStep BY <1>1, ChainStepInv
  <1>2. ASSUME NEW k \in BrowserKinds, BrowserDispatch(k) PROVE SdkInv' BY <1>2, BrowserInv
  <1>3. ASSUME NEW p \in Procs, Call(p) PROVE SdkInv'
    <2>1. \/ \/ \E k \in ServiceKinds : CallExecute(p, k)
             \/ CallWorker(p) \/ ApproveRead(p)
          \/ Refresh(p) \/ \E k \in BrowserKinds : AttachExternalExecution(p, k)
          \/ TerminalRead(p)
      BY <1>3 DEF Call
    <2>. QED BY <2>1, CallsInv, ReportsInv, TerminalReadInv
  <1>4. ASSUME NEW p \in Procs, ExecStep(p) PROVE SdkInv'
    <2>1. CASE ExecReserve(p) BY <2>1, ReserveInv
    <2>2. CASE RunDispatch(p) BY <2>2, DispatchInv
    <2>3. CASE RunRefused(p) \/ RunThrows(p) \/ RunUnconfirmed(p) \/ RunConfirmed(p) BY <2>3, RunInv
    <2>4. CASE FailGet(p) \/ FailGetAgain(p) BY <2>4, FailGetInv
    <2>5. CASE \/ ExecAttach(p) \/ ExecSubmit(p) \/ ExecUnknown(p) \/ ExecReceipt(p) \/ FailAttach(p)
               \/ FailSubmit(p) \/ FailMark(p)
      BY <2>5, StatementsInv
    <2>. QED BY <1>4, <2>1, <2>2, <2>3, <2>4, <2>5 DEF ExecStep
  <1>5. ASSUME NEW p \in Procs, RecStep(p) PROVE SdkInv'
    <2>1. CASE RecGet(p) BY <2>1, RecGetInv
    <2>2. CASE RecUnverified(p) \/ RecVerified(p) BY <2>2, VerifyInv
    <2>3. CASE \/ RecRelay(p) \/ RecOrphan(p) \/ RecNoReceipt(p) \/ RecReceipt(p) \/ RecFinish(p)
               \/ RecReview(p)
      BY <2>3, ReconcileInv
    <2>. QED BY <1>5, <2>1, <2>2, <2>3 DEF RecStep
  <1>6. ASSUME NEW p \in Procs, StoreStep(p) PROVE SdkInv'
    BY <1>6, PersistReadInv, PersistWriteInv, ApproveInv, TerminalWriteInv DEF StoreStep
  <1>7. ASSUME NEW p \in Procs, Crash(p) PROVE SdkInv' BY <1>7, CrashInv
  <1>8. ASSUME NEW p \in Procs, NEW k \in Kinds, CallReconcile(p, k) PROVE SdkInv'
    BY <1>8, CallsInv
  <1>9. CASE UNCHANGED vars
    <2>1. UNCHANGED <<ops, db, tx, sends, chain, frame>> BY <1>9 DEF vars
    <2>. QED BY <2>1, QuietNone, WorldStep
  <1>. QED BY <1>1, <1>2, <1>3, <1>4, <1>5, <1>6, <1>7, <1>8, <1>9 DEF Next

\* The inductive invariant: a row that is present forbids a second run of its operation, what
\* a handler has learnt of the chain and of the job stays true while it waits, and the
\* canonical job, its parent and its result are written together.
THEOREM SdkInvariant == ASSUME Parameters PROVE Spec => []SdkInv
  <1>1. Init => SdkInv BY InitInv
  <1>2. SdkInv /\ [Next]_vars => SdkInv' BY SdkSteps
  <1>. QED BY <1>1, <1>2, PTL DEF Spec

\* Whatever requests, worker runs, reconciliations, browsers and crashes do, the call of an
\* operation is handed to the relay at most once (executeSdk in service.ts runs the SDK
\* only behind the row that reserve inserted).
THEOREM SentToRelayOnce == ASSUME Parameters PROVE Spec => []OneSend
  <1>1. SdkInv => OneSend
    <2>1. ASSUME SdkInv PROVE OneSend
      <3>1. DOMAIN sends = Kinds /\ \A k \in Kinds : sends[k] \in {0, 1}
        BY <2>1 DEF SdkInv, SdkTypes
      <3>. QED BY <3>1 DEF OneSend
    <2>. QED BY <2>1
  <1>. QED BY <1>1, SdkInvariant, PTL

\* reconcile returns a reconciled row unread, so its effect is on the canonical job by then:
\* also when two requests project the same operation, when the projection fails, and when
\* somebody else settles, rejects or refunds the job in between.
THEOREM ReconciledAreProjected == ASSUME Parameters PROVE Spec => []ReconciledIsProjected
  <1>1. SdkInv => ReconciledIsProjected
    <2>1. ASSUME SdkInv, NEW k \in DOMAIN ops, ops[k].status = "reconciled" PROVE Projected(k)
      <3>1. k \in Kinds BY <2>1 DEF SdkInv, SdkTypes
      <3>2. ProjectedIn(k, db.job) /\ k \in {"create", "submit", "settle", "claim_refund"}
        BY <2>1, <3>1 DEF SdkInv, Parameters
      <3>. QED BY <3>2 DEF Projected, ProjectedIn
    <2>. QED BY <2>1 DEF ReconciledIsProjected
  <1>. QED BY <1>1, SdkInvariant, PTL

\* The canonical job, its result row and its parent tell one story, and the chain tells it
\* too (transition in postgres-jobs.ts writes the three in one transaction).
THEOREM ProjectionsAgree == ASSUME Parameters PROVE Spec => []ProjectionAgrees
  <1>1. SdkInv => ProjectionAgrees
    <2>1. ASSUME SdkInv PROVE ProjectionAgrees
      <3>1. /\ tx \in [Kinds -> TxStatus] /\ DatabaseOK(db) /\ Founded(db, chain)
            /\ db \in Database /\ db.job.state \in JobState /\ db.job.state # "open"
        BY <2>1 DEF SdkInv, SdkTypes, DatabaseOK, JobOK, JobRecord
      <3>2. \A k \in DOMAIN tx : tx[k] \in TxStatus BY <3>1
      <3>3. /\ db.job.state = "completed" <=> db.parent = "settled"
            /\ db.job.state = "completed" <=> db.result = "settled"
            /\ db.job.state \in {"expired", "rejected"} <=> db.parent = "cancelled"
            /\ db.job.state = "submitted" => db.parent = "submitted" /\ db.result = "submitted"
        BY <3>1 DEF DatabaseOK, JobState
      <3>4. /\ db.job.state = "submitted" => chain.job \notin {"NONE", "FUNDED"}
            /\ db.job.state = "completed" => chain.job = "COMPLETED"
            /\ db.job.state = "expired" => chain.job = "EXPIRED"
        BY <3>1 DEF Founded, ChainEnded
      <3>. QED BY <3>1, <3>2, <3>3, <3>4 DEF ProjectionAgrees
    <2>. QED BY <2>1
  <1>. QED BY <1>1, SdkInvariant, PTL

-----------------------------------------------------------------------------
(* The buyer's approval. *)

\* The job was closed by a refund, or by the evidence of somebody else's settlement.
Gone(j) == j.state \in {"expired", "rejected"} \/ (j.state = "completed" /\ j.completion = "public")

Approved(j) == j.approval \/ Gone(j)

\* A settlement of the server or of the browser is under way or done.
Settling(f) == f.pc # "idle" /\ f.by \in {"exec", "rec"} /\ f.k = "settle"

ServerSettled(c) == c.terminal # NoTx /\ c.terminal = "settle"

SettlementBegun ==
  \/ ServerSettled(chain)
  \/ "settle" \in Kinds /\ (Present(ops["settle"]) \/ tx["settle"] # "none")
  \/ \E p \in Procs : Settling(frame[p])

\* What a handler that is about to write has read of the approval.
ReadApproved(f, c) ==
  /\ f.pc = "write" /\ Settling(f) => Approved(f.job)
  /\ f.pc = "public" /\ ServerSettled(c) => Approved(f.job)

ApprovalInv ==
  /\ ValidRecord(db.job)
  /\ chain.job = "COMPLETED" => chain.terminal \in {"settle", "public"}
  /\ SettlementBegun => Approved(db.job)
  /\ \A p \in Procs : ReadApproved(frame[p], chain)

\* A handler f of an operation goes on as g, and writes only what it has just read.
Onward(f, g, d) ==
  g.pc # "idle" =>
    /\ g.k = f.k /\ g.by = f.by /\ g.pc # "public"
    /\ g.pc = "write" => g.job = d.job

\* A step of a handler of an operation touches its own row, call and place only.
LEMMA OwnStep ==
  ASSUME Parameters, SdkInv, NEW p \in Procs,
         ExecStep(p) \/ RecStep(p) \/ PersistRead(p) \/ PersistWrite(p)
  PROVE  /\ frame[p].pc # "idle" /\ frame[p].by \in {"exec", "rec"} /\ chain' = chain
         /\ \A x \in Kinds : x # Kind(p) => ops'[x] = ops[x] /\ tx'[x] = tx[x]
         /\ \A q \in Procs : q # p => frame'[q] = frame[q]
         /\ Onward(frame[p], frame'[p], db)
  <1>1. frame[p].pc # "idle" /\ frame[p].by \in {"exec", "rec"}
    <2>1. frame[p].pc # "idle" BY DEF ExecStep, RecStep, PersistRead, PersistWrite, At,
        ExecReserve, RunRefused, RunDispatch, RunThrows, RunUnconfirmed, RunConfirmed, ExecAttach,
        ExecSubmit, ExecUnknown, ExecReceipt, FailAttach, FailGet, FailSubmit, FailGetAgain, FailMark,
        RecGet, RecRelay, RecOrphan, RecNoReceipt, RecUnverified, RecVerified, RecReceipt, RecFinish,
        RecReview
    <2>2. PersistRead(p) \/ PersistWrite(p) => frame[p].by \in {"exec", "rec"}
      BY <2>1, FrameFacts DEF PersistRead, PersistWrite, FrameOK
    <2>3. ExecStep(p) \/ RecStep(p) => frame[p].by \in {"exec", "rec"}
      BY DEF ExecStep, RecStep, At,
        ExecReserve, RunRefused, RunDispatch, RunThrows, RunUnconfirmed, RunConfirmed, ExecAttach,
        ExecSubmit, ExecUnknown, ExecReceipt, FailAttach, FailGet, FailSubmit, FailGetAgain, FailMark,
        RecGet, RecRelay, RecOrphan, RecNoReceipt, RecUnverified, RecVerified, RecReceipt, RecFinish,
        RecReview
    <2>. QED BY <2>1, <2>2, <2>3
  <1>2. /\ ops \in [Kinds -> OperationRow] /\ tx \in [Kinds -> TxStatus]
        /\ frame \in [Procs -> FrameRecord \cup {Idle}] /\ frame[p] \in FrameRecord
    BY <1>1, FrameFacts DEF SdkInv, SdkTypes
  <1>3. chain' = chain /\ \A x \in Kinds : x # Kind(p) => ops'[x] = ops[x] /\ tx'[x] = tx[x]
    BY <1>2 DEF ExecStep, RecStep, PersistRead, PersistWrite, SetRow, Kind,
        ExecReserve, RunRefused, RunDispatch, RunThrows, RunUnconfirmed, RunConfirmed, ExecAttach,
        ExecSubmit, ExecUnknown, ExecReceipt, FailAttach, FailGet, FailSubmit, FailGetAgain, FailMark,
        RecGet, RecRelay, RecOrphan, RecNoReceipt, RecUnverified, RecVerified, RecReceipt, RecFinish,
        RecReview
  <1>4. \A q \in Procs : q # p => frame'[q] = frame[q]
    BY <1>2 DEF ExecStep, RecStep, PersistRead, PersistWrite, SetFrame, Goto, FailWith, Conflict,
        ExecReserve, RunRefused, RunDispatch, RunThrows, RunUnconfirmed, RunConfirmed, ExecAttach,
        ExecSubmit, ExecUnknown, ExecReceipt, FailAttach, FailGet, FailSubmit, FailGetAgain, FailMark,
        RecGet, RecRelay, RecOrphan, RecNoReceipt, RecUnverified, RecVerified, RecReceipt, RecFinish,
        RecReview
  <1>5. Onward(frame[p], frame'[p], db)
    <2> DEFINE f == frame[p]
               There == Pcs \ {"write", "public"}
    <2>1. \A w : SetFrame(p, w) => frame'[p] = w BY <1>2 DEF SetFrame
    <2>2. SetFrame(p, Idle) => Onward(f, frame'[p], db) BY <2>1 DEF Onward, Idle
    <2>3. ASSUME NEW pc \in There, Goto(p, pc) PROVE Onward(f, frame'[p], db)
      <3>1. frame'[p] = [f EXCEPT !.pc = pc] BY <2>1, <2>3 DEF Goto
      <3>. QED BY <1>2, <3>1 DEF Onward, FrameRecord
    <2>4. ASSUME NEW pc \in There, NEW c, SetFrame(p, [f EXCEPT !.pc = pc, !.cause = c])
          PROVE  Onward(f, frame'[p], db)
      <3>1. frame'[p] = [f EXCEPT !.pc = pc, !.cause = c] BY <2>1, <2>4
      <3>. QED BY <1>2, <3>1 DEF Onward, FrameRecord
    <2>5. ASSUME NEW pc \in There, NEW c, SetFrame(p, [f EXCEPT !.pc = pc, !.done = TRUE, !.cause = c])
          PROVE  Onward(f, frame'[p], db)
      <3>1. frame'[p] = [f EXCEPT !.pc = pc, !.done = TRUE, !.cause = c] BY <2>1, <2>5
      <3>. QED BY <1>2, <3>1 DEF Onward, FrameRecord
    <2>6. ASSUME NEW pc \in There, NEW r, SetFrame(p, [f EXCEPT !.seen = r, !.pc = pc])
          PROVE  Onward(f, frame'[p], db)
      <3>1. frame'[p] = [f EXCEPT !.seen = r, !.pc = pc] BY <2>1, <2>6
      <3>. QED BY <1>2, <3>1 DEF Onward, FrameRecord
    <2> DEFINE Steps == {"run", "sent", "attach", "submit", "unknown", "receipt", "fail", "failGet",
                         "failSubmit", "failGetAgain", "failMark", "get", "relay", "orphan", "verify",
                         "review", "finish", "read"}
    <2>7. Steps \subseteq There BY DEF Pcs
    <2> HIDE DEF There
    <2>8. CASE ExecReserve(p) \/ ExecAttach(p) \/ ExecSubmit(p) \/ ExecUnknown(p) \/ ExecReceipt(p)
      BY <2>2, <2>3, <2>4, <2>7, <2>8
      DEF ExecReserve, ExecAttach, ExecSubmit, ExecUnknown, ExecReceipt, Conflict, FailWith
    <2>9. CASE RunRefused(p) \/ RunDispatch(p) \/ RunThrows(p) \/ RunUnconfirmed(p) \/ RunConfirmed(p)
      BY <2>3, <2>4, <2>5, <2>7, <2>9
      DEF RunRefused, RunDispatch, RunThrows, RunUnconfirmed, RunConfirmed, FailWith
    <2>10. CASE FailAttach(p) \/ FailGet(p) \/ FailSubmit(p) \/ FailGetAgain(p) \/ FailMark(p)
      BY <2>2, <2>3, <2>6, <2>7, <2>10 DEF FailAttach, FailGet, FailSubmit, FailGetAgain, FailMark
    <2>11. CASE RecGet(p) \/ RecRelay(p) \/ RecOrphan(p) \/ RecNoReceipt(p)
      BY <2>2, <2>3, <2>6, <2>7, <2>11 DEF RecGet, RecRelay, RecOrphan, RecNoReceipt
    <2>12. CASE RecUnverified(p) \/ RecVerified(p) \/ RecReceipt(p) \/ RecFinish(p) \/ RecReview(p)
      BY <2>2, <2>3, <2>7, <2>12 DEF RecUnverified, RecVerified, RecReceipt, RecFinish, RecReview
    <2>13. CASE PersistRead(p)
      <3>1. frame'[p] = [f EXCEPT !.job = db.job, !.pc = "write"] BY <2>1, <2>13 DEF PersistRead
      <3>. QED BY <1>2, <3>1 DEF Onward, FrameRecord
    <2>14. CASE PersistWrite(p)
      <3>1. SetFrame(p, Idle) \/ Goto(p, "finish") \/ Conflict(p) \/ Goto(p, "review")
        BY <2>14 DEF PersistWrite
      <3>. QED BY <2>2, <2>3, <2>4, <2>7, <3>1 DEF Conflict, FailWith
    <2>. QED BY <2>8, <2>9, <2>10, <2>11, <2>12, <2>13, <2>14 DEF ExecStep, RecStep
  <1>. QED BY <1>1, <1>3, <1>4, <1>5

\* transition() writes the requested job or none.
LEMMA TransitionJob ==
  ASSUME NEW d \in Database, NEW j \in JobRecord, NEW prev, NEW e \in Event, NEW same \in BOOLEAN
  PROVE  \/ /\ Transition(d, j, prev, e, same).job = j
            /\ ValidRecord(j) /\ d.job.state = prev
         \/ Transition(d, j, prev, e, same).job = d.job
  <1> DEFINE n == [d EXCEPT !.job = j, !.events = @ \cup {e}]
  <1>1. n.job = j /\ Repair(d).job = d.job BY DEF Database, Repair, ProjectRefund
  <1>2. \A z \in {n} : Project(z, e).job = z.job
    <2>1. n \in [{"job", "parent", "result", "settlement", "events"} ->
                 JobRecord \cup ParentStatus \cup ResultState \cup Tx \cup SUBSET Event]
      BY DEF Database
    <2> HIDE DEF n
    <2>. QED BY <2>1 DEF Project, ProjectSubmission, ProjectSettlement, ProjectRefund
  <1>. QED BY <1>1, <1>2 DEF Transition, TransitionCommits, UpdateMatches

\* A projection of the server's own operation drops no approval.
LEMMA PersistApproval ==
  ASSUME Parameters, SdkInv, ValidRecord(db.job), NEW k \in Kinds, NEW j, JobOK(j),
         Before(j, db.job), k = "settle" => Approved(j), NEW same \in BOOLEAN
  PROVE  /\ ValidRecord(Persist(j, k, same).db.job)
         /\ Approved(db.job) => Approved(Persist(j, k, same).db.job)
  <1>0. k \in TxHashes /\ j \in JobRecord /\ j.state \in JobState /\ db \in Database
    BY DEF Parameters, JobOK, JobRecord, SdkInv, SdkTypes, DatabaseOK
  <1>1. CASE k = "create"
    <2>1. Persist(j, k, same).db \in {db, Create(db, HiredJob(k), OperationEvent(k, "job_created", "none"))}
      BY <1>1 DEF Persist, PersistCanonicalHire
    <2>2. \A e : Create(db, HiredJob(k), e).job
                   = IF db.job.state # "none" THEN db.job ELSE HiredJob(k)
      BY <1>0 DEF Create, SyncMarketplaceFunding, Database
    <2>3. ValidRecord(HiredJob(k)) BY DEF ValidRecord, HiredJob, NoJob
    <2>4. db.job.state = "none" => ~Approved(db.job) BY DEF ValidRecord, Approved, Gone
    <2>. QED BY <2>1, <2>2, <2>3, <2>4
  <1>2. CASE k = "submit"
    <2> DEFINE e == OperationEvent(k, "job_submitted", j.state)
               n == SubmittedJob(j, k)
    <2>1. e \in Event BY <1>0, EventTypes DEF OperationEvent, EventType
    <2>2. n \in JobRecord BY <1>0 DEF SubmittedJob, JobRecord, JobState, Tx
    <2>3. \/ Persist(j, k, same).db = db
          \/ j.state = "funded" /\ Persist(j, k, same).db = Transition(db, n, j.state, e, same)
      BY <1>2 DEF Persist, PersistCanonicalSubmit, PersistSubmitOk
    <2> HIDE DEF e, n
    <2>4. db.job.state = "funded" => ~Approved(db.job) BY DEF ValidRecord, Approved, Gone
    <2>5. \/ Transition(db, n, j.state, e, same).job = n /\ ValidRecord(n) /\ db.job.state = j.state
          \/ Transition(db, n, j.state, e, same).job = db.job
      BY <1>0, <2>1, <2>2, TransitionJob
    <2>. QED BY <2>3, <2>4, <2>5
  <1>3. CASE k \in {"settle", "claim_refund"}
    <2> DEFINE e == OperationEvent(k, IF k = "settle" THEN "job_completed" ELSE "job_expired", j.state)
               n == TerminalJob(j, k)
    <2>1. e \in Event BY <1>0, EventTypes DEF OperationEvent, EventType
    <2>2. n \in JobRecord /\ n.approval = j.approval
          /\ n.state = IF k = "settle" THEN "completed" ELSE "expired"
      BY <1>0, <1>3 DEF TerminalJob, JobRecord, JobState, Tx
    <2>3. Persist(j, k, same) = PersistCanonicalTerminal(j, k, same) BY <1>3 DEF Persist
    <2>4. \/ Persist(j, k, same).db \in {db, Repair(db)}
          \/ /\ k = "settle" => j.state = "submitted"
             /\ Persist(j, k, same).db = Transition(db, n, j.state, e, same)
      BY <1>3, <2>3 DEF PersistCanonicalTerminal
    <2>5. Repair(db).job = db.job BY <1>0 DEF Repair, ProjectRefund, Database
    <2>6. (k = "settle" => j.state = "submitted") => Approved(n)
      BY <1>3, <2>2 DEF Approved, Gone
    <2> HIDE DEF e, n
    <2>7. \/ Transition(db, n, j.state, e, same).job = n /\ ValidRecord(n)
          \/ Transition(db, n, j.state, e, same).job = db.job
      BY <1>0, <2>1, <2>2, TransitionJob
    <2>. QED BY <2>4, <2>5, <2>6, <2>7
  <1>. QED BY <1>1, <1>2, <1>3 DEF Parameters

\* No step drops an approval that is on record, and none writes one of an older read over it.
LEMMA ApprovalStays ==
  ASSUME Parameters, SdkInv, ApprovalInv, [Next]_vars
  PROVE  ValidRecord(db'.job) /\ (Approved(db.job) => Approved(db'.job))
  <1>0. ValidRecord(db.job) /\ db \in Database /\ JobOK(db.job)
    BY DEF ApprovalInv, SdkInv, SdkTypes, DatabaseOK
  <1>1. CASE db' = db BY <1>0, <1>1
  <1>2. ASSUME NEW p \in Procs, PersistWrite(p)
        PROVE  ValidRecord(db'.job) /\ (Approved(db.job) => Approved(db'.job))
    <2> DEFINE f == frame[p]
    <2>1. f.pc = "write" BY <1>2 DEF PersistWrite
    <2>2. FrameOK(f, ops, db, sends, chain) BY <2>1, FrameFacts
    <2>3. f.by \in {"exec", "rec"} /\ f.k \in Kinds /\ JobOK(f.job) /\ Before(f.job, db.job)
      BY <2>1, <2>2 DEF FrameOK
    <2>4. f.k = "settle" => Approved(f.job)
      BY <2>1, <2>3 DEF ApprovalInv, ReadApproved, Settling
    <2>5. PICK same \in BOOLEAN : db' = Persist(f.job, f.k, same).db BY <1>2 DEF PersistWrite, Kind
    <2> HIDE DEF f
    <2>. QED BY <1>0, <2>3, <2>4, <2>5, PersistApproval
  <1>3. ASSUME NEW p \in Procs, ApproveWrite(p)
        PROVE  ValidRecord(db'.job) /\ (Approved(db.job) => Approved(db'.job))
    <2>1. db' = db \/ (db.job.state = "submitted" /\ db' = [db EXCEPT !.job.approval = TRUE])
      BY <1>3 DEF ApproveWrite, Approve
    <2>2. db' = [db EXCEPT !.job.approval = TRUE] =>
            db'.job.approval /\ db'.job.state = db.job.state /\ db'.job.digest = db.job.digest
      BY <1>0 DEF Database, JobRecord
    <2>. QED BY <1>0, <2>1, <2>2 DEF JobOK, ValidRecord, Approved
  <1>4. ASSUME NEW p \in Procs, TerminalWrite(p)
        PROVE  ValidRecord(db'.job) /\ (Approved(db.job) => Approved(db'.job))
    <2> DEFINE f == frame[p]
               t == CASE PublicState = "completed" -> "job_completed"
                      [] PublicState = "rejected" -> "job_rejected"
                      [] OTHER -> "job_expired"
               e == [type |-> t, tx |-> chain.terminal, source |-> "public", prev |-> f.job.state]
               n == PublicJob(f.job)
    <2>1. f.pc = "public" BY <1>4 DEF TerminalWrite
    <2>2. FrameOK(f, ops, db, sends, chain) /\ ReadApproved(f, chain)
      BY <2>1, FrameFacts DEF ApprovalInv
    <2>3. /\ f.job \in JobRecord /\ f.job.state \in JobState /\ chain.job \in ChainEnded
          /\ chain.job = "COMPLETED" => f.job.state = "submitted"
      BY <2>1, <2>2 DEF FrameOK, JobOK, JobRecord
    <2>4. chain.terminal \in TxHashes /\ chain.terminal \in Tx /\ chain.terminal # NoTx
      BY <2>3 DEF SdkInv, SdkTypes, ChainOK, Tx
    <2>5. t \in EventType BY DEF EventType
    <2>6. e \in Event BY <2>3, <2>4, <2>5, EventTypes
    <2>7. PublicState \in {"completed", "rejected", "expired"} BY DEF PublicState
    <2>8. /\ n \in JobRecord /\ n.state = PublicState
          /\ PublicState = "completed" => n.completion = chain.terminal /\ n.approval = f.job.approval
      BY <2>3, <2>4, <2>7 DEF PublicJob, JobRecord, JobState
    <2>9. Approved(n)
      <3>1. CASE PublicState = "completed"
        <4>1. chain.job = "COMPLETED" BY <3>1 DEF PublicState
        <4>2. chain.terminal \in {"settle", "public"} BY <4>1 DEF ApprovalInv
        <4>3. CASE chain.terminal = "public" BY <2>8, <3>1, <4>3 DEF Approved, Gone
        <4>4. CASE chain.terminal = "settle"
          <5>1. Approved(f.job) BY <2>1, <2>2, <2>4, <4>4 DEF ReadApproved, ServerSettled
          <5>2. f.job.approval BY <2>3, <4>1, <5>1 DEF Approved, Gone
          <5>. QED BY <2>8, <3>1, <5>2 DEF Approved
        <4>. QED BY <4>2, <4>3, <4>4
      <3>2. CASE PublicState # "completed" BY <2>7, <2>8, <3>2 DEF Approved, Gone
      <3>. QED BY <3>1, <3>2
    <2>10. PICK same \in BOOLEAN : db' = Transition(db, n, f.job.state, e, same)
      BY <1>4 DEF TerminalWrite
    <2> HIDE DEF e, n, t
    <2>11. \/ Transition(db, n, f.job.state, e, same).job = n /\ ValidRecord(n)
           \/ Transition(db, n, f.job.state, e, same).job = db.job
      BY <1>0, <2>6, <2>8, TransitionJob
    <2>. QED BY <1>0, <2>9, <2>10, <2>11
  <1>5. \/ db' = db
        \/ \E p \in Procs : PersistWrite(p) \/ ApproveWrite(p) \/ TerminalWrite(p)
    <2>1. ChainStep => db' = db
      BY DEF ChainStep, Mine, Drop, ReachExpiry, PublicTerminal, SellerSubmits
    <2>2. \A p \in Procs : Call(p) => db' = db
      BY DEF Call, CallExecute, CallWorker, AttachExternalExecution, Refresh, ApproveRead, TerminalRead
    <2>3. \A p \in Procs : ExecStep(p) => db' = db
      BY DEF ExecStep, ExecReserve, RunRefused, RunDispatch, RunThrows, RunUnconfirmed, RunConfirmed,
             ExecAttach, ExecSubmit, ExecUnknown, ExecReceipt, FailAttach, FailGet, FailSubmit,
             FailGetAgain, FailMark
    <2>4. \A p \in Procs : RecStep(p) => db' = db
      BY DEF RecStep, RecGet, RecRelay, RecOrphan, RecNoReceipt, RecUnverified, RecVerified,
             RecReceipt, RecFinish, RecReview
    <2>5. \A p \in Procs : PersistRead(p) \/ Crash(p) => db' = db BY DEF PersistRead, Crash
    <2>6. (\E k \in BrowserKinds : BrowserDispatch(k)) => db' = db BY DEF BrowserDispatch
    <2>7. (\E p \in Procs, k \in Kinds : CallReconcile(p, k)) => db' = db BY DEF CallReconcile
    <2>8. UNCHANGED vars => db' = db BY DEF vars
    <2>. QED BY <2>1, <2>2, <2>3, <2>4, <2>5, <2>6, <2>7, <2>8 DEF Next, StoreStep
  <1>. QED BY <1>1, <1>2, <1>3, <1>4, <1>5

\* The steps of the chain, and what they say of the transaction that ended the job.
LEMMA ChainEnds ==
  ASSUME Parameters, SdkInv, ApprovalInv, ChainStep
  PROVE  /\ frame' = frame /\ ops' = ops
         /\ chain'.job = "COMPLETED" => chain'.terminal \in {"settle", "public"}
         /\ ServerSettled(chain') => ServerSettled(chain) \/ ("settle" \in Kinds /\ tx["settle"] # "none")
         /\ chain.job \in ChainEnded => chain'.terminal = chain.terminal
         /\ "settle" \in Kinds => (tx["settle"] = "none" => tx'["settle"] = "none")
  <1>1. frame' = frame /\ ops' = ops
    BY DEF ChainStep, Mine, Drop, ReachExpiry, PublicTerminal, SellerSubmits
  <1>2. ChainOK(chain) /\ tx \in [Kinds -> TxStatus] BY DEF SdkInv, SdkTypes
  <1>3. chain.job = "COMPLETED" => chain.terminal \in {"settle", "public"} BY DEF ApprovalInv
  <1>4. "settle" \in Kinds => (tx["settle"] = "none" => tx'["settle"] = "none")
    BY <1>2 DEF ChainStep, Mine, Drop, ReachExpiry, PublicTerminal, SellerSubmits
  <1> DEFINE Goal == /\ chain'.job = "COMPLETED" => chain'.terminal \in {"settle", "public"}
                     /\ ServerSettled(chain') =>
                          ServerSettled(chain) \/ ("settle" \in Kinds /\ tx["settle"] # "none")
                     /\ chain.job \in ChainEnded => chain'.terminal = chain.terminal
  <1>5. Goal
    <2>1. CASE chain' = chain BY <1>3, <2>1
    <2>2. ASSUME NEW k \in Kinds, ChainAllows(k), chain' = ChainAfter(k),
                 k = "settle" => tx["settle"] # "none"
          PROVE  Goal
      <3>1. k \in {"create", "submit", "settle", "claim_refund"} BY DEF Parameters
      <3>2. chain.job \notin ChainEnded BY <2>2, <3>1 DEF ChainAllows, ChainEnded
      <3>3. CASE k \in {"create", "submit"}
        <4>1. chain'.job # "COMPLETED" /\ chain'.terminal = chain.terminal
          BY <1>2, <2>2, <3>3 DEF ChainAfter, ChainOK
        <4>. QED BY <3>2, <4>1 DEF ServerSettled
      <3>4. CASE k = "settle"
        <4>1. chain'.terminal = "settle" BY <1>2, <2>2, <3>4 DEF ChainAfter, ChainOK
        <4>. QED BY <2>2, <3>2, <3>4, <4>1
      <3>5. CASE k = "claim_refund"
        <4>1. chain'.job = "EXPIRED" /\ chain'.terminal = "claim_refund"
          BY <1>2, <2>2, <3>5 DEF ChainAfter, ChainOK
        <4>. QED BY <3>2, <4>1 DEF ServerSettled
      <3>. QED BY <3>1, <3>3, <3>4, <3>5
    <2>3. CASE ReachExpiry
      <3>1. chain'.job = chain.job /\ chain'.terminal = chain.terminal
        BY <1>2, <2>3 DEF ReachExpiry, ChainOK
      <3>. QED BY <1>3, <3>1 DEF ServerSettled
    <2>4. ASSUME NEW v \in PublicVerdicts, PublicTerminal(v) PROVE Goal
      <3>1. chain.job \notin ChainEnded /\ chain'.terminal = "public"
        BY <1>2, <2>4 DEF PublicTerminal, ChainOK, ChainEnded
      <3>. QED BY <3>1 DEF ServerSettled
    <2>5. CASE SellerSubmits
      <3>1. "submit" \in Kinds BY <2>5 DEF SellerSubmits, Kinds
      <3>. QED BY <2>2, <2>5, <3>1 DEF SellerSubmits
    <2>6. ASSUME NEW k \in Kinds, Mine(k) \/ Drop(k) PROVE Goal
      <3>1. chain' = chain \/ (ChainAllows(k) /\ chain' = ChainAfter(k) /\ tx[k] = "sent")
        BY <2>6 DEF Mine, Drop
      <3>. QED BY <2>1, <2>2, <3>1
    <2>. QED BY <2>3, <2>4, <2>5, <2>6 DEF ChainStep
  <1>. QED BY <1>1, <1>4, <1>5

\* A handler starts: what it is, and that a settlement starts only on an approval.
LEMMA CallFrame ==
  ASSUME Parameters, SdkInv, NEW p \in Procs,
         Call(p) \/ Crash(p) \/ ApproveWrite(p) \/ TerminalWrite(p) \/ \E k \in Kinds : CallReconcile(p, k)
  PROVE  /\ tx' = tx /\ chain' = chain
         /\ \A x \in Kinds : Present(ops'[x]) => Present(ops[x]) \/ x = "submit"
         /\ \A q \in Procs : q # p => frame'[q] = frame[q]
         /\ frame'[p].pc # "write"
         /\ frame'[p].pc = "public" => frame'[p].job = db.job
         /\ Settling(frame'[p]) => BuyerApproved(db) \/ ("settle" \in Kinds /\ Present(ops["settle"]))
  <1>1. tx' = tx /\ chain' = chain
    BY DEF Call, CallExecute, CallWorker, AttachExternalExecution, Refresh, ApproveRead, TerminalRead,
           Crash, ApproveWrite, TerminalWrite, CallReconcile
  <1>2. /\ ops \in [Kinds -> OperationRow] /\ frame \in [Procs -> FrameRecord \cup {Idle}]
        /\ ServiceKinds \subseteq Kinds /\ BrowserKinds \subseteq Kinds
        /\ ("submit" \in WorkerKinds \cup SellerKinds => "submit" \in Kinds)
    BY DEF SdkInv, SdkTypes, Kinds
  <1>3. \A x \in Kinds : Present(ops'[x]) => Present(ops[x]) \/ x = "submit"
    <2>1. CASE Refresh(p)
      <3>1. PICK r : ops' = [ops EXCEPT !["submit"] = r] BY <2>1 DEF Refresh
      <3>. QED BY <1>2, <3>1
    <2>2. ASSUME NEW k \in BrowserKinds, AttachExternalExecution(p, k)
          PROVE  \A x \in Kinds : Present(ops'[x]) => Present(ops[x]) \/ x = "submit"
      <3>1. Present(ops[k]) /\ \E r : ops' = [ops EXCEPT ![k] = r] BY <2>2 DEF AttachExternalExecution
      <3>. QED BY <1>2, <3>1
    <2>3. Refresh(p) \/ (\E k \in BrowserKinds : AttachExternalExecution(p, k)) \/ ops' = ops
      BY DEF Call, CallExecute, CallWorker, ApproveRead, TerminalRead, Crash, ApproveWrite,
             TerminalWrite, CallReconcile
    <2>. QED BY <2>1, <2>2, <2>3
  <1>4. \/ SetFrame(p, Idle)
        \/ \E k \in Kinds : SetFrame(p, Rec(k)) /\ (Present(ops[k]) \/ k = "submit")
        \/ \E k \in Kinds : SetFrame(p, Exec(k, "reserve")) /\ (k = "settle" => BuyerApproved(db))
        \/ SetFrame(p, [Exec("none", "approve") EXCEPT !.by = "buyer"])
        \/ SetFrame(p, [Exec("none", "public") EXCEPT !.by = "public", !.job = db.job])
    <2>1. CASE Call(p)
      <3>1. ASSUME NEW k \in ServiceKinds, CallExecute(p, k)
            PROVE  k \in Kinds /\ SetFrame(p, Exec(k, "reserve")) /\ (k = "settle" => BuyerApproved(db))
        BY <1>2, <3>1 DEF CallExecute, MayExecute
      <3>2. CallWorker(p) =>
              "submit" \in Kinds /\ (SetFrame(p, Rec("submit")) \/ SetFrame(p, Exec("submit", "reserve")))
        BY <1>2 DEF CallWorker
      <3>3. ASSUME NEW k \in BrowserKinds, AttachExternalExecution(p, k)
            PROVE  k \in Kinds /\ Present(ops[k]) /\ (SetFrame(p, Idle) \/ SetFrame(p, Rec(k)))
        BY <1>2, <3>3 DEF AttachExternalExecution
      <3>4. Refresh(p) => "submit" \in Kinds /\ SetFrame(p, Rec("submit"))
        BY <1>2 DEF Refresh
      <3>5. "submit" # "settle" OBVIOUS
      <3>. QED BY <2>1, <3>1, <3>2, <3>3, <3>4, <3>5 DEF Call, ApproveRead, TerminalRead
    <2>2. CASE Crash(p) \/ ApproveWrite(p) \/ TerminalWrite(p) BY <2>2 DEF Crash, ApproveWrite, TerminalWrite
    <2>3. CASE \E k \in Kinds : CallReconcile(p, k) BY <2>3 DEF CallReconcile
    <2>. QED BY <2>1, <2>2, <2>3
  <1>5. PICK w : SetFrame(p, w) /\
          \/ w = Idle
          \/ \E k \in Kinds : w = Rec(k) /\ (Present(ops[k]) \/ k = "submit")
          \/ \E k \in Kinds : w = Exec(k, "reserve") /\ (k = "settle" => BuyerApproved(db))
          \/ w = [Exec("none", "approve") EXCEPT !.by = "buyer"]
          \/ w = [Exec("none", "public") EXCEPT !.by = "public", !.job = db.job]
    BY <1>4
  <1>6. frame'[p] = w /\ \A q \in Procs : q # p => frame'[q] = frame[q] BY <1>2, <1>5 DEF SetFrame
  <1>7. /\ w.pc # "write"
        /\ w.pc = "public" => w.job = db.job
        /\ Settling(w) => BuyerApproved(db) \/ ("settle" \in Kinds /\ Present(ops["settle"]))
    <2>1. CASE w = Idle BY <2>1 DEF Idle, Settling
    <2>2. ASSUME NEW k \in Kinds, w = Rec(k), Present(ops[k]) \/ k = "submit"
          PROVE  w.pc = "get" /\ (Settling(w) => "settle" \in Kinds /\ Present(ops["settle"]))
      BY <2>2 DEF Rec, Exec, Settling
    <2>3. ASSUME NEW k \in Kinds, w = Exec(k, "reserve"), k = "settle" => BuyerApproved(db)
          PROVE  w.pc = "reserve" /\ (Settling(w) => BuyerApproved(db))
      BY <2>3 DEF Exec, Settling
    <2>4. CASE w = [Exec("none", "approve") EXCEPT !.by = "buyer"] BY <2>4 DEF Exec, Settling
    <2>5. CASE w = [Exec("none", "public") EXCEPT !.by = "public", !.job = db.job]
      BY <2>5 DEF Exec, Settling
    <2>. QED BY <1>5, <2>1, <2>2, <2>3, <2>4, <2>5
  <1>. QED BY <1>1, <1>3, <1>6, <1>7

\* A settlement begins only on an approval that is on record: the server and the browser
\* read it first, and whoever reports or reconciles finds the row of one that did.
LEMMA BeginsApproved ==
  ASSUME Parameters, SdkInv, ApprovalInv, [Next]_vars, SettlementBegun'
  PROVE  Approved(db.job)
  <1>0. /\ ops \in [Kinds -> OperationRow] /\ tx \in [Kinds -> TxStatus]
        /\ SettlementBegun => Approved(db.job)
        /\ BuyerApproved(db) => Approved(db.job)
    BY DEF SdkInv, SdkTypes, ApprovalInv, BuyerApproved, Approved
  <1>1. CASE ChainStep
    <2>1. SettlementBegun BY <1>0, <1>1, ChainEnds DEF SettlementBegun
    <2>. QED BY <1>0, <2>1
  <1>2. ASSUME NEW k \in BrowserKinds, BrowserDispatch(k) PROVE Approved(db.job)
    <2>1. CASE k = "settle"
      <3>1. BuyerApproved(db) BY <1>2, <2>1 DEF BrowserDispatch, MayExecute
      <3>. QED BY <1>0, <3>1
    <2>2. CASE k # "settle"
      <3>1. chain' = chain /\ frame' = frame BY <1>2 DEF BrowserDispatch
      <3>2. "settle" \in Kinds => ops'["settle"] = ops["settle"] /\ tx'["settle"] = tx["settle"]
        BY <1>0, <1>2, <2>2 DEF BrowserDispatch
      <3>3. SettlementBegun BY <3>1, <3>2 DEF SettlementBegun
      <3>. QED BY <1>0, <3>3
    <2>. QED BY <2>1, <2>2
  <1>3. ASSUME NEW p \in Procs, ExecStep(p) \/ RecStep(p) \/ PersistRead(p) \/ PersistWrite(p)
        PROVE  Approved(db.job)
    <2>1. CASE Kind(p) = "settle"
      <3>1. Settling(frame[p]) BY <1>3, <2>1, OwnStep DEF Settling, Kind
      <3>. QED BY <1>0, <3>1 DEF SettlementBegun
    <2>2. CASE Kind(p) # "settle"
      <3>1. chain' = chain BY <1>3, OwnStep
      <3>2. "settle" \in Kinds => ops'["settle"] = ops["settle"] /\ tx'["settle"] = tx["settle"]
        BY <1>3, <2>2, OwnStep
      <3>3. \A q \in Procs : Settling(frame'[q]) => Settling(frame[q])
        BY <1>3, <2>2, OwnStep DEF Onward, Settling, Kind
      <3>4. SettlementBegun BY <3>1, <3>2, <3>3 DEF SettlementBegun
      <3>. QED BY <1>0, <3>4
    <2>. QED BY <2>1, <2>2
  <1>4. ASSUME NEW p \in Procs,
               Call(p) \/ Crash(p) \/ ApproveWrite(p) \/ TerminalWrite(p) \/ \E k \in Kinds : CallReconcile(p, k)
        PROVE  Approved(db.job)
    <2>1. /\ tx' = tx /\ chain' = chain
          /\ \A x \in Kinds : Present(ops'[x]) => Present(ops[x]) \/ x = "submit"
          /\ \A q \in Procs : q # p => frame'[q] = frame[q]
          /\ Settling(frame'[p]) => BuyerApproved(db) \/ ("settle" \in Kinds /\ Present(ops["settle"]))
      BY <1>4, CallFrame
    <2>2. "settle" \in Kinds => (Present(ops'["settle"]) => Present(ops["settle"])) BY <2>1
    <2>3. SettlementBegun \/ BuyerApproved(db) BY <2>1, <2>2 DEF SettlementBegun
    <2>. QED BY <1>0, <2>3
  <1>5. CASE UNCHANGED vars
    <2>1. SettlementBegun BY <1>5 DEF SettlementBegun, vars
    <2>. QED BY <1>0, <2>1
  <1>. QED BY <1>1, <1>2, <1>3, <1>4, <1>5 DEF Next, StoreStep

\* What the handlers have read of the approval stays good.
LEMMA ReadsStay ==
  ASSUME Parameters, SdkInv, ApprovalInv, [Next]_vars
  PROVE  /\ chain'.job = "COMPLETED" => chain'.terminal \in {"settle", "public"}
         /\ \A p \in Procs : ReadApproved(frame'[p], chain')
  <1>0. /\ \A p \in Procs : ReadApproved(frame[p], chain)
        /\ SettlementBegun => Approved(db.job)
        /\ chain.job = "COMPLETED" => chain.terminal \in {"settle", "public"}
    BY DEF ApprovalInv
  <1>1. CASE ChainStep
    <2>1. ASSUME NEW p \in Procs PROVE ReadApproved(frame[p], chain')
      <3>1. frame[p].pc = "public" => chain.job \in ChainEnded BY DEF SdkInv, FrameOK
      <3>. QED BY <1>0, <1>1, <3>1, ChainEnds DEF ReadApproved, ServerSettled
    <2>. QED BY <1>1, <2>1, ChainEnds
  <1>2. ASSUME NEW k \in BrowserKinds, BrowserDispatch(k)
        PROVE  chain' = chain /\ \A p \in Procs : ReadApproved(frame'[p], chain')
    <2>1. chain' = chain /\ frame' = frame BY <1>2 DEF BrowserDispatch
    <2>. QED BY <1>0, <2>1
  <1>3. ASSUME NEW p \in Procs, ExecStep(p) \/ RecStep(p) \/ PersistRead(p) \/ PersistWrite(p)
        PROVE  chain' = chain /\ \A q \in Procs : ReadApproved(frame'[q], chain')
    <2>1. /\ frame[p].by \in {"exec", "rec"} /\ frame[p].pc # "idle" /\ chain' = chain
          /\ \A q \in Procs : q # p => frame'[q] = frame[q]
          /\ Onward(frame[p], frame'[p], db)
      BY <1>3, OwnStep
    <2>2. ReadApproved(frame'[p], chain)
      <3>1. Settling(frame'[p]) => Approved(db.job)
        BY <1>0, <2>1 DEF Onward, Settling, SettlementBegun
      <3>. QED BY <2>1, <3>1 DEF Onward, ReadApproved, Settling
    <2>3. \A q \in Procs : ReadApproved(frame'[q], chain) BY <1>0, <2>1, <2>2
    <2>. QED BY <2>1, <2>3
  <1>4. ASSUME NEW p \in Procs,
               Call(p) \/ Crash(p) \/ ApproveWrite(p) \/ TerminalWrite(p) \/ \E k \in Kinds : CallReconcile(p, k)
        PROVE  chain' = chain /\ \A q \in Procs : ReadApproved(frame'[q], chain')
    <2>1. /\ chain' = chain /\ \A q \in Procs : q # p => frame'[q] = frame[q]
          /\ frame'[p].pc # "write" /\ (frame'[p].pc = "public" => frame'[p].job = db.job)
      BY <1>4, CallFrame
    <2>2. ServerSettled(chain) => Approved(db.job) BY <1>0 DEF SettlementBegun
    <2>3. ReadApproved(frame'[p], chain) BY <2>1, <2>2 DEF ReadApproved
    <2>4. \A q \in Procs : ReadApproved(frame'[q], chain) BY <1>0, <2>1, <2>3
    <2>. QED BY <2>1, <2>4
  <1>5. CASE UNCHANGED vars BY <1>0, <1>5 DEF vars
  <1>6. \/ ChainStep
        \/ chain' = chain /\ \A q \in Procs : ReadApproved(frame'[q], chain')
    BY <1>2, <1>3, <1>4, <1>5, <1>0 DEF Next, StoreStep, vars
  <1>7. CASE ChainStep
    <2>1. frame' = frame /\ (chain'.job = "COMPLETED" => chain'.terminal \in {"settle", "public"})
      BY <1>7, ChainEnds
    <2>. QED BY <1>1, <1>7, <2>1
  <1>. QED BY <1>0, <1>6, <1>7

LEMMA ApprovalInit == ASSUME Parameters, Init PROVE ApprovalInv
  <1>1. ValidRecord(db.job)
    <2>1. ~NoJob.approval /\ ~HiredJob("hire0").approval BY DEF NoJob, HiredJob
    <2>2. db.job \in {NoJob, HiredJob("hire0")} BY DEF Init
    <2>. QED BY <2>1, <2>2 DEF ValidRecord
  <1>2. chain.terminal = NoTx /\ chain.job # "COMPLETED" BY DEF Init
  <1>3. ~SettlementBegun
    <2>1. "settle" \in Kinds => ~Present(ops["settle"]) /\ tx["settle"] = "none"
      BY InitialRecords DEF Init
    <2>. QED BY <1>2, <2>1 DEF Init, SettlementBegun, ServerSettled, Settling, Idle
  <1>4. \A p \in Procs : ReadApproved(frame[p], chain) BY DEF Init, ReadApproved, Idle
  <1>. QED BY <1>1, <1>2, <1>3, <1>4 DEF ApprovalInv

LEMMA ApprovalSteps ==
  ASSUME Parameters, SdkInv, ApprovalInv, [Next]_vars
  PROVE  ApprovalInv' /\ [ApprovalKept]_db
  <1>1. ValidRecord(db'.job) /\ (Approved(db.job) => Approved(db'.job)) BY ApprovalStays
  <1>2. SettlementBegun' => Approved(db'.job) BY <1>1, BeginsApproved
  <1>3. ApprovalInv' BY <1>1, <1>2, ReadsStay DEF ApprovalInv
  <1>4. ApprovalKept BY <1>1 DEF ApprovalKept, Approved, Gone
  <1>. QED BY <1>3, <1>4

\* The buyer's approval, once on record, is removed only by the job's refund or by the
\* evidence of a settlement that somebody else made: approveResult, the projections and
\* reconcileTerminal each write from a read of their own, and a settlement of the server or
\* of the browser begins only after the approval (assertBuyerApproval in service.ts).
THEOREM ApprovalsSurvive == ASSUME Parameters PROVE Spec => ApprovalSurvives
  <1>1. Init => ApprovalInv BY ApprovalInit
  <1>2. SdkInv /\ ApprovalInv /\ [Next]_vars => ApprovalInv' /\ [ApprovalKept]_db BY ApprovalSteps
  <1>3. Spec => []SdkInv BY SdkInvariant
  <1>. QED BY <1>1, <1>2, <1>3, PTL DEF Spec, ApprovalSurvives

-----------------------------------------------------------------------------
(***************************************************************************)
(* An external seller's delivery: ExternalDelivery with any number of      *)
(* requests, windows of any size and any bound on the chain and its        *)
(* reorganisations.                                                        *)
(***************************************************************************)
CONSTANTS Window, MaxWindows, MaxHead, MaxReorgs
VARIABLES job, wallet, head, final, proc, reorgs

Delivery == INSTANCE ExternalDelivery

DeliveryPcs == {"idle", "claim", "post", "notified", "unknown", "cursor", "scan", "record"}

DeliveryRow == [status : {"claimed", "notified", "unknown", "result_verified"}, cursor : Nat]

DeliveryParameters == Window \in Nat /\ MaxWindows \in Nat /\ MaxHead \in Nat /\ None \notin DeliveryRow

DeliveryProc == [pc : DeliveryPcs, from : Nat, to : Nat, left : Nat]

DeliveryTypes ==
  /\ head \in Nat /\ final \in Nat /\ block \in Nat /\ posts \in Nat
  /\ delivery = None \/ delivery \in DeliveryRow
  /\ proc \in [Procs -> DeliveryProc]

\* What is final stays; the cursor stands on a final block before the submission.
ChainInv ==
  /\ 1 <= final /\ final <= head
  /\ block > 0 => 1 < block
  /\ delivery # None => delivery.cursor <= final /\ (block > 0 => delivery.cursor < block)

\* A request past the claim finds a row; one that posts is the one that made it.
PostInv ==
  /\ \A p \in Procs : proc[p].pc \notin {"idle", "claim"} => delivery # None
  /\ \A p \in Procs : proc[p].pc = "post" => posts = 0
  /\ \A p, q \in Procs : proc[p].pc = "post" /\ proc[q].pc = "post" => p = q
  /\ delivery = None => posts = 0
  /\ posts <= 1

\* A scan runs over final blocks and has not gone past the submission.
ScanInv ==
  \A p \in Procs : proc[p].pc = "scan" =>
    /\ 1 <= proc[p].from /\ proc[p].from <= proc[p].to /\ proc[p].to <= final
    /\ block > 0 => proc[p].from <= block

DeliveryInv == DeliveryTypes /\ ChainInv /\ PostInv /\ ScanInv

LEMMA DeliveryInit == DeliveryParameters /\ Delivery!Init => DeliveryInv
  <1> SUFFICES ASSUME Delivery!Init PROVE DeliveryInv OBVIOUS
  <1>1. proc = [p \in Procs |-> Delivery!Idle] /\ Delivery!Idle \in DeliveryProc
    BY DEF Delivery!Init, Delivery!Idle, DeliveryPcs, DeliveryProc
  <1>2. \A p \in Procs : proc[p].pc = "idle" BY <1>1 DEF Delivery!Idle
  <1>. QED BY <1>1, <1>2 DEF Delivery!Init, Delivery!FundingBlock, DeliveryInv, DeliveryTypes, ChainInv, PostInv, ScanInv

\* The environment moves the chain; the submission stays above the final block.
LEMMA DeliveryWorld ==
  ASSUME DeliveryInv, UNCHANGED <<delivery, posts, proc>>,
         head' \in Nat, final' \in Nat, block' \in Nat, final <= final', final' <= head',
         block' = block \/ final' < block'
  PROVE  DeliveryInv'
  <1>1. DeliveryTypes' BY DEF DeliveryInv, DeliveryTypes
  <1>2. PostInv' BY DEF DeliveryInv, PostInv
  <1>3. ChainInv'
    <2>1. delivery # None => delivery.cursor \in Nat BY DEF DeliveryInv, DeliveryTypes, DeliveryRow
    <2>. QED BY <2>1 DEF DeliveryInv, DeliveryTypes, ChainInv
  <1>4. ScanInv'
    <2> SUFFICES ASSUME NEW p \in Procs, proc[p].pc = "scan"
                 PROVE /\ 1 <= proc[p].from /\ proc[p].from <= proc[p].to /\ proc[p].to <= final'
                       /\ block' > 0 => proc[p].from <= block'
      BY DEF ScanInv
    <2>1. proc[p].from \in Nat /\ proc[p].to \in Nat BY DEF DeliveryInv, DeliveryTypes, DeliveryProc
    <2>2. /\ 1 <= proc[p].from /\ proc[p].from <= proc[p].to /\ proc[p].to <= final
          /\ block > 0 => proc[p].from <= block
      BY DEF DeliveryInv, ScanInv
    <2>. QED BY <2>1, <2>2 DEF DeliveryInv, DeliveryTypes
  <1>. QED BY <1>1, <1>2, <1>3, <1>4 DEF DeliveryInv

\* What a request may write: a row, and where it goes on.
DeliveryWrites(p, st) ==
  /\ UNCHANGED <<head, final, block>>
  /\ proc' = [proc EXCEPT ![p] = st]
  /\ delivery' = delivery \/ delivery' \in DeliveryRow
  /\ delivery' # None => delivery'.cursor <= final /\ (block > 0 => delivery'.cursor < block)
  /\ delivery # None => delivery' # None
  /\ st.pc \notin {"idle", "claim"} => delivery' # None
  /\ st.pc = "post" => delivery = None /\ posts' = posts
  /\ posts' = posts \/ (proc[p].pc = "post" /\ posts' = posts + 1)
  /\ st.pc = "scan" => /\ 1 <= st.from /\ st.from <= st.to /\ st.to <= final
                       /\ block > 0 => st.from <= block

LEMMA DeliveryRequest ==
  ASSUME DeliveryInv, NEW p \in Procs, NEW st \in DeliveryProc, DeliveryWrites(p, st)
  PROVE  DeliveryInv'
  <1>0. posts \in Nat /\ head \in Nat /\ final \in Nat /\ block \in Nat BY DEF DeliveryWrites, DeliveryInv, DeliveryTypes
  <1>1. DeliveryTypes' BY <1>0 DEF DeliveryWrites, DeliveryInv, DeliveryTypes
  <1>2. \A q \in Procs : proc'[q] = IF q = p THEN st ELSE proc[q] BY DEF DeliveryWrites, DeliveryInv, DeliveryTypes
  <1>3. ChainInv' BY <1>0 DEF DeliveryWrites, DeliveryInv, ChainInv
  <1>4. ScanInv' BY <1>2 DEF DeliveryWrites, DeliveryInv, ScanInv
  <1>5. PostInv'
    <2>1. \A q \in Procs : proc'[q].pc \notin {"idle", "claim"} => delivery' # None BY <1>2 DEF DeliveryWrites, DeliveryInv, PostInv
    <2>2. \A q, r \in Procs : proc'[q].pc = "post" /\ proc'[r].pc = "post" => q = r
      BY <1>2 DEF DeliveryWrites, DeliveryInv, PostInv
    <2>3. \A q \in Procs : proc'[q].pc = "post" => posts' = 0
      BY <1>0, <1>2 DEF DeliveryWrites, DeliveryInv, PostInv
    <2>4. posts' <= 1 /\ (delivery' = None => posts' = 0) BY <1>0 DEF DeliveryWrites, DeliveryInv, PostInv
    <2>. QED BY <2>1, <2>2, <2>3, <2>4 DEF PostInv
  <1>. QED BY <1>1, <1>3, <1>4, <1>5 DEF DeliveryInv

LEMMA DeliveryRows ==
  ASSUME DeliveryParameters, DeliveryInv
  PROVE  /\ None \notin DeliveryRow
         /\ delivery # None => delivery \in DeliveryRow /\ DOMAIN delivery = {"status", "cursor"}
         /\ delivery # None => \A s \in {"claimed", "notified", "unknown", "result_verified"} :
                                  [delivery EXCEPT !.status = s] \in DeliveryRow
         /\ delivery # None => \A n \in Nat : [delivery EXCEPT !.cursor = n] \in DeliveryRow
         /\ [status |-> "claimed", cursor |-> 0] \in DeliveryRow
  <1>1. None \notin DeliveryRow BY DEF DeliveryParameters
  <1>2. delivery # None => delivery \in DeliveryRow BY DEF DeliveryInv, DeliveryTypes
  <1>3. ASSUME delivery # None, NEW s \in {"claimed", "notified", "unknown", "result_verified"}
        PROVE  [delivery EXCEPT !.status = s] \in DeliveryRow
    BY <1>2, <1>3 DEF DeliveryRow
  <1>4. ASSUME delivery # None, NEW n \in Nat PROVE [delivery EXCEPT !.cursor = n] \in DeliveryRow
    BY <1>2, <1>4 DEF DeliveryRow
  <1>5. [status |-> "claimed", cursor |-> 0] \in DeliveryRow BY DEF DeliveryRow
  <1>6. delivery # None => DOMAIN delivery = {"status", "cursor"} BY <1>2 DEF DeliveryRow
  <1>. QED BY <1>1, <1>2, <1>3, <1>4, <1>5, <1>6

LEMMA DeliverySetPc ==
  ASSUME DeliveryInv, NEW p \in Procs, NEW pc \in DeliveryPcs, Delivery!SetProc(p, pc)
  PROVE  \E st \in DeliveryProc :
           st.pc = pc /\ proc' = [proc EXCEPT ![p] = st]
  <1>1. PICK st : st = [proc[p] EXCEPT !.pc = pc] OBVIOUS
  <1>2. st \in DeliveryProc /\ st.pc = pc
    BY <1>1 DEF DeliveryInv, DeliveryTypes, DeliveryProc
  <1>3. proc' = [proc EXCEPT ![p] = st] BY <1>1 DEF Delivery!SetProc
  <1>. QED BY <1>2, <1>3

\* notifyExternalSellerOnce.
LEMMA DeliveryNotify ==
  ASSUME DeliveryParameters, DeliveryInv, NEW p \in Procs, NEW d,
         \/ Delivery!Notify(p, d) \/ Delivery!Claim(p) \/ Delivery!Post(p, d)
         \/ Delivery!FinishNotified(p) \/ Delivery!FinishUnknown(p)
  PROVE  DeliveryInv'
  <1>0. delivery # None => delivery.cursor <= final /\ (block > 0 => delivery.cursor < block)
    BY DEF DeliveryInv, ChainInv
  <1>1. CASE Delivery!Notify(p, d)
    <2>1. Delivery!SetProc(p, "claim") /\ "claim" \in DeliveryPcs BY <1>1 DEF Delivery!Notify, DeliveryPcs
    <2>2. PICK st \in DeliveryProc : st.pc = "claim" /\ proc' = [proc EXCEPT ![p] = st]
      BY <2>1, DeliverySetPc
    <2>3. DeliveryWrites(p, st) BY <1>0, <1>1, <2>2 DEF DeliveryWrites, Delivery!Notify
    <2>. QED BY <2>2, <2>3, DeliveryRequest
  <1>2. CASE Delivery!Claim(p)
    <2>1. PICK pc : pc = (IF Delivery!ClaimWon THEN "post" ELSE "idle") OBVIOUS
    <2>2. Delivery!SetProc(p, pc) /\ pc \in DeliveryPcs BY <1>2, <2>1 DEF Delivery!Claim, DeliveryPcs
    <2>3. PICK st \in DeliveryProc : st.pc = pc /\ proc' = [proc EXCEPT ![p] = st]
      BY <2>2, DeliverySetPc
    <2>4. /\ delivery' \in DeliveryRow /\ (delivery # None => delivery' = delivery)
          /\ delivery = None => delivery'.cursor = 0
      BY <1>2, DeliveryRows DEF Delivery!Claim, Delivery!Claimed
    <2>5. delivery' # None BY <2>4, DeliveryRows
    <2>6. 0 <= final /\ (block > 0 => 0 < block) BY DEF DeliveryInv, ChainInv, DeliveryTypes
    <2>7. delivery'.cursor <= final /\ (block > 0 => delivery'.cursor < block) BY <1>0, <2>4, <2>6
    <2>8. DeliveryWrites(p, st) BY <1>2, <2>1, <2>3, <2>4, <2>5, <2>7 DEF DeliveryWrites, Delivery!Claim, Delivery!ClaimWon
    <2>. QED BY <2>3, <2>8, DeliveryRequest
  <1>3. CASE Delivery!Post(p, d)
    <2>1. \E pc \in {"notified", "unknown"} : Delivery!SetProc(p, pc) BY <1>3 DEF Delivery!Post
    <2>2. PICK pc \in {"notified", "unknown"} : Delivery!SetProc(p, pc) BY <2>1
    <2>3. PICK st \in DeliveryProc : st.pc = pc /\ proc' = [proc EXCEPT ![p] = st]
      BY <2>2, DeliverySetPc DEF DeliveryPcs
    <2>4. proc[p].pc = "post" /\ (posts' = posts \/ posts' = posts + 1) /\ UNCHANGED <<head, final, block, delivery>>
      BY <1>3 DEF Delivery!Post, Delivery!At
    <2>5. delivery # None BY <2>4 DEF DeliveryInv, PostInv
    <2>6. DeliveryWrites(p, st) BY <1>0, <2>2, <2>3, <2>4, <2>5 DEF DeliveryWrites
    <2>. QED BY <2>3, <2>6, DeliveryRequest
  <1>4. CASE Delivery!FinishNotified(p) \/ Delivery!FinishUnknown(p)
    <2>1. PICK s \in {"notified", "unknown"} : proc[p].pc = s /\ delivery' = Delivery!Finished(s)
      BY <1>4 DEF Delivery!FinishNotified, Delivery!FinishUnknown, Delivery!At
    <2>2. PICK pc \in {"idle", "unknown"} : Delivery!SetProc(p, pc)
      BY <1>4 DEF Delivery!FinishNotified, Delivery!FinishUnknown
    <2>3. PICK st \in DeliveryProc : st.pc = pc /\ proc' = [proc EXCEPT ![p] = st]
      BY <2>2, DeliverySetPc DEF DeliveryPcs
    <2>4. delivery # None BY <2>1 DEF DeliveryInv, PostInv
    <2>5. delivery' \in DeliveryRow /\ delivery'.cursor = delivery.cursor
      BY <2>1, <2>4, DeliveryRows DEF Delivery!Finished
    <2>6. delivery' # None BY <2>5, DeliveryRows
    <2>7. UNCHANGED <<head, final, block, posts>> BY <1>4 DEF Delivery!FinishNotified, Delivery!FinishUnknown
    <2>8. delivery'.cursor <= final /\ (block > 0 => delivery'.cursor < block) BY <1>0, <2>4, <2>5
    <2>9. DeliveryWrites(p, st) BY <2>2, <2>3, <2>5, <2>6, <2>7, <2>8 DEF DeliveryWrites
    <2>. QED BY <2>3, <2>9, DeliveryRequest
  <1>. QED BY <1>1, <1>2, <1>3, <1>4

\* refresh up to its search.
LEMMA DeliveryRefresh ==
  ASSUME DeliveryParameters, DeliveryInv, NEW p \in Procs, NEW d, NEW supplied,
         Delivery!Refresh(p, supplied, d) \/ Delivery!ReadCursor(p) \/ Delivery!Record(p, d) \/ Delivery!Abort(p)
  PROVE  DeliveryInv'
  <1>0. delivery # None => delivery.cursor <= final /\ (block > 0 => delivery.cursor < block)
    BY DEF DeliveryInv, ChainInv
  <1>00. Delivery!Idle \in DeliveryProc /\ Delivery!Idle.pc = "idle"
    BY DEF Delivery!Idle, DeliveryPcs, DeliveryProc
  <1>1. CASE Delivery!Refresh(p, supplied, d)
    <2>1. PICK pc \in {"record", "cursor"} : Delivery!SetProc(p, pc) BY <1>1 DEF Delivery!Refresh
    <2>3. PICK st \in DeliveryProc : st.pc = pc /\ proc' = [proc EXCEPT ![p] = st]
      BY <2>1, DeliverySetPc DEF DeliveryPcs
    <2>4. /\ delivery' \in DeliveryRow /\ (delivery # None => delivery' = delivery)
          /\ delivery = None => delivery'.cursor = 0
      BY <1>1, DeliveryRows DEF Delivery!Refresh, Delivery!Claimed
    <2>5. delivery' # None BY <2>4, DeliveryRows
    <2>6. 0 <= final /\ (block > 0 => 0 < block) BY DEF DeliveryInv, ChainInv, DeliveryTypes
    <2>7. delivery'.cursor <= final /\ (block > 0 => delivery'.cursor < block) BY <1>0, <2>4, <2>6
    <2>8. UNCHANGED <<head, final, block, posts>> BY <1>1 DEF Delivery!Refresh
    <2>9. DeliveryWrites(p, st) BY <2>1, <2>3, <2>4, <2>5, <2>7, <2>8 DEF DeliveryWrites
    <2>. QED BY <2>3, <2>9, DeliveryRequest
  <1>2. CASE Delivery!ReadCursor(p)
    <2>0. proc[p].pc = "cursor" /\ UNCHANGED <<head, final, block, posts, delivery>>
      BY <1>2 DEF Delivery!ReadCursor, Delivery!At
    <2>1. delivery # None BY <2>0 DEF DeliveryInv, PostInv
    <2>2. PICK from : from = IF delivery.cursor = 0 THEN 1 ELSE delivery.cursor + 1 OBVIOUS
    <2>3. delivery.cursor \in Nat BY <2>1, DeliveryRows DEF DeliveryRow
    <2>4. from \in Nat /\ 1 <= from /\ (block > 0 => from <= block)
      BY <1>0, <2>1, <2>2, <2>3 DEF DeliveryInv, DeliveryTypes, ChainInv
    <2>5. PICK st : /\ st = (IF from <= final THEN [pc |-> "scan", from |-> from, to |-> final, left |-> MaxWindows]
                                              ELSE Delivery!Idle)
                    /\ proc' = [proc EXCEPT ![p] = st]
      BY <1>2, <2>2 DEF Delivery!ReadCursor, Delivery!SearchTo, Delivery!FundingBlock
    <2>6. final \in Nat BY DEF DeliveryInv, DeliveryTypes
    <2>7. /\ st \in DeliveryProc /\ st.pc \in {"scan", "idle"}
          /\ st.pc = "scan" => st.from = from /\ st.to = final /\ from <= final
      BY <1>00, <2>4, <2>5, <2>6 DEF DeliveryPcs, DeliveryProc, DeliveryParameters
    <2>8. st.pc = "scan" => /\ 1 <= st.from /\ st.from <= st.to /\ st.to <= final
                            /\ block > 0 => st.from <= block
      BY <2>4, <2>6, <2>7
    <2>9. DeliveryWrites(p, st) BY <1>0, <2>0, <2>1, <2>5, <2>7, <2>8 DEF DeliveryWrites
    <2>. QED BY <2>7, <2>9, DeliveryRequest
  <1>3. CASE Delivery!Record(p, d)
    <2>0. /\ proc[p].pc = "record" /\ UNCHANGED <<head, final, block, posts>>
          /\ proc' = [proc EXCEPT ![p] = Delivery!Idle]
          /\ delivery' = delivery \/ delivery' = [delivery EXCEPT !.status = "result_verified"]
      BY <1>3 DEF Delivery!Record, Delivery!At
    <2>1. delivery # None BY <2>0 DEF DeliveryInv, PostInv
    <2>2. delivery' \in DeliveryRow /\ delivery'.cursor = delivery.cursor BY <2>0, <2>1, DeliveryRows
    <2>3. delivery' # None BY <2>2, DeliveryRows
    <2>4. delivery'.cursor <= final /\ (block > 0 => delivery'.cursor < block) BY <1>0, <2>1, <2>2
    <2>5. DeliveryWrites(p, Delivery!Idle) BY <1>00, <2>0, <2>2, <2>3, <2>4 DEF DeliveryWrites
    <2>. QED BY <1>00, <2>5, DeliveryRequest
  <1>4. CASE Delivery!Abort(p)
    <2>1. DeliveryWrites(p, Delivery!Idle) BY <1>0, <1>00, <1>4 DEF DeliveryWrites, Delivery!Abort
    <2>. QED BY <1>00, <2>1, DeliveryRequest
  <1>. QED BY <1>1, <1>2, <1>3, <1>4

\* One window of the search.
LEMMA DeliveryScan ==
  ASSUME DeliveryParameters, DeliveryInv, NEW p \in Procs, Delivery!Scan(p)
  PROVE  DeliveryInv'
  <1>0. /\ proc[p].pc = "scan" /\ UNCHANGED <<head, final, block, posts>>
    BY DEF Delivery!Scan, Delivery!At
  <1>1. delivery # None BY <1>0 DEF DeliveryInv, PostInv
  <1>2. /\ proc[p].from \in Nat /\ proc[p].to \in Nat /\ proc[p].left \in Nat /\ block \in Nat /\ final \in Nat
        /\ proc[p] \in DeliveryProc
    BY DEF DeliveryInv, DeliveryTypes, DeliveryProc
  <1>3. /\ 1 <= proc[p].from /\ proc[p].from <= proc[p].to /\ proc[p].to <= final
        /\ block > 0 => proc[p].from <= block
    BY <1>0 DEF DeliveryInv, ScanInv
  <1>4. PICK last : last = Delivery!WindowEnd(p) OBVIOUS
  <1>5. last \in Nat /\ last <= proc[p].to /\ proc[p].from <= last + 1
    BY <1>2, <1>3, <1>4 DEF Delivery!WindowEnd, DeliveryParameters
  <1>6. delivery.cursor <= final /\ (block > 0 => delivery.cursor < block)
    BY <1>1 DEF DeliveryInv, ChainInv
  <1>7. Delivery!Idle \in DeliveryProc /\ Delivery!Idle.pc = "idle"
    BY DEF Delivery!Idle, DeliveryPcs, DeliveryProc
  <1>8. CASE proc' = [proc EXCEPT ![p] = Delivery!Idle] /\ delivery' = delivery
    <2>1. DeliveryWrites(p, Delivery!Idle) BY <1>0, <1>1, <1>6, <1>7, <1>8 DEF DeliveryWrites
    <2>. QED BY <1>7, <2>1, DeliveryRequest
  <1>9. CASE Delivery!SetProc(p, "record") /\ delivery' = delivery
    <2>1. PICK st \in DeliveryProc : st.pc = "record" /\ proc' = [proc EXCEPT ![p] = st]
      BY <1>9, DeliverySetPc DEF DeliveryPcs
    <2>2. DeliveryWrites(p, st) BY <1>0, <1>1, <1>6, <1>9, <2>1 DEF DeliveryWrites
    <2>. QED BY <2>1, <2>2, DeliveryRequest
  <1>10. CASE /\ block \notin proc[p].from .. last
              /\ delivery' = [delivery EXCEPT !.cursor = last]
              /\ proc' = [proc EXCEPT ![p] =
                            IF last < proc[p].to /\ proc[p].left > 1
                            THEN [pc |-> "scan", from |-> last + 1, to |-> proc[p].to, left |-> proc[p].left - 1]
                            ELSE Delivery!Idle]
    <2>1. delivery' \in DeliveryRow /\ delivery'.cursor = last BY <1>1, <1>5, <1>10, DeliveryRows
    <2>2. delivery' # None BY <2>1, DeliveryRows
    <2>3. block > 0 => last + 1 <= block BY <1>2, <1>3, <1>5, <1>10
    <2>4. PICK st : /\ st = (IF last < proc[p].to /\ proc[p].left > 1
                             THEN [pc |-> "scan", from |-> last + 1, to |-> proc[p].to, left |-> proc[p].left - 1]
                             ELSE Delivery!Idle)
                    /\ proc' = [proc EXCEPT ![p] = st]
      BY <1>10
    <2>5. last + 1 \in Nat /\ (proc[p].left > 1 => proc[p].left - 1 \in Nat) BY <1>2, <1>5
    <2>6. /\ st \in DeliveryProc /\ st.pc \in {"scan", "idle"}
          /\ st.pc = "scan" => st.from = last + 1 /\ st.to = proc[p].to /\ last < proc[p].to
      BY <1>0, <1>2, <1>7, <2>4, <2>5 DEF DeliveryProc, DeliveryPcs
    <2>7. st.pc = "scan" => /\ 1 <= st.from /\ st.from <= st.to /\ st.to <= final
                            /\ block > 0 => st.from <= block
      BY <1>2, <1>3, <1>5, <2>3, <2>6
    <2>8. delivery'.cursor <= final /\ (block > 0 => delivery'.cursor < block) BY <1>2, <1>3, <1>5, <2>1, <2>3
    <2>9. DeliveryWrites(p, st) BY <1>0, <2>1, <2>2, <2>4, <2>6, <2>7, <2>8 DEF DeliveryWrites
    <2>. QED BY <2>6, <2>9, DeliveryRequest
  <1>. QED BY <1>4, <1>8, <1>9, <1>10 DEF Delivery!Scan

LEMMA DeliveryStep ==
  ASSUME DeliveryParameters, DeliveryInv, [Delivery!Next]_(Delivery!vars)
  PROVE  DeliveryInv'
  <1>0. /\ head \in Nat /\ final \in Nat /\ block \in Nat /\ final <= head /\ MaxHead \in Nat
        /\ final <= final /\ (block > 0 => 1 < block)
    BY DEF DeliveryInv, DeliveryTypes, ChainInv, DeliveryParameters
  <1>1. CASE UNCHANGED Delivery!vars
    BY <1>0, <1>1, DeliveryWorld DEF Delivery!vars
  <1>2. CASE \E d \in Delivery!SellerDefects : Delivery!Negotiate(d) \/ Delivery!HireOffer(d)
    BY <1>0, <1>2, DeliveryWorld DEF Delivery!Negotiate, Delivery!HireOffer
  <1>3. CASE Delivery!Settles \/ Delivery!RotateWallet
    BY <1>0, <1>3, DeliveryWorld DEF Delivery!Settles, Delivery!RotateWallet
  <1>4. CASE Delivery!SellerSubmits
    <2>1. head + 1 \in Nat /\ final <= head + 1 /\ final < head + 1 BY <1>0
    <2>. QED BY <1>0, <1>4, <2>1, DeliveryWorld DEF Delivery!SellerSubmits
  <1>5. CASE Delivery!Advance
    <2>1. /\ head' \in Nat /\ final' \in Nat /\ final <= final' /\ final' <= head'
          /\ UNCHANGED <<block, delivery, posts, proc>>
      BY <1>0, <1>5 DEF Delivery!Advance
    <2>. QED BY <1>0, <2>1, DeliveryWorld
  <1>6. CASE Delivery!Reorg
    <2>1. PICK b \in final + 1 .. MaxHead : block' = b /\ head' = IF b > head THEN b ELSE head
      BY <1>6 DEF Delivery!Reorg
    <2>2. b \in Nat /\ final < b BY <1>0, <2>1
    <2>3. /\ head' \in Nat /\ block' \in Nat /\ final < block' /\ final <= head' /\ UNCHANGED <<final, delivery, posts, proc>>
      BY <1>0, <1>6, <2>1, <2>2 DEF Delivery!Reorg
    <2>. QED BY <1>0, <2>3, DeliveryWorld
  <1>7. CASE \E p \in Procs : Delivery!RequestStep(p)
    <2>1. PICK p \in Procs : Delivery!RequestStep(p) BY <1>7
    <2>. QED BY <2>1, DeliveryNotify, DeliveryRefresh, DeliveryScan DEF Delivery!RequestStep
  <1>. QED BY <1>1, <1>2, <1>3, <1>4, <1>5, <1>6, <1>7 DEF Delivery!Next

THEOREM DeliveryInvariant == ASSUME DeliveryParameters PROVE Delivery!Spec => []DeliveryInv
  <1>1. DeliveryInv /\ [Delivery!Next]_(Delivery!vars) => DeliveryInv' BY DeliveryStep
  <1>. QED BY <1>1, DeliveryInit, PTL DEF Delivery!Spec

\* However requests overlap, lose their answers and stop, the seller is notified once
\* (notifyExternalSellerOnce of external-delivery.ts).
THEOREM SellerNotifiedOnce == ASSUME DeliveryParameters PROVE Delivery!Spec => []OnePostPerJob
  <1>1. DeliveryInv => OnePostPerJob BY DEF DeliveryInv, PostInv, OnePostPerJob
  <1>. QED BY <1>1, DeliveryInvariant, PTL

\* Whatever windows fail, overlap or are cut short, and wherever the submission is mined
\* again, the stored cursor stands before it (refresh of external-seller-lifecycle.ts).
THEOREM SearchMissesNothing == ASSUME DeliveryParameters PROVE Delivery!Spec => []CursorMissesNothing
  <1>1. DeliveryInv => CursorMissesNothing BY DEF DeliveryInv, ChainInv, CursorMissesNothing
  <1>. QED BY <1>1, DeliveryInvariant, PTL

-----------------------------------------------------------------------------
(***************************************************************************)
(* The process-local repository of one job (JobLifecycle).                 *)
(***************************************************************************)
KeptMetadata ==
  [provider : {None, "provider"}, budget : Lifecycle!Budgets \cup {None}, deliverable : {None, "result"}]

KeptRequests ==
  [action : Lifecycle!ActionTypes \cup {"create"}, by : Lifecycle!Actors, meta : KeptMetadata]

KeptJobs ==
  [state : Lifecycle!States, provider : {None, "provider"}, budget : Lifecycle!Budgets \cup {None},
   deliverable : {None, "result"}, updated : Nat]

\* No value stands for the absence of another.
LifecycleParameters == None \notin KeptRequests /\ None \notin KeptJobs

\* The job a request makes of job j.
Made(r, j, e) ==
  IF r.action = "create"
  THEN [state |-> "open", provider |-> r.meta.provider, budget |-> r.meta.budget, deliverable |-> None, updated |-> e.at]
  ELSE Lifecycle!NextJob(j, r.action, e.next, r.meta, e.at)

\* A transaction that waits: its job is what its request makes of the job it expects.
Transactions(T) ==
  {t \in T :
     /\ t.key \in Keys /\ t.digest \in KeptRequests /\ t.job \in KeptJobs
     /\ t.event.key = t.key
     /\ t.job = Made(t.digest, t.expected, t.event)
     /\ t.job.state = t.event.next
     /\ t.expected # None => t.event.prev = t.expected.state}

\* g lists the jobs that events E make, one after the other, of no job.
Run(g, E, A) ==
  g = [n \in 0..Len(E) |-> IF n = 0 THEN None ELSE Made(A[E[n].key], g[n - 1], E[n])]

\* The events are in a row, and each is of an action whose key is used.
Chained(E, A) ==
  /\ \A i \in 1..Len(E) : E[i].key \in Keys /\ A[E[i].key] # None
  /\ \A i \in 2..Len(E) : E[i].prev = E[i - 1].next

KeptTypes ==
  /\ clock \in Nat
  /\ actions \in [Keys -> KeptRequests \cup {None}]
  /\ stored \in KeptJobs \cup {None}
  /\ \E T : waiting \in Seq(Transactions(T))
  /\ \E T : events \in Seq(T)

EventsInv ==
  /\ Chained(events, actions)
  /\ stored = None <=> Len(events) = 0
  /\ stored # None => stored.state = events[Len(events)].next
  /\ \E g : Run(g, events, actions) /\ g[Len(events)] = stored

LifecycleInv == KeptTypes /\ EventsInv

LEMMA LeastNat ==
  ASSUME NEW T, T \subseteq Nat, T # {} PROVE \E m \in T : \A n \in T : m <= n
  <1>1. PICK m \in T : \A n \in T : ~(<<n, m>> \in OpToRel(<, Nat)) BY NatLessThanWellFounded, WFMin
  <1>2. \A n \in T : ~(n < m) BY <1>1 DEF OpToRel
  <1>. QED BY <1>2

\* What a list of events makes is determined.
LEMMA RunsAgree ==
  ASSUME NEW E, NEW A, Len(E) \in Nat, NEW g, NEW h, Run(g, E, A), Run(h, E, A)
  PROVE  \A n \in 0..Len(E) : g[n] = h[n]
  <1> DEFINE T == {n \in 0..Len(E) : g[n] # h[n]}
  <1> SUFFICES ASSUME T # {} PROVE FALSE OBVIOUS
  <1>1. PICK m \in T : \A n \in T : m <= n
    <2>1. T \subseteq Nat OBVIOUS
    <2>. HIDE DEF T
    <2>. QED BY <2>1, LeastNat
  <1>2. m \in 0..Len(E) /\ g[m] # h[m] OBVIOUS
  <1>3. m # 0 BY <1>2 DEF Run
  <1>4. m - 1 \in 0..Len(E) /\ ~(m <= m - 1) BY <1>2, <1>3
  <1>5. g[m - 1] = h[m - 1] BY <1>1, <1>4
  <1>6. g[m] = Made(A[E[m].key], g[m - 1], E[m]) BY <1>2, <1>3 DEF Run
  <1>7. h[m] = Made(A[E[m].key], h[m - 1], E[m]) BY <1>2, <1>3 DEF Run
  <1>. QED BY <1>2, <1>5, <1>6, <1>7

\* e is a next event for E, of an action r whose key is new.
Follows(E, A, e, r, B) ==
  /\ \E T : E \in Seq(T)
  /\ Chained(E, A) /\ DOMAIN A = Keys
  /\ e.key \in Keys /\ A[e.key] = None /\ r # None
  /\ B = [A EXCEPT ![e.key] = r]
  /\ Len(E) > 0 => e.prev = E[Len(E)].next

\* It adds one job to the list.
LEMMA RunGrows ==
  ASSUME NEW E, NEW A, NEW e, NEW r, NEW B, Follows(E, A, e, r, B), NEW g, Run(g, E, A)
  PROVE  \E h : Run(h, Append(E, e), B) /\ h[Len(E) + 1] = Made(r, g[Len(E)], e)
  <1>. PICK T : E \in Seq(T) BY DEF Follows
  <1>0. Len(E) \in Nat /\ Len(Append(E, e)) = Len(E) + 1 /\ DOMAIN E = 1..Len(E)
    <2>1. PICK W : W = T \cup {e} OBVIOUS
    <2>2. E \in Seq(W) /\ e \in W BY <2>1
    <2>. QED BY <2>2
  <1>1. /\ \A i \in 1..Len(E) : Append(E, e)[i] = E[i]
        /\ Append(E, e)[Len(E) + 1] = e
    <2>1. PICK W : W = T \cup {e} OBVIOUS
    <2>2. E \in Seq(W) /\ e \in W BY <2>1
    <2>. QED BY <2>2
  <1>2. \A i \in 1..Len(E) : B[E[i].key] = A[E[i].key] BY DEF Chained, Follows
  <1>3. B[e.key] = r BY DEF Follows
  <1> DEFINE h == [n \in 0..Len(E) + 1 |-> IF n = Len(E) + 1 THEN Made(r, g[Len(E)], e) ELSE g[n]]
             D == Append(E, e)
  <1>4. g = [n \in 0..Len(E) |-> IF n = 0 THEN None ELSE Made(A[E[n].key], g[n - 1], E[n])] BY DEF Run
  <1>5. ASSUME NEW n \in 0..Len(E) + 1 PROVE h[n] = IF n = 0 THEN None ELSE Made(B[D[n].key], h[n - 1], D[n])
    <2>1. CASE n = 0 BY <1>0, <1>4, <2>1
    <2>2. CASE n = Len(E) + 1
      <3>1. PICK l : l = Len(E) /\ l \in Nat BY <1>0
      <3>2. l + 1 - 1 = l /\ l \in 0..l + 1 /\ l # l + 1 BY <3>1
      <3>3. n - 1 = Len(E) /\ n - 1 \in 0..Len(E) + 1 /\ n - 1 # Len(E) + 1 BY <2>2, <3>1, <3>2
      <3>4. h[n] = Made(r, g[Len(E)], e) BY <2>2
      <3>5. h[n - 1] = g[Len(E)] BY <3>3
      <3>6. D[n] = e /\ n # 0 BY <1>0, <1>1, <2>2
      <3>. QED BY <1>3, <3>4, <3>5, <3>6
    <2>3. CASE n \in 1..Len(E)
      <3>1. h[n] = g[n] /\ h[n - 1] = g[n - 1] /\ n # 0 BY <1>0, <2>3
      <3>2. D[n] = E[n] /\ B[D[n].key] = A[E[n].key] BY <1>1, <1>2, <2>3
      <3>3. g[n] = Made(A[E[n].key], g[n - 1], E[n]) BY <1>0, <1>4, <2>3, <3>1
      <3>. HIDE DEF h, D
      <3>. QED BY <3>1, <3>2, <3>3
    <2>. QED BY <1>0, <2>1, <2>2, <2>3
  <1>6. h[Len(E) + 1] = Made(r, g[Len(E)], e) BY <1>0
  <1>7. h = [n \in 0..Len(E) + 1 |-> h[n]] OBVIOUS
  <1>. HIDE DEF h
  <1>8. h = [n \in 0..Len(D) |-> IF n = 0 THEN None ELSE Made(B[D[n].key], h[n - 1], D[n])]
    <2>. HIDE DEF D
    <2>1. Len(D) = Len(E) + 1 BY <1>0 DEF D
    <2>. QED BY <1>5, <1>7, <2>1
  <1>9. Run(h, D, B) BY <1>8 DEF Run
  <1>. QED BY <1>6, <1>9

LEMMA ChainGrows ==
  ASSUME NEW E, NEW A, NEW e, NEW r, NEW B, Follows(E, A, e, r, B)
  PROVE  /\ Chained(Append(E, e), B)
         /\ Len(Append(E, e)) > 0
         /\ Append(E, e)[Len(Append(E, e))] = e
         /\ \E W : Append(E, e) \in Seq(W)
  <1>0. PICK T : E \in Seq(T) BY DEF Follows
  <1>1. PICK W : W = T \cup {e} OBVIOUS
  <1>2. E \in Seq(W) /\ e \in W BY <1>0, <1>1
  <1>3. /\ Len(E) \in Nat /\ Len(Append(E, e)) = Len(E) + 1
        /\ \A i \in 1..Len(E) : Append(E, e)[i] = E[i]
        /\ Append(E, e)[Len(E) + 1] = e
        /\ Append(E, e) \in Seq(W)
    BY <1>2
  <1>4. PICK D : D = Append(E, e) OBVIOUS
  <1>5. \A i \in 1..Len(D) : D[i].key \in Keys /\ B[D[i].key] # None
    BY <1>3, <1>4 DEF Chained, Follows
  <1>6. \A i \in 2..Len(D) : D[i].prev = D[i - 1].next
    BY <1>3, <1>4 DEF Chained, Follows
  <1>. QED BY <1>3, <1>4, <1>5, <1>6 DEF Chained
LEMMA AfterIsRun ==
  ASSUME NEW g, Run(g, events, actions), Len(events) \in Nat
  PROVE  \A n \in 0..Len(events) : Lifecycle!After[n] = g[n]
  <1>1. \A j, e : Lifecycle!Applied(j, e) = Made(actions[e.key], j, e) BY DEF Lifecycle!Applied, Made
  <1>2. Run(Lifecycle!After, events, actions)
    <2>1. g = [n \in 0..Len(events) |-> IF n = 0 THEN None ELSE Lifecycle!Applied(g[n - 1], events[n])]
      BY <1>1 DEF Run
    <2>2. Lifecycle!After = [n \in 0..Len(events) |-> IF n = 0 THEN None ELSE Lifecycle!Applied(Lifecycle!After[n - 1], events[n])]
      BY <2>1 DEF Lifecycle!After
    <2>. QED BY <1>1, <2>2 DEF Run
  <1>. QED BY <1>2, RunsAgree

LEMMA LifecycleInit == LifecycleParameters /\ Lifecycle!Init => LifecycleInv
  <1> SUFFICES ASSUME Lifecycle!Init PROVE LifecycleInv OBVIOUS
  <1>1. events = <<>> /\ waiting = <<>> /\ stored = None /\ clock = 1 /\ actions = [k \in Keys |-> None]
    BY DEF Lifecycle!Init
  <1>2. events \in Seq({}) /\ waiting \in Seq(Transactions({})) /\ Len(events) = 0 BY <1>1
  <1>3. Chained(events, actions) BY <1>2 DEF Chained
  <1>4. Run([n \in {0} |-> None], events, actions) BY <1>2 DEF Run
  <1>5. [n \in {0} |-> None][Len(events)] = stored BY <1>1, <1>2
  <1>6. EventsInv BY <1>1, <1>2, <1>3, <1>4, <1>5 DEF EventsInv
  <1>. QED BY <1>1, <1>2, <1>6 DEF LifecycleInv, KeptTypes

\* A transaction enters behind the others.
LEMMA LifecycleEnter ==
  ASSUME LifecycleInv, NEW k, NEW r, NEW x, NEW j, NEW e, Lifecycle!Enter(k, r, x, j, e),
         NEW t, t = [key |-> k, digest |-> r, expected |-> x, job |-> j, event |-> e],
         NEW T, t \in Transactions(T)
  PROVE  LifecycleInv'
  <1>1. PICK U : waiting \in Seq(Transactions(U)) BY DEF LifecycleInv, KeptTypes
  <1>2. PICK W : W = Transactions(U \cup T) OBVIOUS
  <1>3. Transactions(U) \subseteq W /\ t \in W BY <1>2 DEF Transactions
  <1>. HIDE DEF Transactions
  <1>4. waiting \in Seq(W) BY <1>1, <1>3
  <1>5. waiting' = Append(waiting, t) /\ UNCHANGED <<clock, stored, events, actions>> BY DEF Lifecycle!Enter
  <1>6. waiting' \in Seq(Transactions(U \cup T)) BY <1>2, <1>3, <1>4, <1>5
  <1>7. KeptTypes' BY <1>5, <1>6 DEF LifecycleInv, KeptTypes
  <1>8. EventsInv' BY <1>5 DEF LifecycleInv, EventsInv
  <1>. QED BY <1>7, <1>8 DEF LifecycleInv

LEMMA KeptMetadataOf ==
  ASSUME NEW a, NEW m \in Lifecycle!Metadata(a) PROVE m \in KeptMetadata
  <1>1. Lifecycle!NoMetadata \in KeptMetadata BY DEF Lifecycle!NoMetadata, KeptMetadata
  <1>2. \A b \in Lifecycle!Budgets \cup {None} : [Lifecycle!NoMetadata EXCEPT !.budget = b] \in KeptMetadata
    BY DEF Lifecycle!NoMetadata, KeptMetadata
  <1>3. [Lifecycle!NoMetadata EXCEPT !.provider = "provider"] \in KeptMetadata BY DEF Lifecycle!NoMetadata, KeptMetadata
  <1>4. [Lifecycle!NoMetadata EXCEPT !.deliverable = "result"] \in KeptMetadata BY DEF Lifecycle!NoMetadata, KeptMetadata
  <1>. QED BY <1>1, <1>2, <1>3, <1>4 DEF Lifecycle!Metadata

LEMMA LifecycleCreate ==
  ASSUME LifecycleParameters, LifecycleInv, NEW k \in Keys, NEW b \in Lifecycle!Budgets, NEW p \in {None, "provider"},
         NEW d, Lifecycle!create(k, b, p, d)
  PROVE  LifecycleInv'
  <1>1. PICK j : j = [state |-> "open", provider |-> p, budget |-> b, deliverable |-> None, updated |-> clock] OBVIOUS
  <1>2. PICK m : m = [Lifecycle!NoMetadata EXCEPT !.budget = b, !.provider = p] OBVIOUS
  <1>3. PICK r : r = [action |-> "create", by |-> "client", meta |-> m] OBVIOUS
  <1>4. PICK e : e = [key |-> k, type |-> "job_created", prev |-> None, next |-> "open", at |-> clock] OBVIOUS
  <1>5. PICK t : t = [key |-> k, digest |-> r, expected |-> None, job |-> j, event |-> e] OBVIOUS
  <1>6. Lifecycle!Enter(k, r, None, j, e) BY <1>1, <1>2, <1>3, <1>4 DEF Lifecycle!create, Lifecycle!createErc8183JobEvent
  <1>7. m \in KeptMetadata /\ m.budget = b /\ m.provider = p BY <1>2 DEF Lifecycle!NoMetadata, KeptMetadata
  <1>8. r \in KeptRequests BY <1>3, <1>7 DEF KeptRequests, Lifecycle!Actors
  <1>9. j \in KeptJobs BY <1>1 DEF KeptJobs, LifecycleInv, KeptTypes, Lifecycle!States
  <1>10. j = Made(r, None, e) BY <1>1, <1>3, <1>4, <1>7 DEF Made
  <1>11. t \in Transactions({t}) BY <1>1, <1>4, <1>5, <1>8, <1>9, <1>10 DEF Transactions
  <1>. QED BY <1>5, <1>6, <1>11, LifecycleEnter

LEMMA LifecycleTransition ==
  ASSUME LifecycleParameters, LifecycleInv, stored # None, NEW k \in Keys, NEW a \in Lifecycle!ActionTypes,
         NEW n \in Lifecycle!allowedTransitions[stored.state] \cup {stored.state}, NEW who \in Lifecycle!Actors,
         NEW m \in Lifecycle!Metadata(a), NEW d, Lifecycle!transition(k, stored.state, n, a, who, m, d)
  PROVE  LifecycleInv'
  <1>0. stored \in KeptJobs /\ stored.state \in Lifecycle!States /\ clock \in Nat BY DEF LifecycleInv, KeptTypes, KeptJobs
  <1>1. PICK j : j = Lifecycle!NextJob(stored, a, n, m, clock) OBVIOUS
  <1>3. PICK r : r = [action |-> a, by |-> who, meta |-> m] OBVIOUS
  <1>4. PICK e : e = [key |-> k, type |-> Lifecycle!eventTypeFor(a, n), prev |-> stored.state, next |-> n, at |-> clock] OBVIOUS
  <1>5. PICK t : t = [key |-> k, digest |-> r, expected |-> stored, job |-> j, event |-> e] OBVIOUS
  <1>6. Lifecycle!Enter(k, r, stored, j, e) BY <1>1, <1>3, <1>4 DEF Lifecycle!transition, Lifecycle!createErc8183JobEvent
  <1>7. m \in KeptMetadata BY KeptMetadataOf
  <1>8. r \in KeptRequests BY <1>3, <1>7 DEF KeptRequests
  <1>9. n \in Lifecycle!States BY <1>0 DEF Lifecycle!allowedTransitions, Lifecycle!States
  <1>10. j \in KeptJobs /\ j.state = n BY <1>0, <1>1, <1>7, <1>9 DEF Lifecycle!NextJob, KeptJobs, KeptMetadata
  <1>11. a # "create" BY DEF Lifecycle!ActionTypes
  <1>12. j = Made(r, stored, e) BY <1>1, <1>3, <1>4, <1>11 DEF Made
  <1>13. e.key = k /\ e.next = n /\ e.prev = stored.state BY <1>4
  <1>14. t \in Transactions({t}) BY <1>5, <1>8, <1>10, <1>12, <1>13 DEF Transactions
  <1>. QED BY <1>5, <1>6, <1>14, LifecycleEnter

LEMMA LifecycleCommit ==
  ASSUME LifecycleParameters, LifecycleInv, Lifecycle!commit
  PROVE  LifecycleInv'
  <1>1. PICK U : waiting \in Seq(Transactions(U)) BY DEF LifecycleInv, KeptTypes
  <1>2. PICK t : t = Head(waiting) OBVIOUS
  <1>3. t \in Transactions(U) /\ waiting' = Tail(waiting) /\ waiting' \in Seq(Transactions(U)) /\ clock' = clock
    BY <1>1, <1>2 DEF Lifecycle!commit
  <1>4. CASE UNCHANGED <<stored, events, actions>>
    <2>1. KeptTypes' BY <1>3, <1>4 DEF LifecycleInv, KeptTypes
    <2>2. EventsInv' BY <1>4 DEF LifecycleInv, EventsInv
    <2>. QED BY <2>1, <2>2 DEF LifecycleInv
  <1>5. CASE /\ stored = t.expected /\ actions[t.key] = None
             /\ stored' = t.job /\ events' = Append(events, t.event) /\ actions' = [actions EXCEPT ![t.key] = t.digest]
    <2>0. PICK T : events \in Seq(T) BY DEF LifecycleInv, KeptTypes
    <2>1. /\ t.key \in Keys /\ t.digest \in KeptRequests /\ t.job \in KeptJobs /\ t.event.key = t.key
          /\ t.job = Made(t.digest, t.expected, t.event) /\ t.job.state = t.event.next
          /\ t.expected # None => t.event.prev = t.expected.state
      BY <1>3 DEF Transactions
    <2>2. t.digest # None /\ t.job # None BY <2>1 DEF LifecycleParameters
    <2>3. DOMAIN actions = Keys /\ Chained(events, actions) BY DEF LifecycleInv, KeptTypes, EventsInv
    <2>4. Len(events) > 0 => t.event.prev = events[Len(events)].next
      BY <1>5, <2>0, <2>1 DEF LifecycleInv, EventsInv
    <2>5. PICK g : Run(g, events, actions) /\ g[Len(events)] = stored BY DEF LifecycleInv, EventsInv
    <2>6. PICK B : B = [actions EXCEPT ![t.key] = t.digest] OBVIOUS
    <2>7. Follows(events, actions, t.event, t.digest, B)
      BY <1>5, <2>0, <2>1, <2>2, <2>3, <2>4, <2>6 DEF Follows
    <2>8. \E h : Run(h, Append(events, t.event), B) /\ h[Len(events) + 1] = Made(t.digest, g[Len(events)], t.event)
      BY <2>5, <2>7, RunGrows
    <2>9. /\ Chained(Append(events, t.event), B)
          /\ Len(Append(events, t.event)) > 0
          /\ Append(events, t.event)[Len(Append(events, t.event))] = t.event
          /\ \E W : Append(events, t.event) \in Seq(W)
      BY <2>7, ChainGrows
    <2>10. Len(events') = Len(events) + 1 BY <1>5, <2>0
    <2>11. KeptTypes'
      <3>1. B \in [Keys -> KeptRequests \cup {None}] BY <2>1, <2>6 DEF LifecycleInv, KeptTypes
      <3>. QED BY <1>3, <1>5, <2>1, <2>6, <2>9, <3>1 DEF LifecycleInv, KeptTypes
    <2>12. EventsInv'
      <3>1. \E h : Run(h, events', actions') /\ h[Len(events')] = stored' BY <1>5, <2>1, <2>5, <2>6, <2>8, <2>10
      <3>2. Chained(events', actions') /\ Len(events') # 0 /\ events'[Len(events')] = t.event BY <1>5, <2>6, <2>9
      <3>. QED BY <1>5, <2>1, <2>2, <3>1, <3>2 DEF EventsInv
    <2>. QED BY <2>11, <2>12 DEF LifecycleInv
  <1>. QED BY <1>2, <1>4, <1>5 DEF Lifecycle!commit, Lifecycle!ExpectedIsStored, Lifecycle!KeyIsFresh

LEMMA LifecycleStep ==
  ASSUME LifecycleParameters, LifecycleInv, [Lifecycle!Next]_(Lifecycle!lifecycleVars)
  PROVE  LifecycleInv'
  <1>1. CASE UNCHANGED <<stored, events, actions, waiting>> /\ clock' \in Nat
    <2>1. KeptTypes' BY <1>1 DEF LifecycleInv, KeptTypes
    <2>2. EventsInv' BY <1>1 DEF LifecycleInv, EventsInv
    <2>. QED BY <2>1, <2>2 DEF LifecycleInv
  <1>2. CASE UNCHANGED Lifecycle!lifecycleVars
    BY <1>1, <1>2 DEF Lifecycle!lifecycleVars, LifecycleInv, KeptTypes
  <1>3. CASE Lifecycle!Tick BY <1>1, <1>3 DEF Lifecycle!Tick, LifecycleInv, KeptTypes
  <1>4. CASE Lifecycle!commit BY <1>4, LifecycleCommit
  <1>5. CASE \E k \in Keys, b \in Lifecycle!Budgets, p \in {None, "provider"}, d \in InputDefects : Lifecycle!create(k, b, p, d)
    BY <1>5, LifecycleCreate
  <1>6. CASE /\ stored # None
             /\ \E k \in Keys, a \in Lifecycle!ActionTypes,
                   n \in Lifecycle!allowedTransitions[stored.state] \cup {stored.state}, who \in Lifecycle!Actors :
                  \E m \in Lifecycle!Metadata(a), d \in InputDefects : Lifecycle!transition(k, stored.state, n, a, who, m, d)
    BY <1>6, LifecycleTransition
  <1>. QED BY <1>2, <1>3, <1>4, <1>5, <1>6 DEF Lifecycle!Next

THEOREM LifecycleInvariant == ASSUME LifecycleParameters PROVE Lifecycle!Spec => []LifecycleInv
  <1>1. LifecycleInv /\ [Lifecycle!Next]_(Lifecycle!lifecycleVars) => LifecycleInv' BY LifecycleStep
  <1>. QED BY <1>1, LifecycleInit, PTL DEF Lifecycle!Spec

\* However transactions overlap before they commit, the job kept is what the events
\* that were appended make of it, one after the other (repository.ts, lifecycle.ts).
THEOREM EventsMakeTheJob == ASSUME LifecycleParameters PROVE Lifecycle!Spec => []JobIsItsEvents
  <1>1. LifecycleInv => JobIsItsEvents
    <2> SUFFICES ASSUME LifecycleInv PROVE JobIsItsEvents OBVIOUS
    <2>1. Len(events) \in Nat BY DEF LifecycleInv, KeptTypes
    <2>2. PICK g : Run(g, events, actions) /\ g[Len(events)] = stored BY DEF LifecycleInv, EventsInv
    <2>3. Lifecycle!After[Len(events)] = stored BY <2>1, <2>2, AfterIsRun
    <2>4. \A i \in 2..Len(events) : events[i].prev = events[i - 1].next BY DEF LifecycleInv, EventsInv, Chained
    <2>. QED BY <2>3, <2>4 DEF JobIsItsEvents, Lifecycle!JobIsItsEvents
  <1>. QED BY <1>1, LifecycleInvariant, PTL
=============================================================================
