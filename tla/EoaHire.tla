------------------------------ MODULE EoaHire ------------------------------
(***************************************************************************)
(* The browser EOA hire: the sequence of wallet transactions create,       *)
(* register, set_budget, approve, fund that opens and funds one ERC-8183   *)
(* job.                                                                    *)
(*                                                                         *)
(*  - a tab runs dispatchBrowser (commerce-journey.tsx): claim the step,   *)
(*    ask the wallet to sign it, report the transaction hash, continue     *)
(*    with the step the server returns;                                    *)
(*  - a slot runs one HTTP request of Erc8183CommerceComposition           *)
(*    (commerce-server.ts), one action per database statement or chain     *)
(*    read, so that requests interleave between their awaits;              *)
(*  - the database holds one operation row per step (Erc8183Operations),   *)
(*    the parent commerce_jobs row and the funded erc8183_jobs row.        *)
(*                                                                         *)
(* The chain is external: a transaction is mined once and never reorged.   *)
(* Every RPC read may answer "not found" or fail.                          *)
(***************************************************************************)
EXTENDS Erc8183Operations, Sequences

CONSTANTS
  Tabs,      \* browser tabs of the buyer (one wallet, one localStorage)
  NoTab,     \* no tab waits for the response
  Slots,     \* bound: HTTP requests the server runs at a time
  LastStep,  \* the fund step; 5 in the code
  Watched,   \* bound: steps that other requests poll, reconcile or repair
  MaxFaults  \* bound: failures, rejections and recoveries by hand

ASSUME TabsAssumption == NoTab \notin Tabs
ASSUME LastStepAssumption == LastStep \in Nat /\ LastStep >= 3
ASSUME BoundsAssumption == Watched \subseteq 1 .. LastStep /\ MaxFaults \in Nat

Steps == 1 .. LastStep

\* register and set_budget, and create, are accepted only while the protocol
\* job is OPEN; approve (LastStep - 1) and fund are not.
NeedsOpenJob(s) == s <= LastStep - 2

VARIABLES
  rows,     \* erc8183_operations, one row per step
  parent,   \* the commerce_jobs reservation: status and funding hash
  job,      \* erc8183_jobs: the funding hash of the canonical row, NoHash: no row
  chain,    \* what each broadcast hash is: its step (0: none) and outcome
  sends,    \* per step: transactions the wallet broadcast
  saved,    \* localStorage "<key>:tx:<operation>", per step
  tab,      \* dispatchBrowser of each tab
  h,        \* the request each slot runs
  faults    \* failures, rejections and recoveries by hand so far

vars == <<rows, parent, job, chain, sends, saved, tab, h, faults>>

Outcome == {"none", "pending", "success", "reverted"}

TabPc == {"idle", "claiming", "signing", "rejecting", "sent", "attaching",
          "next", "recover", "recovering", "loading"}

\* CommerceError.code, reduced to what the catch blocks tell apart.
ErrorCode == {"none", "TRANSACTION_UNKNOWN", "TRANSACTION_REVERTED",
              "CHAIN_PROVIDER_INVALID", "other"}

SlotPc == {"free", "claimParent", "reresolve", "reserve", "resolveFund",
           "claim", "release", "attach", "markUnknown", "markSubmitted",
           "verify", "markReceipt", "attachJobId", "persist", "createJob",
           "advance", "throw", "reply"}

\* An enclosing try block of confirmEoa: its operation as it was read.
Frame == [step : Steps, status : OperationStatus, hash : Hashes]

TabRecord == [pc : TabPc, step : Steps \cup {0}, hash : Hashes \cup {NoHash}]

\* What a handler still uses of a row it has read.
Snapshot == [status : OperationStatus, jobId : BOOLEAN]

\* step, op, hash: the operation at hand, the last row read or returned for it
\* and the hash reported for it; next, settled: the dispatch of the response
\* (0: null) and whether its operation needs no further receipt.
SlotRecord ==
  [pc : SlotPc, step : Steps \cup {0}, tab : Tabs \cup {NoTab},
   hash : Hashes \cup {NoHash}, op : Snapshot, frames : Seq(Frame),
   err : ErrorCode, next : Steps \cup {0}, settled : BOOLEAN]

\* Every variable ranges over its declared set.
TypeOK ==
  /\ rows \in [Steps -> OperationRow]
  /\ parent \in [status : {"draft", "negotiating", "funded"},
                 hash : Hashes \cup {NoHash}]
  /\ job \in Hashes \cup {NoHash}
  /\ chain \in [Hashes -> [step : Steps \cup {0}, outcome : Outcome]]
  /\ sends \in [Steps -> Nat]
  /\ saved \in [Steps -> Hashes \cup {NoHash}]
  /\ tab \in [Tabs -> TabRecord]
  /\ h \in [Slots -> SlotRecord]
  /\ faults \in 0 .. MaxFaults

IdleTab == [pc |-> "idle", step |-> 0, hash |-> NoHash]

Read(row) == [status |-> row.status, jobId |-> row.jobId]
NothingRead == Read(AbsentRow)

FreeSlot ==
  [pc |-> "free", step |-> 0, tab |-> NoTab, hash |-> NoHash, op |-> NothingRead,
   frames |-> <<>>, err |-> "none", next |-> 0, settled |-> FALSE]

\* createQuote has written the draft reservation; nothing was prepared yet.
Init ==
  /\ rows = [s \in Steps |-> AbsentRow]
  /\ parent = [status |-> "draft", hash |-> NoHash]
  /\ job = NoHash
  /\ chain = [x \in Hashes |-> [step |-> 0, outcome |-> "none"]]
  /\ sends = [s \in Steps |-> 0]
  /\ saved = [s \in Steps |-> NoHash]
  /\ tab = [t \in Tabs |-> IdleTab]
  /\ h = [r \in Slots |-> FreeSlot]
  /\ faults = 0

\* The environment misbehaves, at most MaxFaults times.
Fault == faults < MaxFaults /\ faults' = faults + 1

FaultUnless(fine) == IF fine THEN UNCHANGED faults ELSE Fault

-----------------------------------------------------------------------------
(* The chain, as the handlers and the wallet see it. *)

Succeeded(s) == \E x \in Hashes : chain[x].step = s /\ chain[x].outcome = "success"

\* A call succeeds only after the calls it builds on; a job is funded once.
Mine(x, outcome) ==
  /\ chain[x].outcome = "pending"
  /\ outcome = "success" =>
       /\ chain[x].step > 1 => Succeeded(chain[x].step - 1)
       /\ chain[x].step = LastStep => ~Succeeded(LastStep)
  /\ FaultUnless(outcome = "success")
  /\ chain' = [chain EXCEPT ![x].outcome = outcome]
  /\ UNCHANGED <<rows, parent, job, sends, saved, tab, h>>

\* Mutation: the envelope of the transaction is not compared.
VerifyAnyEnvelope(s, x) ==
  CASE chain[x].step = 0 \/ chain[x].outcome = "pending" -> "TRANSACTION_UNKNOWN"
    [] chain[x].outcome = "reverted" -> "TRANSACTION_REVERTED"
    [] OTHER -> "ok"

\* What verifyEoaReceipt(s, x) answers when every read of it succeeds: "ok" or
\* the code it throws.  A transaction of another call, and a job that is no
\* longer OPEN where the step needs it, are ONCHAIN_MISMATCH ("other").
VerifyOutcome(s, x) ==
  CASE chain[x].step = 0 -> "TRANSACTION_UNKNOWN"
    [] chain[x].step \notin {0, s} -> "other"
    [] chain[x].step = s /\ chain[x].outcome = "pending" -> "TRANSACTION_UNKNOWN"
    [] chain[x].step = s /\ chain[x].outcome = "reverted" -> "TRANSACTION_REVERTED"
    [] OTHER -> IF NeedsOpenJob(s) /\ Succeeded(LastStep) THEN "other" ELSE "ok"

\* A read that fails, or that a lagging node answers with "not found".
ReadFailure == {"TRANSACTION_UNKNOWN", "CHAIN_PROVIDER_INVALID"}

-----------------------------------------------------------------------------
(* Requests and responses. *)

Request(pc, s, x, t) ==
  [FreeSlot EXCEPT !.pc = pc, !.step = s, !.hash = x, !.tab = t]

\* The fetch of tab t: a free slot takes it.
Post(t, pc, s, x, tabPc) ==
  \E r \in Slots :
    /\ h[r].pc = "free"
    /\ h' = [h EXCEPT ![r] = Request(pc, s, x, t)]
    /\ tab' = [tab EXCEPT ![t] = [pc |-> tabPc, step |-> s, hash |-> x]]

\* A request no dispatch loop waits for (hire, the status poll, reconcile and the
\* pasted hash) starts with its first read.
Arrive(r, y) ==
  /\ h[r].pc = "free"
  /\ h' = [h EXCEPT ![r] = y]
  /\ UNCHANGED <<rows, parent, job, chain, sends, saved, tab>>

\* What the awaiting code of a tab does with a failed fetch.
TabFailed(w) ==
  CASE w.pc = "claiming"  -> [w EXCEPT !.pc = "recover", !.hash = NoHash]
    [] w.pc = "attaching" -> [w EXCEPT !.pc = "recover"]
    [] OTHER              -> IdleTab

\* ... and with a good response.
TabAnswered(w, y) ==
  IF w.pc = "attaching" /\ y.next # 0
  THEN [pc |-> "next", step |-> y.next, hash |-> NoHash]
  ELSE IdleTab

\* removeItem: dispatchBrowser forgets the hash once the attach was answered,
\* loadOperation once the answer needs no further receipt.
Forgets(w, y) ==
  \/ w.pc \in {"attaching", "recovering"} /\ w.hash # NoHash
  \/ w.pc = "loading" /\ y.settled

Answer(r) ==
  LET y == h[r]  w == tab[y.tab] IN
  IF y.tab = NoTab THEN UNCHANGED <<tab, saved>>
  ELSE /\ tab' = [tab EXCEPT ![y.tab] = TabAnswered(w, y)]
       /\ saved' = IF Forgets(w, y) THEN [saved EXCEPT ![w.step] = NoHash]
                   ELSE saved

AnswerError(r) ==
  tab' = IF h[r].tab = NoTab THEN tab
         ELSE [tab EXCEPT ![h[r].tab] = TabFailed(tab[h[r].tab])]

\* The function of slot y returns or throws to its caller; the request is over
\* when nobody is left to notice.
Unobserved(y) == y.frames = <<>> /\ y.tab = NoTab

Return(y, next, settled) ==
  IF Unobserved(y) THEN FreeSlot
  ELSE [y EXCEPT !.pc = "reply", !.step = 0, !.op = NothingRead, !.hash = NoHash,
                 !.err = "none", !.next = next, !.settled = settled]

Throw(y, code) ==
  IF Unobserved(y) THEN FreeSlot
  ELSE [y EXCEPT !.pc = "throw", !.step = 0, !.op = NothingRead, !.hash = NoHash,
                 !.err = code, !.next = 0, !.settled = FALSE]

Settled(op) ==
  op.status \notin {"unknown", "submitted", "awaiting_signature"}

\* browserDispatchFor: only an unclaimed awaiting step is dispatched.
DispatchFor(s, op) ==
  IF op.status = "awaiting_signature" /\ ~op.claimed THEN s ELSE 0

Step(r, y) == h' = [h EXCEPT ![r] = y]

DbUnchanged == UNCHANGED <<rows, parent, job>>
ChainUnchanged == UNCHANGED <<chain, sends>>
Quiet == ChainUnchanged /\ UNCHANGED faults
TabsUnchanged == UNCHANGED <<tab, saved>>

-----------------------------------------------------------------------------
(* POST /hire: prepareHireIntent. *)

\* replayPreparedEoaIntent returns the row of the server-derived key as it is.
PrepareHireIntent(r) ==
  LET y == Request("claimParent", 1, NoHash, NoTab) IN
  /\ Arrive(r, IF Present(rows[1]) THEN Return(y, 0, FALSE) ELSE y)
  /\ UNCHANGED faults

Unpaid(p) == p.status \in {"draft", "negotiating"} /\ p.hash = NoHash

\* resolveParentHire and assertParentHireAuthorization, after the claim of the
\* parent and before a fund claim: only the reservation is state of this module;
\* listing, readiness and network checks may refuse.
ResolveParentHire(r) ==
  LET y == h[r] IN
  /\ y.pc \in {"reresolve", "resolveFund"}
  /\ \/ /\ Unpaid(parent) /\ UNCHANGED faults
        /\ Step(r, [y EXCEPT !.pc = IF @ = "reresolve" THEN "reserve" ELSE "claim"])
     \/ /\ FaultUnless(~Unpaid(parent))
        /\ Step(r, Throw(y, "other"))
  /\ DbUnchanged /\ ChainUnchanged /\ TabsUnchanged

\* The first resolveParentHire, which refuses nothing that what follows accepts,
\* and CommerceReservationStore.claim: SELECT ... FOR UPDATE and the update.
ClaimParent(r) ==
  LET y == h[r] IN
  /\ y.pc = "claimParent"
  /\ \/ /\ Unpaid(parent) /\ UNCHANGED faults
        /\ parent' = [parent EXCEPT !.status = "negotiating"]
        /\ Step(r, [y EXCEPT !.pc = "reresolve"])
     \/ /\ FaultUnless(~Unpaid(parent)) /\ UNCHANGED parent
        /\ Step(r, Throw(y, "other"))
  /\ UNCHANGED <<rows, job>> /\ ChainUnchanged /\ TabsUnchanged

\* reserveExternal for create.  A row that is already there has another expiry,
\* hence another request digest, unless it was written in the same second.
ReserveHire(r) ==
  LET y == h[r] IN
  /\ y.pc = "reserve"
  /\ rows' = [rows EXCEPT ![1] = Reserve(rows[1], FALSE)]
  /\ \/ Step(r, Return(y, DispatchFor(1, rows'[1]), FALSE))
     \/ Present(rows[1]) /\ Step(r, Throw(y, "other"))
  /\ UNCHANGED <<parent, job>> /\ Quiet /\ TabsUnchanged

-----------------------------------------------------------------------------
(* POST /dispatch with claim or walletRejected. *)

\* The CAS, and its response: the tab is handed the call only when it won.
ClaimDispatch(r) ==
  LET y == h[r] IN
  /\ y.pc = "claim"
  /\ rows' = [rows EXCEPT ![y.step] = ClaimExternalDispatch(@)]
  /\ tab' = IF y.tab = NoTab THEN tab
            ELSE [tab EXCEPT ![y.tab] =
                    IF CanClaim(rows[y.step])
                    THEN [pc |-> "signing", step |-> y.step, hash |-> NoHash]
                    ELSE TabFailed(tab[y.tab])]
  /\ Step(r, FreeSlot)
  /\ UNCHANGED <<parent, job, saved>> /\ Quiet

ReleaseDispatch(r) ==
  LET y == h[r] IN
  /\ y.pc = "release"
  /\ rows' = [rows EXCEPT ![y.step] = ReleaseExternalDispatch(@)]
  /\ Step(r, Return(y, 0, FALSE))
  /\ UNCHANGED <<parent, job>> /\ Quiet /\ TabsUnchanged

-----------------------------------------------------------------------------
(* confirmEoa and advanceEoa. *)

EnterTry(y, op, status, x) ==
  [y EXCEPT !.pc = "verify", !.op = Read(op), !.hash = x,
            !.frames = Append(@, [step |-> y.step, status |-> status, hash |-> x])]

\* Mutation: a submitted setup step counts as settled.
ConfirmEoaSubmitted(y, op, supplied) ==
  LET x == IF supplied # NoHash THEN supplied ELSE op.hash IN
  IF op.status \in {"submitted", "confirmed", "reconciled"} /\ op.jobId /\ y.step < LastStep
  THEN [y EXCEPT !.pc = "advance", !.hash = NoHash]
  ELSE IF x = NoHash
  THEN IF op.status = "awaiting_signature"
       THEN Return(y, DispatchFor(y.step, op), FALSE)
       ELSE [y EXCEPT !.pc = "markUnknown"]
  ELSE IF op.hash \notin {NoHash, x} THEN Throw(y, "other")
  ELSE IF op.status \in {"awaiting_signature", "unknown"}
  THEN [y EXCEPT !.pc = "markSubmitted", !.op = Read(op), !.hash = x]
  ELSE EnterTry(y, op, op.status, x)

\* confirmEoa(op, supplied) up to its first await.
ConfirmEoa(y, op, supplied) ==
  LET x == IF supplied # NoHash THEN supplied ELSE op.hash IN
  IF op.status \in {"confirmed", "reconciled"} /\ op.jobId /\ y.step < LastStep
  THEN [y EXCEPT !.pc = "advance", !.hash = NoHash]
  ELSE IF x = NoHash
  THEN IF op.status = "awaiting_signature"
       THEN Return(y, DispatchFor(y.step, op), FALSE)
       ELSE [y EXCEPT !.pc = "markUnknown"]
  ELSE IF op.hash \notin {NoHash, x} THEN Throw(y, "other")
  ELSE IF op.status \in {"awaiting_signature", "unknown"}
  THEN [y EXCEPT !.pc = "markSubmitted", !.op = Read(op), !.hash = x]
  ELSE EnterTry(y, op, op.status, x)

\* attachExternalExecution reads the row and goes on with what it read.
AttachExternalExecution(y) ==
  LET op == rows[y.step] IN
  IF y.hash # NoHash THEN ConfirmEoa(y, op, y.hash)
  ELSE IF op.status \in {"awaiting_signature", "submitted"}
  THEN [y EXCEPT !.pc = "markUnknown"]
  ELSE Return(y, 0, Settled(op))

AttachPosted(r) ==
  /\ h[r].pc = "attach"
  /\ Step(r, AttachExternalExecution(h[r]))
  /\ DbUnchanged /\ Quiet /\ TabsUnchanged

MarkUnknownStep(r) ==
  LET y == h[r] IN
  /\ y.pc = "markUnknown"
  /\ rows' = [rows EXCEPT ![y.step] = MarkUnknown(@)]
  /\ Step(r, IF MarkUnknownOk(rows[y.step]) THEN Return(y, 0, FALSE)
             ELSE Throw(y, "other"))
  /\ UNCHANGED <<parent, job>> /\ Quiet /\ TabsUnchanged

\* markSubmitted is before the try block: its conflict goes to the caller.
MarkSubmittedStep(r) ==
  LET y == h[r] IN
  /\ y.pc = "markSubmitted"
  /\ rows' = [rows EXCEPT ![y.step] = MarkSubmitted(@, y.hash)]
  /\ Step(r, IF MarkSubmittedOk(rows[y.step], y.hash)
             THEN EnterTry(y, rows'[y.step], y.op.status, y.hash)
             ELSE Throw(y, "other"))
  /\ UNCHANGED <<parent, job>> /\ Quiet /\ TabsUnchanged

\* What follows the confirmed row op: bind the job ID, project, or advance.
AfterReceipt(y, op) ==
  IF y.step = LastStep THEN [y EXCEPT !.pc = "persist", !.op = NothingRead]
  ELSE [y EXCEPT !.pc = IF y.step = 1 /\ ~op.jobId THEN "attachJobId" ELSE "advance",
                 !.op = NothingRead, !.hash = NoHash]

VerifyEoaReceipt(r, outcome) ==
  LET y == h[r] IN
  /\ y.pc = "verify"
  /\ outcome \in {VerifyOutcome(y.step, y.hash)} \cup ReadFailure
  /\ FaultUnless(outcome = VerifyOutcome(y.step, y.hash))
  /\ Step(r, IF outcome # "ok" THEN Throw(y, outcome)
             ELSE IF y.op.status \in {"confirmed", "reconciled"}
             THEN AfterReceipt(y, y.op)
             ELSE [y EXCEPT !.pc = "markReceipt"])
  /\ DbUnchanged /\ ChainUnchanged /\ TabsUnchanged

MarkConfirmed(r) ==
  LET y == h[r] IN
  /\ y.pc = "markReceipt"
  /\ rows' = [rows EXCEPT ![y.step] = MarkReceipt(@, "confirmed", y.hash, 0)]
  /\ Step(r, IF MarkReceiptOk(rows[y.step], "confirmed", y.hash, 0)
             THEN AfterReceipt(y, rows'[y.step]) ELSE Throw(y, "other"))
  /\ UNCHANGED <<parent, job>> /\ Quiet /\ TabsUnchanged

AttachCreatedJobId(r) ==
  LET y == h[r] IN
  /\ y.pc = "attachJobId"
  /\ rows' = [rows EXCEPT ![1] = AttachJobId(@)]
  /\ Step(r, [y EXCEPT !.pc = "advance"])
  /\ UNCHANGED <<parent, job>> /\ Quiet /\ TabsUnchanged

Advance(y) == [y EXCEPT !.pc = "advance", !.hash = NoHash]

\* persistEoaFunding -> persistCanonicalHire: jobs.get, then jobs.create.
PersistEoaFunding(r) ==
  LET y == h[r] IN
  /\ y.pc = "persist"
  /\ Step(r, IF job = NoHash THEN [y EXCEPT !.pc = "createJob"] ELSE Advance(y))
  /\ DbUnchanged /\ Quiet /\ TabsUnchanged

\* Mutation: the parent reservation is not synchronised.
CreateJobAlone(r) ==
  LET y == h[r] IN
  /\ y.pc = "createJob"
  /\ job' = y.hash
  /\ Step(r, Advance(y))
  /\ UNCHANGED <<rows, parent>> /\ Quiet /\ TabsUnchanged

\* The transaction of PostgresErc8183JobRepository.create with
\* syncMarketplaceFunding.  A creator that lost the race replays only when both
\* rows carry the same second in updatedAt.
CreateJob(r) ==
  LET y == h[r] IN
  /\ y.pc = "createJob"
  /\ \/ /\ job = NoHash /\ parent.hash \in {NoHash, y.hash}
        /\ job' = y.hash
        /\ parent' = [status |-> "funded", hash |-> y.hash]
        /\ Step(r, Advance(y))
     \/ /\ job = NoHash /\ parent.hash \notin {NoHash, y.hash}
        /\ UNCHANGED <<job, parent>>
        /\ Step(r, Throw(y, "other"))
     \/ /\ job # NoHash
        /\ UNCHANGED <<job, parent>>
        /\ \/ Step(r, Throw(y, "other"))
           \/ job = y.hash /\ Step(r, Advance(y))
  /\ UNCHANGED rows /\ Quiet /\ TabsUnchanged

\* advanceEoa: reserve the next step; a replayed one is followed.
AdvanceEoa(r) ==
  LET y == h[r]  n == y.step + 1  next == [y EXCEPT !.step = n] IN
  /\ y.pc = "advance"
  /\ \/ /\ y.step = LastStep
        /\ UNCHANGED rows
        /\ Step(r, Return(y, 0, TRUE))
     \/ /\ y.step < LastStep
        /\ rows' = [rows EXCEPT ![n] = Reserve(@, TRUE)]
        /\ LET op == rows'[n] IN
           Step(r, IF op.status \in {"confirmed", "reconciled"}
                   THEN IF n = LastStep THEN ConfirmEoa(next, op, NoHash)
                        ELSE next
                   ELSE IF op.status = "submitted" THEN ConfirmEoa(next, op, NoHash)
                   ELSE Return(next, DispatchFor(n, op), Settled(op)))
  /\ UNCHANGED <<parent, job>> /\ Quiet /\ TabsUnchanged

-----------------------------------------------------------------------------
(* The catch block of confirmEoa, one frame at a time. *)

Last(frames) == frames[Len(frames)]
Pop(y) == [y EXCEPT !.frames = SubSeq(@, 1, Len(@) - 1)]

Catching(r, code) == h[r].pc = "throw" /\ h[r].frames # <<>> /\ h[r].err = code

\* A receipt that was verified before outlives an outage of the RPC.
KeepsEvidence(f, code) ==
  \/ code = "CHAIN_PROVIDER_INVALID" /\ f.status \in {"confirmed", "reconciled"}
  \/ /\ code = "TRANSACTION_UNKNOWN"
     /\ f.status \in {"confirmed", "manual_review", "reconciled"}

CatchKeeping(r) ==
  LET y == h[r] IN
  /\ y.pc = "throw" /\ y.frames # <<>>
  /\ KeepsEvidence(Last(y.frames), y.err)
  /\ Step(r, Return(Pop(y), 0, TRUE))
  /\ DbUnchanged /\ Quiet /\ TabsUnchanged

CatchUnknown(r) ==
  LET y == h[r]  f == Last(y.frames) IN
  /\ Catching(r, "TRANSACTION_UNKNOWN")
  /\ ~KeepsEvidence(f, y.err)
  /\ rows' = [rows EXCEPT ![f.step] = MarkUnknown(@)]
  /\ Step(r, IF MarkUnknownOk(rows[f.step]) THEN Return(Pop(y), 0, FALSE)
             ELSE Throw(Pop(y), "other"))
  /\ UNCHANGED <<parent, job>> /\ Quiet /\ TabsUnchanged

\* The receipt is read again: it is recorded, or the read itself throws.  (The
\* read that finds no receipt is in CatchReview.)
CatchReverted(r) ==
  LET y == h[r]  f == Last(y.frames) IN
  /\ Catching(r, "TRANSACTION_REVERTED")
  /\ \/ /\ chain[f.hash].outcome \in {"success", "reverted"}
        /\ UNCHANGED faults
        /\ rows' = [rows EXCEPT ![f.step] = MarkReceipt(@, "reverted", f.hash, 0)]
        /\ Step(r, IF MarkReceiptOk(rows[f.step], "reverted", f.hash, 0)
                   THEN Return(Pop(y), 0, TRUE) ELSE Throw(Pop(y), "other"))
     \/ /\ Fault /\ UNCHANGED rows
        /\ \E code \in ReadFailure : Step(r, Throw(Pop(y), code))
  /\ UNCHANGED <<parent, job>> /\ ChainUnchanged /\ TabsUnchanged

\* markManualReview, whose own failure is swallowed, and rethrow.
CatchReview(r) ==
  LET y == h[r]  f == Last(y.frames) IN
  /\ y.pc = "throw" /\ y.frames # <<>>
  /\ y.err # "TRANSACTION_UNKNOWN"
  /\ ~KeepsEvidence(f, y.err)
  /\ FaultUnless(y.err # "TRANSACTION_REVERTED")
  /\ rows' = [rows EXCEPT ![f.step] = MarkManualReview(@)]
  /\ Step(r, Throw(Pop(y), y.err))
  /\ UNCHANGED <<parent, job>> /\ ChainUnchanged /\ TabsUnchanged

\* No try block is left: commerceHttpError.
Uncaught(r) ==
  /\ h[r].pc = "throw" /\ h[r].frames = <<>>
  /\ Step(r, FreeSlot)
  /\ AnswerError(r)
  /\ UNCHANGED saved /\ DbUnchanged /\ Quiet

\* optionalJob reads the job view for the response; then the response is sent.
Reply(r) ==
  /\ h[r].pc = "reply"
  /\ Step(r, FreeSlot)
  /\ Answer(r)
  /\ DbUnchanged /\ Quiet

\* ... or that read fails, inside the try blocks that are still open.
ReplyReadFails(r) ==
  /\ h[r].pc = "reply"
  /\ Step(r, Throw(h[r], "other"))
  /\ DbUnchanged /\ Fault /\ ChainUnchanged /\ TabsUnchanged

\* The process stops: what was committed stays, the browser sees a failure.
HandlerDies(r) ==
  /\ h[r].pc # "free"
  /\ Step(r, FreeSlot)
  /\ AnswerError(r)
  /\ UNCHANGED saved /\ DbUnchanged /\ Fault /\ ChainUnchanged

-----------------------------------------------------------------------------
(* dispatchBrowser and the other callers. *)

\* The buyer presses the button of a step this browser was once given; the
\* dispatch on the screen may be stale.
DispatchBrowser(t, s) ==
  /\ tab[t].pc = "idle" /\ Present(rows[s])
  /\ Post(t, IF s = LastStep THEN "resolveFund" ELSE "claim", s, NoHash, "claiming")
  /\ UNCHANGED saved /\ DbUnchanged /\ Quiet

\* The next turn of the loop, with the dispatch of the last response.
ContinueDispatch(t) ==
  LET s == tab[t].step IN
  /\ tab[t].pc = "next"
  /\ Post(t, IF s = LastStep THEN "resolveFund" ELSE "claim", s, NoHash, "claiming")
  /\ UNCHANGED saved /\ DbUnchanged /\ Quiet

\* liveWalletFor throws, or sendTransaction fails other than by a rejection.
WalletFails(t) ==
  /\ tab[t].pc \in {"next", "signing"}
  /\ tab' = [tab EXCEPT ![t].pc = "recover"]
  /\ UNCHANGED <<saved, h>> /\ DbUnchanged /\ Fault /\ ChainUnchanged

\* A new transaction has a hash no other one has; which one does not matter.
FreshHash == CHOOSE x \in Hashes : chain[x].step = 0

Broadcast(s) ==
  /\ \E x \in Hashes : chain[x].step = 0
  /\ chain' = [chain EXCEPT ![FreshHash] = [step |-> s, outcome |-> "pending"]]
  /\ sends' = [sends EXCEPT ![s] = @ + 1]

\* sendTransaction resolves; the hash is kept in localStorage.
SendTransaction(t) ==
  /\ tab[t].pc = "signing"
  /\ Broadcast(tab[t].step)
  /\ saved' = [saved EXCEPT ![tab[t].step] = FreshHash]
  /\ tab' = [tab EXCEPT ![t].pc = "sent", ![t].hash = FreshHash]
  /\ UNCHANGED <<h, faults>> /\ DbUnchanged

\* The wallet broadcasts but the page never learns the hash.
SendLosesHash(t) ==
  /\ tab[t].pc = "signing"
  /\ Broadcast(tab[t].step)
  /\ tab' = [tab EXCEPT ![t].pc = "recover"]
  /\ Fault /\ UNCHANGED <<saved, h>> /\ DbUnchanged

\* isUserRejected: nothing was broadcast; report it, once.
RejectSignature(t) ==
  /\ tab[t].pc = "signing"
  /\ Post(t, "release", tab[t].step, NoHash, "rejecting")
  /\ UNCHANGED saved /\ DbUnchanged /\ Fault /\ ChainUnchanged

\* After waitForTransactionReceipt: report the hash.
AttachHash(t) ==
  /\ tab[t].pc = "sent"
  /\ Post(t, "attach", tab[t].step, tab[t].hash, "attaching")
  /\ UNCHANGED saved /\ DbUnchanged /\ Quiet

\* waitForTransactionReceipt throws.
WaitFails(t) ==
  /\ tab[t].pc = "sent"
  /\ tab' = [tab EXCEPT ![t].pc = "recover"]
  /\ UNCHANGED <<saved, h>> /\ DbUnchanged /\ Fault /\ ChainUnchanged

\* The catch of dispatchBrowser: one more attach, with the hash if there is one.
Recover(t) ==
  /\ tab[t].pc = "recover"
  /\ Post(t, "attach", tab[t].step, tab[t].hash, "recovering")
  /\ UNCHANGED saved /\ DbUnchanged /\ Quiet

\* loadOperation on reload and on every poll: attach the saved hash.
LoadOperation(t, s) ==
  /\ tab[t].pc = "idle" /\ saved[s] # NoHash
  /\ Post(t, "attach", s, saved[s], "loading")
  /\ UNCHANGED saved /\ DbUnchanged /\ Quiet

\* The fetch fails or times out while its request is still running.
ResponseLost(t) ==
  /\ \E r \in Slots : h[r].tab = t
  /\ h' = [r \in Slots |-> IF h[r].tab = t THEN [h[r] EXCEPT !.tab = NoTab] ELSE h[r]]
  /\ tab' = [tab EXCEPT ![t] = TabFailed(@)]
  /\ UNCHANGED saved /\ DbUnchanged /\ Fault /\ ChainUnchanged

CloseTab(t) ==
  /\ tab[t].pc # "idle"
  /\ tab' = [tab EXCEPT ![t] = IdleTab]
  /\ h' = [r \in Slots |-> IF h[r].tab = t THEN [h[r] EXCEPT !.tab = NoTab] ELSE h[r]]
  /\ UNCHANGED saved /\ DbUnchanged /\ Fault /\ ChainUnchanged

\* Mutation: a confirmed operation needs no further look.
PollStatusUnconfirmed(r, s) ==
  LET op == rows[s]  y == Request("attach", s, NoHash, NoTab) IN
  /\ Present(op)
  /\ Arrive(r, IF op.hash # NoHash /\ op.status \in {"submitted", "unknown"}
               THEN ConfirmEoa(y, op, NoHash)
               ELSE Return(y, DispatchFor(s, op), Settled(op)))
  /\ UNCHANGED faults

\* operationStatus.
PollStatus(r, s) ==
  LET op == rows[s]  y == Request("attach", s, NoHash, NoTab) IN
  /\ Present(op)
  /\ Arrive(r, IF \/ op.status \in {"confirmed", "reconciled"}
                  \/ op.hash # NoHash /\ op.status \in {"submitted", "unknown"}
               THEN ConfirmEoa(y, op, NoHash)
               ELSE Return(y, DispatchFor(s, op), Settled(op)))
  /\ UNCHANGED faults

ReconcileOperation(r, s) ==
  /\ Present(rows[s])
  /\ Arrive(r, ConfirmEoa(Request("attach", s, NoHash, NoTab), rows[s], NoHash))
  /\ UNCHANGED faults

\* attachTransactionHash: the buyer pastes the hash of one of the transactions
\* of this wallet, possibly of another step.
AttachTransactionHash(r, s, x) ==
  /\ Present(rows[s]) /\ chain[x].step # 0
  /\ Arrive(r, AttachExternalExecution(Request("attach", s, x, NoTab)))
  /\ Fault

-----------------------------------------------------------------------------
HandlerStep(r) ==
  \/ ResolveParentHire(r) \/ ClaimParent(r)
  \/ ReserveHire(r) \/ ClaimDispatch(r) \/ ReleaseDispatch(r)
  \/ AttachPosted(r) \/ MarkUnknownStep(r) \/ MarkSubmittedStep(r)
  \/ \E outcome \in {"ok"} \cup ErrorCode : VerifyEoaReceipt(r, outcome)
  \/ MarkConfirmed(r) \/ AttachCreatedJobId(r) \/ PersistEoaFunding(r)
  \/ CreateJob(r) \/ AdvanceEoa(r)
  \/ CatchKeeping(r) \/ CatchUnknown(r) \/ CatchReverted(r) \/ CatchReview(r)
  \/ Uncaught(r) \/ Reply(r) \/ ReplyReadFails(r)

Incoming(r) ==
  \/ PrepareHireIntent(r)
  \/ \E s \in Watched : PollStatus(r, s) \/ ReconcileOperation(r, s)
  \/ \E s \in Watched, x \in Hashes : AttachTransactionHash(r, s, x)

TabStep(t) ==
  \/ \E s \in Steps : DispatchBrowser(t, s) \/ LoadOperation(t, s)
  \/ ContinueDispatch(t) \/ WalletFails(t) \/ RejectSignature(t)
  \/ SendTransaction(t) \/ SendLosesHash(t)
  \/ AttachHash(t) \/ WaitFails(t) \/ Recover(t)
  \/ ResponseLost(t) \/ CloseTab(t)

Next ==
  \/ \E r \in Slots : HandlerStep(r) \/ HandlerDies(r) \/ Incoming(r)
  \/ \E t \in Tabs : TabStep(t)
  \/ \E x \in Hashes, outcome \in {"success", "reverted"} : Mine(x, outcome)

Spec == Init /\ [][Next]_vars

-----------------------------------------------------------------------------
(* What the checks and the proofs are about. *)

\* The claim CAS of operations.ts keeps the wallet from being asked twice: no step
\* of a hire is ever broadcast a second time, whatever tabs, retries, rejections
\* and crashes do.
AtMostOneSend == \A s \in Steps : sends[s] <= 1

\* markReceipt is reached only through verifyEoaReceipt: a row that says confirmed
\* names a transaction of its own step that succeeded on chain.
ConfirmedIsOnChain ==
  \A s \in Steps :
    rows[s].status \in {"confirmed", "reconciled"} =>
      /\ rows[s].hash # NoHash
      /\ chain[rows[s].hash] = [step |-> s, outcome |-> "success"]

\* persistCanonicalHire and syncMarketplaceFunding: the canonical job and its
\* parent reservation become funded together, with the hash of the funding
\* transaction that succeeded and that the fund operation is bound to.
FundedProjection ==
  /\ parent.status = "funded" <=> job # NoHash
  /\ parent.hash = job
  /\ job # NoHash =>
       /\ chain[job] = [step |-> LastStep, outcome |-> "success"]
       /\ rows[LastStep].hash = job
       /\ rows[LastStep].status \in {"confirmed", "reconciled", "manual_review"}

\* The whole sequence implements the promise of HireProtocol.
Promise == INSTANCE HireProtocol WITH
  sent <- sends, landed <- {s \in Steps : Succeeded(s)}, funded <- job # NoHash

ImplementsHireProtocol == Promise!Spec
=============================================================================
