-------------------------- MODULE ReferenceService --------------------------
(***************************************************************************)
(* The bounded reference provider: quotes of its agent take one of a few   *)
(* slots that are never given back (commerce-reservations.ts,              *)
(* reference-admission.ts), and one worker process (t5-reference-service)  *)
(* claims the slots of funded jobs, signs one submission for each, stores  *)
(* the hash before it sends the transaction, and reconciles it afterwards  *)
(* (reference-provider.ts).  The worker may stop between any two           *)
(* statements.  Its database session holds the lock that makes it the only *)
(* worker; the server may end that session before the process notices.     *)
(* SubmittedOnce is the promise of ServicePromise.                         *)
(***************************************************************************)
EXTENDS ServicePromise, FiniteSets

CONSTANTS
  Tasks,      \* what buyers ask for, one buyer each
  Workers,    \* worker processes
  MaxSlots,   \* REFERENCE_ALLOWANCE.maxJobs
  MaxDrafts,  \* bound on commerce_jobs rows
  QuoteLife,  \* quoteLifetimeSeconds, in clock ticks
  MaxBeatAge, \* the 20 s after which a heartbeat is stale, in clock ticks
  MaxTime,    \* bound on the clock
  MaxFaults,  \* bound on crashes and lost sessions together
  None

VARIABLES
  now,
  allowance, \* reference_provider_allowance: the last heartbeat
  jobs,      \* commerce_jobs with their erc8183_jobs row, in insertion order
  tx,        \* what became of each job's submission on chain
  lock,      \* the worker whose session holds the advisory lock
  proc,      \* the worker processes
  faults

vars == <<now, allowance, jobs, slots, slotOps, tx, sent, lock, proc, faults>>

Ids == 1 .. MaxDrafts

O == INSTANCE Erc8183Operations WITH Hashes <- Ids, NoHash <- None

Off == [pc |-> "off", job |-> 0, status |-> "none"]

Init ==
  /\ now = 1
  /\ allowance = [healthy |-> FALSE, beat |-> 0]
  /\ jobs = <<>> /\ slots = <<>>
  /\ slotOps = [j \in Ids |-> O!AbsentRow]
  /\ tx = [j \in Ids |-> "none"]
  /\ sent = [j \in Ids |-> 0]
  /\ lock = None
  /\ proc = [w \in Workers |-> Off]
  /\ faults = 0

-----------------------------------------------------------------------------
(***************************************************************************)
(* Quotes.                                                                 *)
(***************************************************************************)

\* What is wrong with what a request reads of the listing and its task.
Defects == {"none", "unprobed", "unpublished", "unpriced", "unfinalized", "unready", "another offer", "stale task"}

\* listingSelect: the current version, a healthy service, its latest probe.
ListingFound(d) == d # "unprobed"

\* assertLiveListing: published, verified, live, observed at a finalized block.
ListingLive(d) == d # "unpublished"

\* parsePersistedPricing: one price within the pinned bounds.
OnePrice(d) == d # "unpriced"

\* rowToListing.
Listed(d) == ListingFound(d) /\ ListingLive(d) /\ OnePrice(d)

\* assertFinalizedReadinessEvidence.
FinalizedEvidence(d) == d # "unfinalized"

\* createReferenceProviderReadinessResolver: the configured identity, owner,
\* wallet, card, price cap and signer.
ReferenceReady(d) == d # "unready" /\ FinalizedEvidence(d)

\* assertProviderReadiness, before the transaction and again inside it.
ProviderReady(d) == FinalizedEvidence(d) /\ ReferenceReady(d)

\* assertQuoteStillCurrent: the offer is the one that was quoted, not expired.
StillCurrent(d, j) == d # "another offer" /\ now < jobs[j].expires

\* readReferenceCapacity; every slot reserves the same share of the budget.
CapacityReady ==
  /\ allowance.healthy
  /\ now - allowance.beat <= MaxBeatAge
  /\ Len(slots) < MaxSlots

\* reserveReferenceCapacity, inside the transaction of the quote.
Reserved(d, j) ==
  IF d # "another offer" /\ CapacityReady
  THEN Append(slots, [job |-> j, hash |-> FALSE, state |-> "reserved"])
  ELSE slots

\* The latest unpaid row of the task, if it is still current.
OpenDrafts(d, t) ==
  {j \in DOMAIN jobs : jobs[j].task = t /\ jobs[j].state = "draft" /\ StillCurrent(d, j)}

\* quote: one transaction under the lock of buyer, agent and task returns the
\* open draft, or inserts a draft and its slot together or not at all.
Quote(t, d) ==
  /\ Listed(d) /\ d # "stale task" /\ ProviderReady(d)
  /\ OpenDrafts(d, t) = {}
  /\ Len(jobs) < MaxDrafts
  /\ slots' = Reserved(d, Len(jobs) + 1)
  /\ slots' # slots
  /\ jobs' = Append(jobs, [task |-> t, expires |-> now + QuoteLife, state |-> "draft"])
  /\ UNCHANGED <<now, allowance, slotOps, tx, sent, lock, proc, faults>>

\* resolve: the buyer hires on a quote that is still current, and funds the job.
Hire(j, d) ==
  /\ jobs[j].state = "draft"
  /\ Listed(d) /\ ProviderReady(d) /\ StillCurrent(d, j)
  /\ jobs' = [jobs EXCEPT ![j].state = "funded"]
  /\ UNCHANGED <<now, allowance, slots, slotOps, tx, sent, lock, proc, faults>>

-----------------------------------------------------------------------------
(***************************************************************************)
(* The worker: main, heartbeat and tick.                                   *)
(***************************************************************************)

SetProc(w, pc) == proc' = [proc EXCEPT ![w].pc = pc]

At(w, pc) == proc[w].pc = pc

SlotOf(j) == CHOOSE i \in DOMAIN slots : slots[i].job = j

SetSlot(j, state) == slots' = [slots EXCEPT ![SlotOf(j)].state = state]

\* No slot's submission is in doubt.
NothingInDoubt ==
  \A i \in DOMAIN slots : slots[i].state \notin {"blocked", "signing", "unknown"}

\* healthCheck: chain, balance, gas price, identity and probe are the environment's.
Healthy(environment) == environment /\ NothingInDoubt

Start(w) ==
  /\ At(w, "off") /\ lock = None
  /\ lock' = w
  /\ SetProc(w, "loop")
  /\ UNCHANGED <<now, allowance, jobs, slots, slotOps, tx, sent, faults>>

Heartbeat(w) ==
  /\ ~At(w, "off")
  /\ \E environment \in BOOLEAN : allowance' = [healthy |-> Healthy(environment), beat |-> now]
  /\ UNCHANGED <<now, jobs, slots, slotOps, tx, sent, lock, proc, faults>>

\* SIGTERM between two ticks.
Stop(w) ==
  /\ At(w, "loop")
  /\ proc' = [proc EXCEPT ![w] = Off]
  /\ lock' = IF lock = w THEN None ELSE lock
  /\ allowance' = [healthy |-> FALSE, beat |-> now]
  /\ UNCHANGED <<now, jobs, slots, slotOps, tx, sent, faults>>

Pending ==
  {i \in DOMAIN slots : /\ slots[i].state \in {"unknown", "signing", "claimed", "submitted"}
                        /\ jobs[slots[i].job].state # "draft"}

\* ORDER BY slot LIMIT 1.
First(S) == {i \in S : \A k \in S : i <= k}

\* A signing slot is left to a review, one with a hash needs its receipt
\* first, and one without starts the quoted worker.
TickPending(w) ==
  /\ At(w, "loop")
  /\ \E i \in First(Pending) :
       /\ slots[i].state # "signing"
       /\ proc' = [proc EXCEPT ![w] = [pc |-> IF slots[i].hash THEN "receipt" ELSE "get",
                                       job |-> slots[i].job, status |-> "none"]]
  /\ UNCHANGED <<now, allowance, jobs, slots, slotOps, tx, sent, lock, faults>>

Claimable ==
  {i \in DOMAIN slots : slots[i].state = "reserved" /\ jobs[slots[i].job].state = "funded"}

TickClaim(w) ==
  /\ At(w, "loop") /\ Pending = {} /\ NothingInDoubt
  /\ \E i \in First(Claimable) : slots' = [slots EXCEPT ![i].state = "claimed"]
  /\ UNCHANGED <<now, allowance, jobs, slotOps, tx, sent, lock, proc, faults>>

\* recordReceipt: only the slot that stored this hash.
RecordReceipt(j) ==
  IF slots[SlotOf(j)].hash
  THEN [slots EXCEPT ![SlotOf(j)].state = IF tx[j] = "success" THEN "submitted" ELSE "blocked"]
  ELSE slots

TickReceipt(w) ==
  /\ At(w, "receipt")
  /\ \/ /\ tx[proc[w].job] \in {"success", "reverted"}
        /\ slots' = RecordReceipt(proc[w].job)
        /\ SetProc(w, IF tx[proc[w].job] = "success" THEN "get" ELSE "loop")
     \/ SetProc(w, "loop") /\ slots' = slots
  /\ UNCHANGED <<now, allowance, jobs, slotOps, tx, sent, lock, faults>>

\* tick's last statement, by the status of the run.
TickRecord(w) ==
  /\ At(w, "record")
  /\ LET j == proc[w].job
     IN slots' = CASE proc[w].status \in {"confirmed", "reconciled"} ->
                        IF slots[SlotOf(j)].hash
                        THEN [slots EXCEPT ![SlotOf(j)].state = "reconciled"] ELSE slots
                   [] proc[w].status \in {"manual_review", "reverted"} ->
                        [slots EXCEPT ![SlotOf(j)].state = "blocked"]
                   [] OTHER -> [slots EXCEPT ![SlotOf(j)].state = "unknown"]
  /\ SetProc(w, "loop")
  /\ UNCHANGED <<now, allowance, jobs, slotOps, tx, sent, lock, faults>>

-----------------------------------------------------------------------------
(***************************************************************************)
(* Erc8183ReferenceProviderRunner.run and the service's submit.            *)
(***************************************************************************)

SetOp(j, r) == slotOps' = [slotOps EXCEPT ![j] = r]

\* What is wrong with what a run is given: the quote of its job, the worker's
\* configuration, the finalized identity, the provider's reply, the signer.
RunDefects ==
  {"none", "unbound quote", "misconfigured", "not owned", "no reply", "malformed reply",
   "reply to another task", "another signer"}

\* runQuotedReferenceWorker: the job is bound to its quote.
QuotedJob(x, j) == x # "unbound quote" /\ jobs[j].state \in {"funded", "submitted"}

\* createReferenceProviderWorkerComposition: contracts, registry, router, policy.
Composed(x) == x # "misconfigured"

\* PostgresReferenceProviderJobSelector.select: the identity with its
\* finalized owner and wallet.
Selected(x) == x # "not owned"

\* assertSelectedOwnedJob.
AwaitsSubmission(x, j) == Selected(x) /\ jobs[j].state = "funded"

\* The provider client: reached in time, within the size, canonical bytes
\* under their digest.
Answered(x) == x \notin {"no reply", "malformed reply"}

\* prepareReferenceProviderSubmission: the bytes are the result of this task.
Prepared(x) == x # "reply to another task"

\* createReferenceProviderAuthorityResolver: the secret is the provider's key.
AuthorityResolved(x) == x # "another signer"

\* The adapter's submit.
MaySubmit(x) == Prepared(x) /\ AuthorityResolved(x)

\* A persisted operation is recovered; otherwise the job must still await its
\* submission and everything the run is given must match.
Then(x, j) ==
  IF ~QuotedJob(x, j) \/ ~Composed(x) THEN "loop"
  ELSE IF O!Present(slotOps[j]) THEN "recover"
  ELSE IF AwaitsSubmission(x, j) /\ Answered(x) /\ MaySubmit(x) THEN "reserve" ELSE "loop"

RunGet(w) ==
  /\ At(w, "get")
  /\ \E x \in RunDefects : SetProc(w, Then(x, proc[w].job))
  /\ UNCHANGED <<now, allowance, jobs, slots, slotOps, tx, sent, lock, faults>>

\* A replayed key is recovered, never run again.
RunReserve(w) ==
  /\ At(w, "reserve")
  /\ SetOp(proc[w].job, O!Reserve(slotOps[proc[w].job], TRUE))
  /\ SetProc(w, IF O!Present(slotOps[proc[w].job]) THEN "recover" ELSE "bounded")
  /\ UNCHANGED <<now, allowance, jobs, slots, tx, sent, lock, faults>>

\* A failure without a hash: recordFailure leaves the operation to a review.
Refused(w) ==
  /\ SetOp(proc[w].job, O!MarkManualReview(slotOps[proc[w].job]))
  /\ \E pc \in {"recover", "loop"} : SetProc(w, pc)

\* UPDATE ... SET state='signing' WHERE state='claimed' AND hash IS NULL.
MaySign(s) == s.state = "claimed" /\ ~s.hash

BoundedClaim(w) ==
  /\ At(w, "bounded")
  /\ \/ /\ NothingInDoubt /\ MaySign(slots[SlotOf(proc[w].job)])
        /\ SetSlot(proc[w].job, "signing")
        /\ SetProc(w, "signed")
        /\ slotOps' = slotOps
     \/ Refused(w) /\ slots' = slots
  /\ UNCHANGED <<now, allowance, jobs, tx, sent, lock, faults>>

(* Mutation: the signed hash is stored only with the receipt. *)
PersistLater(w) ==
  /\ At(w, "signed")
  /\ SetProc(w, "stored")
  /\ UNCHANGED <<now, allowance, jobs, slots, slotOps, tx, sent, lock, faults>>

\* The signed transaction's hash, where the slot is still signing.
BoundedPersist(w) ==
  /\ At(w, "signed")
  /\ LET i == SlotOf(proc[w].job)
     IN slots' = IF slots[i].state = "signing"
                 THEN [slots EXCEPT ![i].state = "unknown", ![i].hash = TRUE] ELSE slots
  /\ SetProc(w, "stored")
  /\ UNCHANGED <<now, allowance, jobs, slotOps, tx, sent, lock, faults>>

\* The operation leaves its signature state for UNKNOWN before the send.
BoundedMark(w) ==
  /\ At(w, "stored")
  /\ LET j == proc[w].job
     IN IF slotOps[j].status = "awaiting_signature" /\ slotOps[j].hash = None
        THEN /\ SetOp(j, [slotOps[j] EXCEPT !.status = "unknown", !.hash = j, !.failure = "other"])
             /\ SetProc(w, "send")
        ELSE Refused(w)
  /\ UNCHANGED <<now, allowance, jobs, slots, tx, sent, lock, faults>>

\* The send may be refused before it leaves, and may be lost after.
BoundedSend(w) ==
  /\ At(w, "send")
  /\ \/ /\ sent' = [sent EXCEPT ![proc[w].job] = @ + 1]
        /\ tx' = [tx EXCEPT ![proc[w].job] = IF @ = "none" THEN "pool" ELSE @]
        /\ SetProc(w, "wait")
     \/ SetProc(w, "late") /\ UNCHANGED <<sent, tx>>
  /\ UNCHANGED <<now, allowance, jobs, slots, slotOps, lock, faults>>

\* The receipt within 25 s, recorded on the slot and then on the operation.
BoundedReceipt(w) ==
  /\ At(w, "wait")
  /\ \/ /\ tx[proc[w].job] \in {"success", "reverted"}
        /\ slots' = RecordReceipt(proc[w].job)
        /\ SetProc(w, IF tx[proc[w].job] = "success" THEN "confirm" ELSE "late")
     \/ SetProc(w, "late") /\ slots' = slots
  /\ UNCHANGED <<now, allowance, jobs, slotOps, tx, sent, lock, faults>>

BoundedConfirm(w) ==
  /\ At(w, "confirm")
  /\ LET j == proc[w].job
         r == O!MarkReceipt(O!MarkSubmitted(slotOps[j], j), "confirmed", j, 1)
     IN /\ SetOp(j, r)
        /\ jobs' = [jobs EXCEPT ![j].state = IF r.status = "confirmed" THEN "submitted" ELSE @]
        /\ proc' = [proc EXCEPT ![w].pc = "record", ![w].status = r.status]
  /\ UNCHANGED <<now, allowance, slots, tx, sent, lock, faults>>

\* TRANSACTION_UNKNOWN with the hash: recordFailure finds the row UNKNOWN and
\* sends it to a review, and the runner then recovers it.
BoundedLate(w) ==
  /\ At(w, "late")
  /\ SetOp(proc[w].job, O!MarkManualReview(slotOps[proc[w].job]))
  /\ SetProc(w, "recover")
  /\ UNCHANGED <<now, allowance, jobs, slots, tx, sent, lock, faults>>

\* recoverReferenceProviderOperation: a settled row answers; reconcile sends
\* one without a hash to a review, keeps one without a receipt unknown, and
\* records what the receipt says otherwise.
Recovered(j) ==
  IF slotOps[j].status \in {"confirmed", "reconciled", "reverted", "manual_review"} THEN slotOps[j]
  ELSE IF slotOps[j].hash = None THEN O!MarkManualReview(slotOps[j])
  ELSE CASE tx[j] = "success" -> O!Reconcile(O!MarkReceipt(slotOps[j], "confirmed", j, 1), "reconciled")
         [] tx[j] = "reverted" -> O!MarkReceipt(slotOps[j], "reverted", j, 1)
         [] OTHER -> O!MarkUnknown(slotOps[j])

Recover(w) ==
  /\ At(w, "recover")
  /\ LET j == proc[w].job
     IN /\ SetOp(j, Recovered(j))
        /\ jobs' = [jobs EXCEPT ![j].state = IF Recovered(j).status = "reconciled" THEN "submitted" ELSE @]
        /\ proc' = [proc EXCEPT ![w].pc = "record", ![w].status = Recovered(j).status]
  /\ UNCHANGED <<now, allowance, slots, tx, sent, lock, faults>>

-----------------------------------------------------------------------------
(***************************************************************************)
(* The environment.                                                        *)
(***************************************************************************)

Mine(j) ==
  /\ tx[j] = "pool"
  /\ \E o \in {"success", "reverted"} : tx' = [tx EXCEPT ![j] = o]
  /\ UNCHANGED <<now, allowance, jobs, slots, slotOps, sent, lock, proc, faults>>

Tick == /\ now < MaxTime /\ now' = now + 1
        /\ UNCHANGED <<allowance, jobs, slots, slotOps, tx, sent, lock, proc, faults>>

Crash(w) ==
  /\ ~At(w, "off") /\ faults < MaxFaults
  /\ faults' = faults + 1
  /\ proc' = [proc EXCEPT ![w] = Off]
  /\ lock' = IF lock = w THEN None ELSE lock
  /\ UNCHANGED <<now, allowance, jobs, slots, slotOps, tx, sent>>

\* The server ends the session; the process exits when it notices (Crash).
LoseSession(w) ==
  /\ lock = w /\ faults < MaxFaults
  /\ faults' = faults + 1
  /\ lock' = None
  /\ UNCHANGED <<now, allowance, jobs, slots, slotOps, tx, sent, proc>>

WorkerStep(w) ==
  \/ Start(w) \/ Heartbeat(w) \/ Stop(w)
  \/ TickPending(w) \/ TickClaim(w) \/ TickReceipt(w) \/ TickRecord(w)
  \/ RunGet(w) \/ RunReserve(w) \/ Recover(w)
  \/ BoundedClaim(w) \/ BoundedPersist(w) \/ BoundedMark(w) \/ BoundedSend(w)
  \/ BoundedReceipt(w) \/ BoundedConfirm(w) \/ BoundedLate(w)
  \/ Crash(w) \/ LoseSession(w)

Next ==
  \/ \E t \in Tasks, d \in Defects : Quote(t, d)
  \/ \E j \in DOMAIN jobs, d \in Defects : Hire(j, d)
  \/ \E j \in Ids : Mine(j)
  \/ Tick
  \/ \E w \in Workers : WorkerStep(w)

Spec == Init /\ [][Next]_vars
=============================================================================
