--------------------------- MODULE RecordsPromise ---------------------------
(***************************************************************************)
(* What is promised of the records kept beside the escrow: the payments of *)
(* agents (PaymentGateway), the publication of evidence (Greenfield) and   *)
(* its bucket (GreenfieldBucket), the evidence of an authority (PhaseZero) *)
(* and that of a settled job (FrozenEvidence).                             *)
(***************************************************************************)
EXTENDS Naturals

CONSTANTS
  Callers,   \* concurrent calls, of whichever component
  Attempts,  \* payment attempts
  Missing,   \* no record of the kind (undefined, null)
  Publications, Ipfs, TooLarge, MaxPublications, MaxSealPolls, Faults,   \* Greenfield
  Policies, Actions, Used, Destinations, Attestors,                      \* PhaseZero
  MaxAge, MaxLifetime, MaxSpend, MaxTime, MaxAttempts,
  Environments, MaxFiles                                                 \* FrozenEvidence

VARIABLES
  db,       \* the maps: attempts, actions, receipts, challenges, reconciliations
  relays,   \* relay starts of each attempt (history)
  att, locators, verifs, evidence, object, worker, published, duplicate,  \* Greenfield
  bucket, indexed, mempool, receipt,                                      \* GreenfieldBucket
  clock, input, session, attempts, step, ev,                              \* PhaseZero
  facts, agentRun, inserting, proc, files, objects, reported              \* FrozenEvidence

Publisher == INSTANCE Greenfield WITH
  Workers <- Callers, Attempts <- Publications, MaxCalls <- MaxPublications,
  chain <- object, calls <- published

Phase == INSTANCE PhaseZero WITH Requests <- Actions

Frozen == INSTANCE FrozenEvidence WITH None <- Missing

(* A payment settled or delivered (repository.ts transition) has a settled
   receipt on record and an authorization, and a delivered one a
   successful answer, whatever receipts were saved and resolved before. *)
DeliveredIsPaid ==
  \A a \in Attempts : db.att[a] # Missing /\ db.att[a].status \in {"settled", "delivered"}
     => /\ db.att[a].auth /\ db.receipts[a] # Missing /\ db.receipts[a].status = "settled"
        /\ db.att[a].status = "delivered" => db.receipts[a].answered

(* "a relay timeout is never a safe signal to retry a payment"
   (lifecycle.ts): of concurrent calls that all saw the attempt authorized,
   one starts its relay. *)
RelayOnce == \A a \in Attempts : relays[a] <= 1

(* What a payment may never do, under any interleaving of the calls: be
   delivered unpaid, or relayed a second time. *)
PaidOnce == DeliveredIsPaid /\ RelayOnce

(* An attempt is verified (publisher.ts verifyReadback) only if its bytes
   can be read back intact, and a Greenfield one only if the object is
   sealed, whatever calls ran, stopped, overlapped or were retried before.
   The marketplace (evidence.ts verifiedGraph) shows a link only to a sealed
   object with the canonical bytes, although the locator and the verification
   it joins can come from different attempts. *)
VerifiedEvidence == Publisher!VerifiedEvidence /\ Publisher!LinkedIsSealed

(* "a retry can never blindly submit a second create transaction"
   (publisher.ts runGreenfield): with lost answers and a lagging provider
   no create is submitted for an object that is on the chain. *)
OneCreate == Publisher!OneCreate

(* A bucket receipt (greenfield-sdk.ts ensureCanaryBucket) is about the
   publisher's own bucket: it is on the chain, or a create is on its way
   (unless the name was taken meanwhile). *)
ReceiptIsOurs ==
  \A i \in DOMAIN receipt :
    /\ receipt[i] = "reused" => bucket = "present" /\ indexed
    /\ receipt[i] = "created" =>
         bucket # "absent" \/ \E j \in DOMAIN mempool : mempool[j].answered + mempool[j].unanswered > 0

(* A report finalized as passed (evidence.ts finalizePhaseZeroEvidence) is
   true of the chain whatever the adapters cached or retried: used within
   its limits, then revoked, then refused. *)
PassedIsTrue == Phase!PassedIsTrue

(* The evidence of a job (t8-inputs.ts, t8-greenfield-publish.ts) is one
   story: the projected run is what the settled rows say, a published run
   bundle names that run and repeats it, and no two operations that were told
   they succeeded recorded different content for the job's run, its bundle or
   its profile, although its agent is reclassified and row files go stale. *)
EvidenceIsSettled == Frozen!EvidenceIsSettled
=============================================================================
