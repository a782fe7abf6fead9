-------------------------- MODULE ExternalDelivery --------------------------
(***************************************************************************)
(* The work of an external mainnet seller on one funded job: the signed    *)
(* offer it was hired on (external-seller.ts, external-seller-provider.ts),*)
(* the buyer's one notification of the seller (external-delivery.ts), and  *)
(* the search for the seller's submission, window by window behind a       *)
(* stored cursor (external-seller-lifecycle.ts refresh).  Requests run     *)
(* concurrently, lose answers and stop anywhere; unfinalized blocks may be *)
(* reorganised, which moves the submission to another block.               *)
(* OnePostPerJob and CursorMissesNothing are the promises of JobPromise.   *)
(***************************************************************************)
EXTENDS Naturals

CONSTANTS
  Procs,      \* the buyer's concurrent requests
  Window,     \* blocks per log query (500)
  MaxWindows, \* log queries per request (10)
  MaxHead,    \* bound on the chain
  MaxReorgs,  \* bound on reorganisations
  None

VARIABLES
  job,      \* "offered", "funded", "submitted" or "completed" on chain
  wallet,   \* the registry's finalized agent wallet is the reviewed one
  head, final,
  block,    \* the block of the seller's submission (0: none)
  delivery, \* external_seller_deliveries row
  posts,    \* notifications the seller received
  proc,
  reorgs

vars == <<job, wallet, head, final, block, delivery, posts, proc, reorgs>>

FundingBlock == 1

Idle == [pc |-> "idle", from |-> 0, to |-> 0, left |-> 0]

Init ==
  /\ job = "none" /\ wallet = TRUE
  /\ head = FundingBlock /\ final = FundingBlock
  /\ block = 0
  /\ delivery = None
  /\ posts = 0
  /\ proc = [p \in Procs |-> Idle]
  /\ reorgs = 0

SetProc(p, pc) == proc' = [proc EXCEPT ![p].pc = pc]

At(p, pc) == proc[p].pc = pc

-----------------------------------------------------------------------------
(***************************************************************************)
(* The offer and the hire.                                                 *)
(***************************************************************************)

\* What is wrong with what the seller publishes, answers or serves.
SellerDefects ==
  {"none", "another card", "other terms", "tampered offer", "unacknowledged", "another pointer", "another manifest"}

\* readIdentity: the reviewed wallet is still the finalized agent wallet.
IdentityRead == wallet

\* binding: the listing is a reviewed seller with its reviewed card.
Bound(d) == d # "another card" /\ IdentityRead

\* negotiate's checks: task, terms, chain, lifetime, hashes and description.
OfferAgrees(d) == d # "other terms"

\* negotiate: the offer is signed by the wallet the registry shows.
Negotiate(d) ==
  /\ job = "none" /\ Bound(d) /\ OfferAgrees(d)
  /\ job' = "offered"
  /\ UNCHANGED <<wallet, head, final, block, delivery, posts, proc, reorgs>>

\* assertQuote: the saved offer is still the signed one.
OfferIntact(d) == d # "tampered offer"

\* resolve verifies the saved offer before the buyer funds the job.
HireOffer(d) ==
  /\ job = "offered" /\ Bound(d) /\ OfferIntact(d)
  /\ job' = "funded"
  /\ UNCHANGED <<wallet, head, final, block, delivery, posts, proc, reorgs>>

\* assertJob for the states a request allows.
JobIn(states, d) == OfferIntact(d) /\ job \in states

-----------------------------------------------------------------------------
(***************************************************************************)
(* notifyExternalSellerOnce.                                               *)
(***************************************************************************)

Notify(p, d) ==
  /\ At(p, "idle") /\ JobIn({"funded", "submitted", "completed"}, d)
  /\ SetProc(p, "claim")
  /\ UNCHANGED <<job, wallet, head, final, block, delivery, posts, reorgs>>

\* INSERT ... ON CONFLICT DO NOTHING, and the row that is there.
Claimed == IF delivery = None THEN [status |-> "claimed", cursor |-> 0] ELSE delivery

(* Mutation: an unfinished claim of another request is taken over. *)
ClaimWonTakesOver == delivery = None \/ delivery.status = "claimed"

\* claimed: the INSERT returned the row.
ClaimWon == delivery = None

Claim(p) ==
  /\ At(p, "claim")
  /\ delivery' = Claimed
  /\ SetProc(p, IF ClaimWon THEN "post" ELSE "idle")
  /\ UNCHANGED <<job, wallet, head, final, block, posts, reorgs>>

\* The seller's answer names this request and this job and accepts it.
Acknowledged(d) == d # "unacknowledged"

\* notifyFunded: the job is read again; the POST may be lost, or only its answer.
Post(p, d) ==
  /\ At(p, "post")
  /\ \/ /\ JobIn({"funded"}, d)
        /\ posts' = posts + 1
        /\ SetProc(p, IF Acknowledged(d) THEN "notified" ELSE "unknown")
     \/ posts' = posts /\ SetProc(p, "unknown")
  /\ UNCHANGED <<job, wallet, head, final, block, delivery, reorgs>>

\* finish: the row is still claimed, or the statement throws.
Finished(status) ==
  IF delivery.status = "claimed" THEN [delivery EXCEPT !.status = status] ELSE delivery

FinishNotified(p) ==
  /\ At(p, "notified")
  /\ delivery' = Finished("notified")
  /\ SetProc(p, IF delivery.status = "claimed" THEN "idle" ELSE "unknown")
  /\ UNCHANGED <<job, wallet, head, final, block, posts, reorgs>>

FinishUnknown(p) ==
  /\ At(p, "unknown")
  /\ delivery' = Finished("unknown")
  /\ SetProc(p, "idle")
  /\ UNCHANGED <<job, wallet, head, final, block, posts, reorgs>>

-----------------------------------------------------------------------------
(***************************************************************************)
(* refresh.                                                                *)
(***************************************************************************)

\* The job at the head has a deliverable; the claim comes before the search.
\* A buyer who supplies the submission's hash skips the search.
Refresh(p, supplied, d) ==
  /\ At(p, "idle") /\ JobIn({"submitted", "completed"}, d)
  /\ delivery' = Claimed
  /\ SetProc(p, IF supplied THEN "record" ELSE "cursor")
  /\ UNCHANGED <<job, wallet, head, final, block, posts, reorgs>>

(* Mutation: the search goes to the head, which may still be reorganised. *)
SearchToHead == head

\* getBlock({ blockTag: "finalized" }).
SearchTo == final

ReadCursor(p) ==
  /\ At(p, "cursor")
  /\ LET from == IF delivery.cursor = 0 THEN FundingBlock ELSE delivery.cursor + 1
     IN proc' = [proc EXCEPT ![p] =
                   IF from <= SearchTo
                   THEN [pc |-> "scan", from |-> from, to |-> SearchTo, left |-> MaxWindows]
                   ELSE Idle]
  /\ UNCHANGED <<job, wallet, head, final, block, delivery, posts, reorgs>>

WindowEnd(p) == IF proc[p].from + Window - 1 < proc[p].to THEN proc[p].from + Window - 1 ELSE proc[p].to

\* One getLogs: it fails, finds the submission, or moves the cursor on.
Scan(p) ==
  /\ At(p, "scan")
  /\ \/ proc' = [proc EXCEPT ![p] = Idle] /\ delivery' = delivery
     \/ /\ block \in proc[p].from .. WindowEnd(p)
        /\ SetProc(p, "record") /\ delivery' = delivery
     \/ /\ block \notin proc[p].from .. WindowEnd(p)
        /\ delivery' = [delivery EXCEPT !.cursor = WindowEnd(p)]
        /\ proc' = [proc EXCEPT ![p] =
                      IF WindowEnd(p) < proc[p].to /\ proc[p].left > 1
                      THEN [pc |-> "scan", from |-> WindowEnd(p) + 1, to |-> proc[p].to, left |-> proc[p].left - 1]
                      ELSE Idle]
  /\ UNCHANGED <<job, wallet, head, final, block, posts, reorgs>>

\* externalSellerDeliverableUrl: one policy event of the receipt names it.
PointerFound(d) == block > 0 /\ d # "another pointer"

\* readResult: the manifest hashes to the job's deliverable.
ManifestCommitted(d) == JobIn({"submitted", "completed"}, d) /\ d # "another manifest"

\* The receipt, the manifest, the recorded operation, and the row.
Record(p, d) ==
  /\ At(p, "record")
  /\ delivery' = IF PointerFound(d) /\ ManifestCommitted(d)
                 THEN [delivery EXCEPT !.status = "result_verified"] ELSE delivery
  /\ proc' = [proc EXCEPT ![p] = Idle]
  /\ UNCHANGED <<job, wallet, head, final, block, posts, reorgs>>

-----------------------------------------------------------------------------
(***************************************************************************)
(* The seller, the registry and the chain.                                 *)
(***************************************************************************)

\* The seller watches the chain and may submit without a notification.
SellerSubmits ==
  /\ job = "funded" /\ head < MaxHead
  /\ head' = head + 1 /\ block' = head + 1
  /\ job' = "submitted"
  /\ UNCHANGED <<wallet, final, delivery, posts, proc, reorgs>>

Settles ==
  /\ job = "submitted" /\ block <= final
  /\ job' = "completed"
  /\ UNCHANGED <<wallet, head, final, block, delivery, posts, proc, reorgs>>

Advance ==
  /\ \/ head < MaxHead /\ head' = head + 1 /\ final' = final
     \/ final < head /\ final' = final + 1 /\ head' = head
  /\ UNCHANGED <<job, wallet, block, delivery, posts, proc, reorgs>>

\* The submission is mined again at another height above the finalized one.
Reorg ==
  /\ block > final /\ reorgs < MaxReorgs
  /\ reorgs' = reorgs + 1
  /\ \E b \in final + 1 .. MaxHead :
       /\ block' = b
       /\ head' = IF b > head THEN b ELSE head
  /\ UNCHANGED <<job, wallet, final, delivery, posts, proc>>

RotateWallet ==
  /\ wallet' = ~wallet
  /\ UNCHANGED <<job, head, final, block, delivery, posts, proc, reorgs>>

Abort(p) ==
  /\ ~At(p, "idle")
  /\ proc' = [proc EXCEPT ![p] = Idle]
  /\ UNCHANGED <<job, wallet, head, final, block, delivery, posts, reorgs>>

RequestStep(p) ==
  \/ Claim(p) \/ FinishNotified(p) \/ FinishUnknown(p) \/ ReadCursor(p) \/ Scan(p) \/ Abort(p)
  \/ \E d \in SellerDefects : Notify(p, d) \/ Post(p, d) \/ Record(p, d)
  \/ \E d \in SellerDefects, supplied \in BOOLEAN : Refresh(p, supplied, d)

Next ==
  \/ \E d \in SellerDefects : Negotiate(d) \/ HireOffer(d)
  \/ SellerSubmits \/ Settles \/ Advance \/ Reorg \/ RotateWallet
  \/ \E p \in Procs : RequestStep(p)

Spec == Init /\ [][Next]_vars
=============================================================================
