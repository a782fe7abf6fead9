----------------------------- MODULE MC_Records -----------------------------
(***************************************************************************)
(* The records kept beside the escrow, for TLC: evidence publication       *)
(* (Greenfield, GreenfieldBucket), reviews (Reviews), agent payments       *)
(* (PaymentGateway), the evidence of an authority (PhaseZero) and that of a*)
(* settled job (FrozenEvidence).  A behaviour is one scene: one of the     *)
(* components in one environment, the others at rest in their initial      *)
(* states, so that what RecordsPromise says of them holds in every scene.  *)
(* The publisher of the configuration (scene "lost") has lost answers and a*)
(* lagging provider, but no call stops or is refused: OneCreate is about   *)
(* that scene alone.  Two operators freeze and publish one job for two     *)
(* environments.                                                           *)
(***************************************************************************)
EXTENDS Reviews, RecordsPromise

VARIABLES scene,
  recreated,                          \* duplicate, where calls stop or keys compete
  canaryBucketUnknown, pc, ensured,   \* GreenfieldBucket, with those of RecordsPromise
  replay, call, late, calls           \* PaymentGateway, likewise

publisherVars == <<att, locators, verifs, evidence, object, worker, published, duplicate, recreated>>
reviewVars == vars
bucketVars == <<bucket, indexed, mempool, canaryBucketUnknown, pc, receipt, ensured>>
paymentVars == <<db, replay, call, late, calls, relays>>
phaseVars == <<clock, input, session, attempts, step, ev>>
jobEvidenceVars == <<facts, agentRun, inserting, proc, files, objects, reported>>

-----------------------------------------------------------------------------
(* Every fault of the publisher, two calls. *)
Faulty == INSTANCE Greenfield WITH
  Workers <- Callers, Attempts <- {"a"}, MaxCalls <- 2, MaxSealPolls <- 2,
  Faults <- {"crash", "expire", "lost", "lag", "provider", "corrupt"},
  chain <- object, calls <- published, duplicate <- recreated

(* Several attempts for one artifact: two keys, the other provider, a size limit. *)
Rivals == INSTANCE Greenfield WITH
  Workers <- Callers, Attempts <- {"a", "b", "i", "z"}, MaxCalls <- 3, MaxSealPolls <- 1, Faults <- {"corrupt"},
  chain <- object, calls <- published, duplicate <- recreated

Bucket == INSTANCE GreenfieldBucket WITH Instances <- Callers, MaxCalls <- 4, calls <- ensured

(* One attempt through the statuses that end it. *)
Ends == INSTANCE PaymentGateway WITH
  Challenges <- {"c"}, Keys <- 1..5, ReceiptIds <- {"r1"},
  Statuses <- {"authorized", "relay_pending", "rejected", "unknown", "manual_review", "expired"},
  Observed <- {}, Outside <- {"replay"}, MaxCalls <- 5

(* One attempt through relay and settlement to delivery, with receipts. *)
Pays == INSTANCE PaymentGateway WITH
  Challenges <- {"c"}, Keys <- 1..7, ReceiptIds <- {"r1"}, Callers <- {"p"},
  Statuses <- {"authorized", "relay_pending", "relayed", "unknown", "settlement_pending", "settled", "delivered"},
  Observed <- {"settled", "unknown"}, Outside <- {}, MaxCalls <- 8

(* Concurrent relays of one attempt, and writes outside transactions. *)
Relays == INSTANCE PaymentGateway WITH
  Challenges <- {"c"}, Keys <- 1..4, ReceiptIds <- {"r1"},
  Statuses <- {"authorized", "relay_pending"}, Observed <- {}, Outside <- {"reconciliation", "challenge"}, MaxCalls <- 4

(* Values of the configuration for one authority that is granted, used and
   revoked.  The third policy expires early, the second would have to be
   granted in the place of the first. *)
Charge(b, n) == [bucket |-> b, amount |-> n]
Swap == [call |-> "swap", value |-> 0, spends |-> <<Charge("usdt", 1), Charge("usdt", 1)>>]
Send == [call |-> "swap", value |-> 1, spends |-> <<Charge("native", 1)>>]
Reviewed == [chain |-> 97, calls |-> {"swap"}, maxNative |-> 1, expires |-> 4,
             spend |-> [b \in {"usdt", "native"} |-> 2]]

AskedPolicies == {Reviewed, [Reviewed EXCEPT !.spend = [b \in {"usdt"} |-> 3]], [Reviewed EXCEPT !.expires = 2]}
AskedActions == {Swap, Send}
ChargedBefore == {<<>>, <<Charge("usdt", 1)>>}

PublisherInit == \/ scene = "faulty" /\ Faulty!Init /\ duplicate = FALSE
                 \/ scene = "lost" /\ Publisher!Init /\ recreated = FALSE
                 \/ scene = "keys" /\ Rivals!Init /\ duplicate = FALSE

PublisherNext == \/ scene = "faulty" /\ Faulty!Next /\ UNCHANGED duplicate
                 \/ scene = "lost" /\ Publisher!Next /\ UNCHANGED recreated
                 \/ scene = "keys" /\ Rivals!Next /\ UNCHANGED duplicate

PaymentInit == \/ scene = "ends" /\ Ends!Init
               \/ scene = "pays" /\ Pays!Init
               \/ scene = "relays" /\ Relays!Init

PaymentNext == \/ scene = "ends" /\ Ends!Next
               \/ scene = "pays" /\ Pays!Next
               \/ scene = "relays" /\ Relays!Next

(* The components at rest. *)
NoReviews == Init
NoPayments == Ends!Init
NoPublisher == Publisher!Init /\ recreated = FALSE
NoBucket == Bucket!Init
NoPhase == Phase!Init
NoJobEvidence ==
  /\ facts = Missing /\ agentRun = Missing /\ inserting = Missing /\ proc = Missing
  /\ files = Missing /\ objects = [t \in {"agent_profile", "run_bundle"} |-> Missing] /\ reported = {}

RecordsInit ==
  \/ PublisherInit /\ NoBucket /\ NoReviews /\ NoPayments /\ NoPhase /\ NoJobEvidence
  \/ scene = "bucket" /\ Bucket!Init /\ NoPublisher /\ NoReviews /\ NoPayments /\ NoPhase /\ NoJobEvidence
  \/ scene = "reviews" /\ Init /\ NoPublisher /\ NoBucket /\ NoPayments /\ NoPhase /\ NoJobEvidence
  \/ PaymentInit /\ NoPublisher /\ NoBucket /\ NoReviews /\ NoPhase /\ NoJobEvidence
  \/ scene = "phase" /\ Phase!Init /\ NoPublisher /\ NoBucket /\ NoReviews /\ NoPayments /\ NoJobEvidence
  \/ scene = "frozen" /\ Frozen!Init /\ NoPublisher /\ NoBucket /\ NoReviews /\ NoPayments /\ NoPhase

RecordsNext ==
  /\ \/ PublisherNext /\ UNCHANGED <<bucketVars, reviewVars, paymentVars, phaseVars, jobEvidenceVars>>
     \/ scene = "bucket" /\ Bucket!Next /\ UNCHANGED <<publisherVars, reviewVars, paymentVars, phaseVars, jobEvidenceVars>>
     \/ scene = "reviews" /\ Next /\ UNCHANGED <<publisherVars, bucketVars, paymentVars, phaseVars, jobEvidenceVars>>
     \/ PaymentNext /\ UNCHANGED <<publisherVars, bucketVars, reviewVars, phaseVars, jobEvidenceVars>>
     \/ /\ scene = "phase" /\ Phase!Next
        /\ UNCHANGED <<publisherVars, bucketVars, reviewVars, paymentVars, jobEvidenceVars>>
     \/ /\ scene = "frozen" /\ Frozen!Next
        /\ UNCHANGED <<publisherVars, bucketVars, reviewVars, paymentVars, phaseVars>>
  /\ UNCHANGED scene

RecordsSpec == RecordsInit /\ [][RecordsNext]_<<scene, publisherVars, bucketVars, reviewVars, paymentVars, phaseVars, jobEvidenceVars>>

(* The idempotency keys of payments are taken in order: keys are only
   compared for equality, so every other choice renames one of these. *)
KeysInOrder ==
  /\ scene = "ends" => Ends!KeysInOrder
  /\ scene = "pays" => Pays!KeysInOrder
  /\ scene = "relays" => Relays!KeysInOrder
=============================================================================
